------------------------- MODULE ResponseParserProofs -------------------------
(***************************************************************************)
(* Proofs about ResponseParser for texts of any length.                    *)
(***************************************************************************)
EXTENDS ResponseParser, FiniteSetTheorems, WellFoundedInduction, TLAPS

-----------------------------------------------------------------------------
(* Least and greatest numbers, from the well-foundedness of < on Nat.      *)

Less == {p \in Nat \X Nat : p[1] < p[2]}

LEMMA Least ==
  ASSUME NEW T \in SUBSET Nat, T # {}
  PROVE  \E x \in T : \A y \in T : x <= y
<1>1. IsWellFoundedOn(Less, Nat)
  BY NatLessThanWellFounded, Zenon DEF OpToRel, Less
<1>2. PICK x \in T : \A y \in T : <<y, x>> \notin Less
  BY <1>1, WFMin, Zenon
<1>3. ASSUME NEW y \in T PROVE x <= y
  <2>1. <<y, x>> \in Nat \X Nat /\ <<y, x>>[1] = y /\ <<y, x>>[2] = x
    OBVIOUS
  <2>. QED  BY <1>2, <2>1 DEF Less
<1>. QED  BY <1>3

LEMMA MinFacts ==
  ASSUME NEW T \in SUBSET Nat, T # {}
  PROVE  Min(T) \in T /\ \A y \in T : Min(T) <= y
BY Least DEF Min

LEMMA MaxFacts ==
  ASSUME NEW n \in Nat, NEW T \in SUBSET (1 .. n), T # {}
  PROVE  Max(T) \in T /\ \A y \in T : y <= Max(T)
<1> DEFINE U == {m \in Nat : n - m \in T}
<1>1. U # {}
  <2>1. PICK x \in T : x \in 1 .. n
    OBVIOUS
  <2>2. n - x \in Nat /\ n - (n - x) = x
    BY <2>1
  <2>. QED  BY <2>1, <2>2
<1>2. PICK u \in U : \A m \in U : u <= m
  BY <1>1, Least
<1>3. ASSUME NEW y \in T PROVE n - u >= y
  <2>1. y \in 1 .. n /\ n - y \in Nat /\ n - (n - y) = y
    OBVIOUS
  <2>2. n - y \in U
    BY <2>1
  <2>3. u <= n - y /\ u \in Nat
    BY <1>2, <2>2
  <2>. QED  BY <2>1, <2>3
<1>4. n - u \in T
  OBVIOUS
<1>5. \A y \in T : y \in 1 .. n
  OBVIOUS
<1> HIDE DEF U
<1>6. \E x \in T : \A y \in T : x >= y
  BY <1>3, <1>4
<1>7. Max(T) \in T /\ \A y \in T : Max(T) >= y
  BY <1>6 DEF Max
<1>. QED  BY <1>5, <1>7

-----------------------------------------------------------------------------
(* Counting tokens.                                                        *)

LEMMA PlacesFinite ==
  ASSUME NEW s, NEW i \in Int, NEW j \in Int, NEW T
  PROVE  /\ IsFiniteSet({k \in i .. j : s[k] \in T})
         /\ Cardinality({k \in i .. j : s[k] \in T}) \in Nat
<1> DEFINE A == {k \in i .. j : s[k] \in T}
<1>1. IsFiniteSet(A)
  BY FS_Interval, FS_Subset
<1>2. Cardinality(A) \in Nat
  BY <1>1, FS_CardinalityType
<1>. QED  BY <1>1, <1>2

LEMMA CountType ==
  ASSUME NEW s, NEW i \in Int, NEW j \in Int, NEW T
  PROVE  /\ Count(s, i, j, T) \in Nat
         /\ j < i => Count(s, i, j, T) = 0
<1> DEFINE A == {k \in i .. j : s[k] \in T}
<1>1. Cardinality(A) \in Nat
  BY PlacesFinite
<1>2. j < i => A = {}
  OBVIOUS
<1> HIDE DEF A
<1>3. j < i => Cardinality(A) = 0
  BY <1>2, FS_EmptySet
<1>. QED  BY <1>1, <1>3 DEF Count, A

LEMMA CountNext ==
  ASSUME NEW s, NEW i \in Int, NEW j \in Int, i <= j + 1, NEW T
  PROVE  Count(s, i, j + 1, T) = Count(s, i, j, T) + (IF s[j + 1] \in T THEN 1 ELSE 0)
<1> DEFINE A == {k \in i .. j : s[k] \in T}  B == {k \in i .. (j + 1) : s[k] \in T}
<1>1. IsFiniteSet(A)
  BY PlacesFinite
<1>2. Cardinality(A) \in Nat
  BY PlacesFinite
<1>3. j + 1 \notin A
  OBVIOUS
<1>4. CASE s[j + 1] \in T
  <2>1. B = A \cup {j + 1}
    BY <1>4
  <2> HIDE DEF A, B
  <2>2. Cardinality(B) = Cardinality(A) + 1
    BY <1>1, <1>3, <2>1, FS_AddElement
  <2>. QED  BY <1>4, <2>2 DEF Count, A, B
<1>5. CASE s[j + 1] \notin T
  <2>1. B = A
    <3>1. ASSUME NEW k \in B PROVE k \in A
      <4>1. k # j + 1 /\ k \in i .. (j + 1)
        BY <1>5
      <4>2. k \in i .. j
        BY <4>1
      <4>. QED  BY <4>2
    <3>2. A \subseteq B
      OBVIOUS
    <3>. QED  BY <3>1, <3>2
  <2> HIDE DEF A, B
  <2>. QED  BY <1>2, <1>5, <2>1 DEF Count, A, B
<1>. QED  BY <1>4, <1>5

LEMMA CountParts ==
  ASSUME NEW s, NEW i \in Int, NEW m \in Int, NEW j \in Int, i <= m + 1, m <= j, NEW T
  PROVE  Count(s, i, j, T) = Count(s, i, m, T) + Count(s, m + 1, j, T)
<1> DEFINE A == {k \in i .. m : s[k] \in T}
           B == {k \in (m + 1) .. j : s[k] \in T}
           C == {k \in i .. j : s[k] \in T}
<1>1. IsFiniteSet(A) /\ IsFiniteSet(B)
  <2>1. m + 1 \in Int
    OBVIOUS
  <2>. QED  BY <2>1, PlacesFinite
<1>2. C = A \cup B /\ A \cap B = {}
  <2>1. i .. j = (i .. m) \cup ((m + 1) .. j) /\ (i .. m) \cap ((m + 1) .. j) = {}
    OBVIOUS
  <2>. QED  BY <2>1
<1> HIDE DEF A, B, C
<1>3. Cardinality(C) = Cardinality(A) + Cardinality(B) - Cardinality(A \cap B)
  BY <1>1, <1>2, FS_Union
<1>4. Cardinality(A \cap B) = 0 /\ Cardinality(A) \in Nat /\ Cardinality(B) \in Nat
  BY <1>1, <1>2, FS_EmptySet, FS_CardinalityType
<1>5. Cardinality(C) = Cardinality(A) + Cardinality(B)
  BY <1>3, <1>4
<1>. QED  BY <1>5 DEF Count, A, B, C

(* A part of a sequence counts like the places it was cut from.            *)
LEMMA CountShifted ==
  ASSUME NEW S, NEW s \in Seq(S), NEW i \in 1 .. Len(s), NEW j \in i .. Len(s), NEW T
  PROVE  \A n \in 0 .. (j - i + 1) :
           Count(SubSeq(s, i, j), 1, n, T) = Count(s, i, i + n - 1, T)
<1> DEFINE p == SubSeq(s, i, j)
           Wrong == {n \in 0 .. (j - i + 1) : Count(p, 1, n, T) # Count(s, i, i + n - 1, T)}
<1>1. SUFFICES ASSUME Wrong # {} PROVE FALSE
  OBVIOUS
<1>2. Wrong \in SUBSET Nat
  OBVIOUS
<1>3. PICK n \in Wrong : \A m \in Wrong : n <= m
  BY <1>1, <1>2, Least
<1>4. n \in 0 .. (j - i + 1) /\ Count(p, 1, n, T) # Count(s, i, i + n - 1, T)
  OBVIOUS
<1>5. i \in Int /\ i - 1 \in Int /\ 0 \in Int /\ 1 \in Int /\ i + 0 - 1 = i - 1 /\ i - 1 < i
  OBVIOUS
<1>6. \A k \in 1 .. (j - i + 1) : p[k] = s[i + k - 1]
  OBVIOUS
<1>7. Count(p, 1, 0, T) = 0 /\ Count(s, i, i + 0 - 1, T) = 0
  BY <1>5, CountType
<1>8. n # 0
  BY <1>4, <1>7
<1> DEFINE m == n - 1
<1>9. /\ m \in 0 .. (j - i + 1) /\ m \in Int /\ n = m + 1 /\ m < n
      /\ i + m - 1 \in Int /\ i + n - 1 = (i + m - 1) + 1 /\ i <= (i + m - 1) + 1 /\ 1 <= m + 1
  BY <1>4, <1>5, <1>8
<1>10. n \in Nat /\ m \notin Wrong
  BY <1>3, <1>4, <1>9
<1> HIDE DEF p, m
<1>11. Count(p, 1, m, T) = Count(s, i, i + m - 1, T)
  BY <1>9, <1>10
<1> HIDE DEF Wrong
<1>12. Count(p, 1, m + 1, T) = Count(p, 1, m, T) + (IF p[m + 1] \in T THEN 1 ELSE 0)
  BY <1>5, <1>9, CountNext
<1>13. Count(s, i, (i + m - 1) + 1, T)
         = Count(s, i, i + m - 1, T) + (IF s[(i + m - 1) + 1] \in T THEN 1 ELSE 0)
  BY <1>5, <1>9, CountNext
<1>14. p[m + 1] = s[(i + m - 1) + 1]
  BY <1>4, <1>6, <1>8, <1>9
<1>. QED  BY <1>4, <1>9, <1>11, <1>12, <1>13, <1>14

-----------------------------------------------------------------------------
(* How deep the scan is.                                                   *)

LEMMA DepthType ==
  ASSUME NEW i \in Int, NEW j \in Int
  PROVE  Depth(i, j) \in Int
<1>1. Count(text, i, j, Opening) \in Nat /\ Count(text, i, j, Closing) \in Nat
  BY CountType
<1>. QED  BY <1>1 DEF Depth

(* One token changes it by at most one.                                    *)
LEMMA DepthNext ==
  ASSUME NEW i \in Int, NEW j \in Int, i <= j + 1
  PROVE  /\ Depth(i, j + 1) >= Depth(i, j) - 1
         /\ text[j + 1] \in Opening => Depth(i, j + 1) = Depth(i, j) + 1
<1>1. /\ Count(text, i, j + 1, Opening)
           = Count(text, i, j, Opening) + (IF text[j + 1] \in Opening THEN 1 ELSE 0)
      /\ Count(text, i, j + 1, Closing)
           = Count(text, i, j, Closing) + (IF text[j + 1] \in Closing THEN 1 ELSE 0)
  BY CountNext
<1>2. Count(text, i, j, Opening) \in Nat /\ Count(text, i, j, Closing) \in Nat
  BY CountType
<1>3. text[j + 1] \in Opening => text[j + 1] \notin Closing
  BY DEF Opening, Closing
<1>. QED  BY <1>1, <1>2, <1>3 DEF Depth

LEMMA DepthParts ==
  ASSUME NEW i \in Int, NEW m \in Int, NEW j \in Int, i <= m + 1, m <= j
  PROVE  Depth(i, j) = Depth(i, m) + Depth(m + 1, j)
<1>1. m + 1 \in Int
  OBVIOUS
<1>2. /\ Count(text, i, j, Opening) = Count(text, i, m, Opening) + Count(text, m + 1, j, Opening)
      /\ Count(text, i, j, Closing) = Count(text, i, m, Closing) + Count(text, m + 1, j, Closing)
  BY CountParts
<1>3. /\ Count(text, i, m, Opening) \in Nat /\ Count(text, m + 1, j, Opening) \in Nat
      /\ Count(text, i, m, Closing) \in Nat /\ Count(text, m + 1, j, Closing) \in Nat
  BY <1>1, CountType
<1>. QED  BY <1>2, <1>3 DEF Depth

(* Behind a brace that opens, the depth is positive until it is zero.      *)
LEMMA DepthReachesZero ==
  ASSUME NEW i \in Nat, text[i] \in Opening, NEW j \in Nat, i <= j, Depth(i, j) <= 0
  PROVE  \E e \in i .. j : Depth(i, e) = 0
<1> DEFINE Down == {m \in Nat : i <= m /\ Depth(i, m) <= 0}
<1>1. j \in Down /\ Down \in SUBSET Nat
  OBVIOUS
<1>2. PICK e \in Down : \A m \in Down : e <= m
  BY <1>1, Least
<1>3. e \in Nat /\ i <= e /\ Depth(i, e) <= 0 /\ e <= j
  BY <1>1, <1>2
<1> DEFINE d == e - 1
<1>4. d \in Int /\ e = d + 1 /\ i <= d + 1 /\ d < e /\ i \in Int
  BY <1>3
<1>5. Depth(i, d + 1) >= Depth(i, d) - 1
      /\ (text[d + 1] \in Opening => Depth(i, d + 1) = Depth(i, d) + 1)
  BY <1>4, DepthNext
<1>6. Depth(i, d) \in Int /\ Depth(i, e) \in Int
  BY <1>3, <1>4, DepthType
<1>7. e # i
  <2>1. SUFFICES ASSUME e = i PROVE FALSE
    OBVIOUS
  <2>2. Count(text, i, d, Opening) = 0 /\ Count(text, i, d, Closing) = 0
    BY <1>4, <2>1, CountType
  <2>3. Depth(i, d) = 0
    BY <2>2 DEF Depth
  <2>4. Depth(i, d + 1) = 1
    BY <1>4, <1>5, <2>1, <2>3
  <2>. QED  BY <1>3, <1>4, <2>4
<1>8. d \in Nat /\ i <= d /\ d \notin Down
  <2>1. d \in Nat /\ i <= d
    BY <1>3, <1>4, <1>7
  <2>2. ~(e <= d)
    BY <1>3, <1>4
  <2>. QED  BY <1>2, <2>1, <2>2
<1>9. Depth(i, d) > 0
  BY <1>6, <1>8
<1> HIDE DEF Down, d
<1>10. Depth(i, e) = 0
  BY <1>3, <1>4, <1>5, <1>6, <1>9
<1>. QED  BY <1>3, <1>10

-----------------------------------------------------------------------------
(* Objects and the blocks the scan sees.                                   *)

LEMMA PartFacts ==
  ASSUME text \in Seq(Tokens), NEW i \in DOMAIN text, NEW j \in i .. Len(text)
  PROVE  /\ Len(Part(i, j)) = j - i + 1
         /\ \A k \in i .. j : Part(i, j)[k - i + 1] = text[k]
         /\ i \in 1 .. Len(text) /\ j \in DOMAIN text /\ Len(text) \in Nat
BY DEF Part

LEMMA ObjectTokens ==
  ASSUME text \in Seq(Tokens), NEW i \in DOMAIN text, NEW j \in i .. Len(text),
         IsObject(Part(i, j))
  PROVE  /\ text[i] = "{"
         /\ \A k \in i .. j : text[k] \in {"{", "}", "member", "member {", "member }", "key"}
<1>1. /\ Len(Part(i, j)) = j - i + 1
      /\ \A k \in i .. j : Part(i, j)[k - i + 1] = text[k]
      /\ i \in Nat /\ j \in Nat /\ i \in i .. j
  BY PartFacts
<1>2. Part(i, j)[1] = "{"
  BY DEF IsObject
<1>3. ASSUME NEW k \in i .. j
      PROVE  text[k] \in {"{", "}", "member", "member {", "member }", "key"}
  <2>1. k - i + 1 \in 1 .. Len(Part(i, j))
    BY <1>1
  <2>2. Part(i, j)[k - i + 1] \in {"{", "}", "member", "member {", "member }", "key"}
    BY <2>1 DEF IsObject
  <2>. QED  BY <1>1, <2>2
<1>4. Part(i, j)[i - i + 1] = text[i] /\ i - i + 1 = 1
  BY <1>1
<1>. QED  BY <1>2, <1>3, <1>4

(* Without braces in strings the scan's depth is the level of nesting.     *)
LEMMA ObjectDepth ==
  ASSUME text \in Seq(Tokens), Plain, NEW i \in DOMAIN text, NEW j \in i .. Len(text),
         IsObject(Part(i, j)), NEW m \in i .. j
  PROVE  Depth(i, m) >= 0 /\ (Depth(i, m) = 0 <=> m = j)
<1> DEFINE s == Part(i, j)  n == m - i + 1
<1>1. /\ Len(s) = j - i + 1 /\ i \in 1 .. Len(text) /\ Len(text) \in Nat
      /\ i \in Nat /\ j \in Nat /\ m \in Nat /\ i \in Int /\ m \in Int
  BY PartFacts
<1>2. n \in 0 .. (j - i + 1) /\ n \in 1 .. Len(s) /\ i + n - 1 = m
  BY <1>1
<1>3. \A T : Count(s, 1, n, T) = Count(text, i, i + n - 1, T)
  BY <1>1, <1>2, CountShifted DEF Part
<1>4. \A T : Count(s, 1, n, T) = Count(text, i, m, T)
  BY <1>2, <1>3
<1>5. ASSUME NEW k \in i .. m
      PROVE  /\ text[k] \in Opening <=> text[k] \in {"{"}
             /\ text[k] \in Closing <=> text[k] \in {"}"}
  <2>1. k \in DOMAIN text
    BY <1>1
  <2>2. text[k] \notin {"member {", "member }"}
    BY <2>1 DEF Plain
  <2>. QED  BY <2>2 DEF Opening, Closing
<1>6. /\ Count(text, i, m, Opening) = Count(text, i, m, {"{"})
      /\ Count(text, i, m, Closing) = Count(text, i, m, {"}"})
  <2>1. {k \in i .. m : text[k] \in Opening} = {k \in i .. m : text[k] \in {"{"}}
    BY <1>5
  <2>2. {k \in i .. m : text[k] \in Closing} = {k \in i .. m : text[k] \in {"}"}}
    BY <1>5
  <2>. QED  BY <2>1, <2>2 DEF Count
<1> HIDE DEF s, n
<1>7. Level(s, n) = Depth(i, m)
  BY <1>4, <1>6 DEF Level, Depth
<1>8. (Level(s, n) > 0 <=> n < Len(s)) /\ Level(s, Len(s)) = 0
  BY <1>2 DEF IsObject, s
<1>9. CASE m = j
  <2>1. n = Len(s)
    BY <1>1, <1>9 DEF n
  <2>. QED  BY <1>7, <1>8, <1>9, <2>1
<1>10. CASE m # j
  <2>1. n < Len(s)
    BY <1>1, <1>10 DEF n
  <2>2. Depth(i, m) > 0
    BY <1>7, <1>8, <2>1
  <2>3. Depth(i, m) \in Int
    BY <1>1, DepthType
  <2>. QED  BY <1>10, <2>2, <2>3
<1>. QED  BY <1>9, <1>10

(* The scan's block at the start of an object is that object.              *)
LEMMA ObjectIsBlock ==
  ASSUME text \in Seq(Tokens), Plain, NEW i \in DOMAIN text, NEW j \in i .. Len(text),
         IsObject(Part(i, j))
  PROVE  text[i] \in Opening /\ Ends(i) # {} /\ Min(Ends(i)) = j
<1>1. text[i] \in Opening
  BY ObjectTokens DEF Opening
<1>2. i \in 1 .. Len(text) /\ Len(text) \in Nat /\ j \in i .. j
  BY PartFacts
<1>3. j \in Ends(i) /\ Ends(i) \in SUBSET Nat
  BY <1>2, ObjectDepth DEF Ends
<1>4. Min(Ends(i)) \in Ends(i) /\ Min(Ends(i)) <= j
  BY <1>3, MinFacts
<1>5. Min(Ends(i)) \in i .. j /\ Depth(i, Min(Ends(i))) = 0
  BY <1>2, <1>4 DEF Ends
<1>6. Min(Ends(i)) = j
  BY <1>5, ObjectDepth
<1>. QED  BY <1>1, <1>3, <1>6

(* A block that starts before an object ends before it starts or behind    *)
(* its end.                                                                *)
LEMMA BlocksNest ==
  ASSUME text \in Seq(Tokens), Plain, NEW i \in DOMAIN text, NEW j \in i .. Len(text),
         IsObject(Part(i, j)),
         NEW k \in DOMAIN text, k < i, text[k] \in Opening, Ends(k) # {}
  PROVE  Min(Ends(k)) < i \/ Min(Ends(k)) > j
<1> DEFINE m == Min(Ends(k))  d == i - 1
<1>1. /\ i \in 1 .. Len(text) /\ Len(text) \in Nat /\ k \in 1 .. Len(text)
      /\ k \in Nat /\ d \in Nat /\ d \in Int /\ k \in Int /\ k <= d /\ k <= d + 1 /\ d + 1 = i
  BY PartFacts
<1>2. Ends(k) \in SUBSET Nat
  BY <1>1 DEF Ends
<1>3. m \in Ends(k) /\ \A e \in Ends(k) : m <= e
  BY <1>2, MinFacts
<1>4. m \in k .. Len(text) /\ Depth(k, m) = 0 /\ m \in Int
  BY <1>1, <1>3 DEF Ends
<1> SUFFICES ASSUME m \in i .. j PROVE FALSE
  BY <1>1, <1>4
<1>5. Depth(i, m) >= 0 /\ Depth(i, m) \in Int /\ Depth(k, d) \in Int
  BY <1>1, <1>4, ObjectDepth, DepthType
<1>6. d <= m
  BY <1>1
<1> HIDE DEF m, d
<1>7. Depth(k, m) = Depth(k, d) + Depth(d + 1, m)
  BY <1>1, <1>4, <1>6, DepthParts
<1>8. Depth(k, d) <= 0
  BY <1>1, <1>4, <1>5, <1>7
<1>9. PICK e \in k .. d : Depth(k, e) = 0
  BY <1>1, <1>8, DepthReachesZero
<1>10. e \in Ends(k) /\ e < i
  BY <1>1, <1>9 DEF Ends
<1>. QED  BY <1>1, <1>3, <1>10

-----------------------------------------------------------------------------
(* Where the answer starts.                                                *)

LEMMA AnswerStartFacts ==
  ASSUME text \in Seq(Tokens)
  PROVE  /\ AnswerStart \in 1 .. Len(text) + 1 /\ AnswerStart \in Nat
         /\ Closings = {} => AnswerStart = 1
         /\ Len(text) \notin Closings => \A i \in Closings : i < AnswerStart
<1> DEFINE m == Max(Closings)
<1>1. /\ Len(text) \in Nat /\ Closings \in SUBSET (1 .. Len(text))
      /\ \A i \in Closings : i \in 1 .. Len(text)
  BY DEF Closings
<1>2. Closings # {} => m \in Closings /\ \A i \in Closings : i <= m
  BY <1>1, MaxFacts
<1>3. AnswerStart = IF Closings = {} \/ m = Len(text) THEN 1 ELSE m + 1
  BY DEF AnswerStart
<1> HIDE DEF m
<1>4. CASE Closings = {} \/ m = Len(text)
  BY <1>1, <1>2, <1>3, <1>4
<1>5. CASE ~(Closings = {} \/ m = Len(text))
  <2>1. m \in 1 .. Len(text) /\ AnswerStart = m + 1
    BY <1>1, <1>2, <1>3, <1>5
  <2>. QED  BY <1>1, <1>2, <1>5, <2>1
<1>. QED  BY <1>4, <1>5

(* An object behind the reasoning that reaches to the end is the answer.   *)
LEMMA CleanAnswerStart ==
  ASSUME text \in Seq(Tokens), NEW i \in DOMAIN text, i = 1 \/ text[i - 1] = "</think>",
         IsObject(Part(i, Len(text)))
  PROVE  AnswerStart = i
<1>1. Len(text) \in Nat /\ Len(text) \in i .. Len(text) /\ i \in 1 .. Len(text)
  OBVIOUS
<1>2. \A k \in i .. Len(text) : text[k] # "</think>"
  BY <1>1, ObjectTokens
<1>3. \A k \in Closings : k \in 1 .. Len(text) /\ k < i
  BY <1>1, <1>2 DEF Closings
<1>4. Len(text) \notin Closings
  BY <1>1, <1>3
<1>5. CASE i = 1
  <2>1. Closings = {}
    BY <1>3, <1>5
  <2>. QED  BY <1>5, <2>1, AnswerStartFacts
<1>6. CASE i # 1
  <2>1. i - 1 \in Closings
    BY <1>1, <1>6 DEF Closings
  <2>2. Max(Closings) \in Closings /\ i - 1 <= Max(Closings)
    <3>1. Closings \in SUBSET (1 .. Len(text)) /\ Closings # {}
      BY <1>3, <2>1
    <3>. QED  BY <1>1, <2>1, <3>1, MaxFacts
  <2>3. Max(Closings) = i - 1
    BY <1>1, <1>3, <2>2
  <2>. QED  BY <1>1, <1>4, <2>1, <2>3 DEF AnswerStart
<1>. QED  BY <1>5, <1>6

(* What the properties say of the result follows from where the search     *)
(* began and from what was tried first.                                    *)
LEMMA AnswerFollows ==
  TypeOK /\ found \in Bounds /\ WholeFirst => CleanAnswerIsReturned /\ ReasoningOnlyAsFallback
<1> SUFFICES ASSUME TypeOK, found \in Bounds, WholeFirst
             PROVE  CleanAnswerIsReturned /\ ReasoningOnlyAsFallback
  OBVIOUS
<1>1. text \in Seq(Tokens) /\ Len(text) \in Nat /\ searchStart \in Nat
  BY DEF TypeOK
<1>2. CleanAnswerIsReturned
  <2>1. ASSUME NEW i \in DOMAIN text, i = 1 \/ text[i - 1] = "</think>",
               IsObject(Part(i, Len(text))), phase \in {"returned", "raised"}
        PROVE  found = [first |-> i, last |-> Len(text)]
    <3>1. AnswerStart = i
      BY <1>1, <2>1, CleanAnswerStart
    <3>2. IsJson(Part(AnswerStart, Len(text)))
      BY <2>1, <3>1 DEF IsJson
    <3>. QED  BY <2>1, <3>1, <3>2 DEF WholeFirst
  <2>. QED  BY <2>1 DEF CleanAnswerIsReturned
<1>3. ReasoningOnlyAsFallback
  <2>1. ASSUME phase = "returned", NEW i \in Closings, found.first <= i,
               Len(text) \notin Closings
        PROVE  FALSE
    <3>1. i < AnswerStart /\ AnswerStart \in Nat /\ i \in Nat
      BY <1>1, <2>1, AnswerStartFacts DEF Closings
    <3>2. AnswerStart <= searchStart /\ searchStart <= found.first /\ found.first \in Nat
      BY <2>1 DEF WholeFirst, Bounds
    <3>. QED  BY <1>1, <2>1, <3>1, <3>2
  <2>. QED  BY <2>1 DEF ReasoningOnlyAsFallback
<1>. QED  BY <1>2, <1>3

-----------------------------------------------------------------------------
(* The invariant.                                                          *)

Core == TypeOK /\ found \in Bounds /\ WholeFirst /\ NothingPassedOver /\ ObjectsAreFound

LEMMA IInvParts == IInv <=> Core
BY AnswerFollows DEF IInv, Core

(* Everything that is said of the text alone stays true.                   *)
LEMMA TextKept ==
  ASSUME text' = text
  PROVE  /\ AnswerStart' = AnswerStart /\ (Plain' <=> Plain)
         /\ \A i, j : Part(i, j)' = Part(i, j)
         /\ \A i, j : ObjectAt(i, j)' <=> ObjectAt(i, j)
         /\ \A i, j : InTheWay(i, j)' <=> InTheWay(i, j)
<1>1. AnswerStart' = AnswerStart
  BY DEF AnswerStart, Closings
<1>2. \A i, j : Part(i, j)' = Part(i, j)
  BY DEF Part
<1>3. \A i : Ends(i)' = Ends(i)
  BY DEF Ends, Depth
<1>. QED  BY <1>1, <1>2, <1>3 DEF Plain, ObjectAt, InTheWay, Part

LEMMA InitInvariant == Init => Core
<1> SUFFICES ASSUME Init PROVE Core
  OBVIOUS
<1>1. text \in Seq(Tokens) /\ Len(text) \in Nat
  BY ParserAssumption DEF Init
<1>2. AnswerStart \in 1 .. Len(text) + 1 /\ AnswerStart \in Nat
  BY <1>1, AnswerStartFacts
<1>3. TypeOK /\ found \in Bounds /\ WholeFirst
  BY <1>1, <1>2 DEF Init, TypeOK, WholeFirst, NotFound, Bounds
<1>4. NothingPassedOver /\ ObjectsAreFound
  BY <1>1, <1>2 DEF Init, NothingPassedOver, ObjectsAreFound, ObjectAt
<1>. QED  BY <1>3, <1>4 DEF Core

LEMMA WholeStep ==
  ASSUME Core, ParseWhole
  PROVE  Core'
<1>1. /\ text \in Seq(Tokens) /\ Len(text) \in Nat /\ searchStart \in 1 .. Len(text) + 1
      /\ phase = "whole" /\ searchStart = AnswerStart /\ text' = text
      /\ searchStart' = searchStart /\ found = NotFound
  BY DEF Core, TypeOK, WholeFirst, ParseWhole, Return
<1>2. /\ AnswerStart' = AnswerStart /\ (Plain' <=> Plain)
      /\ \A i, j : Part(i, j)' = Part(i, j)
      /\ \A i, j : ObjectAt(i, j)' <=> ObjectAt(i, j)
      /\ \A i, j : InTheWay(i, j)' <=> InTheWay(i, j)
  BY <1>1, TextKept
<1>3. \A i, j : ObjectAt(i, j) => i \in Nat /\ searchStart <= i
  BY <1>1 DEF ObjectAt
<1>4. CASE IsJson(Part(searchStart, Len(text)))
  <2>1. phase' = "returned" /\ found' = [first |-> searchStart, last |-> Len(text)]
    BY <1>4 DEF ParseWhole, Return
  <2>2. found' \in Bounds /\ found' # NotFound /\ found'.first = searchStart
        /\ found'.last = Len(text)
    BY <1>1, <2>1 DEF Bounds, NotFound
  <2>3. TypeOK'
    BY <1>1, <1>4, <2>1, <2>2 DEF TypeOK, Part
  <2>4. WholeFirst'
    BY <1>1, <1>2, <2>1, <2>2 DEF WholeFirst
  <2>5. NothingPassedOver' /\ ObjectsAreFound'
    BY <1>1, <1>2, <1>3, <2>1, <2>2 DEF NothingPassedOver, ObjectsAreFound
  <2>. QED  BY <2>2, <2>3, <2>4, <2>5 DEF Core
<1>5. CASE ~IsJson(Part(searchStart, Len(text)))
  <2>1. phase' = "scanning" /\ found' = found
    BY <1>5 DEF ParseWhole
  <2>2. found' \in Bounds /\ found' = NotFound
    BY <1>1, <2>1 DEF Core
  <2>3. TypeOK'
    BY <1>1, <2>1, <2>2 DEF TypeOK
  <2>4. WholeFirst'
    BY <1>1, <1>2, <1>5, <2>1 DEF WholeFirst
  <2>5. NothingPassedOver' /\ ObjectsAreFound'
    BY <1>1, <1>2, <1>3, <2>1 DEF NothingPassedOver, ObjectsAreFound
  <2>. QED  BY <2>2, <2>3, <2>4, <2>5 DEF Core
<1>. QED  BY <1>4, <1>5

(* What the scan meets first.                                              *)
LEMMA FirstStart ==
  ASSUME text \in Seq(Tokens), searchStart \in Nat, 1 <= searchStart, Starts # {}
  PROVE  /\ Min(Starts) \in DOMAIN text /\ Min(Starts) \in Nat
         /\ searchStart <= Min(Starts) /\ text[Min(Starts)] \in Opening
         /\ \A i \in Starts : Min(Starts) <= i
         /\ Ends(Min(Starts)) # {} =>
              /\ Min(Ends(Min(Starts))) \in Min(Starts) .. Len(text)
              /\ Min(Ends(Min(Starts))) \in Nat
<1> DEFINE k == Min(Starts)
<1>1. Len(text) \in Nat /\ Starts \in SUBSET Nat
  BY DEF Starts
<1>2. k \in Starts /\ \A i \in Starts : k <= i
  BY <1>1, MinFacts
<1>3. /\ k \in DOMAIN text /\ k \in Nat /\ searchStart <= k /\ text[k] \in Opening
  BY <1>1, <1>2 DEF Starts
<1> HIDE DEF k
<1>4. ASSUME Ends(k) # {} PROVE Min(Ends(k)) \in k .. Len(text)
  <2>1. Ends(k) \in SUBSET Nat /\ Ends(k) \in SUBSET (k .. Len(text))
    BY <1>1, <1>3 DEF Ends
  <2>. QED  BY <1>4, <2>1, MinFacts
<1>. QED  BY <1>1, <1>2, <1>3, <1>4 DEF k

(* An object that the scan has not passed and that has nothing in the way  *)
(* does not start before the scan's next block, and not behind it either   *)
(* unless that block ends before it.                                       *)
LEMMA FirstBlock ==
  ASSUME text \in Seq(Tokens), Plain, searchStart \in Nat, 1 <= AnswerStart,
         AnswerStart \in Nat, AnswerStart <= searchStart,
         NEW i, NEW j, ObjectAt(i, j), searchStart <= i, ~InTheWay(i, j)
  PROVE  LET k == Min(Starts)
         IN  /\ Starts # {} /\ Ends(k) # {} /\ k <= i
             /\ k = i => Min(Ends(k)) = j
             /\ k # i => Min(Ends(k)) < i
<1> DEFINE k == Min(Starts)
<1>1. /\ Len(text) \in Nat /\ i \in DOMAIN text /\ i \in 1 .. Len(text) /\ j \in i .. Len(text)
      /\ IsObject(Part(i, j)) /\ AnswerStart <= i
  BY DEF ObjectAt
<1>2. text[i] \in Opening /\ Ends(i) # {} /\ Min(Ends(i)) = j
  BY <1>1, ObjectIsBlock
<1>3. i \in Starts
  BY <1>1, <1>2 DEF Starts
<1>4. /\ k \in DOMAIN text /\ k \in Nat /\ searchStart <= k /\ text[k] \in Opening
      /\ k <= i /\ (Ends(k) # {} => Min(Ends(k)) \in Nat)
  BY <1>3, FirstStart
<1> HIDE DEF k
<1>5. CASE k = i
  BY <1>2, <1>3, <1>4, <1>5 DEF k
<1>6. CASE k # i
  <2>1. k \in AnswerStart .. i - 1 /\ k < i
    BY <1>1, <1>4, <1>6
  <2>2. Ends(k) # {} /\ ~(Min(Ends(k)) > j)
    BY <1>4, <2>1 DEF InTheWay
  <2>3. Min(Ends(k)) < i
    BY <1>1, <1>4, <2>1, <2>2, BlocksNest
  <2>. QED  BY <1>3, <1>4, <1>6, <2>2, <2>3 DEF k
<1>. QED  BY <1>5, <1>6

LEMMA BlockStep ==
  ASSUME Core, TryBlock
  PROVE  Core'
<1> DEFINE k == Min(Starts)  e == Min(Ends(k))
<1>1. /\ text \in Seq(Tokens) /\ Len(text) \in Nat /\ searchStart \in 1 .. Len(text) + 1
      /\ searchStart \in Nat /\ phase = "scanning" /\ found = NotFound /\ found \in Bounds
      /\ AnswerStart <= searchStart /\ ~IsJson(Part(AnswerStart, Len(text)))
      /\ text' = text /\ Starts # {} /\ Ends(k) # {}
  BY DEF Core, TypeOK, WholeFirst, TryBlock, Return
<1>2. AnswerStart \in Nat /\ 1 <= AnswerStart
  BY <1>1, AnswerStartFacts
<1>3. /\ k \in DOMAIN text /\ k \in Nat /\ searchStart <= k /\ text[k] \in Opening
      /\ e \in k .. Len(text) /\ e \in Nat
  BY <1>1, FirstStart
<1>4. /\ AnswerStart' = AnswerStart /\ (Plain' <=> Plain)
      /\ \A i, j : Part(i, j)' = Part(i, j)
      /\ \A i, j : ObjectAt(i, j)' <=> ObjectAt(i, j)
      /\ \A i, j : InTheWay(i, j)' <=> InTheWay(i, j)
  BY <1>1, TextKept
<1>5. ASSUME Plain, NEW i \in DOMAIN text, NEW j \in DOMAIN text, ObjectAt(i, j),
             ~InTheWay(i, j)
      PROVE  k <= i /\ (k = i => e = j) /\ (k # i => e < i)
  <2>1. searchStart <= i
    BY <1>1, <1>5 DEF Core, NothingPassedOver
  <2>. QED  BY <1>1, <1>2, <1>5, <2>1, FirstBlock
<1>6. CASE IsJson(Part(k, e))
  <2>1. phase' = "returned" /\ found' = [first |-> k, last |-> e] /\ searchStart' = searchStart
    BY <1>6 DEF TryBlock, Return
  <2> HIDE DEF k, e
  <2>2. found' \in Bounds /\ found' # NotFound /\ found'.first = k /\ found'.last = e
    BY <1>1, <1>3, <2>1 DEF Bounds, NotFound
  <2>3. TypeOK'
    BY <1>1, <1>6, <2>1, <2>2 DEF TypeOK, Part
  <2>4. WholeFirst'
    BY <1>1, <1>3, <1>4, <2>1, <2>2 DEF WholeFirst
  <2>5. NothingPassedOver' /\ ObjectsAreFound'
    BY <1>1, <1>4, <1>5, <2>1, <2>2 DEF NothingPassedOver, ObjectsAreFound
  <2>. QED  BY <2>2, <2>3, <2>4, <2>5 DEF Core
<1>7. CASE ~IsJson(Part(k, e))
  <2>1. phase' = "scanning" /\ found' = found /\ searchStart' = e + 1
    BY <1>1, <1>7 DEF TryBlock, NextStart
  <2>2. searchStart <= e + 1 /\ e + 1 \in 1 .. Len(text) + 1
    BY <1>1, <1>3
  <2>3. ASSUME Plain, NEW i \in DOMAIN text, NEW j \in DOMAIN text, ObjectAt(i, j),
               ~InTheWay(i, j)
        PROVE  e + 1 <= i
    <3>1. k # i
      <4>1. SUFFICES ASSUME k = i PROVE FALSE
        OBVIOUS
      <4>2. e = j /\ IsObject(Part(i, j))
        BY <1>5, <2>3, <4>1 DEF ObjectAt
      <4>. QED  BY <1>7, <4>1, <4>2 DEF IsJson
    <3>2. i \in Nat
      BY <1>1, <2>3
    <3>. QED  BY <1>3, <1>5, <2>3, <3>1, <3>2
  <2> HIDE DEF k, e
  <2>4. TypeOK'
    BY <1>1, <2>1, <2>2 DEF TypeOK
  <2>5. WholeFirst'
    BY <1>1, <1>2, <1>3, <1>4, <2>1, <2>2 DEF WholeFirst
  <2>6. NothingPassedOver' /\ ObjectsAreFound'
    BY <1>1, <1>4, <2>1, <2>3 DEF NothingPassedOver, ObjectsAreFound
  <2>. QED  BY <1>1, <2>1, <2>4, <2>5, <2>6 DEF Core
<1>. QED  BY <1>6, <1>7

LEMMA GiveUpStep ==
  ASSUME Core, GiveUp
  PROVE  Core'
<1>1. /\ text \in Seq(Tokens) /\ Len(text) \in Nat /\ searchStart \in 1 .. Len(text) + 1
      /\ searchStart \in Nat /\ phase = "scanning" /\ found = NotFound /\ found \in Bounds
      /\ AnswerStart <= searchStart /\ ~IsJson(Part(AnswerStart, Len(text)))
      /\ text' = text /\ searchStart' = searchStart /\ found' = found /\ phase' = "raised"
      /\ (Starts # {} => Ends(Min(Starts)) = {})
  BY DEF Core, TypeOK, WholeFirst, GiveUp
<1>2. AnswerStart \in Nat /\ 1 <= AnswerStart
  BY <1>1, AnswerStartFacts
<1>3. /\ AnswerStart' = AnswerStart /\ (Plain' <=> Plain)
      /\ \A i, j : Part(i, j)' = Part(i, j)
      /\ \A i, j : ObjectAt(i, j)' <=> ObjectAt(i, j)
      /\ \A i, j : InTheWay(i, j)' <=> InTheWay(i, j)
  BY <1>1, TextKept
<1>4. ASSUME Plain, NEW i \in DOMAIN text, NEW j \in DOMAIN text, ObjectAt(i, j)
      PROVE  InTheWay(i, j)
  <2>1. SUFFICES ASSUME ~InTheWay(i, j) PROVE FALSE
    OBVIOUS
  <2>2. searchStart <= i
    BY <1>1, <1>4, <2>1 DEF Core, NothingPassedOver
  <2>3. Starts # {} /\ Ends(Min(Starts)) # {}
    BY <1>1, <1>2, <1>4, <2>1, <2>2, FirstBlock
  <2>. QED  BY <1>1, <2>3
<1>5. TypeOK'
  BY <1>1 DEF TypeOK
<1>6. WholeFirst'
  BY <1>1, <1>3 DEF WholeFirst
<1>7. NothingPassedOver' /\ ObjectsAreFound'
  BY <1>1, <1>3, <1>4 DEF NothingPassedOver, ObjectsAreFound
<1>. QED  BY <1>1, <1>5, <1>6, <1>7 DEF Core

LEMMA NextInvariant == Core /\ [Next]_vars => Core'
<1> SUFFICES ASSUME Core, [Next]_vars PROVE Core'
  OBVIOUS
<1>1. CASE ParseWhole
  BY <1>1, WholeStep
<1>2. CASE TryBlock
  BY <1>2, BlockStep
<1>3. CASE GiveUp
  BY <1>3, GiveUpStep
<1>4. CASE UNCHANGED vars
  <2>1. text' = text /\ searchStart' = searchStart /\ phase' = phase /\ found' = found
    BY <1>4 DEF vars
  <2>2. /\ AnswerStart' = AnswerStart /\ (Plain' <=> Plain)
        /\ \A i, j : Part(i, j)' = Part(i, j)
        /\ \A i, j : ObjectAt(i, j)' <=> ObjectAt(i, j)
        /\ \A i, j : InTheWay(i, j)' <=> InTheWay(i, j)
    BY <2>1, TextKept
  <2>3. TypeOK' /\ found' \in Bounds
    BY <2>1 DEF Core, TypeOK, Part
  <2>4. WholeFirst'
    BY <2>1, <2>2 DEF Core, WholeFirst
  <2>5. NothingPassedOver' /\ ObjectsAreFound'
    BY <2>1, <2>2 DEF Core, NothingPassedOver, ObjectsAreFound
  <2>. QED  BY <2>3, <2>4, <2>5 DEF Core
<1>. QED  BY <1>1, <1>2, <1>3, <1>4 DEF Next

(* The search never goes back before the end of the reasoning, the scan    *)
(* runs only when the whole answer does not parse, and what it has passed  *)
(* had something in the way.                                               *)
THEOREM Invariant == Spec => []IInv
<1>1. Spec => []Core
  BY InitInvariant, NextInvariant, PTL DEF Spec
<1>. QED  BY <1>1, IInvParts, PTL

-----------------------------------------------------------------------------
(* The results.                                                            *)

(* The search stays inside the text, and whatever _extract_json_object     *)
(* returns is JSON.                                                        *)
THEOREM TypeCorrect == Spec => []TypeOK
<1>1. IInv => TypeOK
  BY DEF IInv
<1>. QED  BY <1>1, Invariant, PTL

(* A response that is one JSON object behind the reasoning is returned as  *)
(* it is, of whatever length and with whatever braces in its strings.      *)
THEOREM CleanAnswers == Spec => []CleanAnswerIsReturned
<1>1. IInv => CleanAnswerIsReturned
  BY DEF IInv
<1>. QED  BY <1>1, Invariant, PTL

(* JSON in front of the last closing tag is returned only when the tag     *)
(* ends the response.                                                      *)
THEOREM ReasoningIsFallback == Spec => []ReasoningOnlyAsFallback
<1>1. IInv => ReasoningOnlyAsFallback
  BY DEF IInv
<1>. QED  BY <1>1, Invariant, PTL

(* Without braces in strings the counting scan passes over an object only  *)
(* for an earlier one, for a block around it or for a brace that is never  *)
(* closed: blocks and objects nest, however deep.                          *)
THEOREM ObjectsFound == Spec => []ObjectsAreFound
<1>1. IInv => ObjectsAreFound
  BY DEF IInv
<1>. QED  BY <1>1, Invariant, PTL
=============================================================================
