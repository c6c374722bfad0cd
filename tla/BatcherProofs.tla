---------------------------- MODULE BatcherProofs ----------------------------
(***************************************************************************)
(* Proofs about Batcher for any set of jobs, every finite set of tickets   *)
(* of any lengths, all positive batch sizes that do not shrink with easier *)
(* tickets, and every set of durations.                                    *)
(***************************************************************************)
EXTENDS Batcher, FiniteSetTheorems, TLAPS

-----------------------------------------------------------------------------
(* The classifier's tables.                                                *)

LEMMA ComplexityType == \A t \in Tickets : Complexity(t) \in Complexities
BY DEF Complexity, Classify, Complexities

(* COMPLEXITY_PRIORITY is one-to-one, BATCH_SIZE positive and in its order. *)
LEMMA Tables ==
  /\ \A c \in Complexities : Priority(c) \in Nat /\ SizeOf(c) \in Nat \ {0}
  /\ \A c, d \in Complexities : Priority(c) = Priority(d) => c = d
  /\ \A c, d \in Complexities : Priority(c) <= Priority(d) => SizeOf(c) <= SizeOf(d)
<1>1. /\ Priority("complex") = 0 /\ Priority("medium") = 1 /\ Priority("simple") = 2
      /\ SizeOf("complex") = ComplexSize /\ SizeOf("medium") = MediumSize
      /\ SizeOf("simple") = SimpleSize
  BY DEF Priority, SizeOf
<1>2. /\ ComplexSize \in Nat \ {0} /\ MediumSize \in Nat \ {0} /\ SimpleSize \in Nat \ {0}
      /\ ComplexSize <= MediumSize /\ MediumSize <= SimpleSize
  BY BatcherAssumption
<1>3. \A c \in Complexities : c = "complex" \/ c = "medium" \/ c = "simple"
  BY DEF Complexities
<1>. QED  BY <1>1, <1>2, <1>3

(* A batch's share of one ticket, exact because Scale is a multiple of     *)
(* every size, and larger where batches are smaller.                       *)
Weight(c) == Scale \div SizeOf(c)

LEMMA WeightFacts ==
  /\ Scale \in Nat \ {0}
  /\ \A c \in Complexities : Weight(c) \in Nat \ {0} /\ Weight(c) * SizeOf(c) = Scale
  /\ \A c, d \in Complexities : Priority(c) <= Priority(d) => Weight(d) <= Weight(c)
<1> DEFINE S == SimpleSize  M == MediumSize  C == ComplexSize
<1>1. /\ S \in Nat \ {0} /\ M \in Nat \ {0} /\ C \in Nat \ {0}
      /\ C <= M /\ M <= S
  BY BatcherAssumption
<1> HIDE DEF S, M, C
<1>2. Scale = S * M * C
  BY DEF Scale, S, M, C
<1>3. /\ (S * M * C) \div S = M * C
      /\ (S * M * C) \div M = S * C
      /\ (S * M * C) \div C = S * M
  BY <1>1
<1>4. /\ Weight("simple") = M * C /\ Weight("medium") = S * C /\ Weight("complex") = S * M
      /\ SizeOf("simple") = S /\ SizeOf("medium") = M /\ SizeOf("complex") = C
  BY <1>2, <1>3 DEF Weight, SizeOf, S, M, C
<1>5. /\ S * M * C \in Nat \ {0}
      /\ M * C \in Nat \ {0} /\ S * C \in Nat \ {0} /\ S * M \in Nat \ {0}
      /\ (M * C) * S = S * M * C /\ (S * C) * M = S * M * C /\ (S * M) * C = S * M * C
  BY <1>1
<1>6. M * C <= S * C /\ S * C <= S * M
  BY <1>1
<1>7. M * C <= S * M
  BY <1>5, <1>6
<1>. QED  BY <1>2, <1>4, <1>5, <1>6, <1>7 DEF Complexities, Priority

-----------------------------------------------------------------------------
(* Counting tickets.                                                       *)

(* Two sets that do not meet.                                              *)
LEMMA TwoParts ==
  ASSUME NEW A, NEW B, IsFiniteSet(A), IsFiniteSet(B), A \cap B = {}
  PROVE  /\ IsFiniteSet(A \cup B)
         /\ Cardinality(A) \in Nat /\ Cardinality(B) \in Nat
         /\ Cardinality(A \cup B) = Cardinality(A) + Cardinality(B)
<1>1. /\ IsFiniteSet(A \cup B)
      /\ Cardinality(A \cup B) = Cardinality(A) + Cardinality(B) - Cardinality(A \cap B)
  BY FS_Union, Zenon
<1>2. Cardinality(A \cap B) = 0
  BY FS_EmptySet
<1>3. Cardinality(A) \in Nat /\ Cardinality(B) \in Nat
  BY FS_CardinalityType
<1>. QED  BY <1>1, <1>2, <1>3

(* Three parts of a finite set that cover it and do not meet.              *)
LEMMA ThreeParts ==
  ASSUME NEW S, IsFiniteSet(S), NEW A, NEW B, NEW C, S = A \cup B \cup C,
         A \cap B = {}, A \cap C = {}, B \cap C = {}
  PROVE  /\ Cardinality(S) = Cardinality(A) + Cardinality(B) + Cardinality(C)
         /\ Cardinality(A) \in Nat /\ Cardinality(B) \in Nat /\ Cardinality(C) \in Nat
<1>1. IsFiniteSet(A) /\ IsFiniteSet(B) /\ IsFiniteSet(C)
  <2>1. A \in SUBSET S /\ B \in SUBSET S /\ C \in SUBSET S
    OBVIOUS
  <2>. QED  BY <2>1, FS_Subset
<1> DEFINE D == A \cup B
<1>2. D \cap C = {} /\ S = D \cup C
  OBVIOUS
<1>3. /\ IsFiniteSet(D) /\ Cardinality(A) \in Nat /\ Cardinality(B) \in Nat
      /\ Cardinality(D) = Cardinality(A) + Cardinality(B)
  BY <1>1, TwoParts
<1> HIDE DEF D
<1>4. Cardinality(C) \in Nat /\ Cardinality(S) = Cardinality(D) + Cardinality(C)
  BY <1>1, <1>2, <1>3, TwoParts
<1>. QED  BY <1>3, <1>4

LEMMA TicketSets ==
  ASSUME NEW q \in SUBSET Tickets
  PROVE  /\ IsFiniteSet(q) /\ Cardinality(q) \in 0 .. Cardinality(Tickets)
         /\ \A c : CountOf(q, c) \in Nat
         /\ \A c : CountOf(q, c) > 0 <=> \E t \in q : Complexity(t) = c
<1>1. IsFiniteSet(q) /\ Cardinality(q) \in 0 .. Cardinality(Tickets)
  BY BatcherAssumption, FS_Subset, FS_CardinalityType
<1>2. ASSUME NEW c
      PROVE  /\ CountOf(q, c) \in Nat
             /\ CountOf(q, c) > 0 <=> \E t \in q : Complexity(t) = c
  <2> DEFINE S == {t \in q : Complexity(t) = c}
  <2>1. S \in SUBSET q
    OBVIOUS
  <2>2. IsFiniteSet(S)
    BY <1>1, <2>1, FS_Subset
  <2>3. Cardinality(S) \in Nat /\ (Cardinality(S) = 0 <=> S = {})
    BY <2>2, FS_CardinalityType, FS_EmptySet
  <2>. QED  BY <2>3 DEF CountOf
<1>. QED  BY <1>1, <1>2

(* Every ticket is of one complexity.                                      *)
LEMMA CountsAddUp ==
  ASSUME NEW q \in SUBSET Tickets
  PROVE  Cardinality(q) =
           CountOf(q, "complex") + CountOf(q, "medium") + CountOf(q, "simple")
<1> DEFINE A == {t \in q : Complexity(t) = "complex"}
           B == {t \in q : Complexity(t) = "medium"}
           C == {t \in q : Complexity(t) = "simple"}
<1>1. \A t \in q : Complexity(t) \in {"complex", "medium", "simple"}
  BY ComplexityType DEF Complexities
<1>2. q = A \cup B \cup C /\ A \cap B = {} /\ A \cap C = {} /\ B \cap C = {}
  BY <1>1
<1>3. IsFiniteSet(q)
  BY TicketSets
<1> HIDE DEF A, B, C
<1>4. Cardinality(q) = Cardinality(A) + Cardinality(B) + Cardinality(C)
  BY <1>2, <1>3, ThreeParts
<1>. QED  BY <1>4 DEF CountOf, A, B, C

(* A batch of one complexity adds its size to that complexity's count.     *)
LEMMA CountMore ==
  ASSUME NEW p \in SUBSET Tickets, NEW q \in SUBSET Tickets, p \cap q = {},
         NEW c, \A t \in q : Complexity(t) = c
  PROVE  CountOf(p \cup q, c) = CountOf(p, c) + Cardinality(q)
<1> DEFINE A == {t \in p : Complexity(t) = c}
<1>1. {t \in p \cup q : Complexity(t) = c} = A \cup q /\ A \cap q = {} /\ A \in SUBSET Tickets
  OBVIOUS
<1>2. IsFiniteSet(A) /\ IsFiniteSet(q) /\ Cardinality(A) \in Nat /\ Cardinality(q) \in Nat
  BY <1>1, TicketSets
<1>3. Cardinality(A \cup q) = Cardinality(A) + Cardinality(q)
  BY <1>1, <1>2, TwoParts, Zenon
<1>. QED  BY <1>1, <1>3 DEF CountOf

(* It leaves the counts of the others as they are.                         *)
LEMMA CountKept ==
  ASSUME NEW p, NEW q, NEW c, \A t \in q : Complexity(t) # c
  PROVE  CountOf(p \cup q, c) = CountOf(p, c)
<1>1. {t \in p \cup q : Complexity(t) = c} = {t \in p : Complexity(t) = c}
  OBVIOUS
<1>. QED  BY <1>1 DEF CountOf

(* How many of the three complexities a set of them holds.                 *)
LEMMA KindsCounted ==
  ASSUME NEW U \in SUBSET Complexities
  PROVE  Cardinality(U) = (IF "complex" \in U THEN 1 ELSE 0)
                        + (IF "medium" \in U THEN 1 ELSE 0)
                        + (IF "simple" \in U THEN 1 ELSE 0)
<1> DEFINE A == U \cap {"complex"}  B == U \cap {"medium"}  C == U \cap {"simple"}
<1>1. U = A \cup B \cup C /\ A \cap B = {} /\ A \cap C = {} /\ B \cap C = {}
  BY DEF Complexities
<1>2. ASSUME NEW c
      PROVE  /\ IsFiniteSet(U \cap {c})
             /\ Cardinality(U \cap {c}) = IF c \in U THEN 1 ELSE 0
  <2>1. U \cap {c} = IF c \in U THEN {c} ELSE {}
    OBVIOUS
  <2>. QED  BY <2>1, FS_Singleton, FS_EmptySet
<1>3. IsFiniteSet(U)
  <2>1. IsFiniteSet(A) /\ IsFiniteSet(B) /\ IsFiniteSet(C)
    BY <1>2
  <2> HIDE DEF A, B, C
  <2>2. IsFiniteSet(A \cup B)
    BY <2>1, FS_Union
  <2>3. IsFiniteSet((A \cup B) \cup C)
    BY <2>1, <2>2, FS_Union
  <2>. QED  BY <1>1, <2>3
<1>4. Cardinality(U) = Cardinality(A) + Cardinality(B) + Cardinality(C)
  <2> HIDE DEF A, B, C
  <2>. QED  BY <1>1, <1>3, ThreeParts
<1>. QED  BY <1>2, <1>4

-----------------------------------------------------------------------------
(* Sequences.                                                              *)

LEMMA SeqFacts ==
  ASSUME NEW S, NEW s \in Seq(S)
  PROVE  /\ Len(s) \in Nat /\ DOMAIN s = 1 .. Len(s)
         /\ \A i \in DOMAIN s : s[i] \in S
         /\ s # << >> => Len(s) \in DOMAIN s
OBVIOUS

LEMMA AppendFacts ==
  ASSUME NEW S, NEW s \in Seq(S), NEW x \in S
  PROVE  /\ Append(s, x) \in Seq(S) /\ Append(s, x) # << >>
         /\ DOMAIN Append(s, x) = DOMAIN s \cup {Len(s) + 1}
         /\ Len(s) + 1 \notin DOMAIN s
         /\ \A i \in DOMAIN s : Append(s, x)[i] = s[i] /\ i < Len(s) + 1
         /\ Append(s, x)[Len(s) + 1] = x
OBVIOUS

-----------------------------------------------------------------------------
(* The invariant, one job at a time.                                       *)

JobTypes(j) ==
  /\ submitted[j] \in SUBSET Tickets /\ phase[j] \in Phases /\ queue[j] \in SUBSET Tickets
  /\ batch[j] \in BatchTypes /\ IsBatch(batch[j])
  /\ batches[j] \in Seq(BatchTypes) /\ \A i \in DOMAIN batches[j] : IsBatch(batches[j][i])
  /\ eta[j] \in [batches : Nat, latency : Nat]
LatencyKnown(j) ==
  phase[j] = "processing" /\ batches[j] # << >> => Observable(eta[j].latency)
Results(j) ==
  /\ Ordered(j) /\ FullBeforeNext(j) /\ EstimateMet(j) /\ NoHarderLeft(j) /\ ShortIsLast(j)
  /\ \A c \in Complexities : CountsAgree(j, c)
JobInv(j) ==
  /\ JobTypes(j) /\ TicketsOnce(j) /\ PhaseAgrees(j) /\ Covered(j) /\ LatencyKnown(j)
  /\ Results(j)

Frame ==
  /\ submitted \in [Jobs -> SUBSET Tickets]
  /\ phase \in [Jobs -> Phases]
  /\ queue \in [Jobs -> SUBSET Tickets]
  /\ batch \in [Jobs -> BatchTypes]
  /\ batches \in [Jobs -> Seq(BatchTypes)]
  /\ eta \in [Jobs -> [batches : Nat, latency : Nat]]
  /\ depth \in 0 .. Cardinality(Tickets)
  /\ ewma \in Nat \cup {NoData}
  /\ ewma # NoData => Observable(ewma)
  /\ Measured

LEMMA IInvParts == IInv <=> Frame /\ \A j \in Jobs : JobInv(j)
<1>1. IInv => Frame
  BY DEF IInv, TypeOK, Shapes, LatencyIsObserved, Frame
<1>2. ASSUME IInv, NEW j \in Jobs PROVE JobInv(j)
  BY <1>2 DEF IInv, TypeOK, Shapes, EveryTicketOnce, HardestFirst, FewestBatches, EtaCovers,
     LatencyIsObserved, JobInv, JobTypes, LatencyKnown, Results
<1>3. ASSUME Frame, \A j \in Jobs : JobInv(j) PROVE IInv
  BY <1>3 DEF IInv, TypeOK, Shapes, EveryTicketOnce, HardestFirst, FewestBatches, EtaCovers,
     LatencyIsObserved, JobInv, JobTypes, LatencyKnown, Results, Frame
<1>. QED  BY <1>1, <1>2, <1>3

(* What a job has is not touched by the other jobs.                        *)
Same(j) ==
  /\ submitted'[j] = submitted[j] /\ phase'[j] = phase[j] /\ queue'[j] = queue[j]
  /\ batch'[j] = batch[j] /\ batches'[j] = batches[j] /\ eta'[j] = eta[j]
OnlyJob(j) == \A k \in Jobs \ {j} : Same(k)

LEMMA SameBatches ==
  ASSUME NEW j, batches'[j] = batches[j]
  PROVE  /\ Drained(j)' = Drained(j)
         /\ \A c : BatchesOf(j, c)' = BatchesOf(j, c)
         /\ Ordered(j) => Ordered(j)'
         /\ FullBeforeNext(j) => FullBeforeNext(j)'
BY DEF Drained, BatchesOf, Ordered, FullBeforeNext

(* Nor do the facts about what is left and what is drained change when     *)
(* only tickets go from the one to the batch being assembled.              *)
LEMMA ResultsKept ==
  ASSUME NEW j, Results(j), batches'[j] = batches[j],
         queue'[j] \cup batch'[j].tickets \subseteq queue[j] \cup batch[j].tickets,
         \A t \in queue'[j], u \in batch'[j].tickets :
           Priority(Complexity(u)) <= Priority(Complexity(t)),
         EstimateMet(j)'
  PROVE  Results(j)'
<1>1. Ordered(j)' /\ FullBeforeNext(j)'
  BY SameBatches DEF Results
<1>2. NoHarderLeft(j)'
  BY DEF Results, NoHarderLeft
<1>3. ShortIsLast(j)'
  BY DEF Results, ShortIsLast
<1>4. ASSUME NEW c \in Complexities PROVE CountsAgree(j, c)'
  <2>1. CountOf(Drained(j), c)' = CountOf(Drained(j), c)
    BY SameBatches DEF CountOf
  <2>2. BatchesOf(j, c)' = BatchesOf(j, c)
    BY SameBatches
  <2>3. CountsAgree(j, c)
    BY DEF Results
  <2>. QED  BY <2>1, <2>2, <2>3 DEF CountsAgree
<1>. QED  BY <1>1, <1>2, <1>3, <1>4 DEF Results

LEMMA SameKeeps ==
  ASSUME NEW j, JobInv(j), Same(j)
  PROVE  JobInv(j)'
<1>1. JobTypes(j)' /\ PhaseAgrees(j)' /\ LatencyKnown(j)'
  BY DEF JobInv, Same, JobTypes, IsBatch, PhaseAgrees, LatencyKnown, WeightedBatches, CountOf,
     Observable
<1>2. TicketsOnce(j)'
  BY SameBatches DEF JobInv, Same, TicketsOnce
<1>3. Covered(j)'
  BY DEF JobInv, Same, Covered, WeightedBatches, CountOf
<1>4. EstimateMet(j)'
  BY DEF JobInv, Results, Same, EstimateMet, WeightedBatches, CountOf
<1>5. Results(j)'
  BY <1>4, ResultsKept DEF JobInv, Same, Results, NoHarderLeft
<1>. QED  BY <1>1, <1>2, <1>3, <1>5 DEF JobInv

(* Before the first batch there is nothing to say of batches.              *)
NoBatchFacts(j) ==
  /\ Drained(j) = {} /\ Ordered(j) /\ FullBeforeNext(j) /\ ShortIsLast(j)
  /\ \A c \in Complexities : CountsAgree(j, c)

EmptyFits == \A j : batches[j] = << >> => NoBatchFacts(j)

LEMMA NothingDrained == EmptyFits
<1> SUFFICES ASSUME NEW j, batches[j] = << >> PROVE NoBatchFacts(j)
  BY DEF EmptyFits
<1>1. DOMAIN batches[j] = {}
  OBVIOUS
<1>2. Drained(j) = {}
  BY <1>1 DEF Drained
<1>3. ASSUME NEW c PROVE BatchesOf(j, c) = 0 /\ CountOf(Drained(j), c) = 0
  BY <1>1, <1>2, FS_EmptySet DEF BatchesOf, CountOf
<1>4. Ordered(j) /\ FullBeforeNext(j) /\ ShortIsLast(j)
  BY <1>1 DEF Ordered, FullBeforeNext, ShortIsLast
<1>5. ASSUME NEW c \in Complexities PROVE CountsAgree(j, c)
  <2>1. SizeOf(c) \in Nat \ {0}
    BY Tables
  <2>. QED  BY <1>3, <2>1 DEF CountsAgree
<1>. QED  BY <1>2, <1>4, <1>5 DEF NoBatchFacts

-----------------------------------------------------------------------------
(* The steps that leave the batches alone.                                 *)

LEMMA Weighted ==
  ASSUME NEW q \in SUBSET Tickets
  PROVE  /\ WeightedBatches(q) = CountOf(q, "complex") * Weight("complex")
                                   + CountOf(q, "medium") * Weight("medium")
                                   + CountOf(q, "simple") * Weight("simple")
         /\ WeightedBatches(q) \in Nat
         /\ q = {} => WeightedBatches(q) = 0
<1>1. WeightedBatches(q) = CountOf(q, "complex") * Weight("complex")
                             + CountOf(q, "medium") * Weight("medium")
                             + CountOf(q, "simple") * Weight("simple")
  BY DEF WeightedBatches, Weight, SizeOf
<1>2. \A c \in Complexities : CountOf(q, c) \in Nat /\ Weight(c) \in Nat
  BY TicketSets, WeightFacts
<1>3. ASSUME q = {} PROVE \A c : CountOf(q, c) = 0
  BY <1>3, FS_EmptySet DEF CountOf
<1>. QED  BY <1>1, <1>2, <1>3 DEF Complexities

LEMMA LatencyType == ASSUME Frame PROVE Latency(ewma) \in Nat
BY BatcherAssumption DEF Frame, Latency

LEMMA SubmitStep ==
  ASSUME Frame, NEW j \in Jobs, JobInv(j), NEW tickets \in SUBSET Tickets, Submit(j, tickets)
  PROVE  Frame' /\ OnlyJob(j) /\ JobInv(j)'
<1>1. /\ phase[j] = "new" /\ queue[j] = {} /\ batches[j] = << >>
      /\ batch[j].tickets = {}
      /\ UNCHANGED <<queue, batch, batches, ewma>>
  BY DEF Submit, JobInv, PhaseAgrees
<1>2. WeightedBatches(tickets) \in Nat /\ Cardinality(tickets) \in 0 .. Cardinality(Tickets)
  BY Weighted, TicketSets
<1> DEFINE e == [batches |-> WeightedBatches(tickets), latency |-> Latency(ewma)]
<1>3. e \in [batches : Nat, latency : Nat] /\ e.batches = WeightedBatches(tickets)
  BY <1>2, LatencyType
<1>4. eta' = [eta EXCEPT ![j] = e]
  BY DEF Submit
<1> HIDE DEF e
<1>5. /\ submitted'[j] = tickets /\ phase'[j] = "submitted" /\ eta'[j] = e
      /\ Frame' /\ OnlyJob(j)
  BY <1>2, <1>3, <1>4 DEF Submit, Frame, Measured, OnlyJob, Same, Phases, Observable
<1>6. JobTypes(j)'
  BY <1>1, <1>3, <1>5 DEF JobInv, JobTypes, Phases, IsBatch
<1>7. PhaseAgrees(j)'
  <2>1. WeightedBatches(submitted[j])' = WeightedBatches(tickets)
    BY <1>5 DEF WeightedBatches, CountOf
  <2>. QED  BY <1>1, <1>2, <1>3, <1>5, <2>1 DEF PhaseAgrees
<1>8. Covered(j)'
  <2>1. WeightedBatches(queue[j])' = 0
    BY <1>1, Weighted DEF WeightedBatches, CountOf
  <2>. QED  BY <1>2, <1>3, <1>5, <2>1 DEF Covered
<1>9. Results(j)'
  BY <1>1, <1>5, ResultsKept DEF JobInv, EstimateMet
<1>10. TicketsOnce(j)' /\ LatencyKnown(j)'
  BY <1>5 DEF TicketsOnce, LatencyKnown
<1>. QED  BY <1>5, <1>6, <1>7, <1>8, <1>9, <1>10 DEF JobInv

LEMMA EnqueueStep ==
  ASSUME Frame, NEW j \in Jobs, JobInv(j), EnqueueMany(j)
  PROVE  Frame' /\ OnlyJob(j) /\ JobInv(j)'
<1>1. /\ phase[j] = "submitted" /\ batches[j] = << >> /\ batch[j].tickets = {}
      /\ submitted[j] \in SUBSET Tickets
      /\ eta[j].batches >= WeightedBatches(submitted[j])
      /\ UNCHANGED <<submitted, batch, batches, ewma, eta>>
  BY DEF EnqueueMany, JobInv, JobTypes, PhaseAgrees
<1>2. Cardinality(submitted[j]) \in 0 .. Cardinality(Tickets)
  BY <1>1, TicketSets
<1>3. /\ queue'[j] = submitted[j] /\ phase'[j] = "processing"
      /\ Frame' /\ OnlyJob(j)
  BY <1>1, <1>2 DEF EnqueueMany, Frame, Measured, OnlyJob, Same, Phases, Observable
<1>4. JobTypes(j)' /\ PhaseAgrees(j)' /\ LatencyKnown(j)'
  BY <1>1, <1>3 DEF JobInv, JobTypes, PhaseAgrees, LatencyKnown, Phases, IsBatch
<1>5. /\ Drained(j)' = {} /\ Ordered(j)' /\ FullBeforeNext(j)' /\ ShortIsLast(j)'
      /\ \A c \in Complexities : CountsAgree(j, c)'
  <2>1. EmptyFits'
    BY NothingDrained, PTL
  <2>2. batches'[j] = << >>
    BY <1>1
  <2>. QED  BY <2>1, <2>2 DEF EmptyFits, NoBatchFacts
<1>6. TicketsOnce(j)'
  BY <1>1, <1>3, <1>5 DEF TicketsOnce
<1>7. Covered(j)'
  BY <1>1, <1>3 DEF Covered, WeightedBatches, CountOf
<1>8. Results(j)'
  BY <1>1, <1>3, <1>5 DEF Results, EstimateMet, NoHarderLeft
<1>. QED  BY <1>3, <1>4, <1>6, <1>7, <1>8 DEF JobInv

LEMMA DrainFirstStep ==
  ASSUME Frame, NEW j \in Jobs, JobInv(j), DrainFirst(j)
  PROVE  Frame' /\ OnlyJob(j) /\ JobInv(j)'
<1>1. PICK t \in Front(queue[j]) :
        /\ queue' = [queue EXCEPT ![j] = queue[j] \ {t}]
        /\ batch' = [batch EXCEPT ![j] = [complexity |-> Complexity(t), tickets |-> {t}]]
  BY DEF DrainFirst
<1>2. /\ phase[j] = "processing" /\ batch[j].tickets = {} /\ queue[j] \in SUBSET Tickets
      /\ phase' = [phase EXCEPT ![j] = "collecting"]
      /\ UNCHANGED <<submitted, batches, depth, ewma, eta>>
  BY DEF DrainFirst, JobInv, JobTypes, PhaseAgrees
<1>3. /\ t \in queue[j] /\ t \in Tickets /\ Complexity(t) \in Complexities
      /\ \A u \in queue[j] : Priority(Complexity(t)) <= Priority(Complexity(u))
  BY <1>2, ComplexityType DEF Front
<1>4. /\ queue'[j] = queue[j] \ {t} /\ phase'[j] = "collecting"
      /\ batch'[j] = [complexity |-> Complexity(t), tickets |-> {t}]
      /\ batch'[j] \in BatchTypes
      /\ Frame' /\ OnlyJob(j)
  BY <1>1, <1>2, <1>3 DEF Frame, Measured, OnlyJob, Same, Phases, Observable, BatchTypes
<1>5. IsBatch(batch[j])'
  <2>1. Cardinality({t}) = 1 /\ SizeOf(Complexity(t)) \in Nat \ {0}
    BY <1>3, FS_Singleton, Tables
  <2>. QED  BY <1>3, <1>4, <2>1 DEF IsBatch
<1>6. JobTypes(j)' /\ PhaseAgrees(j)' /\ LatencyKnown(j)' /\ Covered(j)' /\ EstimateMet(j)'
  BY <1>2, <1>4, <1>5
  DEF JobInv, JobTypes, PhaseAgrees, LatencyKnown, Phases, Covered, EstimateMet, IsBatch
<1>7. TicketsOnce(j)'
  BY <1>2, <1>3, <1>4, SameBatches DEF JobInv, TicketsOnce
<1>8. Results(j)'
  BY <1>2, <1>3, <1>4, <1>6, ResultsKept DEF JobInv
<1>. QED  BY <1>4, <1>6, <1>7, <1>8 DEF JobInv

LEMMA CollectStep ==
  ASSUME Frame, NEW j \in Jobs, JobInv(j), Collect(j)
  PROVE  Frame' /\ OnlyJob(j) /\ JobInv(j)'
<1>1. PICK t \in Front(queue[j]) :
        /\ Complexity(t) = batch[j].complexity
        /\ queue' = [queue EXCEPT ![j] = queue[j] \ {t}]
        /\ batch' = [batch EXCEPT ![j].tickets = batch[j].tickets \cup {t}]
  BY DEF Collect
<1>2. /\ phase[j] = "collecting" /\ batch[j].tickets # {} /\ queue[j] \in SUBSET Tickets
      /\ batch[j] \in BatchTypes
      /\ Cardinality(batch[j].tickets) < SizeOf(batch[j].complexity)
      /\ UNCHANGED <<submitted, phase, batches, depth, ewma, eta>>
  BY DEF Collect, Wanted, JobInv, JobTypes, PhaseAgrees
<1>3. /\ t \in queue[j] /\ t \in Tickets
      /\ \A u \in queue[j] : Priority(Complexity(t)) <= Priority(Complexity(u))
  BY <1>2 DEF Front
<1>4. /\ queue'[j] = queue[j] \ {t} /\ phase'[j] = "collecting"
      /\ batch'[j].complexity = batch[j].complexity
      /\ batch'[j].tickets = batch[j].tickets \cup {t}
      /\ batch'[j] \in BatchTypes
      /\ Frame' /\ OnlyJob(j)
  BY <1>1, <1>2, <1>3 DEF Frame, Measured, OnlyJob, Same, Phases, Observable, BatchTypes
<1>5. IsBatch(batch[j])'
  <2>1. batch[j].tickets \in SUBSET Tickets /\ SizeOf(batch[j].complexity) \in Nat
    BY <1>2, Tables DEF BatchTypes
  <2> DEFINE b == batch[j].tickets
  <2>2. IsFiniteSet(b) /\ Cardinality(b) \in Nat
    BY <2>1, TicketSets
  <2>3. Cardinality(b) < SizeOf(batch[j].complexity)
    BY <1>2
  <2> HIDE DEF b
  <2>4. Cardinality(b \cup {t}) = IF t \in b THEN Cardinality(b) ELSE Cardinality(b) + 1
    BY <2>2, FS_AddElement, Zenon
  <2>5. Cardinality(b \cup {t}) <= SizeOf(batch[j].complexity)
    BY <2>1, <2>2, <2>3, <2>4
  <2>6. /\ batch'[j].complexity \in Complexities
        /\ batch'[j].tickets \in SUBSET Tickets
    BY <1>4 DEF BatchTypes
  <2>7. \A u \in batch'[j].tickets : Complexity(u) = batch'[j].complexity
    BY <1>1, <1>4 DEF JobInv, JobTypes, IsBatch
  <2>. QED  BY <1>4, <2>5, <2>6, <2>7 DEF IsBatch, b
<1>6. JobTypes(j)' /\ PhaseAgrees(j)' /\ LatencyKnown(j)' /\ Covered(j)' /\ EstimateMet(j)'
  BY <1>2, <1>4, <1>5
  DEF JobInv, JobTypes, PhaseAgrees, LatencyKnown, Phases, Covered, EstimateMet, IsBatch
<1>7. TicketsOnce(j)'
  BY <1>2, <1>3, <1>4, SameBatches DEF JobInv, TicketsOnce
<1>8. Results(j)'
  <2>1. \A v \in queue'[j], u \in batch'[j].tickets :
          Priority(Complexity(u)) <= Priority(Complexity(v))
    BY <1>3, <1>4 DEF JobInv, Results, NoHarderLeft
  <2>. QED  BY <1>2, <1>3, <1>4, <1>6, <2>1, ResultsKept DEF JobInv
<1>. QED  BY <1>4, <1>6, <1>7, <1>8 DEF JobInv

-----------------------------------------------------------------------------
(* The estimator.                                                          *)

(* The moving average stays between two observed durations.                *)
LEMMA UpdatedObserved ==
  ASSUME Frame, NEW d \in Durations
  PROVE  Updated(d) \in Nat /\ Observable(Updated(d))
<1>1. d \in Nat /\ \A e \in Durations : e \in Nat
  BY BatcherAssumption
<1>2. CASE ewma = NoData
  BY <1>1, <1>2 DEF Updated, Observable
<1>3. CASE ewma # NoData
  <2>1. PICK d1 \in Durations, d2 \in Durations : d1 <= ewma /\ ewma <= d2
    BY <1>3 DEF Frame, Observable
  <2>2. ewma \in Nat /\ Updated(d) = (3 * d + 7 * ewma) \div 10
    BY <1>3 DEF Frame, Updated
  <2>3. /\ Updated(d) \in Nat
        /\ d1 <= Updated(d) \/ d <= Updated(d)
        /\ Updated(d) <= d2 \/ Updated(d) <= d
    BY <1>1, <2>1, <2>2
  <2>. QED  BY <2>1, <2>3 DEF Observable
<1>. QED  BY <1>2, <1>3

(* The share of the batch just done covers each ticket that is no harder.  *)
LEMMA RemainingCovers ==
  ASSUME NEW q \in SUBSET Tickets, NEW c \in Complexities,
         \A t \in q : Priority(c) <= Priority(Complexity(t))
  PROVE  /\ RemainingBatches(Cardinality(q), c) \in Nat
         /\ RemainingBatches(Cardinality(q), c) >= WeightedBatches(q)
<1> DEFINE w == Weight(c)  n == Cardinality(q)
           x == CountOf(q, "complex")  y == CountOf(q, "medium")  z == CountOf(q, "simple")
<1>1. /\ w \in Nat /\ Scale \in Nat /\ n = x + y + z
      /\ x \in Nat /\ y \in Nat /\ z \in Nat
  BY WeightFacts, TicketSets, CountsAddUp
<1>2. ASSUME NEW d \in Complexities
      PROVE  CountOf(q, d) * Weight(d) <= CountOf(q, d) * w
  <2>1. CountOf(q, d) \in Nat /\ Weight(d) \in Nat
    BY TicketSets, WeightFacts
  <2>2. CASE CountOf(q, d) = 0
    BY <1>1, <2>1, <2>2
  <2>3. CASE CountOf(q, d) > 0
    <3>1. \E t \in q : Complexity(t) = d
      BY <2>3, TicketSets
    <3>2. Weight(d) <= w
      BY <3>1, WeightFacts
    <3>. QED  BY <1>1, <2>1, <3>2
  <2>. QED  BY <2>1, <2>2, <2>3
<1>3. /\ x * Weight("complex") <= x * w
      /\ y * Weight("medium") <= y * w
      /\ z * Weight("simple") <= z * w
  BY <1>2 DEF Complexities
<1>4. WeightedBatches(q) = x * Weight("complex") + y * Weight("medium") + z * Weight("simple")
  BY Weighted
<1>5. /\ RemainingBatches(n, c) = IF n * w > Scale THEN n * w ELSE Scale
      /\ n \in Nat
  BY <1>1 DEF RemainingBatches, GroupSize, Weight
<1>6. /\ Weight("complex") \in Nat /\ Weight("medium") \in Nat /\ Weight("simple") \in Nat
  BY WeightFacts DEF Complexities
<1> HIDE DEF w, n, x, y, z
<1>7. n * w = x * w + y * w + z * w /\ n * w \in Nat
  BY <1>1
<1>8. WeightedBatches(q) <= n * w
  <2> DEFINE a == x * Weight("complex")  b == y * Weight("medium")  f == z * Weight("simple")
             a1 == x * w  b1 == y * w  f1 == z * w
  <2>1. /\ a \in Nat /\ b \in Nat /\ f \in Nat /\ a1 \in Nat /\ b1 \in Nat /\ f1 \in Nat
    BY <1>1, <1>6
  <2>2. a <= a1 /\ b <= b1 /\ f <= f1
    BY <1>3
  <2>3. WeightedBatches(q) = a + b + f /\ n * w = a1 + b1 + f1
    BY <1>4, <1>7
  <2> HIDE DEF a, b, f, a1, b1, f1
  <2>. QED  BY <2>1, <2>2, <2>3
<1>9. WeightedBatches(q) \in Nat
  BY Weighted
<1>10. /\ RemainingBatches(n, c) \in Nat
       /\ RemainingBatches(n, c) >= WeightedBatches(q)
  BY <1>1, <1>5, <1>7, <1>8, <1>9
<1>. QED  BY <1>10 DEF n

LEMMA BatchDoneStep ==
  ASSUME Frame, NEW j \in Jobs, JobInv(j), NEW d \in Durations, BatchDone(j, d)
  PROVE  Frame' /\ OnlyJob(j) /\ JobInv(j)'
<1>1. /\ phase[j] = "calling" /\ phase' = [phase EXCEPT ![j] = "counting"]
      /\ batch[j].tickets = {} /\ batches[j] # << >>
      /\ ewma' = Updated(d) /\ UNCHANGED <<submitted, queue, batch, batches, depth, eta>>
  BY DEF BatchDone, JobInv, PhaseAgrees
<1>2. ewma' \in Nat /\ Observable(ewma') /\ ewma' # NoData
  BY <1>1, UpdatedObserved DEF NoData
<1>3. /\ phase'[j] = "counting" /\ Frame' /\ OnlyJob(j)
  <2>1. Observable(ewma)' <=> Observable(ewma')
    BY DEF Observable
  <2>. QED  BY <1>1, <1>2, <2>1 DEF Frame, OnlyJob, Same, Phases, Measured
<1>4. JobTypes(j)' /\ PhaseAgrees(j)' /\ EstimateMet(j)' /\ Covered(j)' /\ LatencyKnown(j)'
  BY <1>1, <1>3
  DEF JobInv, JobTypes, PhaseAgrees, EstimateMet, Covered, LatencyKnown, Phases, IsBatch
<1>5. TicketsOnce(j)'
  BY <1>1, <1>3, SameBatches DEF JobInv, TicketsOnce
<1>6. Results(j)'
  BY <1>1, <1>4, ResultsKept DEF JobInv, Results, NoHarderLeft
<1>. QED  BY <1>3, <1>4, <1>5, <1>6 DEF JobInv

(* The estimate uses what has been measured, by this job or by another     *)
(* that was faster meanwhile.                                              *)
LEMMA EstimateStep ==
  ASSUME Frame, NEW j \in Jobs, JobInv(j), Estimate(j)
  PROVE  Frame' /\ OnlyJob(j) /\ JobInv(j)'
<1> DEFINE c == batches[j][Len(batches[j])].complexity
           e == [batches |-> RemainingBatches(Cardinality(queue[j]), c),
                 latency |-> Latency(ewma)]
<1>1. /\ phase[j] = "counting" /\ batches[j] # << >> /\ batches[j] \in Seq(BatchTypes)
      /\ batch[j].tickets = {} /\ queue[j] \in SUBSET Tickets
      /\ phase' = [phase EXCEPT ![j] = "processing"]
      /\ eta' = [eta EXCEPT ![j] = e]
      /\ UNCHANGED <<submitted, queue, batch, batches, depth, ewma>>
  BY DEF Estimate, JobInv, JobTypes, PhaseAgrees
<1>2. Len(batches[j]) \in DOMAIN batches[j] /\ c \in Complexities
  <2>1. Len(batches[j]) \in DOMAIN batches[j] /\ batches[j][Len(batches[j])] \in BatchTypes
    BY <1>1, SeqFacts
  <2>. QED  BY <2>1 DEF BatchTypes
<1>3. \A t \in queue[j] : Priority(c) <= Priority(Complexity(t))
  BY <1>2 DEF JobInv, Results, NoHarderLeft
<1>4. ewma \in Nat /\ Observable(ewma) /\ Latency(ewma) = ewma
  BY <1>1 DEF Frame, Measured, Latency
<1> HIDE DEF c
<1>5. /\ e \in [batches : Nat, latency : Nat] /\ e.batches >= WeightedBatches(queue[j])
      /\ e.latency = ewma
  BY <1>1, <1>2, <1>3, <1>4, RemainingCovers
<1> HIDE DEF e
<1>6. /\ phase'[j] = "processing" /\ eta'[j] = e
      /\ Frame' /\ OnlyJob(j)
  <2>1. Observable(ewma)' <=> Observable(ewma)
    BY <1>1 DEF Observable
  <2>. QED  BY <1>1, <1>4, <1>5, <2>1 DEF Frame, OnlyJob, Same, Phases, Measured
<1>7. JobTypes(j)' /\ PhaseAgrees(j)' /\ EstimateMet(j)'
  BY <1>1, <1>5, <1>6 DEF JobInv, JobTypes, PhaseAgrees, EstimateMet, Phases, IsBatch
<1>8. TicketsOnce(j)'
  BY <1>1, <1>6, SameBatches DEF JobInv, TicketsOnce
<1>9. Covered(j)'
  BY <1>1, <1>5, <1>6 DEF Covered, WeightedBatches, CountOf
<1>10. LatencyKnown(j)'
  BY <1>4, <1>5, <1>6 DEF LatencyKnown, Observable
<1>11. Results(j)'
  BY <1>1, <1>7, ResultsKept DEF JobInv, Results, NoHarderLeft
<1>. QED  BY <1>6, <1>7, <1>8, <1>9, <1>10, <1>11 DEF JobInv

(* A job that gives up keeps what its batches and its queue say of them.   *)
LEMMA AbandonStep ==
  ASSUME Frame, NEW j \in Jobs, JobInv(j), Abandon(j)
  PROVE  Frame' /\ OnlyJob(j) /\ JobInv(j)'
<1>1. /\ phase[j] \in {"processing", "counting"} /\ batch[j].tickets = {}
      /\ phase' = [phase EXCEPT ![j] = "failed"]
      /\ UNCHANGED <<submitted, queue, batch, batches, depth, ewma, eta>>
  BY DEF Abandon, JobInv, PhaseAgrees
<1>2. /\ phase'[j] = "failed" /\ Frame' /\ OnlyJob(j)
  BY <1>1 DEF Frame, OnlyJob, Same, Phases, Observable, Measured
<1>3. JobTypes(j)' /\ PhaseAgrees(j)' /\ EstimateMet(j)' /\ Covered(j)' /\ LatencyKnown(j)'
  BY <1>1, <1>2
  DEF JobInv, JobTypes, PhaseAgrees, EstimateMet, Covered, LatencyKnown, Phases, IsBatch
<1>4. TicketsOnce(j)'
  BY <1>1, <1>2, SameBatches DEF JobInv, TicketsOnce
<1>5. Results(j)'
  BY <1>1, <1>3, ResultsKept DEF JobInv, Results, NoHarderLeft
<1>. QED  BY <1>2, <1>3, <1>4, <1>5 DEF JobInv

-----------------------------------------------------------------------------
(* The end of a job.                                                       *)

(* Its batches are those of the three complexities.                        *)
LEMMA BatchesAddUp ==
  ASSUME NEW j, batches[j] \in Seq(BatchTypes)
  PROVE  /\ \A c : BatchesOf(j, c) \in Nat
         /\ Len(batches[j]) = BatchesOf(j, "complex") + BatchesOf(j, "medium")
                                + BatchesOf(j, "simple")
<1> DEFINE D == DOMAIN batches[j]
           A == {i \in D : batches[j][i].complexity = "complex"}
           B == {i \in D : batches[j][i].complexity = "medium"}
           C == {i \in D : batches[j][i].complexity = "simple"}
<1>1. /\ D = 1 .. Len(batches[j]) /\ Len(batches[j]) \in Nat
      /\ \A i \in D : batches[j][i].complexity \in {"complex", "medium", "simple"}
  <2>1. \A i \in D : batches[j][i] \in BatchTypes
    BY SeqFacts
  <2>. QED  BY <2>1, SeqFacts DEF BatchTypes, Complexities
<1>2. IsFiniteSet(D) /\ Cardinality(D) = Len(batches[j])
  BY <1>1, FS_Interval
<1>3. ASSUME NEW c PROVE BatchesOf(j, c) \in Nat
  <2>1. {i \in D : batches[j][i].complexity = c} \in SUBSET D
    OBVIOUS
  <2>2. IsFiniteSet({i \in D : batches[j][i].complexity = c})
    BY <1>2, <2>1, FS_Subset
  <2>. QED  BY <2>2, FS_CardinalityType DEF BatchesOf
<1>4. D = A \cup B \cup C /\ A \cap B = {} /\ A \cap C = {} /\ B \cap C = {}
  BY <1>1
<1>5. /\ BatchesOf(j, "complex") = Cardinality(A) /\ BatchesOf(j, "medium") = Cardinality(B)
      /\ BatchesOf(j, "simple") = Cardinality(C)
  BY DEF BatchesOf
<1> HIDE DEF A, B, C, D
<1>6. Cardinality(D) = Cardinality(A) + Cardinality(B) + Cardinality(C)
  BY <1>2, <1>4, ThreeParts
<1>. QED  BY <1>2, <1>3, <1>5, <1>6

(* Between n/size and n/size + 1 batches for the n tickets of a complexity. *)
LEMMA ShareOfBatches ==
  ASSUME NEW n \in Nat, NEW k \in Nat, NEW size \in Nat \ {0}, NEW w \in Nat \ {0},
         n <= k * size, (k - 1) * size < n
  PROVE  /\ n * w <= k * (w * size)
         /\ k * (w * size) <= n * w + (IF n > 0 THEN w * size ELSE 0)
<1>1. n * w <= (k * size) * w
  OBVIOUS
<1>2. (k * size) * w = k * (w * size)
  OBVIOUS
<1>3. CASE n > 0
  <2>1. (k - 1) * size \in Int /\ (k - 1) * size <= n
    OBVIOUS
  <2>2. ((k - 1) * size) * w <= n * w
    BY <2>1
  <2>3. ((k - 1) * size) * w = k * (w * size) - w * size
    OBVIOUS
  <2>. QED  BY <1>1, <1>2, <1>3, <2>2, <2>3
<1>4. CASE n = 0
  <2>1. k = 0
    <3>1. CASE k >= 1
      <4>1. (k - 1) * size >= 0
        BY <3>1
      <4>. QED  BY <1>4, <4>1
    <3>. QED  BY <3>1
  <2>. QED  BY <1>4, <2>1
<1>. QED  BY <1>3, <1>4

(* The estimate made before the first batch is met by what was drained.    *)
LEMMA EstimateIsMet ==
  ASSUME NEW j, JobInv(j), queue[j] = {}, batch[j].tickets = {},
         phase[j] \notin {"new", "submitted"}
  PROVE  LET estimate == WeightedBatches(submitted[j])
             used     == {Complexity(t) : t \in submitted[j]}
         IN  /\ estimate <= Len(batches[j]) * Scale
             /\ Len(batches[j]) * Scale <= estimate + Cardinality(used) * Scale
<1> DEFINE n(c) == CountOf(submitted[j], c)
           k(c) == BatchesOf(j, c)
           used == {Complexity(t) : t \in submitted[j]}
           more(c) == IF n(c) > 0 THEN Scale ELSE 0
<1>1. submitted[j] = Drained(j) /\ submitted[j] \in SUBSET Tickets
  BY DEF JobInv, JobTypes, TicketsOnce
<1>2. ASSUME NEW c \in Complexities
      PROVE  /\ n(c) \in Nat /\ k(c) \in Nat /\ Weight(c) \in Nat /\ Scale \in Nat
             /\ n(c) * Weight(c) <= k(c) * Scale
             /\ k(c) * Scale <= n(c) * Weight(c) + more(c)
  <2>1. /\ n(c) \in Nat /\ k(c) \in Nat
        /\ SizeOf(c) \in Nat \ {0} /\ Weight(c) \in Nat \ {0}
        /\ Weight(c) * SizeOf(c) = Scale /\ Scale \in Nat
    BY <1>1, TicketSets, BatchesAddUp, Tables, WeightFacts DEF JobInv, JobTypes
  <2>2. n(c) <= k(c) * SizeOf(c) /\ (k(c) - 1) * SizeOf(c) < n(c)
    BY <1>1 DEF JobInv, Results, CountsAgree
  <2> HIDE DEF n, k
  <2>. QED  BY <2>1, <2>2, ShareOfBatches DEF more
<1>3. /\ WeightedBatches(submitted[j]) = n("complex") * Weight("complex")
           + n("medium") * Weight("medium") + n("simple") * Weight("simple")
      /\ Len(batches[j]) = k("complex") + k("medium") + k("simple")
  BY <1>1, Weighted, BatchesAddUp DEF JobInv, JobTypes
<1>4. Cardinality(used) * Scale = more("complex") + more("medium") + more("simple")
  <2>1. used \in SUBSET Complexities
    BY <1>1, ComplexityType
  <2>2. \A c : n(c) > 0 <=> c \in used
    BY <1>1, TicketSets
  <2> HIDE DEF used, n
  <2>3. Scale \in Nat
    BY WeightFacts
  <2> DEFINE a == IF "complex" \in used THEN 1 ELSE 0
             b == IF "medium" \in used THEN 1 ELSE 0
             d == IF "simple" \in used THEN 1 ELSE 0
  <2>4. Cardinality(used) = a + b + d
    BY <2>1, KindsCounted
  <2>5. (a + b + d) * Scale = a * Scale + b * Scale + d * Scale
    BY <2>3
  <2>6. a * Scale = more("complex") /\ b * Scale = more("medium") /\ d * Scale = more("simple")
    BY <2>2, <2>3
  <2>. QED  BY <2>4, <2>5, <2>6
<1> DEFINE x1 == n("complex") * Weight("complex")  x2 == n("medium") * Weight("medium")
           x3 == n("simple") * Weight("simple")
           y1 == k("complex") * Scale  y2 == k("medium") * Scale  y3 == k("simple") * Scale
           m1 == more("complex")  m2 == more("medium")  m3 == more("simple")
<1>5. /\ x1 \in Nat /\ x2 \in Nat /\ x3 \in Nat /\ y1 \in Nat /\ y2 \in Nat /\ y3 \in Nat
      /\ m1 \in Nat /\ m2 \in Nat /\ m3 \in Nat
      /\ x1 <= y1 /\ x2 <= y2 /\ x3 <= y3
      /\ y1 <= x1 + m1 /\ y2 <= x2 + m2 /\ y3 <= x3 + m3
  <2>1. "complex" \in Complexities /\ "medium" \in Complexities /\ "simple" \in Complexities
    BY DEF Complexities
  <2> HIDE DEF n, k
  <2>. QED  BY <1>2, <2>1
<1>6. Len(batches[j]) * Scale = y1 + y2 + y3
  <2>1. /\ k("complex") \in Nat /\ k("medium") \in Nat /\ k("simple") \in Nat
        /\ Scale \in Nat
    BY <1>2 DEF Complexities
  <2> HIDE DEF k
  <2>. QED  BY <1>3, <2>1
<1>7. WeightedBatches(submitted[j]) = x1 + x2 + x3
  BY <1>3
<1>8. Cardinality(used) * Scale = m1 + m2 + m3
  BY <1>4
<1> HIDE DEF x1, x2, x3, y1, y2, y3, m1, m2, m3, used
<1>9. /\ WeightedBatches(submitted[j]) <= Len(batches[j]) * Scale
      /\ Len(batches[j]) * Scale <= WeightedBatches(submitted[j]) + Cardinality(used) * Scale
  BY <1>5, <1>6, <1>7, <1>8
<1>. QED  BY <1>9 DEF used

LEMMA ExhaustedStep ==
  ASSUME Frame, NEW j \in Jobs, JobInv(j), Exhausted(j)
  PROVE  Frame' /\ OnlyJob(j) /\ JobInv(j)'
<1>1. /\ phase[j] = "processing" /\ queue[j] = {} /\ batch[j].tickets = {}
      /\ phase' = [phase EXCEPT ![j] = "finished"]
      /\ UNCHANGED <<submitted, queue, batch, batches, depth, ewma, eta>>
  BY DEF Exhausted, JobInv, PhaseAgrees
<1>2. /\ phase'[j] = "finished" /\ Frame' /\ OnlyJob(j)
  BY <1>1 DEF Frame, Measured, OnlyJob, Same, Phases, Observable
<1>3. EstimateMet(j)'
  <2>1. /\ WeightedBatches(submitted[j])' = WeightedBatches(submitted[j])
        /\ batches'[j] = batches[j] /\ submitted'[j] = submitted[j]
    BY <1>1 DEF WeightedBatches, CountOf
  <2>. QED  BY <1>1, <2>1, EstimateIsMet DEF EstimateMet
<1>4. JobTypes(j)' /\ PhaseAgrees(j)' /\ LatencyKnown(j)' /\ Covered(j)'
  BY <1>1, <1>2 DEF JobInv, JobTypes, PhaseAgrees, LatencyKnown, Covered, Phases, IsBatch
<1>5. TicketsOnce(j)'
  BY <1>1, <1>2, SameBatches DEF JobInv, TicketsOnce
<1>6. Results(j)'
  BY <1>1, <1>3, ResultsKept DEF JobInv
<1>. QED  BY <1>2, <1>3, <1>4, <1>5, <1>6 DEF JobInv

-----------------------------------------------------------------------------
(* Emitting a batch: it joins the drained ones.                            *)

(* When the collecting loop is left, the batch is full or no ticket of its *)
(* complexity is queued: the loop stops at a ticket of another complexity  *)
(* only when that one is the hardest left.                                 *)
LEMMA LoopIsLeft ==
  ASSUME Frame, NEW j \in Jobs, JobInv(j), PutBack(j) \/ Filled(j)
  PROVE  /\ phase[j] = "collecting" /\ Emit(j, queue[j])
         /\ \A t \in queue[j] : Complexity(t) = batch[j].complexity
              => Cardinality(batch[j].tickets) = SizeOf(batch[j].complexity)
<1>1. /\ queue[j] \in SUBSET Tickets /\ batch[j] \in BatchTypes
      /\ batch[j].tickets \in SUBSET Tickets /\ batch[j].complexity \in Complexities
      /\ Cardinality(batch[j].tickets) <= SizeOf(batch[j].complexity)
  BY DEF JobInv, JobTypes, IsBatch
<1>2. CASE PutBack(j)
  <2>1. PICK f \in Front(queue[j]) :
          /\ Complexity(f) # batch[j].complexity
          /\ Emit(j, (queue[j] \ {f}) \cup {f})
    BY <1>2 DEF PutBack
  <2>2. f \in queue[j] /\ (queue[j] \ {f}) \cup {f} = queue[j]
    BY DEF Front
  <2>3. phase[j] = "collecting" /\ batch[j].tickets # {}
    BY <1>2 DEF PutBack, JobInv, PhaseAgrees
  <2>4. PICK u \in batch[j].tickets : Complexity(u) = batch[j].complexity
    BY <2>3 DEF JobInv, JobTypes, IsBatch
  <2>5. ASSUME NEW t \in queue[j], Complexity(t) = batch[j].complexity PROVE FALSE
    <3>1. Priority(Complexity(f)) <= Priority(Complexity(t))
      BY <2>1 DEF Front
    <3>2. Priority(Complexity(u)) <= Priority(Complexity(f))
      BY <2>2 DEF JobInv, Results, NoHarderLeft
    <3>3. Complexity(f) \in Complexities
      BY <1>1, <2>2, ComplexityType
    <3>4. Priority(Complexity(f)) = Priority(batch[j].complexity)
      <4>1. Priority(Complexity(f)) \in Nat /\ Priority(batch[j].complexity) \in Nat
        BY <1>1, <3>3, Tables
      <4>. QED  BY <2>4, <2>5, <3>1, <3>2, <4>1
    <3>. QED  BY <1>1, <2>1, <3>3, <3>4, Tables
  <2>. QED  BY <2>1, <2>2, <2>3, <2>5
<1>3. CASE Filled(j)
  <2>1. phase[j] = "collecting" /\ Emit(j, queue[j]) /\ ~Wanted(j)
    BY <1>3 DEF Filled
  <2>2. ASSUME NEW t \in queue[j]
        PROVE  Cardinality(batch[j].tickets) = SizeOf(batch[j].complexity)
    <3>1. ~(Cardinality(batch[j].tickets) < SizeOf(batch[j].complexity))
      BY <2>1 DEF Wanted
    <3>2. Cardinality(batch[j].tickets) \in Nat /\ SizeOf(batch[j].complexity) \in Nat
      BY <1>1, TicketSets, Tables
    <3>. QED  BY <1>1, <3>1, <3>2
  <2>. QED  BY <2>1, <2>2
<1>. QED  BY <1>2, <1>3

LEMMA EmitStep ==
  ASSUME Frame, NEW j \in Jobs, JobInv(j), PutBack(j) \/ Filled(j)
  PROVE  Frame' /\ OnlyJob(j) /\ JobInv(j)'
<1> DEFINE b == batch[j]  s == batches[j]  last == Len(batches[j]) + 1
<1>1. /\ phase[j] = "collecting"
      /\ \A t \in queue[j] : Complexity(t) = b.complexity
           => Cardinality(b.tickets) = SizeOf(b.complexity)
      /\ batches' = [batches EXCEPT ![j] = Append(s, b)]
      /\ batch' = [batch EXCEPT ![j] = NoBatch]
      /\ queue' = [queue EXCEPT ![j] = queue[j]]
      /\ depth' = Cardinality(queue[j])
      /\ phase' = [phase EXCEPT ![j] = "calling"]
      /\ UNCHANGED <<submitted, ewma, eta>>
  BY LoopIsLeft DEF Emit
<1>2. /\ b \in BatchTypes /\ IsBatch(b) /\ b.tickets # {} /\ s \in Seq(BatchTypes)
      /\ queue[j] \in SUBSET Tickets
      /\ b.complexity \in Complexities /\ b.tickets \in SUBSET Tickets
      /\ \A t \in b.tickets : Complexity(t) = b.complexity
  BY <1>1 DEF JobInv, JobTypes, PhaseAgrees, IsBatch
<1>3. /\ Append(s, b) \in Seq(BatchTypes) /\ Append(s, b) # << >>
      /\ DOMAIN Append(s, b) = DOMAIN s \cup {last}
      /\ last \notin DOMAIN s /\ last \in Nat
      /\ \A i \in DOMAIN s : Append(s, b)[i] = s[i] /\ i < last /\ i \in Nat
      /\ Append(s, b)[last] = b
  BY <1>2, AppendFacts, SeqFacts
<1>4. NoBatch \in BatchTypes /\ NoBatch.tickets = {} /\ NoBatch.complexity = "simple"
  BY DEF NoBatch, BatchTypes, Complexities
<1>5. Cardinality(queue[j]) \in 0 .. Cardinality(Tickets)
  BY <1>2, TicketSets
<1>6. /\ Frame' /\ OnlyJob(j)
      /\ batches'[j] = Append(s, b) /\ batch'[j] = NoBatch /\ queue'[j] = queue[j]
      /\ phase'[j] = "calling" /\ submitted'[j] = submitted[j] /\ eta'[j] = eta[j]
  <2> HIDE DEF b, s
  <2>1. queue' = queue
    BY <1>1 DEF Frame
  <2>2. phase' \in [Jobs -> Phases]
    BY <1>1 DEF Frame, Phases
  <2>. QED  BY <1>1, <1>3, <1>4, <1>5, <2>1, <2>2 DEF Frame, Measured, OnlyJob, Same, Observable
<1> DEFINE r == batches'[j]
<1>7. /\ DOMAIN r = DOMAIN s \cup {last} /\ r[last] = b
      /\ \A i \in DOMAIN s : r[i] = s[i] /\ i < last /\ i \in Nat
      /\ r \in Seq(BatchTypes) /\ r # << >>
  BY <1>3, <1>6
<1>8. Drained(j)' = Drained(j) \cup b.tickets
  <2>1. Drained(j)' = UNION {r[i].tickets : i \in DOMAIN r}
    BY DEF Drained
  <2>2. Drained(j) = UNION {s[i].tickets : i \in DOMAIN s}
    BY DEF Drained
  <2> HIDE DEF r, s, b, last
  <2>. QED  BY <1>7, <2>1, <2>2
<1>9. /\ submitted[j] = queue[j] \cup b.tickets \cup Drained(j)
      /\ queue[j] \cap (b.tickets \cup Drained(j)) = {}
      /\ b.tickets \cap Drained(j) = {}
      /\ \A i, k \in DOMAIN s : i # k => s[i].tickets \cap s[k].tickets = {}
  BY <1>1 DEF JobInv, TicketsOnce
<1>10. TicketsOnce(j)'
  <2>1. \A i \in DOMAIN s : s[i].tickets \subseteq Drained(j)
    BY DEF Drained
  <2>2. ASSUME NEW i \in DOMAIN r, NEW k \in DOMAIN r, i # k
        PROVE  r[i].tickets \cap r[k].tickets = {}
    <3> HIDE DEF r, s, b, last
    <3>1. CASE i = last
      BY <3>1, <2>1, <2>2, <1>7, <1>9
    <3>2. CASE k = last
      BY <3>2, <2>1, <2>2, <1>7, <1>9
    <3>3. CASE i # last /\ k # last
      BY <3>3, <2>2, <1>7, <1>9
    <3>. QED  BY <3>1, <3>2, <3>3
  <2>3. /\ submitted'[j] = queue'[j] \cup batch'[j].tickets \cup Drained(j)'
        /\ queue'[j] \cap (batch'[j].tickets \cup Drained(j)') = {}
        /\ batch'[j].tickets \cap Drained(j)' = {}
    <3> HIDE DEF b
    <3>. QED  BY <1>4, <1>6, <1>8, <1>9
  <2>. QED  BY <2>2, <2>3 DEF TicketsOnce
<1>11. JobTypes(j)'
  <2>1. \A i \in DOMAIN s : IsBatch(s[i])
    BY DEF JobInv, JobTypes
  <2>2. \A i \in DOMAIN r : IsBatch(r[i])
    BY <1>2, <1>7, <2>1
  <2>3. IsBatch(NoBatch)
    <3>1. SizeOf("simple") \in Nat
      BY Tables DEF Complexities
    <3>. QED  BY <1>4, <3>1, FS_EmptySet DEF IsBatch, Complexities
  <2>4. IsBatch(batch'[j])
    BY <1>6, <2>3
  <2>. QED  BY <1>2, <1>4, <1>6, <1>7, <2>2, <2>4 DEF JobInv, JobTypes, Phases, IsBatch
<1>12. PhaseAgrees(j)' /\ LatencyKnown(j)' /\ Covered(j)' /\ EstimateMet(j)'
  BY <1>4, <1>6, <1>7 DEF PhaseAgrees, LatencyKnown, Covered, EstimateMet
(* Harder batches first: the old ones are no easier than this one, this    *)
(* one no easier than what is queued.                                      *)
<1>13. PICK u \in b.tickets : Complexity(u) = b.complexity
  BY <1>2
<1>14. /\ \A i \in DOMAIN s : Priority(s[i].complexity) <= Priority(b.complexity)
       /\ \A i \in DOMAIN s, t \in queue[j] :
            Priority(s[i].complexity) <= Priority(Complexity(t))
       /\ \A t \in queue[j] : Priority(b.complexity) <= Priority(Complexity(t))
  BY <1>13 DEF JobInv, Results, NoHarderLeft
<1>15. Ordered(j)'
  <2>1. ASSUME NEW i \in DOMAIN r, NEW k \in DOMAIN r, i < k
        PROVE  Priority(r[i].complexity) <= Priority(r[k].complexity)
    <3>1. i \in DOMAIN s
      BY <1>3, <1>7, <2>1
    <3>2. CASE k = last
      BY <3>1, <3>2, <1>7, <1>14
    <3>3. CASE k # last
      BY <3>1, <3>3, <2>1, <1>7 DEF JobInv, Results, Ordered
    <3>. QED  BY <3>2, <3>3
  <2>. QED  BY <2>1 DEF Ordered
<1>16. NoHarderLeft(j)'
  <2>1. ASSUME NEW i \in DOMAIN r, NEW t \in queue[j]
        PROVE  Priority(r[i].complexity) <= Priority(Complexity(t))
    BY <1>7, <1>14
  <2>. QED  BY <1>4, <1>6, <2>1 DEF NoHarderLeft
(* Full batches: one of this complexity before this one is full, and this  *)
(* one is unless nothing of its complexity is queued.                      *)
<1>17. FullBeforeNext(j)'
  <2>1. ASSUME NEW i \in DOMAIN r, NEW k \in DOMAIN r, i < k,
               r[i].complexity = r[k].complexity
        PROVE  Cardinality(r[i].tickets) = SizeOf(r[i].complexity)
    <3>1. i \in DOMAIN s
      BY <1>3, <1>7, <2>1
    <3>2. CASE k = last
      BY <3>1, <3>2, <2>1, <1>7, <1>13 DEF JobInv, Results, ShortIsLast
    <3>3. CASE k # last
      BY <3>1, <3>3, <2>1, <1>7 DEF JobInv, Results, FullBeforeNext
    <3>. QED  BY <3>2, <3>3
  <2>. QED  BY <2>1 DEF FullBeforeNext
<1>18. ShortIsLast(j)'
  <2>1. ASSUME NEW i \in DOMAIN r, NEW t \in queue[j], Complexity(t) = r[i].complexity
        PROVE  Cardinality(r[i].tickets) = SizeOf(r[i].complexity)
    <3>1. CASE i = last
      BY <3>1, <2>1, <1>1, <1>7
    <3>2. CASE i # last
      BY <3>2, <2>1, <1>7 DEF JobInv, Results, ShortIsLast
    <3>. QED  BY <3>1, <3>2
  <2>. QED  BY <1>4, <1>6, <2>1 DEF ShortIsLast
(* The counts: one more batch of this complexity, its tickets more.        *)
<1>19. ASSUME NEW c \in Complexities PROVE CountsAgree(j, c)'
  <2> DEFINE n == CountOf(Drained(j), c)  k == BatchesOf(j, c)
             m == Cardinality(b.tickets)  size == SizeOf(c)
  <2>1. CountsAgree(j, c) /\ Drained(j) \in SUBSET Tickets
    <3>1. submitted[j] \in SUBSET Tickets
      BY DEF JobInv, JobTypes
    <3>. QED  BY <3>1, <1>9 DEF JobInv, Results
  <2>2. n \in Nat /\ k \in Nat /\ size \in Nat \ {0} /\ m \in Nat \ {0}
    <3>1. m \in Nat /\ (m = 0 => b.tickets = {})
      BY <1>2, TicketSets, FS_EmptySet
    <3>. QED  BY <3>1, <2>1, <1>2, TicketSets, BatchesAddUp, Tables
  <2>3. CountsAgree(j, c)' <=>
          /\ CountOf(Drained(j)', c) <= BatchesOf(j, c)' * size
          /\ (BatchesOf(j, c)' - 1) * size < CountOf(Drained(j)', c)
          /\ (\E t \in queue[j] : Complexity(t) = c)
               => CountOf(Drained(j)', c) = BatchesOf(j, c)' * size
    BY <1>4, <1>6 DEF CountsAgree, CountOf
  <2>4. BatchesOf(j, c)' = Cardinality({i \in DOMAIN r : r[i].complexity = c})
    BY DEF BatchesOf
  <2>5. k = Cardinality({i \in DOMAIN s : s[i].complexity = c})
    BY DEF BatchesOf
  <2>6. /\ n <= k * size /\ (k - 1) * size < n
        /\ (\E t \in queue[j] \cup b.tickets : Complexity(t) = c) => n = k * size
    BY <2>1 DEF CountsAgree
  <2>7. CASE c = b.complexity
    <3>1. CountOf(Drained(j)', c) = n + m
      BY <1>2, <1>8, <1>9, <2>1, <2>7, CountMore
    <3>2. BatchesOf(j, c)' = k + 1
      <4> DEFINE I == {i \in DOMAIN s : s[i].complexity = c}
      <4>1. {i \in DOMAIN r : r[i].complexity = c} = I \cup {last} /\ last \notin I
        BY <1>3, <1>7, <2>7
      <4>2. IsFiniteSet(I)
        <5>1. IsFiniteSet(DOMAIN s) /\ I \in SUBSET DOMAIN s
          BY <1>2, SeqFacts, FS_Interval
        <5>. QED  BY <5>1, FS_Subset
      <4> HIDE DEF I
      <4>3. Cardinality(I \cup {last}) = Cardinality(I) + 1
        BY <4>1, <4>2, FS_AddElement
      <4>. QED  BY <4>1, <4>3, <2>4, <2>5 DEF I
    <3>3. n = k * size
      BY <2>6, <2>7, <1>13
    <3>4. m <= size
      BY <1>2, <2>7 DEF IsBatch
    <3>5. (\E t \in queue[j] : Complexity(t) = c) => m = size
      BY <1>1, <2>7
    <3>6. (k + 1) * size = k * size + size /\ (k + 1 - 1) * size = k * size
      BY <2>2
    <3>7. k * size \in Nat
      BY <2>2
    <3> HIDE DEF n, k, m, size
    <3>. QED  BY <2>2, <2>3, <3>1, <3>2, <3>3, <3>4, <3>5, <3>6, <3>7
  <2>8. CASE c # b.complexity
    <3>1. CountOf(Drained(j)', c) = n
      <4>1. \A t \in b.tickets : Complexity(t) # c
        BY <1>2, <2>8
      <4>2. CountOf(Drained(j) \cup b.tickets, c) = CountOf(Drained(j), c)
        BY <4>1, CountKept
      <4>. QED  BY <1>8, <4>2
    <3>2. BatchesOf(j, c)' = k
      <4>1. {i \in DOMAIN r : r[i].complexity = c} = {i \in DOMAIN s : s[i].complexity = c}
        BY <1>3, <1>7, <2>8
      <4>. QED  BY <4>1, <2>4, <2>5
    <3>. QED  BY <2>3, <2>6, <3>1, <3>2
  <2>. QED  BY <2>7, <2>8
<1>20. Results(j)'
  BY <1>12, <1>15, <1>16, <1>17, <1>18, <1>19 DEF Results
<1>. QED  BY <1>6, <1>10, <1>11, <1>12, <1>20 DEF JobInv

-----------------------------------------------------------------------------
(* The invariant holds at the start and is kept by every step.             *)

LEMMA InitInvariant == Init => IInv
<1> SUFFICES ASSUME Init PROVE IInv
  OBVIOUS
<1>1. /\ {} \in SUBSET Tickets /\ Cardinality({}) = 0
      /\ NoBatch \in BatchTypes /\ NoBatch.tickets = {} /\ NoBatch.complexity = "simple"
  BY FS_EmptySet DEF NoBatch, BatchTypes, Complexities
<1>2. Frame
  <2>1. 0 \in 0 .. Cardinality(Tickets)
    BY <1>1, TicketSets
  <2>. QED  BY <1>1, <2>1, BatcherAssumption DEF Init, Frame, Measured, Phases
<1>3. ASSUME NEW j \in Jobs PROVE JobInv(j)
  <2>1. /\ submitted[j] = {} /\ phase[j] = "new" /\ queue[j] = {} /\ batch[j] = NoBatch
        /\ batches[j] = << >> /\ eta[j] = [batches |-> 0, latency |-> DefaultLatency]
    BY DEF Init
  <2>2. IsBatch(NoBatch)
    <3>1. SizeOf("simple") \in Nat
      BY Tables DEF Complexities
    <3>. QED  BY <1>1, <3>1 DEF IsBatch, Complexities
  <2>3. JobTypes(j)
    BY <1>1, <2>1, <2>2, BatcherAssumption DEF JobTypes, Phases
  <2>4. TicketsOnce(j) /\ PhaseAgrees(j) /\ Covered(j) /\ LatencyKnown(j) /\ EstimateMet(j)
    BY <1>1, <2>1 DEF TicketsOnce, PhaseAgrees, Covered, LatencyKnown, EstimateMet
  <2>5. NoHarderLeft(j)
    BY <1>1, <2>1 DEF NoHarderLeft
  <2>. QED  BY <2>1, <2>3, <2>4, <2>5, NothingDrained
            DEF JobInv, Results, EmptyFits, NoBatchFacts
<1>. QED  BY <1>2, <1>3, IInvParts

JobsInv == \A j \in Jobs : JobInv(j)

LEMMA NextInvariant == IInv /\ [Next]_vars => IInv'
<1>1. IInv <=> Frame /\ JobsInv
  BY IInvParts DEF JobsInv
<1>2. IInv' <=> Frame' /\ JobsInv'
  BY <1>1, PTL
<1> SUFFICES ASSUME Frame, JobsInv, [Next]_vars PROVE Frame' /\ JobsInv'
  BY <1>1, <1>2
<1>3. ASSUME NEW j \in Jobs, Frame' /\ OnlyJob(j) /\ JobInv(j)'
      PROVE  Frame' /\ JobsInv'
  <2>1. ASSUME NEW k \in Jobs PROVE JobInv(k)'
    <3>1. CASE k = j
      BY <1>3, <3>1
    <3>2. CASE k # j
      <4>1. JobInv(k) /\ Same(k)
        BY <1>3, <3>2 DEF JobsInv, OnlyJob
      <4>. QED  BY <4>1, SameKeeps
    <3>. QED  BY <3>1, <3>2
  <2>. QED  BY <1>3, <2>1 DEF JobsInv
<1>4. ASSUME NEW j \in Jobs, NEW tickets \in Requests[j], Submit(j, tickets)
      PROVE  Frame' /\ JobsInv'
  <2>1. JobInv(j) /\ tickets \in SUBSET Tickets
    BY BatcherAssumption DEF JobsInv
  <2>. QED  BY <1>3, <1>4, <2>1, SubmitStep
<1>5. ASSUME NEW j \in Jobs, EnqueueMany(j) PROVE Frame' /\ JobsInv'
  <2>1. JobInv(j)
    BY DEF JobsInv
  <2>. QED  BY <1>3, <1>5, <2>1, EnqueueStep
<1>6. ASSUME NEW j \in Jobs, DrainBatch(j) PROVE Frame' /\ JobsInv'
  <2>1. JobInv(j)
    BY DEF JobsInv
  <2>2. CASE DrainFirst(j)
    BY <1>3, <2>1, <2>2, DrainFirstStep
  <2>3. CASE Collect(j)
    BY <1>3, <2>1, <2>3, CollectStep
  <2>4. CASE PutBack(j) \/ Filled(j)
    BY <1>3, <2>1, <2>4, EmitStep
  <2>5. CASE Exhausted(j)
    BY <1>3, <2>1, <2>5, ExhaustedStep
  <2>. QED  BY <1>6, <2>2, <2>3, <2>4, <2>5 DEF DrainBatch
<1>7. ASSUME NEW j \in Jobs, NEW d \in Durations, BatchDone(j, d) PROVE Frame' /\ JobsInv'
  <2>1. JobInv(j)
    BY DEF JobsInv
  <2>. QED  BY <1>3, <1>7, <2>1, BatchDoneStep
<1>8. ASSUME NEW j \in Jobs, Estimate(j) \/ Abandon(j) PROVE Frame' /\ JobsInv'
  <2>1. JobInv(j)
    BY DEF JobsInv
  <2>. QED  BY <1>3, <1>8, <2>1, EstimateStep, AbandonStep
<1>9. CASE UNCHANGED vars
  <2>1. Frame'
    BY <1>9 DEF vars, Frame, Observable, Measured
  <2>2. ASSUME NEW j \in Jobs PROVE JobInv(j)'
    <3>1. JobInv(j) /\ Same(j)
      BY <1>9 DEF JobsInv, vars, Same
    <3>. QED  BY <3>1, SameKeeps
  <2>. QED  BY <2>1, <2>2 DEF JobsInv
<1>. QED  BY <1>4, <1>5, <1>6, <1>7, <1>8, <1>9 DEF Next

(* The invariant that makes the results below inductive: what is left is   *)
(* no harder than what is drained, the batches of a complexity are full    *)
(* while a ticket of it is left, and as many as its tickets need.          *)
THEOREM Invariant == Spec => []IInv
BY InitInvariant, NextInvariant, PTL DEF Spec

-----------------------------------------------------------------------------
(* The results.                                                            *)

(* Every batch holds at most its size of tickets, all of its complexity,   *)
(* and the gauge never leaves the range of one job's tickets.              *)
THEOREM TypeCorrect == Spec => []TypeOK
<1>1. IInv => TypeOK
  BY DEF IInv
<1>. QED  BY <1>1, Invariant, PTL

(* Between the request, the queue and the batches no ticket of a job is    *)
(* lost, put into two batches or invented, whichever ticket the heap       *)
(* yields among equals and whatever candidates are put back.               *)
THEOREM EachTicketOnce == Spec => []EveryTicketOnce
<1>1. IInv => EveryTicketOnce
  BY DEF IInv
<1>. QED  BY <1>1, Invariant, PTL

(* A job drains COMPLEX batches before MEDIUM before SIMPLE ones.          *)
THEOREM HardestComeFirst == Spec => []HardestFirst
<1>1. IInv => HardestFirst
  BY DEF IInv
<1>. QED  BY <1>1, Invariant, PTL

(* Only the last batch of a complexity is short; a finished job has used   *)
(* no fewer batches than the estimate at submission counted in fractions,  *)
(* and at most one more for every complexity it contains.                  *)
THEOREM BatchesAreFewest == Spec => []FewestBatches
<1>1. IInv => FewestBatches
  BY DEF IInv
<1>. QED  BY <1>1, Invariant, PTL

(* Dividing what is left by the size of the batch just done never          *)
(* estimates fewer batches than the fractions that are left.               *)
THEOREM EstimatesCover == Spec => []EtaCovers
<1>1. IInv => EtaCovers
  BY DEF IInv
<1>. QED  BY <1>1, Invariant, PTL

(* However many jobs feed the moving average, after the first batch it and *)
(* every estimate made from it stay between the shortest and the longest   *)
(* possible duration.                                                      *)
THEOREM LatenciesObserved == Spec => []LatencyIsObserved
<1>1. IInv => LatencyIsObserved
  BY DEF IInv
<1>. QED  BY <1>1, Invariant, PTL
=============================================================================
