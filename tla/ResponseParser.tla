---------------------------- MODULE ResponseParser ----------------------------
(***************************************************************************)
(* How an answer is found in what the model said: _strip_think_tags,       *)
(* json.loads, and _extract_json_object's scan for a block that parses     *)
(* (pipeline/caller.py).  One action is one json.loads and what follows    *)
(* from it; the scan's loop makes one such step per block.                 *)
(*                                                                         *)
(* A text is a sequence of tokens.  "member" is a member of an object,     *)
(* "member {" and "member }" are members with that brace in a string;      *)
(* "key" is a key whose value must be an object; "value" is a JSON value   *)
(* that is no object; "prose" is anything json.loads refuses.  Commas and  *)
(* white space belong to the tokens beside them.  A block cut inside a     *)
(* string does not parse.                                                  *)
(***************************************************************************)
EXTENDS Integers, Sequences, FiniteSetsExt

CONSTANT Texts   \* the contents the model may return

VARIABLES
  text,         \* content
  searchStart,  \* search_start, counted in text; where the search begins
  phase,        \* what comes next
  found         \* the bounds in text of the value returned

vars == <<text, searchStart, phase, found>>

(* A closing tag inside a string and an array of objects are left out. *)
Tokens == {"{", "}", "member", "member {", "member }", "key", "value", "prose",
           "<think>", "</think>"}

ASSUME ParserAssumption == Texts \subseteq Seq(Tokens)

NotFound == [first |-> 0, last |-> 0]

-----------------------------------------------------------------------------
(* What json.loads accepts.                                                *)

Part(i, j) == SubSeq(text, i, j)

(* How often the tokens of T occur in s[i] .. s[j]. *)
Count(s, i, j, T) == Cardinality({k \in i .. j : s[k] \in T})

Level(s, i) == Count(s, 1, i, {"{"}) - Count(s, 1, i, {"}"})

IsObject(s) ==
  /\ s # <<>> /\ s[1] = "{"
  /\ \A i \in 1 .. Len(s) :
       /\ s[i] \in {"{", "}", "member", "member {", "member }", "key"}
       /\ Level(s, i) > 0 <=> i < Len(s)
       /\ i > 1 => (s[i] = "{" <=> s[i - 1] = "key")
  /\ Level(s, Len(s)) = 0

IsJson(s) == IsObject(s) \/ s = <<"value">>

-----------------------------------------------------------------------------
(* _strip_think_tags: what follows the last closing tag, unless that is
   nothing.  Without a closing tag the regular expression matches nothing. *)

Closings == {i \in DOMAIN text : text[i] = "</think>"}

(* Mutated form of AnswerStart: find instead of rfind. *)
AnswerStartFirst ==
  IF Closings = {} \/ Min(Closings) = Len(text) THEN 1 ELSE Min(Closings) + 1

AnswerStart ==
  IF Closings = {} \/ Max(Closings) = Len(text) THEN 1 ELSE Max(Closings) + 1

Init ==
  /\ text \in Texts
  /\ searchStart = AnswerStart
  /\ phase = "whole"
  /\ found = NotFound

-----------------------------------------------------------------------------
Return(i, j) ==
  /\ found' = [first |-> i, last |-> j]
  /\ phase' = "returned"
  /\ UNCHANGED <<text, searchStart>>

(* Mutated form of ParseWhole: there is only the scan. *)
ParseNothing ==
  /\ phase = "whole"
  /\ phase' = "scanning"
  /\ UNCHANGED <<text, searchStart, found>>

(* json.loads(content_clean); the scan begins if it raises. *)
ParseWhole ==
  /\ phase = "whole"
  /\ IF IsJson(Part(searchStart, Len(text)))
     THEN Return(searchStart, Len(text))
     ELSE phase' = "scanning" /\ UNCHANGED <<text, searchStart, found>>

(* The scan sees every brace, those in strings included. *)
Opening == {"{", "member {"}
Closing == {"}", "member }"}

Starts == {i \in searchStart .. Len(text) : text[i] \in Opening}

(* Where depth is back to 0 behind the brace at i. *)
Depth(i, j) == Count(text, i, j, Opening) - Count(text, i, j, Closing)
Ends(i) == {j \in i .. Len(text) : Depth(i, j) = 0}

(* Mutated form of NextStart: the scan resumes behind the next token. *)
NextStartSkipping(i) == Min(Ends(i)) + 2

(* Mutated form of NextStart: the scan resumes at the block that failed. *)
NextStartStuck(i) == i

NextStart(i) == Min(Ends(i)) + 1

TryBlock ==
  /\ phase = "scanning" /\ Starts # {}
  /\ LET i == Min(Starts)
     IN  /\ Ends(i) # {}
         /\ IF IsJson(Part(i, Min(Ends(i))))
            THEN Return(i, Min(Ends(i)))
            ELSE searchStart' = NextStart(i) /\ UNCHANGED <<text, phase, found>>

(* No further brace, or one that is never balanced: JSONDecodeError. *)
GiveUp ==
  /\ phase = "scanning"
  /\ Starts # {} => Ends(Min(Starts)) = {}
  /\ phase' = "raised"
  /\ UNCHANGED <<text, searchStart, found>>

Next == ParseWhole \/ TryBlock \/ GiveUp

(* The scan never waits for anything. *)
Spec == Init /\ [][Next]_vars /\ WF_vars(Next)

-----------------------------------------------------------------------------
(* The variables' types; whatever is returned parses, and so is balanced.  *)
TypeOK ==
  /\ text \in Seq(Tokens)
  /\ searchStart \in 1 .. Len(text) + 1
  /\ phase \in {"whole", "scanning", "returned", "raised"}
  /\ found # NotFound <=> phase = "returned"
  /\ phase = "returned" => IsJson(Part(found.first, found.last))

(* A response that is one JSON object behind the reasoning is returned as  *)
(* it is, whatever braces its strings hold and whatever JSON the reasoning *)
(* sketched: the naive scan never gets to see it.                          *)
CleanAnswerIsReturned ==
  \A i \in DOMAIN text :
    /\ i = 1 \/ text[i - 1] = "</think>"
    /\ IsObject(Part(i, Len(text))) /\ phase \in {"returned", "raised"}
    => found = [first |-> i, last |-> Len(text)]

(* JSON of the reasoning is taken for the answer only if the model wrote   *)
(* nothing behind it: what is returned has no closing tag at or behind its *)
(* start, but for one that ends the text.                                  *)
ReasoningOnlyAsFallback ==
  phase = "returned" =>
    \A i \in Closings : found.first <= i => Len(text) \in Closings

(* No string holds a brace. *)
Plain == \A i \in DOMAIN text : text[i] \notin {"member {", "member }"}

ObjectAt(i, j) ==
  i \in AnswerStart .. Len(text) /\ j \in i .. Len(text) /\ IsObject(Part(i, j))

(* A block around i .. j, or a brace before it that is never closed. *)
InTheWay(i, j) ==
  \E k \in AnswerStart .. i - 1 :
    text[k] \in Opening /\ (Ends(k) = {} \/ Min(Ends(k)) > j)

(* Where no string holds a brace, an object is passed over only for one    *)
(* that ends before it starts or around it, or when a block it is in, or a *)
(* brace before it that is never closed, stands in the way.                *)
ObjectsAreFound ==
  phase \in {"returned", "raised"} /\ Plain =>
    \A i, j \in DOMAIN text :
      ObjectAt(i, j) => (phase = "returned" /\ found.first <= i) \/ InTheWay(i, j)

(* Every response is parsed or refused.                                    *)
Terminates == <>(phase \in {"returned", "raised"})

-----------------------------------------------------------------------------
(* The inductive invariant behind the safety theorems.                     *)

Bounds == [first : Nat, last : Nat]

(* The search begins behind the reasoning and never goes back; the scan    *)
(* runs only when the whole answer does not parse.                         *)
WholeFirst ==
  LET first == AnswerStart
      parses == IsJson(Part(first, Len(text)))
  IN  /\ first <= searchStart
      /\ phase = "whole" => searchStart = first
      /\ phase \in {"scanning", "raised"} => ~parses
      /\ phase = "returned" =>
           /\ searchStart <= found.first
           /\ parses => found = [first |-> first, last |-> Len(text)]

(* What the scan has passed over had something in the way.                 *)
NothingPassedOver ==
  phase \in {"whole", "scanning"} /\ Plain =>
    \A i, j \in DOMAIN text : ObjectAt(i, j) => searchStart <= i \/ InTheWay(i, j)

IInv ==
  /\ TypeOK /\ found \in Bounds /\ WholeFirst /\ NothingPassedOver
  /\ CleanAnswerIsReturned /\ ReasoningOnlyAsFallback /\ ObjectsAreFound
=============================================================================
