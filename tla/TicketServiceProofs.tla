------------------------- MODULE TicketServiceProofs -------------------------
(***************************************************************************)
(* What TicketService comes to, for every finite set of tickets, any keys  *)
(* and any bounds.                                                         *)
(***************************************************************************)
EXTENDS TicketService, FiniteSetTheorems, TLAPS

(* What its users assume of the constants.                                 *)
Bounded ==
  /\ IsFiniteSet(Tasks) /\ Key \in [Tasks -> Keys] /\ NoAnswer \notin Tasks
  /\ MaxConcurrent \in Nat /\ MaxRetries \in Nat

LEMMA InFlightFinite ==
  ASSUME Bounded, NEW S \in SUBSET Tasks
  PROVE  IsFiniteSet(S) /\ Cardinality(S) \in Nat
BY FS_Subset, FS_CardinalityType DEF Bounded

LEMMA InitInvariant == ASSUME Bounded, Init PROVE IInv
<1>1. TypeOK /\ CallsCounted /\ AnswersBelong
  BY DEF Init, TypeOK, CallsCounted, AnswersBelong
<1>2. CallsBounded
  BY FS_EmptySet DEF Init, CallsBounded, Bounded
<1>. QED  BY <1>1, <1>2 DEF IInv

(* An answer stays one while calls are only added.                         *)
LEMMA AnswersStay ==
  ASSUME TypeOK, calls' \in [Tasks -> Nat], \A t \in Tasks : calls'[t] >= calls[t]
  PROVE  \A a, k : AnswerTo(a, k) => AnswerTo(a, k)'
BY DEF TypeOK, AnswerTo

(* Whatever KeepFirst keeps is an answer to its key.                       *)
LEMMA KeptBelong ==
  ASSUME Bounded, IInv, NEW t \in Tasks, outcome[t] = "ready"
  PROVE  /\ KeepFirst(t) \in [Keys -> Tasks \cup {NoAnswer}]
         /\ \A k \in Keys : KeepFirst(t)[k] # NoAnswer => AnswerTo(KeepFirst(t)[k], k)
         /\ \A k \in Keys : cache[k] # NoAnswer => KeepFirst(t)[k] = cache[k]
         /\ AnswerTo(t, Key[t])
<1>1. AnswerTo(t, Key[t]) /\ Key[t] \in Keys
  BY DEF IInv, CallsCounted, AnswerTo, Bounded
<1>2. /\ cache \in [Keys -> Tasks \cup {NoAnswer}]
      /\ \A k \in Keys : cache[k] # NoAnswer => AnswerTo(cache[k], k)
  BY DEF IInv, TypeOK, AnswersBelong
<1>. QED  BY <1>1, <1>2 DEF KeepFirst

LEMMA HitStep ==
  ASSUME Bounded, IInv, NEW t \in Tasks, Hit(t)
  PROVE  IInv'
<1>1. TypeOK'
  BY DEF IInv, TypeOK, Hit, Bounded
<1>2. CallsCounted' /\ CallsBounded'
  BY DEF IInv, TypeOK, CallsCounted, CallsBounded, Hit
<1>3. \A a, k : AnswerTo(a, k)' <=> AnswerTo(a, k)
  BY DEF AnswerTo, Hit
<1>4. Key[t] \in Keys
  BY DEF Bounded
<1>5. AnswersBelong'
  BY <1>3, <1>4 DEF IInv, TypeOK, AnswersBelong, Hit
<1>. QED  BY <1>1, <1>2, <1>5 DEF IInv

LEMMA CallStep ==
  ASSUME Bounded, IInv, NEW t \in Tasks, Call(t)
  PROVE  IInv'
<1>1. TypeOK'
  BY DEF IInv, TypeOK, Call
<1>2. CallsCounted'
  BY DEF IInv, TypeOK, CallsCounted, Call
<1>3. CallsBounded'
  <2>1. /\ IsFiniteSet(inFlight) /\ Cardinality(inFlight) \in Nat
        /\ Cardinality(inFlight) < MaxConcurrent /\ t \notin inFlight
        /\ inFlight' = inFlight \cup {t}
    BY InFlightFinite DEF IInv, TypeOK, Call
  <2>2. Cardinality(inFlight') = Cardinality(inFlight) + 1
    BY <2>1, FS_AddElement
  <2>3. Cardinality(inFlight') <= MaxConcurrent
    BY <2>1, <2>2 DEF Bounded
  <2>4. \A u \in Tasks : calls'[u] <= MaxRetries
    BY DEF IInv, TypeOK, CallsBounded, Call, Bounded
  <2>. QED  BY <2>3, <2>4 DEF CallsBounded
<1>4. \A a, k : AnswerTo(a, k) => AnswerTo(a, k)'
  <2>1. \A u \in Tasks : calls'[u] >= calls[u]
    BY DEF IInv, TypeOK, Call
  <2>. QED  BY <1>1, <2>1, AnswersStay DEF IInv, TypeOK
<1>5. AnswersBelong'
  BY <1>4 DEF IInv, AnswersBelong, Call
<1>. QED  BY <1>1, <1>2, <1>3, <1>5 DEF IInv

(* A call that ends leaves the bounds as they are.                         *)
LEMMA EndedCallKeepsBounds ==
  ASSUME Bounded, IInv, NEW t \in Tasks, inFlight' = inFlight \ {t}, calls' = calls
  PROVE  CallsBounded'
<1>1. /\ IsFiniteSet(inFlight) /\ Cardinality(inFlight) \in Nat
      /\ inFlight' = inFlight \ {t} /\ inFlight' \in SUBSET inFlight
      /\ Cardinality(inFlight) <= MaxConcurrent
  BY InFlightFinite DEF IInv, TypeOK, CallsBounded
<1>2. Cardinality(inFlight') <= Cardinality(inFlight) /\ Cardinality(inFlight') \in Nat
  BY <1>1, FS_Subset, FS_CardinalityType
<1>3. Cardinality(inFlight') <= MaxConcurrent
  BY <1>1, <1>2 DEF Bounded
<1>. QED  BY <1>3 DEF IInv, CallsBounded

LEMMA ReturnUncachedStep ==
  ASSUME Bounded, IInv, NEW t \in Tasks, ReturnUncached(t)
  PROVE  IInv'
<1>1. TypeOK' /\ CallsCounted'
  BY DEF IInv, TypeOK, CallsCounted, ReturnUncached
<1>2. CallsBounded'
  BY EndedCallKeepsBounds DEF ReturnUncached
<1>3. \A a, k : AnswerTo(a, k)' <=> AnswerTo(a, k)
  BY DEF AnswerTo, ReturnUncached
<1>4. AnswerTo(t, Key[t])
  BY DEF IInv, CallsCounted, AnswerTo, ReturnUncached
<1>5. AnswersBelong'
  BY <1>3, <1>4 DEF IInv, TypeOK, AnswersBelong, ReturnUncached
<1>. QED  BY <1>1, <1>2, <1>5 DEF IInv

LEMMA ReturnStep ==
  ASSUME Bounded, IInv, NEW t \in Tasks, Return(t)
  PROVE  IInv'
<1>1. TypeOK'
  BY DEF IInv, TypeOK, Return
<1>2. CallsCounted'
  BY DEF IInv, TypeOK, CallsCounted, Return
<1>3. CallsBounded'
  BY EndedCallKeepsBounds DEF Return
<1>4. \A a, k : AnswerTo(a, k)' <=> AnswerTo(a, k)
  BY DEF AnswerTo, Return
<1>5. \A u \in Tasks : outcome'[u] = "answered" => outcome[u] = "answered"
  BY DEF IInv, TypeOK, Return
<1>6. AnswersBelong'
  BY <1>4, <1>5 DEF IInv, AnswersBelong, Return
<1>. QED  BY <1>1, <1>2, <1>3, <1>6 DEF IInv

LEMMA EndStep ==
  ASSUME Bounded, IInv, NEW t \in Tasks, GiveUp(t) \/ Deliver(t) \/ Lose(t)
  PROVE  IInv'
<1>1. \A a, k : AnswerTo(a, k)' <=> AnswerTo(a, k)
  BY DEF AnswerTo, GiveUp, Deliver, Lose
<1>2. \A k \in Keys : cache'[k] # NoAnswer => AnswerTo(cache'[k], k)
  BY KeptBelong DEF IInv, AnswersBelong, GiveUp, Deliver, Lose
<1>3. /\ cache' \in [Keys -> Tasks \cup {NoAnswer}]
      /\ outcome' \in [Tasks -> {"pending", "ready", "answered", "failed"}]
      /\ answer' \in [Tasks -> Tasks \cup {NoAnswer}]
      /\ UNCHANGED <<calls, inFlight>>
  BY KeptBelong DEF IInv, TypeOK, GiveUp, Deliver, Lose
<1>4. TypeOK' /\ CallsBounded'
  BY <1>3 DEF IInv, TypeOK, CallsBounded
<1>5. CallsCounted'
  BY DEF IInv, TypeOK, CallsCounted, GiveUp, Deliver, Lose
<1>6. \A u \in Tasks : outcome'[u] = "answered" => AnswerTo(answer'[u], Key[u])
  <2>1. \A u \in Tasks \ {t} : outcome'[u] = outcome[u] /\ answer'[u] = answer[u]
    BY DEF IInv, TypeOK, GiveUp, Deliver, Lose
  <2>2. outcome'[t] = "answered" => outcome[t] = "ready" /\ answer'[t] = t
    BY DEF IInv, TypeOK, GiveUp, Deliver, Lose
  <2>. QED  BY <2>1, <2>2, KeptBelong DEF IInv, AnswersBelong
<1>7. AnswersBelong'
  BY <1>1, <1>2, <1>6 DEF AnswersBelong
<1>. QED  BY <1>4, <1>5, <1>7 DEF IInv

LEMMA NextInvariant == ASSUME Bounded, IInv, [Next]_vars PROVE IInv'
<1>1. ASSUME NEW k \in Keys, Expire(k) PROVE IInv'
  <2>1. \A a, l : AnswerTo(a, l)' <=> AnswerTo(a, l)
    BY <1>1 DEF AnswerTo, Expire
  <2>. QED  BY <1>1, <2>1 DEF IInv, TypeOK, CallsCounted, CallsBounded, AnswersBelong, Expire
<1>2. CASE UNCHANGED vars
  <2>1. \A a, l : AnswerTo(a, l)' <=> AnswerTo(a, l)
    BY <1>2 DEF AnswerTo, vars
  <2>. QED  BY <1>2, <2>1 DEF IInv, TypeOK, CallsCounted, CallsBounded, AnswersBelong, vars
<1>. QED  BY <1>1, <1>2, HitStep, CallStep, ReturnStep, ReturnUncachedStep, EndStep DEF Next

(* What is decided stays so: only a pending ticket has a call that could   *)
(* still decide it.                                                        *)
LEMMA DecidedStays ==
  ASSUME Bounded, IInv, [Next]_vars, NEW t \in Tasks, outcome[t] \in {"answered", "failed"}
  PROVE  outcome'[t] = outcome[t] /\ answer'[t] = answer[t] /\ calls'[t] = calls[t]
<1>1. t \notin inFlight
  BY DEF IInv, CallsCounted
<1>2. ASSUME NEW u \in Tasks,
             \/ Hit(u) \/ Call(u) \/ Return(u) \/ ReturnUncached(u)
             \/ GiveUp(u) \/ Deliver(u) \/ Lose(u)
      PROVE  outcome'[t] = outcome[t] /\ answer'[t] = answer[t] /\ calls'[t] = calls[t]
  <2>1. u # t
    BY <1>1, <1>2 DEF Hit, Call, Return, ReturnUncached, GiveUp, Deliver, Lose
  <2>. QED  BY <1>2, <2>1
            DEF IInv, TypeOK, Hit, Call, Return, ReturnUncached, GiveUp, Deliver, Lose
<1>. QED  BY <1>2 DEF Next, Expire, vars

LEMMA CachedStays ==
  ASSUME Bounded, IInv, [Next]_vars, NEW k \in Keys, cache[k] # NoAnswer
  PROVE  cache'[k] \in {cache[k], NoAnswer}
<1>1. ASSUME NEW t \in Tasks,
             \/ Hit(t) \/ Call(t) \/ Return(t) \/ ReturnUncached(t)
             \/ GiveUp(t) \/ Deliver(t) \/ Lose(t)
      PROVE  cache'[k] \in {cache[k], NoAnswer}
  BY <1>1, KeptBelong DEF Hit, Call, Return, ReturnUncached, GiveUp, Deliver, Lose
<1>. QED  BY <1>1 DEF IInv, TypeOK, Next, Expire, vars

-----------------------------------------------------------------------------
(* No ticket costs more than MaxRetries calls, no more than MaxConcurrent  *)
(* run at once, and every answer, cached or given, comes from a call that  *)
(* was made for an equal ticket.                                           *)
THEOREM Promised ==
  ASSUME Bounded
  PROVE  Spec => [](CallsBounded /\ AnswersBelong)
<1>1. Init => IInv
  BY InitInvariant
<1>2. IInv /\ [Next]_vars => IInv'
  BY NextInvariant
<1>3. IInv => CallsBounded /\ AnswersBelong
  BY DEF IInv
<1>. QED  BY <1>1, <1>2, <1>3, PTL DEF Spec

(* A ticket that is answered or failed keeps its answer and costs no       *)
(* further call, whatever the others and the cache do.                     *)
THEOREM Final ==
  ASSUME Bounded
  PROVE  Spec => VerdictsFinal
<1>1. Init => IInv
  BY InitInvariant
<1>2. IInv /\ [Next]_vars => IInv'
  BY NextInvariant
<1>3. IInv /\ [Next]_vars =>
        [\A t \in Tasks :
           outcome[t] \in {"answered", "failed"} =>
             outcome'[t] = outcome[t] /\ answer'[t] = answer[t] /\ calls'[t] = calls[t]]_vars
  BY DecidedStays
<1>. QED  BY <1>1, <1>2, <1>3, PTL DEF Spec, VerdictsFinal

(* A cached answer is not replaced before it expires.                      *)
THEOREM FirstKept ==
  ASSUME Bounded
  PROVE  Spec => FirstAnswerKept
<1>1. Init => IInv
  BY InitInvariant
<1>2. IInv /\ [Next]_vars => IInv'
  BY NextInvariant
<1>3. IInv /\ [Next]_vars =>
        [\A k \in Keys : cache[k] # NoAnswer => cache'[k] \in {cache[k], NoAnswer}]_vars
  BY CachedStays
<1>. QED  BY <1>1, <1>2, <1>3, PTL DEF Spec, FirstAnswerKept
=============================================================================
