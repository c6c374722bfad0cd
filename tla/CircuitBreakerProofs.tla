------------------------ MODULE CircuitBreakerProofs ------------------------
(***************************************************************************)
(* Proofs about CircuitBreaker for every set of callers and every          *)
(* threshold, window and timeout.                                          *)
(***************************************************************************)
EXTENDS CircuitBreaker, FiniteSetTheorems, TLAPS

Ages == 0 .. WindowSeconds + 1
CBRecord == [state    : {"CLOSED", "OPEN", "HALF_OPEN"},
             failures : Seq(Ages),
             openFor  : {NotOpened} \cup 0 .. RecoveryTimeout]

(* Eviction drops a prefix: it yields a sequence of ages that is no longer *)
(* than the one it is given.                                               *)
LEMMA EvictType ==
  ASSUME NEW f \in Seq(Ages)
  PROVE  /\ EvictOldFailures(f) \in Seq(Ages)
         /\ Len(EvictOldFailures(f)) <= Len(f)
<1>1. Stale(f) \in SUBSET (1 .. Len(f))
  BY DEF Stale
<1>2. IsFiniteSet(1 .. Len(f)) /\ Cardinality(1 .. Len(f)) = Len(f)
  <2>1. 1 \in Int /\ Len(f) \in Int /\ Len(f) >= 0
    OBVIOUS
  <2>2. IsFiniteSet(1 .. Len(f)) /\ Cardinality(1 .. Len(f)) = IF 1 > Len(f) THEN 0 ELSE Len(f) - 1 + 1
    BY <2>1, FS_Interval, Zenon
  <2>. QED  BY <2>1, <2>2
<1>3. IsFiniteSet(Stale(f)) /\ Cardinality(Stale(f)) <= Len(f)
  BY <1>1, <1>2, FS_Subset
<1>4. Cardinality(Stale(f)) \in Nat
  BY <1>3, FS_CardinalityType
<1>. QED
  BY <1>3, <1>4 DEF EvictOldFailures

(* Recording a failure keeps the record well-formed and never leaves a     *)
(* CLOSED circuit at its threshold, nor a HALF_OPEN one undecided.         *)
LEMMA OnFailureFacts ==
  ASSUME NEW b \in CBRecord,
         b.state = "CLOSED" <=> b.openFor = NotOpened
  PROVE  /\ OnFailure(b) \in CBRecord
         /\ OnFailure(b).state # "HALF_OPEN"
         /\ OnFailure(b).state = "CLOSED" <=> OnFailure(b).openFor = NotOpened
         /\ OnFailure(b).state = "CLOSED"
              => Len(OnFailure(b).failures) < FailureThreshold
<1> DEFINE f == EvictOldFailures(Append(b.failures, 0))
<1>1. f \in Seq(Ages) /\ Len(f) \in Nat
  <2>1. Append(b.failures, 0) \in Seq(Ages)
    BY BreakerAssumption DEF CBRecord, Ages
  <2>2. f \in Seq(Ages)
    BY <2>1, EvictType, Zenon
  <2>. QED  BY <2>2
<1>2. OnFailure(b) = IF b.state = "HALF_OPEN" \/ (b.state = "CLOSED" /\ Len(f) >= FailureThreshold)
                     THEN Opened([b EXCEPT !.failures = f])
                     ELSE [b EXCEPT !.failures = f]
  BY DEF OnFailure
<1> HIDE DEF f
<1>3. CASE b.state = "HALF_OPEN" \/ (b.state = "CLOSED" /\ Len(f) >= FailureThreshold)
  <2>1. OnFailure(b) = [state |-> "OPEN", failures |-> f, openFor |-> 0]
    BY <1>2, <1>3 DEF Opened, CBRecord
  <2>. QED  BY <2>1, <1>1, BreakerAssumption DEF CBRecord, NotOpened
<1>4. CASE ~(b.state = "HALF_OPEN" \/ (b.state = "CLOSED" /\ Len(f) >= FailureThreshold))
  <2>1. OnFailure(b) = [state |-> b.state, failures |-> f, openFor |-> b.openFor]
    BY <1>2, <1>4 DEF CBRecord
  <2>. QED  BY <2>1, <1>1, <1>4, BreakerAssumption DEF CBRecord, NotOpened
<1>. QED
  BY <1>3, <1>4

(* Recording a success closes a HALF_OPEN circuit with an empty window and *)
(* leaves any other circuit as it was.                                     *)
LEMMA OnSuccessFacts ==
  ASSUME NEW b \in CBRecord,
         b.state = "CLOSED" <=> b.openFor = NotOpened,
         b.state = "CLOSED" => Len(b.failures) < FailureThreshold
  PROVE  /\ OnSuccess(b) \in CBRecord
         /\ OnSuccess(b).state # "HALF_OPEN"
         /\ OnSuccess(b).state = "CLOSED" <=> OnSuccess(b).openFor = NotOpened
         /\ OnSuccess(b).state = "CLOSED"
              => Len(OnSuccess(b).failures) < FailureThreshold
<1>1. << >> \in Seq(Ages) /\ Len(<< >>) = 0
  OBVIOUS
<1>. QED
  BY <1>1, BreakerAssumption DEF OnSuccess, CBRecord, NotOpened

-----------------------------------------------------------------------------
LEMMA InitInvariant == Init => IInv
<1> SUFFICES ASSUME Init PROVE IInv
  OBVIOUS
<1> USE DEF Init
<1>1. /\ << >> \in Seq(Callers) /\ << >> \in Seq(0 .. WindowSeconds + 1)
      /\ DOMAIN << >> = {} /\ Len(<< >>) = 0
  OBVIOUS
<1>2. TypeOK
  BY <1>1 DEF TypeOK, PCs, OpenedIsStamped
<1>3. ProbeExclusive
  BY DEF ProbeExclusive, HoldingPCs
<1>4. QueueConsistent
  BY <1>1 DEF QueueConsistent
<1>5. ClosedBelowThreshold
  BY <1>1, BreakerAssumption DEF ClosedBelowThreshold
<1>6. HalfOpenIsBeingResolved
  BY DEF HalfOpenIsBeingResolved
<1>. QED
  BY <1>2, <1>3, <1>4, <1>5, <1>6 DEF IInv

(* What MaybeTransition does to a record that satisfies the invariant.     *)
LEMMA MaybeTransitionFacts ==
  ASSUME TypeOK
  PROVE  /\ MaybeTransition(cb) \in CBRecord
         /\ MaybeTransition(cb).failures = cb.failures
         /\ MaybeTransition(cb).openFor = cb.openFor
         /\ MaybeTransition(cb).state = "CLOSED" <=> cb.state = "CLOSED"
BY BreakerAssumption DEF MaybeTransition, CBRecord, TypeOK, OpenedIsStamped, NotOpened, Ages

(* The parts of the invariant that only concern the breaker record. *)
RecordInv ==
  cb \in CBRecord /\ ClosedBelowThreshold /\ OpenedIsStamped

(* The parts that only concern the lock. *)
LockInv ==
  /\ locked \in BOOLEAN
  /\ waiters \in Seq(Callers)
  /\ pc \in [Callers -> PCs]
  /\ ProbeExclusive
  /\ QueueConsistent

LEMMA IInvParts == IInv <=> RecordInv /\ LockInv /\ HalfOpenIsBeingResolved
BY DEF IInv, RecordInv, LockInv, TypeOK, CBRecord, Ages

(* A caller that takes the lock at the end of the queue, or joins it.      *)
LEMMA EnqueueKeepsLockInv ==
  ASSUME LockInv, NEW c \in Callers, pc[c] = "idle",
         waiters' = Append(waiters, c), locked' = locked,
         pc' = [pc EXCEPT ![c] = "waiting"]
  PROVE  LockInv'
<1> USE DEF PCs, InFlightPCs, HoldingPCs
<1>1. locked' \in BOOLEAN /\ waiters' \in Seq(Callers) /\ pc' \in [Callers -> PCs]
  BY DEF LockInv
<1>2. ProbeExclusive'
  BY DEF LockInv, ProbeExclusive
<1>3. /\ DOMAIN waiters' = 1 .. Len(waiters) + 1
      /\ waiters'[Len(waiters) + 1] = c
      /\ \A i \in 1 .. Len(waiters) : waiters'[i] = waiters[i]
      /\ DOMAIN waiters = 1 .. Len(waiters) /\ Len(waiters) \in Nat
  BY DEF LockInv
<1>4. \A i \in 1 .. Len(waiters) : waiters[i] # c
  BY <1>3 DEF LockInv, QueueConsistent
<1>5. ASSUME NEW d \in Callers
      PROVE  pc'[d] = "waiting" <=> \E i \in DOMAIN waiters' : waiters'[i] = d
  <2>1. CASE d = c
    BY <2>1, <1>3 DEF LockInv
  <2>2. CASE d # c
    <3>1. pc'[d] = pc[d]
      BY <2>2 DEF LockInv
    <3>2. (\E i \in DOMAIN waiters' : waiters'[i] = d) <=> \E i \in DOMAIN waiters : waiters[i] = d
      BY <1>3, <2>2
    <3>. QED  BY <3>1, <3>2 DEF LockInv, QueueConsistent
  <2>. QED  BY <2>1, <2>2
<1>6. ASSUME NEW i \in DOMAIN waiters', NEW j \in DOMAIN waiters', waiters'[i] = waiters'[j]
      PROVE  i = j
  BY <1>3, <1>4, <1>6 DEF LockInv, QueueConsistent
<1>. QED  BY <1>1, <1>2, <1>5, <1>6 DEF LockInv, QueueConsistent

(* The head of the queue leaves it, taking the free lock or not.           *)
LEMMA DequeueKeepsLockInv ==
  ASSUME LockInv, NEW c \in Callers, Woken(c), NEW where \in PCs \ {"waiting"},
         waiters' = Tail(waiters), locked' = (where \in HoldingPCs),
         pc' = [pc EXCEPT ![c] = where]
  PROVE  LockInv'
<1> USE DEF PCs, InFlightPCs, HoldingPCs
<1>1. locked' \in BOOLEAN /\ waiters' \in Seq(Callers) /\ pc' \in [Callers -> PCs]
  BY DEF LockInv, Woken
<1>2. ProbeExclusive'
  BY DEF LockInv, ProbeExclusive, Woken
<1>3. /\ Len(waiters) \in Nat \ {0}
      /\ DOMAIN waiters = 1 .. Len(waiters)
      /\ DOMAIN waiters' = 1 .. Len(waiters) - 1
      /\ \A i \in 1 .. Len(waiters) - 1 : waiters'[i] = waiters[i + 1]
      /\ waiters[1] = c
  BY DEF LockInv, Woken
<1>4. \A i \in 1 .. Len(waiters) - 1 : waiters[i + 1] # c
  BY <1>3 DEF LockInv, QueueConsistent
<1>5. ASSUME NEW d \in Callers
      PROVE  pc'[d] = "waiting" <=> \E i \in DOMAIN waiters' : waiters'[i] = d
  <2>1. CASE d = c
    BY <2>1, <1>3, <1>4 DEF LockInv
  <2>2. CASE d # c
    <3>1. pc'[d] = pc[d]
      BY <2>2 DEF LockInv
    <3>2. ASSUME NEW i \in DOMAIN waiters, waiters[i] = d
          PROVE  \E k \in DOMAIN waiters' : waiters'[k] = d
      <4>1. i - 1 \in 1 .. Len(waiters) - 1
        BY <3>2, <2>2, <1>3
      <4>2. waiters'[i - 1] = d
        BY <4>1, <3>2, <1>3
      <4>. QED  BY <4>1, <4>2, <1>3
    <3>3. ASSUME NEW i \in DOMAIN waiters', waiters'[i] = d
          PROVE  \E k \in DOMAIN waiters : waiters[k] = d
      BY <3>3, <1>3
    <3>. QED  BY <3>1, <3>2, <3>3 DEF LockInv, QueueConsistent
  <2>. QED  BY <2>1, <2>2
<1>6. ASSUME NEW i \in DOMAIN waiters', NEW j \in DOMAIN waiters', waiters'[i] = waiters'[j]
      PROVE  i = j
  BY <1>3, <1>6 DEF LockInv, QueueConsistent
<1>. QED  BY <1>1, <1>2, <1>5, <1>6 DEF LockInv, QueueConsistent

(* Entering call().                                                        *)
LEMMA EnterStep ==
  ASSUME IInv, NEW c \in Callers, Enter(c)
  PROVE  IInv'
<1> USE DEF PCs, InFlightPCs, HoldingPCs
<1>0. RecordInv /\ LockInv /\ HalfOpenIsBeingResolved
  BY IInvParts
<1>1. CASE Admit(c)
  <2>1. LockInv'
    BY <1>0, <1>1 DEF Admit, LockInv, ProbeExclusive, QueueConsistent
  <2>2. RecordInv' /\ HalfOpenIsBeingResolved'
    BY <1>0, <1>1 DEF Admit, RecordInv, ClosedBelowThreshold, OpenedIsStamped, HalfOpenIsBeingResolved
  <2>. QED  BY <2>1, <2>2, IInvParts, PTL
<1>2. CASE Reject(c)
  BY <1>2 DEF Reject, vars, IInv, TypeOK, ProbeExclusive, QueueConsistent,
     ClosedBelowThreshold, OpenedIsStamped, HalfOpenIsBeingResolved
<1>3. ASSUME cb' = MaybeTransition(cb)
      PROVE  RecordInv'
  <2>1. TypeOK
    BY DEF IInv
  <2>2. /\ cb' \in CBRecord
        /\ cb'.failures = cb.failures /\ cb'.openFor = cb.openFor
        /\ cb'.state = "CLOSED" <=> cb.state = "CLOSED"
    BY <2>1, <1>3, MaybeTransitionFacts, Zenon
  <2>. QED  BY <2>2, <1>0 DEF RecordInv, ClosedBelowThreshold, OpenedIsStamped
<1>4. CASE Probe(c)
  <2>1. RecordInv'
    BY <1>3, <1>4 DEF Probe
  <2>2. LockInv' /\ HalfOpenIsBeingResolved'
    BY <1>0, <1>4 DEF Probe, LockFree, LockInv, ProbeExclusive, QueueConsistent, HalfOpenIsBeingResolved
  <2>. QED  BY <2>1, <2>2, IInvParts, PTL
<1>5. CASE QueueForProbe(c)
  <2>1. RecordInv'
    BY <1>3, <1>5 DEF QueueForProbe
  <2>2. LockInv'
    BY <1>0, <1>5, EnqueueKeepsLockInv DEF QueueForProbe
  <2>3. waiters' # << >>
    BY <1>0, <1>5 DEF QueueForProbe, LockInv
  <2>4. HalfOpenIsBeingResolved'
    BY <2>3 DEF HalfOpenIsBeingResolved
  <2>. QED  BY <2>1, <2>2, <2>4, IInvParts, PTL
<1>. QED  BY <1>1, <1>2, <1>4, <1>5 DEF Enter

(* Being resumed from the lock's queue.                                    *)
LEMMA ResumeStep ==
  ASSUME IInv, NEW c \in Callers, Resume(c)
  PROVE  IInv'
<1>0. RecordInv /\ LockInv /\ HalfOpenIsBeingResolved
  BY IInvParts
<1>1. RecordInv'
  BY <1>0 DEF Resume, WakeToProbe, WakeToExecute, WakeToReject, AcquireAs,
     RecordInv, ClosedBelowThreshold, OpenedIsStamped
<1>2. CASE WakeToProbe(c)
  <2>1. Woken(c) /\ AcquireAs(c, "probing")
    BY <1>2 DEF WakeToProbe
  <2>2. LockInv'
    BY <2>1, <1>0, DequeueKeepsLockInv DEF AcquireAs, PCs, InFlightPCs, HoldingPCs
  <2>3. HalfOpenIsBeingResolved'
    BY <2>1 DEF AcquireAs, HalfOpenIsBeingResolved
  <2>. QED  BY <1>1, <2>2, <2>3, IInvParts, PTL
<1>3. CASE WakeToExecute(c)
  <2>1. Woken(c) /\ AcquireAs(c, "relayed")
    BY <1>3 DEF WakeToExecute
  <2>2. LockInv'
    BY <2>1, <1>0, DequeueKeepsLockInv DEF AcquireAs, PCs, InFlightPCs, HoldingPCs
  <2>3. HalfOpenIsBeingResolved'
    BY <2>1 DEF AcquireAs, HalfOpenIsBeingResolved
  <2>. QED  BY <1>1, <2>2, <2>3, IInvParts, PTL
<1>4. CASE WakeToReject(c)
  <2>1. locked' = ("idle" \in HoldingPCs) /\ "idle" \in PCs \ {"waiting"}
    <3>1. locked = FALSE /\ locked' = locked
      BY <1>0, <1>4 DEF WakeToReject, Woken, LockInv
    <3>2. ("idle" \in HoldingPCs) = FALSE /\ "idle" \in PCs \ {"waiting"}
      BY DEF HoldingPCs, PCs
    <3>. QED  BY <3>1, <3>2
  <2>2. LockInv'
    BY <2>1, <1>0, <1>4, DequeueKeepsLockInv DEF WakeToReject
  <2>3. HalfOpenIsBeingResolved'
    BY <1>4 DEF WakeToReject, HalfOpenIsBeingResolved
  <2>. QED  BY <1>1, <2>2, <2>3, IInvParts, PTL
<1>. QED  BY <1>2, <1>3, <1>4 DEF Resume

(* The API call returning or raising, with its outcome recorded once or,   *)
(* for a probe, twice.                                                     *)
LEMMA ReturnStep ==
  ASSUME IInv, NEW c \in Callers, Return(c)
  PROVE  IInv'
<1>0. RecordInv /\ LockInv
  BY IInvParts
<1> DEFINE Fine(b) == /\ b \in CBRecord
                      /\ b.state = "CLOSED" <=> b.openFor = NotOpened
                      /\ b.state = "CLOSED" => Len(b.failures) < FailureThreshold
           Decided(b) == Fine(b) /\ b.state # "HALF_OPEN"
<1>1. Fine(cb)
  BY <1>0 DEF RecordInv, ClosedBelowThreshold, OpenedIsStamped
<1>2. ASSUME NEW b, Fine(b)
      PROVE  Decided(OnSuccess(b)) /\ Decided(OnFailure(b))
  <2>1. Decided(OnSuccess(b))
    BY <1>2, OnSuccessFacts, Zenon
  <2>2. Decided(OnFailure(b))
    BY <1>2, OnFailureFacts, Zenon
  <2>. QED  BY <2>1, <2>2
<1>3. Decided(cb')
  <2>1. Decided(OnSuccess(cb)) /\ Decided(OnFailure(cb))
    BY <1>1, <1>2, Zenon
  <2>2. Fine(OnSuccess(cb)) /\ Fine(OnFailure(cb))
    BY <2>1
  <2>3. Decided(OnSuccess(OnSuccess(cb))) /\ Decided(OnFailure(OnFailure(cb)))
    BY <2>2, <1>2, Zenon
  <2>4. \/ cb' = OnSuccess(cb) \/ cb' = OnSuccess(OnSuccess(cb))
        \/ cb' = OnFailure(cb) \/ cb' = OnFailure(OnFailure(cb))
    BY DEF Return, Succeed, Fail
  <2> HIDE DEF Decided, Fine
  <2>. QED  BY <2>1, <2>3, <2>4
<1>4. RecordInv' /\ HalfOpenIsBeingResolved'
  BY <1>3 DEF RecordInv, ClosedBelowThreshold, OpenedIsStamped, HalfOpenIsBeingResolved
<1>5. LockInv'
  <2>1. Leave(c) /\ pc[c] \in InFlightPCs
    BY DEF Return, Succeed, Fail
  <2>2. /\ pc' = [pc EXCEPT ![c] = "idle"]
        /\ locked' = (locked /\ pc[c] \notin HoldingPCs)
        /\ waiters' = waiters
    BY <2>1 DEF Leave
  <2>3. /\ pc' \in [Callers -> PCs]
        /\ pc'[c] = "idle" /\ \A d \in Callers \ {c} : pc'[d] = pc[d]
    BY <2>2, <1>0 DEF LockInv, PCs
  <2>4. waiters' \in Seq(Callers) /\ locked' \in BOOLEAN
    BY <2>2, <1>0 DEF LockInv
  <2>5. ProbeExclusive'
    <3>1. ProbeExclusive
      BY <1>0 DEF LockInv
    <3>2. "idle" \notin HoldingPCs
      BY DEF HoldingPCs
    <3>3. \A a, d \in Callers :
            pc'[a] \in HoldingPCs /\ pc'[d] \in HoldingPCs => a = d
      BY <2>3, <3>1, <3>2 DEF ProbeExclusive
    <3>4. locked' <=> \E d \in Callers : pc'[d] \in HoldingPCs
      BY <2>2, <2>3, <3>1, <3>2 DEF ProbeExclusive
    <3>. QED  BY <3>3, <3>4 DEF ProbeExclusive
  <2>6. QueueConsistent'
    <3>1. pc[c] # "waiting"
      BY <2>1 DEF InFlightPCs, HoldingPCs
    <3>. QED  BY <1>0, <2>2, <2>3, <3>1 DEF LockInv, QueueConsistent
  <2>. QED  BY <2>3, <2>4, <2>5, <2>6 DEF LockInv
<1>. QED  BY <1>4, <1>5, IInvParts, PTL

(* Reading failure_count, and the passing of a second.                     *)
LEMMA ClockStep ==
  ASSUME IInv, FailureCount \/ Tick
  PROVE  IInv'
<1>0. RecordInv /\ LockInv /\ HalfOpenIsBeingResolved
  BY IInvParts
<1>1. LockInv'
  BY <1>0 DEF FailureCount, Tick, LockInv, ProbeExclusive, QueueConsistent
<1>2. cb.failures \in Seq(Ages) /\ Len(cb.failures) \in Nat
  BY <1>0 DEF RecordInv, CBRecord
<1>3. CASE FailureCount
  <2> DEFINE f == EvictOldFailures(cb.failures)
  <2>1. f \in Seq(Ages) /\ Len(f) <= Len(cb.failures)
    BY <1>2, EvictType, Zenon
  <2>2. cb' = [cb EXCEPT !.failures = f]
    BY <1>3 DEF FailureCount
  <2> HIDE DEF f
  <2>3. Len(f) \in Nat
    BY <2>1
  <2>4. RecordInv'
    BY <2>1, <2>2, <2>3, <1>0, <1>2, BreakerAssumption
    DEF RecordInv, CBRecord, ClosedBelowThreshold, OpenedIsStamped
  <2>5. HalfOpenIsBeingResolved'
    BY <2>2, <1>0, <1>3 DEF FailureCount, RecordInv, CBRecord, HalfOpenIsBeingResolved
  <2>. QED  BY <2>4, <2>5, <1>1, IInvParts, PTL
<1>4. CASE Tick
  <2> DEFINE f == [i \in DOMAIN cb.failures |-> Older(cb.failures[i], WindowSeconds + 1)]
             o == IF cb.openFor = NotOpened THEN cb.openFor ELSE Older(cb.openFor, RecoveryTimeout)
  <2>1. f \in Seq(Ages) /\ Len(f) = Len(cb.failures)
    <3>1. DOMAIN cb.failures = 1 .. Len(cb.failures)
      BY <1>2
    <3>2. \A i \in 1 .. Len(cb.failures) : Older(cb.failures[i], WindowSeconds + 1) \in Ages
      BY <1>2, BreakerAssumption DEF Older, Ages
    <3>. QED  BY <3>1, <3>2, <1>2
  <2>2. /\ o \in {NotOpened} \cup 0 .. RecoveryTimeout
        /\ o = NotOpened <=> cb.openFor = NotOpened
    BY <1>0, BreakerAssumption DEF RecordInv, CBRecord, Older, NotOpened
  <2>3. cb' = [cb EXCEPT !.failures = f, !.openFor = o]
    BY <1>4 DEF Tick
  <2> HIDE DEF f, o
  <2>4. cb' = [state |-> cb.state, failures |-> f, openFor |-> o]
    BY <2>3, <1>0 DEF RecordInv, CBRecord
  <2>5. RecordInv'
    BY <2>1, <2>2, <2>4, <1>0 DEF RecordInv, CBRecord, ClosedBelowThreshold, OpenedIsStamped
  <2>6. HalfOpenIsBeingResolved'
    BY <2>4, <1>0, <1>4 DEF Tick, HalfOpenIsBeingResolved
  <2>. QED  BY <2>5, <2>6, <1>1, IInvParts, PTL
<1>. QED  BY <1>3, <1>4

(* The invariant is inductive.                                             *)
LEMMA NextInvariant == IInv /\ [Next]_vars => IInv'
<1> SUFFICES ASSUME IInv, [Next]_vars PROVE IInv'
  OBVIOUS
<1>1. CASE UNCHANGED vars
  BY <1>1 DEF vars, IInv, TypeOK, ProbeExclusive, QueueConsistent,
     ClosedBelowThreshold, OpenedIsStamped, HalfOpenIsBeingResolved
<1>2. ASSUME NEW c \in Callers, Enter(c) \/ Resume(c) \/ Return(c)
      PROVE  IInv'
  BY <1>2, EnterStep, ResumeStep, ReturnStep, Zenon
<1>3. CASE FailureCount \/ Tick
  BY <1>3, ClockStep
<1>. QED  BY <1>1, <1>2, <1>3 DEF Next

-----------------------------------------------------------------------------
(* The invariant holds in every reachable state of the breaker.            *)
THEOREM Invariant == Spec => []IInv
BY InitInvariant, NextInvariant, PTL DEF Spec

(* The breaker's state always has its type.                                *)
THEOREM TypeCorrect == Spec => []TypeOK
<1>1. IInv => TypeOK
  BY DEF IInv
<1>. QED  BY <1>1, Invariant, PTL

(* At most one caller is ever inside the probe lock, and the lock is taken *)
(* exactly while there is one (_half_open_probe).                          *)
THEOREM ProbesAreExclusive == Spec => []ProbeExclusive
<1>1. IInv => ProbeExclusive
  BY DEF IInv
<1>. QED  BY <1>1, Invariant, PTL

(* A CLOSED circuit never sits on a full failure window, in whatever order *)
(* outcomes arrive (_on_failure, _on_success).                             *)
THEOREM ClosedIsBelowThreshold == Spec => []ClosedBelowThreshold
<1>1. IInv => ClosedBelowThreshold
  BY DEF IInv
<1>. QED  BY <1>1, Invariant, PTL

(* A HALF_OPEN circuit always has somebody who will decide it              *)
(* (_maybe_transition and _half_open_probe).                               *)
THEOREM HalfOpenResolved == Spec => []HalfOpenIsBeingResolved
<1>1. IInv => HalfOpenIsBeingResolved
  BY DEF IInv
<1>. QED  BY <1>1, Invariant, PTL

(* No path of call() starts an API request while the circuit is OPEN, the  *)
(* path resumed from the lock's queue included.                            *)
THEOREM OpenAdmitsNobody == Spec => NoAdmissionWhileOpen
<1> DEFINE A == \A c \in Callers : Starts(c) => cb'.state # "OPEN"
<1>1. IInv /\ [Next]_vars => [A]_vars
  <2> SUFFICES ASSUME IInv, Next, NEW c \in Callers, Starts(c)
               PROVE  cb'.state # "OPEN"
    BY DEF Starts, vars
  <2>0. pc \in [Callers -> PCs]
    BY DEF IInv, TypeOK
  <2> USE DEF Starts, InFlightPCs, HoldingPCs
  <2>1. ASSUME NEW d \in Callers, Enter(d) \/ Resume(d) \/ Return(d)
        PROVE  cb'.state # "OPEN"
    <3>1. CASE Admit(d)
      <4>1. MaybeTransition(cb).state = "CLOSED" /\ cb' = cb
        BY <3>1 DEF Admit, Seen
      <4>2. TypeOK
        BY DEF IInv
      <4>3. cb.state = "CLOSED"
        BY <4>1, <4>2, MaybeTransitionFacts, Zenon
      <4>. QED  BY <4>1, <4>3
    <3>2. CASE Probe(d)
      BY <3>2 DEF Probe, Seen
    <3>3. CASE WakeToProbe(d) \/ WakeToExecute(d)
      BY <3>3 DEF WakeToProbe, WakeToExecute, AcquireAs
    <3>4. CASE Reject(d) \/ QueueForProbe(d) \/ WakeToReject(d) \/ Return(d)
      BY <3>4, <2>0 DEF Reject, vars, QueueForProbe, WakeToReject, Return, Succeed, Fail, Leave
    <3>. QED  BY <2>1, <3>1, <3>2, <3>3, <3>4 DEF Enter, Resume
  <2>2. CASE FailureCount \/ Tick
    BY <2>2 DEF FailureCount, Tick
  <2>. QED  BY <2>1, <2>2 DEF Next
<1>. QED  BY <1>1, Invariant, PTL DEF Spec, NoAdmissionWhileOpen
=============================================================================
