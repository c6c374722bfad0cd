------------------------- MODULE TicketCallerProofs -------------------------
(***************************************************************************)
(* Proofs about TicketCaller for every finite set of tickets, any keys and *)
(* every setting of the semaphore, the retries, the throttle and the       *)
(* breaker, with the breaker or without.                                   *)
(***************************************************************************)
EXTENDS TicketCaller, FiniteSetTheorems, WellFoundedInduction, TLAPS

-----------------------------------------------------------------------------
(* The breaker inside the caller is the breaker CircuitBreakerProofs is    *)
(* about: BP's definitions are those of CB, and its theorems hold of them. *)

BP == INSTANCE CircuitBreakerProofs WITH Callers <- Tasks

LEMMA SamePureParts ==
  /\ \A b : CB!MaybeTransition(b) = BP!MaybeTransition(b)
  /\ \A b : CB!OnSuccess(b) = BP!OnSuccess(b)
  /\ \A f : CB!EvictOldFailures(f) = BP!EvictOldFailures(f)
  /\ \A b : CB!OnFailure(b) = BP!OnFailure(b)
<1>1. \A b : CB!MaybeTransition(b) = BP!MaybeTransition(b)
  BY DEF CB!MaybeTransition, BP!MaybeTransition
<1>2. \A b : CB!OnSuccess(b) = BP!OnSuccess(b)
  BY DEF CB!OnSuccess, BP!OnSuccess, CB!NotOpened, BP!NotOpened
<1>3. ASSUME NEW f PROVE CB!EvictOldFailures(f) = BP!EvictOldFailures(f)
  <2>1. CB!Stale(f) = BP!Stale(f)
    BY DEF CB!Stale, BP!Stale
  <2>2. CB!Cardinality(CB!Stale(f)) = BP!Cardinality(CB!Stale(f))
    BY DEF CB!Cardinality, BP!Cardinality
  <2>. QED  BY <2>1, <2>2 DEF CB!EvictOldFailures, BP!EvictOldFailures
<1>4. ASSUME NEW b PROVE CB!OnFailure(b) = BP!OnFailure(b)
  BY <1>3 DEF CB!OnFailure, BP!OnFailure, CB!Opened, BP!Opened
<1>. QED  BY <1>1, <1>2, <1>3, <1>4

LEMMA SameSteps == [CB!Next]_(CB!vars) => [BP!Next]_(BP!vars)
<1> USE DEF CB!InFlightPCs, BP!InFlightPCs, CB!HoldingPCs, BP!HoldingPCs
<1>1. ASSUME NEW t \in Tasks, CB!Enter(t) PROVE BP!Enter(t)
  BY <1>1, SamePureParts
  DEF CB!Enter, BP!Enter, CB!Admit, BP!Admit, CB!Reject, BP!Reject,
      CB!Probe, BP!Probe, CB!QueueForProbe, BP!QueueForProbe,
      CB!Seen, BP!Seen, CB!LockFree, BP!LockFree, CB!vars, BP!vars
<1>2. ASSUME NEW t \in Tasks, CB!Resume(t) PROVE BP!Resume(t)
  BY <1>2
  DEF CB!Resume, BP!Resume, CB!WakeToProbe, BP!WakeToProbe,
      CB!WakeToExecute, BP!WakeToExecute, CB!WakeToReject, BP!WakeToReject,
      CB!Woken, BP!Woken, CB!AcquireAs, BP!AcquireAs
<1>3. ASSUME NEW t \in Tasks, CB!Return(t) PROVE BP!Return(t)
  BY <1>3, SamePureParts
  DEF CB!Return, BP!Return, CB!Succeed, BP!Succeed, CB!Fail, BP!Fail,
      CB!Leave, BP!Leave
<1>4. CB!FailureCount => BP!FailureCount
  BY SamePureParts DEF CB!FailureCount, BP!FailureCount
<1>5. CB!Tick => BP!Tick
  BY DEF CB!Tick, BP!Tick, CB!Older, BP!Older, CB!NotOpened, BP!NotOpened
<1>6. UNCHANGED CB!vars => UNCHANGED BP!vars
  BY DEF CB!vars, BP!vars
<1>. QED  BY <1>1, <1>2, <1>3, <1>4, <1>5, <1>6 DEF CB!Next, BP!Next

LEMMA SameInit == CB!Init => BP!Init
BY DEF CB!Init, BP!Init, CB!NotOpened, BP!NotOpened

LEMMA SameInvariant == BP!IInv <=> CB!IInv
BY DEF CB!IInv, BP!IInv, CB!TypeOK, BP!TypeOK, CB!ProbeExclusive, BP!ProbeExclusive,
   CB!QueueConsistent, BP!QueueConsistent, CB!ClosedBelowThreshold, BP!ClosedBelowThreshold,
   CB!OpenedIsStamped, BP!OpenedIsStamped, CB!HalfOpenIsBeingResolved,
   BP!HalfOpenIsBeingResolved, CB!NotOpened, BP!NotOpened, CB!PCs, BP!PCs,
   CB!InFlightPCs, BP!InFlightPCs, CB!HoldingPCs, BP!HoldingPCs

(* The breaker's invariant survives the breaker's steps inside the caller. *)
LEMMA BreakerInvariant ==
  /\ CB!Init => CB!IInv
  /\ CB!IInv /\ [CB!Next]_(CB!vars) => CB!IInv'
<1>1. /\ FailureThreshold \in Nat \ {0}
      /\ WindowSeconds \in Nat \ {0}
      /\ RecoveryTimeout \in Nat \ {0}
  BY CallerAssumption
<1>2. BP!Init => BP!IInv
  BY <1>1, BP!InitInvariant
<1>3. BP!IInv /\ [BP!Next]_(BP!vars) => BP!IInv'
  BY <1>1, BP!NextInvariant
<1>4. BP!IInv' <=> CB!IInv'
  BY SameInvariant, PTL
<1>. QED  BY <1>2, <1>3, <1>4, SameInit, SameSteps, SameInvariant

-----------------------------------------------------------------------------
(* Every step of the caller is, for the breaker, a step of its own or none. *)
LEMMA StepsOfBreaker == Next => [CB!Next]_(CB!vars)
<1> USE DEF breakerVars, CB!vars
<1>1. ASSUME NEW t \in Tasks, TaskStep(t) PROVE [CB!Next]_(CB!vars)
  <2>1. CASE Lookup(t) \/ Acquire(t) \/ EndBackoff(t) \/ Finish(t)
    BY <2>1 DEF Lookup, ReadHit, ReadMiss, ReadError, Acquire, TakeSlot, WaitForSlot,
       EnterWithGrant, EndBackoff, Finish, Store, StoreError
  <2>2. CASE Attempt(t)
    BY <2>2 DEF Attempt, StartCall, StartRejected, WaitBehindProbe, StartLate, RejectedLate,
       ObtainThrottle, EndSleep, CB!Next, CB!Enter, CB!Resume
  <2>3. CASE Respond(t)
    BY <2>3 DEF Respond, Answered, AnsweredWithError, NotAnObject, Retryable, RetryAfterDate,
       Fatal, OtherStatus, CallSucceeds, CallFails, CB!Next, CB!Return
  <2>. QED  BY <1>1, <2>1, <2>2, <2>3 DEF TaskStep
<1>2. ASSUME NEW k \in Keys, Expire(k) PROVE [CB!Next]_(CB!vars)
  BY <1>2 DEF Expire
<1>3. Tick => [CB!Next]_(CB!vars)
  BY DEF Tick, CB!Next
<1>. QED  BY <1>1, <1>2, <1>3 DEF Next
-----------------------------------------------------------------------------
(* The semaphore.                                                          *)

Holding == {"granted", "attempt", "behind_probe", "backoff"} \cup InCall
InQueue == {"queued", "granted"}

(* A queue stays one when a task joins it or its head leaves it.           *)
LEMMA QueueAppend ==
  ASSUME NEW q \in Seq(Tasks), NEW S, IsQueueOf(q, S), NEW t \in Tasks, t \notin S
  PROVE  Append(q, t) \in Seq(Tasks) /\ IsQueueOf(Append(q, t), S \cup {t})
<1> DEFINE r == Append(q, t)
<1>1. /\ Len(q) \in Nat /\ DOMAIN q = 1 .. Len(q)
      /\ DOMAIN r = 1 .. Len(q) + 1 /\ r[Len(q) + 1] = t
      /\ \A i \in 1 .. Len(q) : r[i] = q[i]
      /\ r \in Seq(Tasks)
  OBVIOUS
<1> HIDE DEF r
<1>2. \A i \in 1 .. Len(q) : q[i] \in S
  BY <1>1 DEF IsQueueOf
<1>3. {r[i] : i \in DOMAIN r} = S \cup {t}
  <2>1. {r[i] : i \in DOMAIN r} \subseteq S \cup {t}
    BY <1>1, <1>2
  <2>2. ASSUME NEW u \in S PROVE u \in {r[i] : i \in DOMAIN r}
    <3>1. PICK i \in DOMAIN q : q[i] = u
      BY <2>2 DEF IsQueueOf
    <3>. QED  BY <3>1, <1>1
  <2>3. t \in {r[i] : i \in DOMAIN r}
    BY <1>1
  <2>. QED  BY <2>1, <2>2, <2>3
<1>4. ASSUME NEW i \in DOMAIN r, NEW j \in DOMAIN r, r[i] = r[j] PROVE i = j
  BY <1>1, <1>2, <1>4 DEF IsQueueOf
<1>5. IsQueueOf(r, S \cup {t})
  BY <1>3, <1>4 DEF IsQueueOf
<1>. QED  BY <1>1, <1>5 DEF r

LEMMA QueueTail ==
  ASSUME NEW q \in Seq(Tasks), NEW S, IsQueueOf(q, S), NEW t \in S, t = Head(q)
  PROVE  /\ q # << >> /\ Tail(q) \in Seq(Tasks)
         /\ IsQueueOf(Tail(q), S \ {t})
         /\ \A i \in DOMAIN Tail(q) : i + 1 \in DOMAIN q /\ Tail(q)[i] = q[i + 1]
<1> DEFINE r == Tail(q)
<1>1. \E i \in DOMAIN q : q[i] = t
  BY DEF IsQueueOf
<1>2. /\ Len(q) \in Nat \ {0} /\ DOMAIN q = 1 .. Len(q)
      /\ DOMAIN r = 1 .. Len(q) - 1 /\ q[1] = t
      /\ \A i \in 1 .. Len(q) - 1 : r[i] = q[i + 1]
      /\ r \in Seq(Tasks) /\ q # << >>
  BY <1>1
<1> HIDE DEF r
<1>3. \A i \in 1 .. Len(q) - 1 : r[i] # t
  BY <1>2 DEF IsQueueOf
<1>4. {r[i] : i \in DOMAIN r} = S \ {t}
  <2>1. ASSUME NEW i \in DOMAIN r PROVE r[i] \in S \ {t}
    BY <1>2, <1>3 DEF IsQueueOf
  <2>2. ASSUME NEW u \in S \ {t} PROVE u \in {r[i] : i \in DOMAIN r}
    <3>1. PICK i \in DOMAIN q : q[i] = u
      BY <2>2 DEF IsQueueOf
    <3>2. i - 1 \in 1 .. Len(q) - 1
      BY <3>1, <2>2, <1>2
    <3>3. r[i - 1] = u
      BY <3>1, <3>2, <1>2
    <3>. QED  BY <3>2, <3>3, <1>2
  <2>. QED  BY <2>1, <2>2
<1>5. ASSUME NEW i \in DOMAIN r, NEW j \in DOMAIN r, r[i] = r[j] PROVE i = j
  <2>1. i + 1 \in DOMAIN q /\ j + 1 \in DOMAIN q /\ q[i + 1] = q[j + 1]
    BY <1>2, <1>5
  <2>2. i + 1 = j + 1
    BY <2>1 DEF IsQueueOf
  <2>. QED  BY <2>2, <1>2
<1>6. IsQueueOf(r, S \ {t})
  BY <1>4, <1>5 DEF IsQueueOf
<1>. QED  BY <1>2, <1>6 DEF r

(* What the lemmas about a step assume of the variables' types.            *)
OwnTypes ==
  /\ at \in [Tasks -> Places]
  /\ attempt \in [Tasks -> 0 .. MaxRetries]
  /\ answer \in [Tasks -> Tasks \cup {NoAnswer}]
  /\ error \in [Tasks -> Errors]
  /\ cache \in [Keys -> Tasks \cup {NoAnswer}]
  /\ permits \in Nat
  /\ semQueue \in Seq(Tasks)
  /\ throttle \in [locked : BOOLEAN, queue : Seq(Tasks), wait : 0 .. MinInterval,
                   age : 0 .. MinInterval]

(* The choice in NextInLine is of a task that waits for a permit.          *)
LEMMA NextInLineWaits ==
  ASSUME OwnTypes, Ungranted # {}
  PROVE  NextInLine \in Tasks /\ at[NextInLine] = "queued"
<1>1. Ungranted \in SUBSET (DOMAIN semQueue) /\ Ungranted \in SUBSET Nat
  BY DEF Ungranted, OwnTypes
<1>2. \E i \in Ungranted : \A j \in Ungranted : i <= j
  <2>1. PICK i \in Ungranted : \A j \in Ungranted : ~ (<<j, i>> \in OpToRel(<, Nat))
    BY <1>1, NatLessThanWellFounded, WFMin, Zenon
  <2>2. \A j \in Ungranted : ~ (j < i)
    BY <2>1, <1>1 DEF OpToRel
  <2>. QED  BY <2>2, <1>1
<1> DEFINE i == CHOOSE i \in Ungranted : \A j \in Ungranted : i <= j
<1>3. i \in Ungranted
  BY <1>2, Zenon
<1>4. NextInLine = semQueue[i]
  BY Zenon DEF NextInLine
<1> HIDE DEF i
<1>. QED  BY <1>1, <1>3, <1>4 DEF Ungranted, OwnTypes

(* A task that wakes the next waiter moves on itself and, if a permit and  *)
(* a waiter without one are there, takes that waiter from "queued" to      *)
(* "granted".                                                              *)
LEMMA WakeUpNextEffect ==
  ASSUME OwnTypes, NEW t \in Tasks, at[t] # "queued",
         NEW where \in Places, NEW available \in Nat,
         WakeUpNext(t, where, available)
  PROVE  \/ /\ available = 0 \/ Ungranted = {}
            /\ permits' = available
            /\ at' = [at EXCEPT ![t] = where]
         \/ \E u \in Tasks \ {t} :
              /\ available > 0
              /\ at[u] = "queued"
              /\ permits' = available - 1
              /\ at' = [at EXCEPT ![t] = where, ![u] = "granted"]
<1>1. CASE available > 0 /\ Ungranted # {}
  <2>1. NextInLine \in Tasks \ {t} /\ at[NextInLine] = "queued"
    BY <1>1, NextInLineWaits
  <2>. QED  BY <1>1, <2>1 DEF WakeUpNext
<1>2. CASE ~(available > 0 /\ Ungranted # {})
  BY <1>2 DEF WakeUpNext
<1>. QED  BY <1>1, <1>2

(* Permits are conserved: nobody takes or returns one, ...                 *)
LEMMA SameHolders ==
  ASSUME PermitsConserved, permits' = permits,
         \A u \in Tasks : at'[u] \in Holding <=> at[u] \in Holding
  PROVE  PermitsConserved'
<1>1. Holders' = Holders
  BY DEF Holders, Holding, InCall
<1>. QED  BY <1>1 DEF PermitsConserved

LEMMA HoldersFinite == IsFiniteSet(Holders) /\ Cardinality(Holders) \in Nat
<1>1. Holders \in SUBSET Tasks
  BY DEF Holders
<1>2. IsFiniteSet(Holders)
  BY <1>1, CallerAssumption, FS_Subset
<1>. QED  BY <1>2, FS_CardinalityType

(* ... one task takes one, ...                                             *)
LEMMA OneMoreHolder ==
  ASSUME PermitsConserved, permits \in Nat, permits' = permits - 1,
         NEW u \in Tasks, at[u] \notin Holding, at'[u] \in Holding,
         \A v \in Tasks \ {u} : at'[v] \in Holding <=> at[v] \in Holding
  PROVE  PermitsConserved'
<1>1. Holders' = Holders \cup {u} /\ u \notin Holders
  BY DEF Holders, Holding, InCall
<1>2. Cardinality(Holders') = Cardinality(Holders) + 1
  BY <1>1, HoldersFinite, FS_AddElement
<1>. QED  BY <1>2, HoldersFinite DEF PermitsConserved

(* ... one returns one, ...                                                *)
LEMMA OneHolderLess ==
  ASSUME PermitsConserved, permits \in Nat, permits' = permits + 1,
         NEW t \in Tasks, at[t] \in Holding, at'[t] \notin Holding,
         \A v \in Tasks \ {t} : at'[v] \in Holding <=> at[v] \in Holding
  PROVE  PermitsConserved'
<1>1. Holders' = Holders \ {t} /\ t \in Holders
  BY DEF Holders, Holding, InCall
<1>2. Cardinality(Holders') = Cardinality(Holders) - 1
  BY <1>1, HoldersFinite, FS_RemoveElement
<1>. QED  BY <1>2, HoldersFinite DEF PermitsConserved

(* ... or one passes its own on to another.                                *)
LEMMA HolderReplaced ==
  ASSUME PermitsConserved, permits \in Nat, permits' = permits,
         NEW t \in Tasks, at[t] \in Holding, at'[t] \notin Holding,
         NEW u \in Tasks \ {t}, at[u] \notin Holding, at'[u] \in Holding,
         \A v \in Tasks \ {t, u} : at'[v] \in Holding <=> at[v] \in Holding
  PROVE  PermitsConserved'
<1> DEFINE Rest == Holders \ {t}
<1>1. Holders' = Rest \cup {u} /\ u \notin Rest /\ t \in Holders
  BY DEF Holders, Holding, InCall
<1>2. IsFiniteSet(Rest) /\ Cardinality(Rest) = Cardinality(Holders) - 1
  BY <1>1, HoldersFinite, FS_RemoveElement
<1> HIDE DEF Rest
<1>3. Cardinality(Holders') = Cardinality(Rest) + 1
  BY <1>1, <1>2, FS_AddElement
<1>. QED  BY <1>2, <1>3, HoldersFinite DEF PermitsConserved

(* The three facts about the semaphore are inductive together.  A task's   *)
(* step leaves them alone, takes the first permit or joins the queue ...   *)
SemInv == SemQueueAgrees /\ PermitsConserved /\ NoWaiterForgotten

LEMMA SameQueue ==
  ASSUME SemQueueAgrees, semQueue' = semQueue,
         \A u \in Tasks : at'[u] \in InQueue <=> at[u] \in InQueue
  PROVE  SemQueueAgrees'
<1>1. {u \in Tasks : at'[u] \in InQueue} = {u \in Tasks : at[u] \in InQueue}
  OBVIOUS
<1>. QED  BY <1>1 DEF SemQueueAgrees, InQueue, IsQueueOf

LEMMA StayKeepsSemaphore ==
  ASSUME OwnTypes, SemInv, UNCHANGED semVars,
         NEW t \in Tasks, NEW where \in Places \ InQueue, at[t] \notin InQueue,
         at[t] \in Holding <=> where \in Holding,
         at' = [at EXCEPT ![t] = where]
  PROVE  SemInv'
<1>1. at'[t] = where /\ \A u \in Tasks \ {t} : at'[u] = at[u]
  BY DEF OwnTypes
<1>2. PermitsConserved'
  BY <1>1, SameHolders DEF SemInv, semVars
<1>3. \A u \in Tasks : at'[u] \in InQueue <=> at[u] \in InQueue
  BY <1>1
<1>4. SemQueueAgrees'
  BY <1>3, SameQueue DEF SemInv, semVars
<1>5. NoWaiterForgotten'
  <2>1. \A i \in DOMAIN semQueue : semQueue[i] \in Tasks
    BY DEF OwnTypes
  <2>2. Ungranted' = Ungranted
    BY <1>1, <2>1 DEF Ungranted, semVars, InQueue
  <2>. QED  BY <1>1, <2>2 DEF SemInv, NoWaiterForgotten, semVars, InQueue
<1>. QED  BY <1>2, <1>4, <1>5 DEF SemInv

LEMMA TakeSlotKeepsSemaphore ==
  ASSUME OwnTypes, SemInv, NEW t \in Tasks, TakeSlot(t)
  PROVE  SemInv'
<1>1. at'[t] = "attempt" /\ \A u \in Tasks \ {t} : at'[u] = at[u]
  BY DEF TakeSlot, OwnTypes
<1>2. PermitsConserved'
  BY <1>1, OneMoreHolder DEF TakeSlot, OwnTypes, SemInv, Holding, InCall
<1>3. SemQueueAgrees'
  BY <1>1, SameQueue DEF TakeSlot, SemInv, InQueue
<1>4. NoWaiterForgotten'
  BY DEF TakeSlot, NoWaiterForgotten, Ungranted
<1>. QED  BY <1>2, <1>3, <1>4 DEF SemInv

LEMMA WaitForSlotKeepsSemaphore ==
  ASSUME OwnTypes, SemInv, NEW t \in Tasks, WaitForSlot(t)
  PROVE  SemInv'
<1>1. at'[t] = "queued" /\ \A u \in Tasks \ {t} : at'[u] = at[u]
  BY DEF WaitForSlot, OwnTypes
<1>2. /\ at[t] = "missed" /\ permits' = permits
      /\ ~(permits > 0 /\ semQueue = << >>)
      /\ semQueue' = Append(semQueue, t)
  BY DEF WaitForSlot
<1>3. PermitsConserved'
  BY <1>1, <1>2, SameHolders DEF SemInv, Holding, InCall
<1>4. /\ Len(semQueue) \in Nat /\ DOMAIN semQueue = 1 .. Len(semQueue)
      /\ DOMAIN semQueue' = 1 .. Len(semQueue) + 1
      /\ semQueue'[Len(semQueue) + 1] = t
      /\ \A i \in 1 .. Len(semQueue) : semQueue'[i] = semQueue[i]
      /\ \A i \in 1 .. Len(semQueue) : semQueue[i] \in Tasks
  BY <1>2 DEF OwnTypes
<1>5. \A i \in 1 .. Len(semQueue) : at[semQueue[i]] \in InQueue
  BY <1>4 DEF SemInv, SemQueueAgrees, IsQueueOf, InQueue
<1>6. SemQueueAgrees'
  <2> DEFINE S == {u \in Tasks : at[u] \in InQueue}
  <2>1. IsQueueOf(semQueue, S) /\ t \notin S
    BY <1>2 DEF SemInv, SemQueueAgrees, InQueue
  <2>2. {u \in Tasks : at'[u] \in InQueue} = S \cup {t}
    BY <1>1 DEF InQueue
  <2> HIDE DEF S
  <2>3. IsQueueOf(semQueue', S \cup {t})
    BY <2>1, <1>2, QueueAppend DEF OwnTypes
  <2>. QED  BY <2>2, <2>3 DEF SemQueueAgrees, InQueue
<1>7. NoWaiterForgotten'
  <2> SUFFICES ASSUME permits' > 0 PROVE \E u \in Tasks : at'[u] = "granted"
    BY DEF NoWaiterForgotten
  <2>1. Len(semQueue) > 0
    BY <1>2, <1>4 DEF OwnTypes
  <2>2. \E u \in Tasks : at[u] = "granted"
    <3>1. CASE Ungranted # {}
      BY <3>1, <1>2 DEF SemInv, NoWaiterForgotten
    <3>2. CASE Ungranted = {}
      <4>1. 1 \in DOMAIN semQueue /\ 1 \notin Ungranted
        BY <3>2, <2>1, <1>4
      <4>2. at[semQueue[1]] # "queued"
        BY <4>1 DEF Ungranted
      <4>. QED  BY <4>1, <4>2, <1>4, <1>5 DEF InQueue
    <3>. QED  BY <3>1, <3>2
  <2>. QED  BY <2>2, <1>1, <1>2
<1>. QED  BY <1>3, <1>6, <1>7 DEF SemInv

(* ... passes on a free permit when it takes its own ...                   *)
LEMMA EnterWithGrantKeepsSemaphore ==
  ASSUME OwnTypes, SemInv, NEW t \in Tasks, EnterWithGrant(t)
  PROVE  SemInv'
<1>1. /\ at[t] = "granted" /\ t = Head(semQueue) /\ semQueue' = Tail(semQueue)
      /\ WakeUpNext(t, "attempt", permits)
  BY DEF EnterWithGrant
<1>2. permits \in Nat /\ "attempt" \in Places
  BY DEF OwnTypes, Places
<1>3. \/ /\ permits = 0 \/ Ungranted = {}
         /\ permits' = permits
         /\ at' = [at EXCEPT ![t] = "attempt"]
      \/ \E u \in Tasks \ {t} :
           /\ permits > 0 /\ at[u] = "queued"
           /\ permits' = permits - 1
           /\ at' = [at EXCEPT ![t] = "attempt", ![u] = "granted"]
  BY <1>1, <1>2, WakeUpNextEffect
<1>4. /\ at'[t] = "attempt"
      /\ \A v \in Tasks \ {t} : \/ at'[v] = at[v]
                                \/ at[v] = "queued" /\ at'[v] = "granted"
  BY <1>3 DEF OwnTypes
<1> DEFINE S == {u \in Tasks : at[u] \in InQueue}
<1>5. IsQueueOf(semQueue, S) /\ t \in S
  BY <1>1 DEF SemInv, SemQueueAgrees, InQueue
<1> HIDE DEF S
<1>6. /\ IsQueueOf(semQueue', S \ {t})
      /\ \A i \in DOMAIN semQueue' :
           i + 1 \in DOMAIN semQueue /\ semQueue'[i] = semQueue[i + 1]
  BY <1>1, <1>5, QueueTail DEF OwnTypes
<1>7. \A i \in DOMAIN semQueue' : semQueue'[i] \in Tasks \ {t}
  BY <1>6 DEF IsQueueOf, S
<1>8. PermitsConserved'
  <2>1. CASE permits' = permits /\ at' = [at EXCEPT ![t] = "attempt"]
    BY <2>1, <1>1, SameHolders DEF SemInv, OwnTypes, Holding, InCall
  <2>2. ASSUME NEW u \in Tasks \ {t}, at[u] = "queued", permits' = permits - 1,
               at' = [at EXCEPT ![t] = "attempt", ![u] = "granted"]
        PROVE  PermitsConserved'
    <3>1. at'[t] = "attempt" /\ at'[u] = "granted" /\ \A v \in Tasks \ {t, u} : at'[v] = at[v]
      BY <2>2 DEF OwnTypes
    <3>2. at[u] \notin Holding /\ at'[u] \in Holding
      BY <2>2, <3>1 DEF Holding, InCall
    <3>3. \A v \in Tasks \ {u} : at'[v] \in Holding <=> at[v] \in Holding
      BY <3>1, <1>1 DEF Holding, InCall
    <3>. QED  BY <2>2, <3>2, <3>3, <1>2, OneMoreHolder DEF SemInv
  <2>. QED  BY <1>3, <2>1, <2>2
<1>9. SemQueueAgrees'
  <2>1. {u \in Tasks : at'[u] \in InQueue} = S \ {t}
    BY <1>4 DEF InQueue, S
  <2>. QED  BY <2>1, <1>6 DEF SemQueueAgrees, InQueue
<1>10. NoWaiterForgotten'
  <2>1. CASE permits = 0
    BY <2>1, <1>3 DEF NoWaiterForgotten
  <2>2. CASE Ungranted = {} /\ at' = [at EXCEPT ![t] = "attempt"]
    <3>1. ASSUME NEW i \in Ungranted' PROVE FALSE
      <4>1. i \in DOMAIN semQueue' /\ at'[semQueue'[i]] = "queued"
        BY DEF Ungranted
      <4>2. i + 1 \in DOMAIN semQueue /\ at[semQueue[i + 1]] = "queued"
        BY <4>1, <1>4, <1>6, <1>7
      <4>. QED  BY <4>2, <2>2 DEF Ungranted
    <3>. QED  BY <3>1 DEF NoWaiterForgotten
  <2>3. CASE \E u \in Tasks \ {t} : at' = [at EXCEPT ![t] = "attempt", ![u] = "granted"]
    BY <2>3 DEF NoWaiterForgotten, OwnTypes
  <2>. QED  BY <1>3, <2>1, <2>2, <2>3
<1>. QED  BY <1>8, <1>9, <1>10 DEF SemInv

(* ... or returns the permit it holds, which may go to the next waiter.    *)
LEMMA ReleaseSlotKeepsSemaphore ==
  ASSUME OwnTypes, SemInv, NEW t \in Tasks, at[t] \in Holding \ InQueue,
         NEW where \in Places \ (Holding \cup InQueue), ReleaseSlot(t, where)
  PROVE  SemInv'
<1>1. /\ WakeUpNext(t, where, permits + 1) /\ semQueue' = semQueue
      /\ permits \in Nat /\ permits + 1 \in Nat /\ at[t] # "queued"
  BY DEF ReleaseSlot, OwnTypes, InQueue
<1>2. \/ /\ permits + 1 = 0 \/ Ungranted = {}
         /\ permits' = permits + 1
         /\ at' = [at EXCEPT ![t] = where]
      \/ \E u \in Tasks \ {t} :
           /\ permits + 1 > 0 /\ at[u] = "queued"
           /\ permits' = permits + 1 - 1
           /\ at' = [at EXCEPT ![t] = where, ![u] = "granted"]
  BY <1>1, WakeUpNextEffect
<1>3. /\ at'[t] = where
      /\ \A v \in Tasks \ {t} : \/ at'[v] = at[v]
                                \/ at[v] = "queued" /\ at'[v] = "granted"
  BY <1>2 DEF OwnTypes
<1>4. \A i \in DOMAIN semQueue : semQueue[i] \in Tasks
  BY DEF OwnTypes
<1>5. PermitsConserved'
  <2>1. CASE permits' = permits + 1 /\ at' = [at EXCEPT ![t] = where]
    BY <2>1, <1>1, OneHolderLess DEF SemInv, OwnTypes
  <2>2. ASSUME NEW u \in Tasks \ {t}, at[u] = "queued", permits' = permits + 1 - 1,
               at' = [at EXCEPT ![t] = where, ![u] = "granted"]
        PROVE  PermitsConserved'
    <3>1. at'[t] = where /\ at'[u] = "granted" /\ \A v \in Tasks \ {t, u} : at'[v] = at[v]
      BY <2>2 DEF OwnTypes
    <3>2. at[u] \notin Holding /\ at'[u] \in Holding /\ permits' = permits
      BY <2>2, <3>1, <1>1 DEF Holding, InCall
    <3>. QED  BY <3>1, <3>2, <1>1, HolderReplaced DEF SemInv
  <2>. QED  BY <1>2, <2>1, <2>2
<1>6. SemQueueAgrees'
  <2>1. \A u \in Tasks : at'[u] \in InQueue <=> at[u] \in InQueue
    BY <1>3 DEF InQueue
  <2>. QED  BY <2>1, <1>1, SameQueue DEF SemInv
<1>7. NoWaiterForgotten'
  <2>1. CASE Ungranted = {} /\ at' = [at EXCEPT ![t] = where]
    <3>1. Ungranted' = {}
      BY <2>1, <1>1, <1>3, <1>4 DEF Ungranted, InQueue
    <3>. QED  BY <3>1 DEF NoWaiterForgotten
  <2>2. CASE \E u \in Tasks \ {t} : at' = [at EXCEPT ![t] = where, ![u] = "granted"]
    BY <2>2 DEF NoWaiterForgotten, OwnTypes
  <2>. QED  BY <1>1, <1>2, <2>1, <2>2
<1>. QED  BY <1>5, <1>6, <1>7 DEF SemInv

-----------------------------------------------------------------------------
(* A step of one task.                                                     *)

(* While t moves, another task can only be granted the permit it waits for. *)
OnlyMoves(t) ==
  /\ at' \in [Tasks -> Places]
  /\ \A u \in Tasks \ {t} : \/ at'[u] = at[u]
                            \/ at[u] = "queued" /\ at'[u] = "granted"

LEMMA WakeUpNextMoves ==
  ASSUME OwnTypes, NEW t \in Tasks, at[t] # "queued",
         NEW where \in Places, NEW available \in Nat,
         WakeUpNext(t, where, available)
  PROVE  OnlyMoves(t) /\ at'[t] = where /\ permits' \in Nat
<1>1. \/ /\ permits' = available
         /\ at' = [at EXCEPT ![t] = where]
      \/ \E u \in Tasks \ {t} :
           /\ available > 0
           /\ at[u] = "queued"
           /\ permits' = available - 1
           /\ at' = [at EXCEPT ![t] = where, ![u] = "granted"]
  BY WakeUpNextEffect
<1>2. CASE permits' = available /\ at' = [at EXCEPT ![t] = where]
  BY <1>2 DEF OnlyMoves, OwnTypes
<1>3. ASSUME NEW u \in Tasks \ {t}, available > 0, at[u] = "queued",
             permits' = available - 1,
             at' = [at EXCEPT ![t] = where, ![u] = "granted"]
      PROVE  OnlyMoves(t) /\ at'[t] = where /\ permits' \in Nat
  <2>1. "granted" \in Places
    BY DEF Places
  <2>2. /\ at' \in [Tasks -> Places]
        /\ at'[t] = where /\ at'[u] = "granted"
        /\ \A v \in Tasks \ {t, u} : at'[v] = at[v]
    BY <1>3, <2>1 DEF OwnTypes
  <2>3. OnlyMoves(t)
    BY <1>3, <2>2 DEF OnlyMoves
  <2>. QED  BY <1>3, <2>2, <2>3
<1>. QED  BY <1>1, <1>2, <1>3

LEMMA MoveMoves ==
  ASSUME OwnTypes, NEW t \in Tasks, NEW where \in Places,
         at' = [at EXCEPT ![t] = where]
  PROVE  OnlyMoves(t) /\ at'[t] = where
BY DEF OnlyMoves, OwnTypes

(* A task that moves correctly leaves the other tasks' facts alone.        *)
LEMMA OthersAgree ==
  ASSUME OwnTypes, TasksAgree, NEW t \in Tasks, OnlyMoves(t),
         \A u \in Tasks \ {t} : /\ attempt'[u] = attempt[u]
                                /\ answer'[u] = answer[u]
                                /\ error'[u] = error[u],
         TaskAgrees(t)'
  PROVE  TasksAgree'
<1>1. ASSUME NEW u \in Tasks \ {t} PROVE TaskAgrees(u)'
  <2>1. TaskAgrees(u)
    BY DEF TasksAgree
  <2>2. CASE at'[u] = at[u]
    BY <2>1, <2>2 DEF TaskAgrees, InCall
  <2>3. CASE at[u] = "queued" /\ at'[u] = "granted"
    BY <2>1, <2>3 DEF TaskAgrees, InCall
  <2>. QED  BY <2>2, <2>3 DEF OnlyMoves
<1>. QED  BY <1>1 DEF TasksAgree

(* The throttle and the breaker are left alone by a task that neither      *)
(* enters nor leaves them.                                                 *)
LEMMA ThrottleStays ==
  ASSUME OwnTypes, ThrottleAgrees, NEW t \in Tasks, OnlyMoves(t),
         throttle' = throttle, at[t] \notin {"throttled", "pacing"},
         at'[t] \notin {"throttled", "pacing"}
  PROVE  ThrottleAgrees'
<1>1. \A u \in Tasks : /\ at'[u] = "pacing" <=> at[u] = "pacing"
                       /\ at'[u] = "throttled" <=> at[u] = "throttled"
  BY DEF OnlyMoves
<1>2. {u \in Tasks : at'[u] = "throttled"} = {u \in Tasks : at[u] = "throttled"}
  BY <1>1
<1>. QED  BY <1>1, <1>2 DEF ThrottleAgrees, IsQueueOf

LEMMA BreakerStays ==
  ASSUME OwnTypes, BreakerAgrees, BreakerUnused, NEW t \in Tasks, OnlyMoves(t),
         waiters' = waiters, pc' = pc,
         at'[t] \in InCall <=> at[t] \in InCall,
         at'[t] = "behind_probe" <=> at[t] = "behind_probe"
  PROVE  BreakerAgrees' /\ BreakerUnused'
<1>1. ASSUME NEW u \in Tasks
      PROVE  /\ at'[u] \in InCall <=> at[u] \in InCall
             /\ at'[u] = "behind_probe" <=> at[u] = "behind_probe"
  BY DEF OnlyMoves, InCall
<1>. QED  BY <1>1 DEF BreakerAgrees, BreakerUnused, CB!InFlightPCs, CB!HoldingPCs

(* They agree again after a step that moves a task on both sides.          *)
LEMMA BreakerMoves ==
  ASSUME CB!IInv, BreakerAgrees, BreakerUnused, CbEnabled, NEW t \in Tasks, OnlyMoves(t),
         NEW p, pc' = [pc EXCEPT ![t] = p],
         at'[t] \in InCall <=> p \in CB!InFlightPCs,
         at'[t] = "behind_probe" <=> p = "waiting"
  PROVE  BreakerAgrees' /\ BreakerUnused'
<1>1. pc'[t] = p /\ \A u \in Tasks \ {t} : pc'[u] = pc[u]
  BY DEF CB!IInv, CB!TypeOK
<1>2. ASSUME NEW u \in Tasks \ {t}
      PROVE  /\ at'[u] \in InCall <=> at[u] \in InCall
             /\ at'[u] = "behind_probe" <=> at[u] = "behind_probe"
  BY DEF OnlyMoves, InCall
<1>. QED  BY <1>1, <1>2 DEF BreakerAgrees, BreakerUnused, CB!InFlightPCs, CB!HoldingPCs

(* The caller's own part of the inductive invariant.                       *)
OwnInv ==
  /\ OwnTypes
  /\ SemInv
  /\ TasksAgree
  /\ ThrottleAgrees
  /\ BreakerAgrees
  /\ BreakerUnused

LEMMA LookupStep ==
  ASSUME OwnInv, NEW t \in Tasks, Lookup(t)
  PROVE  OwnInv' /\ OnlyMoves(t) /\ at'[t] \in {"missed", "done"}
<1>1. /\ at[t] = "start" /\ TaskAgrees(t)
      /\ UNCHANGED <<attempt, cache, semVars, throttle, breakerVars>>
      /\ \E w \in {"done", "missed"} : at' = [at EXCEPT ![t] = w]
  BY DEF Lookup, ReadHit, ReadMiss, ReadError, OwnInv, TasksAgree
<1>2. PICK w \in {"done", "missed"} : at' = [at EXCEPT ![t] = w]
  BY <1>1
<1>3. w \in Places \ InQueue /\ w \notin Holding
  BY DEF Places, InQueue, Holding, InCall
<1>4. OnlyMoves(t) /\ at'[t] = w
  BY <1>2, <1>3, MoveMoves DEF OwnInv
<1>5. SemInv'
  BY <1>1, <1>2, <1>3, StayKeepsSemaphore DEF OwnInv, InQueue, Holding, InCall
<1>6. ThrottleAgrees'
  BY <1>1, <1>3, <1>4, ThrottleStays DEF OwnInv
<1>7. BreakerAgrees' /\ BreakerUnused'
  BY <1>1, <1>3, <1>4, BreakerStays DEF OwnInv, breakerVars, InCall
<1>8. \/ answer' = answer /\ error' = error /\ w = "missed"
      \/ answer' = [answer EXCEPT ![t] = cache[Key[t]]] /\ error' = error /\ w = "done"
      \/ answer' = answer /\ error' = [error EXCEPT ![t] = "exception"] /\ w = "done"
  BY <1>2, <1>4 DEF Lookup, ReadHit, ReadMiss, ReadError, OwnInv, OwnTypes
<1>9. cache[Key[t]] \in Tasks \cup {NoAnswer}
  BY CallerAssumption DEF OwnInv, OwnTypes
<1>10. OwnTypes'
  BY <1>1, <1>4, <1>8, <1>9 DEF OwnInv, OwnTypes, OnlyMoves, semVars, Errors
<1>11. TaskAgrees(t)'
  BY <1>1, <1>3, <1>4, <1>8, <1>9 DEF TaskAgrees, OwnInv, OwnTypes, InCall
<1>12. TasksAgree'
  BY <1>1, <1>4, <1>8, <1>11, OthersAgree DEF OwnInv, OwnTypes
<1>. QED  BY <1>3, <1>4, <1>5, <1>6, <1>7, <1>10, <1>12 DEF OwnInv

LEMMA AcquireStep ==
  ASSUME OwnInv, NEW t \in Tasks, Acquire(t)
  PROVE  OwnInv' /\ OnlyMoves(t) /\ at'[t] \in {"queued", "attempt"}
<1>1. /\ at[t] \in {"missed", "granted"} /\ TaskAgrees(t)
      /\ UNCHANGED <<answer, error, cache, throttle, breakerVars>>
  BY DEF Acquire, TakeSlot, WaitForSlot, EnterWithGrant, OwnInv, TasksAgree
<1>2. SemInv'
  BY TakeSlotKeepsSemaphore, WaitForSlotKeepsSemaphore, EnterWithGrantKeepsSemaphore
  DEF Acquire, OwnInv
<1>3. /\ OnlyMoves(t) /\ permits' \in Nat /\ semQueue' \in Seq(Tasks)
      /\ \/ at'[t] = "queued" /\ attempt' = attempt /\ at[t] = "missed"
         \/ at'[t] = "attempt" /\ attempt' = [attempt EXCEPT ![t] = 1]
  <2> USE DEF OwnInv
  <2>1. CASE TakeSlot(t)
    <3>1. OnlyMoves(t) /\ at'[t] = "attempt"
      BY <2>1, MoveMoves DEF TakeSlot, Places
    <3>. QED  BY <2>1, <3>1 DEF TakeSlot, OwnTypes
  <2>2. CASE WaitForSlot(t)
    <3>1. OnlyMoves(t) /\ at'[t] = "queued"
      BY <2>2, MoveMoves DEF WaitForSlot, Places
    <3>. QED  BY <2>2, <3>1 DEF WaitForSlot, OwnTypes
  <2>3. CASE EnterWithGrant(t)
    <3>1. /\ OnlyMoves(t) /\ at'[t] = "attempt" /\ permits' \in Nat
      BY <2>3, WakeUpNextMoves DEF EnterWithGrant, Places, OwnTypes
    <3>2. IsQueueOf(semQueue, {u \in Tasks : at[u] \in InQueue})
      BY DEF SemInv, SemQueueAgrees, InQueue
    <3>3. t \in {u \in Tasks : at[u] \in InQueue} /\ t = Head(semQueue)
      BY <2>3 DEF EnterWithGrant, InQueue
    <3>4. Tail(semQueue) \in Seq(Tasks)
      BY <3>2, <3>3, QueueTail DEF OwnTypes
    <3>. QED  BY <2>3, <3>1, <3>4 DEF EnterWithGrant
  <2>. QED  BY <2>1, <2>2, <2>3 DEF Acquire
<1>4. OwnTypes'
  <2>1. attempt' \in [Tasks -> 0 .. MaxRetries]
    <3>1. attempt \in [Tasks -> 0 .. MaxRetries] /\ 1 \in 0 .. MaxRetries
      BY CallerAssumption DEF OwnInv, OwnTypes
    <3>2. attempt' = attempt \/ attempt' = [attempt EXCEPT ![t] = 1]
      BY <1>3
    <3>. QED  BY <3>1, <3>2
  <2>. QED  BY <1>1, <1>3, <2>1 DEF OwnInv, OwnTypes, OnlyMoves
<1>5. TaskAgrees(t)'
  BY <1>1, <1>3 DEF TaskAgrees, OwnInv, OwnTypes, InCall
<1>6. TasksAgree'
  BY <1>1, <1>3, <1>5, OthersAgree DEF OwnInv, OwnTypes
<1>7. ThrottleAgrees'
  BY <1>1, <1>3, ThrottleStays DEF OwnInv
<1>8. BreakerAgrees' /\ BreakerUnused'
  BY <1>1, <1>3, BreakerStays DEF OwnInv, breakerVars, InCall
<1>. QED  BY <1>2, <1>3, <1>4, <1>6, <1>7, <1>8 DEF OwnInv

LEMMA EndBackoffStep ==
  ASSUME OwnInv, NEW t \in Tasks, EndBackoff(t)
  PROVE  OwnInv' /\ OnlyMoves(t) /\ at'[t] = "attempt"
<1>1. /\ at[t] = "backoff" /\ TaskAgrees(t)
      /\ at' = [at EXCEPT ![t] = "attempt"]
      /\ attempt' = [attempt EXCEPT ![t] = attempt[t] + 1]
      /\ UNCHANGED <<answer, error, cache, semVars, throttle, breakerVars>>
  BY DEF EndBackoff, OwnInv, TasksAgree
<1>2. OnlyMoves(t) /\ at'[t] = "attempt"
  BY <1>1, MoveMoves DEF OwnInv, Places
<1>3. SemInv'
  BY <1>1, StayKeepsSemaphore DEF OwnInv, InQueue, Holding, InCall, Places
<1>4. OwnTypes'
  BY <1>1, <1>2, CallerAssumption DEF OwnInv, OwnTypes, OnlyMoves, semVars, TaskAgrees
<1>5. TaskAgrees(t)'
  BY <1>1, <1>2 DEF TaskAgrees, OwnInv, OwnTypes, InCall
<1>6. TasksAgree'
  BY <1>1, <1>2, <1>5, OthersAgree DEF OwnInv, OwnTypes
<1>7. ThrottleAgrees'
  BY <1>1, <1>2, ThrottleStays DEF OwnInv
<1>8. BreakerAgrees' /\ BreakerUnused'
  BY <1>1, <1>2, BreakerStays DEF OwnInv, breakerVars, InCall
<1>. QED  BY <1>2, <1>3, <1>4, <1>6, <1>7, <1>8 DEF OwnInv

LEMMA FinishStep ==
  ASSUME OwnInv, NEW t \in Tasks, Finish(t)
  PROVE  OwnInv' /\ OnlyMoves(t) /\ at'[t] = "done"
<1>1. /\ at[t] = "storing" /\ TaskAgrees(t)
      /\ at' = [at EXCEPT ![t] = "done"]
      /\ cache' \in {cache, SetIfAbsent(t)}
      /\ UNCHANGED <<attempt, semVars, throttle, breakerVars>>
      /\ \/ answer' = answer /\ error' = error
         \/ /\ answer' = [answer EXCEPT ![t] = NoAnswer]
            /\ error' = [error EXCEPT ![t] = "exception"]
  BY DEF Finish, Store, StoreError, OwnInv, TasksAgree
<1>2. OnlyMoves(t) /\ at'[t] = "done"
  BY <1>1, MoveMoves DEF OwnInv, Places
<1>3. SemInv'
  BY <1>1, StayKeepsSemaphore DEF OwnInv, InQueue, Holding, InCall, Places
<1>4. OwnTypes'
  <2>1. SetIfAbsent(t) \in [Keys -> Tasks \cup {NoAnswer}]
    BY DEF SetIfAbsent, OwnInv, OwnTypes
  <2>. QED  BY <1>1, <1>2, <2>1 DEF OwnInv, OwnTypes, OnlyMoves, semVars, Errors
<1>5. TaskAgrees(t)'
  BY <1>1, <1>2 DEF TaskAgrees, OwnInv, OwnTypes, InCall
<1>6. TasksAgree'
  BY <1>1, <1>2, <1>5, OthersAgree DEF OwnInv, OwnTypes
<1>7. ThrottleAgrees'
  BY <1>1, <1>2, ThrottleStays DEF OwnInv
<1>8. BreakerAgrees' /\ BreakerUnused'
  BY <1>1, <1>2, BreakerStays DEF OwnInv, breakerVars, InCall
<1>. QED  BY <1>2, <1>3, <1>4, <1>6, <1>7, <1>8 DEF OwnInv

(* Taking the throttle's lock, or obtaining it, leads to the request only  *)
(* when the interval is over.                                              *)
ThrottleTypes ==
  throttle \in [locked : BOOLEAN, queue : Seq(Tasks), wait : 0 .. MinInterval,
                age : 0 .. MinInterval]

LEMMA PaceEffect ==
  ASSUME OwnTypes, ThrottleAgrees, ~throttle.locked,
         NEW t \in Tasks, NEW q \in Seq(Tasks), Pace(t, q),
         IsQueueOf(q, {u \in Tasks : at[u] = "throttled"} \ {t})
  PROVE  \E w \in {"pacing", "calling"} :
           /\ at' = [at EXCEPT ![t] = w]
           /\ w = "calling" => throttle.age = MinInterval
           /\ ThrottleTypes' /\ ThrottleAgrees'
<1>1. /\ throttle.age \in 0 .. MinInterval /\ MinInterval \in Nat
      /\ \A u \in Tasks : at[u] # "pacing"
  BY CallerAssumption DEF OwnTypes, ThrottleAgrees
<1>2. CASE Sleep(t, q) /\ throttle.age < MinInterval
  <2>1. /\ at' = [at EXCEPT ![t] = "pacing"]
        /\ throttle' = [locked |-> TRUE, queue |-> q, wait |-> MinInterval - throttle.age,
                        age |-> throttle.age]
    BY <1>2 DEF Sleep, OwnTypes
  <2>2. ThrottleTypes'
    BY <1>1, <1>2, <2>1 DEF ThrottleTypes
  <2>3. \A u \in Tasks : at'[u] = "pacing" <=> u = t
    BY <1>1, <2>1 DEF OwnTypes
  <2>4. {u \in Tasks : at'[u] = "throttled"} = {u \in Tasks : at[u] = "throttled"} \ {t}
    BY <2>1 DEF OwnTypes
  <2>5. IsQueueOf(throttle'.queue, {u \in Tasks : at'[u] = "throttled"})
    BY <2>1, <2>4
  <2>6. throttle'.locked /\ throttle'.wait + throttle'.age = MinInterval
    BY <1>1, <2>1
  <2>7. ThrottleAgrees'
    BY <2>3, <2>5, <2>6 DEF ThrottleAgrees
  <2>. QED  BY <2>1, <2>2, <2>7
<1>3. CASE Pass(t, q) /\ ~(throttle.age < MinInterval)
  <2>1. /\ at' = [at EXCEPT ![t] = "calling"]
        /\ throttle' = [locked |-> FALSE, queue |-> q, wait |-> 0, age |-> 0]
    BY <1>3 DEF Pass, OwnTypes
  <2>2. ThrottleTypes'
    BY <1>1, <2>1 DEF ThrottleTypes
  <2>3. \A u \in Tasks : at'[u] # "pacing"
    BY <1>1, <2>1 DEF OwnTypes
  <2>4. {u \in Tasks : at'[u] = "throttled"} = {u \in Tasks : at[u] = "throttled"} \ {t}
    BY <2>1 DEF OwnTypes
  <2>5. ThrottleAgrees'
    BY <2>1, <2>3, <2>4 DEF ThrottleAgrees
  <2>6. throttle.age = MinInterval
    BY <1>1, <1>3
  <2>. QED  BY <2>1, <2>2, <2>5, <2>6
<1>. QED  BY <1>2, <1>3 DEF Pace

LEMMA EnterThrottleEffect ==
  ASSUME OwnTypes, ThrottleAgrees, NEW t \in Tasks, at[t] \notin InCall, EnterThrottle(t)
  PROVE  \E w \in InCall :
           /\ at' = [at EXCEPT ![t] = w]
           /\ w = "calling" => throttle.age = MinInterval
           /\ ThrottleTypes' /\ ThrottleAgrees'
<1> DEFINE S == {u \in Tasks : at[u] = "throttled"}
<1>0. IsQueueOf(throttle.queue, S) /\ t \notin S /\ throttle.queue \in Seq(Tasks)
  BY DEF ThrottleAgrees, InCall, OwnTypes
<1>1. CASE throttle.locked \/ throttle.queue # << >>
  <2>1. /\ at' = [at EXCEPT ![t] = "throttled"]
        /\ throttle' = [throttle EXCEPT !.queue = Append(throttle.queue, t)]
    BY <1>1 DEF EnterThrottle
  <2> HIDE DEF S
  <2>2. /\ Append(throttle.queue, t) \in Seq(Tasks)
        /\ IsQueueOf(Append(throttle.queue, t), S \cup {t})
    BY <1>0, QueueAppend
  <2>3. ThrottleTypes'
    BY <2>1, <2>2 DEF OwnTypes, ThrottleTypes
  <2>4. \A u \in Tasks : at'[u] = "pacing" <=> at[u] = "pacing"
    BY <2>1 DEF OwnTypes, InCall
  <2>5. /\ throttle'.queue = Append(throttle.queue, t)
        /\ throttle'.locked = throttle.locked /\ throttle'.wait = throttle.wait
        /\ throttle'.age = throttle.age
    BY <2>1 DEF OwnTypes
  <2>6. {u \in Tasks : at'[u] = "throttled"} = S \cup {t}
    BY <2>1 DEF OwnTypes, S
  <2>7. ThrottleAgrees'
    BY <2>2, <2>4, <2>5, <2>6 DEF ThrottleAgrees
  <2>. QED  BY <2>1, <2>3, <2>7 DEF InCall
<1>2. CASE ~(throttle.locked \/ throttle.queue # << >>)
  <2>1. Pace(t, << >>)
    BY <1>2 DEF EnterThrottle
  <2>2. IsQueueOf(<< >>, S \ {t}) /\ << >> \in Seq(Tasks)
    BY <1>0, <1>2 DEF IsQueueOf
  <2>3. \E w \in {"pacing", "calling"} :
           /\ at' = [at EXCEPT ![t] = w]
           /\ w = "calling" => throttle.age = MinInterval
           /\ ThrottleTypes' /\ ThrottleAgrees'
    BY <1>2, <2>1, <2>2, PaceEffect
  <2>. QED  BY <2>3 DEF InCall
<1>. QED  BY <1>1, <1>2

(* Whoever is woken from the probe lock's queue stood in it.               *)
LEMMA WokenWaits ==
  ASSUME CB!IInv, BreakerAgrees, BreakerUnused, NEW t \in Tasks, CB!Woken(t)
  PROVE  CbEnabled /\ at[t] = "behind_probe" /\ pc[t] = "waiting"
<1>1. waiters # << >> /\ t = Head(waiters) /\ waiters \in Seq(Tasks)
  BY DEF CB!Woken, CB!IInv, CB!TypeOK
<1>2. 1 \in DOMAIN waiters /\ waiters[1] = t
  BY <1>1
<1>3. pc[t] = "waiting"
  BY <1>2 DEF CB!IInv, CB!QueueConsistent
<1>4. CbEnabled
  BY <1>1 DEF BreakerUnused
<1>. QED  BY <1>3, <1>4 DEF BreakerAgrees

(* Entering the throttle from the head of the loop or from behind a probe, *)
(* obtaining its lock and waking under it.                                 *)
Paced(t) ==
  \E w \in InCall :
    /\ at' = [at EXCEPT ![t] = w]
    /\ w = "calling" => throttle.age = MinInterval
    /\ ThrottleTypes' /\ ThrottleAgrees'

LEMMA PacedStep ==
  ASSUME OwnInv, NEW t \in Tasks,
         at[t] \in {"attempt", "behind_probe"} \cup InCall, Paced(t), CallUnchanged
  PROVE  /\ OwnTypes' /\ SemInv' /\ TasksAgree' /\ ThrottleAgrees'
         /\ OnlyMoves(t) /\ at'[t] \in InCall
<1>1. PICK w \in InCall : /\ at' = [at EXCEPT ![t] = w]
                          /\ ThrottleTypes' /\ ThrottleAgrees'
  BY DEF Paced
<1>2. w \in Places \ InQueue /\ w \in Holding /\ at[t] \in Holding \ InQueue
  BY DEF InCall, Places, InQueue, Holding
<1>3. OnlyMoves(t) /\ at'[t] = w
  BY <1>1, <1>2, MoveMoves DEF OwnInv
<1>4. SemInv'
  BY <1>1, <1>2, StayKeepsSemaphore DEF OwnInv, CallUnchanged
<1>5. OwnTypes'
  BY <1>1, <1>3 DEF OwnInv, OwnTypes, ThrottleTypes, OnlyMoves, CallUnchanged, semVars
<1>6. TaskAgrees(t)'
  <2>1. TaskAgrees(t)
    BY DEF OwnInv, TasksAgree
  <2>. QED  BY <2>1, <1>3 DEF TaskAgrees, CallUnchanged, InCall
<1>7. TasksAgree'
  BY <1>3, <1>6, OthersAgree DEF OwnInv, CallUnchanged
<1>. QED  BY <1>1, <1>3, <1>4, <1>5, <1>7

LEMMA StartStep ==
  ASSUME OwnInv, CB!IInv, NEW t \in Tasks, StartCall(t) \/ StartLate(t)
  PROVE  /\ OwnInv' /\ OnlyMoves(t) /\ Paced(t) /\ CallUnchanged
         /\ at[t] \in {"attempt", "behind_probe"}
<1>1. EnterThrottle(t) /\ CallUnchanged
  BY DEF StartCall, StartLate, EnterThrottle
<1>2. at[t] \in {"attempt", "behind_probe"}
  BY WokenWaits DEF StartCall, StartLate, CB!WakeToProbe, CB!WakeToExecute, OwnInv
<1>3. Paced(t)
  <2>1. at[t] \notin InCall
    BY <1>2 DEF InCall
  <2>. QED  BY <1>1, <2>1, EnterThrottleEffect DEF Paced, OwnInv
<1>4. /\ OwnTypes' /\ SemInv' /\ TasksAgree' /\ ThrottleAgrees'
      /\ OnlyMoves(t) /\ at'[t] \in InCall
  BY <1>1, <1>2, <1>3, PacedStep
<1>5. BreakerAgrees' /\ BreakerUnused'
  <2>1. CASE CbEnabled
    <3>1. PICK p \in CB!InFlightPCs : pc' = [pc EXCEPT ![t] = p]
      BY <2>1 DEF StartCall, StartLate, CB!Admit, CB!Probe, CB!WakeToProbe,
         CB!WakeToExecute, CB!AcquireAs, CB!InFlightPCs, CB!HoldingPCs
    <3>2. p # "waiting" /\ at'[t] # "behind_probe"
      BY <1>4 DEF CB!InFlightPCs, CB!HoldingPCs, InCall
    <3>. QED  BY <2>1, <3>1, <3>2, <1>4, BreakerMoves DEF OwnInv
  <2>2. CASE ~CbEnabled
    <3>1. waiters' = waiters
      BY <2>2, WokenWaits DEF StartCall, StartLate, CB!WakeToProbe, CB!WakeToExecute,
         OwnInv, breakerVars
    <3>. QED  BY <2>2, <3>1, <1>4 DEF OwnInv, BreakerAgrees, BreakerUnused, OnlyMoves, InCall
  <2>. QED  BY <2>1, <2>2
<1>. QED  BY <1>1, <1>2, <1>3, <1>4, <1>5 DEF OwnInv

LEMMA ThrottleStep ==
  ASSUME OwnInv, NEW t \in Tasks, ObtainThrottle(t) \/ EndSleep(t)
  PROVE  /\ OwnInv' /\ OnlyMoves(t) /\ Paced(t) /\ CallUnchanged
         /\ at[t] \in {"throttled", "pacing"}
<1>1. /\ CallUnchanged /\ UNCHANGED breakerVars
      /\ at[t] \in InCall /\ at[t] \in {"throttled", "pacing"}
  BY DEF ObtainThrottle, EndSleep, InCall
<1> DEFINE S == {u \in Tasks : at[u] = "throttled"}
<1>2. IsQueueOf(throttle.queue, S) /\ throttle.queue \in Seq(Tasks)
  BY DEF OwnInv, ThrottleAgrees, OwnTypes
<1>3. ASSUME ObtainThrottle(t) PROVE Paced(t)
  <2>1. /\ at[t] = "throttled" /\ ~throttle.locked /\ t = Head(throttle.queue)
        /\ Pace(t, Tail(throttle.queue))
    BY <1>3 DEF ObtainThrottle
  <2>2. t \in S
    BY <2>1
  <2> HIDE DEF S
  <2>3. Tail(throttle.queue) \in Seq(Tasks) /\ IsQueueOf(Tail(throttle.queue), S \ {t})
    BY <1>2, <2>1, <2>2, QueueTail
  <2>4. Paced(t)
    BY <2>1, <2>3, PaceEffect DEF Paced, OwnInv, InCall, S
  <2>. QED  BY <2>4
<1>4. ASSUME EndSleep(t) PROVE Paced(t)
  <2>1. /\ at[t] = "pacing" /\ throttle.wait = 0 /\ throttle.locked
        /\ throttle.wait + throttle.age = MinInterval
        /\ \A u \in Tasks : at[u] = "pacing" => u = t
    BY <1>4 DEF EndSleep, OwnInv, ThrottleAgrees
  <2>2. throttle.age = MinInterval
    BY <2>1, CallerAssumption DEF OwnInv, OwnTypes
  <2>3. /\ at' = [at EXCEPT ![t] = "calling"]
        /\ throttle' = [locked |-> FALSE, queue |-> throttle.queue, wait |-> 0, age |-> 0]
    BY <1>4 DEF EndSleep, Pass, OwnInv, OwnTypes
  <2>4. ThrottleTypes'
    BY <2>3, <1>2, CallerAssumption DEF ThrottleTypes
  <2>5. \A u \in Tasks : at'[u] # "pacing"
    BY <2>1, <2>3 DEF OwnInv, OwnTypes
  <2>6. {u \in Tasks : at'[u] = "throttled"} = S
    BY <2>1, <2>3 DEF OwnInv, OwnTypes
  <2>7. ThrottleAgrees'
    BY <2>3, <2>5, <2>6, <1>2 DEF ThrottleAgrees
  <2>. QED  BY <2>2, <2>3, <2>4, <2>7 DEF Paced, InCall
<1>5. Paced(t)
  BY <1>3, <1>4
<1>6. /\ OwnTypes' /\ SemInv' /\ TasksAgree' /\ ThrottleAgrees'
      /\ OnlyMoves(t) /\ at'[t] \in InCall
  BY <1>1, <1>5, PacedStep
<1>7. BreakerAgrees' /\ BreakerUnused'
  BY <1>1, <1>6, BreakerStays DEF OwnInv, breakerVars, InCall
<1>. QED  BY <1>1, <1>5, <1>6, <1>7 DEF OwnInv

(* Leaving the loop with a failure.                                        *)
Failures == Errors \ {"none"}

LEMMA SettleStep ==
  ASSUME OwnInv, NEW t \in Tasks, at[t] \in {"attempt", "behind_probe", "calling"},
         NEW e \in Failures, Settle(t, e)
  PROVE  /\ OwnTypes' /\ SemInv' /\ TasksAgree' /\ ThrottleAgrees'
         /\ OnlyMoves(t) /\ at'[t] = "done"
<1>1. /\ error' = [error EXCEPT ![t] = e] /\ ReleaseSlot(t, "done")
      /\ UNCHANGED <<attempt, answer, cache, throttle>>
  BY DEF Settle
<1>2. /\ at[t] \in Holding \ InQueue
      /\ "done" \in Places \ (Holding \cup InQueue)
  BY DEF Holding, InQueue, InCall, Places
<1>3. SemInv'
  BY <1>1, <1>2, ReleaseSlotKeepsSemaphore DEF OwnInv
<1>4. OnlyMoves(t) /\ at'[t] = "done" /\ permits' \in Nat /\ semQueue' = semQueue
  <2>1. at[t] # "queued" /\ permits + 1 \in Nat /\ WakeUpNext(t, "done", permits + 1)
    BY <1>1, <1>2 DEF InQueue, OwnInv, OwnTypes, ReleaseSlot
  <2>2. OnlyMoves(t) /\ at'[t] = "done" /\ permits' \in Nat
    BY <2>1, <1>2, WakeUpNextMoves DEF OwnInv
  <2>. QED  BY <2>2, <1>1 DEF ReleaseSlot
<1>5. OwnTypes'
  BY <1>1, <1>4 DEF OwnInv, OwnTypes, OnlyMoves, Failures
<1>6. TaskAgrees(t)'
  <2>1. TaskAgrees(t) /\ answer[t] = NoAnswer
    BY DEF OwnInv, TasksAgree, TaskAgrees
  <2>. QED  BY <1>1, <1>4, <2>1 DEF TaskAgrees, InCall, OwnInv, OwnTypes
<1>7. TasksAgree'
  BY <1>1, <1>4, <1>6, OthersAgree DEF OwnInv, OwnTypes
<1>8. ThrottleAgrees'
  BY <1>1, <1>4, ThrottleStays DEF OwnInv
<1>. QED  BY <1>3, <1>4, <1>5, <1>7, <1>8

(* Rejected by the breaker, at the head of the loop or behind a probe.     *)
LEMMA RejectedStep ==
  ASSUME OwnInv, CB!IInv, NEW t \in Tasks, StartRejected(t) \/ RejectedLate(t)
  PROVE  /\ OwnInv' /\ OnlyMoves(t) /\ at'[t] = "done"
         /\ at[t] \in {"attempt", "behind_probe"} /\ Settle(t, "circuit_breaker_open")
<1>1. CASE StartRejected(t)
  <2>1. /\ OwnTypes' /\ SemInv' /\ TasksAgree' /\ ThrottleAgrees'
        /\ OnlyMoves(t) /\ at'[t] = "done"
    BY <1>1, SettleStep DEF StartRejected, Failures, Errors
  <2>2. BreakerAgrees' /\ BreakerUnused'
    BY <1>1, <2>1, BreakerStays DEF StartRejected, CB!Reject, CB!vars, OwnInv, InCall
  <2>. QED  BY <1>1, <2>1, <2>2 DEF OwnInv, StartRejected
<1>2. CASE RejectedLate(t)
  <2>1. CbEnabled /\ at[t] = "behind_probe" /\ pc' = [pc EXCEPT ![t] = "idle"]
    BY <1>2, WokenWaits DEF RejectedLate, CB!WakeToReject, OwnInv
  <2>2. /\ OwnTypes' /\ SemInv' /\ TasksAgree' /\ ThrottleAgrees'
        /\ OnlyMoves(t) /\ at'[t] = "done"
    BY <1>2, <2>1, SettleStep DEF RejectedLate, Failures, Errors
  <2>3. BreakerAgrees' /\ BreakerUnused'
    BY <2>1, <2>2, BreakerMoves DEF OwnInv, InCall, CB!InFlightPCs, CB!HoldingPCs
  <2>. QED  BY <1>2, <2>1, <2>2, <2>3 DEF OwnInv, RejectedLate
<1>. QED  BY <1>1, <1>2

(* Moving on with the permit in hand, outside the throttle.                *)
LEMMA KeepingStep ==
  ASSUME OwnInv, NEW t \in Tasks, at[t] \in {"attempt", "calling"},
         NEW where \in {"behind_probe", "backoff", "attempt"},
         at' = [at EXCEPT ![t] = where],
         \/ attempt' = attempt /\ (where = "backoff" => attempt[t] < MaxRetries)
         \/ /\ attempt' = [attempt EXCEPT ![t] = attempt[t] + 1]
            /\ attempt[t] < MaxRetries /\ where = "attempt",
         UNCHANGED <<answer, error, cache, semVars, throttle>>
  PROVE  /\ OwnTypes' /\ SemInv' /\ TasksAgree' /\ ThrottleAgrees'
         /\ OnlyMoves(t) /\ at'[t] = where
<1>1. /\ where \in Places \ InQueue /\ where \in Holding
      /\ at[t] \in Holding \ InQueue
  BY DEF Places, InQueue, Holding, InCall
<1>2. OnlyMoves(t) /\ at'[t] = where
  BY <1>1, MoveMoves DEF OwnInv
<1>3. SemInv'
  BY <1>1, StayKeepsSemaphore DEF OwnInv
<1>4. attempt' \in [Tasks -> 0 .. MaxRetries]
  <2>1. attempt[t] \in 0 .. MaxRetries /\ attempt \in [Tasks -> 0 .. MaxRetries]
    BY DEF OwnInv, OwnTypes
  <2>2. attempt[t] < MaxRetries => attempt[t] + 1 \in 0 .. MaxRetries
    BY <2>1, CallerAssumption
  <2>. QED  BY <2>1, <2>2
<1>5. OwnTypes'
  BY <1>2, <1>4 DEF OwnInv, OwnTypes, OnlyMoves, semVars
<1>6. TaskAgrees(t)'
  <2>1. TaskAgrees(t) /\ attempt[t] \in Nat /\ attempt[t] > 0
    BY DEF OwnInv, OwnTypes, TasksAgree, TaskAgrees, InCall
  <2>2. attempt'[t] > 0 /\ (where = "backoff" => attempt'[t] < MaxRetries)
    BY <2>1 DEF OwnInv, OwnTypes
  <2>. QED  BY <1>2, <2>1, <2>2 DEF TaskAgrees, InCall
<1>7. TasksAgree'
  BY <1>2, <1>6, OthersAgree DEF OwnInv, OwnTypes
<1>8. ThrottleAgrees'
  BY <1>2, ThrottleStays DEF OwnInv
<1>. QED  BY <1>2, <1>3, <1>5, <1>7, <1>8

LEMMA WaitBehindProbeStep ==
  ASSUME OwnInv, CB!IInv, NEW t \in Tasks, WaitBehindProbe(t)
  PROVE  OwnInv' /\ OnlyMoves(t) /\ at'[t] = "behind_probe"
<1>1. /\ at[t] = "attempt" /\ CbEnabled /\ pc' = [pc EXCEPT ![t] = "waiting"]
      /\ at' = [at EXCEPT ![t] = "behind_probe"]
      /\ UNCHANGED <<attempt, answer, error, cache, semVars, throttle>>
  BY DEF WaitBehindProbe, CallUnchanged, CB!QueueForProbe
<1>2. /\ OwnTypes' /\ SemInv' /\ TasksAgree' /\ ThrottleAgrees'
      /\ OnlyMoves(t) /\ at'[t] = "behind_probe"
  BY <1>1, KeepingStep
<1>3. BreakerAgrees' /\ BreakerUnused'
  BY <1>1, <1>2, BreakerMoves DEF OwnInv, InCall, CB!InFlightPCs, CB!HoldingPCs
<1>. QED  BY <1>2, <1>3 DEF OwnInv

(* The ways in which a response leaves the call.                           *)
LEMMA RespondCases ==
  ASSUME NEW t \in Tasks, Respond(t)
  PROVE  /\ at[t] = "calling" /\ (CallSucceeds(t) \/ CallFails(t))
         /\ \/ \E where \in {"storing", "done"} : LeaveAnswered(t, where)
            \/ /\ at' = [at EXCEPT ![t] = "backoff"] /\ attempt[t] < MaxRetries
               /\ UNCHANGED <<attempt, answer, error, cache, semVars, throttle>>
            \/ /\ at' = [at EXCEPT ![t] = "attempt"] /\ attempt[t] < MaxRetries
               /\ attempt' = [attempt EXCEPT ![t] = attempt[t] + 1]
               /\ UNCHANGED <<answer, error, cache, semVars, throttle>>
            \/ \E e \in Failures \ {"circuit_breaker_open"} : Settle(t, e)
BY DEF Respond, Answered, AnsweredWithError, NotAnObject, Retryable, RetryAfterDate, Fatal, OtherStatus,
   RetryOrGiveUp, CallUnchanged, Failures, Errors

LEMMA RespondStep ==
  ASSUME OwnInv, CB!IInv, NEW t \in Tasks, Respond(t)
  PROVE  /\ OwnInv' /\ OnlyMoves(t)
         /\ at'[t] \in {"storing", "backoff", "attempt", "done"}
<1>1. at[t] = "calling" /\ (CallSucceeds(t) \/ CallFails(t))
  BY RespondCases
<1>2. /\ OwnTypes' /\ SemInv' /\ TasksAgree' /\ ThrottleAgrees'
      /\ OnlyMoves(t) /\ at'[t] \in {"storing", "backoff", "attempt", "done"}
  <2>1. ASSUME NEW where \in {"storing", "done"}, LeaveAnswered(t, where)
        PROVE  /\ OwnTypes' /\ SemInv' /\ TasksAgree' /\ ThrottleAgrees'
               /\ OnlyMoves(t) /\ at'[t] \in {"storing", "backoff", "attempt", "done"}
    <3> USE DEF LeaveAnswered
    <3>1. /\ at[t] \in Holding \ InQueue
          /\ where \in Places \ (Holding \cup InQueue)
      BY <1>1 DEF Holding, InQueue, InCall, Places
    <3>2. SemInv'
      BY <2>1, <3>1, ReleaseSlotKeepsSemaphore DEF OwnInv
    <3>3. /\ OnlyMoves(t) /\ at'[t] = where /\ permits' \in Nat
          /\ semQueue' = semQueue
      <4>1. at[t] # "queued" /\ permits + 1 \in Nat /\ WakeUpNext(t, where, permits + 1)
        BY <2>1, <3>1 DEF InQueue, OwnInv, OwnTypes, ReleaseSlot
      <4>2. OnlyMoves(t) /\ at'[t] = where /\ permits' \in Nat
        BY <4>1, <3>1, WakeUpNextMoves DEF OwnInv
      <4>. QED  BY <4>2, <2>1 DEF ReleaseSlot
    <3>4. OwnTypes'
      BY <2>1, <3>3 DEF OwnInv, OwnTypes, OnlyMoves
    <3>5. TaskAgrees(t)'
      <4>1. TaskAgrees(t)
        BY DEF OwnInv, TasksAgree
      <4>. QED  BY <1>1, <2>1, <3>3, <4>1 DEF TaskAgrees, InCall, OwnInv, OwnTypes
    <3>6. TasksAgree'
      BY <2>1, <3>3, <3>5, OthersAgree DEF OwnInv, OwnTypes
    <3>7. ThrottleAgrees'
      BY <1>1, <2>1, <3>3, ThrottleStays DEF OwnInv
    <3>. QED  BY <3>2, <3>3, <3>4, <3>6, <3>7
  <2>2. CASE /\ at' = [at EXCEPT ![t] = "backoff"] /\ attempt[t] < MaxRetries
             /\ UNCHANGED <<attempt, answer, error, cache, semVars, throttle>>
    BY <1>1, <2>2, KeepingStep
  <2>3. CASE /\ at' = [at EXCEPT ![t] = "attempt"] /\ attempt[t] < MaxRetries
             /\ attempt' = [attempt EXCEPT ![t] = attempt[t] + 1]
             /\ UNCHANGED <<answer, error, cache, semVars, throttle>>
    BY <1>1, <2>3, KeepingStep
  <2>4. CASE \E e \in Failures \ {"circuit_breaker_open"} : Settle(t, e)
    BY <1>1, <2>4, SettleStep
  <2>. QED  BY <2>1, <2>2, <2>3, <2>4, RespondCases
<1>3. BreakerAgrees' /\ BreakerUnused'
  <2>1. CASE CbEnabled
    <3>1. pc' = [pc EXCEPT ![t] = "idle"]
      BY <1>1, <2>1 DEF CallSucceeds, CallFails, CB!Succeed, CB!Fail, CB!Leave
    <3>. QED  BY <1>2, <2>1, <3>1, BreakerMoves DEF OwnInv, InCall, CB!InFlightPCs, CB!HoldingPCs
  <2>2. CASE ~CbEnabled
    <3>1. waiters' = waiters
      BY <1>1, <2>2 DEF CallSucceeds, CallFails, breakerVars
    <3>. QED  BY <1>2, <2>2, <3>1 DEF OwnInv, BreakerAgrees, BreakerUnused, OnlyMoves
  <2>. QED  BY <2>1, <2>2
<1>. QED  BY <1>2, <1>3 DEF OwnInv

LEMMA TaskStepKeepsInv ==
  ASSUME OwnInv, CB!IInv, NEW t \in Tasks, TaskStep(t)
  PROVE  OwnInv'
BY LookupStep, AcquireStep, StartStep, RejectedStep, WaitBehindProbeStep, ThrottleStep,
   RespondStep, EndBackoffStep, FinishStep
DEF TaskStep, Attempt

-----------------------------------------------------------------------------
(* The environment: an entry expires, time passes.                         *)

LEMMA SemInvUnchanged ==
  ASSUME SemInv, UNCHANGED <<at, semVars>>
  PROVE  SemInv'
BY DEF SemInv, SemQueueAgrees, PermitsConserved, Holders, NoWaiterForgotten, Ungranted,
   IsQueueOf, semVars

LEMMA ExpireStep ==
  ASSUME OwnInv, NEW k \in Keys, Expire(k)
  PROVE  OwnInv'
<1>1. UNCHANGED <<at, attempt, answer, error, semVars, throttle, breakerVars>>
  BY DEF Expire, taskVars
<1>2. SemInv'
  BY <1>1, SemInvUnchanged DEF OwnInv
<1>3. OwnTypes'
  BY <1>1 DEF Expire, OwnInv, OwnTypes, semVars
<1>4. TasksAgree' /\ ThrottleAgrees'
  BY <1>1 DEF OwnInv, TasksAgree, TaskAgrees, ThrottleAgrees, IsQueueOf
<1>5. BreakerAgrees' /\ BreakerUnused'
  BY <1>1 DEF OwnInv, BreakerAgrees, BreakerUnused, breakerVars, CB!InFlightPCs, CB!HoldingPCs
<1>. QED  BY <1>2, <1>3, <1>4, <1>5 DEF OwnInv

LEMMA TickStep ==
  ASSUME OwnInv, Tick
  PROVE  OwnInv'
<1>1. UNCHANGED <<at, attempt, answer, error, cache, semVars, locked, waiters, pc>>
  BY DEF Tick, taskVars, CB!Tick
<1>2. /\ throttle' = [locked |-> throttle.locked, queue |-> throttle.queue,
                      wait |-> IF throttle.wait > 0 THEN throttle.wait - 1 ELSE 0,
                      age |-> CB!Older(throttle.age, MinInterval)]
      /\ throttle.wait \in 0 .. MinInterval /\ throttle.age \in 0 .. MinInterval
  BY DEF Tick, OwnInv, OwnTypes
<1>3. SemInv'
  BY <1>1, SemInvUnchanged DEF OwnInv
<1>4. OwnTypes'
  <2>1. ThrottleTypes'
    BY <1>2, CallerAssumption DEF ThrottleTypes, OwnInv, OwnTypes, CB!Older
  <2>. QED  BY <1>1, <2>1 DEF OwnInv, OwnTypes, ThrottleTypes, semVars
<1>5. TasksAgree'
  BY <1>1 DEF OwnInv, TasksAgree, TaskAgrees
<1>6. ThrottleAgrees'
  <2>1. throttle'.locked => throttle'.wait + throttle'.age = MinInterval
    BY <1>2, CallerAssumption DEF OwnInv, ThrottleAgrees, CB!Older
  <2>. QED  BY <1>1, <1>2, <2>1 DEF OwnInv, ThrottleAgrees, IsQueueOf
<1>7. BreakerAgrees' /\ BreakerUnused'
  BY <1>1 DEF OwnInv, BreakerAgrees, BreakerUnused, CB!InFlightPCs, CB!HoldingPCs
<1>. QED  BY <1>3, <1>4, <1>5, <1>6, <1>7 DEF OwnInv

-----------------------------------------------------------------------------
(* The inductive invariant.                                                *)

LEMMA IInvParts == IInv <=> OwnInv /\ CB!IInv
<1>1. IInv => OwnInv /\ CB!IInv
  BY CallerAssumption DEF IInv, OwnInv, TypeOK, OwnTypes, SemInv
<1>2. ASSUME OwnInv, CB!IInv PROVE IInv
  <2>1. permits \in 0 .. MaxConcurrent
    BY <1>2, HoldersFinite, CallerAssumption DEF OwnInv, OwnTypes, SemInv, PermitsConserved
  <2>. QED  BY <1>2, <2>1 DEF IInv, OwnInv, TypeOK, OwnTypes, SemInv, CB!IInv
<1>. QED  BY <1>1, <1>2

LEMMA InitInvariant == Init => IInv
<1> SUFFICES ASSUME Init PROVE IInv
  OBVIOUS
<1>1. CB!IInv
  BY BreakerInvariant DEF Init
<1>2. OwnTypes
  BY CallerAssumption DEF Init, OwnTypes, Places, Errors
<1>3. SemInv
  <2>1. Holders = {}
    BY DEF Init, Holders, InCall
  <2>2. PermitsConserved
    BY <2>1, FS_EmptySet, CallerAssumption DEF Init, PermitsConserved
  <2>3. SemQueueAgrees /\ NoWaiterForgotten
    BY DEF Init, SemQueueAgrees, IsQueueOf, NoWaiterForgotten, Ungranted
  <2>. QED  BY <2>2, <2>3 DEF SemInv
<1>4. TasksAgree
  BY DEF Init, TasksAgree, TaskAgrees, InCall
<1>5. ThrottleAgrees
  BY DEF Init, ThrottleAgrees, IsQueueOf
<1>6. BreakerAgrees /\ BreakerUnused
  BY DEF Init, CB!Init, BreakerAgrees, BreakerUnused, InCall, CB!InFlightPCs, CB!HoldingPCs
<1>. QED  BY <1>1, <1>2, <1>3, <1>4, <1>5, <1>6, IInvParts DEF OwnInv

LEMMA NextInvariant == IInv /\ [Next]_vars => IInv'
<1>1. ASSUME IInv, Next PROVE OwnInv'
  <2>1. OwnInv /\ CB!IInv
    BY <1>1, IInvParts
  <2>. QED  BY <1>1, <2>1, TaskStepKeepsInv, ExpireStep, TickStep DEF Next
<1>2. ASSUME IInv, UNCHANGED vars PROVE OwnInv'
  <2>1. OwnInv
    BY <1>2, IInvParts
  <2>2. SemInv'
    BY <1>2, <2>1, SemInvUnchanged DEF OwnInv, vars, taskVars
  <2>3. OwnTypes' /\ TasksAgree' /\ ThrottleAgrees' /\ BreakerAgrees' /\ BreakerUnused'
    BY <1>2, <2>1 DEF vars, taskVars, semVars, breakerVars, OwnInv, OwnTypes, TasksAgree,
       TaskAgrees, ThrottleAgrees, IsQueueOf, BreakerAgrees, BreakerUnused,
       CB!InFlightPCs, CB!HoldingPCs
  <2>. QED  BY <2>2, <2>3 DEF OwnInv
<1>3. ASSUME IInv, [Next]_vars PROVE CB!IInv'
  <2>1. [CB!Next]_(CB!vars)
    BY <1>3, StepsOfBreaker DEF vars, breakerVars, CB!vars
  <2>. QED  BY <1>3, <2>1, BreakerInvariant DEF IInv
<1>4. IInv' <=> OwnInv' /\ CB!IInv'
  BY IInvParts, PTL
<1>. QED  BY <1>1, <1>2, <1>3, <1>4

(* The invariant holds in every reachable state of the caller.             *)
THEOREM Invariant == Spec => []IInv
BY InitInvariant, NextInvariant, PTL DEF Spec

(* The types of the caller's and the breaker's variables.                  *)
THEOREM TypeCorrect == Spec => []TypeOK
BY Invariant, PTL DEF IInv

(* process_ticket never loses a permit of the semaphore nor returns one    *)
(* twice: not when the loop is left by a failure, a late rejection or an   *)
(* exception, and not when release() hands a permit to a waiter that has   *)
(* not resumed yet.                                                        *)
THEOREM PermitsAreConserved == Spec => []PermitsConserved
BY Invariant, PTL DEF IInv

(* The semaphore never forgets a waiter: a permit lies free beside one     *)
(* only while a task that was granted another permit, and passes on what   *)
(* it finds, has yet to resume.                                            *)
THEOREM NobodyForgotten == Spec => []NoWaiterForgotten
BY Invariant, PTL DEF IInv

(* Inside the caller the breaker behaves as the CircuitBreaker module on   *)
(* its own does: the retry loop calls it in no other way.                  *)
THEOREM BreakerIsEmbedded == Spec => CB!Spec
<1>1. Init => CB!Init
  BY DEF Init
<1>2. [Next]_vars => [CB!Next]_(CB!vars)
  BY StepsOfBreaker DEF vars, breakerVars, CB!vars
<1>. QED  BY <1>1, <1>2, PTL DEF Spec, CB!Spec

(* The breaker keeps its promises inside the retry loop: one probe at a    *)
(* time, closed only below the threshold of recent failures, half-open     *)
(* only while a probe is under way.                                        *)
THEOREM BreakerKeepsItsPromises ==
  Spec => [](CB!ProbeExclusive /\ CB!ClosedBelowThreshold /\ CB!HalfOpenIsBeingResolved)
<1>1. IInv => CB!ProbeExclusive /\ CB!ClosedBelowThreshold /\ CB!HalfOpenIsBeingResolved
  BY DEF IInv, CB!IInv
<1>. QED  BY <1>1, Invariant, PTL

(* A request is sent only when the interval since the last one is over.    *)
LEMMA RequestsArePaced ==
  ASSUME IInv, [Next]_vars, NEW t \in Tasks, at[t] # "calling", at'[t] = "calling"
  PROVE  throttle.age = MinInterval
<1>1. OwnInv /\ CB!IInv
  BY IInvParts
<1>2. PICK u \in Tasks : TaskStep(u)
  BY DEF Next, vars, taskVars, Expire, Tick
<1>3. CASE \/ Lookup(u) \/ Acquire(u) \/ StartRejected(u) \/ WaitBehindProbe(u)
           \/ RejectedLate(u) \/ Respond(u) \/ EndBackoff(u) \/ Finish(u)
  <2>1. OnlyMoves(u) /\ at'[u] # "calling"
    BY <1>1, <1>3, LookupStep, AcquireStep, RejectedStep, WaitBehindProbeStep, RespondStep,
       EndBackoffStep, FinishStep
  <2>. QED  BY <2>1 DEF OnlyMoves
<1>4. CASE StartCall(u) \/ StartLate(u) \/ ObtainThrottle(u) \/ EndSleep(u)
  <2>1. Paced(u) /\ at \in [Tasks -> Places]
    BY <1>1, <1>4, StartStep, ThrottleStep DEF OwnInv, OwnTypes
  <2>. QED  BY <2>1 DEF Paced
<1>. QED  BY <1>2, <1>3, <1>4 DEF TaskStep, Attempt

(* Requests leave the worker MinInterval apart, whoever sleeps under       *)
(* _rate_limit_lock and whoever queues behind it.                          *)
THEOREM CallsSpaced == Spec => CallsAreSpaced
<1>1. IInv /\ [Next]_vars =>
        [\A t \in Tasks :
           at[t] # "calling" /\ at'[t] = "calling" => throttle.age = MinInterval]_vars
  BY RequestsArePaced
<1>. QED  BY <1>1, Invariant, PTL DEF Spec, CallsAreSpaced

-----------------------------------------------------------------------------
(* The caller implements TicketService.                                    *)

Shown(t) == IF at[t] = "done" THEN answer[t] ELSE NoAnswer
absCalls    == [t \in Tasks |-> Started(t)]
absInFlight == {t \in Tasks : at[t] = "calling"}
absOutcome  == [t \in Tasks |-> Outcome(t)]
absAnswer   == [t \in Tasks |-> Shown(t)]

(* What a step that moves t leaves to the service: the other tasks keep    *)
(* theirs, also the one that is granted a permit meanwhile.                *)
LEMMA OnlyOwnEntryChanges ==
  ASSUME OwnTypes, NEW t \in Tasks, OnlyMoves(t),
         \A u \in Tasks \ {t} : /\ attempt'[u] = attempt[u]
                                /\ answer'[u] = answer[u]
                                /\ error'[u] = error[u]
  PROVE  /\ absCalls' = [absCalls EXCEPT ![t] = Started(t)']
         /\ absOutcome' = [absOutcome EXCEPT ![t] = Outcome(t)']
         /\ absAnswer' = [absAnswer EXCEPT ![t] = Shown(t)']
         /\ absInFlight' = IF at'[t] = "calling" THEN absInFlight \cup {t}
                                                 ELSE absInFlight \ {t}
<1>1. ASSUME NEW u \in Tasks \ {t}
      PROVE  /\ Started(u)' = Started(u)
             /\ Outcome(u)' = Outcome(u)
             /\ Shown(u)' = Shown(u)
             /\ at'[u] = "calling" <=> at[u] = "calling"
  <2>1. CASE at'[u] = at[u]
    BY <2>1 DEF Started, Outcome, Shown
  <2>2. CASE at[u] = "queued" /\ at'[u] = "granted"
    BY <2>2 DEF Started, Outcome, Shown
  <2>. QED  BY <2>1, <2>2 DEF OnlyMoves
<1>2. absCalls' = [absCalls EXCEPT ![t] = Started(t)']
  BY <1>1 DEF absCalls
<1>3. absOutcome' = [absOutcome EXCEPT ![t] = Outcome(t)']
  BY <1>1 DEF absOutcome
<1>4. absAnswer' = [absAnswer EXCEPT ![t] = Shown(t)']
  BY <1>1 DEF absAnswer
<1>5. absInFlight' = IF at'[t] = "calling" THEN absInFlight \cup {t} ELSE absInFlight \ {t}
  BY <1>1 DEF absInFlight
<1>. QED  BY <1>2, <1>3, <1>4, <1>5

(* A step that changes nothing the service shows is a stutter of it.       *)
LEMMA Stutters ==
  ASSUME NEW t \in Tasks, cache' = cache,
         absCalls' = [absCalls EXCEPT ![t] = Started(t)],
         absOutcome' = [absOutcome EXCEPT ![t] = Outcome(t)],
         absAnswer' = [absAnswer EXCEPT ![t] = Shown(t)],
         absInFlight' = absInFlight
  PROVE  UNCHANGED Service!vars
<1>1. /\ absCalls' = absCalls /\ absOutcome' = absOutcome /\ absAnswer' = absAnswer
  BY DEF absCalls, absOutcome, absAnswer
<1>. QED  BY <1>1 DEF Service!vars, absCalls, absOutcome, absAnswer, absInFlight, Shown

(* There is room for one more call: it is the call of a permit's holder.   *)
LEMMA RoomForTheCall ==
  ASSUME OwnTypes, PermitsConserved, NEW t \in Tasks, at[t] \in Holding, at[t] # "calling"
  PROVE  Service!Cardinality(absInFlight) < MaxConcurrent
<1>1. absInFlight \cup {t} \in SUBSET Holders /\ t \notin absInFlight
  BY DEF absInFlight, Holders, Holding, InCall
<1>2. IsFiniteSet(absInFlight \cup {t}) /\ IsFiniteSet(absInFlight)
  BY <1>1, HoldersFinite, FS_Subset
<1>3. /\ Cardinality(absInFlight \cup {t}) <= Cardinality(Holders)
      /\ Cardinality(absInFlight \cup {t}) = Cardinality(absInFlight) + 1
      /\ Cardinality(absInFlight) \in Nat
  BY <1>1, <1>2, HoldersFinite, FS_Subset, FS_AddElement, FS_CardinalityType
<1>4. Cardinality(absInFlight) < MaxConcurrent
  BY <1>3, HoldersFinite, CallerAssumption DEF PermitsConserved, OwnTypes
<1>5. Service!Cardinality(absInFlight) = Cardinality(absInFlight)
  BY DEF Service!Cardinality, Cardinality
<1>. QED  BY <1>4, <1>5

LEMMA LookupImplements ==
  ASSUME OwnInv, NEW t \in Tasks, Lookup(t)
  PROVE  [Service!Next]_(Service!vars)
<1>1. /\ at[t] = "start" /\ attempt[t] = 0 /\ error[t] = "none" /\ answer[t] = NoAnswer
      /\ OnlyMoves(t)
  BY LookupStep DEF Lookup, ReadHit, ReadMiss, ReadError, OwnInv, TasksAgree, TaskAgrees
<1>2. /\ Started(t) = 0 /\ Outcome(t) = "pending" /\ Shown(t) = NoAnswer
      /\ absCalls[t] = 0 /\ absOutcome[t] = "pending" /\ t \notin absInFlight
  BY <1>1 DEF Started, Outcome, Shown, absCalls, absOutcome, absInFlight
<1>3. /\ absCalls' = [absCalls EXCEPT ![t] = Started(t)']
      /\ absOutcome' = [absOutcome EXCEPT ![t] = Outcome(t)']
      /\ absAnswer' = [absAnswer EXCEPT ![t] = Shown(t)']
      /\ absInFlight' = IF at'[t] = "calling" THEN absInFlight \cup {t}
                                              ELSE absInFlight \ {t}
  <2>1. \A u \in Tasks \ {t} : attempt'[u] = attempt[u] /\ answer'[u] = answer[u]
                                 /\ error'[u] = error[u]
    BY DEF Lookup, ReadHit, ReadMiss, ReadError, OwnInv, OwnTypes
  <2>. QED  BY <1>1, <2>1, OnlyOwnEntryChanges DEF OwnInv
<1>4. CASE ReadHit(t)
  <2>1. /\ cache[Key[t]] # NoAnswer /\ cache' = cache
        /\ at'[t] = "done" /\ attempt'[t] = 0 /\ error'[t] = "none"
        /\ answer'[t] = cache[Key[t]]
    BY <1>1, <1>4 DEF ReadHit, OwnInv, OwnTypes
  <2>2. Started(t)' = 0 /\ Outcome(t)' = "answered" /\ Shown(t)' = cache[Key[t]]
    BY <2>1 DEF Started, Outcome, Shown
  <2>3. absCalls' = absCalls /\ absInFlight' = absInFlight
    BY <1>2, <1>3, <2>1, <2>2 DEF absCalls
  <2>4. Service!Hit(t)
    BY <1>2, <1>3, <2>1, <2>2, <2>3
    DEF Service!Hit, absCalls, absOutcome, absAnswer, absInFlight, Shown
  <2>. QED  BY <2>4 DEF Service!Next
<1>5. CASE ReadMiss(t)
  <2>1. /\ cache' = cache /\ at'[t] = "missed" /\ attempt'[t] = 0 /\ error'[t] = "none"
    BY <1>1, <1>5 DEF ReadMiss, OwnInv, OwnTypes
  <2>2. Started(t)' = Started(t) /\ Outcome(t)' = Outcome(t) /\ Shown(t)' = Shown(t)
    BY <1>2, <2>1 DEF Started, Outcome, Shown
  <2>. QED  BY <1>2, <1>3, <2>1, <2>2, Stutters
<1>6. CASE ReadError(t)
  <2>1. /\ cache' = cache /\ at'[t] = "done" /\ attempt'[t] = 0
        /\ error'[t] = "exception" /\ answer'[t] = NoAnswer
    BY <1>1, <1>6 DEF ReadError, OwnInv, OwnTypes
  <2>2. Started(t)' = 0 /\ Outcome(t)' = "failed" /\ Shown(t)' = NoAnswer
    BY <2>1 DEF Started, Outcome, Shown
  <2>3. absCalls' = absCalls /\ absInFlight' = absInFlight /\ absAnswer' = absAnswer
    BY <1>2, <1>3, <2>1, <2>2 DEF absCalls, absAnswer
  <2>4. Service!GiveUp(t)
    BY <1>2, <1>3, <2>1, <2>2, <2>3
    DEF Service!GiveUp, absCalls, absOutcome, absAnswer, absInFlight, Shown
  <2>. QED  BY <2>4 DEF Service!Next
<1>. QED  BY <1>4, <1>5, <1>6 DEF Lookup

LEMMA AcquireImplements ==
  ASSUME OwnInv, NEW t \in Tasks, Acquire(t)
  PROVE  [Service!Next]_(Service!vars)
<1>1. /\ at[t] \in {"missed", "granted"} /\ attempt[t] = 0 /\ error[t] = "none"
      /\ UNCHANGED <<answer, error, cache>>
      /\ OnlyMoves(t) /\ at'[t] \in {"queued", "attempt"}
  BY AcquireStep DEF Acquire, TakeSlot, WaitForSlot, EnterWithGrant, OwnInv, TasksAgree,
     TaskAgrees
<1>2. \/ attempt' = attempt /\ at'[t] = "queued"
      \/ attempt' = [attempt EXCEPT ![t] = 1] /\ at'[t] = "attempt"
  <2>1. CASE TakeSlot(t)
    BY <2>1 DEF TakeSlot, OwnInv, OwnTypes
  <2>2. CASE WaitForSlot(t)
    BY <2>2 DEF WaitForSlot, OwnInv, OwnTypes
  <2>3. CASE EnterWithGrant(t)
    <3>1. at'[t] = "attempt"
      BY <2>3, WakeUpNextMoves DEF EnterWithGrant, Places, OwnInv, OwnTypes
    <3>. QED  BY <2>3, <3>1 DEF EnterWithGrant
  <2>. QED  BY <2>1, <2>2, <2>3 DEF Acquire
<1>3. /\ absCalls' = [absCalls EXCEPT ![t] = Started(t)']
      /\ absOutcome' = [absOutcome EXCEPT ![t] = Outcome(t)']
      /\ absAnswer' = [absAnswer EXCEPT ![t] = Shown(t)']
      /\ absInFlight' = absInFlight \ {t}
  <2>1. \A u \in Tasks \ {t} : attempt'[u] = attempt[u] /\ answer'[u] = answer[u]
                                 /\ error'[u] = error[u]
    BY <1>1, <1>2 DEF OwnInv, OwnTypes
  <2>. QED  BY <1>1, <2>1, OnlyOwnEntryChanges DEF OwnInv
<1>4. Started(t) = 0 /\ Outcome(t) = "pending" /\ Shown(t) = NoAnswer
  BY <1>1 DEF Started, Outcome, Shown
<1>5. Started(t)' = 0 /\ Outcome(t)' = "pending" /\ Shown(t)' = NoAnswer
  <2>1. error'[t] = "none" /\ attempt'[t] = IF at'[t] = "queued" THEN 0 ELSE 1
    BY <1>1, <1>2 DEF OwnInv, OwnTypes
  <2>. QED  BY <1>1, <2>1 DEF Started, Outcome, Shown
<1>6. absInFlight' = absInFlight
  BY <1>1, <1>3 DEF absInFlight
<1>. QED  BY <1>1, <1>3, <1>4, <1>5, <1>6, Stutters

(* Up to the request nothing shows; the request itself is a call.          *)
LEMMA PacedImplements ==
  ASSUME OwnInv, NEW t \in Tasks, OnlyMoves(t), Paced(t), CallUnchanged,
         at[t] \in {"attempt", "behind_probe", "throttled", "pacing"}
  PROVE  [Service!Next]_(Service!vars)
<1>1. /\ error[t] = "none" /\ attempt[t] \in 1 .. MaxRetries
      /\ UNCHANGED <<attempt, answer, error, cache>>
      /\ at'[t] \in InCall
  BY DEF OwnInv, OwnTypes, TasksAgree, TaskAgrees, CallUnchanged, InCall, Paced
<1>2. /\ Started(t) = attempt[t] - 1 /\ Outcome(t) = "pending" /\ Shown(t) = NoAnswer
      /\ absCalls[t] = attempt[t] - 1 /\ absOutcome[t] = "pending" /\ t \notin absInFlight
  BY <1>1 DEF Started, Outcome, Shown, absCalls, absOutcome, absInFlight
<1>3. /\ absCalls' = [absCalls EXCEPT ![t] = Started(t)']
      /\ absOutcome' = [absOutcome EXCEPT ![t] = Outcome(t)']
      /\ absAnswer' = [absAnswer EXCEPT ![t] = Shown(t)']
      /\ absInFlight' = IF at'[t] = "calling" THEN absInFlight \cup {t}
                                              ELSE absInFlight \ {t}
  BY <1>1, OnlyOwnEntryChanges DEF OwnInv
<1>4. Outcome(t)' = "pending" /\ Shown(t)' = NoAnswer
  BY <1>1 DEF Outcome, Shown, InCall
<1>5. CASE at'[t] = "calling"
  <2>1. Started(t)' = attempt[t]
    BY <1>1, <1>5 DEF Started
  <2>2. absCalls' = [absCalls EXCEPT ![t] = absCalls[t] + 1]
    <3>1. Started(t)' = absCalls[t] + 1
      BY <1>1, <1>2, <2>1
    <3>. QED  BY <1>3, <3>1, Zenon
  <2>3. absOutcome' = absOutcome /\ absAnswer' = absAnswer
    BY <1>2, <1>3, <1>4 DEF absOutcome, absAnswer
  <2>4. Service!Cardinality(absInFlight) < MaxConcurrent
    BY RoomForTheCall DEF OwnInv, SemInv, Holding, InCall
  <2>5. absCalls[t] < MaxRetries
    BY <1>1, <1>2, CallerAssumption
  <2>6. Service!Call(t)
    BY <1>1, <1>2, <1>3, <1>5, <2>2, <2>3, <2>4, <2>5
    DEF Service!Call, absCalls, absOutcome, absAnswer, absInFlight, Shown
  <2>. QED  BY <2>6 DEF Service!Next
<1>6. CASE at'[t] # "calling"
  <2>1. Started(t)' = attempt[t] - 1
    BY <1>1, <1>6 DEF Started, InCall
  <2>2. absInFlight' = absInFlight
    BY <1>2, <1>3, <1>6
  <2>. QED  BY <1>1, <1>2, <1>3, <1>4, <2>1, <2>2, Stutters
<1>. QED  BY <1>5, <1>6

LEMMA WaitBehindProbeImplements ==
  ASSUME OwnInv, CB!IInv, NEW t \in Tasks, WaitBehindProbe(t)
  PROVE  [Service!Next]_(Service!vars)
<1>1. /\ at[t] = "attempt" /\ UNCHANGED <<attempt, answer, error, cache>>
      /\ OnlyMoves(t) /\ at'[t] = "behind_probe"
  BY WaitBehindProbeStep DEF WaitBehindProbe, CallUnchanged
<1>2. Started(t)' = Started(t) /\ Outcome(t)' = Outcome(t) /\ Shown(t)' = Shown(t)
  BY <1>1 DEF Started, Outcome, Shown
<1>3. absInFlight' = absInFlight \ {t} /\ t \notin absInFlight
  BY <1>1, OnlyOwnEntryChanges DEF OwnInv, absInFlight
<1>. QED  BY <1>1, <1>2, <1>3, OnlyOwnEntryChanges, Stutters DEF OwnInv

LEMMA RejectedImplements ==
  ASSUME OwnInv, CB!IInv, NEW t \in Tasks, StartRejected(t) \/ RejectedLate(t)
  PROVE  [Service!Next]_(Service!vars)
<1>1. /\ at[t] \in {"attempt", "behind_probe"} /\ OnlyMoves(t) /\ at'[t] = "done"
      /\ error' = [error EXCEPT ![t] = "circuit_breaker_open"]
      /\ UNCHANGED <<attempt, answer, cache>>
  BY RejectedStep DEF Settle
<1>2. error[t] = "none" /\ answer[t] = NoAnswer
  BY <1>1 DEF OwnInv, TasksAgree, TaskAgrees
<1>3. /\ absCalls' = [absCalls EXCEPT ![t] = Started(t)']
      /\ absOutcome' = [absOutcome EXCEPT ![t] = Outcome(t)']
      /\ absAnswer' = [absAnswer EXCEPT ![t] = Shown(t)']
      /\ absInFlight' = absInFlight \ {t}
  <2>1. \A u \in Tasks \ {t} : error'[u] = error[u]
    BY <1>1 DEF OwnInv, OwnTypes
  <2>. QED  BY <1>1, <2>1, OnlyOwnEntryChanges DEF OwnInv
<1>4. error'[t] = "circuit_breaker_open"
  BY <1>1 DEF OwnInv, OwnTypes
<1>5. /\ Started(t)' = Started(t) /\ Shown(t)' = Shown(t)
      /\ Outcome(t) = "pending" /\ Outcome(t)' = "failed"
  BY <1>1, <1>2, <1>4 DEF Started, Outcome, Shown
<1>6. absCalls' = absCalls /\ absAnswer' = absAnswer /\ absInFlight' = absInFlight
  BY <1>1, <1>3, <1>5 DEF absCalls, absAnswer, absInFlight
<1>7. absOutcome[t] = "pending" /\ t \notin absInFlight
  BY <1>1, <1>5 DEF absOutcome, absInFlight
<1>8. Service!GiveUp(t)
  BY <1>1, <1>3, <1>5, <1>6, <1>7
  DEF Service!GiveUp, absCalls, absOutcome, absAnswer, absInFlight, Shown
<1>. QED  BY <1>8 DEF Service!Next

LEMMA RespondImplements ==
  ASSUME OwnInv, CB!IInv, NEW t \in Tasks, Respond(t)
  PROVE  [Service!Next]_(Service!vars)
<1>1. /\ at[t] = "calling" /\ error[t] = "none" /\ answer[t] = NoAnswer
      /\ OnlyMoves(t) /\ at'[t] # "calling"
  BY RespondStep, RespondCases DEF OwnInv, TasksAgree, TaskAgrees
<1>2. /\ Started(t) = attempt[t] /\ Shown(t) = NoAnswer /\ t \in absInFlight
  BY <1>1 DEF Started, Shown, absInFlight
<1>3. \/ /\ at'[t] \in {"storing", "done"} /\ attempt' = attempt /\ error' = error
         /\ answer' = [answer EXCEPT ![t] = t] /\ cache' = cache
      \/ /\ at'[t] = "backoff" /\ UNCHANGED <<attempt, answer, error, cache>>
      \/ /\ at'[t] = "attempt" /\ attempt' = [attempt EXCEPT ![t] = attempt[t] + 1]
         /\ UNCHANGED <<answer, error, cache>>
      \/ /\ at'[t] = "done" /\ UNCHANGED <<attempt, answer, cache>>
         /\ \E e \in Failures \ {"circuit_breaker_open"} : error' = [error EXCEPT ![t] = e]
  <2> USE DEF OwnInv, OwnTypes
  <2>1. CASE \E where \in {"storing", "done"} : LeaveAnswered(t, where)
    <3>1. PICK where \in {"storing", "done"} : LeaveAnswered(t, where)
      BY <2>1
    <3>2. at[t] # "queued" /\ permits + 1 \in Nat /\ where \in Places
      BY <1>1 DEF Places
    <3>3. at'[t] = where
      BY <3>1, <3>2, WakeUpNextMoves DEF LeaveAnswered, ReleaseSlot
    <3>. QED  BY <3>1, <3>3 DEF LeaveAnswered
  <2>2. CASE /\ at' = [at EXCEPT ![t] = "backoff"] /\ attempt[t] < MaxRetries
             /\ UNCHANGED <<attempt, answer, error, cache, semVars, throttle>>
    BY <2>2
  <2>3. CASE /\ at' = [at EXCEPT ![t] = "attempt"] /\ attempt[t] < MaxRetries
             /\ attempt' = [attempt EXCEPT ![t] = attempt[t] + 1]
             /\ UNCHANGED <<answer, error, cache, semVars, throttle>>
    BY <2>3
  <2>4. CASE \E e \in Failures \ {"circuit_breaker_open"} : Settle(t, e)
    <3>1. PICK e \in Failures \ {"circuit_breaker_open"} : Settle(t, e)
      BY <2>4
    <3>2. at'[t] = "done"
      BY <1>1, <3>1, SettleStep
    <3>. QED  BY <3>1, <3>2 DEF Settle
  <2>. QED  BY <2>1, <2>2, <2>3, <2>4, RespondCases
<1>4. /\ absCalls' = [absCalls EXCEPT ![t] = Started(t)']
      /\ absOutcome' = [absOutcome EXCEPT ![t] = Outcome(t)']
      /\ absAnswer' = [absAnswer EXCEPT ![t] = Shown(t)']
      /\ absInFlight' = absInFlight \ {t}
  <2>1. \A u \in Tasks \ {t} : attempt'[u] = attempt[u] /\ answer'[u] = answer[u]
                                 /\ error'[u] = error[u]
    BY <1>3 DEF OwnInv, OwnTypes
  <2>. QED  BY <1>1, <2>1, OnlyOwnEntryChanges DEF OwnInv
<1>5. CASE /\ at'[t] = "done" /\ attempt' = attempt /\ error' = error
           /\ answer' = [answer EXCEPT ![t] = t] /\ cache' = cache
  <2>1. answer'[t] = t /\ error'[t] = "none"
    BY <1>1, <1>5 DEF OwnInv, OwnTypes
  <2>2. Started(t)' = Started(t) /\ Shown(t)' = t /\ Outcome(t)' = "answered"
    BY <2>1, <1>1, <1>2, <1>5 DEF Started, Shown, Outcome
  <2>3. absCalls' = absCalls
    BY <1>4, <2>2 DEF absCalls
  <2>4. Service!ReturnUncached(t)
    BY <1>2, <1>4, <1>5, <2>2, <2>3
    DEF Service!ReturnUncached, absCalls, absOutcome, absAnswer, absInFlight, Shown
  <2>. QED  BY <2>4 DEF Service!Next
<1>6. CASE ~(/\ at'[t] = "done" /\ attempt' = attempt /\ error' = error
             /\ answer' = [answer EXCEPT ![t] = t] /\ cache' = cache)
  <2>1. /\ Started(t)' = Started(t) /\ Shown(t)' = Shown(t) /\ cache' = cache
        /\ Outcome(t)' \in {"pending", "ready", "failed"}
    <3>1. CASE at'[t] = "storing" /\ attempt' = attempt /\ error' = error /\ cache' = cache
      BY <3>1, <1>1, <1>2 DEF Started, Shown, Outcome
    <3>2. CASE at'[t] = "backoff" /\ UNCHANGED <<attempt, answer, error, cache>>
      BY <3>2, <1>1, <1>2 DEF Started, Shown, Outcome
    <3>3. CASE /\ at'[t] = "attempt" /\ attempt' = [attempt EXCEPT ![t] = attempt[t] + 1]
               /\ UNCHANGED <<answer, error, cache>>
      <4>1. attempt'[t] - 1 = attempt[t]
        BY <3>3 DEF OwnInv, OwnTypes
      <4>. QED  BY <3>3, <4>1, <1>1, <1>2 DEF Started, Shown, Outcome
    <3>4. ASSUME at'[t] = "done", UNCHANGED <<attempt, answer, cache>>,
                 NEW e \in Failures \ {"circuit_breaker_open"},
                 error' = [error EXCEPT ![t] = e]
          PROVE  /\ Started(t)' = Started(t) /\ Shown(t)' = Shown(t) /\ cache' = cache
                 /\ Outcome(t)' \in {"pending", "ready", "failed"}
      <4>1. error'[t] = e /\ e # "none" /\ e # "circuit_breaker_open"
        BY <3>4 DEF OwnInv, OwnTypes, Failures
      <4>. QED  BY <3>4, <4>1, <1>1, <1>2 DEF Started, Shown, Outcome
    <3>. QED  BY <1>3, <1>6, <3>1, <3>2, <3>3, <3>4
  <2>2. absCalls' = absCalls /\ absAnswer' = absAnswer
    BY <1>4, <2>1 DEF absCalls, absAnswer
  <2>3. Service!Return(t)
    BY <1>2, <1>4, <2>1, <2>2
    DEF Service!Return, absCalls, absOutcome, absAnswer, absInFlight, Shown
  <2>. QED  BY <2>3 DEF Service!Next
<1>. QED  BY <1>5, <1>6

LEMMA EndBackoffImplements ==
  ASSUME OwnInv, NEW t \in Tasks, EndBackoff(t)
  PROVE  [Service!Next]_(Service!vars)
<1>1. /\ at[t] = "backoff" /\ error[t] = "none" /\ OnlyMoves(t) /\ at'[t] = "attempt"
      /\ attempt' = [attempt EXCEPT ![t] = attempt[t] + 1]
      /\ UNCHANGED <<answer, error, cache>>
  BY EndBackoffStep DEF EndBackoff, OwnInv, TasksAgree, TaskAgrees
<1>2. /\ \A u \in Tasks \ {t} : attempt'[u] = attempt[u]
      /\ attempt'[t] - 1 = attempt[t]
  BY <1>1 DEF OwnInv, OwnTypes
<1>3. Started(t)' = Started(t) /\ Outcome(t)' = Outcome(t) /\ Shown(t)' = Shown(t)
  BY <1>1, <1>2 DEF Started, Outcome, Shown
<1>4. absInFlight' = absInFlight \ {t} /\ t \notin absInFlight
  BY <1>1, <1>2, OnlyOwnEntryChanges DEF OwnInv, absInFlight
<1>. QED  BY <1>1, <1>2, <1>3, <1>4, OnlyOwnEntryChanges, Stutters DEF OwnInv

LEMMA FinishImplements ==
  ASSUME OwnInv, NEW t \in Tasks, Finish(t)
  PROVE  [Service!Next]_(Service!vars)
<1>1. /\ at[t] = "storing" /\ error[t] = "none" /\ answer[t] = t
      /\ OnlyMoves(t) /\ at'[t] = "done" /\ attempt' = attempt
  BY FinishStep DEF Finish, Store, StoreError, OwnInv, TasksAgree, TaskAgrees
<1>2. /\ Started(t) = attempt[t] /\ Outcome(t) = "ready" /\ Shown(t) = NoAnswer
      /\ absOutcome[t] = "ready" /\ t \notin absInFlight
  BY <1>1 DEF Started, Outcome, Shown, absOutcome, absInFlight
<1>3. /\ absCalls' = [absCalls EXCEPT ![t] = Started(t)']
      /\ absOutcome' = [absOutcome EXCEPT ![t] = Outcome(t)']
      /\ absAnswer' = [absAnswer EXCEPT ![t] = Shown(t)']
      /\ absInFlight' = absInFlight \ {t}
  <2>1. \A u \in Tasks \ {t} : answer'[u] = answer[u] /\ error'[u] = error[u]
    BY DEF Finish, Store, StoreError, OwnInv, OwnTypes
  <2>. QED  BY <1>1, <2>1, OnlyOwnEntryChanges DEF OwnInv
<1>4. SetIfAbsent(t) = Service!KeepFirst(t)
  BY <1>1 DEF SetIfAbsent, Service!KeepFirst
<1>5. CASE Store(t)
  <2>1. error'[t] = "none" /\ answer'[t] = t /\ cache' = Service!KeepFirst(t)
    BY <1>1, <1>4, <1>5 DEF Store
  <2>2. Started(t)' = Started(t) /\ Outcome(t)' = "answered" /\ Shown(t)' = t
    BY <1>1, <1>2, <2>1 DEF Started, Outcome, Shown
  <2>3. absCalls' = absCalls /\ absInFlight' = absInFlight
    BY <1>2, <1>3, <2>2 DEF absCalls
  <2>4. Service!Deliver(t)
    BY <1>2, <1>3, <2>1, <2>2, <2>3
    DEF Service!Deliver, absCalls, absOutcome, absAnswer, absInFlight, Shown
  <2>. QED  BY <2>4 DEF Service!Next
<1>6. CASE StoreError(t)
  <2>1. error'[t] = "exception" /\ answer'[t] = NoAnswer
        /\ cache' \in {cache, Service!KeepFirst(t)}
    BY <1>1, <1>4, <1>6 DEF StoreError, OwnInv, OwnTypes
  <2>2. Started(t)' = Started(t) /\ Outcome(t)' = "failed" /\ Shown(t)' = Shown(t)
    BY <1>1, <1>2, <2>1 DEF Started, Outcome, Shown
  <2>3. absCalls' = absCalls /\ absInFlight' = absInFlight /\ absAnswer' = absAnswer
    BY <1>2, <1>3, <2>2 DEF absCalls, absAnswer
  <2>4. Service!Lose(t)
    BY <1>2, <1>3, <2>1, <2>2, <2>3
    DEF Service!Lose, absCalls, absOutcome, absAnswer, absInFlight, Shown
  <2>. QED  BY <2>4 DEF Service!Next
<1>. QED  BY <1>5, <1>6 DEF Finish

(* Whatever happens to the permit, the breaker, the throttle and the       *)
(* retries, one step of the caller is at most one step of the service.     *)
LEMMA StepImplements ==
  ASSUME IInv, [Next]_vars
  PROVE  [Service!Next]_(Service!vars)
<1>1. OwnInv /\ CB!IInv
  BY IInvParts
<1>2. ASSUME NEW t \in Tasks, TaskStep(t) PROVE [Service!Next]_(Service!vars)
  <2>1. CASE \/ Lookup(t) \/ Acquire(t) \/ StartRejected(t) \/ RejectedLate(t)
             \/ WaitBehindProbe(t) \/ Respond(t) \/ EndBackoff(t) \/ Finish(t)
    BY <1>1, <2>1, LookupImplements, AcquireImplements, RejectedImplements,
       WaitBehindProbeImplements, RespondImplements, EndBackoffImplements, FinishImplements
  <2>2. CASE StartCall(t) \/ StartLate(t)
    BY <1>1, <2>2, StartStep, PacedImplements
  <2>3. CASE ObtainThrottle(t) \/ EndSleep(t)
    BY <1>1, <2>3, ThrottleStep, PacedImplements
  <2>. QED  BY <1>2, <2>1, <2>2, <2>3 DEF TaskStep, Attempt
<1>3. ASSUME UNCHANGED <<at, attempt, answer, error>>
      PROVE  UNCHANGED <<absCalls, absOutcome, absAnswer, absInFlight>>
  BY <1>3 DEF absCalls, absOutcome, absAnswer, absInFlight, Started, Outcome, Shown
<1>4. ASSUME NEW k \in Keys, Expire(k) PROVE Service!Expire(k)
  BY <1>3, <1>4
  DEF Expire, taskVars, Service!Expire, absCalls, absOutcome, absAnswer, absInFlight, Shown
<1>5. CASE Tick \/ UNCHANGED vars
  BY <1>3, <1>5
  DEF Tick, vars, taskVars, Service!vars, absCalls, absOutcome, absAnswer, absInFlight, Shown
<1>. QED  BY <1>2, <1>4, <1>5 DEF Next, Service!Next

LEMMA InitImplements == Init => Service!Init
BY DEF Init, Service!Init, Started, Outcome

(* process_ticket keeps the contract of TicketService: each ticket is      *)
(* answered from the cache or by its own call, costs at most max_retries   *)
(* calls, at most max_concurrent_api_calls of them run at once, and a      *)
(* cached answer is not replaced before it expires.                        *)
THEOREM CallerImplementsService == Spec => ImplementsService
<1>1. Init => Service!Init
  BY InitImplements
<1>2. IInv /\ [Next]_vars => [Service!Next]_(Service!vars)
  BY StepImplements
<1>. QED  BY <1>1, <1>2, Invariant, PTL DEF Spec, ImplementsService, Service!Spec

-----------------------------------------------------------------------------
(* So whatever TicketServiceProofs has proved of the contract holds of the *)
(* caller: SP's definitions are those of Service.                          *)

SP == INSTANCE TicketServiceProofs WITH
  calls    <- [t \in Tasks |-> Started(t)],
  inFlight <- {t \in Tasks : at[t] = "calling"},
  outcome  <- [t \in Tasks |-> Outcome(t)],
  answer   <- [t \in Tasks |-> IF at[t] = "done" THEN answer[t] ELSE NoAnswer]

LEMMA SameContract ==
  /\ Service!Init => SP!Init
  /\ [Service!Next]_(Service!vars) => [SP!Next]_(SP!vars)
  /\ SP!CallsBounded => Service!CallsBounded
  /\ SP!AnswersBelong => Service!AnswersBelong
<1>1. Service!Init => SP!Init
  BY DEF Service!Init, SP!Init
<1>2. \A t \in Tasks : Service!KeepFirst(t) = SP!KeepFirst(t)
  BY DEF Service!KeepFirst, SP!KeepFirst
<1>3. UNCHANGED Service!vars => UNCHANGED SP!vars
  BY DEF Service!vars, SP!vars
<1>4. \A t \in Tasks : Service!Hit(t) => SP!Hit(t)
  BY DEF Service!Hit, SP!Hit
<1>5. \A t \in Tasks : Service!Call(t) => SP!Call(t)
  BY DEF Service!Call, SP!Call, Service!Cardinality, SP!Cardinality
<1>6. \A t \in Tasks : Service!Return(t) => SP!Return(t)
  BY DEF Service!Return, SP!Return
<1>7. \A t \in Tasks : /\ Service!GiveUp(t) => SP!GiveUp(t)
                       /\ Service!ReturnUncached(t) => SP!ReturnUncached(t)
  BY DEF Service!GiveUp, SP!GiveUp, Service!ReturnUncached, SP!ReturnUncached
<1>8. \A t \in Tasks : Service!Deliver(t) => SP!Deliver(t)
  BY <1>2 DEF Service!Deliver, SP!Deliver
<1>9. \A t \in Tasks : Service!Lose(t) => SP!Lose(t)
  BY <1>2 DEF Service!Lose, SP!Lose
<1>10. \A k \in Keys : Service!Expire(k) => SP!Expire(k)
  BY DEF Service!Expire, SP!Expire
<1>11. Service!Next => SP!Next
  BY <1>4, <1>5, <1>6, <1>7, <1>8, <1>9, <1>10 DEF Service!Next, SP!Next
<1>12. SP!CallsBounded => Service!CallsBounded
  BY DEF SP!CallsBounded, Service!CallsBounded, Service!Cardinality, SP!Cardinality
<1>13. SP!AnswersBelong => Service!AnswersBelong
  BY DEF SP!AnswersBelong, Service!AnswersBelong, SP!AnswerTo, Service!AnswerTo
<1>. QED  BY <1>1, <1>3, <1>11, <1>12, <1>13

(* Every answer process_ticket returns or caches comes from a call that    *)
(* was made for a ticket with the same key; a ticket costs at most         *)
(* max_retries calls, at most max_concurrent_api_calls run at once, and    *)
(* what is decided of a ticket or stored in the cache stays.               *)
THEOREM CallerKeepsItsPromises ==
  Spec => /\ [](Service!CallsBounded /\ AnswersBelong)
          /\ Service!VerdictsFinal
          /\ Service!FirstAnswerKept
<1>1. Init => SP!Init
  BY InitImplements, SameContract
<1>2. IInv /\ [Next]_vars => [SP!Next]_(SP!vars)
  BY StepImplements, SameContract
<1>3. SP!Bounded
  BY CallerAssumption DEF SP!Bounded, SP!IsFiniteSet, IsFiniteSet
<1>4. Spec => SP!Spec
  BY <1>1, <1>2, Invariant, PTL DEF Spec, SP!Spec
<1>5. Spec => [](Service!CallsBounded /\ AnswersBelong)
  BY <1>3, <1>4, SP!Promised, SameContract, PTL DEF AnswersBelong
<1>6. Spec => Service!VerdictsFinal
  <2>1. SP!Spec => SP!VerdictsFinal
    BY <1>3, SP!Final
  <2>2. SP!VerdictsFinal => Service!VerdictsFinal
    BY PTL DEF SP!VerdictsFinal, Service!VerdictsFinal, SP!vars, Service!vars
  <2>. QED  BY <1>4, <2>1, <2>2
<1>7. Spec => Service!FirstAnswerKept
  <2>1. SP!Spec => SP!FirstAnswerKept
    BY <1>3, SP!FirstKept
  <2>2. SP!FirstAnswerKept => Service!FirstAnswerKept
    BY PTL DEF SP!FirstAnswerKept, Service!FirstAnswerKept, SP!vars, Service!vars
  <2>. QED  BY <1>4, <2>1, <2>2
<1>. QED  BY <1>5, <1>6, <1>7
=============================================================================
