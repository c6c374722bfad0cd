--------------------------- MODULE CircuitBreaker ---------------------------
(***************************************************************************)
(* The hand-rolled circuit breaker of pipeline/circuit_breaker.py, shared  *)
(* by every coroutine of one worker process.                               *)
(*                                                                         *)
(* The event loop switches coroutines only where one really suspends: in   *)
(* asyncio.Lock.acquire on a taken lock and in the awaited API call.  The  *)
(* helpers _maybe_transition, _on_success, _on_failure and _transition are *)
(* coroutines without a suspension point, so everything between two        *)
(* suspensions is one action here.                                         *)
(*                                                                         *)
(* Time: the code keeps time.monotonic() stamps and only ever subtracts    *)
(* them from the present.  The model keeps the differences: the age of     *)
(* each recorded failure and the time the circuit has been open, which     *)
(* Tick advances and which saturate where no comparison can tell more.     *)
(***************************************************************************)
EXTENDS Integers, Sequences, FiniteSets

CONSTANTS
  Callers,           \* the coroutines that use the breaker
  FailureThreshold,  \* cb_failure_threshold
  WindowSeconds,     \* cb_window_seconds
  RecoveryTimeout    \* cb_recovery_timeout

ASSUME BreakerAssumption ==
  /\ FailureThreshold \in Nat \ {0}
  /\ WindowSeconds \in Nat \ {0}
  /\ RecoveryTimeout \in Nat \ {0}

VARIABLES
  cb,       \* [state, failures, openFor]: _state, ages of
            \* _failure_timestamps (oldest first), time since _opened_at
  locked,   \* _probe_lock._locked
  waiters,  \* _probe_lock._waiters, FIFO
  pc        \* where each caller is suspended inside call()

vars == <<cb, locked, waiters, pc>>

NotOpened == -1      \* _opened_at is None

(* A caller is idle (outside call), waiting for the probe lock, or awaiting
   the API call: executing it from CLOSED without the lock, probing it from
   HALF_OPEN under the lock, or relayed, that is executing it under the lock
   because the circuit was CLOSED again when the lock was obtained. *)
HoldingPCs  == {"probing", "relayed"}
InFlightPCs == {"executing"} \cup HoldingPCs
PCs == {"idle", "waiting"} \cup InFlightPCs

Init ==
  /\ cb = [state |-> "CLOSED", failures |-> <<>>, openFor |-> NotOpened]
  /\ locked = FALSE
  /\ waiters = <<>>
  /\ pc = [c \in Callers |-> "idle"]

-----------------------------------------------------------------------------
(* Pure parts of the handlers, as functions of the breaker record.         *)

(* _evict_old_failures: popleft while the head is older than the window.
   Ages decrease from left to right, so the stale ones are a prefix. *)
Stale(f) == {i \in DOMAIN f : f[i] > WindowSeconds}
EvictOldFailures(f) == SubSeq(f, Cardinality(Stale(f)) + 1, Len(f))

(* Mutated form of Opened: stores the deadline instead of the instant. *)
OpenedAtDeadline(b) == [b EXCEPT !.state = "OPEN", !.openFor = -RecoveryTimeout]
(* Mutated form of Opened: _opened_at is left as it was. *)
OpenedWithoutStamp(b) == [b EXCEPT !.state = "OPEN"]

(* _transition(OPEN) *)
Opened(b) == [b EXCEPT !.state = "OPEN", !.openFor = 0]

(* _maybe_transition: an OPEN circuit whose timeout elapsed is HALF_OPEN. *)
MaybeTransition(b) ==
  IF b.state = "OPEN" /\ b.openFor >= RecoveryTimeout
  THEN [b EXCEPT !.state = "HALF_OPEN"]
  ELSE b

(* Mutated form of OnSuccess: the window is not cleared on recovery. *)
OnSuccessKeepingFailures(b) ==
  IF b.state = "HALF_OPEN"
  THEN [b EXCEPT !.state = "CLOSED", !.openFor = NotOpened]
  ELSE b

(* _on_success, with _transition(CLOSED) *)
OnSuccess(b) ==
  IF b.state = "HALF_OPEN"
  THEN [state |-> "CLOSED", failures |-> <<>>, openFor |-> NotOpened]
  ELSE b

(* Mutated form of OnFailure: a failed probe does not re-open the circuit. *)
OnFailureClosedOnly(b) ==
  LET f == EvictOldFailures(Append(b.failures, 0))
      r == [b EXCEPT !.failures = f]
  IN  IF b.state = "CLOSED" /\ Len(f) >= FailureThreshold THEN Opened(r) ELSE r

(* _on_failure *)
OnFailure(b) ==
  LET f == EvictOldFailures(Append(b.failures, 0))
      r == [b EXCEPT !.failures = f]
  IN  IF \/ b.state = "HALF_OPEN"
         \/ b.state = "CLOSED" /\ Len(f) >= FailureThreshold
      THEN Opened(r)
      ELSE r

-----------------------------------------------------------------------------
(* call(), up to its first suspension or its return.                       *)

Seen == MaybeTransition(cb).state   \* the state call() branches on

(* asyncio.Lock.acquire succeeds at once only if nobody is queued either. *)
LockFree == ~locked /\ waiters = <<>>

(* CLOSED: the API call starts without the lock. *)
Admit(c) ==
  /\ pc[c] = "idle" /\ Seen = "CLOSED"
  /\ pc' = [pc EXCEPT ![c] = "executing"]
  /\ UNCHANGED <<cb, locked, waiters>>

(* OPEN: CircuitBreakerOpenError is raised to the caller. *)
Reject(c) ==
  /\ pc[c] = "idle" /\ Seen = "OPEN"
  /\ UNCHANGED vars

(* HALF_OPEN and the probe lock is free: this caller is the probe. *)
Probe(c) ==
  /\ pc[c] = "idle" /\ Seen = "HALF_OPEN" /\ LockFree
  /\ cb' = MaybeTransition(cb)
  /\ locked' = TRUE
  /\ pc' = [pc EXCEPT ![c] = "probing"]
  /\ UNCHANGED waiters

(* Mutated form of QueueForProbe: a taken lock is not waited for. *)
ProbeAnyway(c) ==
  /\ pc[c] = "idle" /\ Seen = "HALF_OPEN" /\ ~LockFree
  /\ cb' = MaybeTransition(cb)
  /\ pc' = [pc EXCEPT ![c] = "probing"]
  /\ UNCHANGED <<locked, waiters>>

(* HALF_OPEN and the lock is taken: wait for it in FIFO order. *)
QueueForProbe(c) ==
  /\ pc[c] = "idle" /\ Seen = "HALF_OPEN" /\ ~LockFree
  /\ cb' = MaybeTransition(cb)
  /\ waiters' = Append(waiters, c)
  /\ pc' = [pc EXCEPT ![c] = "waiting"]
  /\ UNCHANGED locked

-----------------------------------------------------------------------------
(* _half_open_probe, resumed with the lock.  The state is read again.      *)

Woken(c) == ~locked /\ waiters # <<>> /\ c = Head(waiters)

AcquireAs(c, where) ==
  /\ locked' = TRUE
  /\ waiters' = Tail(waiters)
  /\ pc' = [pc EXCEPT ![c] = where]
  /\ UNCHANGED cb

WakeToProbe(c) == Woken(c) /\ cb.state = "HALF_OPEN" /\ AcquireAs(c, "probing")

WakeToExecute(c) == Woken(c) /\ cb.state = "CLOSED" /\ AcquireAs(c, "relayed")

(* Mutated form of WakeToReject: the state is not read again. *)
WakeWithoutRecheck(c) ==
  Woken(c) /\ cb.state = "OPEN" /\ AcquireAs(c, "probing")

(* Re-opened meanwhile: raise, which releases the lock in the same step. *)
WakeToReject(c) ==
  /\ Woken(c) /\ cb.state = "OPEN"
  /\ waiters' = Tail(waiters)
  /\ pc' = [pc EXCEPT ![c] = "idle"]
  /\ UNCHANGED <<cb, locked>>

-----------------------------------------------------------------------------
(* The API call returns or raises.                                         *)

(* Mutated form of Leave: the lock is not released. *)
LeaveHoldingLock(c) ==
  /\ pc' = [pc EXCEPT ![c] = "idle"]
  /\ UNCHANGED <<locked, waiters>>

(* Leaving call(), and `async with self._probe_lock` if it was entered. *)
Leave(c) ==
  /\ pc' = [pc EXCEPT ![c] = "idle"]
  /\ locked' = (locked /\ pc[c] \notin HoldingPCs)
  /\ UNCHANGED waiters

(* _execute records the outcome; _half_open_probe records it once more. *)
Succeed(c) ==
  /\ pc[c] \in InFlightPCs
  /\ cb' = IF pc[c] = "probing" THEN OnSuccess(OnSuccess(cb)) ELSE OnSuccess(cb)
  /\ Leave(c)

Fail(c) ==
  /\ pc[c] \in InFlightPCs
  /\ cb' = IF pc[c] = "probing" THEN OnFailure(OnFailure(cb)) ELSE OnFailure(cb)
  /\ Leave(c)

(* The failure_count property evicts as it reads. *)
FailureCount ==
  /\ cb' = [cb EXCEPT !.failures = EvictOldFailures(@)]
  /\ UNCHANGED <<locked, waiters, pc>>

(* One second passes. *)
Older(age, cap) == IF age < cap THEN age + 1 ELSE age
Tick ==
  /\ cb' = [cb EXCEPT
       !.failures = [i \in DOMAIN @ |-> Older(@[i], WindowSeconds + 1)],
       !.openFor  = IF @ = NotOpened THEN @ ELSE Older(@, RecoveryTimeout)]
  /\ UNCHANGED <<locked, waiters, pc>>

-----------------------------------------------------------------------------
Enter(c)  == Admit(c) \/ Reject(c) \/ Probe(c) \/ QueueForProbe(c)
Resume(c) == WakeToProbe(c) \/ WakeToExecute(c) \/ WakeToReject(c)
Return(c) == Succeed(c) \/ Fail(c)

Next ==
  \/ \E c \in Callers : Enter(c) \/ Resume(c) \/ Return(c)
  \/ FailureCount
  \/ Tick

Spec == Init /\ [][Next]_vars

(* Awakened coroutines run, API calls end (httpx bounds every phase of a
   request), time passes, and somebody keeps calling a due circuit. *)
Fairness ==
  /\ \A c \in Callers : WF_vars(Resume(c)) /\ WF_vars(Return(c))
  /\ WF_vars(Tick)
  /\ WF_vars(\E c \in Callers : Probe(c) \/ QueueForProbe(c))

FairSpec == Spec /\ Fairness

-----------------------------------------------------------------------------
(* A circuit that is not CLOSED knows when it was opened: without the      *)
(* stamp _maybe_transition would leave it OPEN for ever.                   *)
OpenedIsStamped == cb.state = "CLOSED" <=> cb.openFor = NotOpened

(* Types: the deque, the timers and the lock stay in their ranges, and a   *)
(* circuit carries an opening time exactly when it is not CLOSED.          *)
TypeOK ==
  /\ cb \in [state    : {"CLOSED", "OPEN", "HALF_OPEN"},
             failures : Seq(0 .. WindowSeconds + 1),
             openFor  : {NotOpened} \cup 0 .. RecoveryTimeout]
  /\ locked \in BOOLEAN
  /\ waiters \in Seq(Callers)
  /\ pc \in [Callers -> PCs]
  /\ OpenedIsStamped

(* At most one caller is inside `async with _probe_lock`, so at most one   *)
(* request is let through by a HALF_OPEN circuit (_half_open_probe), and   *)
(* the lock is taken exactly while there is one.                           *)
ProbeExclusive ==
  /\ \A c, d \in Callers :
       pc[c] \in HoldingPCs /\ pc[d] \in HoldingPCs => c = d
  /\ locked <=> \E c \in Callers : pc[c] \in HoldingPCs

(* Every queued caller stands in the lock's queue exactly once, and nobody *)
(* else does: no wake-up is lost or delivered twice.                       *)
QueueConsistent ==
  /\ \A c \in Callers :
       pc[c] = "waiting" <=> \E i \in DOMAIN waiters : waiters[i] = c
  /\ \A i, j \in DOMAIN waiters : waiters[i] = waiters[j] => i = j

(* A CLOSED circuit never sits on a full failure window: whatever stale    *)
(* outcomes arrived, it was opened when the threshold was reached and the  *)
(* failures that opened it are forgotten when it closes.                   *)
ClosedBelowThreshold ==
  cb.state = "CLOSED" => Len(cb.failures) < FailureThreshold

(* A HALF_OPEN circuit always has a request in the lock, or one about to   *)
(* take it, that will decide it; it cannot be left HALF_OPEN and idle.     *)
HalfOpenIsBeingResolved ==
  cb.state = "HALF_OPEN" => locked \/ waiters # <<>>

(* No API call is started by a step that leaves the circuit OPEN, on any   *)
(* of the three paths that start one, the waiter's included, whose state   *)
(* check before the await is stale when the lock arrives.                  *)
Starts(c) == pc[c] \notin InFlightPCs /\ pc'[c] \in InFlightPCs
NoAdmissionWhileOpen ==
  [][\A c \in Callers : Starts(c) => cb'.state # "OPEN"]_vars

(* Every caller queued behind a probe gets its answer, whatever the probe, *)
(* late callers and the callers queued before it do.                       *)
WaiterReturns == \A c \in Callers : pc[c] = "waiting" ~> pc[c] = "idle"

(* When the upstream stops failing, the circuit closes and stays closed.   *)
Recovers ==
  <>[][~\E c \in Callers : Fail(c)]_vars => <>[](cb.state = "CLOSED")

(* The inductive invariant behind the safety theorems. *)
IInv ==
  /\ TypeOK
  /\ ProbeExclusive
  /\ QueueConsistent
  /\ ClosedBelowThreshold
  /\ HalfOpenIsBeingResolved

-----------------------------------------------------------------------------
(* What the documentation says and the code does not do.                   *)

(* "exactly one request through while others are rejected": no other API   *)
(* call starts while a probe is unanswered.                                *)
OneRequestWhileProbing ==
  [][\A p, c \in Callers :
       pc[p] = "probing" /\ pc'[p] = "probing" => ~Starts(c)]_vars

(* "Failures within window before opening circuit": the call whose failure *)
(* opens a CLOSED circuit finds FailureThreshold - 1 earlier failures in   *)
(* the window.                                                             *)
TripNeedsThreshold ==
  [][cb.state = "CLOSED" /\ cb'.state = "OPEN" =>
       Len(EvictOldFailures(cb.failures)) + 1 >= FailureThreshold]_vars
=============================================================================
