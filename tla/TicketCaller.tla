----------------------------- MODULE TicketCaller -----------------------------
(***************************************************************************)
(* SarvamCaller.process_ticket of pipeline/caller.py: the deduplication    *)
(* cache, the global semaphore, the retry loop and the throttle, composed  *)
(* with the circuit breaker every attempt goes through.                    *)
(*                                                                         *)
(* A task is one process_ticket coroutine.  It really suspends in a Redis  *)
(* command, in the queues of the semaphore, the probe lock and the         *)
(* throttle's lock, in the API call and in asyncio.sleep.  "attempt" is    *)
(* the head of the for loop, which is reached and left without a           *)
(* suspension: while a task is there, only that task runs (Running), so    *)
(* the two actions around it are one to everybody else.                    *)
(*                                                                         *)
(* A classification is represented by the task whose API call produced it. *)
(***************************************************************************)
EXTENDS Integers, Sequences, FiniteSets

CONSTANTS
  Tasks,            \* one process_ticket coroutine per ticket
  Keys,             \* cache keys: hashes of normalised tickets
  Key,              \* the key of each task's ticket
  NoAnswer,         \* no classification
  MaxConcurrent,    \* max_concurrent_api_calls
  MaxRetries,       \* max_retries
  MinInterval,      \* sarvam_min_interval_ms, 0 for no throttle
  CbEnabled,        \* cb_enabled
  FailureThreshold, WindowSeconds, RecoveryTimeout  \* of the breaker

ASSUME CallerAssumption ==
  /\ IsFiniteSet(Tasks)
  /\ Key \in [Tasks -> Keys]
  /\ NoAnswer \notin Tasks
  /\ MaxConcurrent \in Nat \ {0}
  /\ MaxRetries \in Nat \ {0}
  /\ MinInterval \in Nat
  /\ CbEnabled \in BOOLEAN
  /\ FailureThreshold \in Nat \ {0}
  /\ WindowSeconds \in Nat \ {0}
  /\ RecoveryTimeout \in Nat \ {0}

VARIABLES
  at,        \* where each task is suspended
  attempt,   \* the loop variable of _call_with_retry, 0 before the loop
  answer,    \* the classification the task holds
  error,     \* the "error" of the task's result, or the exception it raised
  cache,     \* Redis: the cached classification of each key
  permits,   \* semaphore._value
  semQueue,  \* semaphore._waiters, the already granted ones first
  throttle,  \* [locked, queue, wait, age]: _rate_limit_lock, the rest of its
             \* holder's sleep, and the age of _last_call_ts
  cb, locked, waiters, pc   \* the circuit breaker's

CB == INSTANCE CircuitBreaker WITH Callers <- Tasks

taskVars    == <<at, attempt, answer, error>>
semVars     == <<permits, semQueue>>
breakerVars == <<cb, locked, waiters, pc>>
vars == <<taskVars, cache, semVars, throttle, breakerVars>>

Places == {"start", "missed", "queued", "granted", "attempt", "behind_probe",
           "throttled", "pacing", "calling", "backoff", "storing", "done"}
Errors == {"none", "circuit_breaker_open", "http_status",
           "max_retries_exceeded", "exception", "reported"}

Init ==
  /\ at = [t \in Tasks |-> "start"]
  /\ attempt = [t \in Tasks |-> 0]
  /\ answer = [t \in Tasks |-> NoAnswer]
  /\ error = [t \in Tasks |-> "none"]
  /\ cache = [k \in Keys |-> NoAnswer]
  /\ permits = MaxConcurrent
  /\ semQueue = <<>>
  /\ throttle = [locked |-> FALSE, queue |-> <<>>, wait |-> 0,
                 age |-> MinInterval]
  /\ CB!Init

Running == {t \in Tasks : at[t] = "attempt"}
Idle == Running = {}     \* the event loop picks any coroutine that is ready

-----------------------------------------------------------------------------
(* The asyncio.Semaphore.                                                  *)

Ungranted == {i \in DOMAIN semQueue : at[semQueue[i]] = "queued"}
NextInLine == semQueue[CHOOSE i \in Ungranted : \A j \in Ungranted : i <= j]

(* _wake_up_next, by a task that moves on: grants a permit of those
   available to the first waiter that has none. *)
WakeUpNext(t, where, available) ==
  IF available > 0 /\ Ungranted # {}
  THEN /\ permits' = available - 1
       /\ at' = [at EXCEPT ![t] = where, ![NextInLine] = "granted"]
  ELSE /\ permits' = available
       /\ at' = [at EXCEPT ![t] = where]

(* release() *)
ReleaseSlot(t, where) ==
  /\ WakeUpNext(t, where, permits + 1)
  /\ UNCHANGED semQueue

(* acquire() without waiting: a permit is left and nobody is queued. *)
TakeSlot(t) ==
  /\ Idle
  /\ at[t] = "missed" /\ permits > 0 /\ semQueue = <<>>
  /\ permits' = permits - 1
  /\ at' = [at EXCEPT ![t] = "attempt"]
  /\ attempt' = [attempt EXCEPT ![t] = 1]
  /\ UNCHANGED <<answer, error, cache, semQueue, throttle, breakerVars>>

(* acquire() of a semaphore that is locked(). *)
WaitForSlot(t) ==
  /\ Idle
  /\ at[t] = "missed" /\ ~(permits > 0 /\ semQueue = <<>>)
  /\ semQueue' = Append(semQueue, t)
  /\ at' = [at EXCEPT ![t] = "queued"]
  /\ UNCHANGED <<attempt, answer, error, cache, permits, throttle, breakerVars>>

(* Mutated form of EnterWithGrant: acquire() returns without passing on a
   permit that was released while it was the only waiter. *)
EnterWithoutWaking(t) ==
  /\ Idle
  /\ at[t] = "granted" /\ t = Head(semQueue)
  /\ semQueue' = Tail(semQueue)
  /\ at' = [at EXCEPT ![t] = "attempt"]
  /\ attempt' = [attempt EXCEPT ![t] = 1]
  /\ UNCHANGED <<permits, answer, error, cache, throttle, breakerVars>>

(* acquire() resumed: leave the queue and pass on a permit nobody took,
   because later arrivals queued behind this waiter. *)
EnterWithGrant(t) ==
  /\ Idle
  /\ at[t] = "granted" /\ t = Head(semQueue)
  /\ semQueue' = Tail(semQueue)
  /\ WakeUpNext(t, "attempt", permits)
  /\ attempt' = [attempt EXCEPT ![t] = 1]
  /\ UNCHANGED <<answer, error, cache, throttle, breakerVars>>

-----------------------------------------------------------------------------
(* process_ticket before the semaphore: DeduplicationCache.get.            *)

(* Mutated form of ReadHit: a miss is not told from a hit. *)
ReadHitUnchecked(t) ==
  /\ Idle
  /\ at[t] = "start"
  /\ at' = [at EXCEPT ![t] = "done"]
  /\ answer' = [answer EXCEPT ![t] = cache[Key[t]]]
  /\ UNCHANGED <<attempt, error, cache, semVars, throttle, breakerVars>>

ReadHit(t) ==
  /\ Idle
  /\ at[t] = "start" /\ cache[Key[t]] # NoAnswer
  /\ at' = [at EXCEPT ![t] = "done"]
  /\ answer' = [answer EXCEPT ![t] = cache[Key[t]]]
  /\ UNCHANGED <<attempt, error, cache, semVars, throttle, breakerVars>>

ReadMiss(t) ==
  /\ Idle
  /\ at[t] = "start" /\ cache[Key[t]] = NoAnswer
  /\ at' = [at EXCEPT ![t] = "missed"]
  /\ UNCHANGED <<attempt, answer, error, cache, semVars, throttle, breakerVars>>

(* A Redis error leaves process_ticket; process_batch reports it. *)
ReadError(t) ==
  /\ Idle
  /\ at[t] = "start"
  /\ at' = [at EXCEPT ![t] = "done"]
  /\ error' = [error EXCEPT ![t] = "exception"]
  /\ UNCHANGED <<attempt, answer, cache, semVars, throttle, breakerVars>>

-----------------------------------------------------------------------------
(* _single_api_call before the request: the throttle, whose lock is held   *)
(* through the sleep.  With MinInterval = 0 nobody is ever held up.        *)

CallUnchanged == UNCHANGED <<attempt, answer, error, cache, semVars>>

(* Mutated form of Pass: the lock is not released. *)
PassLocked(t, q) ==
  /\ throttle' = [throttle EXCEPT !.queue = q, !.wait = 0, !.age = 0]
  /\ at' = [at EXCEPT ![t] = "calling"]

(* Stamp the time, release the lock and send the request. *)
Pass(t, q) ==
  /\ throttle' = [throttle EXCEPT !.locked = FALSE, !.queue = q, !.wait = 0, !.age = 0]
  /\ at' = [at EXCEPT ![t] = "calling"]

(* Mutated form of Sleep: the lock is not held through it. *)
SleepUnlocked(t, q) ==
  /\ throttle' = [throttle EXCEPT !.queue = q, !.wait = MinInterval - throttle.age]
  /\ at' = [at EXCEPT ![t] = "pacing"]

Sleep(t, q) ==
  /\ throttle' = [throttle EXCEPT !.locked = TRUE, !.queue = q,
                                  !.wait = MinInterval - throttle.age]
  /\ at' = [at EXCEPT ![t] = "pacing"]

(* With the lock: sleep for what is left of the interval. *)
Pace(t, q) == IF throttle.age < MinInterval THEN Sleep(t, q) ELSE Pass(t, q)

EnterThrottle(t) ==
  /\ IF throttle.locked \/ throttle.queue # <<>>
     THEN /\ throttle' = [throttle EXCEPT !.queue = Append(@, t)]
          /\ at' = [at EXCEPT ![t] = "throttled"]
     ELSE Pace(t, <<>>)
  /\ CallUnchanged

ObtainThrottle(t) ==
  /\ Idle
  /\ at[t] = "throttled" /\ ~throttle.locked /\ t = Head(throttle.queue)
  /\ Pace(t, Tail(throttle.queue))
  /\ CallUnchanged /\ UNCHANGED breakerVars

EndSleep(t) ==
  /\ Idle
  /\ at[t] = "pacing" /\ throttle.wait = 0
  /\ Pass(t, throttle.queue)
  /\ CallUnchanged /\ UNCHANGED breakerVars

-----------------------------------------------------------------------------
(* _call_with_retry: one iteration of its loop.                            *)

(* Mutated form of Settle: the permit is kept when the loop is left. *)
SettleKeepingSlot(t, e) ==
  /\ error' = [error EXCEPT ![t] = e]
  /\ at' = [at EXCEPT ![t] = "done"]
  /\ UNCHANGED <<attempt, answer, cache, semVars, throttle>>

(* The loop is left with a failure, returned or raised, which releases the
   semaphore; nothing is cached. *)
Settle(t, e) ==
  /\ error' = [error EXCEPT ![t] = e]
  /\ ReleaseSlot(t, "done")
  /\ UNCHANGED <<attempt, answer, cache, throttle>>

StartCall(t) ==
  /\ at[t] = "attempt"
  /\ IF CbEnabled THEN CB!Admit(t) \/ CB!Probe(t) ELSE UNCHANGED breakerVars
  /\ EnterThrottle(t)

StartRejected(t) ==
  /\ at[t] = "attempt" /\ CbEnabled
  /\ CB!Reject(t)
  /\ Settle(t, "circuit_breaker_open")

WaitBehindProbe(t) ==
  /\ at[t] = "attempt" /\ CbEnabled
  /\ CB!QueueForProbe(t)
  /\ at' = [at EXCEPT ![t] = "behind_probe"]
  /\ CallUnchanged /\ UNCHANGED throttle

(* Granted the probe lock after waiting for it. *)
StartLate(t) ==
  /\ Idle
  /\ CB!WakeToProbe(t) \/ CB!WakeToExecute(t)
  /\ EnterThrottle(t)

RejectedLate(t) ==
  /\ Idle
  /\ CB!WakeToReject(t)
  /\ Settle(t, "circuit_breaker_open")

(* Mutated form of RetryOrGiveUp: one attempt too many. *)
RetryOnceMore(t) ==
  \/ /\ attempt[t] <= MaxRetries
     /\ at' = [at EXCEPT ![t] = "backoff"]
     /\ CallUnchanged /\ UNCHANGED throttle
  \/ /\ attempt[t] > MaxRetries
     /\ Settle(t, "max_retries_exceeded")

(* Sleep before the next attempt, or give up after the last one. *)
RetryOrGiveUp(t) ==
  \/ /\ attempt[t] < MaxRetries
     /\ at' = [at EXCEPT ![t] = "backoff"]
     /\ CallUnchanged /\ UNCHANGED throttle
  \/ /\ attempt[t] = MaxRetries
     /\ Settle(t, "max_retries_exceeded")

(* What the breaker, if there is one, makes of the call's end. *)
CallSucceeds(t) == IF CbEnabled THEN CB!Succeed(t) ELSE UNCHANGED breakerVars
CallFails(t)    == IF CbEnabled THEN CB!Fail(t) ELSE UNCHANGED breakerVars

(* The model's answer is an object: leave the semaphore with it. *)
LeaveAnswered(t, where) ==
  /\ answer' = [answer EXCEPT ![t] = t]
  /\ ReleaseSlot(t, where)
  /\ UNCHANGED <<attempt, error, cache, throttle>>

(* It is to be cached. *)
Answered(t) == CallSucceeds(t) /\ LeaveAnswered(t, "storing")

(* The object has an "error" of its own, which keeps it out of the cache;
   the job counts the ticket as failed unless that error is falsy. *)
AnsweredWithError(t) ==
  /\ CallSucceeds(t)
  /\ Settle(t, "reported") \/ LeaveAnswered(t, "done")

(* Valid JSON that is not an object: the breaker has recorded a success
   when {**result} raises TypeError. *)
NotAnObject(t) == CallSucceeds(t) /\ RetryOrGiveUp(t)

(* 500, 503, 429 without Retry-After or with a number of seconds, malformed
   JSON, and httpx's own errors. *)
Retryable(t) == CallFails(t) /\ RetryOrGiveUp(t)

(* 429 whose Retry-After is a date: float() raises inside the handler, so
   the exception leaves the loop. *)
RetryAfterDate(t) ==
  /\ CallFails(t)
  /\ IF attempt[t] < MaxRetries
     THEN Settle(t, "exception")
     ELSE Settle(t, "max_retries_exceeded")

(* 400, 401, 403, 422 *)
Fatal(t) == CallFails(t) /\ Settle(t, "http_status")

(* Any other status: the handler falls through to the next iteration. *)
OtherStatus(t) ==
  /\ CallFails(t)
  /\ \/ /\ attempt[t] < MaxRetries
        /\ attempt' = [attempt EXCEPT ![t] = @ + 1]
        /\ at' = [at EXCEPT ![t] = "attempt"]
        /\ UNCHANGED <<answer, error, cache, semVars, throttle>>
     \/ /\ attempt[t] = MaxRetries
        /\ Settle(t, "max_retries_exceeded")

Respond(t) ==
  /\ Idle /\ at[t] = "calling"
  /\ \/ Answered(t) \/ AnsweredWithError(t) \/ NotAnObject(t) \/ Retryable(t)
     \/ RetryAfterDate(t) \/ Fatal(t) \/ OtherStatus(t)

(* Mutated form of EndBackoff: the attempt is not counted. *)
EndBackoffUncounted(t) ==
  /\ Idle
  /\ at[t] = "backoff"
  /\ at' = [at EXCEPT ![t] = "attempt"]
  /\ UNCHANGED <<attempt, answer, error, cache, semVars, throttle, breakerVars>>

EndBackoff(t) ==
  /\ Idle
  /\ at[t] = "backoff"
  /\ attempt' = [attempt EXCEPT ![t] = @ + 1]
  /\ at' = [at EXCEPT ![t] = "attempt"]
  /\ UNCHANGED <<answer, error, cache, semVars, throttle, breakerVars>>

-----------------------------------------------------------------------------
(* DeduplicationCache.set: SET NX EX.                                      *)

(* Mutated form of SetIfAbsent: without NX. *)
SetAlways(t) == [cache EXCEPT ![Key[t]] = answer[t]]

SetIfAbsent(t) ==
  IF cache[Key[t]] = NoAnswer
  THEN [cache EXCEPT ![Key[t]] = answer[t]]
  ELSE cache

Store(t) ==
  /\ Idle
  /\ at[t] = "storing"
  /\ cache' = SetIfAbsent(t)
  /\ at' = [at EXCEPT ![t] = "done"]
  /\ UNCHANGED <<attempt, answer, error, semVars, throttle, breakerVars>>

(* A Redis error, before or after the command took effect: the answer that
   was paid for is dropped and process_batch reports a failure. *)
StoreError(t) ==
  /\ Idle
  /\ at[t] = "storing"
  /\ cache' \in {cache, SetIfAbsent(t)}
  /\ at' = [at EXCEPT ![t] = "done"]
  /\ answer' = [answer EXCEPT ![t] = NoAnswer]
  /\ error' = [error EXCEPT ![t] = "exception"]
  /\ UNCHANGED <<attempt, semVars, throttle, breakerVars>>

(* The entry's dedup_ttl_seconds are over. *)
Expire(k) ==
  /\ Idle
  /\ cache[k] # NoAnswer
  /\ cache' = [cache EXCEPT ![k] = NoAnswer]
  /\ UNCHANGED <<taskVars, semVars, throttle, breakerVars>>

Tick ==
  /\ Idle
  /\ CB!Tick
  /\ throttle' = [throttle EXCEPT !.wait = IF @ > 0 THEN @ - 1 ELSE 0,
                                  !.age = CB!Older(@, MinInterval)]
  /\ UNCHANGED <<taskVars, cache, semVars>>

-----------------------------------------------------------------------------
Lookup(t)  == ReadHit(t) \/ ReadMiss(t) \/ ReadError(t)
Acquire(t) == TakeSlot(t) \/ WaitForSlot(t) \/ EnterWithGrant(t)
Attempt(t) ==
  \/ StartCall(t) \/ StartRejected(t) \/ WaitBehindProbe(t) \/ StartLate(t)
  \/ RejectedLate(t) \/ ObtainThrottle(t) \/ EndSleep(t)
Finish(t)  == Store(t) \/ StoreError(t)

TaskStep(t) ==
  \/ Lookup(t) \/ Acquire(t) \/ Attempt(t) \/ Respond(t) \/ EndBackoff(t)
  \/ Finish(t)

Next ==
  \/ \E t \in Tasks : TaskStep(t)
  \/ \E k \in Keys : Expire(k)
  \/ Tick

Spec == Init /\ [][Next]_vars

(* Redis answers or fails, httpx bounds every phase of a request, sleeps
   end: as long as some coroutine can go on, the event loop goes on with one.
   Nothing is assumed of which: the steps of a task are bounded.  Time goes
   on. *)
Fairness == WF_vars(\E t \in Tasks : TaskStep(t)) /\ WF_vars(Tick)

FairSpec == Spec /\ Fairness

-----------------------------------------------------------------------------
(* Types of the caller's own state; the breaker has its own invariant.     *)
TypeOK ==
  /\ at \in [Tasks -> Places]
  /\ attempt \in [Tasks -> 0 .. MaxRetries]
  /\ answer \in [Tasks -> Tasks \cup {NoAnswer}]
  /\ error \in [Tasks -> Errors]
  /\ cache \in [Keys -> Tasks \cup {NoAnswer}]
  /\ permits \in 0 .. MaxConcurrent
  /\ semQueue \in Seq(Tasks)
  /\ throttle \in [locked : BOOLEAN, queue : Seq(Tasks), wait : 0 .. MinInterval,
                   age : 0 .. MinInterval]
  /\ CB!TypeOK

(* Every permit is either free or held by exactly one task between its     *)
(* grant and its return, whichever way the retry loop is left: a permit    *)
(* lost or returned twice would shrink or lift the cap for good.           *)
InCall == {"throttled", "pacing", "calling"}
Holders ==
  {t \in Tasks : at[t] \in {"granted", "attempt", "behind_probe", "backoff"} \cup InCall}
PermitsConserved == permits + Cardinality(Holders) = MaxConcurrent

(* A free permit and a waiter without one exist together only while a      *)
(* waiter that will pass the permit on is about to resume.                 *)
NoWaiterForgotten ==
  permits > 0 /\ Ungranted # {} => \E t \in Tasks : at[t] = "granted"

(* Requests leave the worker MinInterval apart, whoever sleeps, whoever    *)
(* queues behind the sleeper, and however late a sleeper wakes.            *)
CallsAreSpaced ==
  [][\A t \in Tasks :
       at[t] # "calling" /\ at'[t] = "calling" => throttle.age = MinInterval]_vars

(* The caller implements the contract of TicketService.                    *)
Outcome(t) ==
  CASE error[t] # "none"      -> "failed"
    [] at[t] = "storing"      -> "ready"
    [] at[t] = "done" /\ error[t] = "none" -> "answered"
    [] OTHER                  -> "pending"
Started(t) ==
  IF \/ at[t] \in {"attempt", "behind_probe", "throttled", "pacing"}
     \/ error[t] = "circuit_breaker_open"
  THEN attempt[t] - 1
  ELSE attempt[t]
Service == INSTANCE TicketService WITH
  calls    <- [t \in Tasks |-> Started(t)],
  inFlight <- {t \in Tasks : at[t] = "calling"},
  outcome  <- [t \in Tasks |-> Outcome(t)],
  answer   <- [t \in Tasks |-> IF at[t] = "done" THEN answer[t] ELSE NoAnswer]
ImplementsService == Service!Spec

(* No ticket is answered, and nothing is cached, but with the result of a  *)
(* call that was made for a ticket with the same key: not by the waits     *)
(* between the cache's get and its set, nor by calls that never started.   *)
AnswersBelong == Service!AnswersBelong

(* All tickets get a result, so the gather of process_batch returns: no    *)
(* interleaving of the semaphore's queue, the probe lock, the retries and  *)
(* Redis failures leaves one waiting.                                      *)
EveryTicketAnswered == <>(\A t \in Tasks : at[t] = "done")

-----------------------------------------------------------------------------
(* The inductive invariant behind the safety theorems.                     *)

(* A queue holds exactly the given tasks, each of them once.               *)
IsQueueOf(q, tasks) ==
  /\ {q[i] : i \in DOMAIN q} = tasks
  /\ \A i, j \in DOMAIN q : q[i] = q[j] => i = j

(* The semaphore's queue holds the tasks that wait for a permit and those  *)
(* that have been granted one and not resumed.                             *)
SemQueueAgrees ==
  IsQueueOf(semQueue, {t \in Tasks : at[t] \in {"queued", "granted"}})

(* Where a task is says how far its loop and its result are.               *)
TaskAgrees(t) ==
  /\ at[t] \in {"start", "missed", "queued", "granted"} => attempt[t] = 0
  /\ at[t] \in {"attempt", "behind_probe", "backoff", "storing"} \cup InCall
       => attempt[t] > 0
  /\ at[t] = "backoff" => attempt[t] < MaxRetries
  /\ at[t] # "done" => error[t] = "none"
  /\ at[t] = "storing" => answer[t] = t
  /\ at[t] # "storing" /\ answer[t] # NoAnswer => at[t] = "done" /\ error[t] = "none"
TasksAgree == \A t \in Tasks : TaskAgrees(t)

(* The throttle's lock is held by the one task that sleeps under it, which *)
(* wakes when the interval is over and not before.                         *)
ThrottleAgrees ==
  /\ throttle.locked <=> \E t \in Tasks : at[t] = "pacing"
  /\ \A t, u \in Tasks : at[t] = "pacing" /\ at[u] = "pacing" => t = u
  /\ throttle.locked => throttle.wait + throttle.age = MinInterval
  /\ IsQueueOf(throttle.queue, {t \in Tasks : at[t] = "throttled"})

(* A task that is inside call() is where the breaker's module has it.      *)
BreakerAgrees ==
  CbEnabled => \A t \in Tasks :
    /\ at[t] = "behind_probe" <=> pc[t] = "waiting"
    /\ at[t] \in InCall <=> pc[t] \in CB!InFlightPCs

(* Without a breaker nobody waits for its probe.                           *)
BreakerUnused ==
  ~CbEnabled => waiters = <<>> /\ \A t \in Tasks : at[t] # "behind_probe"

IInv ==
  /\ TypeOK
  /\ CB!IInv
  /\ SemQueueAgrees
  /\ PermitsConserved
  /\ NoWaiterForgotten
  /\ TasksAgree
  /\ ThrottleAgrees
  /\ BreakerAgrees
  /\ BreakerUnused

-----------------------------------------------------------------------------
(* What the documentation says and the code does not do.                   *)

(* "Errors eligible for retry" (429 among them): a 429 answered before the *)
(* last attempt is followed by another attempt.                            *)
RateLimitedIsRetried ==
  [][\A t \in Tasks :
       RetryAfterDate(t) /\ attempt[t] < MaxRetries => at'[t] # "done"]_vars
=============================================================================
