---------------------------- MODULE TicketService ----------------------------
(***************************************************************************)
(* What pipeline/caller.py promises to the jobs that use it, whatever the  *)
(* breaker, the semaphore and the retry loop do inside: every ticket ends  *)
(* answered or failed, is answered from the cache or by its own API call,  *)
(* costs at most MaxRetries API calls, never adds to more than             *)
(* MaxConcurrent calls at once, and never replaces a cached answer.        *)
(* TicketCaller is shown to implement it.                                  *)
(***************************************************************************)
EXTENDS Naturals, FiniteSets

CONSTANTS
  Tasks,          \* one process_ticket coroutine per ticket
  Keys,           \* cache keys: hashes of normalised tickets
  Key,            \* the key of each task's ticket
  NoAnswer,       \* no classification
  MaxConcurrent,  \* max_concurrent_api_calls
  MaxRetries      \* max_retries

VARIABLES
  calls,     \* how many API calls each ticket has cost
  inFlight,  \* the tickets whose API call is running
  outcome,   \* "pending", "ready" (to be cached), "answered" or "failed"
  answer,    \* whose API call produced the ticket's answer
  cache      \* whose API call produced the cached answer of each key

vars == <<calls, inFlight, outcome, answer, cache>>

Init ==
  /\ calls = [t \in Tasks |-> 0]
  /\ inFlight = {}
  /\ outcome = [t \in Tasks |-> "pending"]
  /\ answer = [t \in Tasks |-> NoAnswer]
  /\ cache = [k \in Keys |-> NoAnswer]

(* The cached classification answers the ticket without a call. *)
Hit(t) ==
  /\ outcome[t] = "pending" /\ calls[t] = 0
  /\ cache[Key[t]] # NoAnswer
  /\ outcome' = [outcome EXCEPT ![t] = "answered"]
  /\ answer' = [answer EXCEPT ![t] = cache[Key[t]]]
  /\ UNCHANGED <<calls, inFlight, cache>>

Call(t) ==
  /\ outcome[t] = "pending" /\ t \notin inFlight
  /\ calls[t] < MaxRetries
  /\ Cardinality(inFlight) < MaxConcurrent
  /\ calls' = [calls EXCEPT ![t] = @ + 1]
  /\ inFlight' = inFlight \cup {t}
  /\ UNCHANGED <<outcome, answer, cache>>

(* The call ends with an answer, with a reason to try again or for good. *)
Return(t) ==
  /\ t \in inFlight
  /\ inFlight' = inFlight \ {t}
  /\ \E o \in {"pending", "ready", "failed"} : outcome' = [outcome EXCEPT ![t] = o]
  /\ UNCHANGED <<calls, answer, cache>>

(* The call ends with an answer that is not to be cached. *)
ReturnUncached(t) ==
  /\ t \in inFlight
  /\ inFlight' = inFlight \ {t}
  /\ outcome' = [outcome EXCEPT ![t] = "answered"]
  /\ answer' = [answer EXCEPT ![t] = t]
  /\ UNCHANGED <<calls, cache>>

GiveUp(t) ==
  /\ outcome[t] = "pending" /\ t \notin inFlight
  /\ outcome' = [outcome EXCEPT ![t] = "failed"]
  /\ UNCHANGED <<calls, inFlight, answer, cache>>

(* The first answer of a key is the one that is kept. *)
KeepFirst(t) ==
  IF cache[Key[t]] = NoAnswer THEN [cache EXCEPT ![Key[t]] = t] ELSE cache

Deliver(t) ==
  /\ outcome[t] = "ready"
  /\ outcome' = [outcome EXCEPT ![t] = "answered"]
  /\ answer' = [answer EXCEPT ![t] = t]
  /\ cache' = KeepFirst(t)
  /\ UNCHANGED <<calls, inFlight>>

(* Redis failed: the ticket fails although its answer may be cached. *)
Lose(t) ==
  /\ outcome[t] = "ready"
  /\ outcome' = [outcome EXCEPT ![t] = "failed"]
  /\ cache' \in {cache, KeepFirst(t)}
  /\ UNCHANGED <<calls, inFlight, answer>>

Expire(k) ==
  /\ cache' = [cache EXCEPT ![k] = NoAnswer]
  /\ UNCHANGED <<calls, inFlight, outcome, answer>>

Next ==
  \/ \E t \in Tasks :
       \/ Hit(t) \/ Call(t) \/ Return(t) \/ ReturnUncached(t)
       \/ GiveUp(t) \/ Deliver(t) \/ Lose(t)
  \/ \E k \in Keys : Expire(k)

Spec == Init /\ [][Next]_vars

-----------------------------------------------------------------------------
(* What the contract comes to.                                             *)

(* No ticket costs more than MaxRetries calls, and no more than            *)
(* MaxConcurrent run at once.                                              *)
CallsBounded ==
  /\ \A t \in Tasks : calls[t] <= MaxRetries
  /\ Cardinality(inFlight) <= MaxConcurrent

(* A cached answer and that of a ticket come from a call that was made for *)
(* an equal ticket, whoever made it and whatever became of him.            *)
AnswerTo(a, k) == a \in Tasks /\ Key[a] = k /\ calls[a] > 0
AnswersBelong ==
  /\ \A k \in Keys : cache[k] # NoAnswer => AnswerTo(cache[k], k)
  /\ \A t \in Tasks : outcome[t] = "answered" => AnswerTo(answer[t], Key[t])

(* What is decided of a ticket stays so, and it costs no further call.     *)
VerdictsFinal ==
  [][\A t \in Tasks :
       outcome[t] \in {"answered", "failed"} =>
         outcome'[t] = outcome[t] /\ answer'[t] = answer[t] /\ calls'[t] = calls[t]]_vars

(* A cached answer is kept until it expires.                               *)
FirstAnswerKept ==
  [][\A k \in Keys : cache[k] # NoAnswer => cache'[k] \in {cache[k], NoAnswer}]_vars

(* The inductive invariant: a call that runs has been counted, and only a  *)
(* pending ticket has one.                                                 *)
TypeOK ==
  /\ calls \in [Tasks -> Nat]
  /\ inFlight \in SUBSET Tasks
  /\ outcome \in [Tasks -> {"pending", "ready", "answered", "failed"}]
  /\ answer \in [Tasks -> Tasks \cup {NoAnswer}]
  /\ cache \in [Keys -> Tasks \cup {NoAnswer}]
CallsCounted ==
  \A t \in Tasks :
    /\ t \in inFlight => outcome[t] = "pending" /\ calls[t] > 0
    /\ outcome[t] = "ready" => calls[t] > 0
IInv == TypeOK /\ CallsCounted /\ CallsBounded /\ AnswersBelong
=============================================================================
