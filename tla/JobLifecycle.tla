----------------------------- MODULE JobLifecycle -----------------------------
(***************************************************************************)
(* What a job's clients may rely on (GET /results of api/routes.py), what- *)
(* ever Redis, the POST and the background task do inside: a job that is   *)
(* known by its total accounts for at most that many tickets, reads as     *)
(* done only once it has accounted for all of them, gets its results in    *)
(* the same instant and keeps them while it is known; its status moves     *)
(* forward only, and a failed job stays failed.  Forward ends in failed,   *)
(* not in done: a job whose completion could not be announced turns from   *)
(* done to failed.  Once its key has expired a job may come back without   *)
(* its total, and then promises no more than the order of its statuses.    *)
(* JobPipeline is shown to implement it.                                   *)
(***************************************************************************)
EXTENDS Naturals

CONSTANTS
  Jobs,       \* job ids
  MaxTickets  \* largest request

VARIABLES
  state,  \* status, total and accounted tickets of each job; Unknown if none
  kept    \* whether each job's results can be fetched

vars == <<state, kept>>

Unknown == [status |-> "", total |-> 0, accounted |-> 0]

Init ==
  /\ state = [j \in Jobs |-> Unknown]
  /\ kept = [j \in Jobs |-> FALSE]

Become(j, s) == state' = [state EXCEPT ![j] = s]

Accept(j) ==
  /\ state[j] = Unknown
  /\ \E n \in 1 .. MaxTickets :
       Become(j, [status |-> "pending", total |-> n, accounted |-> 0])
  /\ UNCHANGED kept

Account(j) ==
  /\ state[j].status \notin {"done", "failed"}
  /\ \E a \in state[j].accounted .. MaxTickets :
       /\ state[j].total > 0 => a <= state[j].total
       /\ Become(j, [state[j] EXCEPT !.accounted = a])
  /\ UNCHANGED kept

Start(j) ==
  /\ state[j].status \in {"", "pending"}
  /\ Become(j, [state[j] EXCEPT !.status = "processing"])
  /\ UNCHANGED kept

Complete(j) ==
  /\ state[j].status \in {"", "processing"}
  /\ state[j].total > 0 => state[j].accounted = state[j].total
  /\ Become(j, [state[j] EXCEPT !.status = "done"])
  /\ kept' = [kept EXCEPT ![j] = TRUE]

(* Also of a job that was done: the task failed to announce it. *)
Fail(j) ==
  /\ state[j].status \in {"", "processing", "done"}
  /\ Become(j, [state[j] EXCEPT !.status = "failed"])
  /\ UNCHANGED kept

Forget(j) == Become(j, Unknown) /\ UNCHANGED kept

DropResults(j) ==
  /\ state[j].total = 0
  /\ kept' = [kept EXCEPT ![j] = FALSE]
  /\ UNCHANGED state

Next ==
  \E j \in Jobs :
    \/ Accept(j) \/ Account(j) \/ Start(j) \/ Complete(j) \/ Fail(j)
    \/ Forget(j) \/ DropResults(j)

Spec == Init /\ [][Next]_vars
=============================================================================
