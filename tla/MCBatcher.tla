------------------------------ MODULE MCBatcher ------------------------------
(* An instance of Batcher for TLC: tickets on both sides of the bounds of  *)
(* the classifier, and batch sizes small enough for several batches.  One  *)
(* job has any number of each complexity (which of them makes no           *)
(* difference: the heap yields any); the other has one ticket, and is      *)
(* there to measure between the steps of the first.                        *)
EXTENDS Batcher

CONSTANTS j1, j2

MCTickets == 1 .. 6
MCWordCount == [t \in MCTickets |-> <<1, 10, 14, 60, 61, 200>>[t]]
FirstOfEach ==
  {r \in SUBSET MCTickets :
     \A t \in r : \A u \in 1 .. t : Complexity(u) = Complexity(t) => u \in r}
MCRequests == [j \in Jobs |-> IF j = j1 THEN FirstOfEach ELSE {{6}}]
=============================================================================
