--------------------------- MODULE MCTicketCaller ---------------------------
(* Instances of TicketCaller for TLC: tickets of which t3 has its own key   *)
(* and all others normalise to the same one.                               *)
EXTENDS TicketCaller

CONSTANTS t1, t2, t3, t4, k1, k2

MCKey == [t \in Tasks |-> IF t = t3 THEN k2 ELSE k1]
=============================================================================
