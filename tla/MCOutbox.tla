------------------------------ MODULE MCOutbox ------------------------------
(* Instances of Outbox for TLC. *)
EXTENDS OutboxTimely, TLC

CONSTANTS i1, d1, w1, w2

TwoRanks == {1, 2}
SeverityOne == i1 :> 1
=============================================================================
