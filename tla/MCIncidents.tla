----------------------------- MODULE MCIncidents -----------------------------
(* Requests with two keys of one server send events of two buckets in opposite *)
(* order, and repeat an event whose first request may still be running.  Two   *)
(* concurrent calls share an idempotency key, a third has one of its own.      *)
EXTENDS Incidents

CONSTANTS a1, a2, a3, b1, b2, A, B, first, second, again, left, right, double, op1, op2

EventSet == {a1, a2, a3, b1, b2}

BucketOf == [e \in EventSet |-> IF e \in {a1, a2, a3} THEN A ELSE B]

OccurredAt == [e \in EventSet |-> CASE e = a1 -> 1 [] e = b2 -> 1 [] e = a3 -> 3 [] OTHER -> 2]

ContentOf == [b \in Batches |->
  CASE b = first -> {a1, b1} [] b = second -> {b2, a2} [] b = again -> {a1, a3}]

KeyOf == [b \in Batches |-> IF b = first THEN 1 ELSE 2]

ScopeOf == [c \in Callers |-> IF c = right THEN op2 ELSE op1]

RequestSet ==
  {[kind |-> "transition", incident |-> 1, to |-> "investigating", expected |-> 1],
   [kind |-> "transition", incident |-> 1, to |-> "resolved", expected |-> 1],
   [kind |-> "transition", incident |-> 1, to |-> "resolved", expected |-> 2],
   [kind |-> "comment", incident |-> 1]}
=============================================================================
