---------------------------- MODULE OutboxTimely ----------------------------
(***************************************************************************)
(* The outbox when every worker keeps the bound that its timings are       *)
(* validated against: lease_seconds > adapter_timeout_seconds, and no      *)
(* worker is suspended between its claim and its completion.               *)
(***************************************************************************)
EXTENDS Outbox

CONSTANT AdapterTicks    \* adapter_timeout_seconds

ASSUME TimelyAssumption == AdapterTicks \in Nat \ {0} /\ AdapterTicks < LeaseTicks

Holding(w) == worker[w].pc \in {"deliver", "complete"}

\* Time does not pass the adapter timeout of a call that is under way.
InTime ==
  \A w \in Workers : Owns(w) => LeaseTicks - row[worker[w].claim].leaseIn < AdapterTicks

TimelyNext == Untimed \/ (InTime /\ Tick)

TimelySpec == Init /\ [][TimelyNext]_vars

\* A worker that answers in time never loses its lease, so no result is
\* dropped and no two live workers send the same notification at once.
NoLeaseLost == \A w \in Workers : Holding(w) => Owns(w)
=============================================================================
