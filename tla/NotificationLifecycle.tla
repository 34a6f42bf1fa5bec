----------------------- MODULE NotificationLifecycle -----------------------
(***************************************************************************)
(* What the outbox promises about a notification, with no leases, tokens,  *)
(* workers or clocks: it is announced with its incident and stays open     *)
(* until it is delivered or given up; delivered is final and means that    *)
(* the provider accepted it; the provider may see several copies, at most  *)
(* one for each attempt the system and its operators authorised.           *)
(***************************************************************************)
EXTENDS Integers

CONSTANTS Notifications, InitialQuota, QuotaLimit

VARIABLES stage, quota, accepted

vars == <<stage, quota, accepted>>

Stages == {"none", "open", "delivered", "failed"}

Init ==
  /\ stage = [n \in Notifications |-> "none"]
  /\ quota = [n \in Notifications |-> InitialQuota]
  /\ accepted = [n \in Notifications |-> {}]

Announce ==
  \E S \in SUBSET Notifications :
    /\ \A n \in S : stage[n] = "none"
    /\ stage' = [n \in Notifications |-> IF n \in S THEN "open" ELSE stage[n]]
    /\ UNCHANGED <<quota, accepted>>

\* The provider accepts the copy of one attempt, once; it may come after the
\* notification was closed by a recovery that overtook a slow attempt.
Accept(n) ==
  /\ stage[n] # "none"
  /\ \E attempt \in 1..quota[n] :
       /\ attempt \notin accepted[n]
       /\ accepted' = [accepted EXCEPT ![n] = @ \cup {attempt}]
  /\ UNCHANGED <<stage, quota>>

Deliver(n) ==
  /\ stage[n] = "open" /\ accepted[n] # {}
  /\ stage' = [stage EXCEPT ![n] = "delivered"]
  /\ UNCHANGED <<quota, accepted>>

\* One recovery may give up several notifications at once.
GiveUp ==
  \E S \in SUBSET Notifications :
    /\ \A n \in S : stage[n] = "open"
    /\ stage' = [n \in Notifications |-> IF n \in S THEN "failed" ELSE stage[n]]
    /\ UNCHANGED <<quota, accepted>>

Reopen(n) ==
  /\ stage[n] = "failed"
  /\ \E q \in quota[n]+1..QuotaLimit : quota' = [quota EXCEPT ![n] = q]
  /\ stage' = [stage EXCEPT ![n] = "open"]
  /\ UNCHANGED accepted

Next ==
  \/ Announce \/ GiveUp
  \/ \E n \in Notifications : Accept(n) \/ Deliver(n) \/ Reopen(n)

Spec == Init /\ [][Next]_vars
=============================================================================
