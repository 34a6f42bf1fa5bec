------------------------------- MODULE Outbox -------------------------------
(***************************************************************************)
(* The transactional outbox of the control plane: the rows written when an *)
(* incident is created, the worker processes that claim one row at a time, *)
(* call the provider with no database transaction open and then complete   *)
(* the claim, the recovery of expired leases, the operator's requeue, and  *)
(* the destination settings the claims read.                               *)
(*                                                                         *)
(* One action is one committed transaction or one call to the provider.    *)
(* Timestamps are kept as the time left until they are reached, because    *)
(* the code only ever compares them with the clock.                        *)
(***************************************************************************)
EXTENDS Integers

CONSTANTS
  Incidents,          \* incidents that may be detected
  Destinations,       \* notification destinations, created disabled
  Workers,            \* worker processes (the service and "run-once" calls)
  Ranks,              \* severity ranks
  SeverityOf,         \* the severity rank of each incident
  NoRow,              \* not a row: a worker that holds no claim
  AttemptLimit,       \* largest max_attempts a row may ever have (20)
  InitialAttempts,    \* max_attempts of a new row (5)
  MaxAdditional,      \* largest number of attempts one requeue adds (5)
  LeaseTicks,         \* lease_seconds
  MaxDelay,           \* longest retry delay
  RecoveryTicks       \* recovery_interval_seconds

Rows == Incidents \X Destinations

ASSUME OutboxAssumption ==
  /\ Ranks \subseteq Nat
  /\ SeverityOf \in [Incidents -> Ranks]
  /\ NoRow \notin Rows
  /\ AttemptLimit \in Nat /\ InitialAttempts \in 1..AttemptLimit
  /\ MaxAdditional \in Nat \ {0}
  /\ LeaseTicks \in Nat \ {0} /\ MaxDelay \in Nat \ {0}
  /\ RecoveryTicks \in 1..LeaseTicks

VARIABLES
  destination,  \* enabled flag and minimum severity of each destination
  raised,       \* incidents created so far
  row,          \* outbox_messages
  worker,       \* local state of each worker process
  sent,         \* history: the claims of each row the provider accepted
  claims        \* history: how often each row has been claimed

vars == <<destination, raised, row, worker, sent, claims>>

-----------------------------------------------------------------------------
(* Rows *)

None == -1   \* SQL NULL in a timer column
NoToken == 0 \* SQL NULL in claim_token; tokens are numbered per row from 1

Statuses == {"absent", "pending", "processing", "delivered", "failed"}

\* The error codes, grouped by what the lifecycle tells apart.
Errors == {"none", "destination_disabled", "rejected", "retryable",
           "lease_expired", "attempts_exhausted"}

RowType ==
  [status: Statuses, attempts: Nat, max: Nat, nextIn: Nat \cup {None},
   leaseIn: Nat \cup {None}, token: Nat, error: Errors]

Blank == [status |-> "absent", attempts |-> 0, max |-> InitialAttempts,
          nextIn |-> None, leaseIn |-> None, token |-> NoToken, error |-> "none"]

Release(m, status, nextIn, error) ==
  [status |-> status, attempts |-> m.attempts, max |-> m.max, nextIn |-> nextIn,
   leaseIn |-> None, token |-> NoToken, error |-> error]

Claimed(m, token) ==
  [status |-> "processing", attempts |-> m.attempts + 1, max |-> m.max, nextIn |-> None,
   leaseIn |-> LeaseTicks, token |-> token, error |-> m.error]

Enqueued == Release(Blank, "pending", 0, "none")

Failed(m, error) == Release(m, "failed", None, error)

Delivered(m) == Release(m, "delivered", None, "none")

Exhausted(m) == m.attempts >= m.max

\* Back to the queue after delay, or failed for good when no attempt is left.
Rescheduled(m, delay, error) ==
  IF Exhausted(m) THEN Failed(m, "attempts_exhausted")
                  ELSE Release(m, "pending", delay, error)

\* Fault: recovery takes every claim, expired or not.
RecoveredEarly(m) ==
  IF m.status = "processing" THEN Rescheduled(m, 0, "lease_expired") ELSE m

Recovered(m) ==
  IF m.status = "processing" /\ m.leaseIn = 0
  THEN Rescheduled(m, 0, "lease_expired")
  ELSE m

RecoverExpiredClaims == row' = [r \in Rows |-> Recovered(row[r])]

Claimable(m) == m.status = "pending" /\ m.nextIn = 0 /\ m.attempts < m.max

-----------------------------------------------------------------------------
(* Workers *)

Dispositions == {"delivered", "retryable", "permanent"}

PCs == {"down", "loop", "claim", "deliver", "complete"}

WorkerType ==
  [pc: PCs, claim: Rows \cup {NoRow}, token: Nat,
   result: Dispositions \cup {"none"}, recoverIn: 0..RecoveryTicks]

\* A worker that holds no claim, and one that holds row r by its token.
Free(pc, recoverIn) == [pc |-> pc, claim |-> NoRow, token |-> NoToken,
                        result |-> "none", recoverIn |-> recoverIn]

Holder(u, pc, r, token, result) ==
  [pc |-> pc, claim |-> r, token |-> token, result |-> result, recoverIn |-> u.recoverIn]

\* Fault: a completion that checks the status but not the token.
OwnsByStatus(w) == /\ worker[w].claim \in Rows
                   /\ row[worker[w].claim].status = "processing"

\* The row still carries the token this worker claimed it with.
Owns(w) == /\ worker[w].claim \in Rows
           /\ row[worker[w].claim].status = "processing"
           /\ row[worker[w].claim].token = worker[w].token

Init ==
  /\ destination \in [Destinations -> [enabled: {FALSE}, minimum: Ranks]]
  /\ raised = {}
  /\ row = [r \in Rows |-> Blank]
  /\ worker = [w \in Workers |-> Free("down", 0)]
  /\ sent = [r \in Rows |-> {}]
  /\ claims = [r \in Rows |-> 0]

-----------------------------------------------------------------------------
(* Producer and settings *)

Eligible(d, i) == destination[d].enabled /\ destination[d].minimum <= SeverityOf[i]

\* The transaction that creates incident i also writes its outbox rows.
CreateIncident(i) ==
  /\ i \notin raised
  /\ raised' = raised \cup {i}
  /\ row' = [r \in Rows |-> IF r[1] = i /\ Eligible(r[2], i) THEN Enqueued ELSE row[r]]
  /\ UNCHANGED <<destination, worker, sent, claims>>

\* Enable (the staging check is the environment's choice) or disable.
SetEnabled(d) ==
  /\ destination' = [destination EXCEPT ![d].enabled = ~@]
  /\ UNCHANGED <<raised, row, worker, sent, claims>>

SetMinimumSeverity(d, rank) ==
  /\ destination[d].minimum # rank
  /\ destination' = [destination EXCEPT ![d].minimum = rank]
  /\ UNCHANGED <<raised, row, worker, sent, claims>>

-----------------------------------------------------------------------------
(* The worker *)

\* A process starts, and recovers expired leases before its first claim.
Start(w) ==
  /\ worker[w].pc = "down"
  /\ worker' = [worker EXCEPT ![w] = Free("loop", RecoveryTicks)]
  /\ RecoverExpiredClaims
  /\ UNCHANGED <<destination, raised, sent, claims>>

\* Fault: the loop restarts its interval but recovers nothing.
SkipRecoverInLoop(w) ==
  /\ worker[w].pc = "loop" /\ worker[w].recoverIn = 0
  /\ worker' = [worker EXCEPT ![w] = Free("claim", RecoveryTicks)]
  /\ UNCHANGED <<destination, raised, row, sent, claims>>

\* The recovery interval has passed: recover, then claim in the same turn.
RecoverInLoop(w) ==
  /\ worker[w].pc = "loop" /\ worker[w].recoverIn = 0
  /\ worker' = [worker EXCEPT ![w] = Free("claim", RecoveryTicks)]
  /\ RecoverExpiredClaims
  /\ UNCHANGED <<destination, raised, sent, claims>>

AboutToClaim(w) ==
  worker[w].pc = "claim" \/ (worker[w].pc = "loop" /\ worker[w].recoverIn > 0)

\* One claim transaction. SKIP LOCKED lets it take any due row. A row that
\* cannot be delivered fails inside the same transaction; else the worker
\* leaves with the token.
Claim(w) ==
  /\ AboutToClaim(w)
  /\ \E r \in Rows :
       LET token == claims[r] + 1
           held == Claimed(row[r], token) IN
       /\ Claimable(row[r])
       /\ claims' = [claims EXCEPT ![r] = token]
       /\ \/ /\ ~destination[r[2]].enabled
             /\ row' = [row EXCEPT ![r] = Failed(held, "destination_disabled")]
             /\ worker' = [worker EXCEPT ![w] = Free("loop", @.recoverIn)]
          \/ /\ destination[r[2]].enabled   \* payload invalid or no configuration
             /\ row' = [row EXCEPT ![r] = Failed(held, "rejected")]
             /\ worker' = [worker EXCEPT ![w] = Free("loop", @.recoverIn)]
          \/ /\ destination[r[2]].enabled
             /\ row' = [row EXCEPT ![r] = held]
             /\ worker' = [worker EXCEPT ![w] =
                            Holder(@, "deliver", r, token, "none")]
  /\ UNCHANGED <<destination, raised, sent>>

\* Nothing is due: wait for the poll interval, then start the next turn.
FindNothing(w) ==
  /\ worker[w].pc = "claim"
  /\ \A r \in Rows : ~Claimable(row[r])
  /\ worker' = [worker EXCEPT ![w] = Free("loop", @.recoverIn)]
  /\ UNCHANGED <<destination, raised, row, sent, claims>>

\* The provider call. A transport error may come before or after the provider
\* accepted the message; an adapter that refuses the request sends nothing.
Deliver(w) ==
  /\ worker[w].pc = "deliver"
  /\ \E result \in Dispositions, accepted \in BOOLEAN :
       /\ result = "delivered" => accepted
       /\ result = "permanent" => ~accepted
       /\ worker' = [worker EXCEPT ![w] =
                      Holder(@, "complete", @.claim, @.token, result)]
       /\ sent' = [sent EXCEPT ![worker[w].claim] =
                     IF accepted THEN @ \cup {worker[w].token} ELSE @]
  /\ UNCHANGED <<destination, raised, row, claims>>

\* Acknowledge, reschedule or fail the claim, if it is still this worker's;
\* otherwise the lease was lost and the result is dropped.
Complete(w) ==
  LET r == worker[w].claim IN
  /\ worker[w].pc = "complete"
  /\ worker' = [worker EXCEPT ![w] = Free("loop", @.recoverIn)]
  /\ \/ /\ Owns(w) /\ worker[w].result = "delivered"
        /\ row' = [row EXCEPT ![r] = Delivered(@)]
     \/ /\ Owns(w) /\ worker[w].result = "permanent"
        /\ row' = [row EXCEPT ![r] = Failed(@, "rejected")]
     \/ /\ Owns(w) /\ worker[w].result = "retryable"
        /\ \E delay \in 1..MaxDelay :
             row' = [row EXCEPT ![r] = Rescheduled(@, delay, "retryable")]
     \/ ~Owns(w) /\ row' = row
  /\ UNCHANGED <<destination, raised, sent, claims>>

\* The process dies anywhere, or stops between two rows on SIGTERM.
Crash(w) ==
  /\ worker[w].pc # "down"
  /\ worker' = [worker EXCEPT ![w] = Free("down", 0)]
  /\ UNCHANGED <<destination, raised, row, sent, claims>>

-----------------------------------------------------------------------------
(* Operator commands and time *)

RecoverCommand ==
  /\ \E r \in Rows : Recovered(row[r]) # row[r]
  /\ RecoverExpiredClaims
  /\ UNCHANGED <<destination, raised, worker, sent, claims>>

\* Fault: requeue grants no attempt.
RequeuedForNothing(m, additional) == Release(m, "pending", 0, "none")

Requeued(m, additional) ==
  Release([m EXCEPT !.max = @ + additional], "pending", 0, "none")

RequeueFailed(r) ==
  /\ row[r].status = "failed"
  /\ \E additional \in 1..MaxAdditional :
       /\ row[r].max + additional <= AttemptLimit
       /\ row' = [row EXCEPT ![r] =
                    Requeued(@, additional)]
  /\ UNCHANGED <<destination, raised, worker, sent, claims>>

Earlier(t) == IF t > 0 THEN t - 1 ELSE t

Aged(m) == [m EXCEPT !.nextIn = Earlier(@), !.leaseIn = Earlier(@)]

Tick ==
  /\ row' = [r \in Rows |-> Aged(row[r])]
  /\ worker' = [w \in Workers |-> [worker[w] EXCEPT !.recoverIn = Earlier(@)]]
  /\ UNCHANGED <<destination, raised, sent, claims>>

-----------------------------------------------------------------------------
WorkerStep(w) ==
  \/ Start(w) \/ RecoverInLoop(w) \/ Claim(w) \/ FindNothing(w)
  \/ Deliver(w) \/ Complete(w)

Untimed ==
  \/ \E i \in Incidents : CreateIncident(i)
  \/ \E d \in Destinations : SetEnabled(d) \/ \E k \in Ranks : SetMinimumSeverity(d, k)
  \/ \E w \in Workers : WorkerStep(w) \/ Crash(w)
  \/ RecoverCommand
  \/ \E r \in Rows : RequeueFailed(r)

Next == Untimed \/ Tick

Spec == Init /\ [][Next]_vars

\* The service manager restarts a stopped worker, a running worker keeps
\* looping (the adapter call is bounded by its timeout), and time passes.
Fairness == WF_vars(Tick) /\ \A w \in Workers : WF_vars(WorkerStep(w))

FairSpec == Spec /\ Fairness

-----------------------------------------------------------------------------
(* Properties *)

\* The variables hold the columns' types.
TypeOK ==
  /\ destination \in [Destinations -> [enabled: BOOLEAN, minimum: Ranks]]
  /\ raised \subseteq Incidents
  /\ row \in [Rows -> RowType]
  /\ worker \in [Workers -> WorkerType]
  /\ sent \in [Rows -> SUBSET (Nat \ {0})]
  /\ claims \in [Rows -> Nat]

\* No statement of the code is refused by the table's CHECK constraints: each
\* status comes with exactly its own columns and attempts stay within max. And a
\* pending row always has an attempt left, so the claim's filter on attempt_count
\* never strands a row that recovery or requeue put back.
StateShape ==
  \A r \in Rows :
    LET m == row[r] IN
    /\ (m.status = "processing") <=> (m.token # NoToken)
    /\ (m.status = "processing") <=> (m.leaseIn # None)
    /\ (m.status = "pending") <=> (m.nextIn # None)
    /\ m.status = "delivered" => m.error = "none"
    /\ m.status = "failed" => m.error # "none"
    /\ m.attempts <= m.max /\ m.max <= AttemptLimit
    /\ m.status = "pending" => m.attempts < m.max

\* The token fences the workers: a row's claim is known to at most one live
\* worker, however leases expired and processes restarted.
OneOwner ==
  \A v, w \in Workers : Owns(v) /\ Owns(w) /\ worker[v].claim = worker[w].claim => v = w

\* The lifetime counter counts every claim, and the provider never accepts
\* more messages for a row than the attempts charged to it.
AttemptsCountClaims ==
  \A r \in Rows : row[r].attempts = claims[r] /\ sent[r] \subseteq 1..claims[r]

\* Delivered is only ever recorded for a message the provider accepted.
DeliveredWasSent == \A r \in Rows : row[r].status = "delivered" => sent[r] # {}

\* Delivered is final, also against stale workers, recovery and requeue.
DeliveredIsFinal ==
  [][\A r \in Rows : row[r].status = "delivered" => row'[r] = row[r]]_vars

\* A claim taken from a worker was taken only after its lease had run out: a
\* row leaves processing by its owner's hand or with an expired lease.
LeaseRespected ==
  [][\A r \in Rows :
       row[r].status = "processing" /\ row'[r].token # row[r].token =>
         \/ row[r].leaseIn = 0
         \/ \E w \in Workers : Owns(w) /\ worker[w].claim = r /\ worker[w].pc = "complete"]_vars

\* Why the token fences: a row's token is that of its latest claim, every live
\* worker holds a token issued for its row, no two hold the same one, and a
\* call's acceptance is on record exactly when the call says "delivered".
ClaimsSound ==
  /\ \A r \in Rows :
       /\ row[r].status = "processing" => row[r].token = claims[r]
       /\ row[r].status = "absent" => row[r] = Blank
       /\ r[1] \notin raised => row[r].status = "absent"
  /\ \A w \in Workers :
       LET u == worker[w] IN
       /\ u.pc \in {"deliver", "complete"} <=> u.claim # NoRow
       /\ u.claim # NoRow => u.token \in 1..claims[u.claim]
       /\ u.pc = "deliver" => u.token \notin sent[u.claim]
       /\ u.pc = "complete" => u.result # "none"
       /\ u.pc = "complete" /\ u.result = "delivered" => u.token \in sent[u.claim]
  /\ \A v, w \in Workers :
       v # w /\ worker[v].claim # NoRow /\ worker[v].claim = worker[w].claim
         => worker[v].token # worker[w].token

\* The inductive invariant: what a step needs to know to keep the rest.
IndInv ==
  /\ TypeOK /\ StateShape
  /\ AttemptsCountClaims /\ DeliveredWasSent /\ ClaimsSound

Settled(r) == row[r].status \in {"delivered", "failed"}

\* If some worker eventually stays up, every notification is settled again
\* and again: no crash, lost lease or disabled destination leaves a row open.
EventuallySettled ==
  (\E w \in Workers : <>[](worker[w].pc # "down")) =>
    \A r \in Rows : (row[r].status \in {"pending", "processing"}) ~> Settled(r)

-----------------------------------------------------------------------------
(* What the outbox implements *)

Stage(m) == CASE m.status = "absent" -> "none"
              [] m.status \in {"pending", "processing"} -> "open"
              [] OTHER -> m.status

Lifecycle == INSTANCE NotificationLifecycle WITH
  Notifications <- Rows,
  InitialQuota <- InitialAttempts,
  QuotaLimit <- AttemptLimit,
  stage <- [r \in Rows |-> Stage(row[r])],
  quota <- [r \in Rows |-> row[r].max],
  accepted <- sent

\* The outbox with its leases, tokens and crashing workers implements the
\* notification lifecycle: announced, attempted within the authorised quota,
\* closed by delivery or failure, reopened only by an operator.
ImplementsLifecycle == Lifecycle!Spec
=============================================================================
