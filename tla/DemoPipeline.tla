---------------------------- MODULE DemoPipeline ----------------------------
(***************************************************************************)
(* The automated demo gate (scripts/demo_e2e/orchestrator.py): it sends  *)
(* the catalog to a fresh control plane, delivers the outbox to a fake,  *)
(* works through the browser pages, replays the catalog, and compares a  *)
(* restored backup with the source.  The database behind it is modelled  *)
(* by its rows: events, incidents with their evidence links, outbox rows, *)
(* what the browser wrote, and open web sessions.                        *)
(*                                                                       *)
(* DemoTeardown models the containers around this; every failure of the  *)
(* gate ends here in phase "failed" and there in the teardown.           *)
(***************************************************************************)
EXTENDS DemoCatalog

CONSTANTS
  GateRules,        \* how many rules verify_exact_rules demands
  MaxAttempts,      \* attempts of the client per batch
  MaxGateFaults     \* bound: failures of the environment

ASSUME GateAssumption ==
  /\ GateRules \in Nat
  /\ MaxAttempts \in Nat \ {0}
  /\ MaxGateFaults \in Nat

VARIABLES
  gatePhase,        \* the step of run_automated_verification
  gateNext,         \* the scenario being sent, or the browser step being done
  gateAttempt,      \* attempts made with the current batch
  gateTotals,       \* events accepted and found duplicate, as the client was told
  gateEvents,       \* ids of the stored events
  gateIncidents,    \* <<rule key, correlation>> -> ids of linked events
  gateOutbox,       \* the outbox rows in the order of their creation
  gateWritten,      \* what the browser steps added to the database
  gateSessions,     \* operators with an open web session
  gateServing,      \* the control plane container runs
  gateKept,         \* snapshots by name: before the replay, final, restored
  gateFaults

gateVars == <<gatePhase, gateNext, gateAttempt, gateTotals, gateEvents, gateIncidents,
              gateOutbox, gateWritten, gateSessions, gateServing, gateKept, gateFaults>>

-----------------------------------------------------------------------------
(* The database. *)

Catalog == [o \in Scenarios |-> Manifest(o)]

CatalogEvents == UNION {Catalog[o] : o \in Scenarios}

StoredEvents == {e \in CatalogEvents : e.id \in gateEvents}

Links(incidents) == SumFunction([b \in DOMAIN incidents |-> Cardinality(incidents[b])])

RowsWith(status) == {i \in DOMAIN gateOutbox : gateOutbox[i].status = status}

NothingWritten ==
  [server |-> 0, operator |-> 0, status_changed |-> 0, comment_added |-> 0,
   login |-> 0, logout |-> 0]

Wrote(what) == gateWritten' = [gateWritten EXCEPT ![what] = @ + 1]

\* The counts of every business table, as the gate takes them.
Snapshot ==
  [events     |-> Cardinality(gateEvents),
   incidents  |-> Cardinality(DOMAIN gateIncidents),
   evidence   |-> Links(gateIncidents),
   history    |-> Cardinality(DOMAIN gateIncidents) + gateWritten.status_changed,
   comments   |-> gateWritten.comment_added,
   outbox     |-> Len(gateOutbox),
   delivered  |-> Cardinality(RowsWith("delivered")),
   pending    |-> Cardinality(RowsWith("pending")),
   processing |-> Cardinality(RowsWith("processing")),
   audit      |-> SumFunction(gateWritten),
   sessions   |-> Cardinality(gateSessions)]

Remember(name, snapshot) ==
  gateKept' = [n \in DOMAIN gateKept \cup {name} |-> IF n = name THEN snapshot ELSE gateKept[n]]

Keep(name) == Remember(name, Snapshot)

-----------------------------------------------------------------------------
(* What the catalog lets the gate expect. *)

ExpectedEvents == Cardinality(CatalogEvents)

ExpectedIncidents == {o \in Scenarios : ExpectedIncident(o) # {}}

\* How many incidents each rule must have with how many links; titles and
\* severities are the rule's.
ExpectedTally ==
  LET kinds == UNION {ExpectedIncident(o) : o \in Scenarios}
  IN  [k \in kinds |-> Cardinality({o \in Scenarios : k \in ExpectedIncident(o)})]

Tally(incidents) ==
  LET kind(b) == <<b[1], Cardinality(incidents[b])>>
  IN  [k \in {kind(b) : b \in DOMAIN incidents} |->
         Cardinality({b \in DOMAIN incidents : kind(b) = k})]

ExpectedLinks ==
  SumFunction([o \in ExpectedIncidents |-> EvidenceCount[o \div 4 + 1]])

-----------------------------------------------------------------------------
GateInit ==
  /\ gatePhase = "rules"
  /\ gateNext = 0
  /\ gateAttempt = 0
  /\ gateTotals = [accepted |-> 0, duplicates |-> 0]
  /\ gateEvents = {}
  /\ gateIncidents = NoFields
  /\ gateOutbox = <<>>
  /\ gateWritten = NothingWritten
  /\ gateSessions = {}
  /\ gateServing = FALSE
  /\ gateKept = NoFields
  /\ gateFaults = 0

Database == <<gateEvents, gateIncidents, gateOutbox, gateWritten, gateSessions>>

Enter(phase) ==
  /\ gatePhase' = phase
  /\ gateNext' = 0
  /\ gateAttempt' = 0
  /\ gateTotals' = [accepted |-> 0, duplicates |-> 0]

\* A check of the gate: the next phase if it holds, the end of the run if not.
Checked(condition, phase) == Enter(IF condition THEN phase ELSE "failed")

Fail == gatePhase' = "failed" /\ UNCHANGED <<gateNext, gateAttempt, gateTotals>>

GateFault == gateFaults < MaxGateFaults /\ gateFaults' = gateFaults + 1

-----------------------------------------------------------------------------
(* Rules, provisioning, manifests. *)

GateVerifyRules ==
  /\ gatePhase = "rules"
  /\ Checked(/\ Cardinality(EnabledRules) = GateRules
             /\ {r.rule_key : r \in EnabledRules} = ExpectedRuleKeys, "provisioning")
  /\ UNCHANGED <<Database, gateServing, gateKept, gateFaults>>

\* One transaction; the control plane is started afterwards.
GateProvision ==
  /\ gatePhase = "provisioning"
  /\ gateWritten' = [gateWritten EXCEPT !.server = 1, !.operator = 3]
  /\ gateServing' = TRUE
  /\ Enter("manifests")
  /\ UNCHANGED <<gateEvents, gateIncidents, gateOutbox, gateSessions, gateKept, gateFaults>>

\* Every manifest is written, read back and rebuilt from the catalog.
GateMaterialize ==
  /\ gatePhase = "manifests"
  /\ Checked(\A o \in Scenarios : ManifestValid(o), "ingestion")
  /\ UNCHANGED <<Database, gateServing, gateKept, gateFaults>>

-----------------------------------------------------------------------------
(* Sending a manifest: one batch, stored in one transaction with what the    *)
(* rules make of it.  An event already stored is skipped and evaluates       *)
(* nothing.                                                                  *)

Sending == gatePhase \in {"ingestion", "replay"} /\ gateServing /\ gateNext \in Scenarios

Fresh(o) == {e \in Catalog[o] : e.id \notin gateEvents}

NewRow(b) == [bucket |-> b, status |-> "pending", attempts |-> 0, requests |-> 0]

Commit(o) ==
  LET found  == Persisted(gateIncidents,
                          RunDetection(EnabledRules, Fresh(o), StoredEvents \cup Fresh(o)))
      opened == SetToSeq(DOMAIN found \ DOMAIN gateIncidents)
  IN  /\ gateEvents' = gateEvents \cup {e.id : e \in Fresh(o)}
      /\ gateIncidents' = found
      /\ gateOutbox' = gateOutbox \o [i \in DOMAIN opened |-> NewRow(opened[i])]
      /\ UNCHANGED <<gateWritten, gateSessions>>

GateSend ==
  /\ Sending
  /\ Commit(gateNext)
  /\ gateNext' = gateNext + 1
  /\ gateAttempt' = 0
  /\ gateTotals' =
       [accepted   |-> gateTotals.accepted + Cardinality(Fresh(gateNext)),
        duplicates |-> gateTotals.duplicates
                         + Cardinality(Catalog[gateNext] \ Fresh(gateNext))]
  /\ UNCHANGED <<gatePhase, gateServing, gateKept, gateFaults>>

\* A transport error or a 5xx: whether the batch was committed is unknown.  The
\* same batch is sent again until the attempts are used up.
GateRetry ==
  /\ Sending
  /\ GateFault
  /\ Commit(gateNext) \/ UNCHANGED Database
  /\ IF gateAttempt + 1 < MaxAttempts
       THEN gateAttempt' = gateAttempt + 1 /\ UNCHANGED <<gatePhase, gateNext, gateTotals>>
       ELSE Fail
  /\ UNCHANGED <<gateServing, gateKept>>

\* 401, 429, another 4xx or the clock skew limit end the run without a retry; so
\* does an answer that cannot be read, and that one may follow a commit.
GateRefused ==
  /\ Sending
  /\ GateFault
  /\ Commit(gateNext) \/ UNCHANGED Database
  /\ Fail
  /\ UNCHANGED <<gateServing, gateKept>>

\* The totals the client was told must be those of a first, undisturbed
\* delivery: a retry after a lost answer was absorbed but fails the run.
GateIngestionSummary ==
  /\ gatePhase = "ingestion" /\ gateNext \notin Scenarios
  /\ Checked(gateTotals = [accepted |-> ExpectedEvents, duplicates |-> 0], "ingested")
  /\ UNCHANGED <<Database, gateServing, gateKept, gateFaults>>

GateVerifyIngestion ==
  /\ gatePhase = "ingested"
  /\ Checked(/\ Tally(gateIncidents) = ExpectedTally
             /\ Snapshot.events = ExpectedEvents
             /\ Snapshot.evidence = ExpectedLinks
             /\ Snapshot.history = Cardinality(ExpectedIncidents)
             /\ Snapshot.pending = Cardinality(ExpectedIncidents)
             /\ Snapshot.outbox = Snapshot.pending, "delivery")
  /\ UNCHANGED <<Database, gateServing, gateKept, gateFaults>>

-----------------------------------------------------------------------------
(* One run of the outbox worker against the in-process fake. *)

Due == {i \in DOMAIN gateOutbox : gateOutbox[i].attempts = 0}

Attempted(i, status, requests) ==
  gateOutbox' = [gateOutbox EXCEPT ![i] = [bucket   |-> @.bucket,
                                           status   |-> status,
                                           attempts |-> @.attempts + 1,
                                           requests |-> @.requests + requests]]

GateDeliver ==
  /\ gatePhase = "delivery" /\ Due # {}
  /\ Attempted(Min(Due), "delivered", 1)
  /\ UNCHANGED <<gatePhase, gateNext, gateAttempt, gateTotals, gateEvents, gateIncidents,
                 gateWritten, gateSessions, gateServing, gateKept, gateFaults>>

\* The attempt fails before or after the request: the row waits for a later run,
\* or stays claimed if even that could not be written.
GateDeliveryFails ==
  /\ gatePhase = "delivery" /\ Due # {}
  /\ GateFault
  /\ \E status \in {"pending", "processing"}, requests \in 0 .. 1 :
       Attempted(Min(Due), status, requests)
  /\ UNCHANGED <<gatePhase, gateNext, gateAttempt, gateTotals, gateEvents, gateIncidents,
                 gateWritten, gateSessions, gateServing, gateKept>>

FakeRequests == SumFunction([i \in DOMAIN gateOutbox |-> gateOutbox[i].requests])

\* Fault: only the requests the fake has counted are compared.
CountedDelivery == FakeRequests = Cardinality(ExpectedIncidents)

ExactDelivery ==
  /\ FakeRequests = Cardinality(ExpectedIncidents)
  /\ Len(gateOutbox) = Cardinality(ExpectedIncidents)
  /\ \A i \in DOMAIN gateOutbox :
       gateOutbox[i].status = "delivered" /\ gateOutbox[i].attempts = 1

GateVerifyDelivery ==
  /\ gatePhase = "delivery" /\ Due = {}
  /\ Checked(ExactDelivery, "browser")
  /\ IF ExactDelivery THEN Keep("delivered") ELSE UNCHANGED gateKept
  /\ UNCHANGED <<Database, gateServing, gateFaults>>

-----------------------------------------------------------------------------
(* The browser: the analyst works on the first new incident, the admin reads *)
(* the audit, the viewer is refused.                                         *)

BrowserSteps == <<"analyst_login", "transition", "comment", "analyst_logout",
                  "admin_login", "audit_page", "admin_logout", "viewer_refused">>

Opens(who) == gateSessions' = gateSessions \cup {who} /\ Wrote("login")

Closes(who) == gateSessions' = gateSessions \ {who} /\ Wrote("logout")

Writes(what) == Wrote(what) /\ UNCHANGED gateSessions

BrowserEffect(step) ==
  /\ CASE step = "analyst_login"  -> Opens("analyst")
       [] step = "transition"     -> Writes("status_changed")
       [] step = "comment"        -> Writes("comment_added")
       [] step = "analyst_logout" -> Closes("analyst")
       [] step = "admin_login"    -> Opens("admin")
       [] step = "admin_logout"   -> Closes("admin")
       [] OTHER                   -> UNCHANGED <<gateWritten, gateSessions>>
  /\ UNCHANGED <<gateEvents, gateIncidents, gateOutbox>>

GateBrowse ==
  /\ gatePhase = "browser" /\ gateNext < Len(BrowserSteps)
  /\ DOMAIN gateIncidents # {}
  /\ BrowserEffect(BrowserSteps[gateNext + 1])
  /\ gateNext' = gateNext + 1
  /\ UNCHANGED <<gatePhase, gateAttempt, gateTotals, gateServing, gateKept, gateFaults>>

\* A page that does not answer in time: the request may have been carried out.
GateBrowseFails ==
  /\ gatePhase = "browser" /\ gateNext < Len(BrowserSteps)
  /\ GateFault
  /\ BrowserEffect(BrowserSteps[gateNext + 1]) \/ UNCHANGED Database
  /\ Fail
  /\ UNCHANGED <<gateServing, gateKept>>

\* Exactly one transition and one comment, nothing else changed, nobody logged in.
GateVerifyBrowser ==
  LET before == gateKept.delivered
  IN  /\ gatePhase = "browser" /\ gateNext = Len(BrowserSteps)
      /\ Checked(/\ gateWritten.status_changed = 1 /\ gateWritten.comment_added = 1
                 /\ Snapshot.history = before.history + 1
                 /\ Snapshot.comments = before.comments + 1
                 /\ \A f \in {"events", "incidents", "evidence", "outbox", "delivered",
                              "pending", "processing"} : Snapshot[f] = before[f]
                 /\ gateSessions = {}, "replay")
      /\ Keep("before")
      /\ UNCHANGED <<Database, gateServing, gateFaults>>

-----------------------------------------------------------------------------
(* Replay, backup, restore. *)

\* Every event a duplicate, the incidents those of the catalog, no count changed.
GateVerifyReplay ==
  /\ gatePhase = "replay" /\ gateNext \notin Scenarios
  /\ Checked(/\ gateTotals = [accepted |-> 0, duplicates |-> ExpectedEvents]
             /\ Tally(gateIncidents) = ExpectedTally
             /\ Snapshot = gateKept.before, "shutdown")
  /\ Keep("final")
  /\ UNCHANGED <<Database, gateServing, gateFaults>>

GateShutdown ==
  /\ gatePhase = "shutdown"
  /\ gateServing' = FALSE
  /\ Enter("backup")
  /\ UNCHANGED <<Database, gateKept, gateFaults>>

GateBackup ==
  /\ gatePhase = "backup"
  /\ Keep("dumped")
  /\ Enter("restore")
  /\ UNCHANGED <<Database, gateServing, gateFaults>>

\* The restored database is the dump; revision, counts and schema are compared
\* with the source, then the servers, the operators and the sessions.
GateRestore ==
  /\ gatePhase = "restore"
  /\ Remember("restored", gateKept.dumped)
  /\ Checked(/\ gateKept.dumped = gateKept.final
             /\ gateWritten.server = 1 /\ gateWritten.operator = 3
             /\ gateSessions = {}, "verified")
  /\ UNCHANGED <<Database, gateServing, gateFaults>>

\* Any of the other phases can fail: Docker, the dump, the restore, a query.
GateFails ==
  /\ gatePhase \in {"provisioning", "manifests", "shutdown", "backup", "restore"}
  /\ GateFault
  /\ Fail
  /\ UNCHANGED <<Database, gateServing, gateKept>>

GateNext ==
  \/ GateVerifyRules \/ GateProvision \/ GateMaterialize
  \/ GateSend \/ GateRetry \/ GateRefused \/ GateIngestionSummary \/ GateVerifyIngestion
  \/ GateDeliver \/ GateDeliveryFails \/ GateVerifyDelivery
  \/ GateBrowse \/ GateBrowseFails \/ GateVerifyBrowser
  \/ GateVerifyReplay \/ GateShutdown \/ GateBackup \/ GateRestore \/ GateFails

GateSpec == GateInit /\ [][GateNext]_gateVars /\ WF_gateVars(GateNext)

-----------------------------------------------------------------------------
(* Properties. *)

Committed == {o \in Scenarios : \A e \in Catalog[o] : e.id \in gateEvents}

IncidentsOf(o) ==
  {b \in DOMAIN gateIncidents : /\ b[1] = RuleOf(o).rule_key
                                /\ gateIncidents[b] \subseteq {e.id : e \in Catalog[o]}}

\* However the deliveries went, the scenarios stored so far have produced exactly
\* what the catalog says: each matching one an incident of its own rule with the
\* promised number of links, all to its own events, and no scenario anything
\* else; no rule is completed by events of another scenario and no incident
\* collects the events of two.
CatalogExact ==
  gatePhase # "rules" =>
  LET matching == {o \in Committed : Matching(CaseOf(o))}
  IN  /\ Cardinality(DOMAIN gateIncidents) = Cardinality(matching)
      /\ \A o \in matching : \E b \in IncidentsOf(o) :
           Cardinality(gateIncidents[b]) = EvidenceCount[o \div 4 + 1]

\* A run that ends well has shown what it claims although it compares little
\* but counts: each incident of the catalog was notified by exactly one request,
\* each row is delivered and belongs to an incident of its own, no session is
\* open, and the restored database has every row of the source.
VerifiedExact ==
  gatePhase = "verified" =>
    /\ Committed = Scenarios
    /\ {gateOutbox[i].bucket : i \in DOMAIN gateOutbox} = DOMAIN gateIncidents
    /\ \A i \in DOMAIN gateOutbox :
         gateOutbox[i].status = "delivered" /\ gateOutbox[i].requests = 1
    /\ gateSessions = {}
    /\ gateKept.restored = Snapshot

\* The gate can succeed: run against a healthy stand it verifies the shipped
\* catalog to the end (docs/demo.md, ADR-0012).
GateCompletes == <>(gatePhase = "verified")
=============================================================================
