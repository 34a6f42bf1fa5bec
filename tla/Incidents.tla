------------------------------ MODULE Incidents ------------------------------
(***************************************************************************)
(* Ingestion with detection, and the operators' incident workflow, as the  *)
(* PostgreSQL transactions that meet in the incidents table.               *)
(*                                                                         *)
(* An ingestion transaction stores the new events of a batch and evaluates *)
(* the rules for each of them under the advisory lock of its bucket (a     *)
(* server, a rule version and a correlation); it creates an incident or    *)
(* adds evidence to the active one.  An operator's transaction changes the *)
(* status of an incident, or comments on it, once per idempotency key.     *)
(*                                                                         *)
(* The transactions are READ COMMITTED: a statement sees what has been     *)
(* committed and the transaction's own writes.  A rule is a threshold over *)
(* a sliding window.                                                       *)
(***************************************************************************)
EXTENDS Integers, Sequences, FiniteSets

CONSTANTS
  Buckets,     \* server, rule version and correlation
  Events,      \* events the agents send
  Bucket,      \* the bucket of each event
  Occurred,    \* its occurred_at
  Batches,     \* requests of the agents
  Content,     \* the events of each batch
  AgentKey,    \* the agent key each batch is authenticated with
  Threshold,   \* of the rule
  Window,      \* window_seconds of the rule
  Callers,     \* operators' requests that run concurrently
  Scope,       \* operator and Idempotency-Key of each caller
  Requests,    \* what operators may ask, see RequestType
  MaxIncident  \* bound: incidents

IncidentIds == 1..MaxIncident

Active == {"new", "investigating"}

Terminal == {"resolved", "false_positive"}

RequestType ==
  [kind: {"transition"}, incident: IncidentIds, to: Active \cup Terminal, expected: Nat]
    \cup [kind: {"comment"}, incident: IncidentIds]

Scopes == {Scope[c] : c \in Callers}

ASSUME IncidentsAssumption ==
  /\ IsFiniteSet(Events) /\ Bucket \in [Events -> Buckets] /\ Occurred \in [Events -> Nat]
  /\ Content \in [Batches -> (SUBSET Events) \ {{}}]
  /\ Threshold \in Nat \ {0} /\ Window \in Nat
  /\ MaxIncident \in Nat /\ Requests \subseteq RequestType

VARIABLES
  stored,    \* events
  ingest,    \* the ingestion transaction of each batch
  incident,  \* incidents with their evidence
  history,   \* incident_history of each incident
  call,      \* the transaction of each caller
  record,    \* operator_idempotency_records
  before,    \* history: events stored up to the commit of each event
  answers,   \* history: outcomes answered in each scope
  effects    \* history: changes committed in each scope

incidentsVars == <<stored, ingest, incident, history, call, record, before, answers, effects>>

ingestVars == <<stored, ingest, before>>
callVars == <<call, record, answers, effects>>

-----------------------------------------------------------------------------
NoWrite == [incident |-> 0, evidence |-> {}]

NoTransaction ==
  [pc |-> "idle", new |-> {}, left |-> {}, locks |-> {}, match |-> {},
   writes |-> [k \in Buckets |-> NoWrite]]

NoIncident == [status |-> "none", bucket |-> "none", version |-> 0, evidence |-> {}]

NoRequest == [kind |-> "none"]

NoCall == [pc |-> "idle", request |-> NoRequest, seen |-> NoIncident]

NoRecord == [request |-> NoRequest, answer |-> "none"]

IncidentsInit ==
  /\ stored = {}
  /\ ingest = [b \in Batches |-> NoTransaction]
  /\ incident = [i \in IncidentIds |-> NoIncident]
  /\ history = [i \in IncidentIds |-> <<>>]
  /\ call = [c \in Callers |-> NoCall]
  /\ record = [s \in Scopes |-> NoRecord]
  /\ before = [e \in Events |-> {}]
  /\ answers = [s \in Scopes |-> {}]
  /\ effects = [s \in Scopes |-> 0]

\* The incidents whose rows a transaction has locked or inserted.
WrittenBy(b) == {ingest[b].writes[k].incident : k \in Buckets} \ {0}

RowFree(i) ==
  /\ \A b \in Batches : i \notin WrittenBy(b)
  /\ \A c \in Callers : call[c].pc = "row" => call[c].request.incident # i

-----------------------------------------------------------------------------
(* Ingestion and detection *)

\* The update of last_used_at keeps the key's row until the commit; an insert
\* of an event that another transaction has inserted waits for that one.
Send(b) ==
  LET new == Content[b] \ stored IN
  /\ ingest[b].pc = "idle"
  /\ \A d \in Batches \ {b} : ingest[d].pc # "idle" =>
       AgentKey[d] # AgentKey[b] /\ ingest[d].new \cap Content[b] = {}
  /\ ingest' = [ingest EXCEPT ![b] =
       [NoTransaction EXCEPT !.pc = "detect", !.new = new, !.left = new]]
  /\ UNCHANGED <<stored, before, incident, history, callVars>>

\* The triggers are taken in the order of their occurrence.
Triggers(b) ==
  {e \in ingest[b].left : \A f \in ingest[b].left : Occurred[e] <= Occurred[f]}

LockedByOther(b, k) == \E d \in Batches \ {b} : k \in ingest[d].locks

InWindow(e, events) ==
  {f \in events : /\ Bucket[f] = Bucket[e]
                  /\ Occurred[f] \in (Occurred[e] - Window)..Occurred[e]}

\* Evaluate one trigger on the history it can see, in the locked bucket.
Evaluated(b, e) ==
  LET evidence == InWindow(e, stored \cup ingest[b].new)
      matched == Cardinality(evidence) >= Threshold
  IN  [ingest[b] EXCEPT
         !.pc = IF matched THEN "link" ELSE "detect",
         !.left = @ \ {e},
         !.locks = @ \cup {Bucket[e]},
         !.match = IF matched THEN evidence ELSE {}]

\* Fault: the history is read without waiting for the bucket's lock.
DetectUnlocked(b, e) ==
  /\ ingest[b].pc = "detect" /\ e \in Triggers(b)
  /\ ingest' = [ingest EXCEPT ![b] = Evaluated(b, e)]
  /\ UNCHANGED <<stored, before, incident, history, callVars>>

Detect(b, e) ==
  /\ ingest[b].pc = "detect" /\ e \in Triggers(b)
  /\ ~LockedByOther(b, Bucket[e])
  /\ ingest' = [ingest EXCEPT ![b] = Evaluated(b, e)]
  /\ UNCHANGED <<stored, before, incident, history, callVars>>

\* Fault: an incident under investigation does not count as active.
OnlyNewIncidents(k) ==
  {i \in IncidentIds : incident[i].bucket = k /\ incident[i].status = "new"}

ActiveIncidents(k) ==
  {i \in IncidentIds : incident[i].bucket = k /\ incident[i].status \in Active}

Unused == {i \in IncidentIds : incident[i].status = "none" /\ RowFree(i)}

MatchBucket(b) == CHOOSE k \in Buckets : \A e \in ingest[b].match : Bucket[e] = k

Linked(b, i) ==
  ingest' = [ingest EXCEPT
    ![b].pc = "detect",
    ![b].match = {},
    ![b].writes[MatchBucket(b)] =
      [incident |-> i, evidence |-> @.evidence \cup ingest[b].match]]

\* Fault: the active incident is read without FOR UPDATE.
LinkUnlocked(b) ==
  LET k == MatchBucket(b)
      own == ingest[b].writes[k].incident IN
  /\ ingest[b].pc = "link"
  /\ \/ own # 0 /\ Linked(b, own)
     \/ /\ own = 0
        /\ \E i \in ActiveIncidents(k) : Linked(b, i)
     \/ /\ own = 0 /\ ActiveIncidents(k) = {}
        /\ \E i \in Unused : (\A j \in Unused : i <= j) /\ Linked(b, i)
  /\ UNCHANGED <<stored, before, incident, history, callVars>>

\* Lock the bucket's active incident, waiting for an operator who has its row,
\* or insert a new one with its baseline history and notifications; link the
\* evidence to it.
Link(b) ==
  LET k == MatchBucket(b)
      own == ingest[b].writes[k].incident IN
  /\ ingest[b].pc = "link"
  /\ \/ own # 0 /\ Linked(b, own)
     \/ /\ own = 0
        /\ \E i \in ActiveIncidents(k) : RowFree(i) /\ Linked(b, i)
     \/ /\ own = 0 /\ ActiveIncidents(k) = {}
        /\ \E i \in Unused : (\A j \in Unused : i <= j) /\ Linked(b, i)
  /\ UNCHANGED <<stored, before, incident, history, callVars>>

Baseline == [from |-> "none", to |-> "new", expected |-> 0, scope |-> "none"]

Commit(b) ==
  LET writes == ingest[b].writes
      wrote(i) == CHOOSE k \in Buckets : writes[k].incident = i IN
  /\ ingest[b].pc = "detect" /\ ingest[b].left = {}
  /\ stored' = stored \cup ingest[b].new
  /\ before' = [e \in Events |-> IF e \in ingest[b].new THEN stored' ELSE before[e]]
  /\ incident' = [i \in IncidentIds |->
       IF i \notin WrittenBy(b) THEN incident[i]
       ELSE IF incident[i].status = "none"
            THEN [status |-> "new", bucket |-> wrote(i), version |-> 1,
                  evidence |-> writes[wrote(i)].evidence]
            ELSE [incident[i] EXCEPT !.evidence = @ \cup writes[wrote(i)].evidence]]
  /\ history' = [i \in IncidentIds |->
       IF i \in WrittenBy(b) /\ incident[i].status = "none" THEN <<Baseline>> ELSE history[i]]
  /\ ingest' = [ingest EXCEPT ![b] = NoTransaction]
  /\ UNCHANGED callVars

\* Fault: after an error the transaction is left open.
LeaveOpen(b) == UNCHANGED incidentsVars

RollBack(b) ==
  /\ ingest' = [ingest EXCEPT ![b] = NoTransaction]
  /\ UNCHANGED <<stored, before, incident, history, callVars>>

\* Who holds the bucket that a transaction waits for.
WaitsFor(b, d) ==
  /\ ingest[b].pc = "detect" /\ b # d
  /\ \E e \in Triggers(b) : Bucket[e] \in ingest[d].locks

InCycle(b) ==
  \E D \in SUBSET Batches :
    /\ b \in D
    /\ \A d \in D : \E f \in D : WaitsFor(d, f)
    /\ \A d \in D : \E f \in D : WaitsFor(f, d)

\* PostgreSQL cancels one transaction of a deadlock; the agent gets a 503.
BreakDeadlock(b) == InCycle(b) /\ RollBack(b)

\* The database, the process or detection fails before the commit.
IngestFails(b) == ingest[b].pc # "idle" /\ RollBack(b)

-----------------------------------------------------------------------------
(* The workflow *)

ScopeFree(c) ==
  \A d \in Callers \ {c} : Scope[d] = Scope[c] => call[d].pc = "idle"

Answer(c, request, answer) ==
  answers' = [answers EXCEPT ![Scope[c]] = @ \cup {<<request, answer>>}]

\* Under the advisory lock of the scope: replay a completed request, refuse
\* another one with the same key, or go on.
TakeKey(c) ==
  LET found == record[Scope[c]] IN
  /\ call[c].pc = "idle" /\ ScopeFree(c)
  /\ \E r \in Requests :
       \/ /\ found = NoRecord
          /\ call' = [call EXCEPT ![c] = [pc |-> "key", request |-> r, seen |-> NoIncident]]
          /\ UNCHANGED answers
       \/ /\ found # NoRecord /\ found.request = r
          /\ Answer(c, r, found.answer)
          /\ UNCHANGED call
       \/ /\ found # NoRecord /\ found.request # r
          /\ UNCHANGED <<call, answers>>
  /\ UNCHANGED <<ingestVars, incident, history, record, effects>>

\* Fault: only successful outcomes are stored.
StoreSuccess(c, answer) ==
  /\ record' = IF answer = "done"
               THEN [record EXCEPT ![Scope[c]] =
                      [request |-> call[c].request, answer |-> answer]]
               ELSE record
  /\ effects' = [effects EXCEPT ![Scope[c]] = IF answer = "done" THEN @ + 1 ELSE @]
  /\ Answer(c, call[c].request, answer)
  /\ call' = [call EXCEPT ![c] = NoCall]

\* Conflicts are completed outcomes too; the commit frees the locks.
StoreOutcome(c, answer) ==
  /\ record' = [record EXCEPT ![Scope[c]] = [request |-> call[c].request, answer |-> answer]]
  /\ effects' = [effects EXCEPT ![Scope[c]] = IF answer = "done" THEN @ + 1 ELSE @]
  /\ Answer(c, call[c].request, answer)
  /\ call' = [call EXCEPT ![c] = NoCall]

Exists(i) == incident[i].status # "none"

NotFound(c) ==
  /\ call[c].pc = "key" /\ ~Exists(call[c].request.incident)
  /\ StoreOutcome(c, "not_found")
  /\ UNCHANGED <<ingestVars, incident, history>>

Comment(c) ==
  /\ call[c].pc = "key" /\ call[c].request.kind = "comment"
  /\ Exists(call[c].request.incident)
  /\ StoreOutcome(c, "done")
  /\ UNCHANGED <<ingestVars, incident, history>>

\* Fault: the incident is read without FOR UPDATE.
TakeRowUnlocked(c) ==
  LET r == call[c].request IN
  /\ call[c].pc = "key" /\ r.kind = "transition" /\ Exists(r.incident)
  /\ call' = [call EXCEPT ![c] = [pc |-> "row", request |-> r, seen |-> incident[r.incident]]]
  /\ UNCHANGED <<ingestVars, incident, history, record, answers, effects>>

TakeRow(c) ==
  LET r == call[c].request IN
  /\ call[c].pc = "key" /\ r.kind = "transition" /\ Exists(r.incident)
  /\ RowFree(r.incident)
  /\ call' = [call EXCEPT ![c] = [pc |-> "row", request |-> r, seen |-> incident[r.incident]]]
  /\ UNCHANGED <<ingestVars, incident, history, record, answers, effects>>

AllowedTransitions ==
  {<<"new", "investigating">>} \cup (Active \X Terminal)

Stale(c) ==
  /\ call[c].pc = "row" /\ call[c].seen.version # call[c].request.expected
  /\ StoreOutcome(c, "stale")
  /\ UNCHANGED <<ingestVars, incident, history>>

NotAllowed(c) ==
  LET r == call[c].request IN
  /\ call[c].pc = "row" /\ call[c].seen.version = r.expected
  /\ <<call[c].seen.status, r.to>> \notin AllowedTransitions
  /\ StoreOutcome(c, "not_allowed")
  /\ UNCHANGED <<ingestVars, incident, history>>

Transition(c) ==
  LET r == call[c].request
      seen == call[c].seen IN
  /\ call[c].pc = "row" /\ seen.version = r.expected
  /\ <<seen.status, r.to>> \in AllowedTransitions
  /\ incident' = [incident EXCEPT ![r.incident] =
       [@ EXCEPT !.status = r.to, !.version = seen.version + 1]]
  /\ history' = [history EXCEPT ![r.incident] = Append(@,
       [from |-> seen.status, to |-> r.to, expected |-> r.expected, scope |-> Scope[c]])]
  /\ StoreOutcome(c, "done")
  /\ UNCHANGED ingestVars

\* The transaction fails before its commit.
CallFails(c) ==
  /\ call[c].pc # "idle"
  /\ call' = [call EXCEPT ![c] = NoCall]
  /\ UNCHANGED <<ingestVars, incident, history, record, answers, effects>>

-----------------------------------------------------------------------------
Ingest(b) == Send(b) \/ (\E e \in Events : Detect(b, e)) \/ Link(b) \/ Commit(b)

Operate(c) ==
  TakeKey(c) \/ NotFound(c) \/ Comment(c) \/ TakeRow(c) \/ Stale(c) \/ NotAllowed(c) \/ Transition(c)

IncidentsNext ==
  \/ \E b \in Batches : Ingest(b) \/ BreakDeadlock(b) \/ IngestFails(b)
  \/ \E c \in Callers : Operate(c) \/ CallFails(c)

IncidentsSpec == IncidentsInit /\ [][IncidentsNext]_incidentsVars

SendUnstored(b) == Send(b) /\ ~(Content[b] \subseteq stored)

\* An agent sends a batch until it is stored, PostgreSQL serves the waiters of a
\* bucket in their order and breaks deadlocks, and a request runs to its end.
IncidentsFairness ==
  /\ \A b \in Batches :
       /\ WF_incidentsVars(SendUnstored(b))
       /\ \A e \in Content[b] : SF_incidentsVars(Detect(b, e))
       /\ WF_incidentsVars(Link(b)) /\ WF_incidentsVars(Commit(b))
       /\ WF_incidentsVars(BreakDeadlock(b))
  /\ \A c \in Callers : WF_incidentsVars(call[c].pc # "idle" /\ Operate(c))

IncidentsFairSpec == IncidentsSpec /\ IncidentsFairness

-----------------------------------------------------------------------------
(* Properties *)

TransactionType ==
  [pc: {"idle", "detect", "link"}, new: SUBSET Events, left: SUBSET Events,
   locks: SUBSET Buckets, match: SUBSET Events,
   writes: [Buckets -> [incident: 0..MaxIncident, evidence: SUBSET Events]]]

IncidentType ==
  [status: Active \cup Terminal, bucket: Buckets, version: Nat \ {0},
   evidence: (SUBSET Events) \ {{}}] \cup {NoIncident}

AnswerType == {"none", "done", "not_found", "stale", "not_allowed"}

HistoryType ==
  [from: Active \cup Terminal \cup {"none"}, to: Active \cup Terminal, expected: Nat,
   scope: Scopes \cup {"none"}]

CallType ==
  [pc: {"idle", "key", "row"}, request: Requests \cup {NoRequest}, seen: IncidentType]

\* The variables hold values of their types, and evidence refers to stored
\* events of the incident's bucket, as the foreign keys require.
IncidentsTypeOK ==
  /\ stored \subseteq Events
  /\ ingest \in [Batches -> TransactionType]
  /\ incident \in [IncidentIds -> IncidentType]
  /\ \A i \in IncidentIds : \A e \in incident[i].evidence :
       e \in stored /\ Bucket[e] = incident[i].bucket
  /\ history \in [IncidentIds -> Seq(HistoryType)]
  /\ call \in [Callers -> CallType]
  /\ record \in [Scopes -> [request: Requests \cup {NoRequest}, answer: AnswerType]]
  /\ before \in [Events -> SUBSET Events]
  /\ answers \in [Scopes -> SUBSET (Requests \X AnswerType)]
  /\ effects \in [Scopes -> Nat]

ChainSound(i) ==
  Exists(i) =>
    /\ Len(history[i]) = incident[i].version
    /\ history[i][1] = Baseline
    /\ history[i][Len(history[i])].to = incident[i].status
    /\ \A n \in 2..Len(history[i]) :
         /\ history[i][n].from = history[i][n - 1].to
         /\ <<history[i][n].from, history[i][n].to>> \in AllowedTransitions
         /\ history[i][n].expected = n - 1

\* The history of an incident is one unbroken chain of allowed transitions from
\* its baseline to its status, each decided on the version right before it.
HistoryChain == \A i \in IncidentIds : ChainSound(i)

\* Once an incident is closed nothing is added to it, however detection and the
\* operator met: evidence found before the closing is in, later evidence opens
\* another incident.
ClosedIsFinal ==
  [][\A i \in IncidentIds : incident[i].status \in Terminal => incident'[i] = incident[i]]_incidentsVars

\* A bucket has one active incident, also counting the ones about to be
\* committed, so that the unique index never refuses a batch.
OneActiveIncident ==
  \A k \in Buckets :
    Cardinality({i \in IncidentIds : incident[i].bucket = k /\ incident[i].status \in Active}
      \cup ({ingest[b].writes[k].incident : b \in Batches} \ {0})) <= 1

EventSound(e) ==
  Cardinality(InWindow(e, before[e])) >= Threshold =>
    \E i \in IncidentIds : e \in incident[i].evidence

\* No crossing of the threshold is missed between two transactions: if an event
\* completes a window with what was stored before or together with it, it is
\* evidence of an incident.
CrossingSeen == \A e \in stored : EventSound(e)

\* A key has at most one effect and one outcome, for one request, however often
\* and concurrently requests are sent with it; conflicts are outcomes too.
AnsweredOnce ==
  \A s \in Scopes :
    /\ effects[s] <= 1
    /\ Cardinality(answers[s]) <= 1
    /\ effects[s] = 1 <=> \E a \in answers[s] : a[2] = "done"

\* If nothing fails any more, a batch that is being sent is stored, although
\* batches can deadlock over buckets and wait for operators.
EventuallyStored ==
  <>[][\A b \in Batches : IngestFails(b) => InCycle(b) \/ Commit(b)]_incidentsVars =>
    \A b \in Batches : (ingest[b].pc # "idle") ~> (Content[b] \subseteq stored)

-----------------------------------------------------------------------------
(* What ingestion and the workflow implement *)

Atomic == INSTANCE AtomicIncidents WITH
  Incidents <- IncidentIds,
  Keys <- Scopes,
  known <- stored,
  used <- {s \in Scopes : record[s].answer = "done"}

\* Whatever transactions and calls overlap, fail or deadlock, the incidents are
\* those of batches taken in one by one, each evaluated at its commit on all that
\* is stored by then, and of changes made one by one, at most one per key.
ImplementsAtomicIncidents == Atomic!Spec

-----------------------------------------------------------------------------
(* The inductive invariant: what the locks protect between two statements *)

Writing(t) == {t.writes[k].incident : k \in Buckets} \ {0}

\* An incident being written is new, or the only active one of a bucket that
\* the transaction has locked.
WriteSound(t, k) ==
  IF t.writes[k].incident = 0 THEN t.writes[k].evidence = {}
  ELSE /\ k \in t.locks
       /\ t.writes[k].evidence # {}
       /\ \A e \in t.writes[k].evidence : e \in stored \cup t.new /\ Bucket[e] = k
       /\ \A l \in Buckets : t.writes[l].incident = t.writes[k].incident => l = k
       /\ \/ incident[t.writes[k].incident].status = "none"
          \/ t.writes[k].incident \in ActiveIncidents(k)
       /\ ActiveIncidents(k) \subseteq {t.writes[k].incident}

\* A crossing that the transaction has evaluated is about to be linked, or is.
CrossingLinked(t) ==
  \A e \in t.new \ t.left :
    Cardinality(InWindow(e, stored \cup t.new)) >= Threshold =>
      e \in t.match \/ \E k \in Buckets : e \in t.writes[k].evidence

TransactionSound(t) ==
  /\ t.pc = "idle" => t = NoTransaction
  /\ t.new \cap stored = {} /\ t.left \subseteq t.new
  /\ \A e \in t.new \ t.left : Bucket[e] \in t.locks
  /\ t.pc = "detect" => t.match = {}
  /\ t.pc = "link" =>
       /\ t.match # {}
       /\ \E k \in t.locks : \A e \in t.match : e \in stored \cup t.new /\ Bucket[e] = k
  /\ \A k \in Buckets : WriteSound(t, k)
  /\ CrossingLinked(t)

TransactionsApart(t, u) ==
  t.locks \cap u.locks = {} /\ t.new \cap u.new = {} /\ Writing(t) \cap Writing(u) = {}

\* A call runs on an unanswered key; with a row locked, it knows the row.
CallSound(c, v) ==
  /\ v.pc = "idle" => v = NoCall
  /\ v.pc # "idle" => v.request \in Requests /\ record[Scope[c]] = NoRecord
  /\ v.pc = "row" =>
       /\ v.request.kind = "transition" /\ Exists(v.request.incident)
       /\ v.seen = incident[v.request.incident]
       /\ \A b \in Batches : v.request.incident \notin WrittenBy(b)

CallsApart(c, v, d, w) ==
  /\ Scope[c] = Scope[d] => v.pc = "idle" \/ w.pc = "idle"
  /\ v.pc = "row" /\ w.pc = "row" => v.request.incident # w.request.incident

RecordSound(s) ==
  IF record[s] = NoRecord THEN answers[s] = {} /\ effects[s] = 0
  ELSE /\ record[s].request \in Requests
       /\ answers[s] = {<<record[s].request, record[s].answer>>}
       /\ effects[s] = IF record[s].answer = "done" THEN 1 ELSE 0

IncidentsInvariant ==
  /\ IncidentsTypeOK
  /\ \A b \in Batches : TransactionSound(ingest[b])
  /\ \A b \in Batches : \A d \in Batches \ {b} : TransactionsApart(ingest[b], ingest[d])
  /\ \A k \in Buckets : \A i, j \in ActiveIncidents(k) : i = j
  /\ \A e \in stored : EventSound(e)
  /\ \A c \in Callers : CallSound(c, call[c])
  /\ \A c \in Callers : \A d \in Callers \ {c} : CallsApart(c, call[c], d, call[d])
  /\ \A s \in Scopes : RecordSound(s)
  /\ \A i \in IncidentIds : ChainSound(i)

\* What a transaction has found in a bucket, linked or about to be, is what its
\* evaluated events complete with what is stored now: the bucket's lock keeps
\* the commits of other transactions out of these windows.
EvidenceExact(t) ==
  \A k \in Buckets :
    t.writes[k].evidence \cup {e \in t.match : Bucket[e] = k} =
      Atomic!Found(k, t.new \ t.left, stored \cup t.new)

EvidenceIsExact == \A b \in Batches : EvidenceExact(ingest[b])
=============================================================================
