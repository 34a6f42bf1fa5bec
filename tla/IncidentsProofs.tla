--------------------------- MODULE IncidentsProofs ---------------------------
(***************************************************************************)
(* Proofs about Incidents, for any buckets, events, batches, callers, keys *)
(* and requests, and any threshold and window.                             *)
(*                                                                         *)
(* Most steps change one ingestion transaction (IngestStep) or one call    *)
(* (CallStep) and nothing that another one relies on.  Commit and          *)
(* Transition write the incidents: there the invariant says that no other  *)
(* transaction has the row or the bucket that changes.                     *)
(***************************************************************************)
EXTENDS Incidents, FiniteSetTheorems, SequenceTheorems, TLAPS

LEMMA Parameters ==
  /\ IsFiniteSet(Events) /\ Bucket \in [Events -> Buckets]
  /\ Occurred \in [Events -> Nat] /\ \A b \in Batches : Content[b] \subseteq Events
  /\ Threshold \in Nat /\ Threshold >= 1 /\ Window \in Nat
  /\ MaxIncident \in Nat /\ Requests \subseteq RequestType /\ 0 \notin IncidentIds
  BY IncidentsAssumption DEF IncidentsAssumption, IncidentIds

\* A window has no more events than there are, and one that reaches the
\* threshold has some.
LEMMA WindowReached ==
  ASSUME NEW e, NEW S \in SUBSET Events, Cardinality(InWindow(e, S)) >= Threshold
  PROVE  InWindow(e, S) # {}
<1> SUFFICES ASSUME InWindow(e, S) = {} PROVE FALSE
  OBVIOUS
<1> QED BY FS_EmptySet, Parameters

LEMMA OwnWindow ==
  ASSUME NEW S \in SUBSET Events, NEW e \in S
  PROVE  e \in InWindow(e, S)
  BY Parameters DEF InWindow

\* Events of other buckets do not matter to a window.
LEMMA SameWindow ==
  ASSUME NEW e, NEW S, NEW T, \A f : Bucket[f] = Bucket[e] => (f \in S <=> f \in T)
  PROVE  InWindow(e, S) = InWindow(e, T)
  BY DEF InWindow

LEMMA RequestFields ==
  ASSUME NEW r \in Requests
  PROVE  /\ r.kind \in {"transition", "comment"} /\ r.incident \in IncidentIds
         /\ r.kind = "transition" => r.to \in Active \cup Terminal /\ r.expected \in Nat
  BY Parameters DEF RequestType

LEMMA NoTransactionSound ==
  /\ NoTransaction \in TransactionType /\ TransactionSound(NoTransaction)
  /\ Writing(NoTransaction) = {}
  /\ \A t \in TransactionType : TransactionsApart(NoTransaction, t)
<1>1. NoTransaction \in TransactionType /\ Writing(NoTransaction) = {}
  BY Parameters DEF NoTransaction, TransactionType, NoWrite, Writing
<1>2. TransactionSound(NoTransaction)
  BY DEF NoTransaction, NoWrite, TransactionSound, WriteSound, CrossingLinked
<1>3. \A t \in TransactionType : TransactionsApart(NoTransaction, t)
  BY <1>1 DEF NoTransaction, TransactionsApart
<1> QED BY <1>1, <1>2, <1>3

LEMMA NoCallSound ==
  /\ NoCall \in CallType
  /\ \A c : CallSound(c, NoCall)
  /\ \A c, d, w : CallsApart(c, NoCall, d, w) /\ CallsApart(d, w, c, NoCall)
  BY DEF NoCall, CallType, IncidentType, CallSound, CallsApart

-----------------------------------------------------------------------------
(* Steps of one transaction or one call *)

\* Whether a transaction is sound depends on the events and the incidents only.
LEMMA SameTransaction ==
  ASSUME UNCHANGED <<stored, incident>>
  PROVE  \A b : TransactionSound(ingest'[b]) => TransactionSound(ingest[b])'
<1>1. \A k : ActiveIncidents(k)' = ActiveIncidents(k)
  BY DEF ActiveIncidents
<1> SUFFICES ASSUME NEW b, TransactionSound(ingest'[b])
             PROVE  TransactionSound(ingest[b])'
  OBVIOUS
<1>2. ASSUME NEW k \in Buckets
      PROVE  WriteSound(ingest[b], k)'
  <2>1. WriteSound(ingest'[b], k)
    BY DEF TransactionSound
  <2> QED BY <1>1, <2>1 DEF WriteSound
<1>3. CrossingLinked(ingest[b])'
  BY DEF TransactionSound, CrossingLinked
<1> QED BY <1>2, <1>3 DEF TransactionSound

\* A step of one ingestion transaction keeps the invariant if the transaction
\* stays sound, apart from the others, and takes no row an operator has.
LEMMA IngestStep ==
  ASSUME IncidentsInvariant, NEW b \in Batches, NEW u \in TransactionType,
         ingest' = [ingest EXCEPT ![b] = u],
         UNCHANGED <<stored, before, incident, history, callVars>>,
         TransactionSound(u),
         \A d \in Batches \ {b} : TransactionsApart(u, ingest[d]),
         \A i \in Writing(u) \ Writing(ingest[b]) :
           \A c \in Callers : call[c].pc = "row" => call[c].request.incident # i
  PROVE  IncidentsInvariant'
<1> USE DEF callVars
<1>1. IncidentsTypeOK'
  BY DEF IncidentsInvariant, IncidentsTypeOK
<1>2. \A d \in Batches : ingest'[d] = IF d = b THEN u ELSE ingest[d]
  BY DEF IncidentsInvariant, IncidentsTypeOK
<1>3. ASSUME NEW d \in Batches
      PROVE  TransactionSound(ingest[d])'
  <2>1. TransactionSound(ingest'[d])
    BY <1>2 DEF IncidentsInvariant
  <2> QED BY <2>1, SameTransaction
<1>4. ASSUME NEW c \in Batches, NEW d \in Batches \ {c}
      PROVE  TransactionsApart(ingest[c], ingest[d])'
  <2>1. TransactionsApart(ingest'[c], ingest'[d])
    <3>1. CASE c = b
      BY <1>2, <3>1
    <3>2. CASE d = b
      <4>1. TransactionsApart(u, ingest[c])
        BY <3>2
      <4> QED BY <1>2, <3>2, <4>1 DEF TransactionsApart
    <3>3. CASE c # b /\ d # b
      BY <1>2, <3>3 DEF IncidentsInvariant
    <3> QED BY <3>1, <3>2, <3>3
  <2> QED BY <2>1 DEF TransactionsApart, Writing
<1>5. ASSUME NEW c \in Callers
      PROVE  CallSound(c, call[c])'
  <2>1. CallSound(c, call[c])
    BY DEF IncidentsInvariant
  <2>2. ASSUME call[c].pc = "row", NEW d \in Batches
        PROVE  call[c].request.incident \notin Writing(ingest'[d])
    <3>1. call[c].request.incident \notin Writing(ingest[d])
      BY <2>1, <2>2 DEF CallSound, WrittenBy, Writing
    <3>2. CASE d = b
      BY <1>2, <2>2, <3>1, <3>2
    <3>3. CASE d # b
      BY <1>2, <3>1, <3>3
    <3> QED BY <3>2, <3>3
  <2> QED BY <2>1, <2>2 DEF CallSound, Exists, WrittenBy, Writing
<1>6. \A k \in Buckets : \A i, j \in ActiveIncidents(k)' : i = j
  BY DEF IncidentsInvariant, ActiveIncidents
<1>7. \A e \in stored' : EventSound(e)'
  BY DEF IncidentsInvariant, EventSound
<1>8. \A c \in Callers : \A d \in Callers \ {c} : CallsApart(c, call[c], d, call[d])'
  BY DEF IncidentsInvariant, CallsApart
<1>9. (\A s \in Scopes : RecordSound(s))' /\ (\A i \in IncidentIds : ChainSound(i))'
  BY DEF IncidentsInvariant, RecordSound, ChainSound, Exists
<1> QED BY <1>1, <1>3, <1>4, <1>5, <1>6, <1>7, <1>8, <1>9 DEF IncidentsInvariant

\* A step of one call keeps the invariant if the call stays sound, apart from
\* the others, and the record of its key stays sound.
LEMMA CallStep ==
  ASSUME IncidentsInvariant, NEW c \in Callers, NEW v \in CallType,
         call' = [call EXCEPT ![c] = v],
         UNCHANGED <<ingestVars, incident, history>>,
         record' \in [Scopes -> [request: Requests \cup {NoRequest}, answer: AnswerType]],
         answers' \in [Scopes -> SUBSET (Requests \X AnswerType)],
         effects' \in [Scopes -> Nat],
         CallSound(c, v)',
         \A d \in Callers \ {c} : CallsApart(c, v, d, call[d]),
         \A s \in Scopes \ {Scope[c]} :
           record'[s] = record[s] /\ answers'[s] = answers[s] /\ effects'[s] = effects[s],
         record'[Scope[c]] = record[Scope[c]] \/ call[c].pc # "idle",
         RecordSound(Scope[c])'
  PROVE  IncidentsInvariant'
<1> USE DEF ingestVars
<1>1. IncidentsTypeOK'
  BY DEF IncidentsInvariant, IncidentsTypeOK
<1>2. \A d \in Callers : call'[d] = IF d = c THEN v ELSE call[d]
  BY DEF IncidentsInvariant, IncidentsTypeOK
<1>3. ASSUME NEW d \in Callers
      PROVE  CallSound(d, call[d])'
  <2>1. CASE d = c
    BY <1>2, <2>1
  <2>2. CASE d # c
    <3>1. CallSound(d, call[d]) /\ CallsApart(c, call[c], d, call[d])
      BY <2>2 DEF IncidentsInvariant
    <3>2. call[d].pc # "idle" => record'[Scope[d]] = record[Scope[d]]
      BY <3>1 DEF CallsApart, Scopes
    <3> QED BY <1>2, <2>2, <3>1, <3>2 DEF CallSound, Exists, WrittenBy
  <2> QED BY <2>1, <2>2
<1>4. ASSUME NEW d \in Callers, NEW e \in Callers \ {d}
      PROVE  CallsApart(d, call[d], e, call[e])'
  <2>1. CASE d = c
    BY <1>2, <2>1 DEF CallsApart
  <2>2. CASE e = c
    <3>1. CallsApart(c, v, d, call[d])
      BY <2>2
    <3> QED BY <1>2, <2>2, <3>1 DEF CallsApart
  <2>3. CASE d # c /\ e # c
    BY <1>2, <2>3 DEF IncidentsInvariant, CallsApart
  <2> QED BY <2>1, <2>2, <2>3
<1>5. ASSUME NEW s \in Scopes
      PROVE  RecordSound(s)'
  BY DEF IncidentsInvariant, RecordSound
<1>6. ASSUME NEW b \in Batches
      PROVE  TransactionSound(ingest[b])'
  <2>1. TransactionSound(ingest'[b])
    BY DEF IncidentsInvariant
  <2> QED BY <2>1, SameTransaction
<1>7. ASSUME NEW b \in Batches, NEW d \in Batches \ {b}
      PROVE  TransactionsApart(ingest[b], ingest[d])'
  <2>1. TransactionsApart(ingest'[b], ingest'[d])
    BY DEF IncidentsInvariant
  <2> QED BY <2>1 DEF TransactionsApart, Writing
<1>8. \A k \in Buckets : \A i, j \in ActiveIncidents(k)' : i = j
  BY DEF IncidentsInvariant, ActiveIncidents
<1>9. (\A e \in stored : EventSound(e))' /\ (\A i \in IncidentIds : ChainSound(i))'
  BY DEF IncidentsInvariant, EventSound, ChainSound, Exists
<1> QED BY <1>1, <1>3, <1>4, <1>5, <1>6, <1>7, <1>8, <1>9 DEF IncidentsInvariant

-----------------------------------------------------------------------------
(* Ingestion *)

LEMMA SendStep ==
  ASSUME IncidentsInvariant, NEW b \in Batches, Send(b)
  PROVE  IncidentsInvariant'
<1> DEFINE new == Content[b] \ stored
           u == [NoTransaction EXCEPT !.pc = "detect", !.new = new, !.left = new]
<1>1. /\ u.pc = "detect" /\ u.new = new /\ u.left = new /\ u.locks = {} /\ u.match = {}
      /\ \A k \in Buckets : u.writes[k] = NoWrite
  BY DEF NoTransaction
<1>2. new \subseteq Events
  BY Parameters
<1>3. ingest' = [ingest EXCEPT ![b] = u] /\ u \in TransactionType
  BY <1>2, NoTransactionSound DEF Send, TransactionType
<1> HIDE DEF u
<1>4. Writing(u) = {}
  BY <1>1 DEF NoWrite, Writing
<1>5. TransactionSound(u)
  BY <1>1 DEF TransactionSound, WriteSound, NoWrite, CrossingLinked
<1>6. ASSUME NEW d \in Batches \ {b}
      PROVE  TransactionsApart(u, ingest[d])
  <2>1. ingest[d].pc = "idle" => ingest[d].new = {}
    BY DEF IncidentsInvariant, TransactionSound, NoTransaction
  <2>2. u.new \cap ingest[d].new = {}
    BY <1>1, <2>1 DEF Send
  <2> QED BY <1>1, <1>4, <2>2 DEF TransactionsApart
<1> QED BY <1>3, <1>4, <1>5, <1>6, IngestStep DEF Send

LEMMA DetectStep ==
  ASSUME IncidentsInvariant, NEW b \in Batches, NEW e \in Events, Detect(b, e)
  PROVE  IncidentsInvariant'
<1> DEFINE t == ingest[b]
           S == stored \cup t.new
           u == Evaluated(b, e)
<1>1. /\ t \in TransactionType /\ TransactionSound(t) /\ t.pc = "detect"
      /\ e \in t.left /\ S \subseteq Events /\ Bucket[e] \in Buckets
  BY Parameters DEF IncidentsInvariant, IncidentsTypeOK, TransactionType, Detect, Triggers
<1>2. /\ u \in TransactionType /\ u.new = t.new /\ u.left = t.left \ {e} /\ u.writes = t.writes
      /\ u.locks = t.locks \cup {Bucket[e]}
      /\ IF Cardinality(InWindow(e, S)) >= Threshold
         THEN u.pc = "link" /\ u.match = InWindow(e, S)
         ELSE u.pc = "detect" /\ u.match = {}
  BY <1>1 DEF Evaluated, TransactionType, InWindow
<1>3. ingest' = [ingest EXCEPT ![b] = u]
  BY DEF Detect
<1> HIDE DEF u
<1>4. Writing(u) = Writing(t)
  BY <1>2 DEF Writing
<1>5. \A k \in Buckets : WriteSound(u, k)
  BY <1>1, <1>2 DEF TransactionSound, WriteSound
<1>6. e \in InWindow(e, S)
  BY <1>1, OwnWindow DEF TransactionSound
<1>7. CrossingLinked(u)
  <2> SUFFICES ASSUME NEW f \in u.new \ u.left, Cardinality(InWindow(f, S)) >= Threshold
               PROVE  f \in u.match \/ \E k \in Buckets : f \in u.writes[k].evidence
    BY <1>2 DEF CrossingLinked
  <2>1. CASE f = e
    BY <1>2, <1>6, <2>1
  <2>2. CASE f # e
    BY <1>1, <1>2, <2>2 DEF TransactionSound, CrossingLinked
  <2> QED BY <2>1, <2>2
<1>8. TransactionSound(u)
  <2>1. u.pc = "link" => \A f \in u.match : f \in stored \cup u.new /\ Bucket[f] = Bucket[e]
    BY <1>2 DEF InWindow
  <2>2. \A f \in u.new \ u.left : Bucket[f] \in u.locks
    BY <1>1, <1>2 DEF TransactionSound
  <2> QED BY <1>1, <1>2, <1>5, <1>6, <1>7, <2>1, <2>2 DEF TransactionSound
<1>9. \A d \in Batches \ {b} : TransactionsApart(u, ingest[d])
  BY <1>2, <1>4 DEF IncidentsInvariant, TransactionsApart, Detect, LockedByOther
<1> QED BY <1>2, <1>3, <1>4, <1>8, <1>9, IngestStep DEF Detect

\* The evidence of a match has one bucket, and the transaction has locked it.
LEMMA MatchBucketLocked ==
  ASSUME IncidentsInvariant, NEW b \in Batches, ingest[b].pc = "link"
  PROVE  /\ MatchBucket(b) \in Buckets \cap ingest[b].locks
         /\ \A e \in ingest[b].match : e \in stored \cup ingest[b].new /\ Bucket[e] = MatchBucket(b)
<1>1. PICK k \in ingest[b].locks : \A e \in ingest[b].match : e \in stored \cup ingest[b].new /\ Bucket[e] = k
  BY DEF IncidentsInvariant, TransactionSound
<1>2. k \in Buckets /\ ingest[b].match # {}
  BY DEF IncidentsInvariant, IncidentsTypeOK, TransactionType, TransactionSound
<1>3. \A l : (\A e \in ingest[b].match : Bucket[e] = l) => l = k
  BY <1>1, <1>2
<1>4. MatchBucket(b) = k
  BY <1>1, <1>2, <1>3 DEF MatchBucket
<1> QED BY <1>1, <1>2, <1>4

\* What linking leaves of the transaction.
LEMMA LinkedTransaction ==
  ASSUME IncidentsInvariant, NEW b \in Batches, NEW i \in IncidentIds,
         ingest[b].pc = "link", Linked(b, i),
         NEW t, t = ingest[b], NEW k, k = MatchBucket(b)
  PROVE  \E u \in TransactionType :
           /\ ingest' = [ingest EXCEPT ![b] = u]
           /\ u.new = t.new /\ u.left = t.left /\ u.locks = t.locks
           /\ u.pc = "detect" /\ u.match = {}
           /\ u.writes[k] = [incident |-> i, evidence |-> t.writes[k].evidence \cup t.match]
           /\ \A l \in Buckets \ {k} : u.writes[l] = t.writes[l]
<1> DEFINE w == [incident |-> i, evidence |-> t.writes[k].evidence \cup t.match]
           u == [t EXCEPT !.pc = "detect", !.match = {}, !.writes = [t.writes EXCEPT ![k] = w]]
<1>1. t \in TransactionType /\ k \in Buckets
  BY MatchBucketLocked DEF IncidentsInvariant, IncidentsTypeOK
<1>2. w \in [incident: 0..MaxIncident, evidence: SUBSET Events]
  BY <1>1 DEF TransactionType, IncidentIds
<1>3. ingest' = [ingest EXCEPT ![b] =
        [t EXCEPT !.pc = "detect", !.match = {},
           !.writes[k] = [incident |-> i, evidence |-> @.evidence \cup t.match]]]
  BY DEF Linked
<1>4. ingest' = [ingest EXCEPT ![b] = u]
  BY <1>3 DEF TransactionType
<1> HIDE DEF w
<1>5. u \in TransactionType
  BY <1>1, <1>2 DEF TransactionType
<1>6. /\ u.new = t.new /\ u.left = t.left /\ u.locks = t.locks /\ u.pc = "detect" /\ u.match = {}
      /\ u.writes = [t.writes EXCEPT ![k] = w]
  BY <1>1 DEF TransactionType
<1> HIDE DEF u
<1>7. u.writes[k] = w /\ \A l \in Buckets \ {k} : u.writes[l] = t.writes[l]
  BY <1>1, <1>6 DEF TransactionType
<1> QED BY <1>4, <1>5, <1>6, <1>7 DEF w

\* Evidence is linked to the incident the transaction writes in the bucket, to
\* the active one, or to a new one; the last two are nobody else's.
LEMMA LinkedStep ==
  ASSUME IncidentsInvariant, NEW b \in Batches, NEW i \in IncidentIds,
         ingest[b].pc = "link", Linked(b, i),
         UNCHANGED <<stored, before, incident, history, callVars>>,
         \/ ingest[b].writes[MatchBucket(b)].incident = i
         \/ /\ ingest[b].writes[MatchBucket(b)].incident = 0
            /\ RowFree(i)
            /\ ActiveIncidents(MatchBucket(b)) \subseteq {i}
            /\ incident[i].status = "none" \/ i \in ActiveIncidents(MatchBucket(b))
  PROVE  IncidentsInvariant'
<1> DEFINE t == ingest[b]
           k == MatchBucket(b)
<1>1. t \in TransactionType /\ TransactionSound(t) /\ i # 0 /\ t.match # {}
  BY Parameters DEF IncidentsInvariant, IncidentsTypeOK, TransactionSound
<1>2. /\ k \in Buckets \cap t.locks
      /\ \A e \in t.match : e \in stored \cup t.new /\ Bucket[e] = k
  BY MatchBucketLocked
<1> HIDE DEF k
<1>3. PICK u \in TransactionType :
        /\ ingest' = [ingest EXCEPT ![b] = u]
        /\ u.new = t.new /\ u.left = t.left /\ u.locks = t.locks
        /\ u.pc = "detect" /\ u.match = {}
        /\ u.writes[k] = [incident |-> i, evidence |-> t.writes[k].evidence \cup t.match]
        /\ \A l \in Buckets \ {k} : u.writes[l] = t.writes[l]
  BY LinkedTransaction DEF k
<1>4. \A l \in Buckets \ {k} : t.writes[l].incident # i
  <2>1. WriteSound(t, k)
    BY <1>1, <1>2 DEF TransactionSound
  <2>2. CASE t.writes[k].incident = i
    BY <1>1, <2>1, <2>2 DEF WriteSound
  <2>3. CASE RowFree(i)
    BY <1>1, <2>3 DEF RowFree, WrittenBy
  <2> QED BY <2>2, <2>3 DEF k
<1>5. WriteSound(u, k)
  <2>1. \A e \in u.writes[k].evidence : e \in stored \cup u.new /\ Bucket[e] = k
    BY <1>1, <1>2, <1>3 DEF TransactionSound, WriteSound
  <2>2. /\ incident[i].status = "none" \/ i \in ActiveIncidents(k)
        /\ ActiveIncidents(k) \subseteq {i}
    BY <1>1, <1>2 DEF k, TransactionSound, WriteSound
  <2> QED BY <1>1, <1>2, <1>3, <1>4, <2>1, <2>2 DEF WriteSound
<1>6. \A l \in Buckets \ {k} : WriteSound(u, l)
  BY <1>1, <1>3, <1>4 DEF TransactionSound, WriteSound
<1>7. CrossingLinked(u)
  BY <1>1, <1>2, <1>3 DEF TransactionSound, CrossingLinked
<1>8. TransactionSound(u)
  BY <1>1, <1>3, <1>5, <1>6, <1>7 DEF TransactionSound
<1>9. Writing(u) \subseteq Writing(t) \cup {i}
  BY <1>3 DEF Writing
<1>10. i \in Writing(t) \/ RowFree(i)
  BY <1>1, <1>2 DEF k, Writing
<1>11. \A d \in Batches \ {b} : TransactionsApart(u, ingest[d])
  <2>1. u.new = t.new /\ u.locks = t.locks
    BY <1>3
  <2> QED BY <1>9, <1>10, <2>1 DEF IncidentsInvariant, TransactionsApart, RowFree, WrittenBy, Writing
<1>12. \A j \in Writing(u) \ Writing(t) :
         \A c \in Callers : call[c].pc = "row" => call[c].request.incident # j
  BY <1>9, <1>10 DEF RowFree
<1> QED BY <1>3, <1>8, <1>11, <1>12, IngestStep

LEMMA LinkStep ==
  ASSUME IncidentsInvariant, NEW b \in Batches, Link(b)
  PROVE  IncidentsInvariant'
<1> DEFINE k == MatchBucket(b)
           own == ingest[b].writes[k].incident
<1>1. ingest[b].pc = "link" /\ UNCHANGED <<stored, before, incident, history, callVars>>
  BY DEF Link
<1>2. k \in Buckets /\ own \in 0..MaxIncident
  BY <1>1, MatchBucketLocked DEF IncidentsInvariant, IncidentsTypeOK, TransactionType
<1>3. CASE own # 0 /\ Linked(b, own)
  BY <1>1, <1>2, <1>3, LinkedStep, Parameters DEF IncidentIds
<1>4. ASSUME own = 0, NEW i \in ActiveIncidents(k), RowFree(i), Linked(b, i)
      PROVE  IncidentsInvariant'
  <2>1. i \in IncidentIds /\ ActiveIncidents(k) \subseteq {i}
    BY <1>2, <1>4 DEF IncidentsInvariant, ActiveIncidents
  <2> QED BY <1>1, <1>4, <2>1, LinkedStep
<1>5. ASSUME own = 0, ActiveIncidents(k) = {}, NEW i \in Unused, Linked(b, i)
      PROVE  IncidentsInvariant'
  BY <1>1, <1>5, LinkedStep DEF Unused
<1> QED BY <1>3, <1>4, <1>5 DEF Link

LEMMA RollBackStep ==
  ASSUME IncidentsInvariant, NEW b \in Batches, RollBack(b)
  PROVE  IncidentsInvariant'
<1>1. \A d \in Batches : ingest[d] \in TransactionType
  BY DEF IncidentsInvariant, IncidentsTypeOK
<1> QED BY <1>1, NoTransactionSound, IngestStep DEF RollBack

-----------------------------------------------------------------------------
(* The commit of an ingestion transaction *)

\* A write has a bucket of its own, so what it does to its incident is known.
LEMMA CommitWrites ==
  ASSUME IncidentsInvariant, NEW b \in Batches, Commit(b), NEW k \in Buckets,
         NEW i, i = ingest[b].writes[k].incident, i # 0
  PROVE  /\ i \in IncidentIds /\ i \in WrittenBy(b)
         /\ incident'[i] \in IncidentType
         /\ incident'[i].bucket = k /\ incident'[i].status \in Active
         /\ incident'[i].evidence = incident[i].evidence \cup ingest[b].writes[k].evidence
         /\ incident[i].status = "none" =>
              /\ incident'[i].status = "new" /\ incident'[i].version = 1
              /\ history'[i] = <<Baseline>>
         /\ incident[i].status # "none" =>
              /\ incident[i].bucket = k /\ incident[i].status \in Active
              /\ incident'[i].status = incident[i].status
              /\ incident'[i].version = incident[i].version
              /\ history'[i] = history[i]
<1> DEFINE t == ingest[b]
           wrote == CHOOSE l \in Buckets : t.writes[l].incident = i
<1>1. /\ t \in TransactionType /\ WriteSound(t, k) /\ incident[i] \in IncidentType
      /\ i \in IncidentIds /\ i \in WrittenBy(b)
  <2>1. t \in TransactionType /\ WriteSound(t, k)
    BY DEF IncidentsInvariant, IncidentsTypeOK, TransactionSound
  <2>2. i \in IncidentIds
    BY <2>1, Parameters DEF TransactionType, IncidentIds
  <2> QED BY <2>1, <2>2 DEF IncidentsInvariant, IncidentsTypeOK, WrittenBy
<1>2. wrote = k
  BY <1>1 DEF WriteSound
<1>3. t.writes[k].evidence \in (SUBSET Events) \ {{}}
  BY <1>1 DEF WriteSound, TransactionType
<1>4. CASE incident[i].status = "none"
  <2>1. incident[i].evidence = {}
    BY <1>1, <1>4 DEF IncidentType, NoIncident, Active, Terminal
  <2>2. incident'[i] = [status |-> "new", bucket |-> k, version |-> 1, evidence |-> t.writes[k].evidence]
    BY <1>1, <1>2, <1>4 DEF Commit
  <2>3. history'[i] = <<Baseline>>
    BY <1>1, <1>4 DEF Commit
  <2> QED BY <1>1, <1>3, <1>4, <2>1, <2>2, <2>3 DEF IncidentType, Active
<1>5. CASE incident[i].status # "none"
  <2>1. incident[i].bucket = k /\ incident[i].status \in Active
    BY <1>1, <1>5 DEF WriteSound, ActiveIncidents
  <2>2. incident'[i] = [incident[i] EXCEPT !.evidence = incident[i].evidence \cup t.writes[k].evidence]
    BY <1>1, <1>2, <1>5 DEF Commit
  <2>3. history'[i] = history[i]
    BY <1>1, <1>5 DEF Commit
  <2>4. incident[i] \in [status: Active \cup Terminal, bucket: Buckets, version: Nat \ {0},
                         evidence: (SUBSET Events) \ {{}}]
    BY <1>1, <1>5 DEF IncidentType, NoIncident
  <2>5. incident'[i].evidence = incident[i].evidence \cup t.writes[k].evidence
    BY <2>2, <2>4
  <2>6. incident'[i].evidence \in (SUBSET Events) \ {{}}
    BY <1>3, <2>4, <2>5
  <2>7. incident'[i] \in IncidentType
    BY <2>2, <2>4, <2>5, <2>6 DEF IncidentType
  <2>8. /\ incident'[i].status = incident[i].status /\ incident'[i].bucket = incident[i].bucket
        /\ incident'[i].version = incident[i].version
    BY <2>2, <2>4
  <2> QED BY <1>1, <1>5, <2>1, <2>3, <2>5, <2>7, <2>8
<1> QED BY <1>1, <1>4, <1>5

LEMMA CommitOthers ==
  ASSUME IncidentsInvariant, NEW b \in Batches, Commit(b)
  PROVE  /\ \A i \in IncidentIds \ WrittenBy(b) :
              incident'[i] = incident[i] /\ history'[i] = history[i]
         /\ \A i \in WrittenBy(b) : \E k \in Buckets : i = ingest[b].writes[k].incident /\ i # 0
         /\ \A d \in Batches : ingest'[d] = IF d = b THEN NoTransaction ELSE ingest[d]
         /\ stored' = stored \cup ingest[b].new /\ stored' \subseteq Events
         /\ \A e \in Events : before'[e] = IF e \in ingest[b].new THEN stored' ELSE before[e]
         /\ \A i \in IncidentIds : incident[i].evidence \subseteq incident'[i].evidence
<1>1. \A i \in IncidentIds \ WrittenBy(b) : incident'[i] = incident[i] /\ history'[i] = history[i]
  BY DEF Commit
<1>2. \A i \in WrittenBy(b) : \E k \in Buckets : i = ingest[b].writes[k].incident /\ i # 0
  BY DEF WrittenBy
<1>3. /\ \A d \in Batches : ingest'[d] = IF d = b THEN NoTransaction ELSE ingest[d]
      /\ stored' = stored \cup ingest[b].new /\ stored' \subseteq Events
      /\ \A e \in Events : before'[e] = IF e \in ingest[b].new THEN stored' ELSE before[e]
  BY DEF Commit, IncidentsInvariant, IncidentsTypeOK, TransactionType
<1>4. ASSUME NEW i \in IncidentIds
      PROVE  incident[i].evidence \subseteq incident'[i].evidence
  BY <1>1, <1>2, CommitWrites
<1> QED BY <1>1, <1>2, <1>3, <1>4

LEMMA CommitType ==
  ASSUME IncidentsInvariant, NEW b \in Batches, Commit(b)
  PROVE  IncidentsTypeOK'
<1>1. stored' \subseteq Events /\ stored \subseteq stored' /\ ingest[b].new \subseteq stored'
  BY CommitOthers
<1>2. ingest' \in [Batches -> TransactionType]
  BY NoTransactionSound DEF Commit, IncidentsInvariant, IncidentsTypeOK
<1>3. ASSUME NEW i \in IncidentIds
      PROVE  /\ incident'[i] \in IncidentType /\ history'[i] \in Seq(HistoryType)
             /\ \A e \in incident'[i].evidence : e \in stored' /\ Bucket[e] = incident'[i].bucket
  <2>1. /\ incident[i] \in IncidentType /\ history[i] \in Seq(HistoryType)
        /\ \A e \in incident[i].evidence : e \in stored /\ Bucket[e] = incident[i].bucket
    BY DEF IncidentsInvariant, IncidentsTypeOK
  <2>2. CASE i \notin WrittenBy(b)
    BY <1>1, <2>1, <2>2, CommitOthers
  <2>3. ASSUME NEW k \in Buckets, i = ingest[b].writes[k].incident, i # 0
        PROVE  /\ incident'[i] \in IncidentType /\ history'[i] \in Seq(HistoryType)
               /\ \A e \in incident'[i].evidence : e \in stored' /\ Bucket[e] = incident'[i].bucket
    <3>1. incident'[i] \in IncidentType /\ incident'[i].bucket = k
      BY <2>3, CommitWrites
    <3>2. <<Baseline>> \in Seq(HistoryType)
      <4>1. Baseline \in HistoryType
        BY DEF Baseline, HistoryType, Active
      <4> QED BY <4>1
    <3>3. history'[i] \in Seq(HistoryType)
      <4>1. history'[i] = <<Baseline>> \/ history'[i] = history[i]
        BY <2>3, CommitWrites
      <4> QED BY <2>1, <3>2, <4>1
    <3>4. incident[i].evidence # {} => incident[i].status # "none" /\ incident[i].bucket = k
      BY <2>1, <2>3, CommitWrites DEF IncidentType, NoIncident, Active, Terminal
    <3>5. \A e \in ingest[b].writes[k].evidence : e \in stored' /\ Bucket[e] = k
      BY <2>3, CommitOthers DEF IncidentsInvariant, TransactionSound, WriteSound
    <3>6. incident'[i].evidence = incident[i].evidence \cup ingest[b].writes[k].evidence
      BY <2>3, CommitWrites
    <3> QED BY <1>1, <2>1, <3>1, <3>3, <3>4, <3>5, <3>6
  <2> QED BY <2>2, <2>3, CommitOthers
<1>4. incident' \in [IncidentIds -> IncidentType] /\ history' \in [IncidentIds -> Seq(HistoryType)]
  BY <1>3 DEF Commit
<1>5. before' \in [Events -> SUBSET Events]
  BY <1>1 DEF Commit, IncidentsInvariant, IncidentsTypeOK
<1> QED BY <1>1, <1>2, <1>3, <1>4, <1>5 DEF IncidentsInvariant, IncidentsTypeOK, Commit, callVars

\* A bucket the transaction has written has that incident as its only active
\* one; the other buckets keep theirs.
LEMMA CommitActive ==
  ASSUME IncidentsInvariant, NEW b \in Batches, Commit(b), NEW k \in Buckets
  PROVE  LET i == ingest[b].writes[k].incident IN
         IF i # 0 THEN ActiveIncidents(k)' \subseteq {i}
         ELSE ActiveIncidents(k)' = ActiveIncidents(k)
<1> DEFINE w == ingest[b].writes
<1>1. WriteSound(ingest[b], k)
  BY DEF IncidentsInvariant, TransactionSound
<1>2. ASSUME NEW j \in WrittenBy(b)
      PROVE  /\ j \in ActiveIncidents(k)' => j = w[k].incident
             /\ j \in ActiveIncidents(k) => j = w[k].incident
  <2>1. PICK l \in Buckets : j = w[l].incident /\ j # 0
    BY CommitOthers
  <2>2. incident'[j].bucket = l
    BY <2>1, CommitWrites
  <2>3. j \in ActiveIncidents(k) => incident[j].bucket = l
    BY <2>1, CommitWrites DEF ActiveIncidents, Active
  <2> QED BY <2>1, <2>2, <2>3 DEF ActiveIncidents
<1>3. \A j \in IncidentIds \ WrittenBy(b) : j \in ActiveIncidents(k)' <=> j \in ActiveIncidents(k)
  BY CommitOthers DEF ActiveIncidents
<1>4. w[k].incident = 0 => w[k].incident \notin IncidentIds
  BY Parameters
<1>5. CASE w[k].incident = 0
  BY <1>2, <1>3, <1>4, <1>5 DEF ActiveIncidents
<1>6. CASE w[k].incident # 0
  <2>1. ActiveIncidents(k) \subseteq {w[k].incident}
    BY <1>1, <1>6 DEF WriteSound
  <2> QED BY <1>2, <1>3, <1>6, <2>1 DEF ActiveIncidents
<1> QED BY <1>5, <1>6

\* A commit gives the other transactions no event and no incident in a bucket
\* they have locked.
LEMMA CommitKeepsOther ==
  ASSUME IncidentsInvariant, NEW b \in Batches, Commit(b), NEW d \in Batches \ {b}
  PROVE  TransactionSound(ingest[d])'
<1> DEFINE t == ingest[b]
           u == ingest[d]
<1>1. /\ TransactionSound(t) /\ TransactionSound(u) /\ TransactionsApart(t, u)
      /\ t \in TransactionType /\ u \in TransactionType
  BY DEF IncidentsInvariant, IncidentsTypeOK
<1>2. ingest'[d] = u /\ t.left = {} /\ stored' = stored \cup t.new
  BY CommitOthers DEF Commit
<1>3. \A e \in t.new : Bucket[e] \notin u.locks
  BY <1>1, <1>2 DEF TransactionSound, TransactionsApart
<1>4. ASSUME NEW k \in Buckets
      PROVE  WriteSound(ingest[d], k)'
  <2>1. CASE u.writes[k].incident = 0
    BY <1>1, <1>2, <2>1 DEF TransactionSound, WriteSound
  <2>2. CASE u.writes[k].incident # 0
    <3>1. WriteSound(u, k) /\ WriteSound(t, k)
      BY <1>1 DEF TransactionSound
    <3>2. t.writes[k].incident = 0
      BY <1>1, <2>2, <3>1 DEF WriteSound, TransactionsApart
    <3>3. ActiveIncidents(k)' = ActiveIncidents(k)
      BY <3>2, CommitActive
    <3>4. u.writes[k].incident \in IncidentIds \ WrittenBy(b)
      <4>1. u.writes[k].incident \in 0..MaxIncident
        BY <1>1 DEF TransactionType
      <4>2. u.writes[k].incident \in Writing(u)
        BY <2>2 DEF Writing
      <4>3. Writing(t) = WrittenBy(b)
        BY DEF Writing, WrittenBy
      <4> QED BY <1>1, <2>2, <4>1, <4>2, <4>3, Parameters DEF IncidentIds, TransactionsApart
    <3>5. incident'[u.writes[k].incident] = incident[u.writes[k].incident]
      BY <3>4, CommitOthers
    <3> QED BY <1>2, <2>2, <3>1, <3>3, <3>5 DEF WriteSound
  <2> QED BY <2>1, <2>2
<1>5. ASSUME NEW e \in u.new \ u.left, Cardinality(InWindow(e, stored' \cup u.new)) >= Threshold
      PROVE  e \in u.match \/ \E k \in Buckets : e \in u.writes[k].evidence
  <2>1. Bucket[e] \in u.locks
    BY <1>1 DEF TransactionSound
  <2>2. \A f : Bucket[f] = Bucket[e] => (f \in stored' \cup u.new <=> f \in stored \cup u.new)
    BY <1>2, <1>3, <2>1
  <2>3. InWindow(e, stored' \cup u.new) = InWindow(e, stored \cup u.new)
    BY <2>2 DEF InWindow
  <2> QED BY <1>1, <1>5, <2>3 DEF TransactionSound, CrossingLinked
<1>6. CrossingLinked(ingest[d])'
  BY <1>2, <1>5 DEF CrossingLinked, InWindow
<1>7. u.new \cap stored' = {}
  BY <1>1, <1>2 DEF TransactionSound, TransactionsApart
<1>8. u.pc = "link" =>
        /\ u.match # {}
        /\ \E k \in u.locks : \A e \in u.match : e \in stored' \cup u.new /\ Bucket[e] = k
  BY <1>1, <1>2 DEF TransactionSound
<1> QED BY <1>1, <1>2, <1>4, <1>6, <1>7, <1>8 DEF TransactionSound

\* What the batch completed is evidence now.
LEMMA CommitEvents ==
  ASSUME IncidentsInvariant, NEW b \in Batches, Commit(b), NEW e \in stored'
  PROVE  EventSound(e)'
<1> DEFINE t == ingest[b]
<1>1. /\ TransactionSound(t) /\ t \in TransactionType /\ t.pc = "detect" /\ t.left = {}
      /\ e \in Events /\ e \in stored \cup t.new
  BY CommitOthers DEF IncidentsInvariant, IncidentsTypeOK, Commit
<1> SUFFICES ASSUME Cardinality(InWindow(e, before'[e])) >= Threshold
             PROVE  \E i \in IncidentIds : e \in incident'[i].evidence
  BY DEF EventSound, InWindow
<1>2. CASE e \in t.new
  <2>1. before'[e] = stored \cup t.new
    BY <1>1, <1>2, CommitOthers
  <2>2. PICK k \in Buckets : e \in t.writes[k].evidence
    BY <1>1, <1>2, <2>1 DEF TransactionSound, CrossingLinked
  <2>3. t.writes[k].incident # 0
    BY <1>1, <2>2 DEF TransactionSound, WriteSound
  <2> QED BY <2>2, <2>3, CommitWrites
<1>3. CASE e \notin t.new
  <2>1. e \in stored /\ before'[e] = before[e]
    BY <1>1, <1>3, CommitOthers
  <2>2. PICK i \in IncidentIds : e \in incident[i].evidence
    BY <2>1 DEF IncidentsInvariant, EventSound
  <2> QED BY <2>2, CommitOthers
<1> QED BY <1>2, <1>3

LEMMA CommitStep ==
  ASSUME IncidentsInvariant, NEW b \in Batches, Commit(b)
  PROVE  IncidentsInvariant'
<1>1. UNCHANGED <<call, record, answers, effects>>
  BY DEF Commit, callVars
<1>2. \A d \in Batches : ingest'[d] = IF d = b THEN NoTransaction ELSE ingest[d]
  BY CommitOthers
<1>3. ASSUME NEW d \in Batches
      PROVE  TransactionSound(ingest[d])'
  <2>1. CASE d = b
    <3>1. ingest'[d] = NoTransaction
      BY <1>2, <2>1
    <3> QED BY <3>1 DEF NoTransaction, NoWrite, TransactionSound, WriteSound, CrossingLinked
  <2>2. CASE d # b
    BY <2>2, CommitKeepsOther
  <2> QED BY <2>1, <2>2
<1>4. ASSUME NEW c \in Batches, NEW d \in Batches \ {c}
      PROVE  TransactionsApart(ingest[c], ingest[d])'
  <2>1. TransactionsApart(ingest'[c], ingest'[d])
    <3>1. CASE c = b
      BY <1>2, <3>1, NoTransactionSound DEF TransactionsApart, NoTransaction
    <3>2. CASE d = b
      BY <1>2, <3>2, NoTransactionSound DEF TransactionsApart, NoTransaction
    <3>3. CASE c # b /\ d # b
      BY <1>2, <3>3 DEF IncidentsInvariant
    <3> QED BY <3>1, <3>2, <3>3
  <2> QED BY <2>1 DEF TransactionsApart, Writing
<1>5. ASSUME NEW k \in Buckets, NEW i \in ActiveIncidents(k)', NEW j \in ActiveIncidents(k)'
      PROVE  i = j
  BY CommitActive DEF IncidentsInvariant
<1>6. ASSUME NEW c \in Callers
      PROVE  CallSound(c, call[c])'
  <2>1. CallSound(c, call[c])
    BY DEF IncidentsInvariant
  <2>2. ASSUME call[c].pc = "row"
        PROVE  /\ incident'[call[c].request.incident] = incident[call[c].request.incident]
               /\ \A d \in Batches : call[c].request.incident \notin Writing(ingest'[d])
    <3>1. call[c].request.incident \in IncidentIds
      BY <2>1, <2>2, RequestFields DEF CallSound
    <3>2. \A d \in Batches : call[c].request.incident \notin Writing(ingest[d])
      BY <2>1, <2>2 DEF CallSound, WrittenBy, Writing
    <3>3. call[c].request.incident \notin WrittenBy(b)
      BY <2>1, <2>2 DEF CallSound
    <3> QED BY <1>2, <3>1, <3>2, <3>3, CommitOthers, NoTransactionSound
  <2> QED BY <1>1, <2>1, <2>2 DEF CallSound, Exists, WrittenBy, Writing
<1>7. \A c \in Callers : \A d \in Callers \ {c} : CallsApart(c, call[c], d, call[d])'
  BY <1>1 DEF IncidentsInvariant, CallsApart
<1>8. (\A s \in Scopes : RecordSound(s))'
  BY <1>1 DEF IncidentsInvariant, RecordSound
<1>9. ASSUME NEW i \in IncidentIds
      PROVE  ChainSound(i)'
  <2>1. ChainSound(i)
    BY DEF IncidentsInvariant
  <2>2. CASE i \notin WrittenBy(b)
    BY <2>1, <2>2, CommitOthers DEF ChainSound, Exists
  <2>3. CASE i \in WrittenBy(b)
    <3>1. PICK k \in Buckets : i = ingest[b].writes[k].incident /\ i # 0
      BY <2>3, CommitOthers
    <3>2. CASE incident[i].status = "none"
      <4>1. incident'[i].status = "new" /\ incident'[i].version = 1 /\ history'[i] = <<Baseline>>
        BY <3>1, <3>2, CommitWrites
      <4>2. Len(<<Baseline>>) = 1 /\ <<Baseline>>[1] = Baseline /\ 2..1 = {} /\ Baseline.to = "new"
        BY DEF Baseline
      <4> HIDE DEF Baseline
      <4> QED BY <4>1, <4>2 DEF ChainSound
    <3>3. CASE incident[i].status # "none"
      <4>1. /\ incident'[i].status = incident[i].status
            /\ incident'[i].version = incident[i].version /\ history'[i] = history[i]
        BY <3>1, <3>3, CommitWrites
      <4> QED BY <2>1, <3>3, <4>1 DEF ChainSound, Exists
    <3> QED BY <3>2, <3>3
  <2> QED BY <2>2, <2>3
<1> QED BY <1>3, <1>4, <1>5, <1>6, <1>7, <1>8, <1>9, CommitType, CommitEvents DEF IncidentsInvariant

-----------------------------------------------------------------------------
(* The operators' calls *)

\* An outcome is stored once, in a record no other running call relies on.
LEMMA OutcomeStored ==
  ASSUME IncidentsInvariant, NEW c \in Callers, NEW answer \in AnswerType \ {"none"},
         call[c].pc # "idle", StoreOutcome(c, answer)
  PROVE  /\ call' = [call EXCEPT ![c] = NoCall]
         /\ record' \in [Scopes -> [request: Requests \cup {NoRequest}, answer: AnswerType]]
         /\ answers' \in [Scopes -> SUBSET (Requests \X AnswerType)]
         /\ effects' \in [Scopes -> Nat]
         /\ \A s \in Scopes \ {Scope[c]} :
              record'[s] = record[s] /\ answers'[s] = answers[s] /\ effects'[s] = effects[s]
         /\ RecordSound(Scope[c])'
<1> DEFINE s == Scope[c]
           r == call[c].request
<1>1. s \in Scopes /\ r \in Requests /\ record[s] = NoRecord
  BY DEF Scopes, IncidentsInvariant, CallSound
<1>2. answers[s] = {} /\ effects[s] = 0
  BY <1>1 DEF IncidentsInvariant, RecordSound
<1>3. /\ record \in [Scopes -> [request: Requests \cup {NoRequest}, answer: AnswerType]]
      /\ answers \in [Scopes -> SUBSET (Requests \X AnswerType)] /\ effects \in [Scopes -> Nat]
  BY DEF IncidentsInvariant, IncidentsTypeOK
<1>4. /\ record' \in [Scopes -> [request: Requests \cup {NoRequest}, answer: AnswerType]]
      /\ record'[s] = [request |-> r, answer |-> answer]
      /\ \A z \in Scopes \ {s} : record'[z] = record[z]
  BY <1>1, <1>3 DEF StoreOutcome
<1>5. /\ answers' \in [Scopes -> SUBSET (Requests \X AnswerType)]
      /\ answers'[s] = {<<r, answer>>}
      /\ \A z \in Scopes \ {s} : answers'[z] = answers[z]
  BY <1>1, <1>2, <1>3 DEF StoreOutcome, Answer
<1>6. /\ effects' \in [Scopes -> Nat]
      /\ effects'[s] = IF answer = "done" THEN 1 ELSE 0
      /\ \A z \in Scopes \ {s} : effects'[z] = effects[z]
  BY <1>1, <1>2, <1>3 DEF StoreOutcome
<1>7. record'[s] # NoRecord
  BY <1>4 DEF NoRecord
<1>8. RecordSound(s)'
  BY <1>1, <1>4, <1>5, <1>6, <1>7 DEF RecordSound, NoRecord
<1> QED BY <1>4, <1>5, <1>6, <1>8 DEF StoreOutcome

LEMMA StoreOutcomeStep ==
  ASSUME IncidentsInvariant, NEW c \in Callers, NEW answer \in AnswerType \ {"none"},
         call[c].pc # "idle", StoreOutcome(c, answer),
         UNCHANGED <<ingestVars, incident, history>>
  PROVE  IncidentsInvariant'
<1>1. CallSound(c, NoCall)'
  BY DEF CallSound, NoCall
<1> QED BY <1>1, NoCallSound, OutcomeStored, CallStep

LEMMA TakeKeyStep ==
  ASSUME IncidentsInvariant, NEW c \in Callers, TakeKey(c)
  PROVE  IncidentsInvariant'
<1> DEFINE s == Scope[c]
           found == record[s]
<1>1. /\ s \in Scopes /\ call \in [Callers -> CallType] /\ CallSound(c, call[c])
      /\ record \in [Scopes -> [request: Requests \cup {NoRequest}, answer: AnswerType]]
      /\ answers \in [Scopes -> SUBSET (Requests \X AnswerType)] /\ effects \in [Scopes -> Nat]
      /\ RecordSound(s)
      /\ \A d \in Callers \ {c} : CallsApart(c, call[c], d, call[d])
  BY DEF Scopes, IncidentsInvariant, IncidentsTypeOK
<1>2. call[c].pc = "idle" /\ ScopeFree(c) /\ UNCHANGED <<ingestVars, incident, history, record, effects>>
  BY DEF TakeKey
<1>3. PICK r \in Requests :
       \/ /\ found = NoRecord
          /\ call' = [call EXCEPT ![c] = [pc |-> "key", request |-> r, seen |-> NoIncident]]
          /\ UNCHANGED answers
       \/ /\ found # NoRecord /\ found.request = r
          /\ Answer(c, r, found.answer)
          /\ UNCHANGED call
       \/ /\ found # NoRecord /\ found.request # r
          /\ UNCHANGED <<call, answers>>
  BY DEF TakeKey
<1>4. CASE found = NoRecord /\ UNCHANGED answers
           /\ call' = [call EXCEPT ![c] = [pc |-> "key", request |-> r, seen |-> NoIncident]]
  <2> DEFINE v == [pc |-> "key", request |-> r, seen |-> NoIncident]
  <2>1. v \in CallType
    BY DEF CallType, IncidentType
  <2>2. CallSound(c, v)'
    BY <1>2, <1>4 DEF CallSound
  <2>3. \A d \in Callers \ {c} : CallsApart(c, v, d, call[d])
    BY <1>2 DEF CallsApart, ScopeFree
  <2>4. RecordSound(s)'
    BY <1>1, <1>2, <1>4 DEF RecordSound
  <2> HIDE DEF v
  <2>5. call' = [call EXCEPT ![c] = v]
    BY <1>4 DEF v
  <2> QED BY <1>1, <1>2, <1>4, <2>1, <2>2, <2>3, <2>4, <2>5, CallStep
<1>5. CASE found # NoRecord /\ UNCHANGED call /\ (Answer(c, found.request, found.answer) \/ UNCHANGED answers)
  <2>1. answers[s] = {<<found.request, found.answer>>}
    BY <1>1, <1>5 DEF RecordSound
  <2>2. answers' = answers
    <3>1. CASE Answer(c, found.request, found.answer)
      <4>1. answers' = [answers EXCEPT ![s] = answers[s] \cup {<<found.request, found.answer>>}]
        BY <3>1 DEF Answer
      <4>2. answers[s] \cup {<<found.request, found.answer>>} = answers[s]
        BY <2>1
      <4> QED BY <1>1, <4>1, <4>2
    <3> QED BY <1>5, <3>1
  <2>3. call' = [call EXCEPT ![c] = call[c]]
    BY <1>1, <1>5
  <2>4. RecordSound(s)'
    BY <1>1, <1>2, <2>2 DEF RecordSound
  <2>5. CallSound(c, NoCall)'
    BY DEF CallSound, NoCall
  <2>6. call[c] = NoCall
    BY <1>1, <1>2 DEF CallSound
  <2> QED BY <1>1, <1>2, <2>2, <2>3, <2>4, <2>5, <2>6, NoCallSound, CallStep
<1> QED BY <1>3, <1>4, <1>5

LEMMA TakeRowStep ==
  ASSUME IncidentsInvariant, NEW c \in Callers, TakeRow(c)
  PROVE  IncidentsInvariant'
<1> DEFINE r == call[c].request
<1> PICK v : v = [pc |-> "row", request |-> r, seen |-> incident[r.incident]]
  OBVIOUS
<1>1. /\ call[c].pc = "key" /\ r.kind = "transition" /\ Exists(r.incident) /\ RowFree(r.incident)
      /\ call' = [call EXCEPT ![c] = v]
      /\ UNCHANGED <<ingestVars, incident, history, record, answers, effects>>
  BY DEF TakeRow
<1>2. r \in Requests /\ record[Scope[c]] = NoRecord /\ Scope[c] \in Scopes
  BY <1>1 DEF IncidentsInvariant, CallSound, Scopes
<1>3. r.incident \in IncidentIds /\ incident[r.incident] \in IncidentType
  BY <1>2, RequestFields DEF IncidentsInvariant, IncidentsTypeOK
<1>4. v \in CallType
  BY <1>2, <1>3 DEF CallType
<1>5. CallSound(c, v)'
  <2>1. \A b \in Batches : r.incident \notin WrittenBy(b)'
    BY <1>1 DEF RowFree, WrittenBy, ingestVars
  <2> QED BY <1>1, <1>2, <2>1 DEF CallSound, Exists
<1>6. ASSUME NEW d \in Callers \ {c}
      PROVE  CallsApart(c, v, d, call[d])
  <2>1. CallsApart(c, call[c], d, call[d])
    BY DEF IncidentsInvariant
  <2> QED BY <1>1, <2>1 DEF CallsApart, RowFree
<1>7. RecordSound(Scope[c])'
  BY <1>1, <1>2 DEF IncidentsInvariant, RecordSound
<1>8. /\ record' \in [Scopes -> [request: Requests \cup {NoRequest}, answer: AnswerType]]
      /\ answers' \in [Scopes -> SUBSET (Requests \X AnswerType)] /\ effects' \in [Scopes -> Nat]
  BY <1>1 DEF IncidentsInvariant, IncidentsTypeOK
<1> QED BY <1>1, <1>4, <1>5, <1>6, <1>7, <1>8, CallStep

LEMMA CallFailsStep ==
  ASSUME IncidentsInvariant, NEW c \in Callers, CallFails(c)
  PROVE  IncidentsInvariant'
<1>1. /\ call' = [call EXCEPT ![c] = NoCall]
      /\ UNCHANGED <<ingestVars, incident, history, record, answers, effects>>
  BY DEF CallFails
<1>2. CallSound(c, NoCall)'
  BY DEF CallSound, NoCall
<1>3. RecordSound(Scope[c])'
  BY <1>1 DEF IncidentsInvariant, RecordSound, Scopes
<1>4. /\ record' \in [Scopes -> [request: Requests \cup {NoRequest}, answer: AnswerType]]
      /\ answers' \in [Scopes -> SUBSET (Requests \X AnswerType)] /\ effects' \in [Scopes -> Nat]
  BY <1>1 DEF IncidentsInvariant, IncidentsTypeOK
<1> QED BY <1>1, <1>2, <1>3, <1>4, NoCallSound, CallStep

-----------------------------------------------------------------------------
(* The transition of an incident *)

\* What a transition does to its incident, which is as the operator has read it.
Moves(c, i, r) ==
  /\ r = call[c].request /\ i = r.incident
  /\ i \in IncidentIds /\ r.to \in Active \cup Terminal /\ call[c].seen = incident[i]
  /\ \A b \in Batches : i \notin WrittenBy(b)
  /\ incident[i] \in [status: Active \cup Terminal, bucket: Buckets, version: Nat \ {0},
                      evidence: (SUBSET Events) \ {{}}]
  /\ incident[i].status \in Active /\ incident[i].version = r.expected
  /\ <<incident[i].status, r.to>> \in AllowedTransitions
  /\ incident'[i] = [incident[i] EXCEPT !.status = r.to, !.version = incident[i].version + 1]
  /\ history'[i] = Append(history[i],
       [from |-> incident[i].status, to |-> r.to, expected |-> r.expected, scope |-> Scope[c]])
  /\ \A j \in IncidentIds \ {i} : incident'[j] = incident[j] /\ history'[j] = history[j]

\* The row an operator has locked is as it was read, and nobody writes it.
LEMMA RowKnown ==
  ASSUME IncidentsInvariant, NEW c \in Callers, Transition(c),
         NEW r, r = call[c].request, NEW i, i = r.incident
  PROVE  Moves(c, i, r)
<1>1. call[c].pc = "row" /\ call[c].seen.version = r.expected /\ <<call[c].seen.status, r.to>> \in AllowedTransitions
  BY DEF Transition
<1>2. /\ r \in Requests /\ r.kind = "transition" /\ Exists(i) /\ call[c].seen = incident[i]
      /\ \A b \in Batches : i \notin WrittenBy(b)
  BY <1>1 DEF IncidentsInvariant, CallSound
<1>3. i \in IncidentIds /\ r.to \in Active \cup Terminal
  BY <1>2, RequestFields
<1>4. incident[i] \in [status: Active \cup Terminal, bucket: Buckets, version: Nat \ {0},
                       evidence: (SUBSET Events) \ {{}}]
  BY <1>2, <1>3 DEF IncidentsInvariant, IncidentsTypeOK, IncidentType, NoIncident, Exists
<1>5. incident[i].status \in Active
  BY <1>1, <1>2 DEF AllowedTransitions, Active
<1>6. incident \in [IncidentIds -> IncidentType] /\ history \in [IncidentIds -> Seq(HistoryType)]
  BY DEF IncidentsInvariant, IncidentsTypeOK
<1>7. /\ incident'[i] = [incident[i] EXCEPT !.status = r.to, !.version = incident[i].version + 1]
      /\ \A j \in IncidentIds \ {i} : incident'[j] = incident[j]
  BY <1>2, <1>3, <1>6 DEF Transition
<1>8. /\ history'[i] = Append(history[i],
           [from |-> incident[i].status, to |-> r.to, expected |-> r.expected, scope |-> Scope[c]])
      /\ \A j \in IncidentIds \ {i} : history'[j] = history[j]
  BY <1>2, <1>3, <1>6 DEF Transition
<1> QED BY <1>1, <1>2, <1>3, <1>4, <1>5, <1>7, <1>8 DEF Moves

LEMMA TransitionType ==
  ASSUME IncidentsInvariant, NEW c \in Callers, Transition(c),
         NEW r, NEW i, Moves(c, i, r)
  PROVE  IncidentsTypeOK'
<1> DEFINE h == [from |-> incident[i].status, to |-> r.to, expected |-> r.expected, scope |-> Scope[c]]
<1>1. call[c].pc # "idle" /\ StoreOutcome(c, "done") /\ UNCHANGED ingestVars /\ "done" \in AnswerType \ {"none"}
  BY DEF Transition, AnswerType
<1>2. /\ call' \in [Callers -> CallType]
      /\ record' \in [Scopes -> [request: Requests \cup {NoRequest}, answer: AnswerType]]
      /\ answers' \in [Scopes -> SUBSET (Requests \X AnswerType)] /\ effects' \in [Scopes -> Nat]
  BY <1>1, OutcomeStored, NoCallSound DEF IncidentsInvariant, IncidentsTypeOK
<1>3. i \in IncidentIds /\ incident'[i] \in IncidentType
  <2>1. incident[i].version + 1 \in Nat \ {0} /\ r.to \in Active \cup Terminal
    BY DEF Moves
  <2>2. incident'[i] \in [status: Active \cup Terminal, bucket: Buckets, version: Nat \ {0},
                         evidence: (SUBSET Events) \ {{}}]
    BY <2>1 DEF Moves
  <2> QED BY <2>2 DEF Moves, IncidentType
<1>4. incident'[i].evidence = incident[i].evidence /\ incident'[i].bucket = incident[i].bucket
  BY DEF Moves
<1>5. h \in HistoryType
  <2>1. incident[i].version \in Nat /\ incident[i].status \in Active \cup Terminal
    BY DEF Moves
  <2> QED BY <2>1 DEF Moves, HistoryType, Scopes
<1>6. /\ incident \in [IncidentIds -> IncidentType] /\ history \in [IncidentIds -> Seq(HistoryType)]
      /\ \A j \in IncidentIds : \A e \in incident[j].evidence : e \in stored /\ Bucket[e] = incident[j].bucket
  BY DEF IncidentsInvariant, IncidentsTypeOK
<1>7. history'[i] \in Seq(HistoryType)
  <2>1. history'[i] = Append(history[i], h)
    BY DEF Moves
  <2> HIDE DEF h
  <2> QED BY <1>3, <1>5, <1>6, <2>1, AppendProperties
<1>8. incident' \in [IncidentIds -> IncidentType]
  <2>1. \A j \in IncidentIds : incident'[j] \in IncidentType
    BY <1>3, <1>6 DEF Moves
  <2> QED BY <1>6, <2>1 DEF Transition
<1>9. history' \in [IncidentIds -> Seq(HistoryType)]
  <2>1. \A j \in IncidentIds : history'[j] \in Seq(HistoryType)
    BY <1>6, <1>7 DEF Moves
  <2> QED BY <1>6, <2>1 DEF Transition
<1>10. \A j \in IncidentIds : \A e \in incident'[j].evidence : e \in stored' /\ Bucket[e] = incident'[j].bucket
  <2> TAKE j \in IncidentIds
  <2>1. incident'[j].evidence = incident[j].evidence /\ incident'[j].bucket = incident[j].bucket
    BY <1>4 DEF Moves
  <2> QED BY <1>1, <1>6, <2>1 DEF ingestVars
<1> QED BY <1>1, <1>2, <1>8, <1>9, <1>10 DEF IncidentsInvariant, IncidentsTypeOK, ingestVars

\* The history gets the entry that leads from the status before to the one after.
LEMMA TransitionChain ==
  ASSUME IncidentsInvariant, NEW c \in Callers, Transition(c), NEW j \in IncidentIds,
         NEW r, NEW i, Moves(c, i, r)
  PROVE  ChainSound(j)'
<1> DEFINE h == [from |-> incident[i].status, to |-> r.to, expected |-> r.expected, scope |-> Scope[c]]
           n == Len(history[i])
<1>1. ChainSound(j)
  BY DEF IncidentsInvariant
<1>2. CASE j # i
  BY <1>1, <1>2 DEF Moves, ChainSound, Exists
<1>3. CASE j = i
  <2>1. /\ n = incident[i].version /\ n \in Nat /\ n >= 1 /\ history[i][1] = Baseline
        /\ history[i][n].to = incident[i].status
        /\ \A m \in 2..n :
             /\ history[i][m].from = history[i][m - 1].to
             /\ <<history[i][m].from, history[i][m].to>> \in AllowedTransitions
             /\ history[i][m].expected = m - 1
    <3>1. Exists(i) /\ incident[i].version \in Nat /\ incident[i].version >= 1
      BY DEF Moves, Exists, Active
    <3> QED BY <1>1, <1>3, <3>1 DEF ChainSound
  <2>2. /\ incident'[i].version = n + 1 /\ incident'[i].status = r.to
        /\ <<incident[i].status, r.to>> \in AllowedTransitions
        /\ h.from = incident[i].status /\ h.to = r.to /\ h.expected = n
    <3>1. incident'[i].version = incident[i].version + 1 /\ incident'[i].status = r.to
      BY DEF Moves
    <3>2. <<incident[i].status, r.to>> \in AllowedTransitions /\ incident[i].version = r.expected
      BY DEF Moves
    <3> QED BY <2>1, <3>1, <3>2
  <2>3. h \in HistoryType
    <3>1. incident[i].version \in Nat /\ incident[i].status \in Active \cup Terminal
      BY DEF Moves
    <3> QED BY <3>1 DEF Moves, HistoryType, Scopes
  <2>4. history[i] \in Seq(HistoryType) /\ history'[i] = Append(history[i], h)
    BY DEF Moves, IncidentsInvariant, IncidentsTypeOK
  <2> HIDE DEF h
  <2>5. /\ Len(history'[i]) = n + 1 /\ history'[i][n + 1] = h
        /\ \A m \in 1..n : history'[i][m] = history[i][m]
    BY <2>3, <2>4, AppendProperties
  <2> HIDE DEF n
  <2>6. ASSUME NEW m \in 2..(n + 1)
        PROVE  /\ history'[i][m].from = history'[i][m - 1].to
               /\ <<history'[i][m].from, history'[i][m].to>> \in AllowedTransitions
               /\ history'[i][m].expected = m - 1
    <3>1. CASE m = n + 1
      <4>1. history'[i][m] = h /\ history'[i][m - 1] = history[i][n]
        <5>1. m - 1 = n /\ n \in 1..n
          BY <2>1, <3>1
        <5> QED BY <2>5, <3>1, <5>1
      <4> QED BY <2>1, <2>2, <3>1, <4>1
    <3>2. CASE m # n + 1
      <4>1. m \in 2..n /\ m \in 1..n /\ m - 1 \in 1..n
        BY <2>1, <3>2
      <4> QED BY <2>1, <2>5, <4>1
    <3> QED BY <3>1, <3>2
  <2>7. history'[i][1] = Baseline
    BY <2>1, <2>5
  <2> QED BY <1>3, <2>2, <2>5, <2>6, <2>7 DEF n, ChainSound
<1> QED BY <1>2, <1>3

LEMMA TransitionStep ==
  ASSUME IncidentsInvariant, NEW c \in Callers, Transition(c)
  PROVE  IncidentsInvariant'
<1> PICK r, i : Moves(c, i, r)
  BY RowKnown
<1>1. /\ call[c].pc = "row" /\ StoreOutcome(c, "done") /\ UNCHANGED <<stored, ingest, before>>
      /\ "done" \in AnswerType \ {"none"}
  BY DEF Transition, ingestVars, AnswerType
<1>2. \A d \in Callers : call'[d] = IF d = c THEN NoCall ELSE call[d]
  BY <1>1, OutcomeStored DEF IncidentsInvariant, IncidentsTypeOK
<1>3. /\ \A s \in Scopes \ {Scope[c]} :
           record'[s] = record[s] /\ answers'[s] = answers[s] /\ effects'[s] = effects[s]
      /\ RecordSound(Scope[c])'
  BY <1>1, OutcomeStored
<1>4. /\ \A j \in IncidentIds : incident'[j].evidence = incident[j].evidence
      /\ \A j \in IncidentIds \ {i} : incident'[j] = incident[j]
  BY DEF Moves
<1>5. \A k : /\ ActiveIncidents(k)' \subseteq ActiveIncidents(k)
             /\ ActiveIncidents(k) \subseteq ActiveIncidents(k)' \cup {i}
  <2> TAKE k
  <2>1. /\ incident[i].status \in Active
        /\ \A j \in IncidentIds : incident'[j].bucket = incident[j].bucket
    <3>1. incident'[i].bucket = incident[i].bucket
      BY DEF Moves
    <3> QED BY <1>4, <3>1 DEF Moves
  <2> QED BY <1>4, <2>1 DEF ActiveIncidents
<1>6. ASSUME NEW b \in Batches
      PROVE  TransactionSound(ingest[b])'
  <2>1. ingest'[b] = ingest[b] /\ TransactionSound(ingest[b]) /\ ingest[b] \in TransactionType
    BY <1>1 DEF IncidentsInvariant, IncidentsTypeOK
  <2>2. ASSUME NEW k \in Buckets
        PROVE  WriteSound(ingest[b], k)'
    <3>1. WriteSound(ingest[b], k)
      BY <2>1 DEF TransactionSound
    <3>2. CASE ingest[b].writes[k].incident = 0
      BY <1>1, <3>1, <3>2 DEF WriteSound
    <3>3. CASE ingest[b].writes[k].incident # 0
      <4>1. ingest[b].writes[k].incident \in IncidentIds \ {i}
        <5>1. ingest[b].writes[k].incident \in WrittenBy(b)
          BY <3>3 DEF WrittenBy
        <5>2. ingest[b].writes[k].incident \in 0..MaxIncident
          BY <2>1 DEF TransactionType
        <5>3. i \notin WrittenBy(b)
          BY DEF Moves
        <5> QED BY <3>3, <5>1, <5>2, <5>3, Parameters DEF IncidentIds
      <4> QED BY <1>1, <1>4, <1>5, <3>1, <3>3, <4>1 DEF WriteSound
    <3> QED BY <3>2, <3>3
  <2>3. CrossingLinked(ingest[b])'
    BY <1>1, <2>1 DEF TransactionSound, CrossingLinked, InWindow
  <2> QED BY <1>1, <2>1, <2>2, <2>3 DEF TransactionSound
<1>7. ASSUME NEW b \in Batches, NEW d \in Batches \ {b}
      PROVE  TransactionsApart(ingest[b], ingest[d])'
  <2>1. TransactionsApart(ingest'[b], ingest'[d])
    BY <1>1 DEF IncidentsInvariant
  <2> QED BY <2>1 DEF TransactionsApart, Writing
<1>8. \A k \in Buckets : \A j, l \in ActiveIncidents(k)' : j = l
  BY <1>5 DEF IncidentsInvariant
<1>9. ASSUME NEW e \in stored'
      PROVE  EventSound(e)'
  <2>1. EventSound(e)
    BY <1>1 DEF IncidentsInvariant
  <2> QED BY <1>1, <1>4, <2>1 DEF EventSound, InWindow
<1>10. ASSUME NEW d \in Callers
      PROVE  CallSound(d, call[d])'
  <2>1. CASE d = c
    BY <1>2, <2>1 DEF CallSound, NoCall
  <2>2. CASE d # c
    <3>1. CallSound(d, call[d]) /\ CallsApart(c, call[c], d, call[d]) /\ call'[d] = call[d]
      BY <1>2, <2>2 DEF IncidentsInvariant
    <3>2. call[d].pc # "idle" => record'[Scope[d]] = record[Scope[d]]
      <4>1. call[d].pc # "idle" => Scope[d] # Scope[c]
        BY <1>1, <3>1 DEF CallsApart
      <4>2. Scope[d] \in Scopes
        BY DEF Scopes
      <4> QED BY <1>3, <4>1, <4>2
    <3>3. call[d].pc = "row" => call[d].request.incident \in IncidentIds \ {i}
      <4>1. call[d].pc = "row" => call[d].request.incident # i
        BY <1>1, <3>1 DEF CallsApart, Moves
      <4>2. call[d].pc = "row" => call[d].request.incident \in IncidentIds
        BY <3>1, RequestFields DEF CallSound
      <4> QED BY <4>1, <4>2
    <3>4. \A b \in Batches : WrittenBy(b)' = WrittenBy(b)
      BY <1>1 DEF WrittenBy
    <3> QED BY <1>4, <3>1, <3>2, <3>3, <3>4 DEF CallSound, Exists
  <2> QED BY <2>1, <2>2
<1>11. ASSUME NEW d \in Callers, NEW e \in Callers \ {d}
       PROVE  CallsApart(d, call[d], e, call[e])'
  <2>1. CallsApart(d, call[d], e, call[e])
    BY DEF IncidentsInvariant
  <2> QED BY <1>2, <2>1 DEF CallsApart, NoCall
<1>12. ASSUME NEW s \in Scopes
       PROVE  RecordSound(s)'
  <2>1. CASE s = Scope[c]
    <3>1. RecordSound(Scope[c])'
      BY <1>3
    <3> QED BY <2>1, <3>1 DEF RecordSound
  <2>2. CASE s # Scope[c]
    <3>1. record'[s] = record[s] /\ answers'[s] = answers[s] /\ effects'[s] = effects[s]
      BY <1>3, <2>2
    <3> QED BY <3>1 DEF IncidentsInvariant, RecordSound
  <2> QED BY <2>1, <2>2
<1> QED BY <1>6, <1>7, <1>8, <1>9, <1>10, <1>11, <1>12, TransitionType, TransitionChain DEF IncidentsInvariant

-----------------------------------------------------------------------------
(* The theorems *)

LEMMA InitStep ==
  ASSUME IncidentsInit
  PROVE  IncidentsInvariant
<1>1. IncidentsTypeOK
  <2>1. NoIncident.evidence = {} /\ NoIncident \in IncidentType
    BY DEF NoIncident, IncidentType
  <2>2. NoRecord \in [request: Requests \cup {NoRequest}, answer: AnswerType]
    BY DEF NoRecord, AnswerType
  <2> QED BY <2>1, <2>2, NoTransactionSound, NoCallSound DEF IncidentsInit, IncidentsTypeOK
<1>2. \A b \in Batches : TransactionSound(ingest[b])
  BY NoTransactionSound DEF IncidentsInit
<1>3. \A b \in Batches : \A d \in Batches \ {b} : TransactionsApart(ingest[b], ingest[d])
  BY NoTransactionSound DEF IncidentsInit
<1>4. \A k \in Buckets : \A i, j \in ActiveIncidents(k) : i = j
  BY DEF IncidentsInit, ActiveIncidents, NoIncident, Active
<1>5. \A e \in stored : EventSound(e)
  BY DEF IncidentsInit
<1>6. \A c \in Callers : CallSound(c, call[c])
  BY NoCallSound DEF IncidentsInit
<1>7. \A c \in Callers : \A d \in Callers \ {c} : CallsApart(c, call[c], d, call[d])
  BY NoCallSound DEF IncidentsInit
<1>8. \A s \in Scopes : RecordSound(s)
  BY DEF IncidentsInit, RecordSound
<1>9. \A i \in IncidentIds : ChainSound(i)
  BY DEF IncidentsInit, ChainSound, Exists, NoIncident
<1> QED BY <1>1, <1>2, <1>3, <1>4, <1>5, <1>6, <1>7, <1>8, <1>9 DEF IncidentsInvariant

LEMMA StutterStep ==
  ASSUME IncidentsInvariant, UNCHANGED incidentsVars
  PROVE  IncidentsInvariant'
<1> USE DEF incidentsVars
<1>1. IncidentsTypeOK' /\ (\A k \in Buckets : \A i, j \in ActiveIncidents(k)' : i = j)
  BY DEF IncidentsInvariant, IncidentsTypeOK, ActiveIncidents
<1>2. ASSUME NEW b \in Batches
      PROVE  TransactionSound(ingest[b])'
  <2>1. TransactionSound(ingest'[b])
    BY DEF IncidentsInvariant
  <2> QED BY <2>1, SameTransaction
<1>3. ASSUME NEW b \in Batches, NEW d \in Batches \ {b}
      PROVE  TransactionsApart(ingest[b], ingest[d])'
  <2>1. TransactionsApart(ingest'[b], ingest'[d])
    BY DEF IncidentsInvariant
  <2> QED BY <2>1 DEF TransactionsApart, Writing
<1>4. \A e \in stored' : EventSound(e)'
  BY DEF IncidentsInvariant, EventSound
<1>5. ASSUME NEW c \in Callers
      PROVE  CallSound(c, call[c])'
  <2>1. CallSound(c, call[c])
    BY DEF IncidentsInvariant
  <2> QED BY <2>1 DEF CallSound, Exists, WrittenBy
<1>6. \A c \in Callers : \A d \in Callers \ {c} : CallsApart(c, call[c], d, call[d])'
  BY DEF IncidentsInvariant, CallsApart
<1>7. (\A s \in Scopes : RecordSound(s))' /\ (\A i \in IncidentIds : ChainSound(i))'
  BY DEF IncidentsInvariant, RecordSound, ChainSound, Exists
<1> QED BY <1>1, <1>2, <1>3, <1>4, <1>5, <1>6, <1>7 DEF IncidentsInvariant

LEMMA NextStep ==
  ASSUME IncidentsInvariant, IncidentsNext
  PROVE  IncidentsInvariant'
<1>1. ASSUME NEW b \in Batches, Ingest(b) \/ BreakDeadlock(b) \/ IngestFails(b)
      PROVE  IncidentsInvariant'
  BY <1>1, SendStep, DetectStep, LinkStep, CommitStep, RollBackStep
     DEF Ingest, BreakDeadlock, IngestFails
<1>2. ASSUME NEW c \in Callers, Operate(c) \/ CallFails(c)
      PROVE  IncidentsInvariant'
  <2>1. CASE TakeKey(c)
    BY <2>1, TakeKeyStep
  <2>2. CASE NotFound(c)
    BY <2>2, StoreOutcomeStep DEF NotFound, AnswerType
  <2>3. CASE Comment(c)
    BY <2>3, StoreOutcomeStep DEF Comment, AnswerType
  <2>4. CASE TakeRow(c)
    BY <2>4, TakeRowStep
  <2>5. CASE Stale(c)
    BY <2>5, StoreOutcomeStep DEF Stale, AnswerType
  <2>6. CASE NotAllowed(c)
    BY <2>6, StoreOutcomeStep DEF NotAllowed, AnswerType
  <2>7. CASE Transition(c)
    BY <2>7, TransitionStep
  <2>8. CASE CallFails(c)
    BY <2>8, CallFailsStep
  <2> QED BY <1>2, <2>1, <2>2, <2>3, <2>4, <2>5, <2>6, <2>7, <2>8 DEF Operate
<1> QED BY <1>1, <1>2 DEF IncidentsNext

\* What the locks of ingestion and of the operators' requests protect holds at
\* every moment, whichever transactions meet, fail or deadlock: the running
\* transactions have different buckets, events, incidents and keys, and what one
\* has read under its locks is still so.
THEOREM IncidentsInvariantHolds == IncidentsSpec => []IncidentsInvariant
<1>1. IncidentsInvariant /\ [IncidentsNext]_incidentsVars => IncidentsInvariant'
  BY NextStep, StutterStep
<1> QED BY <1>1, InitStep, PTL DEF IncidentsSpec

\* The variables always hold values of their types, and evidence refers to
\* stored events of the incident's bucket.
THEOREM IncidentsTypeCorrect == IncidentsSpec => []IncidentsTypeOK
<1>1. IncidentsInvariant => IncidentsTypeOK
  BY DEF IncidentsInvariant
<1> QED BY <1>1, IncidentsInvariantHolds, PTL

\* The history of an incident is one unbroken chain of allowed transitions, each
\* decided on the version right before it (apply_transition under FOR UPDATE).
THEOREM HistoryIsChain == IncidentsSpec => []HistoryChain
<1>1. IncidentsInvariant => HistoryChain
  BY DEF IncidentsInvariant, HistoryChain
<1> QED BY <1>1, IncidentsInvariantHolds, PTL

\* No two transactions miss a crossing of the threshold between them: the
\* advisory lock of a bucket orders what they store and what they read.
THEOREM NoCrossingMissed == IncidentsSpec => []CrossingSeen
<1>1. IncidentsInvariant => CrossingSeen
  BY DEF IncidentsInvariant, CrossingSeen
<1> QED BY <1>1, IncidentsInvariantHolds, PTL

LEMMA AtMostOne ==
  ASSUME NEW S, \A x, y \in S : x = y
  PROVE  Cardinality(S) <= 1
<1>1. CASE S = {}
  BY <1>1, FS_EmptySet
<1>2. ASSUME NEW x \in S
      PROVE  Cardinality(S) <= 1
  <2>1. S = {x}
    BY <1>2
  <2> QED BY <2>1, FS_Singleton
<1> QED BY <1>1, <1>2

\* A bucket has one active incident, counting the ones that running ingestion
\* transactions are about to commit: the partial unique index never refuses one.
THEOREM ActiveIncidentIsUnique == IncidentsSpec => []OneActiveIncident
<1>1. ASSUME IncidentsInvariant, NEW k \in Buckets
      PROVE  Cardinality({i \in IncidentIds : incident[i].bucket = k /\ incident[i].status \in Active}
               \cup ({ingest[b].writes[k].incident : b \in Batches} \ {0})) <= 1
  <2> DEFINE written == {ingest[b].writes[k].incident : b \in Batches} \ {0}
  <2>1. \A i, j \in ActiveIncidents(k) : i = j
    BY <1>1 DEF IncidentsInvariant
  <2>2. ASSUME NEW i \in written, NEW j \in ActiveIncidents(k)
        PROVE  i = j
    BY <1>1 DEF IncidentsInvariant, TransactionSound, WriteSound
  <2>3. ASSUME NEW i \in written, NEW j \in written
        PROVE  i = j
    <3>1. PICK b \in Batches, d \in Batches :
            i = ingest[b].writes[k].incident /\ j = ingest[d].writes[k].incident
      OBVIOUS
    <3>2. k \in ingest[b].locks /\ k \in ingest[d].locks
      BY <1>1, <3>1 DEF IncidentsInvariant, TransactionSound, WriteSound
    <3>3. b = d
      BY <1>1, <3>2 DEF IncidentsInvariant, TransactionsApart
    <3> QED BY <3>1, <3>3
  <2>4. \A x, y \in ActiveIncidents(k) \cup written : x = y
    BY <2>1, <2>2, <2>3
  <2> HIDE DEF written
  <2>5. Cardinality(ActiveIncidents(k) \cup written) <= 1
    BY <2>4, AtMostOne
  <2> QED BY <2>5 DEF ActiveIncidents, written
<1>2. IncidentsInvariant => OneActiveIncident
  BY <1>1 DEF OneActiveIncident
<1> QED BY <1>2, IncidentsInvariantHolds, PTL

\* An Idempotency-Key has at most one effect and one outcome, for one request.
THEOREM KeyAnsweredOnce == IncidentsSpec => []AnsweredOnce
<1>1. ASSUME IncidentsInvariant, NEW s \in Scopes
      PROVE  /\ effects[s] <= 1 /\ Cardinality(answers[s]) <= 1
             /\ effects[s] = 1 <=> \E a \in answers[s] : a[2] = "done"
  <2>1. RecordSound(s)
    BY <1>1 DEF IncidentsInvariant
  <2>2. Cardinality(answers[s]) <= 1
    BY <2>1, AtMostOne DEF RecordSound
  <2>3. CASE record[s] = NoRecord
    BY <2>1, <2>2, <2>3 DEF RecordSound
  <2>4. CASE record[s] # NoRecord
    <3>1. /\ answers[s] = {<<record[s].request, record[s].answer>>}
          /\ effects[s] = IF record[s].answer = "done" THEN 1 ELSE 0
      BY <2>1, <2>4 DEF RecordSound
    <3>2. (\E a \in answers[s] : a[2] = "done") <=> record[s].answer = "done"
      BY <3>1
    <3> QED BY <2>2, <3>1, <3>2
  <2> QED BY <2>3, <2>4
<1>2. IncidentsInvariant => AnsweredOnce
  BY <1>1 DEF AnsweredOnce
<1> QED BY <1>2, IncidentsInvariantHolds, PTL

\* Nothing is added to an incident once it is closed: neither evidence found by
\* a transaction that began before, nor a transition decided before.
THEOREM ClosedStaysFinal == IncidentsSpec => ClosedIsFinal
<1>1. ASSUME IncidentsInvariant, [IncidentsNext]_incidentsVars, NEW i \in IncidentIds,
             incident[i].status \in Terminal
      PROVE  incident'[i] = incident[i]
  <2>1. ASSUME NEW b \in Batches, Commit(b)
        PROVE  incident'[i] = incident[i]
    <3>1. incident[i].status \notin Active \cup {"none"}
      BY <1>1 DEF Active, Terminal
    <3>2. i \notin WrittenBy(b)
      BY <1>1, <2>1, <3>1, CommitOthers, CommitWrites
    <3> QED BY <1>1, <2>1, <3>2, CommitOthers
  <2>2. ASSUME NEW c \in Callers, Transition(c)
        PROVE  incident'[i] = incident[i]
    <3>1. PICK r, j : Moves(c, j, r)
      BY <1>1, <2>2, RowKnown
    <3>2. i # j
      BY <1>1, <3>1 DEF Moves, Active, Terminal
    <3> QED BY <3>1, <3>2 DEF Moves
  <2>3. \/ \E b \in Batches : Commit(b)
        \/ \E c \in Callers : Transition(c)
        \/ UNCHANGED incident
    BY <1>1 DEF IncidentsNext, Ingest, Send, Detect, Link, BreakDeadlock, IngestFails, RollBack,
         Operate, TakeKey, NotFound, Comment, TakeRow, Stale, NotAllowed, CallFails, incidentsVars
  <2> QED BY <2>1, <2>2, <2>3
<1>2. IncidentsInvariant /\ [IncidentsNext]_incidentsVars =>
        [\A i \in IncidentIds : incident[i].status \in Terminal => incident'[i] = incident[i]]_incidentsVars
  BY <1>1
<1> QED BY <1>2, IncidentsInvariantHolds, PTL DEF IncidentsSpec, ClosedIsFinal
-----------------------------------------------------------------------------
(* Ingestion and the workflow implement AtomicIncidents: a commit takes the *)
(* whole batch in, and what its transaction has found bucket by bucket is    *)
(* what an evaluation at the commit finds (EvidenceIsExact).                 *)

LEMMA SameCardinality ==
  ASSUME NEW S PROVE Atomic!Cardinality(S) = Cardinality(S)
  BY DEF Atomic!Cardinality, Cardinality

LEMMA FoundEvents ==
  ASSUME NEW k, NEW new, NEW events, NEW f
  PROVE  f \in Atomic!Found(k, new, events) <=>
           \E e \in new : /\ Bucket[e] = k /\ Cardinality(InWindow(e, events)) >= Threshold
                          /\ f \in InWindow(e, events)
<1> DEFINE complete ==
             {e \in new : Bucket[e] = k /\ Atomic!Cardinality(Atomic!InWindow(e, events)) >= Threshold}
<1>1. \A e : Atomic!InWindow(e, events) = InWindow(e, events)
  BY DEF Atomic!InWindow, InWindow
<1>2. Atomic!Found(k, new, events) = UNION {Atomic!InWindow(e, events) : e \in complete}
  BY DEF Atomic!Found
<1>3. \A e : e \in complete <=>
             e \in new /\ Bucket[e] = k /\ Cardinality(InWindow(e, events)) >= Threshold
  BY <1>1, SameCardinality
<1> HIDE DEF complete
<1> QED BY <1>1, <1>2, <1>3

\* Events of other buckets do not matter to what is found in a bucket.
LEMMA SameFound ==
  ASSUME NEW k, NEW new, NEW S, NEW T,
         \A e \in new : Bucket[e] = k => InWindow(e, S) = InWindow(e, T)
  PROVE  Atomic!Found(k, new, S) = Atomic!Found(k, new, T)
<1>1. ASSUME NEW f PROVE f \in Atomic!Found(k, new, S) <=> f \in Atomic!Found(k, new, T)
  BY FoundEvents
<1> QED BY <1>1

LEMMA NothingFound ==
  ASSUME NEW t, t.new \subseteq t.left, t.match = {},
         \A k \in Buckets : t.writes[k].evidence = {}
  PROVE  EvidenceExact(t)
<1> SUFFICES ASSUME NEW k \in Buckets
             PROVE  Atomic!Found(k, t.new \ t.left, stored \cup t.new) = {}
  BY DEF EvidenceExact
<1> QED BY FoundEvents

\* A step that stores no events changes the evidence of one transaction.
LEMMA EvidenceStep ==
  ASSUME IncidentsInvariant, EvidenceIsExact, NEW b \in Batches, NEW u,
         ingest' = [ingest EXCEPT ![b] = u], UNCHANGED stored, EvidenceExact(u)
  PROVE  EvidenceIsExact'
<1> SUFFICES ASSUME NEW d \in Batches PROVE EvidenceExact(ingest[d])'
  BY DEF EvidenceIsExact
<1>1. EvidenceExact(ingest'[d])
  BY DEF IncidentsInvariant, IncidentsTypeOK, EvidenceIsExact
<1> QED BY <1>1 DEF EvidenceExact

LEMMA DetectEvidence ==
  ASSUME IncidentsInvariant, EvidenceIsExact, NEW b \in Batches, NEW e \in Events, Detect(b, e)
  PROVE  EvidenceIsExact'
<1> DEFINE t == ingest[b]
           S == stored \cup t.new
           found == InWindow(e, S)
<1> PICK u : u = Evaluated(b, e)
  OBVIOUS
<1>1. t \in TransactionType /\ t.match = {} /\ e \in t.left /\ t.left \subseteq t.new
  BY DEF IncidentsInvariant, IncidentsTypeOK, TransactionSound, Detect, Triggers
<1>2. /\ u.new = t.new /\ u.left = t.left \ {e} /\ u.writes = t.writes
      /\ u.match = IF Cardinality(found) >= Threshold THEN found ELSE {}
  BY <1>1 DEF Evaluated, TransactionType
<1>3. \A f \in found : Bucket[f] = Bucket[e]
  BY DEF InWindow
<1> HIDE DEF found
<1>4. ASSUME NEW k \in Buckets
      PROVE  u.writes[k].evidence \cup {f \in u.match : Bucket[f] = k} = Atomic!Found(k, u.new \ u.left, S)
  <2>1. t.writes[k].evidence = Atomic!Found(k, t.new \ t.left, S)
    BY <1>1 DEF EvidenceIsExact, EvidenceExact
  <2>2. u.new \ u.left = (t.new \ t.left) \cup {e}
    BY <1>1, <1>2
  <2>3. ASSUME NEW f
        PROVE  f \in Atomic!Found(k, u.new \ u.left, S) <=>
                 \/ f \in Atomic!Found(k, t.new \ t.left, S)
                 \/ Bucket[e] = k /\ Cardinality(found) >= Threshold /\ f \in found
    BY <1>2, <2>2, FoundEvents DEF found
  <2> QED BY <1>2, <1>3, <2>1, <2>3
<1>5. EvidenceExact(u)
  BY <1>2, <1>4 DEF EvidenceExact
<1> QED BY <1>5, EvidenceStep DEF Detect

LEMMA LinkEvidence ==
  ASSUME IncidentsInvariant, EvidenceIsExact, NEW b \in Batches, Link(b)
  PROVE  EvidenceIsExact'
<1> DEFINE t == ingest[b]
<1> PICK k : k = MatchBucket(b)
  OBVIOUS
<1>1. t.pc = "link" /\ UNCHANGED stored
  BY DEF Link
<1>2. k \in Buckets /\ \A e \in t.match : Bucket[e] = k
  BY <1>1, MatchBucketLocked
<1>3. PICK i \in IncidentIds : Linked(b, i)
  <2>1. t.writes[k].incident # 0 => t.writes[k].incident \in IncidentIds
    BY <1>2 DEF IncidentsInvariant, IncidentsTypeOK, TransactionType, IncidentIds
  <2> QED BY <2>1 DEF Link, ActiveIncidents, Unused
<1>4. PICK u \in TransactionType :
        /\ ingest' = [ingest EXCEPT ![b] = u]
        /\ u.new = t.new /\ u.left = t.left /\ u.locks = t.locks
        /\ u.pc = "detect" /\ u.match = {}
        /\ u.writes[k] = [incident |-> i, evidence |-> t.writes[k].evidence \cup t.match]
        /\ \A l \in Buckets \ {k} : u.writes[l] = t.writes[l]
  BY <1>1, <1>3, LinkedTransaction
<1>5. ASSUME NEW l \in Buckets
      PROVE  u.writes[l].evidence \cup {e \in u.match : Bucket[e] = l} =
               Atomic!Found(l, u.new \ u.left, stored \cup u.new)
  <2>1. t.writes[l].evidence \cup {e \in t.match : Bucket[e] = l} =
          Atomic!Found(l, t.new \ t.left, stored \cup t.new)
    BY DEF EvidenceIsExact, EvidenceExact
  <2>2. u.writes[l].evidence = t.writes[l].evidence \cup {e \in t.match : Bucket[e] = l}
    BY <1>2, <1>4
  <2> QED BY <1>4, <2>1, <2>2
<1>6. EvidenceExact(u)
  BY <1>5 DEF EvidenceExact
<1> QED BY <1>1, <1>4, <1>6, EvidenceStep

LEMMA CommitEvidence ==
  ASSUME IncidentsInvariant, EvidenceIsExact, NEW b \in Batches, Commit(b)
  PROVE  EvidenceIsExact'
<1> SUFFICES ASSUME NEW d \in Batches PROVE EvidenceExact(ingest[d])'
  BY DEF EvidenceIsExact
<1> PICK t, u, after : t = ingest[b] /\ u = ingest'[d] /\ after = stored'
  OBVIOUS
<1>1. after = stored \cup t.new /\ t.left = {} /\ u = IF d = b THEN NoTransaction ELSE ingest[d]
  <2>1. t.left = {}
    BY DEF Commit
  <2> QED BY <2>1, CommitOthers
<1>2. CASE d = b
  <2>1. EvidenceExact(u)'
    BY <1>1, <1>2, FoundEvents DEF NoTransaction, NoWrite, EvidenceExact
  <2> QED BY <2>1 DEF EvidenceExact
<1>3. CASE d # b
  <2>1. TransactionSound(t) /\ TransactionSound(u) /\ TransactionsApart(t, u) /\ EvidenceExact(u)
    BY <1>1, <1>3 DEF IncidentsInvariant, EvidenceIsExact
  <2>2. ASSUME NEW e \in u.new \ u.left
        PROVE  InWindow(e, after \cup u.new) = InWindow(e, stored \cup u.new)
    <3>1. \A f \in t.new : Bucket[f] # Bucket[e]
      BY <1>1, <2>1, <2>2 DEF TransactionSound, TransactionsApart
    <3>2. \A f : Bucket[f] = Bucket[e] => (f \in after \cup u.new <=> f \in stored \cup u.new)
      BY <1>1, <3>1
    <3> QED BY <3>2, SameWindow
  <2>3. ASSUME NEW k \in Buckets
        PROVE  Atomic!Found(k, u.new \ u.left, after \cup u.new) =
                 Atomic!Found(k, u.new \ u.left, stored \cup u.new)
    BY <2>2, SameFound
  <2> QED BY <2>1, <2>3 DEF EvidenceExact
<1> QED BY <1>2, <1>3

LEMMA EvidenceNext ==
  ASSUME IncidentsInvariant, EvidenceIsExact, [IncidentsNext]_incidentsVars
  PROVE  EvidenceIsExact'
<1>1. EvidenceExact(NoTransaction)
  BY NothingFound DEF NoTransaction, NoWrite
<1>2. ASSUME NEW b \in Batches, Send(b)
      PROVE  EvidenceIsExact'
  <2> DEFINE new == Content[b] \ stored
  <2> PICK u : u = [NoTransaction EXCEPT !.pc = "detect", !.new = new, !.left = new]
    OBVIOUS
  <2>1. EvidenceExact(u)
    BY NothingFound DEF NoTransaction, NoWrite
  <2> QED BY <1>2, <2>1, EvidenceStep DEF Send
<1>3. ASSUME NEW b \in Batches, RollBack(b)
      PROVE  EvidenceIsExact'
  BY <1>1, <1>3, EvidenceStep DEF RollBack
<1>4. ASSUME UNCHANGED <<stored, ingest>>
      PROVE  EvidenceIsExact'
  BY <1>4 DEF EvidenceIsExact, EvidenceExact
<1>5. ASSUME NEW c \in Callers, Operate(c) \/ CallFails(c)
      PROVE  UNCHANGED <<stored, ingest>>
  BY <1>5 DEF Operate, TakeKey, NotFound, Comment, TakeRow, Stale, NotAllowed, Transition, CallFails, ingestVars
<1> QED BY <1>2, <1>3, <1>4, <1>5, DetectEvidence, LinkEvidence, CommitEvidence
        DEF IncidentsNext, Ingest, BreakDeadlock, IngestFails, incidentsVars

\* What a running ingestion transaction has found stays what the rules find on
\* all that is stored, whatever other transactions commit in the meantime.
THEOREM EvidenceStaysExact == IncidentsSpec => []EvidenceIsExact
<1>1. IncidentsInit => EvidenceIsExact
  <2>1. EvidenceExact(NoTransaction)
    BY NothingFound DEF NoTransaction, NoWrite
  <2> QED BY <2>1 DEF IncidentsInit, EvidenceIsExact
<1>2. IncidentsInvariant /\ EvidenceIsExact /\ [IncidentsNext]_incidentsVars => EvidenceIsExact'
  BY EvidenceNext
<1> QED BY <1>1, <1>2, IncidentsInvariantHolds, PTL DEF IncidentsSpec

\* What a commit does to the incident of a bucket.
LEMMA CommitTakes ==
  ASSUME IncidentsInvariant, NEW b \in Batches, Commit(b), NEW k \in Buckets,
         NEW i, i = ingest[b].writes[k].incident, i # 0
  PROVE  /\ Atomic!Takes(i, k)
         /\ incident'[i] = Atomic!With(incident[i], k, ingest[b].writes[k].evidence)
<1> DEFINE t == ingest[b]
           wrote == CHOOSE l \in Buckets : t.writes[l].incident = i
<1>1. WriteSound(t, k) /\ i \in IncidentIds /\ i \in WrittenBy(b)
  BY CommitWrites DEF IncidentsInvariant, TransactionSound
<1>2. Atomic!ActiveIn(k) = ActiveIncidents(k)
  BY DEF Atomic!ActiveIn, ActiveIncidents, Atomic!Active, Active
<1>3. Atomic!Takes(i, k)
  BY <1>1, <1>2 DEF Atomic!Takes, WriteSound
<1>4. wrote = k
  BY <1>1 DEF WriteSound
<1>5. CASE incident[i].status = "none"
  <2>1. incident'[i] = [status |-> "new", bucket |-> k, version |-> 1, evidence |-> t.writes[k].evidence]
    BY <1>1, <1>4, <1>5 DEF Commit
  <2> QED BY <1>3, <1>5, <2>1 DEF Atomic!With
<1>6. CASE incident[i].status # "none"
  <2>1. incident'[i] = [incident[i] EXCEPT !.evidence = incident[i].evidence \cup t.writes[k].evidence]
    BY <1>1, <1>4, <1>6 DEF Commit
  <2> QED BY <1>3, <1>6, <2>1 DEF Atomic!With
<1> QED BY <1>5, <1>6

LEMMA CommitImplements ==
  ASSUME IncidentsInvariant, EvidenceIsExact, NEW b \in Batches, Commit(b)
  PROVE  Atomic!TakeIn
<1> DEFINE t == ingest[b]
           found == [k \in Buckets |-> Atomic!Found(k, stored' \ stored, stored')]
           hit == {k \in Buckets : found[k] # {}}
           target == [k \in hit |-> t.writes[k].incident]
<1>1. /\ t \in TransactionType /\ t.new \cap stored = {}
      /\ \A k \in Buckets : WriteSound(t, k)
      /\ t.left = {} /\ t.match = {}
  BY DEF IncidentsInvariant, IncidentsTypeOK, TransactionSound, Commit
<1>2. stored' = stored \cup t.new /\ stored' \subseteq Events
  BY CommitOthers
<1>3. ASSUME NEW k \in Buckets
      PROVE  Atomic!Found(k, stored' \ stored, stored') = t.writes[k].evidence
  <2>1. stored' \ stored = t.new \ t.left
    BY <1>1, <1>2
  <2>2. t.writes[k].evidence \cup {e \in t.match : Bucket[e] = k} =
          Atomic!Found(k, t.new \ t.left, stored \cup t.new)
    BY DEF EvidenceIsExact, EvidenceExact
  <2> QED BY <1>1, <1>2, <2>1, <2>2
<1>4. \A k \in Buckets : found[k] = t.writes[k].evidence
  BY <1>3
<1> HIDE DEF found
<1>5. \A k \in Buckets : k \in hit <=> t.writes[k].incident # 0
  BY <1>1, <1>4 DEF WriteSound
<1>6. \A k \in hit : k \in Buckets /\ target[k] = t.writes[k].incident /\ target[k] # 0
  BY <1>5
<1> HIDE DEF hit
<1>7. target \in [hit -> IncidentIds]
  BY <1>6, CommitWrites
<1> HIDE DEF target
<1>8. ASSUME NEW k \in hit
      PROVE  /\ Atomic!Takes(target[k], k)
             /\ incident'[target[k]] = Atomic!With(incident[target[k]], k, found[k])
             /\ \A l \in hit \ {k} : target[l] # target[k]
  <2>1. PICK i : i = t.writes[k].incident
    OBVIOUS
  <2>2. k \in Buckets /\ target[k] = i /\ i # 0 /\ found[k] = t.writes[k].evidence
    BY <1>4, <1>6, <2>1
  <2>3. Atomic!Takes(i, k) /\ incident'[i] = Atomic!With(incident[i], k, found[k])
    BY <2>1, <2>2, CommitTakes
  <2>4. WriteSound(t, k)
    BY <1>1, <2>2
  <2>5. \A l \in hit \ {k} : target[l] # target[k]
    BY <1>6, <2>1, <2>2, <2>4 DEF WriteSound
  <2> QED BY <2>2, <2>3, <2>5
<1>9. ASSUME NEW i \in IncidentIds, \A k \in hit : target[k] # i
      PROVE  incident'[i] = incident[i]
  <2>1. i \notin WrittenBy(b)
    BY <1>5, <1>6, <1>9 DEF WrittenBy
  <2> QED BY <2>1, CommitOthers
<1>10. DOMAIN incident' = IncidentIds /\ UNCHANGED record
  BY DEF Commit, callVars
<1> USE DEF found, hit
<1> QED BY <1>2, <1>7, <1>8, <1>9, <1>10 DEF Atomic!TakeIn

UsedKeys == {s \in Scopes : record[s].answer = "done"}

\* An outcome uses its key up if the request had its effect.
LEMMA KeyUsed ==
  ASSUME IncidentsInvariant, NEW c \in Callers, NEW answer \in AnswerType \ {"none"},
         call[c].pc # "idle", StoreOutcome(c, answer)
  PROVE  /\ Scope[c] \in Scopes \ UsedKeys
         /\ UsedKeys' = IF answer = "done" THEN UsedKeys \cup {Scope[c]} ELSE UsedKeys
<1>1. Scope[c] \in Scopes /\ record[Scope[c]].answer = "none"
  BY DEF Scopes, IncidentsInvariant, CallSound, NoRecord
<1>2. record'[Scope[c]].answer = answer /\ \A s \in Scopes \ {Scope[c]} : record'[s] = record[s]
  BY <1>1 DEF StoreOutcome, IncidentsInvariant, IncidentsTypeOK
<1>3. \A s \in Scopes : s \in UsedKeys' <=> s \in UsedKeys \/ (answer = "done" /\ s = Scope[c])
  BY <1>1, <1>2 DEF UsedKeys
<1> QED BY <1>1, <1>3 DEF UsedKeys

LEMMA TransitionImplements ==
  ASSUME IncidentsInvariant, NEW c \in Callers, Transition(c)
  PROVE  Atomic!Next
<1> PICK r, i : Moves(c, i, r)
  BY RowKnown
<1>1. /\ r = call[c].request /\ i = r.incident /\ call[c].seen = incident[i] /\ i \in IncidentIds
      /\ <<incident[i].status, r.to>> \in AllowedTransitions
      /\ r.to \in Active \cup Terminal
  BY DEF Moves
<1>2. /\ incident' = [incident EXCEPT ![i] =
             [@ EXCEPT !.status = r.to, !.version = incident[i].version + 1]]
      /\ call[c].pc # "idle" /\ StoreOutcome(c, "done") /\ UNCHANGED stored
  BY <1>1 DEF Transition, ingestVars
<1>3. Scope[c] \in Scopes \ UsedKeys /\ UsedKeys' = UsedKeys \cup {Scope[c]}
  BY <1>2, KeyUsed DEF AnswerType
<1>4. AllowedTransitions = Atomic!AllowedTransitions /\ Active = Atomic!Active
  BY DEF AllowedTransitions, Atomic!AllowedTransitions, Active, Atomic!Active, Terminal
<1>5. Atomic!Change(i, r.to, Scope[c])
  BY <1>1, <1>2, <1>3, <1>4 DEF UsedKeys, Atomic!Change
<1> QED BY <1>1, <1>3, <1>4, <1>5 DEF Atomic!Next, Terminal

LEMMA CommentImplements ==
  ASSUME IncidentsInvariant, NEW c \in Callers, Comment(c)
  PROVE  Atomic!Next
<1> PICK i : i = call[c].request.incident
  OBVIOUS
<1>1. /\ call[c].pc = "key" /\ StoreOutcome(c, "done") /\ incident[i].status # "none"
      /\ UNCHANGED <<stored, incident>>
  BY DEF Comment, Exists, ingestVars
<1>2. i \in IncidentIds
  BY <1>1, RequestFields DEF IncidentsInvariant, CallSound
<1>3. Scope[c] \in Scopes \ UsedKeys /\ UsedKeys' = UsedKeys \cup {Scope[c]}
  BY <1>1, KeyUsed DEF AnswerType
<1>4. Atomic!Comment(i, Scope[c])
  BY <1>1, <1>3 DEF UsedKeys, Atomic!Comment
<1> QED BY <1>2, <1>3, <1>4 DEF Atomic!Next

\* Nothing but a commit and a completed request shows in the atomic incidents.
LEMMA StepImplements ==
  ASSUME IncidentsInvariant, EvidenceIsExact, [IncidentsNext]_incidentsVars
  PROVE  [Atomic!Next]_(Atomic!vars)
<1>1. ASSUME UNCHANGED <<stored, incident>>, UsedKeys' = UsedKeys
      PROVE  UNCHANGED Atomic!vars
  BY <1>1 DEF UsedKeys, Atomic!vars
<1>2. ASSUME NEW b \in Batches, Ingest(b) \/ BreakDeadlock(b) \/ IngestFails(b)
      PROVE  [Atomic!Next]_(Atomic!vars)
  <2>1. Commit(b) => Atomic!Next
    BY CommitImplements DEF Atomic!Next
  <2>2. ~Commit(b) => UNCHANGED <<stored, incident, record>>
    BY <1>2 DEF Ingest, Send, Detect, Link, BreakDeadlock, IngestFails, RollBack, callVars
  <2> QED BY <1>1, <2>1, <2>2 DEF UsedKeys
<1>3. ASSUME NEW c \in Callers, Operate(c) \/ CallFails(c)
      PROVE  [Atomic!Next]_(Atomic!vars)
  <2>1. TakeKey(c) \/ TakeRow(c) \/ CallFails(c) => UNCHANGED <<stored, incident, record>>
    BY DEF TakeKey, TakeRow, CallFails, ingestVars
  <2>2. NotFound(c) \/ Stale(c) \/ NotAllowed(c) =>
          /\ call[c].pc # "idle" /\ UNCHANGED <<stored, incident>>
          /\ \E answer \in AnswerType \ {"none", "done"} : StoreOutcome(c, answer)
    BY DEF NotFound, Stale, NotAllowed, AnswerType, ingestVars
  <2>3. NotFound(c) \/ Stale(c) \/ NotAllowed(c) => UsedKeys' = UsedKeys
    BY <2>2, KeyUsed
  <2> QED BY <1>1, <1>3, <2>1, <2>2, <2>3, TransitionImplements, CommentImplements DEF Operate, UsedKeys
<1> QED BY <1>1, <1>2, <1>3 DEF IncidentsNext, incidentsVars, UsedKeys

\* Whatever transactions and calls overlap, fail or deadlock, the incidents are
\* those of batches taken in and evaluated one by one (record_event_batch with
\* its advisory locks) and of changes made one by one (apply_transition).
THEOREM IncidentsAreAtomic == IncidentsSpec => ImplementsAtomicIncidents
<1>1. IncidentsInit => Atomic!Init
  BY DEF IncidentsInit, Atomic!Init, NoIncident, NoRecord, Scopes
<1>2. IncidentsInvariant /\ EvidenceIsExact /\ [IncidentsNext]_incidentsVars =>
        [Atomic!Next]_(Atomic!vars)
  BY StepImplements
<1> QED BY <1>1, <1>2, IncidentsInvariantHolds, EvidenceStaysExact, PTL
        DEF IncidentsSpec, ImplementsAtomicIncidents, Atomic!Spec
=============================================================================
