---------------------------- MODULE AgentPipeline ----------------------------
(***************************************************************************)
(* The Linux agent: one collector thread per log source, the bounded       *)
(* SQLite spool they share, the delivery thread that sends batches to the  *)
(* control plane, and the operator's spool commands.                       *)
(*                                                                         *)
(* A line of a source becomes one event (its id is derived from the        *)
(* cursor), so an event is a pair of a source and a line number. One       *)
(* action is one SQLite transaction, one step of the HTTP exchange, or one *)
(* decision of a thread between two of them.                               *)
(***************************************************************************)
EXTENDS Integers, FiniteSets

CONSTANTS
  Sources,      \* the configured log sources
  MaxLine,      \* bound: the lines each source writes
  Kind,         \* what becomes of each event, see Kinds
  Capacity,     \* spool.max_events
  BatchSize,    \* configured_batch_size
  MaxBody,      \* events that fit into a request the server still reads
  SkewedClock   \* the host's clock is off by more than the server tolerates

Events == UNION {{s} \X (1..MaxLine[s]) : s \in Sources}

\* Not recognised by the normaliser; accepted; refused with 422 or with 413
\* whatever else is in the batch.
Kinds == {"ignored", "healthy", "poison", "huge"}

ASSUME AgentAssumption ==
  /\ MaxLine \in [Sources -> Nat]
  /\ IsFiniteSet(Events) /\ Kind \in [Events -> Kinds]
  /\ Capacity \in Nat \ {0} /\ BatchSize \in Nat \ {0} /\ MaxBody \in Nat \ {0}
  /\ SkewedClock \in BOOLEAN

VARIABLES
  written,    \* lines each source has written
  oldest,     \* first line of each source that is not rotated away
  up,         \* the agent process runs
  reader,     \* phase of each collector thread
  cursor,     \* source_cursors: the last committed line, NoCursor if none
  base,       \* history: first line read since the source was last rebased
  diagnosed,  \* history: sources with a journal_gap on record
  row,        \* spool_events
  size,       \* _current_batch_size
  delivery,   \* the delivery thread and its request
  stored,     \* events in the control plane's database, unique by event id
  deleted     \* history: events the operator deleted from the spool

agentVars ==
  <<written, oldest, up, reader, cursor, base, diagnosed, row, size, delivery, stored, deleted>>

sourceVars == <<written, oldest>>
readerVars == <<reader, cursor, base, diagnosed>>
deliveryVars == <<size, delivery>>

-----------------------------------------------------------------------------
(* The spool *)

NoCursor == 0

\* SQLite gives a new row a rowid above all rows present, so the delivery
\* order is kept as the set of rows that were there at the insert.
Absent == [status |-> "absent", due |-> FALSE, after |-> {}]

Present == {e \in Events : row[e].status # "absent"}

Full == Cardinality(Present) >= Capacity

Inserted(e) ==
  [row EXCEPT ![e] = [status |-> "pending", due |-> TRUE, after |-> Present]]

Without(gone) ==
  [e \in Events |-> IF e \in gone THEN Absent
                    ELSE [status |-> row[e].status, due |-> row[e].due,
                          after |-> row[e].after \ gone]]

Ready == {e \in Events : row[e].status = "pending" /\ row[e].due}

\* The oldest due rows, at most limit of them.
ReadyBatch(limit) == {e \in Ready : Cardinality(row[e].after \cap Ready) < limit}

-----------------------------------------------------------------------------
AgentIdle == [pc |-> "idle", batch |-> {}, answer |-> "none"]

AgentInit ==
  /\ written = [s \in Sources |-> 0]
  /\ oldest = [s \in Sources |-> 1]
  /\ up = FALSE
  /\ reader = [s \in Sources |-> "idle"]
  /\ cursor = [s \in Sources |-> NoCursor]
  /\ base = [s \in Sources |-> 1]
  /\ diagnosed = {}
  /\ row = [e \in Events |-> Absent]
  /\ size = BatchSize
  /\ delivery = AgentIdle
  /\ stored = {}
  /\ deleted = {}

(* The sources *)

Write(s) ==
  /\ written[s] < MaxLine[s]
  /\ written' = [written EXCEPT ![s] = @ + 1]
  /\ UNCHANGED <<oldest, up, readerVars, row, deliveryVars, stored, deleted>>

\* Rotation removes the oldest line. Lines that vanish before the source was
\* first read are not the agent's to report.
RotateAway(s) ==
  /\ oldest[s] <= written[s]
  /\ cursor[s] # NoCursor \/ s \in diagnosed
  /\ oldest' = [oldest EXCEPT ![s] = @ + 1]
  /\ UNCHANGED <<written, up, readerVars, row, deliveryVars, stored, deleted>>

-----------------------------------------------------------------------------
(* Collection *)

Reading == {"backlog", "follow"}

\* After the backlog the cursor is read again and the live phase opened;
\* anything else ends the cycle.
AfterDrain(phase) == IF phase = "backlog" THEN "reopen" ELSE "idle"

NextLine(s) == IF cursor[s] = NoCursor THEN base[s] ELSE cursor[s] + 1

\* The threads that are about to read from the committed cursor: at the top of
\* the collect loop, where a full spool pauses the source, and in the middle of
\* a cycle, where only the cursor is read again.
Opening(s) == up /\ ((reader[s] = "idle" /\ ~Full) \/ reader[s] = "reopen")

OpenReader(s) ==
  /\ Opening(s)
  /\ cursor[s] = NoCursor \/ cursor[s] >= oldest[s]
  /\ reader' = [reader EXCEPT ![s] = IF @ = "idle" THEN "backlog" ELSE "follow"]
  /\ base' = [base EXCEPT ![s] = IF cursor[s] = NoCursor THEN oldest[s] ELSE @]
  /\ UNCHANGED <<sourceVars, up, cursor, diagnosed, row, deliveryVars, stored, deleted>>

\* The line of the cursor was rotated away, or the reader only behaves as if.
CursorGone(s) ==
  /\ Opening(s) /\ cursor[s] \in 1..(oldest[s] - 1)
  /\ reader' = [reader EXCEPT ![s] = "gap"]
  /\ UNCHANGED <<sourceVars, up, cursor, base, diagnosed, row, deliveryVars, stored, deleted>>

ReaderFails(s) ==
  /\ \/ /\ Opening(s) /\ cursor[s] # NoCursor
        /\ reader' = [reader EXCEPT ![s] = "gap"]
     \/ /\ up /\ reader[s] \in Reading \cup {"reopen"}
        /\ reader' = [reader EXCEPT ![s] = "idle"]
  /\ UNCHANGED <<sourceVars, up, cursor, base, diagnosed, row, deliveryVars, stored, deleted>>

FinishBacklog(s) ==
  /\ up /\ reader[s] = "backlog" /\ NextLine(s) > written[s]
  /\ reader' = [reader EXCEPT ![s] = "reopen"]
  /\ UNCHANGED <<sourceVars, up, cursor, base, diagnosed, row, deliveryVars, stored, deleted>>

Advance(s) == cursor' = [cursor EXCEPT ![s] = NextLine(s)]

\* Fault: a record the full spool refuses is passed over.
PersistOrDrop(s) ==
  LET e == <<s, NextLine(s)>> IN
  /\ up /\ reader[s] \in Reading /\ NextLine(s) <= written[s]
  /\ Advance(s)
  /\ row' = IF Full \/ Kind[e] = "ignored" \/ e \in Present THEN row ELSE Inserted(e)
  /\ UNCHANGED <<sourceVars, up, reader, base, diagnosed, deliveryVars, stored, deleted>>

\* Fault: only the collect loop asks whether the spool is full.
PersistUnbounded(s) ==
  LET e == <<s, NextLine(s)>> IN
  /\ up /\ reader[s] \in Reading /\ NextLine(s) <= written[s]
  /\ Advance(s)
  /\ row' = IF Kind[e] = "ignored" \/ e \in Present THEN row ELSE Inserted(e)
  /\ UNCHANGED <<sourceVars, up, reader, base, diagnosed, deliveryVars, stored, deleted>>

\* An open reader still reaches every line after its position. The event and
\* the cursor are committed together; a full spool leaves both alone.
Persist(s) ==
  LET e == <<s, NextLine(s)>> IN
  /\ up /\ reader[s] \in Reading /\ NextLine(s) <= written[s]
  /\ \/ /\ Kind[e] = "ignored" \/ e \in Present
        /\ Advance(s)
        /\ UNCHANGED <<row, reader>>
     \/ /\ Kind[e] # "ignored" /\ e \notin Present /\ ~Full
        /\ Advance(s)
        /\ row' = Inserted(e)
        /\ UNCHANGED reader
     \/ /\ Kind[e] # "ignored" /\ e \notin Present /\ Full
        /\ reader' = [reader EXCEPT ![s] = AfterDrain(@)]
        /\ UNCHANGED <<row, cursor>>
  /\ UNCHANGED <<sourceVars, up, base, diagnosed, deliveryVars, stored, deleted>>

\* Fault: the source is rebased without a diagnostic.
SkipDiagnostic(s) ==
  /\ up /\ reader[s] = "gap"
  /\ reader' = [reader EXCEPT ![s] = "rebase"]
  /\ UNCHANGED <<sourceVars, up, cursor, base, diagnosed, row, deliveryVars, stored, deleted>>

\* The gap is on record in one transaction, the cursor cleared in the next.
RecordGap(s) ==
  /\ up /\ reader[s] = "gap"
  /\ reader' = [reader EXCEPT ![s] = "rebase"]
  /\ diagnosed' = diagnosed \cup {s}
  /\ UNCHANGED <<sourceVars, up, cursor, base, row, deliveryVars, stored, deleted>>

ClearCursor(s) ==
  /\ up /\ reader[s] = "rebase"
  /\ reader' = [reader EXCEPT ![s] = "idle"]
  /\ cursor' = [cursor EXCEPT ![s] = NoCursor]
  /\ UNCHANGED <<sourceVars, up, base, diagnosed, row, deliveryVars, stored, deleted>>

-----------------------------------------------------------------------------
(* Delivery *)

Send ==
  /\ up /\ delivery.pc = "idle" /\ ReadyBatch(size) # {}
  /\ delivery' = [pc |-> "sent", batch |-> ReadyBatch(size), answer |-> "none"]
  /\ UNCHANGED <<sourceVars, up, readerVars, row, size, stored, deleted>>

TooLarge(batch) ==
  Cardinality(batch) > MaxBody \/ \E e \in batch : Kind[e] = "huge"

Unprocessable(batch) == SkewedClock \/ \E e \in batch : Kind[e] = "poison"

Acceptable(batch) == ~TooLarge(batch) /\ ~Unprocessable(batch)

Answered(answer) == delivery' = [delivery EXCEPT !.pc = "answered", !.answer = answer]

\* The control plane stores the whole batch or refuses it: the body limit
\* comes before validation.
AnswerFinal ==
  /\ delivery.pc = "sent"
  /\ \/ /\ Acceptable(delivery.batch)
        /\ Answered("success")
        /\ stored' = stored \cup delivery.batch
     \/ /\ TooLarge(delivery.batch)
        /\ Answered("too_large")
        /\ UNCHANGED stored
     \/ /\ ~TooLarge(delivery.batch) /\ Unprocessable(delivery.batch)
        /\ Answered("unprocessable")
        /\ UNCHANGED stored
  /\ UNCHANGED <<sourceVars, up, readerVars, row, size, deleted>>

\* Throttled, refused, down or unreachable, or a valid answer lost on its way
\* after the batch was stored.
AnswerTransient ==
  /\ delivery.pc = "sent"
  /\ Answered("retry")
  /\ \/ UNCHANGED stored
     \/ Acceptable(delivery.batch) /\ stored' = stored \cup delivery.batch
  /\ UNCHANGED <<sourceVars, up, readerVars, row, size, deleted>>

Refused == delivery.answer \in {"too_large", "unprocessable"}

Acknowledge ==
  /\ up /\ delivery.pc = "answered" /\ delivery.answer = "success"
  /\ row' = Without(delivery.batch)
  /\ size' = BatchSize
  /\ delivery' = AgentIdle
  /\ UNCHANGED <<sourceVars, up, readerVars, stored, deleted>>

Defer ==
  /\ up /\ delivery.pc = "answered" /\ delivery.answer = "retry"
  /\ row' = [e \in Events |->
               IF e \in delivery.batch /\ row[e].status = "pending"
               THEN [status |-> "pending", due |-> FALSE, after |-> row[e].after]
               ELSE row[e]]
  /\ delivery' = AgentIdle
  /\ UNCHANGED <<sourceVars, up, readerVars, size, stored, deleted>>

\* Fault: a refused batch is retried whole.
RetryWhole ==
  /\ up /\ delivery.pc = "answered" /\ Refused
  /\ Cardinality(delivery.batch) > 1
  /\ delivery' = AgentIdle
  /\ UNCHANGED <<sourceVars, up, readerVars, row, size, stored, deleted>>

\* A refused batch is halved; its rows stay due.
Split ==
  /\ up /\ delivery.pc = "answered" /\ Refused
  /\ Cardinality(delivery.batch) > 1
  /\ size' = Cardinality(delivery.batch) \div 2
  /\ delivery' = AgentIdle
  /\ UNCHANGED <<sourceVars, up, readerVars, row, stored, deleted>>

TerminalStatus(answer) == IF answer = "too_large" THEN "oversized" ELSE "quarantined"

\* Fault: a refused batch is set aside whole.
SetAsideWhole ==
  /\ up /\ delivery.pc = "answered" /\ Refused
  /\ row' = [e \in Events |->
               IF e \in delivery.batch /\ row[e].status = "pending"
               THEN [row[e] EXCEPT !.status = TerminalStatus(delivery.answer)]
               ELSE row[e]]
  /\ delivery' = AgentIdle
  /\ UNCHANGED <<sourceVars, up, readerVars, size, stored, deleted>>

\* A refused event on its own is kept, but no longer sent.
SetAside ==
  /\ up /\ delivery.pc = "answered" /\ Refused
  /\ Cardinality(delivery.batch) <= 1
  /\ row' = [e \in Events |->
               IF e \in delivery.batch /\ row[e].status = "pending"
               THEN [status |-> TerminalStatus(delivery.answer), due |-> row[e].due,
                     after |-> row[e].after]
               ELSE row[e]]
  /\ delivery' = AgentIdle
  /\ UNCHANGED <<sourceVars, up, readerVars, size, stored, deleted>>

\* The delay of a deferred row has passed.
BecomeDue(e) ==
  /\ row[e].status = "pending" /\ ~row[e].due
  /\ row' = [row EXCEPT ![e].due = TRUE]
  /\ UNCHANGED <<sourceVars, up, readerVars, deliveryVars, stored, deleted>>

-----------------------------------------------------------------------------
(* The operator and the process *)

Terminal == {"quarantined", "oversized"}

Requeue(e) ==
  /\ row[e].status \in Terminal
  /\ row' = [row EXCEPT ![e] = [status |-> "pending", due |-> TRUE, after |-> row[e].after]]
  /\ UNCHANGED <<sourceVars, up, readerVars, deliveryVars, stored, deleted>>

Delete(e) ==
  /\ row[e].status # "absent"
  /\ row' = Without({e})
  /\ deleted' = deleted \cup {e}
  /\ UNCHANGED <<sourceVars, up, readerVars, deliveryVars, stored>>

StartAgent ==
  /\ ~up /\ up' = TRUE
  /\ UNCHANGED <<sourceVars, readerVars, row, deliveryVars, stored, deleted>>

\* A stop, a failed collector or a kill. What is not in SQLite is gone; the
\* control plane may still store the batch it was sent.
Crash ==
  /\ up /\ up' = FALSE
  /\ reader' = [s \in Sources |-> "idle"]
  /\ size' = BatchSize
  /\ delivery' = AgentIdle
  /\ \/ UNCHANGED stored
     \/ /\ delivery.pc = "sent" /\ Acceptable(delivery.batch)
        /\ stored' = stored \cup delivery.batch
  /\ UNCHANGED <<sourceVars, cursor, base, diagnosed, row, deleted>>

-----------------------------------------------------------------------------
Collect(s) == \/ OpenReader(s) \/ CursorGone(s) \/ FinishBacklog(s)
              \/ Persist(s) \/ RecordGap(s) \/ ClearCursor(s)

Deliver == \/ Send \/ AnswerFinal \/ AnswerTransient
           \/ Acknowledge \/ Defer \/ Split \/ SetAside

Operate == \E e \in Events : Requeue(e) \/ Delete(e)

AgentNext ==
  \/ \E s \in Sources : Write(s) \/ RotateAway(s) \/ Collect(s) \/ ReaderFails(s)
  \/ Deliver
  \/ \E e \in Events : BecomeDue(e)
  \/ Operate
  \/ StartAgent \/ Crash

AgentSpec == AgentInit /\ [][AgentNext]_agentVars

\* The threads keep running while the process does and systemd restarts it, a
\* delay passes, and the control plane, tried again and again, gives a final
\* answer sometime.
AgentFairness ==
  /\ WF_agentVars(StartAgent) /\ WF_agentVars(Deliver) /\ SF_agentVars(AnswerFinal)
  /\ \A s \in Sources : WF_agentVars(Collect(s))
  /\ \A e \in Events : WF_agentVars(BecomeDue(e))

AgentFairSpec == AgentSpec /\ AgentFairness

-----------------------------------------------------------------------------
(* Properties *)

RowType ==
  [status: {"absent", "pending", "quarantined", "oversized"}, due: BOOLEAN,
   after: SUBSET Events]

Answers == {"none", "success", "retry", "too_large", "unprocessable"}

\* The variables hold values of their types, and a row is never its own
\* predecessor in the delivery order.
AgentTypeOK ==
  /\ written \in [Sources -> Nat] /\ oldest \in [Sources -> Nat \ {0}]
  /\ up \in BOOLEAN
  /\ reader \in [Sources -> {"idle", "backlog", "reopen", "follow", "gap", "rebase"}]
  /\ cursor \in [Sources -> Nat] /\ base \in [Sources -> Nat \ {0}]
  /\ \A s \in Sources :
       /\ written[s] <= MaxLine[s] /\ oldest[s] <= written[s] + 1
       /\ cursor[s] <= written[s] /\ base[s] <= oldest[s]
  /\ diagnosed \subseteq Sources
  /\ row \in [Events -> RowType]
  /\ \A e \in Events : row[e].after \subseteq Present \ {e}
  /\ size \in Nat \ {0}
  /\ delivery \in [pc: {"idle", "sent", "answered"}, batch: SUBSET Events, answer: Answers]
  /\ stored \subseteq Events /\ deleted \subseteq Events

Accounted(e) ==
  Kind[e] = "ignored" \/ e \in Present \/ e \in stored \/ e \in deleted

\* The cursor never passes an event by: whatever lies between the start of the
\* reading and the cursor is still in the spool, in the control plane's
\* database, or was deleted by the operator, through crashes, a full spool,
\* lost answers, split batches and commands on a batch in flight.
NothingLost ==
  \A s \in Sources : \A n \in base[s]..cursor[s] : Accounted(<<s, n>>)

\* And if the reading was rebased past events never taken, the operator can see
\* a journal_gap.
NoSilentGap ==
  \A s \in Sources : \A n \in 1..cursor[s] : Accounted(<<s, n>>) \/ s \in diagnosed

\* The collectors of all sources together keep the spool within its capacity.
SpoolBounded == Cardinality(Present) <= Capacity

\* Splitting finds the culprit: with a correct clock, an event is set aside only
\* if the control plane refuses it on its own, never for its batch's sake.
OnlyGuiltySetAside ==
  \A e \in Events :
    /\ row[e].status = "quarantined" => Kind[e] = "poison" \/ SkewedClock
    /\ row[e].status = "oversized" => Kind[e] = "huge"

\* Why: an answer on record is true of its batch, a source is rebased only
\* with a diagnostic, and up to the first one its reading starts at line 1.
AnswerHonest ==
  /\ delivery.answer = "success" => delivery.batch \subseteq stored
  /\ delivery.answer = "too_large" => TooLarge(delivery.batch)
  /\ delivery.answer = "unprocessable" => Unprocessable(delivery.batch)

GapBeforeRebase ==
  \A s \in Sources :
    /\ reader[s] = "rebase" => s \in diagnosed
    /\ cursor[s] = NoCursor /\ s \notin diagnosed => base[s] = 1 /\ oldest[s] = 1

\* The inductive invariant.
AgentSound ==
  /\ AgentTypeOK /\ NothingLost /\ NoSilentGap /\ SpoolBounded /\ OnlyGuiltySetAside
  /\ AnswerHonest /\ GapBeforeRebase

\* The process stays up, no reader fails and the operator has stopped.
Undisturbed ==
  /\ up => up'
  /\ \A s \in Sources : ReaderFails(s) => Collect(s)
  /\ ~Operate

\* Once undisturbed, every event that can be accepted reaches the database,
\* whatever shares its batch or fills the spool, short of a spool that is full
\* of events only the operator can remove; and an event that is always refused
\* does not stay in the queue.
Clogged == Cardinality({e \in Events : row[e].status \in Terminal}) >= Capacity

EventuallySettled ==
  <>[][Undisturbed]_agentVars =>
    \A e \in Events :
      /\ Kind[e] = "healthy" /\ ~SkewedClock =>
           (written[e[1]] >= e[2]) ~>
             \/ e \in stored \cup deleted
             \/ oldest[e[1]] > e[2] /\ e \notin Present
             \/ Clogged
      /\ Kind[e] \in {"poison", "huge"} =>
           (row[e].status = "pending") ~> (row[e].status # "pending")
=============================================================================
