------------------------- MODULE AgentPipelineProofs -------------------------
(***************************************************************************)
(* Proofs about AgentPipeline, for any sources, capacity and batch size.   *)
(*                                                                         *)
(* Most steps leave the cursors alone and can only harm the invariant by   *)
(* making an event unaccounted for; AccountedStays says when they do not.  *)
(* The steps that move a cursor or a rebase are treated one by one.        *)
(***************************************************************************)
EXTENDS AgentPipeline, FiniteSetTheorems, TLAPS

LEMMA EventsType ==
  /\ \A e \in Events : e[1] \in Sources /\ e[2] \in 1..MaxLine[e[1]] /\ e = <<e[1], e[2]>>
  /\ \A s \in Sources : \A n \in 1..MaxLine[s] : <<s, n>> \in Events
<1>1. ASSUME NEW e \in Events
      PROVE  e[1] \in Sources /\ e[2] \in 1..MaxLine[e[1]] /\ e = <<e[1], e[2]>>
  <2>1. PICK s \in Sources : e \in {s} \X (1..MaxLine[s])
    BY DEF Events
  <2>2. PICK n \in 1..MaxLine[s] : e = <<s, n>>
    BY <2>1
  <2> QED BY <2>2
<1>2. ASSUME NEW s \in Sources, NEW n \in 1..MaxLine[s]
      PROVE  <<s, n>> \in Events
  BY DEF Events
<1> QED BY <1>1, <1>2

\* A subset of the events is finite and its size a number.
LEMMA EventSetsFinite ==
  ASSUME NEW S \in SUBSET Events
  PROVE  IsFiniteSet(S) /\ Cardinality(S) \in Nat
  BY AgentAssumption, FS_Subset, FS_CardinalityType DEF AgentAssumption

-----------------------------------------------------------------------------
(* What a step must preserve *)

\* An event stays accounted for if it leaves the spool only for the database
\* or by the operator's hand.
LEMMA AccountedStays ==
  ASSUME stored \subseteq stored', deleted \subseteq deleted',
         Present \subseteq Present' \cup stored' \cup deleted'
  PROVE  \A e \in Events : Accounted(e) => Accounted(e)'
  BY DEF Accounted

\* The lines up to a cursor, or from a base to a cursor, are events.
LEMMA LinesBehind ==
  ASSUME AgentTypeOK, NEW s \in Sources
  PROVE  /\ \A n \in 1..cursor[s] : <<s, n>> \in Events
         /\ \A n \in base[s]..cursor[s] : n \in 1..cursor[s]
<1>1. /\ cursor[s] \in Nat /\ base[s] \in Nat \ {0} /\ written[s] \in Nat
      /\ cursor[s] <= written[s] /\ written[s] <= MaxLine[s] /\ MaxLine[s] \in Nat
  BY AgentAssumption DEF AgentTypeOK, AgentAssumption
<1>2. \A n \in 1..cursor[s] : n \in 1..MaxLine[s]
  BY <1>1
<1> QED BY <1>1, <1>2, EventsType

\* With cursors and rebases unchanged that is all there is to show.
LEMMA CursorsAlone ==
  ASSUME AgentTypeOK, NothingLost, NoSilentGap, UNCHANGED <<cursor, base>>,
         diagnosed \subseteq diagnosed',
         \A e \in Events : Accounted(e) => Accounted(e)'
  PROVE  NothingLost' /\ NoSilentGap'
<1>1. ASSUME NEW s \in Sources, NEW n \in base[s]..cursor[s]
      PROVE  Accounted(<<s, n>>)'
  <2>1. <<s, n>> \in Events
    BY LinesBehind
  <2> QED BY <2>1 DEF NothingLost
<1>2. ASSUME NEW s \in Sources, NEW n \in 1..cursor[s]
      PROVE  Accounted(<<s, n>>)' \/ s \in diagnosed'
  <2>1. <<s, n>> \in Events
    BY LinesBehind
  <2> QED BY <2>1 DEF NoSilentGap
<1> QED BY <1>1, <1>2 DEF NothingLost, NoSilentGap

\* Fewer rows do not fill the spool.
LEMMA FewerRows ==
  ASSUME SpoolBounded, Present' \subseteq Present, Present \in SUBSET Events
  PROVE  SpoolBounded'
<1>1. Cardinality(Present') <= Cardinality(Present)
  BY EventSetsFinite, FS_Subset
<1>2. Cardinality(Present') \in Nat /\ Cardinality(Present) \in Nat /\ Capacity \in Nat
  BY EventSetsFinite, AgentAssumption DEF AgentAssumption
<1> QED BY <1>1, <1>2 DEF SpoolBounded

-----------------------------------------------------------------------------
(* Updates of the spool *)

RowsOK ==
  /\ row \in [Events -> RowType]
  /\ \A e \in Events : row[e].after \subseteq Present \ {e}

\* Removing rows.
LEMMA Removal ==
  ASSUME RowsOK, NEW gone \in SUBSET Events, row' = Without(gone)
  PROVE  /\ RowsOK'
         /\ Present' = Present \ gone
         /\ \A e \in Events : row'[e].status = row[e].status \/ row'[e].status = "absent"
<1>1. ASSUME NEW e \in Events
      PROVE  /\ e \in gone => row'[e] = Absent
             /\ e \notin gone => /\ row'[e].status = row[e].status
                                 /\ row'[e].after = row[e].after \ gone
             /\ row'[e] \in RowType
  <2>1. row[e] \in RowType
    BY DEF RowsOK
  <2> QED BY <2>1 DEF Without, Absent, RowType
<1>2. row' \in [Events -> RowType]
  BY <1>1 DEF Without
<1>3. Present' = Present \ gone
  BY <1>1 DEF Present, Absent
<1>4. \A e \in Events : row'[e].after \subseteq Present' \ {e}
  BY <1>1, <1>3 DEF RowsOK, Absent
<1> QED BY <1>1, <1>2, <1>3, <1>4 DEF RowsOK, Absent

\* Inserting a row.
LEMMA Insertion ==
  ASSUME RowsOK, NEW e \in Events, e \notin Present, row' = Inserted(e)
  PROVE  /\ RowsOK'
         /\ Present' = Present \cup {e}
         /\ \A f \in Events : row'[f].status = row[f].status \/ row'[f].status = "pending"
<1> DEFINE new == [status |-> "pending", due |-> TRUE, after |-> Present]
<1>1. new \in RowType
  BY DEF RowType, Present
<1>2. row' = [row EXCEPT ![e] = new]
  BY DEF Inserted
<1>3. row' \in [Events -> RowType] /\ row'[e] = new
      /\ \A f \in Events : f # e => row'[f] = row[f]
  BY <1>1, <1>2 DEF RowsOK
<1>4. Present' = Present \cup {e}
  BY <1>3 DEF Present
<1>5. \A f \in Events : row'[f].after \subseteq Present' \ {f}
  BY <1>3, <1>4 DEF RowsOK
<1> QED BY <1>3, <1>4, <1>5 DEF RowsOK

\* Changing rows without removing or reordering any.
LEMMA Update ==
  ASSUME RowsOK, row' \in [Events -> RowType],
         \A e \in Events : /\ row'[e].after = row[e].after
                           /\ row'[e].status = "absent" <=> row[e].status = "absent"
  PROVE  RowsOK' /\ Present' = Present
<1>1. Present' = Present
  BY DEF Present
<1> QED BY <1>1 DEF RowsOK

-----------------------------------------------------------------------------
(* The sources and the collectors *)

Quiet == UNCHANGED <<row, stored, deleted>>

\* A step that touches neither rows nor records keeps every account.
LEMMA QuietStays ==
  ASSUME AgentSound, Quiet
  PROVE  /\ RowsOK' /\ SpoolBounded' /\ OnlyGuiltySetAside'
         /\ \A e \in Events : Accounted(e) => Accounted(e)'
<1>1. Present' = Present
  BY DEF Quiet, Present
<1>2. Present' \subseteq Present
  BY <1>1
<1>3. RowsOK' /\ OnlyGuiltySetAside'
  BY <1>1 DEF AgentSound, AgentTypeOK, Quiet, RowsOK, OnlyGuiltySetAside
<1>4. \A e \in Events : Accounted(e) => Accounted(e)'
  BY <1>1, AccountedStays DEF Quiet
<1>5. SpoolBounded'
  BY <1>1 DEF AgentSound, SpoolBounded
<1> QED BY <1>3, <1>4, <1>5

LEMMA WriteStep == ASSUME AgentSound, NEW s \in Sources, Write(s) PROVE AgentSound'
<1>1. Quiet /\ UNCHANGED <<oldest, up, reader, cursor, base, diagnosed, size, delivery>>
  BY DEF Write, Quiet, readerVars, deliveryVars
<1>2. AgentTypeOK'
  <2>1. /\ written \in [Sources -> Nat] /\ written[s] < MaxLine[s] /\ MaxLine[s] \in Nat
        /\ written' = [written EXCEPT ![s] = written[s] + 1]
    BY AgentAssumption DEF AgentSound, AgentTypeOK, Write, AgentAssumption
  <2>2. written' \in [Sources -> Nat]
        /\ \A r \in Sources : written[r] <= written'[r]
                             /\ (written[r] <= MaxLine[r] => written'[r] <= MaxLine[r])
    BY <2>1
  <2> QED BY <1>1, <2>2, QuietStays DEF AgentSound, AgentTypeOK, RowsOK, Quiet
<1>3. NothingLost' /\ NoSilentGap'
  BY <1>1, QuietStays, CursorsAlone DEF AgentSound
<1>4. AnswerHonest' /\ GapBeforeRebase'
  BY <1>1 DEF AgentSound, AnswerHonest, GapBeforeRebase, Quiet, TooLarge, Unprocessable
<1> QED BY <1>1, <1>2, <1>3, <1>4, QuietStays DEF AgentSound

LEMMA RotateStep == ASSUME AgentSound, NEW s \in Sources, RotateAway(s) PROVE AgentSound'
<1>1. Quiet /\ UNCHANGED <<written, up, reader, cursor, base, diagnosed, size, delivery>>
  BY DEF RotateAway, Quiet, readerVars, deliveryVars
<1>2. AgentTypeOK'
  BY <1>1, QuietStays, AgentAssumption
     DEF AgentSound, AgentTypeOK, RotateAway, RowsOK, Quiet, AgentAssumption
<1>3. NothingLost' /\ NoSilentGap'
  BY <1>1, QuietStays, CursorsAlone DEF AgentSound
<1>4. AnswerHonest'
  BY <1>1 DEF AgentSound, AnswerHonest, Quiet, TooLarge, Unprocessable
<1>5. GapBeforeRebase'
  BY <1>1 DEF AgentSound, AgentTypeOK, GapBeforeRebase, RotateAway
<1> QED BY <1>1, <1>2, <1>3, <1>4, <1>5, QuietStays DEF AgentSound

\* Steps of a collector that change its phase only.
LEMMA PhaseStep ==
  ASSUME AgentSound, NEW s \in Sources,
         CursorGone(s) \/ ReaderFails(s) \/ FinishBacklog(s)
  PROVE  AgentSound'
<1>1. /\ Quiet /\ UNCHANGED <<written, oldest, up, cursor, base, diagnosed, size, delivery>>
      /\ \E phase \in {"gap", "idle", "reopen"} : reader' = [reader EXCEPT ![s] = phase]
  BY DEF CursorGone, ReaderFails, FinishBacklog, Quiet, sourceVars, deliveryVars
<1>2. AgentTypeOK'
  BY <1>1, QuietStays DEF AgentSound, AgentTypeOK, RowsOK, Quiet
<1>3. NothingLost' /\ NoSilentGap'
  BY <1>1, QuietStays, CursorsAlone DEF AgentSound
<1>4. AnswerHonest'
  BY <1>1 DEF AgentSound, AnswerHonest, Quiet, TooLarge, Unprocessable
<1>5. GapBeforeRebase'
  BY <1>1 DEF AgentSound, AgentTypeOK, GapBeforeRebase
<1> QED BY <1>1, <1>2, <1>3, <1>4, <1>5, QuietStays DEF AgentSound

\* A reader that starts without a cursor starts a new base, and has read
\* nothing from it yet.
LEMMA OpenStep == ASSUME AgentSound, NEW s \in Sources, OpenReader(s) PROVE AgentSound'
<1>1. Quiet /\ UNCHANGED <<written, oldest, up, cursor, diagnosed, size, delivery>>
  BY DEF OpenReader, Quiet, sourceVars, deliveryVars
<1>2. AgentTypeOK'
  BY <1>1, QuietStays DEF AgentSound, AgentTypeOK, RowsOK, Quiet, OpenReader, Opening
<1>3. ASSUME NEW r \in Sources, NEW n \in base'[r]..cursor'[r]
      PROVE  Accounted(<<r, n>>)'
  <2>1. base'[r] = base[r]
    BY <1>1, <1>3 DEF AgentSound, AgentTypeOK, OpenReader, NoCursor
  <2>2. <<r, n>> \in Events
    BY <1>1, <2>1, LinesBehind DEF AgentSound
  <2> QED BY <1>1, <2>1, <2>2, QuietStays DEF AgentSound, NothingLost
<1>4. ASSUME NEW r \in Sources, NEW n \in 1..cursor'[r]
      PROVE  Accounted(<<r, n>>)' \/ r \in diagnosed'
  <2>1. <<r, n>> \in Events
    BY <1>1, LinesBehind DEF AgentSound
  <2> QED BY <1>1, <2>1, QuietStays DEF AgentSound, NoSilentGap
<1>5. AnswerHonest'
  BY <1>1 DEF AgentSound, AnswerHonest, Quiet, TooLarge, Unprocessable
<1>6. GapBeforeRebase'
  BY <1>1 DEF AgentSound, AgentTypeOK, GapBeforeRebase, OpenReader
<1>7. NothingLost' /\ NoSilentGap'
  BY <1>3, <1>4 DEF NothingLost, NoSilentGap
<1> QED BY <1>1, <1>2, <1>5, <1>6, <1>7, QuietStays DEF AgentSound

\* The cursor moves by one line, and that line is accounted for.
LEMMA AdvanceKeeps ==
  ASSUME AgentSound, NEW s \in Sources, NEW m, m = NextLine(s), Advance(s),
         UNCHANGED <<base, diagnosed>>,
         \A e \in Events : Accounted(e) => Accounted(e)',
         Accounted(<<s, m>>)'
  PROVE  NothingLost' /\ NoSilentGap'
<1>1. /\ cursor' = [cursor EXCEPT ![s] = m]
      /\ cursor \in [Sources -> Nat] /\ base \in [Sources -> Nat \ {0}]
      /\ m \in Nat \ {0}
  BY DEF AgentSound, AgentTypeOK, Advance, NextLine, NoCursor
<1>2. ASSUME NEW r \in Sources, NEW n \in 1..cursor[r] PROVE <<r, n>> \in Events
  BY LinesBehind DEF AgentSound
<1>3. ASSUME NEW r \in Sources, NEW n \in base'[r]..cursor'[r]
      PROVE  Accounted(<<r, n>>)'
  <2>1. CASE r = s /\ n = m
    BY <2>1
  <2>2. CASE ~(r = s /\ n = m)
    <3>1. n \in base[r]..cursor[r]
      BY <1>1, <2>2 DEF NextLine, NoCursor
    <3>2. n \in 1..cursor[r]
      BY <1>1, <3>1
    <3> QED BY <1>2, <3>1, <3>2 DEF AgentSound, NothingLost
  <2> QED BY <2>1, <2>2
<1>4. ASSUME NEW r \in Sources, NEW n \in 1..cursor'[r]
      PROVE  Accounted(<<r, n>>)' \/ r \in diagnosed'
  <2>1. CASE r = s /\ n = m
    BY <2>1
  <2>2. CASE ~(r = s /\ n = m) /\ r \notin diagnosed
    <3>1. n \in 1..cursor[r]
      BY <1>1, <2>2 DEF NextLine, NoCursor, AgentSound, GapBeforeRebase
    <3> QED BY <1>2, <2>2, <3>1 DEF AgentSound, NoSilentGap
  <2> QED BY <2>1, <2>2
<1> QED BY <1>3, <1>4 DEF NothingLost, NoSilentGap

LEMMA PersistStep == ASSUME AgentSound, NEW s \in Sources, Persist(s) PROVE AgentSound'
<1> DEFINE m == NextLine(s)
           e == <<s, m>>
<1>1. /\ up /\ reader[s] \in Reading /\ m <= written[s]
      /\ UNCHANGED <<written, oldest, up, base, diagnosed, size, delivery, stored, deleted>>
  BY DEF Persist, sourceVars, deliveryVars
<1>2. e \in Events /\ m \in Nat \ {0} /\ m <= MaxLine[s]
  <2>1. m \in Nat \ {0} /\ m <= written[s] /\ written[s] <= MaxLine[s] /\ written[s] \in Nat
        /\ MaxLine[s] \in Nat
    BY <1>1, AgentAssumption DEF AgentSound, AgentTypeOK, NextLine, NoCursor, AgentAssumption
  <2>2. m \in 1..MaxLine[s]
    BY <2>1
  <2> QED BY <2>1, <2>2, EventsType
<1>3. RowsOK /\ Present \in SUBSET Events
  BY DEF AgentSound, AgentTypeOK, RowsOK, Present
<1>4. AnswerHonest'
  BY <1>1 DEF AgentSound, AnswerHonest, TooLarge, Unprocessable
<1>5. CASE /\ Kind[e] = "ignored" \/ e \in Present
           /\ Advance(s) /\ UNCHANGED <<row, reader>>
  <2>1. Quiet
    BY <1>1, <1>5 DEF Quiet
  <2>2. AgentTypeOK'
    BY <1>1, <1>2, <1>5, <2>1, QuietStays DEF AgentSound, AgentTypeOK, RowsOK, Quiet, Advance
  <2>3. Accounted(e)
    BY <1>5 DEF Accounted
  <2>4. PICK k : k = NextLine(s)
    OBVIOUS
  <2>5. <<s, k>> \in Events /\ Accounted(<<s, k>>)
    BY <1>2, <2>3, <2>4
  <2>6. NothingLost' /\ NoSilentGap'
    BY <1>1, <1>5, <2>1, <2>4, <2>5, QuietStays, AdvanceKeeps
  <2>7. GapBeforeRebase'
    BY <1>1, <1>2, <1>5 DEF AgentSound, AgentTypeOK, GapBeforeRebase, Advance, NoCursor
  <2> QED BY <1>4, <2>1, <2>2, <2>6, <2>7, QuietStays DEF AgentSound
<1>6. CASE /\ Kind[e] # "ignored" /\ e \notin Present /\ ~Full
           /\ Advance(s) /\ row' = Inserted(e) /\ UNCHANGED reader
  <2>1. PICK k : k = NextLine(s)
    OBVIOUS
  <2>2. <<s, k>> \in Events /\ <<s, k>> \notin Present /\ row' = Inserted(<<s, k>>)
    BY <1>2, <1>6, <2>1
  <2>3. /\ RowsOK' /\ Present' = Present \cup {<<s, k>>}
        /\ \A f \in Events : row'[f].status = row[f].status \/ row'[f].status = "pending"
    BY <1>3, <2>2, Insertion
  <2>4. AgentTypeOK'
    BY <1>1, <1>2, <1>6, <2>3 DEF AgentSound, AgentTypeOK, RowsOK, Advance
  <2>5. \A f \in Events : Accounted(f) => Accounted(f)'
    BY <1>1, <2>3, AccountedStays
  <2>6. Accounted(<<s, k>>)'
    BY <2>3 DEF Accounted
  <2>7. NothingLost' /\ NoSilentGap'
    BY <1>1, <1>6, <2>1, <2>5, <2>6, AdvanceKeeps
  <2>8. SpoolBounded'
    <3>1. Cardinality(Present \cup {<<s, k>>}) = Cardinality(Present) + 1
      BY <1>3, <2>2, EventSetsFinite, FS_AddElement
    <3>2. Cardinality(Present) \in Nat /\ Capacity \in Nat
      BY <1>3, EventSetsFinite, AgentAssumption DEF AgentAssumption
    <3>3. Cardinality(Present') = Cardinality(Present) + 1
      BY <2>3, <3>1
    <3>4. ~(Cardinality(Present) >= Capacity)
      BY <1>6 DEF Full
    <3> QED BY <3>2, <3>3, <3>4 DEF SpoolBounded
  <2>9. OnlyGuiltySetAside'
    BY <2>3 DEF AgentSound, OnlyGuiltySetAside
  <2>10. GapBeforeRebase'
    BY <1>1, <1>2, <1>6 DEF AgentSound, AgentTypeOK, GapBeforeRebase, Advance, NoCursor
  <2> QED BY <1>4, <2>4, <2>7, <2>8, <2>9, <2>10 DEF AgentSound
<1>7. CASE /\ reader' = [reader EXCEPT ![s] = AfterDrain(@)]
           /\ UNCHANGED <<row, cursor>>
  <2>1. Quiet
    BY <1>1, <1>7 DEF Quiet
  <2>2. AgentTypeOK'
    BY <1>1, <1>7, <2>1, QuietStays DEF AgentSound, AgentTypeOK, RowsOK, Quiet, AfterDrain
  <2>3. NothingLost' /\ NoSilentGap'
    BY <1>1, <1>7, <2>1, QuietStays, CursorsAlone DEF AgentSound
  <2>4. GapBeforeRebase'
    BY <1>1, <1>7 DEF AgentSound, AgentTypeOK, GapBeforeRebase, AfterDrain
  <2> QED BY <1>4, <2>1, <2>2, <2>3, <2>4, QuietStays DEF AgentSound
<1> QED BY <1>5, <1>6, <1>7 DEF Persist

LEMMA GapStep ==
  ASSUME AgentSound, NEW s \in Sources, RecordGap(s) \/ ClearCursor(s)
  PROVE  AgentSound'
<1>1. Quiet /\ UNCHANGED <<written, oldest, up, base, size, delivery>>
  BY DEF RecordGap, ClearCursor, Quiet, sourceVars, deliveryVars
<1>2. AnswerHonest'
  BY <1>1 DEF AgentSound, AnswerHonest, Quiet, TooLarge, Unprocessable
<1>3. CASE RecordGap(s)
  <2>1. AgentTypeOK'
    BY <1>1, <1>3, QuietStays DEF AgentSound, AgentTypeOK, RowsOK, Quiet, RecordGap
  <2>2. NothingLost' /\ NoSilentGap'
    BY <1>1, <1>3, QuietStays, CursorsAlone DEF AgentSound, RecordGap
  <2>3. GapBeforeRebase'
    BY <1>1, <1>3 DEF AgentSound, AgentTypeOK, GapBeforeRebase, RecordGap
  <2> QED BY <1>1, <1>2, <2>1, <2>2, <2>3, QuietStays DEF AgentSound
<1>4. CASE ClearCursor(s)
  <2>1. /\ cursor \in [Sources -> Nat] /\ base \in [Sources -> Nat \ {0}]
        /\ cursor' = [cursor EXCEPT ![s] = 0] /\ UNCHANGED <<base, diagnosed>>
    BY <1>4 DEF AgentSound, AgentTypeOK, ClearCursor, NoCursor
  <2>2. AgentTypeOK'
    BY <1>1, <1>4, QuietStays DEF AgentSound, AgentTypeOK, RowsOK, Quiet, ClearCursor, NoCursor
  <2>3. \A r \in Sources : \A n \in base'[r]..cursor'[r] : n \in base[r]..cursor[r]
    BY <2>1
  <2>4. \A r \in Sources : \A n \in 1..cursor'[r] : n \in 1..cursor[r]
    BY <2>1
  <2>5. ASSUME NEW r \in Sources, NEW n \in base'[r]..cursor'[r] PROVE Accounted(<<r, n>>)'
    BY <1>1, <2>3, QuietStays, LinesBehind DEF AgentSound, NothingLost
  <2>6. ASSUME NEW r \in Sources, NEW n \in 1..cursor'[r]
        PROVE  Accounted(<<r, n>>)' \/ r \in diagnosed'
    BY <1>1, <2>1, <2>4, QuietStays, LinesBehind DEF AgentSound, NoSilentGap
  <2>7. NothingLost' /\ NoSilentGap'
    BY <2>5, <2>6 DEF NothingLost, NoSilentGap
  <2>8. GapBeforeRebase'
    BY <1>1, <1>4 DEF AgentSound, AgentTypeOK, GapBeforeRebase, ClearCursor
  <2> QED BY <1>1, <1>2, <2>2, <2>7, <2>8, QuietStays DEF AgentSound
<1> QED BY <1>3, <1>4

-----------------------------------------------------------------------------
(* Delivery, the operator and the process *)

Settled == UNCHANGED <<written, oldest, cursor, base, diagnosed>>

\* A step that leaves sources and cursors alone: what remains to be shown.
LEMMA SettledStep ==
  ASSUME AgentSound, Settled, RowsOK', AnswerHonest', OnlyGuiltySetAside', SpoolBounded',
         up' \in BOOLEAN, size' \in Nat \ {0},
         stored' \subseteq Events, deleted' \subseteq Events,
         reader' = reader \/ reader' = [s \in Sources |-> "idle"],
         delivery' \in [pc: {"idle", "sent", "answered"}, batch: SUBSET Events, answer: Answers],
         \A e \in Events : Accounted(e) => Accounted(e)'
  PROVE  AgentSound'
<1>1. AgentTypeOK'
  BY DEF AgentSound, AgentTypeOK, Settled, RowsOK
<1>2. NothingLost' /\ NoSilentGap'
  BY CursorsAlone DEF AgentSound, Settled
<1>3. GapBeforeRebase'
  BY DEF AgentSound, AgentTypeOK, GapBeforeRebase, Settled
<1> QED BY <1>1, <1>2, <1>3 DEF AgentSound

\* What an answer says stays true: the set of stored events only grows.
LEMMA HonestStays ==
  ASSUME AgentSound, delivery' = delivery \/ delivery' = AgentIdle, stored \subseteq stored'
  PROVE  AnswerHonest'
  BY DEF AgentSound, AnswerHonest, AgentIdle, TooLarge, Unprocessable

LEMMA SendStep == ASSUME AgentSound, Send PROVE AgentSound'
<1>1. /\ Settled /\ Quiet /\ UNCHANGED <<up, reader, size>>
      /\ delivery' = [pc |-> "sent", batch |-> ReadyBatch(size), answer |-> "none"]
  BY DEF Send, Settled, Quiet, sourceVars, readerVars
<1>2. ReadyBatch(size) \in SUBSET Events
  BY DEF ReadyBatch, Ready
<1>3. delivery' \in [pc: {"idle", "sent", "answered"}, batch: SUBSET Events, answer: Answers]
  BY <1>1, <1>2 DEF Answers
<1>4. AnswerHonest'
  BY <1>1 DEF AnswerHonest
<1>5. /\ up' \in BOOLEAN /\ size' \in Nat \ {0}
      /\ stored' \subseteq Events /\ deleted' \subseteq Events
  BY <1>1 DEF AgentSound, AgentTypeOK, Quiet
<1> QED BY <1>1, <1>3, <1>4, <1>5, QuietStays, SettledStep

LEMMA AnswerStep == ASSUME AgentSound, AnswerFinal \/ AnswerTransient PROVE AgentSound'
<1>1. /\ Settled /\ UNCHANGED <<up, reader, size, row, deleted>>
      /\ stored' = stored \/ stored' = stored \cup delivery.batch
      /\ \E answer \in Answers : Answered(answer)
  BY DEF AnswerFinal, AnswerTransient, Settled, sourceVars, readerVars, Answers
<1>2. /\ delivery \in [pc: {"idle", "sent", "answered"}, batch: SUBSET Events, answer: Answers]
      /\ row \in [Events -> RowType]
  BY DEF AgentSound, AgentTypeOK
<1>3. delivery' \in [pc: {"idle", "sent", "answered"}, batch: SUBSET Events, answer: Answers]
      /\ delivery'.batch = delivery.batch
  BY <1>1, <1>2 DEF Answered
<1>4. /\ up' \in BOOLEAN /\ size' \in Nat \ {0}
      /\ stored' \subseteq Events /\ deleted' \subseteq Events
  BY <1>1, <1>2 DEF AgentSound, AgentTypeOK
<1>5. Present' = Present
  BY <1>1 DEF Present
<1>6. RowsOK' /\ SpoolBounded' /\ OnlyGuiltySetAside'
  BY <1>1, <1>5 DEF AgentSound, AgentTypeOK, RowsOK, SpoolBounded, OnlyGuiltySetAside
<1>7. \A e \in Events : Accounted(e) => Accounted(e)'
  BY <1>1, <1>5, AccountedStays
<1>8. AnswerHonest'
  <2>1. CASE AnswerFinal /\ Acceptable(delivery.batch) /\ Answered("success")
             /\ stored' = stored \cup delivery.batch
    BY <1>2, <2>1 DEF AnswerHonest, Answered
  <2>2. CASE AnswerFinal /\ TooLarge(delivery.batch) /\ Answered("too_large")
    BY <1>2, <1>3, <2>2 DEF AnswerHonest, Answered, TooLarge
  <2>3. CASE AnswerFinal /\ Unprocessable(delivery.batch) /\ Answered("unprocessable")
    BY <1>2, <1>3, <2>3 DEF AnswerHonest, Answered, Unprocessable
  <2>4. CASE AnswerTransient
    BY <1>2, <2>4 DEF AnswerHonest, Answered, AnswerTransient
  <2> QED BY <2>1, <2>2, <2>3, <2>4 DEF AnswerFinal
<1> QED BY <1>1, <1>3, <1>4, <1>6, <1>7, <1>8, SettledStep

\* Removing rows that are stored, or that the operator deletes.
LEMMA RemoveStep ==
  ASSUME AgentSound, NEW gone \in SUBSET Events, row' = Without(gone), Settled,
         stored' = stored, deleted \subseteq deleted', deleted' \subseteq Events,
         gone \subseteq stored' \cup deleted'
  PROVE  /\ RowsOK' /\ SpoolBounded' /\ OnlyGuiltySetAside'
         /\ \A e \in Events : Accounted(e) => Accounted(e)'
<1>1. RowsOK /\ Present \in SUBSET Events
  BY DEF AgentSound, AgentTypeOK, RowsOK, Present
<1>2. /\ RowsOK' /\ Present' = Present \ gone
      /\ \A e \in Events : row'[e].status = row[e].status \/ row'[e].status = "absent"
  BY <1>1, Removal
<1>3. SpoolBounded'
  BY <1>1, <1>2, FewerRows DEF AgentSound
<1>4. OnlyGuiltySetAside'
  BY <1>2 DEF AgentSound, OnlyGuiltySetAside
<1>5. \A e \in Events : Accounted(e) => Accounted(e)'
  BY <1>2, AccountedStays
<1> QED BY <1>2, <1>3, <1>4, <1>5

LEMMA AcknowledgeStep == ASSUME AgentSound, Acknowledge PROVE AgentSound'
<1>1. /\ Settled /\ UNCHANGED <<up, reader, stored, deleted>>
      /\ row' = Without(delivery.batch) /\ delivery' = AgentIdle /\ size' = BatchSize
      /\ delivery.answer = "success"
  BY DEF Acknowledge, Settled, sourceVars, readerVars
<1>2. delivery.batch \in SUBSET Events /\ delivery.batch \subseteq stored
  BY <1>1 DEF AgentSound, AgentTypeOK, AnswerHonest
<1>3. /\ up' \in BOOLEAN /\ size' \in Nat \ {0} /\ stored' \subseteq Events /\ deleted' \subseteq Events
      /\ delivery' \in [pc: {"idle", "sent", "answered"}, batch: SUBSET Events, answer: Answers]
  BY <1>1, AgentAssumption DEF AgentSound, AgentTypeOK, AgentIdle, Answers, AgentAssumption
<1>4. /\ RowsOK' /\ SpoolBounded' /\ OnlyGuiltySetAside'
      /\ \A e \in Events : Accounted(e) => Accounted(e)'
  BY <1>1, <1>2, <1>3, RemoveStep
<1> QED BY <1>1, <1>3, <1>4, HonestStays, SettledStep

LEMMA DeleteStep == ASSUME AgentSound, NEW e \in Events, Delete(e) PROVE AgentSound'
<1>1. /\ Settled /\ UNCHANGED <<up, reader, size, delivery, stored>>
      /\ row' = Without({e}) /\ deleted' = deleted \cup {e}
  BY DEF Delete, Settled, sourceVars, readerVars, deliveryVars
<1>2. /\ up' \in BOOLEAN /\ size' \in Nat \ {0} /\ stored' \subseteq Events /\ deleted' \subseteq Events
      /\ delivery' \in [pc: {"idle", "sent", "answered"}, batch: SUBSET Events, answer: Answers]
  BY <1>1 DEF AgentSound, AgentTypeOK
<1>3. /\ RowsOK' /\ SpoolBounded' /\ OnlyGuiltySetAside'
      /\ \A f \in Events : Accounted(f) => Accounted(f)'
  BY <1>1, <1>2, RemoveStep
<1> QED BY <1>1, <1>2, <1>3, HonestStays, SettledStep

\* Changing rows in place, where only what the server refuses is set aside.
LEMMA UpdateStep ==
  ASSUME AgentSound, Settled, UNCHANGED <<up, reader, stored, deleted>>,
         row' \in [Events -> RowType],
         \A e \in Events :
           /\ row'[e].after = row[e].after
           /\ row'[e].status = "absent" <=> row[e].status = "absent"
           /\ \/ row'[e].status \in {row[e].status, "pending"}
              \/ row'[e].status = "quarantined" /\ (Kind[e] = "poison" \/ SkewedClock)
              \/ row'[e].status = "oversized" /\ Kind[e] = "huge",
         size' \in Nat \ {0}, delivery' = delivery \/ delivery' = AgentIdle
  PROVE  AgentSound'
<1>1. RowsOK
  BY DEF AgentSound, AgentTypeOK, RowsOK
<1>2. RowsOK' /\ Present' = Present
  BY <1>1, Update
<1>3. SpoolBounded' /\ OnlyGuiltySetAside'
  BY <1>2 DEF AgentSound, SpoolBounded, OnlyGuiltySetAside
<1>4. \A e \in Events : Accounted(e) => Accounted(e)'
  BY <1>2, AccountedStays
<1>5. /\ up' \in BOOLEAN /\ stored' \subseteq Events /\ deleted' \subseteq Events
      /\ delivery' \in [pc: {"idle", "sent", "answered"}, batch: SUBSET Events, answer: Answers]
  BY DEF AgentSound, AgentTypeOK, AgentIdle, Answers
<1> QED BY <1>2, <1>3, <1>4, <1>5, HonestStays, SettledStep

LEMMA DeferStep == ASSUME AgentSound, Defer PROVE AgentSound'
<1>1. Settled /\ UNCHANGED <<up, reader, size, stored, deleted>> /\ delivery' = AgentIdle
  BY DEF Defer, Settled, sourceVars, readerVars
<1>2. row \in [Events -> RowType] /\ size \in Nat \ {0}
  BY DEF AgentSound, AgentTypeOK
<1>3. ASSUME NEW e \in Events
      PROVE  /\ row'[e] \in RowType /\ row'[e].after = row[e].after
             /\ row'[e].status = row[e].status
  <2>1. row[e] \in RowType
    BY <1>2
  <2> QED BY <2>1 DEF Defer, RowType
<1>4. row' \in [Events -> RowType]
  BY <1>3 DEF Defer
<1> QED BY <1>1, <1>2, <1>3, <1>4, UpdateStep

LEMMA SplitStep == ASSUME AgentSound, Split PROVE AgentSound'
<1>1. Settled /\ UNCHANGED <<up, reader, row, stored, deleted>> /\ delivery' = AgentIdle
  BY DEF Split, Settled, sourceVars, readerVars
<1>2. row \in [Events -> RowType] /\ delivery.batch \in SUBSET Events
  BY DEF AgentSound, AgentTypeOK
<1>3. Cardinality(delivery.batch) \in Nat
  BY <1>2, EventSetsFinite
<1>4. size' \in Nat \ {0}
  BY <1>3 DEF Split
<1> QED BY <1>1, <1>2, <1>4, UpdateStep

\* The one event of a refused batch is one the server refuses on its own.
LEMMA LoneCulprit ==
  ASSUME AgentSound, Refused, Cardinality(delivery.batch) <= 1, NEW e \in delivery.batch
  PROVE  /\ delivery.answer = "too_large" => Kind[e] = "huge"
         /\ delivery.answer = "unprocessable" => Kind[e] = "poison" \/ SkewedClock
<1>1. delivery.batch \in SUBSET Events
  BY DEF AgentSound, AgentTypeOK
<1>2. IsFiniteSet(delivery.batch) /\ Cardinality(delivery.batch) \in Nat
  BY <1>1, EventSetsFinite
<1>3. Cardinality(delivery.batch) # 0
  BY <1>2, FS_EmptySet
<1>4. Cardinality(delivery.batch) = 1
  BY <1>2, <1>3
<1>5. delivery.batch = {e}
  BY <1>2, <1>4, FS_Singleton
<1>6. ~(Cardinality(delivery.batch) > MaxBody)
  BY <1>4, AgentAssumption DEF AgentAssumption
<1> QED BY <1>5, <1>6 DEF AgentSound, AnswerHonest, TooLarge, Unprocessable

LEMMA SetAsideStep == ASSUME AgentSound, SetAside PROVE AgentSound'
<1>1. Settled /\ UNCHANGED <<up, reader, size, stored, deleted>> /\ delivery' = AgentIdle
  BY DEF SetAside, Settled, sourceVars, readerVars
<1>2. row \in [Events -> RowType] /\ size \in Nat \ {0}
  BY DEF AgentSound, AgentTypeOK
<1>3. Refused /\ Cardinality(delivery.batch) <= 1
  BY DEF SetAside
<1>4. ASSUME NEW e \in Events
      PROVE  /\ row'[e] \in RowType /\ row'[e].after = row[e].after
             /\ row'[e].status = "absent" <=> row[e].status = "absent"
             /\ \/ row'[e].status = row[e].status
                \/ row'[e].status = "quarantined" /\ (Kind[e] = "poison" \/ SkewedClock)
                \/ row'[e].status = "oversized" /\ Kind[e] = "huge"
  <2>1. row[e] \in RowType
    BY <1>2
  <2>2. CASE ~(e \in delivery.batch /\ row[e].status = "pending")
    BY <2>1, <2>2 DEF SetAside
  <2>3. CASE e \in delivery.batch /\ row[e].status = "pending"
    <3>1. row'[e] = [status |-> TerminalStatus(delivery.answer), due |-> row[e].due,
                     after |-> row[e].after]
      BY <2>3 DEF SetAside
    <3>2. CASE delivery.answer = "too_large"
      BY <1>3, <2>1, <2>3, <3>1, <3>2, LoneCulprit DEF TerminalStatus, RowType
    <3>3. CASE delivery.answer = "unprocessable"
      BY <1>3, <2>1, <2>3, <3>1, <3>3, LoneCulprit DEF TerminalStatus, RowType
    <3> QED BY <1>3, <3>2, <3>3 DEF Refused
  <2> QED BY <2>2, <2>3
<1>5. row' \in [Events -> RowType]
  BY <1>4 DEF SetAside
<1> QED BY <1>1, <1>2, <1>4, <1>5, UpdateStep

LEMMA QueueStep ==
  ASSUME AgentSound, NEW e \in Events, BecomeDue(e) \/ Requeue(e)
  PROVE  AgentSound'
<1>1. Settled /\ UNCHANGED <<up, reader, size, delivery, stored, deleted>>
  BY DEF BecomeDue, Requeue, Settled, sourceVars, readerVars, deliveryVars
<1>2. row \in [Events -> RowType] /\ row[e] \in RowType /\ size \in Nat \ {0}
  BY DEF AgentSound, AgentTypeOK
<1>3. CASE BecomeDue(e)
  <2>1. row' \in [Events -> RowType]
    BY <1>2, <1>3 DEF BecomeDue, RowType
  <2>2. \A f \in Events : row'[f].after = row[f].after /\ row'[f].status = row[f].status
    BY <1>2, <1>3 DEF BecomeDue, RowType
  <2> QED BY <1>1, <1>2, <2>1, <2>2, UpdateStep
<1>4. CASE Requeue(e)
  <2>1. row' \in [Events -> RowType]
    BY <1>2, <1>4 DEF Requeue, RowType
  <2>2. \A f \in Events : /\ row'[f].after = row[f].after
                          /\ row'[f].status \in {row[f].status, "pending"}
                          /\ row'[f].status = "absent" <=> row[f].status = "absent"
    BY <1>2, <1>4 DEF Requeue, RowType, Terminal
  <2> QED BY <1>1, <1>2, <2>1, <2>2, UpdateStep
<1> QED BY <1>3, <1>4

LEMMA ProcessStep == ASSUME AgentSound, StartAgent \/ Crash PROVE AgentSound'
<1>1. /\ Settled /\ UNCHANGED <<row, deleted>> /\ stored \subseteq stored'
      /\ reader' = reader \/ reader' = [s \in Sources |-> "idle"]
      /\ delivery' = delivery \/ delivery' = AgentIdle
      /\ size' = size \/ size' = BatchSize
  BY DEF StartAgent, Crash, Settled, sourceVars, readerVars, deliveryVars
<1>2. /\ up' \in BOOLEAN /\ size' \in Nat \ {0} /\ stored' \subseteq Events /\ deleted' \subseteq Events
      /\ delivery' \in [pc: {"idle", "sent", "answered"}, batch: SUBSET Events, answer: Answers]
  <2>1. /\ delivery \in [pc: {"idle", "sent", "answered"}, batch: SUBSET Events, answer: Answers]
        /\ AgentIdle \in [pc: {"idle", "sent", "answered"}, batch: SUBSET Events, answer: Answers]
        /\ delivery.batch \subseteq Events
    BY DEF AgentSound, AgentTypeOK, AgentIdle, Answers
  <2>2. up' \in BOOLEAN /\ stored' \subseteq Events
    BY <2>1 DEF AgentSound, AgentTypeOK, StartAgent, Crash
  <2>3. size' \in Nat \ {0} /\ deleted' \subseteq Events
    BY <1>1, AgentAssumption DEF AgentSound, AgentTypeOK, AgentAssumption
  <2> QED BY <1>1, <2>1, <2>2, <2>3
<1>3. Present' = Present
  BY <1>1 DEF Present
<1>4. RowsOK' /\ SpoolBounded' /\ OnlyGuiltySetAside'
  BY <1>1, <1>3 DEF AgentSound, AgentTypeOK, RowsOK, SpoolBounded, OnlyGuiltySetAside
<1>5. \A e \in Events : Accounted(e) => Accounted(e)'
  BY <1>1, <1>3, AccountedStays
<1> QED BY <1>1, <1>2, <1>4, <1>5, HonestStays, SettledStep

-----------------------------------------------------------------------------
(* The theorems *)

LEMMA InitInv == AgentInit => AgentSound
<1> SUFFICES ASSUME AgentInit PROVE AgentSound
  OBVIOUS
<1>1. Present = {} /\ row \in [Events -> RowType]
  BY DEF AgentInit, Absent, Present, RowType
<1>2. AgentTypeOK
  <2>1. \A e \in Events : row[e].after \subseteq Present \ {e}
    BY DEF AgentInit, Absent
  <2>2. \A s \in Sources : /\ written[s] <= MaxLine[s] /\ oldest[s] <= written[s] + 1
                          /\ cursor[s] <= written[s] /\ base[s] <= oldest[s]
    BY AgentAssumption DEF AgentInit, NoCursor, AgentAssumption
  <2>3. delivery \in [pc: {"idle", "sent", "answered"}, batch: SUBSET Events, answer: Answers]
    BY DEF AgentInit, AgentIdle, Answers
  <2>4. /\ written \in [Sources -> Nat] /\ oldest \in [Sources -> Nat \ {0}]
        /\ cursor \in [Sources -> Nat] /\ base \in [Sources -> Nat \ {0}]
        /\ reader \in [Sources -> {"idle", "backlog", "reopen", "follow", "gap", "rebase"}]
    BY DEF AgentInit, NoCursor
  <2>5. /\ up \in BOOLEAN /\ diagnosed \subseteq Sources /\ size \in Nat \ {0}
        /\ stored \subseteq Events /\ deleted \subseteq Events
    BY AgentAssumption DEF AgentInit, AgentAssumption
  <2> QED BY <1>1, <2>1, <2>2, <2>3, <2>4, <2>5 DEF AgentTypeOK
<1>3. NothingLost /\ NoSilentGap
  BY DEF AgentInit, NothingLost, NoSilentGap, NoCursor
<1>4. SpoolBounded
  BY <1>1, FS_EmptySet, AgentAssumption DEF SpoolBounded, AgentAssumption
<1>5. OnlyGuiltySetAside /\ AnswerHonest /\ GapBeforeRebase
  BY DEF AgentInit, Absent, AgentIdle, OnlyGuiltySetAside, AnswerHonest, GapBeforeRebase, NoCursor
<1> QED BY <1>2, <1>3, <1>4, <1>5 DEF AgentSound

LEMMA Stutter == ASSUME AgentSound, UNCHANGED agentVars PROVE AgentSound'
  BY DEF agentVars, AgentSound, AgentTypeOK, NothingLost, NoSilentGap, SpoolBounded, OnlyGuiltySetAside,
     AnswerHonest, GapBeforeRebase, Accounted, Present, TooLarge, Unprocessable

LEMMA NextInv == AgentSound /\ [AgentNext]_agentVars => AgentSound'
<1> SUFFICES ASSUME AgentSound, [AgentNext]_agentVars PROVE AgentSound'
  OBVIOUS
<1>1. ASSUME NEW s \in Sources, Write(s) \/ RotateAway(s) \/ Collect(s) \/ ReaderFails(s)
      PROVE  AgentSound'
  BY <1>1, WriteStep, RotateStep, PhaseStep, OpenStep, PersistStep, GapStep DEF Collect
<1>2. CASE Deliver
  BY <1>2, SendStep, AnswerStep, AcknowledgeStep, DeferStep, SplitStep, SetAsideStep DEF Deliver
<1>3. ASSUME NEW e \in Events, BecomeDue(e) \/ Requeue(e) \/ Delete(e)
      PROVE  AgentSound'
  BY <1>3, QueueStep, DeleteStep
<1>4. CASE StartAgent \/ Crash
  BY <1>4, ProcessStep
<1>5. CASE UNCHANGED agentVars
  BY <1>5, Stutter
<1> QED BY <1>1, <1>2, <1>3, <1>4, <1>5 DEF AgentNext, Operate

\* The invariant holds in every state of the agent.
THEOREM AgentInvariant == AgentSpec => []AgentSound
<1> QED BY InitInv, NextInv, PTL DEF AgentSpec

\* The variables keep their types: of the code, that the batch size the
\* splitting computes never reaches zero, and cursors stay within the source.
THEOREM TypeCorrect == AgentSpec => []AgentTypeOK
<1>1. AgentSound => AgentTypeOK
  BY DEF AgentSound
<1> QED BY <1>1, AgentInvariant, PTL

\* Every event behind a cursor is in the spool, in the database or was deleted
\* by the operator: enqueue_with_cursor and acknowledge lose nothing, whatever
\* crashes, fills up, or gets lost on the way.
THEOREM Durability == AgentSpec => []NothingLost
<1>1. AgentSound => NothingLost
  BY DEF AgentSound
<1> QED BY <1>1, AgentInvariant, PTL

\* Events that were passed over are announced by a journal_gap diagnostic.
THEOREM GapsAnnounced == AgentSpec => []NoSilentGap
<1>1. AgentSound => NoSilentGap
  BY DEF AgentSound
<1> QED BY <1>1, AgentInvariant, PTL

\* Any number of collectors keep the spool within max_events.
THEOREM CapacityKept == AgentSpec => []SpoolBounded
<1>1. AgentSound => SpoolBounded
  BY DEF AgentSound
<1> QED BY <1>1, AgentInvariant, PTL

\* Only events the server refuses on their own are set aside.
THEOREM InnocentKept == AgentSpec => []OnlyGuiltySetAside
<1>1. AgentSound => OnlyGuiltySetAside
  BY DEF AgentSound
<1> QED BY <1>1, AgentInvariant, PTL
=============================================================================
