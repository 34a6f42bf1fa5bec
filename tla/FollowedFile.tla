---------------------------- MODULE FollowedFile ----------------------------
(***************************************************************************)
(* The file tailer under every file-backed source of the agent: it reads   *)
(* complete lines of a path, commits a cursor (device and inode, offset)   *)
(* with each, and must survive rotation of the path underneath it.         *)
(*                                                                         *)
(* Lines are numbered as they are written; offsets count lines.  The log   *)
(* has one writer, a daemon that keeps its descriptor: after a rotation it *)
(* goes on in the renamed file until it opens the path again.  What the    *)
(* collector does with a lost cursor (a journal_gap diagnostic, then a     *)
(* fresh start) is one step here and two in AgentPipeline.                 *)
(***************************************************************************)
EXTENDS Integers, Sequences

CONSTANTS
  Inodes,   \* inodes the path can have
  First,    \* the inode of the path at first
  NoFile,   \* what the path names between rename and create
  MaxLine   \* bound: lines written

ASSUME FollowedFileAssumption ==
  First \in Inodes /\ NoFile \notin Inodes /\ MaxLine \in Nat

VARIABLES
  path,      \* inode the path names, or NoFile
  writer,    \* inode the writer has open
  content,   \* lines in each inode
  written,   \* lines written so far
  reader,    \* phase, open inode and offset of the reader
  cursor,    \* committed inode and offset, or NoCursor
  yields,    \* history: how often each line was yielded
  announced, \* history: lines written when the last gap was recorded
  late,      \* history: lines written to a renamed file the reader had left
  abrupt     \* history: a truncation, or a rotation the reader had not kept up with

followedVars ==
  <<path, writer, content, written, reader, cursor, yields, announced, late, abrupt>>

logVars == <<path, writer, content, written, late, abrupt>>

readerVars == <<reader, cursor, yields, announced>>

NoCursor == [ino |-> First, offset |-> -1]

Position(ino, offset) == [ino |-> ino, offset |-> offset]

Closed == [pc |-> "closed", at |-> Position(First, 0)]

Reading(phase, ino, offset) == [pc |-> phase, at |-> Position(ino, offset)]

FollowedInit ==
  /\ path = First /\ writer = First
  /\ content = [i \in Inodes |-> <<>>]
  /\ written = 0
  /\ reader = Closed
  /\ cursor = NoCursor
  /\ yields = [n \in 1..MaxLine |-> 0]
  /\ announced = 0
  /\ late = {} /\ abrupt = FALSE

-----------------------------------------------------------------------------
(* The log *)

\* The reader goes on from the cursor and not from where it is.
Resuming == reader.pc \in {"closed", "reopen"}

\* The writer's file was renamed and the reader will not look into it again, nor
\* find the cursor in it and record a gap.
Left ==
  /\ writer # path
  /\ IF Resuming THEN cursor = NoCursor \/ cursor.ino # writer ELSE reader.at.ino # writer

\* A line is there with its newline: the reader leaves an unfinished one alone,
\* as if it were not there, and what is begun in a file may be finished late.
Write ==
  /\ written < MaxLine
  /\ written' = written + 1
  /\ content' = [content EXCEPT ![writer] = Append(@, written + 1)]
  /\ late' = IF Left THEN late \cup {written + 1} ELSE late
  /\ UNCHANGED <<path, writer, readerVars, abrupt>>

\* The writer is told to open its log again.
Reopen ==
  /\ path \notin {writer, NoFile}
  /\ writer' = path
  /\ UNCHANGED <<path, content, written, late, abrupt, readerVars>>

\* The reader has the file open that the path names, or has committed a
\* position and finds out when it opens the path again, or misses nothing.
KeepsUp ==
  cursor # NoCursor /\ (reader.pc = "closed" \/ reader.at.ino = path \/ content[path] = <<>>)

\* Rotation: the file is renamed, and after a while a new one created.
Rename ==
  /\ path # NoFile
  /\ path' = NoFile
  /\ abrupt' = (abrupt \/ ~KeepsUp)
  /\ UNCHANGED <<writer, content, written, late, readerVars>>

\* An inode is reused only when nobody refers to it.
Held == {writer, cursor.ino} \cup {i \in {reader.at.ino} : reader.pc # "closed"}

Create ==
  /\ path = NoFile
  /\ \E i \in Inodes \ Held :
       /\ path' = i
       /\ content' = [content EXCEPT ![i] = <<>>]
  /\ UNCHANGED <<writer, written, late, abrupt, readerVars>>

\* logrotate's copytruncate, of a file that has been read to its end.
Truncate ==
  /\ path # NoFile /\ content[path] # <<>>
  /\ \A k \in DOMAIN content[path] : yields[content[path][k]] > 0
  /\ content' = [content EXCEPT ![path] = <<>>]
  /\ abrupt' = TRUE
  /\ UNCHANGED <<path, writer, written, late, readerVars>>

-----------------------------------------------------------------------------
(* The reader *)

\* Fault: a cursor at the end of the file counts as beyond it.
StartFromTopAtEnd(offset, size) == IF offset >= size THEN 0 ELSE offset

\* An offset beyond the end means that the file was truncated.
StartOffset(offset, size) == IF offset > size THEN 0 ELSE offset

\* Open the path at the cursor, for the backlog or for following.
Open ==
  LET phase == IF reader.pc = "closed" THEN "backlog" ELSE "follow" IN
  /\ reader.pc \in {"closed", "reopen"} /\ path # NoFile
  /\ \/ /\ cursor = NoCursor
        /\ reader' = Reading(phase, path, 0)
     \/ /\ cursor # NoCursor /\ cursor.ino = path
        /\ reader' = Reading(phase, path, StartOffset(cursor.offset, Len(content[path])))
  /\ UNCHANGED <<logVars, cursor, yields, announced>>

\* The cursor belongs to a rotated file: record the gap and start afresh.
CursorUnavailable ==
  /\ reader.pc \in {"closed", "reopen"}
  /\ path # NoFile /\ cursor # NoCursor /\ cursor.ino # path
  /\ reader' = Closed
  /\ cursor' = NoCursor
  /\ announced' = written
  /\ UNCHANGED <<logVars, yields>>

AtEnd == reader.at.offset >= Len(content[reader.at.ino])

\* Yield the next line; the collector commits it with its cursor.
ReadLine ==
  LET next == reader.at.offset + 1 IN
  /\ reader.pc \in {"backlog", "follow", "drain"} /\ ~AtEnd
  /\ reader' = Reading(reader.pc, reader.at.ino, next)
  /\ cursor' = Position(reader.at.ino, next)
  /\ yields' = [yields EXCEPT ![content[reader.at.ino][next]] = @ + 1]
  /\ UNCHANGED <<logVars, announced>>

FinishBacklog ==
  /\ reader.pc = "backlog" /\ AtEnd
  /\ reader' = [reader EXCEPT !.pc = "reopen"]
  /\ UNCHANGED <<logVars, cursor, yields, announced>>

ReachEnd ==
  /\ reader.pc = "follow" /\ AtEnd
  /\ reader' = [reader EXCEPT !.pc = "eof"]
  /\ UNCHANGED <<logVars, cursor, yields, announced>>

\* The path still names the open file, or nothing: poll again.
Poll ==
  /\ reader.pc = "eof" /\ path \in {reader.at.ino, NoFile}
  /\ reader' = [reader EXCEPT !.pc = "follow"]
  /\ UNCHANGED <<logVars, cursor, yields, announced>>

\* Fault: the reader leaves a rotated file without draining it.
SwitchAtOnce ==
  /\ reader.pc = "eof" /\ path \notin {reader.at.ino, NoFile}
  /\ reader' = Reading("follow", path, 0)
  /\ UNCHANGED <<logVars, cursor, yields, announced>>

\* Behind the end of the file, the path turns out to name another one.
SeeRotation ==
  /\ reader.pc = "eof" /\ path \notin {reader.at.ino, NoFile}
  /\ reader' = [reader EXCEPT !.pc = "drain"]
  /\ UNCHANGED <<logVars, cursor, yields, announced>>

\* Fault: the new file is entered at the position in the old one.
SwitchAtOldOffset ==
  /\ reader.pc = "drain" /\ AtEnd /\ path # NoFile
  /\ reader' = Reading("follow", path, reader.at.offset)
  /\ UNCHANGED <<logVars, cursor, yields, announced>>

\* The tail is read: go on with the path as it is now, from the top.
SwitchFile ==
  /\ reader.pc = "drain" /\ AtEnd /\ path # NoFile
  /\ reader' = Reading("follow", path, 0)
  /\ UNCHANGED <<logVars, cursor, yields, announced>>

\* The spool is full, the process stops or crashes, or the path cannot be read.
Close ==
  /\ reader.pc # "closed"
  /\ reader' = Closed
  /\ UNCHANGED <<logVars, cursor, yields, announced>>

ReaderSteps ==
  \/ Open \/ CursorUnavailable \/ ReadLine \/ FinishBacklog
  \/ ReachEnd \/ Poll \/ SeeRotation \/ SwitchFile

FollowedNext == Write \/ Reopen \/ Rename \/ Create \/ Truncate \/ ReaderSteps \/ Close

FollowedSpec == FollowedInit /\ [][FollowedNext]_followedVars

\* The collector comes back to the source however often it is interrupted, and
\* a renamed file is created again.
FollowedFairness ==
  /\ WF_followedVars(Create) /\ WF_followedVars(ReaderSteps)
  /\ SF_followedVars(Open) /\ SF_followedVars(CursorUnavailable) /\ SF_followedVars(ReadLine)

FollowedFairSpec == FollowedSpec /\ FollowedFairness

-----------------------------------------------------------------------------
(* Properties *)

Positions == [ino: Inodes, offset: -1..MaxLine]

\* The variables hold values of their types, and only written lines are read.
FollowedTypeOK ==
  /\ path \in Inodes \cup {NoFile}
  /\ content \in [Inodes -> Seq(1..written)]
  /\ writer \in Inodes /\ late \subseteq 1..written /\ abrupt \in BOOLEAN
  /\ written \in 0..MaxLine /\ announced \in 0..written
  /\ reader \in [pc: {"closed", "backlog", "reopen", "follow", "eof", "drain"}, at: Positions]
  /\ cursor \in Positions /\ reader.at.offset >= 0
  /\ yields \in [1..MaxLine -> Nat]
  /\ \A n \in 1..MaxLine : yields[n] > 0 => n <= written

\* However the file is rotated, truncated, left and opened again, no line is
\* yielded twice.
NoReplay == \A n \in 1..MaxLine : yields[n] <= 1

\* While the reader keeps up with rotation, a line that it passes over, with a
\* later one yielded, has been announced as a gap; except for what the writer
\* adds to a renamed file that the reader has left (follow of followed_file.py:
\* the old file is read to its end once and closed).
NoSilentLoss ==
  \A n, m \in 1..MaxLine :
    n < m /\ yields[m] > 0 => yields[n] > 0 \/ n <= announced \/ n \in late \/ abrupt

\* ADR-0019: a rotation loses no line, or else a gap is on record.
LossOnRecord ==
  \A n, m \in 1..MaxLine :
    n < m /\ yields[m] > 0 => yields[n] > 0 \/ announced > 0 \/ abrupt

\* And every line is yielded or announced in the end, unless it comes too late:
\* the tail written before the rename or while the renamed file is still read,
\* the first lines of the new file, a line behind a stop.
EveryLineRead ==
  []<>(abrupt \/ \A n \in 1..written : yields[n] > 0 \/ n <= announced \/ n \in late)

\* After copytruncate (same inode, smaller than the position) reading resumes
\* from the top of the file.
TruncationRestarts ==
  (reader.pc = "eof" /\ reader.at.ino = path /\ reader.at.offset > Len(content[path]))
    ~> (reader.at.offset = 0 \/ reader.pc = "closed" \/ reader.at.ino # path)

-----------------------------------------------------------------------------
(* The inductive invariant *)

\* Lines are written in order, each to one file, the latest to the one that the
\* writer has open; a file that it has yet to open is empty.
LinesSound ==
  /\ \A i \in Inodes : Len(content[i]) <= written
  /\ \A i \in Inodes : \A k, l \in DOMAIN content[i] : k < l => content[i][k] < content[i][l]
  /\ \A i, j \in Inodes : i # j =>
       \A k \in DOMAIN content[i], l \in DOMAIN content[j] : content[i][k] # content[j][l]
  /\ \A i \in Inodes : i # writer =>
       \A k \in DOMAIN content[i], l \in DOMAIN content[writer] :
         content[i][k] < content[writer][l]
  /\ path \notin {writer, NoFile} => content[path] = <<>>

\* No line of the file behind the position has been yielded.
UnreadAfter(i, offset) == \A k \in DOMAIN content[i] : k > offset => yields[content[i][k]] = 0

\* Neither the reader goes over a line again nor whoever starts at the cursor;
\* a file the path has come to name is unread until they are in it.
ReaderSound ==
  /\ cursor # NoCursor =>
       /\ cursor.offset > 0
       /\ UnreadAfter(cursor.ino, StartOffset(cursor.offset, Len(content[cursor.ino])))
  /\ reader.pc # "closed" => UnreadAfter(reader.at.ino, reader.at.offset)
  /\ \/ path = NoFile \/ UnreadAfter(path, 0)
     \/ /\ cursor # NoCursor /\ cursor.ino = path
        /\ reader.pc # "closed" => reader.at.ino = path
  /\ reader.pc = "drain" => reader.at.ino # path
  /\ reader.pc # "closed" /\ reader.at.ino # path => cursor = NoCursor \/ cursor.ino # path

Settled(n) == yields[n] > 0 \/ n <= announced \/ n \in late

FoundAfter(n, i, offset) == \E k \in DOMAIN content[i] : k > offset /\ content[i][k] = n

\* What is yet to come to a line: the gap that the path will show, or the reader.
Ahead(n) ==
  \/ Resuming /\ cursor # NoCursor /\ cursor.ino # path
  \/ Resuming /\ path # NoFile /\ FoundAfter(n, path, cursor.offset)
  \/ ~Resuming /\ FoundAfter(n, reader.at.ino, reader.at.offset)
  \/ ~Resuming /\ path # NoFile /\ path # reader.at.ino /\ FoundAfter(n, path, 0)

LossSound ==
  abrupt \/
  /\ cursor # NoCursor => cursor.offset <= Len(content[cursor.ino])
  /\ reader.pc # "closed" => reader.at.offset <= Len(content[reader.at.ino])
  /\ cursor = NoCursor => path # NoFile /\ (reader.pc # "closed" => reader.at = Position(path, 0))
  /\ reader.pc # "closed" => cursor.ino # reader.at.ino \/ cursor \in {NoCursor, reader.at}
  /\ \A n \in 1..written : Settled(n) \/ Ahead(n)

FollowedInvariant ==
  FollowedTypeOK /\ LinesSound /\ ReaderSound /\ LossSound /\ NoReplay /\ NoSilentLoss
=============================================================================
