---------------------------- MODULE SourcesProofs ----------------------------
(***************************************************************************)
(* Proofs about the two sources of the agent that compare files with what  *)
(* they remember: the file tailer with its cursor (FollowedFile), for any  *)
(* inodes and any number of lines, and the integrity source with its       *)
(* baseline (FileIntegrity), for any paths, states and bounds.             *)
(*                                                                         *)
(* The tailer's proof has a part for each kind of step: the log grows, is  *)
(* renamed, created anew or truncated; the reader moves within a file,     *)
(* reads a line or goes to another file.                                   *)
(***************************************************************************)
EXTENDS FollowedFile, FileIntegrity, SequenceTheorems, FiniteSetTheorems, TLAPS

(* Followed files: positions and lines *)

LEMMA FollowedTypes ==
  ASSUME FollowedTypeOK
  PROVE  /\ MaxLine \in Nat /\ First \in Inodes /\ NoFile \notin Inodes
         /\ written \in Nat /\ written <= MaxLine /\ announced \in Nat /\ announced <= written
         /\ \A i \in Inodes : /\ content[i] \in Seq(1..written) /\ Len(content[i]) \in Nat
                              /\ DOMAIN content[i] = 1..Len(content[i])
                              /\ \A k \in 1..Len(content[i]) : content[i][k] \in 1..written
         /\ reader.at.ino \in Inodes /\ reader.at.offset \in Nat
         /\ cursor.ino \in Inodes /\ cursor.offset \in Int
<1>1. MaxLine \in Nat /\ First \in Inodes /\ NoFile \notin Inodes
  BY FollowedFileAssumption DEF FollowedFileAssumption
<1>2. written \in Nat /\ written <= MaxLine /\ announced \in Nat /\ announced <= written
  BY <1>1 DEF FollowedTypeOK
<1>3. ASSUME NEW i \in Inodes
      PROVE  /\ content[i] \in Seq(1..written) /\ Len(content[i]) \in Nat
             /\ DOMAIN content[i] = 1..Len(content[i])
             /\ \A k \in 1..Len(content[i]) : content[i][k] \in 1..written
  <2>1. content[i] \in Seq(1..written)
    BY DEF FollowedTypeOK
  <2> QED BY <2>1, LenProperties, ElementOfSeq
<1>4. /\ reader.at.ino \in Inodes /\ reader.at.offset \in Nat
      /\ cursor.ino \in Inodes /\ cursor.offset \in Int
  BY <1>1 DEF FollowedTypeOK, Positions
<1> QED BY <1>1, <1>2, <1>3, <1>4

LEMMA PositionFields ==
  /\ NoCursor.ino = First /\ NoCursor.offset = -1
  /\ Closed.pc = "closed" /\ Closed.at = [ino |-> First, offset |-> 0]
  /\ \A ino, offset : Position(ino, offset).ino = ino /\ Position(ino, offset).offset = offset
  /\ \A phase, ino, offset : /\ Reading(phase, ino, offset).pc = phase
                             /\ Reading(phase, ino, offset).at = Position(ino, offset)
  BY DEF NoCursor, Closed, Position, Reading

\* A position is the cursor's own only if a line has been read up to it.
LEMMA CursorOrNot ==
  ASSUME FollowedInvariant
  PROVE  cursor # NoCursor <=> cursor.offset > 0
  BY PositionFields, FollowedTypes DEF FollowedInvariant, ReaderSound

-----------------------------------------------------------------------------
(* The log *)

LEMMA Appended ==
  ASSUME NEW S, NEW s \in Seq(S), NEW e \in S, NEW t, t = Append(s, e)
  PROVE  /\ t \in Seq(S) /\ Len(t) = Len(s) + 1 /\ Len(s) \in Nat
         /\ DOMAIN s = 1..Len(s) /\ DOMAIN t = 1..Len(s) + 1
         /\ \A k \in 1..Len(s) : t[k] = s[k]
         /\ t[Len(s) + 1] = e
  BY AppendProperties, LenProperties

\* The line goes to the file that the writer has open, which need not be the one
\* that the path names.
LEMMA WriteStep ==
  ASSUME FollowedInvariant, Write
  PROVE  FollowedInvariant'
<1>1. FollowedTypeOK /\ LinesSound /\ ReaderSound /\ LossSound /\ NoReplay /\ NoSilentLoss
  BY DEF FollowedInvariant
<1>2. PICK f : f = writer
  OBVIOUS
<1>3. /\ f \in Inodes /\ f # NoFile /\ written < MaxLine /\ written' = written + 1
      /\ content' = [content EXCEPT ![f] = Append(content[f], written + 1)]
      /\ late' = IF Left THEN late \cup {written + 1} ELSE late
      /\ UNCHANGED <<path, writer, reader, cursor, yields, announced, abrupt>>
  BY <1>1, <1>2, FollowedTypes DEF Write, readerVars, FollowedTypeOK
<1>4. PICK len : len = Len(content[f]) /\ len \in Nat /\ DOMAIN content[f] = 1..len
  BY <1>1, <1>3, FollowedTypes
<1>5. /\ content'[f] \in Seq(1..written') /\ Len(content'[f]) = len + 1
      /\ \A k \in 1..len : content'[f][k] = content[f][k]
      /\ content'[f][len + 1] = written + 1
  <2>1. content[f] \in Seq(1..written + 1) /\ written + 1 \in 1..written + 1
    <3>1. 1..written \subseteq 1..written + 1 /\ content[f] \in Seq(1..written)
      BY <1>1, <1>3, FollowedTypes
    <3> QED BY <1>1, <3>1, SeqMonotonic, FollowedTypes
  <2>2. content'[f] = Append(content[f], written + 1)
    BY <1>1, <1>3 DEF FollowedTypeOK
  <2>3. Len(content'[f]) = Len(content[f]) + 1 /\ content'[f] \in Seq(1..written + 1)
    BY <2>1, <2>2, Appended
  <2>4. /\ \A k \in 1..Len(content[f]) : content'[f][k] = content[f][k]
        /\ content'[f][Len(content[f]) + 1] = written + 1
    BY <2>1, <2>2, Appended
  <2> QED BY <1>3, <1>4, <2>3, <2>4
<1>6. \A i \in Inodes \ {f} : content'[i] = content[i]
  BY <1>1, <1>3 DEF FollowedTypeOK
<1>7. FollowedTypeOK'
  <2>1. \A i \in Inodes : content'[i] \in Seq(1..written')
    <3>1. 1..written \subseteq 1..written'
      BY <1>1, <1>3, FollowedTypes
    <3>2. Seq(1..written) \subseteq Seq(1..written')
      BY <3>1, SeqMonotonic
    <3> QED BY <1>1, <1>5, <1>6, <3>2, FollowedTypes
  <2>2. content' \in [Inodes -> Seq(1..written')]
    BY <1>1, <1>3, <2>1 DEF FollowedTypeOK
  <2>3. late' \subseteq 1..written'
    <3>1. written \in Nat /\ late \subseteq 1..written
      BY <1>1, FollowedTypes DEF FollowedTypeOK
    <3> QED BY <1>3, <3>1
  <2> QED BY <1>1, <1>3, <2>2, <2>3, FollowedTypes DEF FollowedTypeOK
<1>8. \A i \in Inodes : /\ DOMAIN content[i] = 1..Len(content[i])
                        /\ DOMAIN content'[i] = 1..Len(content'[i])
                        /\ Len(content'[i]) = IF i = f THEN Len(content[i]) + 1 ELSE Len(content[i])
                        /\ Len(content[i]) \in Nat
  <2>1. \A i \in Inodes : content'[i] \in Seq(1..written')
    BY <1>7 DEF FollowedTypeOK
  <2>2. \A i \in Inodes : DOMAIN content'[i] = 1..Len(content'[i])
    BY <2>1, LenProperties
  <2> QED BY <1>1, <1>4, <1>5, <1>6, <2>2, FollowedTypes
<1>9. \A i \in Inodes : \A k \in DOMAIN content[i] :
        k \in DOMAIN content'[i] /\ content'[i][k] = content[i][k] /\ content[i][k] \in 1..written
  <2> SUFFICES ASSUME NEW i \in Inodes, NEW k \in DOMAIN content[i]
               PROVE  k \in DOMAIN content'[i] /\ content'[i][k] = content[i][k] /\ content[i][k] \in 1..written
    OBVIOUS
  <2>1. content[i][k] \in 1..written /\ k \in DOMAIN content'[i]
    <3>1. k \in 1..Len(content[i]) /\ content[i][k] \in 1..written
      BY <1>1, FollowedTypes
    <3> PICK m : m = Len(content[i])
      OBVIOUS
    <3>2. Len(content'[i]) \in {m, m + 1} /\ m \in Nat /\ DOMAIN content'[i] = 1..Len(content'[i])
      BY <1>8
    <3> QED BY <3>1, <3>2
  <2>2. CASE i = f
    BY <1>4, <1>5, <2>1, <2>2
  <2>3. CASE i # f
    BY <1>6, <2>1, <2>3
  <2> QED BY <2>2, <2>3
<1>10. \A i \in Inodes : \A k \in DOMAIN content'[i] :
         \/ k \in DOMAIN content[i]
         \/ i = f /\ k = len + 1 /\ content'[i][k] = written + 1
  BY <1>4, <1>5, <1>6, <1>8
<1>11. LinesSound'
  <2>1. written \in Nat /\ \A i \in Inodes : Len(content[i]) \in Nat /\ DOMAIN content[i] = 1..Len(content[i])
    BY <1>1, FollowedTypes
  <2>2. \A i \in Inodes : Len(content'[i]) <= written'
    BY <1>1, <1>3, <1>8, <2>1 DEF LinesSound
  <2>3. \A i \in Inodes : \A k \in DOMAIN content'[i] :
          \/ k \in DOMAIN content[i] /\ content'[i][k] = content[i][k] /\ content[i][k] \in 1..written
          \/ i = f /\ k = len + 1 /\ content'[i][k] = written + 1
    BY <1>9, <1>10
  <2>4. ASSUME NEW i \in Inodes, NEW k \in DOMAIN content'[i], NEW l \in DOMAIN content'[i], k < l
        PROVE  content'[i][k] < content'[i][l]
    BY <1>1, <1>4, <2>1, <2>3, <2>4 DEF LinesSound
  <2>5. ASSUME NEW i \in Inodes, NEW j \in Inodes, i # j,
               NEW k \in DOMAIN content'[i], NEW l \in DOMAIN content'[j]
        PROVE  content'[i][k] # content'[j][l]
    BY <1>1, <2>1, <2>3, <2>5 DEF LinesSound
  <2>6. ASSUME NEW i \in Inodes, i # f, NEW k \in DOMAIN content'[i], NEW l \in DOMAIN content'[f]
        PROVE  content'[i][k] < content'[f][l]
    BY <1>1, <1>2, <1>3, <2>1, <2>3, <2>6 DEF LinesSound
  <2>7. path \notin {f, NoFile} => content'[path] = <<>>
    BY <1>1, <1>2, <1>6 DEF LinesSound, FollowedTypeOK
  <2> QED BY <1>2, <1>3, <2>2, <2>4, <2>5, <2>6, <2>7 DEF LinesSound
<1>12. yields'[written + 1] = 0
  <2>1. /\ yields \in [1..MaxLine -> Nat]
        /\ \A n \in 1..MaxLine : yields[n] > 0 => n <= written
    BY <1>1 DEF FollowedTypeOK
  <2>2. written \in Nat /\ MaxLine \in Nat
    BY <1>1, FollowedTypes
  <2>3. written + 1 \in 1..MaxLine
    BY <1>3, <2>2
  <2>4. yields[written + 1] \in Nat /\ ~(yields[written + 1] > 0)
    BY <2>1, <2>2, <2>3
  <2> QED BY <1>3, <2>4
<1>13. ASSUME NEW i \in Inodes, NEW o, UnreadAfter(i, o)
       PROVE  UnreadAfter(i, o)'
  BY <1>3, <1>9, <1>10, <1>12, <1>13 DEF UnreadAfter
<1>14. ReaderSound'
  <2>1. ASSUME cursor # NoCursor
        PROVE  UnreadAfter(cursor.ino, StartOffset(cursor.offset, Len(content[cursor.ino])))'
    <3>1. PICK o : o = StartOffset(cursor.offset, Len(content[cursor.ino]))
      OBVIOUS
    <3> PICK c : c = cursor.ino
      OBVIOUS
    <3>2. UnreadAfter(c, o)'
      <4>1. UnreadAfter(c, o)
        BY <1>1, <2>1, <3>1 DEF ReaderSound
      <4>2. c \in Inodes
        BY <1>1, FollowedTypes
      <4> QED BY <1>13, <4>1, <4>2
    <3>3. PICK r : r = StartOffset(cursor'.offset, Len(content'[cursor'.ino]))
      OBVIOUS
    <3>4. o \in Int /\ r \in Int /\ r >= o
      <4> PICK g : g = cursor.offset
        OBVIOUS
      <4> PICK s : s = Len(content[cursor.ino])
        OBVIOUS
      <4> PICK t : t = Len(content'[cursor.ino])
        OBVIOUS
      <4>1. s \in Nat /\ t \in Nat /\ t >= s
        <5>1. cursor.ino \in Inodes
          BY <1>1, FollowedTypes
        <5> QED BY <1>8, <5>1
      <4>2. g \in Int /\ g > 0
        BY <1>1, <2>1, FollowedTypes DEF ReaderSound
      <4>3. o = IF g > s THEN 0 ELSE g
        BY <3>1 DEF StartOffset
      <4>4. r = IF g > t THEN 0 ELSE g
        BY <1>3, <3>3 DEF StartOffset
      <4> QED BY <4>1, <4>2, <4>3, <4>4
    <3>5. UnreadAfter(c, r)'
      <4>1. \A k \in DOMAIN content'[c] : k \in Int
        <5>1. c \in Inodes
          BY <1>1, FollowedTypes
        <5> QED BY <1>8, <5>1
      <4> QED BY <1>3, <3>2, <3>4, <4>1 DEF UnreadAfter
    <3> QED BY <1>3, <3>3, <3>5
  <2>2. path = NoFile \/ path \in Inodes
    BY <1>1 DEF FollowedTypeOK
  <2>3. path # NoFile /\ UnreadAfter(path, 0) => UnreadAfter(path, 0)'
    BY <1>3, <1>13, <2>2
  <2>4. reader.pc # "closed" => UnreadAfter(reader.at.ino, reader.at.offset)'
    BY <1>1, <1>3, <1>13, FollowedTypes DEF ReaderSound
  <2> QED BY <1>1, <1>3, <2>1, <2>2, <2>3, <2>4 DEF ReaderSound
<1>15. ASSUME NEW i \in Inodes, NEW o, NEW n, FoundAfter(n, i, o)
       PROVE  FoundAfter(n, i, o)'
  BY <1>9, <1>15 DEF FoundAfter
<1> PICK next : next = written + 1
  OBVIOUS
<1>16. ASSUME NEW o \in Int, o <= len
       PROVE  FoundAfter(next, f, o)'
  <2>1. len + 1 \in DOMAIN content'[f] /\ len + 1 > o /\ content'[f][len + 1] = next
    BY <1>3, <1>4, <1>5, <1>8, <1>16
  <2> QED BY <2>1 DEF FoundAfter
<1>17. LossSound'
  <2> SUFFICES ASSUME ~abrupt
               PROVE  LossSound'
    BY <1>3 DEF LossSound
  <2>1. /\ cursor # NoCursor => cursor.offset <= Len(content[cursor.ino])
        /\ reader.pc # "closed" => reader.at.offset <= Len(content[reader.at.ino])
        /\ cursor = NoCursor => path # NoFile /\ (reader.pc # "closed" => reader.at = Position(path, 0))
        /\ reader.pc # "closed" => cursor.ino # reader.at.ino \/ cursor \in {NoCursor, reader.at}
        /\ \A n \in 1..written : Settled(n) \/ Ahead(n)
    BY <1>1 DEF LossSound
  <2>2. /\ cursor # NoCursor => cursor.offset <= Len(content'[cursor.ino])
        /\ reader.pc # "closed" => reader.at.offset <= Len(content'[reader.at.ino])
    <3>1. /\ cursor.ino \in Inodes /\ cursor.offset \in Int
          /\ reader.at.ino \in Inodes /\ reader.at.offset \in Nat
      BY <1>1, FollowedTypes
    <3>2. \A i \in Inodes : Len(content[i]) <= Len(content'[i]) /\ Len(content[i]) \in Nat /\ Len(content'[i]) \in Nat
      BY <1>8
    <3> QED BY <2>1, <3>1, <3>2
  <2>3. ASSUME NEW n \in 1..written
        PROVE  (Settled(n) \/ Ahead(n))'
    <3>1. Settled(n) => Settled(n)'
      BY <1>3 DEF Settled
    <3>2. Ahead(n) => Ahead(n)'
      <4>1. path = NoFile \/ path \in Inodes
        BY <1>1 DEF FollowedTypeOK
      <4>2. \A o : path # NoFile /\ FoundAfter(n, path, o) => FoundAfter(n, path, o)'
        BY <1>3, <1>15, <4>1
      <4>3. FoundAfter(n, reader.at.ino, reader.at.offset) =>
              FoundAfter(n, reader.at.ino, reader.at.offset)'
        BY <1>1, <1>3, <1>15, FollowedTypes
      <4> QED BY <1>3, <4>2, <4>3 DEF Ahead, Resuming
    <3> QED BY <2>1, <3>1, <3>2
  <2>4. (Settled(next) \/ Ahead(next))'
    <3>1. CASE Resuming /\ path = f /\ (cursor = NoCursor \/ cursor.ino = f)
      <4>1. cursor.offset \in Int /\ cursor.offset <= len
        BY <1>1, <1>4, <2>1, <3>1, FollowedTypes, PositionFields
      <4> QED BY <1>2, <1>3, <1>16, <3>1, <4>1 DEF Ahead, Resuming
    <3>2. CASE ~Resuming /\ reader.at.ino = f
      <4>1. reader.at.offset \in Int /\ reader.at.offset <= len
        BY <1>1, <1>4, <2>1, <3>2, FollowedTypes DEF Resuming
      <4> QED BY <1>2, <1>3, <1>16, <3>2, <4>1 DEF Ahead, Resuming
    <3>3. CASE ~Resuming /\ path = f /\ reader.at.ino # f
      <4>1. FoundAfter(next, f, 0)'
        BY <1>4, <1>16
      <4> QED BY <1>3, <3>3, <4>1 DEF Ahead, Resuming
    <3>4. CASE Resuming /\ cursor # NoCursor /\ cursor.ino # path
      BY <1>3, <3>4 DEF Ahead, Resuming
    <3>5. CASE Left
      BY <1>3, <3>5 DEF Settled
    <3> QED BY <1>2, <3>1, <3>2, <3>3, <3>4, <3>5 DEF Left
  <2>5. \A n \in 1..written' : n \in 1..written \/ n = next
    BY <1>1, <1>3, FollowedTypes
  <2>6. \A n \in 1..written' : (Settled(n) \/ Ahead(n))'
    BY <2>3, <2>4, <2>5
  <2>7. /\ cursor' # NoCursor => cursor'.offset <= Len(content'[cursor'.ino])
        /\ reader'.pc # "closed" => reader'.at.offset <= Len(content'[reader'.at.ino])
        /\ cursor' = NoCursor => path' # NoFile /\ (reader'.pc # "closed" => reader'.at = Position(path', 0))
        /\ reader'.pc # "closed" => cursor'.ino # reader'.at.ino \/ cursor' \in {NoCursor, reader'.at}
    BY <1>3, <2>1, <2>2
  <2> QED BY <2>6, <2>7 DEF LossSound
<1> QED BY <1>1, <1>3, <1>7, <1>11, <1>14, <1>17 DEF FollowedInvariant, NoReplay, NoSilentLoss

\* A file that the writer has yet to open is empty.
LEMMA ReopenStep ==
  ASSUME FollowedInvariant, Reopen
  PROVE  FollowedInvariant'
<1>1. FollowedTypeOK /\ LinesSound /\ ReaderSound /\ LossSound /\ NoReplay /\ NoSilentLoss
  BY DEF FollowedInvariant
<1>2. /\ path \notin {writer, NoFile} /\ writer' = path /\ path \in Inodes
      /\ UNCHANGED <<path, content, written, reader, cursor, yields, announced, late, abrupt>>
  BY <1>1 DEF Reopen, readerVars, FollowedTypeOK
<1>3. FollowedTypeOK' /\ NoReplay' /\ NoSilentLoss'
  BY <1>1, <1>2 DEF FollowedTypeOK, NoReplay, NoSilentLoss
<1>4. LinesSound'
  <2>1. content[path] = <<>> /\ DOMAIN <<>> = {}
    BY <1>1, <1>2 DEF LinesSound
  <2> QED BY <1>1, <1>2, <2>1 DEF LinesSound
<1>5. ReaderSound' /\ LossSound'
  BY <1>1, <1>2 DEF ReaderSound, UnreadAfter, LossSound, Settled, Ahead, Resuming, FoundAfter
<1> QED BY <1>3, <1>4, <1>5 DEF FollowedInvariant

LEMMA RenameStep ==
  ASSUME FollowedInvariant, Rename
  PROVE  FollowedInvariant'
<1>1. FollowedTypeOK /\ LinesSound /\ ReaderSound /\ LossSound /\ NoReplay /\ NoSilentLoss
  BY DEF FollowedInvariant
<1>2. /\ path \in Inodes /\ path' = NoFile /\ abrupt' = (abrupt \/ ~KeepsUp)
      /\ UNCHANGED <<writer, content, written, reader, cursor, yields, announced, late>>
  BY <1>1 DEF Rename, readerVars, FollowedTypeOK
<1>3. FollowedTypeOK'
  BY <1>1, <1>2 DEF FollowedTypeOK
<1>4. LinesSound'
  BY <1>1, <1>2 DEF LinesSound
<1>5. /\ NoFile \notin Inodes /\ cursor.ino # NoFile /\ reader.at.ino # NoFile
  BY <1>1, FollowedTypes
<1>6. ReaderSound'
  BY <1>1, <1>2, <1>5 DEF ReaderSound, UnreadAfter
<1>7. LossSound'
  <2> SUFFICES ASSUME ~abrupt, KeepsUp
               PROVE  LossSound'
    BY <1>2 DEF LossSound
  <2>1. ASSUME NEW n \in 1..written
        PROVE  (Settled(n) \/ Ahead(n))'
    <3>1. Settled(n) \/ Ahead(n)
      BY <1>1 DEF LossSound
    <3>2. Settled(n) => Settled(n)'
      BY <1>2 DEF Settled
    <3>3. ~Resuming => reader.at.ino = path \/ ~FoundAfter(n, path, 0)
      <4>1. DOMAIN <<>> = {}
        OBVIOUS
      <4> QED BY <4>1 DEF KeepsUp, Resuming, FoundAfter
    <3>4. Resuming => cursor # NoCursor /\ cursor.ino # NoFile
      BY <1>5 DEF KeepsUp
    <3>5. Ahead(n) => Ahead(n)'
      BY <1>2, <1>5, <3>3, <3>4 DEF Ahead, Resuming, FoundAfter
    <3> QED BY <3>1, <3>2, <3>5
  <2> QED BY <1>1, <1>2, <2>1 DEF LossSound, KeepsUp
<1>8. NoReplay' /\ NoSilentLoss'
  BY <1>1, <1>2 DEF NoReplay, NoSilentLoss
<1> QED BY <1>3, <1>4, <1>6, <1>7, <1>8 DEF FollowedInvariant

\* The file created is another one than those the reader and the cursor know.
LEMMA CreateStep ==
  ASSUME FollowedInvariant, Create
  PROVE  FollowedInvariant'
<1>1. FollowedTypeOK /\ LinesSound /\ ReaderSound /\ LossSound /\ NoReplay /\ NoSilentLoss
  BY DEF FollowedInvariant
<1>2. PICK f \in Inodes : /\ f # writer /\ f # cursor.ino /\ path' = f
                          /\ reader.pc # "closed" => f # reader.at.ino
                          /\ content' = [content EXCEPT ![f] = <<>>]
  BY DEF Create, Held
<1>3. path = NoFile /\ UNCHANGED <<writer, written, reader, cursor, yields, announced, late, abrupt>>
  BY DEF Create, readerVars
<1>4. /\ content'[f] = <<>> /\ Len(content'[f]) = 0 /\ DOMAIN content'[f] = {}
      /\ \A i \in Inodes \ {f} : content'[i] = content[i]
      /\ content' \in [Inodes -> Seq(1..written)]
  <2>1. content \in [Inodes -> Seq(1..written)]
    BY <1>1 DEF FollowedTypeOK
  <2>2. <<>> \in Seq(1..written) /\ Len(<<>>) = 0 /\ DOMAIN <<>> = {}
    OBVIOUS
  <2>3. content'[f] = <<>> /\ \A i \in Inodes \ {f} : content'[i] = content[i]
    BY <1>2, <2>1
  <2>4. content' \in [Inodes -> Seq(1..written)]
    BY <1>2, <2>1, <2>2
  <2> QED BY <2>2, <2>3, <2>4
<1>5. FollowedTypeOK'
  BY <1>1, <1>2, <1>3, <1>4 DEF FollowedTypeOK
<1>6. written \in Nat /\ NoFile \notin Inodes /\ cursor.ino \in Inodes /\ reader.at.ino \in Inodes
  BY <1>1, FollowedTypes
<1>7. LinesSound'
  BY <1>1, <1>2, <1>3, <1>4, <1>6 DEF LinesSound
<1>8. ReaderSound'
  <2>1. UnreadAfter(f, 0)'
    BY <1>4 DEF UnreadAfter
  <2>2. /\ content'[cursor.ino] = content[cursor.ino]
        /\ reader.pc # "closed" => content'[reader.at.ino] = content[reader.at.ino]
    BY <1>2, <1>4, <1>6
  <2> QED BY <1>1, <1>2, <1>3, <2>1, <2>2 DEF ReaderSound, UnreadAfter
<1>9. LossSound'
  <2> SUFFICES ASSUME ~abrupt
               PROVE  LossSound'
    BY <1>3 DEF LossSound
  <2>1. /\ content'[cursor.ino] = content[cursor.ino] /\ cursor # NoCursor
        /\ reader.pc # "closed" => content'[reader.at.ino] = content[reader.at.ino]
    BY <1>1, <1>2, <1>3, <1>4, <1>6 DEF LossSound
  <2>2. ASSUME NEW n \in 1..written
        PROVE  (Settled(n) \/ Ahead(n))'
    BY <1>1, <1>2, <1>3, <1>6, <2>1 DEF LossSound, Settled, Ahead, Resuming, FoundAfter
  <2> QED BY <1>1, <1>3, <2>1, <2>2 DEF LossSound
<1>10. NoReplay' /\ NoSilentLoss'
  BY <1>1, <1>3 DEF NoReplay, NoSilentLoss
<1> QED BY <1>5, <1>7, <1>8, <1>9, <1>10 DEF FollowedInvariant

LEMMA TruncateStep ==
  ASSUME FollowedInvariant, Truncate
  PROVE  FollowedInvariant'
<1>1. FollowedTypeOK /\ LinesSound /\ ReaderSound /\ LossSound /\ NoReplay /\ NoSilentLoss
  BY DEF FollowedInvariant
<1>2. PICK f : f = path
  OBVIOUS
<1>3. /\ f \in Inodes /\ content' = [content EXCEPT ![f] = <<>>] /\ abrupt' = TRUE
      /\ UNCHANGED <<path, writer, written, reader, cursor, yields, announced, late>>
  BY <1>1, <1>2 DEF Truncate, readerVars, FollowedTypeOK
<1>4. /\ content'[f] = <<>> /\ Len(content'[f]) = 0 /\ DOMAIN content'[f] = {}
      /\ \A i \in Inodes \ {f} : content'[i] = content[i]
      /\ content' \in [Inodes -> Seq(1..written)]
  <2>1. content \in [Inodes -> Seq(1..written)]
    BY <1>1 DEF FollowedTypeOK
  <2>2. <<>> \in Seq(1..written) /\ Len(<<>>) = 0 /\ DOMAIN <<>> = {}
    OBVIOUS
  <2>3. content'[f] = <<>> /\ \A i \in Inodes \ {f} : content'[i] = content[i]
    BY <1>3, <2>1
  <2>4. content' \in [Inodes -> Seq(1..written)]
    BY <1>3, <2>1, <2>2
  <2> QED BY <2>2, <2>3, <2>4
<1>5. FollowedTypeOK'
  BY <1>1, <1>3, <1>4 DEF FollowedTypeOK
<1>6. written \in Nat /\ cursor.ino \in Inodes /\ reader.at.ino \in Inodes
  BY <1>1, FollowedTypes
<1>7. LinesSound'
  BY <1>1, <1>2, <1>3, <1>4, <1>6 DEF LinesSound
<1>8. ReaderSound'
  <2>1. UnreadAfter(f, 0)'
    BY <1>4 DEF UnreadAfter
  <2>2. ASSUME cursor # NoCursor
        PROVE  UnreadAfter(cursor.ino, StartOffset(cursor.offset, Len(content[cursor.ino])))'
    BY <1>1, <1>3, <1>4, <1>6, <2>2 DEF ReaderSound, UnreadAfter
  <2>3. ASSUME reader.pc # "closed"
        PROVE  UnreadAfter(reader.at.ino, reader.at.offset)'
    BY <1>1, <1>3, <1>4, <1>6, <2>3 DEF ReaderSound, UnreadAfter
  <2> QED BY <1>1, <1>2, <1>3, <2>1, <2>2, <2>3 DEF ReaderSound
<1>9. LossSound' /\ NoReplay' /\ NoSilentLoss'
  BY <1>1, <1>3 DEF LossSound, NoReplay, NoSilentLoss
<1> QED BY <1>5, <1>7, <1>8, <1>9 DEF FollowedInvariant

-----------------------------------------------------------------------------
(* The reader *)

\* A step of the reader alone, to r, has to keep what the invariant says of it.
LEMMA ReaderMoves ==
  ASSUME FollowedInvariant, UNCHANGED <<logVars, cursor, yields, announced>>,
         NEW r, reader' = r,
         r \in [pc: {"closed", "backlog", "reopen", "follow", "eof", "drain"}, at: Positions],
         r.at.offset >= 0,
         r.pc # "closed" =>
           /\ UnreadAfter(r.at.ino, r.at.offset)
           /\ path = NoFile \/ UnreadAfter(path, 0) \/ r.at.ino = path
           /\ r.at.ino = path \/ cursor = NoCursor \/ cursor.ino # path,
         r.pc = "drain" => r.at.ino # path,
         LossSound'
  PROVE  FollowedInvariant'
<1>1. FollowedTypeOK /\ LinesSound /\ ReaderSound /\ NoReplay /\ NoSilentLoss
  BY DEF FollowedInvariant
<1>2. UNCHANGED <<path, writer, content, written, late, abrupt, cursor, yields, announced>>
  BY DEF logVars
<1>3. FollowedTypeOK'
  BY <1>1, <1>2 DEF FollowedTypeOK
<1>4. LinesSound' /\ NoReplay' /\ NoSilentLoss'
  BY <1>1, <1>2 DEF LinesSound, NoReplay, NoSilentLoss
<1>5. ReaderSound'
  BY <1>1, <1>2 DEF ReaderSound, UnreadAfter
<1> QED BY <1>3, <1>4, <1>5 DEF FollowedInvariant

\* The reader stays where it is and finds the end of the file, or another file
\* behind the path.
LEMMA LookStep ==
  ASSUME FollowedInvariant, ReachEnd \/ Poll \/ SeeRotation
  PROVE  FollowedInvariant'
<1>1. PICK r : reader' = r /\ r.at = reader.at /\ r.pc \in {"follow", "eof", "drain"}
             /\ r \in [pc: {"closed", "backlog", "reopen", "follow", "eof", "drain"}, at: Positions]
             /\ (r.pc = "drain" => r.at.ino # path)
  BY DEF FollowedInvariant, FollowedTypeOK, ReachEnd, Poll, SeeRotation
<1>2. reader.pc \in {"follow", "eof"} /\ UNCHANGED <<logVars, cursor, yields, announced>>
  BY DEF ReachEnd, Poll, SeeRotation
<1>3. LossSound'
  <2>1. LossSound
    BY DEF FollowedInvariant
  <2>2. UNCHANGED <<path, writer, content, written, late, abrupt, cursor, yields, announced>>
    BY <1>2 DEF logVars
  <2> QED BY <1>1, <1>2, <2>1, <2>2 DEF LossSound, Settled, Ahead, Resuming, FoundAfter
<1>4. ReaderSound /\ reader.at.offset >= 0
  BY DEF FollowedInvariant, FollowedTypeOK
<1> QED BY <1>1, <1>2, <1>3, <1>4, ReaderMoves DEF ReaderSound

\* Behind the end of its file the reader has nothing left there.
LEMMA NothingLeft ==
  ASSUME FollowedInvariant, AtEnd, NEW n, FoundAfter(n, reader.at.ino, reader.at.offset)
  PROVE  FALSE
<1>1. FollowedTypeOK
  BY DEF FollowedInvariant
<1> PICK i : i = reader.at.ino
  OBVIOUS
<1>2. i \in Inodes /\ Len(content[i]) \in Nat /\ DOMAIN content[i] = 1..Len(content[i])
      /\ reader.at.offset \in Nat
  BY <1>1, FollowedTypes
<1>3. reader.at.offset >= Len(content[i])
  BY DEF AtEnd
<1>4. PICK k \in DOMAIN content[i] : k > reader.at.offset
  BY DEF FoundAfter
<1> QED BY <1>2, <1>3, <1>4

LEMMA FinishBacklogStep ==
  ASSUME FollowedInvariant, FinishBacklog
  PROVE  FollowedInvariant'
<1>1. PICK r : reader' = r /\ r.at = reader.at /\ r.pc = "reopen"
             /\ r \in [pc: {"closed", "backlog", "reopen", "follow", "eof", "drain"}, at: Positions]
  <2>1. reader \in [pc: {"closed", "backlog", "reopen", "follow", "eof", "drain"}, at: Positions]
    BY DEF FollowedInvariant, FollowedTypeOK
  <2>2. reader' = [reader EXCEPT !.pc = "reopen"]
    BY DEF FinishBacklog
  <2> QED BY <2>1, <2>2
<1>2. reader.pc = "backlog" /\ AtEnd /\ UNCHANGED <<logVars, cursor, yields, announced>>
  BY DEF FinishBacklog
<1>3. FollowedTypeOK /\ ReaderSound /\ LossSound
  BY DEF FollowedInvariant
<1>4. LossSound'
  <2> SUFFICES ASSUME ~abrupt
               PROVE  LossSound'
    BY <1>2 DEF LossSound, logVars
  <2>1. UNCHANGED <<path, writer, content, written, late, abrupt, cursor, yields, announced>>
    BY <1>2 DEF logVars
  <2>2. ASSUME NEW n \in 1..written
        PROVE  (Settled(n) \/ Ahead(n))'
    <3>1. Settled(n) => Settled(n)'
      BY <2>1 DEF Settled
    <3>2. Settled(n) \/ (path # NoFile /\ path # reader.at.ino)
      BY <1>2, <1>3, NothingLeft DEF LossSound, Ahead, Resuming
    <3>3. path # NoFile /\ path # reader.at.ino => cursor # NoCursor /\ cursor.ino # path
      BY <1>2, <1>3, PositionFields DEF LossSound, ReaderSound
    <3> QED BY <1>1, <2>1, <3>1, <3>2, <3>3 DEF Ahead, Resuming
  <2> QED BY <1>1, <1>2, <1>3, <2>1, <2>2 DEF LossSound
<1> QED BY <1>1, <1>2, <1>3, <1>4, ReaderMoves DEF ReaderSound, FollowedTypeOK

\* A reader that is stopped goes on from the cursor, which is where it was.
LEMMA CloseStep ==
  ASSUME FollowedInvariant, Close
  PROVE  FollowedInvariant'
<1>1. reader' = Closed /\ reader.pc # "closed" /\ UNCHANGED <<logVars, cursor, yields, announced>>
  BY DEF Close
<1>2. FollowedTypeOK /\ ReaderSound /\ LossSound
  BY DEF FollowedInvariant
<1>3. /\ Closed \in [pc: {"closed", "backlog", "reopen", "follow", "eof", "drain"}, at: Positions]
      /\ Closed.pc = "closed" /\ Closed.at.offset = 0
  BY <1>2, FollowedTypes DEF Closed, Position, Positions
<1>4. LossSound'
  <2> SUFFICES ASSUME ~abrupt
               PROVE  LossSound'
    BY <1>1 DEF LossSound, logVars
  <2>1. UNCHANGED <<path, writer, content, written, late, abrupt, cursor, yields, announced>>
    BY <1>1 DEF logVars
  <2>2. ASSUME NEW n \in 1..written, Ahead(n)
        PROVE  Ahead(n)'
    <3>1. CASE Resuming
      BY <1>1, <1>3, <2>1, <2>2, <3>1 DEF Ahead, Resuming, FoundAfter
    <3>2. CASE ~Resuming /\ reader.at.ino # path
      <4>1. cursor # NoCursor /\ cursor.ino # path
        BY <1>1, <1>2, <3>2, PositionFields DEF LossSound, ReaderSound
      <4> QED BY <1>1, <1>3, <2>1, <4>1 DEF Ahead, Resuming
    <3>3. CASE ~Resuming /\ reader.at.ino = path
      <4>1. path # NoFile /\ FoundAfter(n, path, reader.at.offset)
        BY <1>2, <2>2, <3>3, FollowedTypes DEF Ahead
      <4>2. CASE cursor # NoCursor /\ cursor.ino # path
        BY <1>1, <1>3, <2>1, <4>2 DEF Ahead, Resuming
      <4>3. CASE cursor = NoCursor \/ cursor.ino = path
        <5>1. cursor.offset <= reader.at.offset
          BY <1>1, <1>2, <3>3, <4>3, PositionFields, FollowedTypes DEF LossSound
        <5>2. FoundAfter(n, path, cursor.offset)
          <6>1. reader.at.offset \in Int /\ cursor.offset \in Int /\ path \in Inodes
            BY <1>2, <4>1, FollowedTypes DEF FollowedTypeOK
          <6>2. \A k \in DOMAIN content[path] : k \in Int
            BY <1>2, <6>1, FollowedTypes
          <6> QED BY <4>1, <5>1, <6>1, <6>2 DEF FoundAfter
        <5> QED BY <1>1, <1>3, <2>1, <4>1, <5>2 DEF Ahead, Resuming, FoundAfter
      <4> QED BY <4>2, <4>3
    <3> QED BY <3>1, <3>2, <3>3
  <2>3. ASSUME NEW n \in 1..written
        PROVE  (Settled(n) \/ Ahead(n))'
    BY <1>2, <2>1, <2>2 DEF LossSound, Settled
  <2> QED BY <1>1, <1>2, <1>3, <2>1, <2>3 DEF LossSound
<1> QED BY <1>1, <1>3, <1>4, ReaderMoves

\* The reader opens the file at the cursor, or from the top if it is a new one.
LEMMA OpenStep ==
  ASSUME FollowedInvariant, Open
  PROVE  FollowedInvariant'
<1>1. FollowedTypeOK /\ ReaderSound /\ LossSound
  BY DEF FollowedInvariant
<1>2. /\ Resuming /\ path \in Inodes /\ path # NoFile
      /\ UNCHANGED <<logVars, cursor, yields, announced>>
  BY <1>1 DEF Open, Resuming, FollowedTypeOK
<1>3. PICK o, phase :
        /\ reader' = Reading(phase, path, o) /\ phase \in {"backlog", "follow"}
        /\ \/ cursor = NoCursor /\ o = 0
           \/ cursor # NoCursor /\ cursor.ino = path /\ o = StartOffset(cursor.offset, Len(content[path]))
  BY DEF Open
<1>4. /\ cursor.offset \in Int /\ Len(content[path]) \in Nat /\ MaxLine \in Nat
      /\ cursor.offset <= MaxLine
  BY <1>1, <1>2, FollowedTypes DEF FollowedTypeOK, Positions
<1>5. o \in 0..MaxLine
  BY <1>1, <1>3, <1>4 DEF StartOffset, ReaderSound
<1>6. PICK r : r = reader'
  OBVIOUS
<1>7. /\ r.pc = phase /\ r.at = Position(path, o) /\ r.at.ino = path /\ r.at.offset = o
      /\ r \in [pc: {"closed", "backlog", "reopen", "follow", "eof", "drain"}, at: Positions]
  BY <1>2, <1>3, <1>5, <1>6 DEF Reading, Position, Positions
<1>8. UnreadAfter(path, o)
  BY <1>1, <1>2, <1>3 DEF ReaderSound
<1>9. LossSound'
  <2> SUFFICES ASSUME ~abrupt
               PROVE  LossSound'
    BY <1>2 DEF LossSound, logVars
  <2>1. UNCHANGED <<path, writer, content, written, late, abrupt, cursor, yields, announced>>
    BY <1>2 DEF logVars
  <2>2. o <= Len(content[path]) /\ (cursor # NoCursor => cursor.offset = o /\ cursor = r.at)
    <3>1. cursor # NoCursor => cursor.offset = o
      BY <1>1, <1>3, <1>4 DEF LossSound, StartOffset
    <3>2. cursor = [ino |-> cursor.ino, offset |-> cursor.offset]
      BY <1>1 DEF FollowedTypeOK, Positions
    <3> QED BY <1>1, <1>3, <1>4, <1>7, <3>1, <3>2 DEF LossSound, Position
  <2>3. ASSUME NEW n \in 1..written
        PROVE  (Settled(n) \/ Ahead(n))'
    <3>1. Settled(n) => Settled(n)'
      BY <2>1 DEF Settled
    <3>2. Ahead(n) => FoundAfter(n, path, cursor.offset)
      BY <1>2, <1>3 DEF Ahead
    <3>3. FoundAfter(n, path, cursor.offset) => FoundAfter(n, path, o)
      BY <1>1, <1>2, <1>3, <1>4, <2>2, FollowedTypes DEF FoundAfter
    <3>4. FoundAfter(n, path, o) => Ahead(n)'
      BY <1>3, <1>6, <1>7, <2>1 DEF Ahead, Resuming, FoundAfter
    <3> QED BY <1>1, <3>1, <3>2, <3>3, <3>4 DEF LossSound
  <2> QED BY <1>1, <1>2, <1>3, <1>6, <1>7, <2>1, <2>2, <2>3 DEF LossSound
<1> QED BY <1>2, <1>3, <1>5, <1>6, <1>7, <1>8, <1>9, ReaderMoves

\* The tail of the old file is read; of the new one no line has been yielded.
LEMMA SwitchStep ==
  ASSUME FollowedInvariant, SwitchFile
  PROVE  FollowedInvariant'
<1>1. FollowedTypeOK /\ ReaderSound /\ LossSound
  BY DEF FollowedInvariant
<1>2. /\ reader.pc = "drain" /\ AtEnd /\ path \in Inodes /\ path # NoFile
      /\ UNCHANGED <<logVars, cursor, yields, announced>>
  BY <1>1 DEF SwitchFile, FollowedTypeOK
<1>3. PICK r : /\ reader' = r /\ r.pc = "follow" /\ r.at = Position(path, 0)
               /\ r.at.ino = path /\ r.at.offset = 0
               /\ r \in [pc: {"closed", "backlog", "reopen", "follow", "eof", "drain"}, at: Positions]
  <2>1. reader' = [pc |-> "follow", at |-> [ino |-> path, offset |-> 0]] /\ 0 \in -1..MaxLine
    BY <1>1, FollowedTypes DEF SwitchFile, Reading, Position
  <2> QED BY <1>2, <2>1 DEF Position, Positions
<1>4. reader.at.ino # path /\ UnreadAfter(path, 0) /\ (cursor = NoCursor \/ cursor.ino # path)
  BY <1>1, <1>2 DEF ReaderSound
<1>5. LossSound'
  <2> SUFFICES ASSUME ~abrupt
               PROVE  LossSound'
    BY <1>2 DEF LossSound, logVars
  <2>1. UNCHANGED <<path, writer, content, written, late, abrupt, cursor, yields, announced>>
    BY <1>2 DEF logVars
  <2>2. cursor # NoCursor /\ cursor.ino # path
    BY <1>1, <1>2, <1>4, PositionFields DEF LossSound
  <2>3. ASSUME NEW n \in 1..written
        PROVE  (Settled(n) \/ Ahead(n))'
    <3>1. Settled(n) => Settled(n)'
      BY <2>1 DEF Settled
    <3>2. Settled(n) \/ FoundAfter(n, path, 0)
      BY <1>1, <1>2, NothingLeft DEF LossSound, Ahead, Resuming
    <3>3. FoundAfter(n, path, 0) => Ahead(n)'
      BY <1>2, <1>3, <2>1 DEF Ahead, Resuming, FoundAfter
    <3> QED BY <3>1, <3>2, <3>3
  <2>4. 0 <= Len(content[path])
    BY <1>1, <1>2, FollowedTypes
  <2> QED BY <1>1, <1>3, <2>1, <2>2, <2>3, <2>4 DEF LossSound
<1> QED BY <1>2, <1>3, <1>4, <1>5, ReaderMoves

\* The gap covers every line written so far.
LEMMA UnavailableStep ==
  ASSUME FollowedInvariant, CursorUnavailable
  PROVE  FollowedInvariant'
<1>1. FollowedTypeOK /\ LinesSound /\ ReaderSound /\ LossSound /\ NoReplay /\ NoSilentLoss
  BY DEF FollowedInvariant
<1>2. /\ path # NoFile /\ cursor # NoCursor /\ cursor.ino # path
      /\ reader' = Closed /\ cursor' = NoCursor /\ announced' = written
      /\ UNCHANGED <<path, writer, content, written, late, abrupt, yields>>
  BY DEF CursorUnavailable, logVars
<1>3. /\ Closed \in [pc: {"closed", "backlog", "reopen", "follow", "eof", "drain"}, at: Positions]
      /\ Closed.pc = "closed" /\ Closed.at.offset = 0
      /\ NoCursor \in Positions
  BY <1>1, FollowedTypes DEF Closed, Position, Positions, NoCursor
<1>4. written \in Nat /\ announced \in Nat /\ announced <= written
  BY <1>1, FollowedTypes
<1>5. FollowedTypeOK'
  BY <1>1, <1>2, <1>3, <1>4 DEF FollowedTypeOK
<1>6. LinesSound' /\ NoReplay'
  BY <1>1, <1>2 DEF LinesSound, NoReplay
<1>7. ReaderSound'
  BY <1>1, <1>2, <1>3 DEF ReaderSound, UnreadAfter
<1>8. \A n \in 1..written : Settled(n)'
  BY <1>2, <1>4 DEF Settled
<1>9. LossSound'
  BY <1>1, <1>2, <1>3, <1>8 DEF LossSound
<1>10. NoSilentLoss'
  BY <1>1, <1>2, <1>4 DEF NoSilentLoss
<1> QED BY <1>5, <1>6, <1>7, <1>9, <1>10 DEF FollowedInvariant

\* The next line of the file is unread, and every earlier one is settled: one
\* that is still ahead is in this file behind it, or in a newer file.
LEMMA ReadLineStep ==
  ASSUME FollowedInvariant, ReadLine
  PROVE  FollowedInvariant'
<1>1. FollowedTypeOK /\ LinesSound /\ ReaderSound /\ LossSound /\ NoReplay /\ NoSilentLoss
  BY DEF FollowedInvariant
<1>2. PICK f, next, m : f = reader.at.ino /\ next = reader.at.offset + 1 /\ m = content[f][next]
  OBVIOUS
<1>3. /\ reader.pc \in {"backlog", "follow", "drain"} /\ ~AtEnd
      /\ reader' = Reading(reader.pc, f, next) /\ cursor' = Position(f, next)
      /\ yields' = [yields EXCEPT ![m] = @ + 1]
      /\ UNCHANGED <<path, writer, content, written, late, abrupt, announced>>
  BY <1>2 DEF ReadLine, logVars
<1>4. /\ f \in Inodes /\ next \in Nat /\ next > 0 /\ next <= Len(content[f]) /\ next \in DOMAIN content[f]
      /\ m \in 1..written /\ Len(content[f]) \in Nat
      /\ \A k \in DOMAIN content[f] : k \in Nat
      /\ reader.at.offset \in Nat /\ NoFile \notin Inodes
  <2>1. /\ f \in Inodes /\ reader.at.offset \in Nat /\ NoFile \notin Inodes
        /\ Len(content[f]) \in Nat /\ DOMAIN content[f] = 1..Len(content[f])
    BY <1>1, <1>2, FollowedTypes
  <2>2. next \in Nat /\ next > 0 /\ next <= Len(content[f])
    BY <1>2, <1>3, <2>1 DEF AtEnd
  <2>3. next \in DOMAIN content[f] /\ \A k \in DOMAIN content[f] : k \in Nat
    BY <2>1, <2>2
  <2>4. m \in 1..written
    BY <1>1, <1>2, <2>1, <2>3, FollowedTypes
  <2> QED BY <2>1, <2>2, <2>3, <2>4
<1>5. /\ written \in Nat /\ MaxLine \in Nat /\ written <= MaxLine /\ next <= MaxLine /\ m \in 1..MaxLine
  <2>1. /\ written \in Nat /\ MaxLine \in Nat /\ written <= MaxLine /\ Len(content[f]) <= written
    BY <1>1, <1>4, FollowedTypes DEF LinesSound
  <2> QED BY <1>4, <2>1
<1>6. /\ yields[m] = 0 /\ yields \in [1..MaxLine -> Nat]
      /\ yields' = [yields EXCEPT ![m] = 1] /\ yields'[m] = 1
      /\ \A n \in 1..MaxLine : n # m => yields'[n] = yields[n]
  <2>1. yields \in [1..MaxLine -> Nat]
    BY <1>1 DEF FollowedTypeOK
  <2>2. next > reader.at.offset
    BY <1>1, <1>2, FollowedTypes
  <2>3. yields[m] = 0
    BY <1>1, <1>2, <1>3, <1>4, <2>2 DEF ReaderSound, UnreadAfter
  <2> QED BY <1>3, <1>5, <2>1, <2>3
<1>7. /\ reader'.pc = reader.pc /\ reader'.at = cursor' /\ cursor'.ino = f /\ cursor'.offset = next
      /\ cursor' \in Positions
      /\ reader' \in [pc: {"closed", "backlog", "reopen", "follow", "eof", "drain"}, at: Positions]
  <2>1. Position(f, next) \in Positions
    BY <1>4, <1>5 DEF Position, Positions
  <2> QED BY <1>3, <2>1 DEF Reading, Position
<1>8. FollowedTypeOK'
  <2>1. yields' \in [1..MaxLine -> Nat] /\ \A n \in 1..MaxLine : yields'[n] > 0 => n <= written
    BY <1>1, <1>4, <1>5, <1>6 DEF FollowedTypeOK
  <2> QED BY <1>1, <1>3, <1>4, <1>7, <2>1 DEF FollowedTypeOK
<1>9. LinesSound' /\ NoReplay'
  BY <1>1, <1>3, <1>5, <1>6 DEF LinesSound, NoReplay
<1>10. cursor' # NoCursor
  BY <1>4, <1>7, PositionFields
<1>11. ReaderSound'
  <2>1. \A i \in Inodes : \A k \in DOMAIN content[i] :
          content[i][k] \in 1..MaxLine /\ (content[i][k] = m => i = f /\ k = next)
    <3>1. ASSUME NEW i \in Inodes, NEW k \in DOMAIN content[i]
          PROVE  content[i][k] \in 1..MaxLine /\ k \in Nat
      BY <1>1, <1>5, FollowedTypes
    <3>2. ASSUME NEW i \in Inodes, NEW k \in DOMAIN content[i], i # f
          PROVE  content[i][k] # m
      BY <1>1, <1>2, <1>4, <3>2 DEF LinesSound
    <3>3. ASSUME NEW k \in DOMAIN content[f], k # next
          PROVE  content[f][k] # m
      <4>1. k < next \/ next < k
        BY <1>4, <3>3
      <4>2. \A l \in DOMAIN content[f] : \A j \in DOMAIN content[f] : l < j => content[f][l] < content[f][j]
        BY <1>1, <1>4 DEF LinesSound
      <4>3. content[f][k] < m \/ m < content[f][k]
        BY <1>2, <1>4, <3>3, <4>1, <4>2
      <4> QED BY <1>4, <1>5, <3>1, <3>3, <4>3
    <3> QED BY <3>1, <3>2, <3>3
  <2>2. UnreadAfter(f, next)'
    <3>1. \A k \in DOMAIN content[f] : k > next => k > reader.at.offset /\ k # next
      BY <1>2, <1>4
    <3> QED BY <1>1, <1>2, <1>3, <1>4, <1>6, <2>1, <3>1 DEF ReaderSound, UnreadAfter
  <2>3. StartOffset(next, Len(content[f])) = next
    BY <1>4 DEF StartOffset
  <2>4. f = path \/ path = NoFile \/ UnreadAfter(path, 0)'
    <3> SUFFICES ASSUME f # path, path \in Inodes
                 PROVE  UnreadAfter(path, 0)'
      BY <1>1 DEF FollowedTypeOK
    <3>1. UnreadAfter(path, 0)
      BY <1>1, <1>2, <1>3, <1>4 DEF ReaderSound
    <3> QED BY <1>3, <1>6, <2>1, <3>1 DEF UnreadAfter
  <2>5. UnreadAfter(cursor.ino, StartOffset(cursor.offset, Len(content[cursor.ino])))'
    BY <1>3, <1>7, <2>2, <2>3 DEF UnreadAfter
  <2>6. UnreadAfter(reader.at.ino, reader.at.offset)'
    BY <1>7, <2>2 DEF UnreadAfter
  <2>7. /\ path' = NoFile \/ UnreadAfter(path, 0)' \/ (cursor'.ino = path' /\ reader'.at.ino = path')
        /\ reader'.pc = "drain" => reader'.at.ino # path'
        /\ reader'.at.ino # path' => cursor'.ino # path'
    BY <1>1, <1>2, <1>3, <1>7, <2>4 DEF ReaderSound
  <2> QED BY <1>4, <1>7, <1>10, <2>5, <2>6, <2>7 DEF ReaderSound
<1>12. ASSUME ~abrupt, NEW n \in 1..written
       PROVE  Settled(n) \/ n = m \/ (n > m /\ Ahead(n)')
  <2>1. Settled(n) \/ Ahead(n)
    BY <1>1, <1>12 DEF LossSound
  <2>2. CASE FoundAfter(n, f, reader.at.offset)
    <3>1. PICK k \in DOMAIN content[f] : k > reader.at.offset /\ content[f][k] = n
      BY <2>2 DEF FoundAfter
    <3>2. k \in Nat /\ reader.at.offset \in Nat
      BY <1>4
    <3>3. k = next \/ k > next
      BY <1>2, <3>1, <3>2
    <3>4. CASE k > next
      <4>1. n > m
        BY <1>1, <1>2, <1>4, <3>1, <3>4 DEF LinesSound
      <4>2. FoundAfter(n, f, next)'
        BY <1>3, <3>1, <3>4 DEF FoundAfter
      <4> QED BY <1>3, <1>7, <4>1, <4>2 DEF Ahead, Resuming, FoundAfter
    <3> QED BY <1>2, <3>1, <3>3, <3>4
  <2>3. CASE path # NoFile /\ path # f /\ FoundAfter(n, path, 0)
    <3>1. n > m
      <4>1. path \in Inodes
        BY <1>1, <2>3 DEF FollowedTypeOK
      <4>2. PICK k \in DOMAIN content[path] : content[path][k] = n
        BY <2>3 DEF FoundAfter
      <4>3. path = writer
        <5>1. DOMAIN <<>> = {}
          OBVIOUS
        <5> QED BY <1>1, <2>3, <4>2, <5>1 DEF LinesSound
      <4> QED BY <1>1, <1>2, <1>4, <2>3, <4>1, <4>2, <4>3 DEF LinesSound
    <3> QED BY <1>3, <1>7, <2>3, <3>1 DEF Ahead, Resuming, FoundAfter
  <2> QED BY <1>2, <1>3, <2>1, <2>2, <2>3 DEF Ahead, Resuming
<1>13. ASSUME NEW n \in 1..written, Settled(n) \/ n = m
       PROVE  Settled(n)'
  BY <1>3, <1>5, <1>6, <1>13 DEF Settled
<1>14. LossSound'
  <2> SUFFICES ASSUME ~abrupt
               PROVE  LossSound'
    BY <1>3 DEF LossSound
  <2>1. \A n \in 1..written : (Settled(n) \/ Ahead(n))'
    BY <1>12, <1>13
  <2> QED BY <1>3, <1>4, <1>7, <1>10, <2>1 DEF LossSound
<1>15. NoSilentLoss'
  <2> SUFFICES ASSUME NEW n \in 1..MaxLine, NEW k \in 1..MaxLine, n < k, yields'[k] > 0, ~abrupt
               PROVE  Settled(n)'
    BY <1>3 DEF NoSilentLoss, Settled
  <2>1. CASE k = m
    <3>1. n \in 1..written /\ ~(n > m) /\ n # m
      BY <1>4, <1>5, <2>1
    <3> QED BY <1>12, <1>13, <3>1
  <2>2. CASE k # m
    <3>1. Settled(n) /\ n \in 1..written
      BY <1>1, <1>5, <1>6, <2>2 DEF NoSilentLoss, Settled, FollowedTypeOK
    <3> QED BY <1>13, <3>1
  <2> QED BY <2>1, <2>2
<1> QED BY <1>8, <1>9, <1>11, <1>14, <1>15 DEF FollowedInvariant

-----------------------------------------------------------------------------
(* The specification of the tailer *)

LEMMA FollowedInitStep ==
  ASSUME FollowedInit
  PROVE  FollowedInvariant
<1>1. /\ path = First /\ writer = First /\ late = {}
      /\ content = [i \in Inodes |-> <<>>] /\ written = 0 /\ reader = Closed
      /\ cursor = NoCursor /\ yields = [n \in 1..MaxLine |-> 0] /\ announced = 0 /\ abrupt = FALSE
      /\ MaxLine \in Nat /\ First \in Inodes /\ NoFile \notin Inodes
  BY FollowedFileAssumption DEF FollowedInit, FollowedFileAssumption
<1>2. \A i \in Inodes : content[i] = <<>> /\ Len(content[i]) = 0 /\ DOMAIN content[i] = {}
  <2>1. Len(<<>>) = 0 /\ DOMAIN <<>> = {}
    OBVIOUS
  <2> QED BY <1>1, <2>1
<1>3. content \in [Inodes -> Seq(1..written)]
  BY <1>1, EmptySeq
<1>4. /\ Closed \in [pc: {"closed", "backlog", "reopen", "follow", "eof", "drain"}, at: Positions]
      /\ Closed.pc = "closed" /\ Closed.at.offset = 0
      /\ NoCursor \in Positions
  BY <1>1 DEF Closed, Position, Positions, NoCursor
<1>5. FollowedTypeOK
  <2>1. yields \in [1..MaxLine -> Nat] /\ \A n \in 1..MaxLine : ~(yields[n] > 0)
    BY <1>1
  <2>2. written \in 0..MaxLine /\ announced \in 0..written
    BY <1>1
  <2>3. /\ path \in Inodes \cup {NoFile} /\ writer \in Inodes
        /\ late \subseteq 1..written /\ abrupt \in BOOLEAN
    BY <1>1
  <2>4. /\ reader \in [pc: {"closed", "backlog", "reopen", "follow", "eof", "drain"}, at: Positions]
        /\ reader.at.offset >= 0 /\ cursor \in Positions
    BY <1>1, <1>4
  <2> QED BY <1>3, <2>1, <2>2, <2>3, <2>4 DEF FollowedTypeOK
<1>6. LinesSound
  BY <1>1, <1>2 DEF LinesSound
<1>7. ReaderSound
  BY <1>1, <1>2, <1>4 DEF ReaderSound, UnreadAfter
<1>8. LossSound
  BY <1>1, <1>4 DEF LossSound
<1>9. NoReplay /\ NoSilentLoss
  BY <1>1 DEF NoReplay, NoSilentLoss
<1> QED BY <1>5, <1>6, <1>7, <1>8, <1>9 DEF FollowedInvariant

LEMMA FollowedStutter ==
  ASSUME FollowedInvariant, UNCHANGED followedVars
  PROVE  FollowedInvariant'
<1>1. UNCHANGED <<path, writer, content, written, reader, cursor, yields, announced, late, abrupt>>
  BY DEF followedVars
<1>2. FollowedTypeOK' /\ LinesSound' /\ NoReplay' /\ NoSilentLoss'
  BY <1>1 DEF FollowedInvariant, FollowedTypeOK, LinesSound, NoReplay, NoSilentLoss
<1>3. ReaderSound' /\ LossSound'
  BY <1>1 DEF FollowedInvariant, ReaderSound, UnreadAfter, LossSound, Settled, Ahead, Resuming, FoundAfter
<1> QED BY <1>2, <1>3 DEF FollowedInvariant

\* The inductive invariant of the tailer holds in every reachable state.
THEOREM FollowedInvariantHolds == FollowedSpec => []FollowedInvariant
<1>1. FollowedInit => FollowedInvariant
  BY FollowedInitStep
<1>2. FollowedInvariant /\ [FollowedNext]_followedVars => FollowedInvariant'
  BY WriteStep, ReopenStep, RenameStep, CreateStep, TruncateStep, OpenStep, UnavailableStep, ReadLineStep,
     FinishBacklogStep, LookStep, SwitchStep, CloseStep, FollowedStutter
     DEF FollowedNext, ReaderSteps
<1> QED BY <1>1, <1>2, PTL DEF FollowedSpec

\* The tailer's state has its type; it reads none but written lines.
THEOREM FollowedTypeCorrect == FollowedSpec => []FollowedTypeOK
<1>1. FollowedInvariant => FollowedTypeOK
  BY DEF FollowedInvariant
<1> QED BY <1>1, FollowedInvariantHolds, PTL

\* However the file is rotated, truncated, left and opened again, no line is
\* yielded twice (FollowedFile.follow and _open_at).
THEOREM LinesYieldedOnce == FollowedSpec => []NoReplay
<1>1. FollowedInvariant => NoReplay
  BY DEF FollowedInvariant
<1> QED BY <1>1, FollowedInvariantHolds, PTL

\* Unless the file was truncated, or rotated faster than the reader follows, a
\* line that was passed over has been announced as a gap, or was written to a
\* renamed file after the reader had left it (FollowedFile.follow, and the
\* collector's answer to FollowedFileCursorUnavailableError).
THEOREM LossIsAnnounced == FollowedSpec => []NoSilentLoss
<1>1. FollowedInvariant => NoSilentLoss
  BY DEF FollowedInvariant
<1> QED BY <1>1, FollowedInvariantHolds, PTL

-----------------------------------------------------------------------------
(* File integrity: baselines *)

LEMMA IntegrityParameters ==
  /\ IsFiniteSet(Paths) /\ States # {} /\ Capacity \in Nat /\ Capacity > 0 /\ MaxEdits \in Nat
  BY FileIntegrityAssumption DEF FileIntegrityAssumption

LEMMA BaselineType ==
  ASSUME NEW b
  PROVE  b \in Baselines <=> /\ DOMAIN b \subseteq Paths
                             /\ b = [p \in DOMAIN b |-> b[p]]
                             /\ \A p \in DOMAIN b : b[p] \in States
  BY DEF Baselines

LEMMA NoBaselineType ==
  NoBaseline \in Baselines /\ DOMAIN NoBaseline = {}
<1>1. DOMAIN NoBaseline = {}
  BY DEF NoBaseline
<1>2. NoBaseline = [p \in DOMAIN NoBaseline |-> NoBaseline[p]]
  BY DEF NoBaseline
<1> QED BY <1>1, <1>2, BaselineType

\* The state of one path on top of a baseline.
LEMMA BaselineExtended ==
  ASSUME NEW b \in Baselines, NEW p \in Paths, NEW s \in States
  PROVE  /\ With(b, p, s) \in Baselines /\ DOMAIN With(b, p, s) = DOMAIN b \cup {p}
         /\ With(b, p, s)[p] = s
         /\ \A q \in DOMAIN b : q # p => With(b, p, s)[q] = b[q]
<1> PICK c : c = With(b, p, s)
  OBVIOUS
<1>1. DOMAIN b \subseteq Paths /\ \A q \in DOMAIN b : b[q] \in States
  BY BaselineType
<1>2. c = [q \in DOMAIN b \cup {p} |-> IF q = p THEN s ELSE b[q]]
  BY DEF With
<1>3. DOMAIN c = DOMAIN b \cup {p} /\ c[p] = s /\ \A q \in DOMAIN b : q # p => c[q] = b[q]
  BY <1>2
<1>4. c = [q \in DOMAIN c |-> c[q]]
  BY <1>2
<1>5. \A q \in DOMAIN c : c[q] \in States
  BY <1>1, <1>3
<1> QED BY <1>1, <1>3, <1>4, <1>5, BaselineType

LEMMA BaselineRestricted ==
  ASSUME NEW b \in Baselines, NEW P, P \subseteq DOMAIN b, NEW c, c = Restrict(b, P)
  PROVE  c \in Baselines /\ DOMAIN c = P /\ \A q \in P : c[q] = b[q]
<1>1. c = [q \in P |-> b[q]]
  BY DEF Restrict
<1>2. DOMAIN c = P /\ \A q \in P : c[q] = b[q]
  BY <1>1
<1>3. c = [q \in DOMAIN c |-> c[q]]
  BY <1>1
<1> QED BY <1>2, <1>3, BaselineType

LEMMA ApartRange ==
  ASSUME NEW s, NEW t, NEW u
  PROVE  /\ Apart(s, t) \in 0..1 /\ Apart(s, s) = 0
         /\ s # t => Apart(s, t) = 1
         /\ Apart(s, u) <= Apart(s, t) + Apart(t, u)
  BY DEF Apart

LEMMA IntegrityTypes ==
  ASSUME IntegrityTypeOK
  PROVE  /\ file \in [Paths -> States] /\ watched \subseteq Paths
         /\ scan.pc \in {"idle", "read", "compare"} /\ scan.todo \subseteq watched
         /\ scan.seen \in Baselines /\ scan.old \in Baselines /\ scan.committed \in Baselines
         /\ baseline \in Baselines /\ DOMAIN baseline \subseteq Paths
         /\ DOMAIN scan.seen \subseteq Paths /\ DOMAIN scan.old \subseteq Paths
         /\ \A p \in Paths : edits[p] \in Nat /\ changes[p] \in Nat
  BY IntegrityParameters, BaselineType DEF IntegrityTypeOK

\* A scan that ends, or is cut short, leaves nothing but the baseline behind.
LEMMA ToIdle ==
  ASSUME IntegrityInvariant, scan' = Idle,
         watched' \in (SUBSET Paths) \ {{}}, baseline' \in Baselines,
         UNCHANGED <<file, spool, stored, edits, changes>>,
         \A p \in DOMAIN baseline' : changes[p] + Apart(baseline'[p], file[p]) <= edits[p]
  PROVE  IntegrityInvariant'
<1>1. PICK c : c = scan'
  OBVIOUS
<1>2. /\ c.pc = "idle"
      /\ c \in [pc: {"idle", "read", "compare"}, todo: SUBSET watched',
                seen: Baselines, old: Baselines, committed: Baselines]
  BY <1>1, NoBaselineType DEF Idle, Scan
<1>3. IntegrityTypeOK'
  BY <1>1, <1>2 DEF IntegrityInvariant, IntegrityTypeOK
<1>4. ScanSound' /\ BaselineFollows' /\ AlarmSound'
  BY <1>1, <1>2 DEF ScanSound, BaselineFollows, AlarmSound
<1>5. NoFalseAlarm'
  BY DEF IntegrityInvariant, NoFalseAlarm
<1> QED BY <1>3, <1>4, <1>5 DEF IntegrityInvariant

\* A scan that moves on, to c, before it has anything to report.
LEMMA ScanMoves ==
  ASSUME IntegrityInvariant, UNCHANGED <<file, watched, baseline, spool, stored, edits, changes>>,
         NEW c, scan' = c, c.pc \in {"read", "compare"},
         c \in [pc: {"idle", "read", "compare"}, todo: SUBSET watched,
                seen: Baselines, old: Baselines, committed: Baselines],
         ScanSound', BaselineFollows',
         \A p \in DOMAIN c.seen :
           /\ changes[p] + Apart(c.seen[p], file[p]) <= edits[p]
           /\ p \in DOMAIN c.old /\ (c.pc = "read" \/ p \in c.todo) =>
                changes[p] + Apart(c.old[p], c.seen[p]) + Apart(c.seen[p], file[p]) <= edits[p]
  PROVE  IntegrityInvariant'
<1>1. IntegrityTypeOK'
  BY DEF IntegrityInvariant, IntegrityTypeOK
<1>2. NoFalseAlarm' /\ AlarmSound'
  BY DEF IntegrityInvariant, NoFalseAlarm, AlarmSound
<1> QED BY <1>1, <1>2 DEF IntegrityInvariant

-----------------------------------------------------------------------------
(* File integrity: the scan *)

LEMMA BeginScanStep ==
  ASSUME IntegrityInvariant, BeginScan
  PROVE  IntegrityInvariant'
<1>1. UNCHANGED <<file, watched, baseline, spool, stored, edits, changes>> /\ IntegrityTypeOK
  BY DEF BeginScan, IntegrityInvariant
<1>2. PICK base : base = Restrict(baseline, watched \cap DOMAIN baseline)
  OBVIOUS
<1>3. base \in Baselines
  BY <1>1, <1>2, BaselineRestricted, IntegrityTypes
<1>4. PICK c : /\ scan' = c /\ c.pc = "read" /\ c.todo = watched /\ c.seen = NoBaseline
               /\ c.old = baseline /\ c.committed = base
               /\ c \in [pc: {"idle", "read", "compare"}, todo: SUBSET watched,
                         seen: Baselines, old: Baselines, committed: Baselines]
  BY <1>1, <1>2, <1>3, NoBaselineType, IntegrityTypes DEF BeginScan, Scan
<1>5. ScanSound' /\ BaselineFollows'
  BY <1>1, <1>2, <1>4, NoBaselineType DEF ScanSound, BaselineFollows
<1> QED BY <1>1, <1>4, <1>5, NoBaselineType, ScanMoves

LEMMA ReadStep ==
  ASSUME IntegrityInvariant, NEW p \in Paths, Read(p)
  PROVE  IntegrityInvariant'
<1>1. /\ UNCHANGED <<file, watched, baseline, spool, stored, edits, changes>>
      /\ scan.pc = "read" /\ p \in scan.todo
      /\ IntegrityTypeOK /\ ScanSound /\ AlarmSound /\ NoFalseAlarm
  BY DEF Read, IntegrityInvariant
<1>2. PICK seen : seen = With(scan.seen, p, file[p])
  OBVIOUS
<1>3. /\ file[p] \in States /\ scan.seen \in Baselines
      /\ seen \in Baselines /\ DOMAIN seen = DOMAIN scan.seen \cup {p} /\ seen[p] = file[p]
      /\ \A q \in DOMAIN scan.seen : q # p => seen[q] = scan.seen[q]
  <2>1. file[p] \in States /\ scan.seen \in Baselines
    BY <1>1, IntegrityTypes
  <2> QED BY <1>2, <2>1, BaselineExtended
<1>4. PICK c : /\ scan' = c /\ c.pc = "read" /\ c.todo = scan.todo \ {p} /\ c.seen = seen
               /\ c.old = scan.old /\ c.committed = scan.committed
               /\ c \in [pc: {"idle", "read", "compare"}, todo: SUBSET watched,
                         seen: Baselines, old: Baselines, committed: Baselines]
  <2>1. scan' = [scan EXCEPT !.todo = scan.todo \ {p}, !.seen = seen]
    BY <1>2 DEF Read
  <2>2. scan \in [pc: {"idle", "read", "compare"}, todo: SUBSET watched,
                   seen: Baselines, old: Baselines, committed: Baselines]
    BY <1>1 DEF IntegrityTypeOK
  <2>3. /\ scan'.pc = "read" /\ scan'.todo = scan.todo \ {p} /\ scan'.seen = seen
        /\ scan'.old = scan.old /\ scan'.committed = scan.committed
    BY <1>1, <2>1, <2>2
  <2>4. scan.todo \ {p} \in SUBSET watched /\ seen \in Baselines
    BY <1>3, <2>2
  <2>5. scan' \in [pc: {"idle", "read", "compare"}, todo: SUBSET watched,
                   seen: Baselines, old: Baselines, committed: Baselines]
    BY <2>1, <2>2, <2>4
  <2> QED BY <2>3, <2>5
<1>5. ScanSound' /\ BaselineFollows'
  BY <1>1, <1>3, <1>4, IntegrityTypes DEF ScanSound, BaselineFollows
<1>6. p \notin DOMAIN scan.seen
  BY <1>1 DEF ScanSound
<1>7. /\ changes[p] + Apart(seen[p], file[p]) <= edits[p]
      /\ p \in DOMAIN scan.old =>
           changes[p] + Apart(scan.old[p], seen[p]) + Apart(seen[p], file[p]) <= edits[p]
  <2>1. Apart(seen[p], file[p]) = 0 /\ changes[p] <= edits[p]
    BY <1>1, <1>3, ApartRange DEF NoFalseAlarm
  <2>2. p \in DOMAIN scan.old => changes[p] + Apart(scan.old[p], seen[p]) <= edits[p]
    BY <1>1, <1>3 DEF ScanSound, AlarmSound
  <2> QED BY <1>1, <2>1, <2>2, IntegrityTypes, ApartRange
<1>8. ASSUME NEW q \in DOMAIN seen
      PROVE  /\ changes[q] + Apart(seen[q], file[q]) <= edits[q]
             /\ q \in DOMAIN scan.old =>
                  changes[q] + Apart(scan.old[q], seen[q]) + Apart(seen[q], file[q]) <= edits[q]
  BY <1>1, <1>3, <1>7 DEF AlarmSound
<1> QED BY <1>1, <1>4, <1>5, <1>8, ScanMoves

LEMMA FinishReadingStep ==
  ASSUME IntegrityInvariant, FinishReading
  PROVE  IntegrityInvariant'
<1>1. /\ UNCHANGED <<file, watched, spool, stored, edits, changes>>
      /\ scan.pc = "read" /\ scan.todo = {}
      /\ IntegrityTypeOK /\ ScanSound /\ AlarmSound
  BY DEF FinishReading, IntegrityInvariant
<1>2. CASE scan.old = NoBaseline
  <2>1. baseline' = scan.seen /\ scan' = Idle
    BY <1>2 DEF FinishReading
  <2> QED BY <1>1, <2>1, IntegrityTypes, ToIdle DEF AlarmSound, IntegrityTypeOK
<1>3. CASE scan.old # NoBaseline
  <2>1. PICK c : /\ scan' = c /\ c.pc = "compare" /\ c.todo = watched /\ c.seen = scan.seen
                 /\ c.old = scan.old /\ c.committed = scan.committed
                 /\ c \in [pc: {"idle", "read", "compare"}, todo: SUBSET watched,
                           seen: Baselines, old: Baselines, committed: Baselines]
    <3>1. scan' = [scan EXCEPT !.pc = "compare", !.todo = watched]
      BY <1>3 DEF FinishReading
    <3>2. scan \in [pc: {"idle", "read", "compare"}, todo: SUBSET watched,
                     seen: Baselines, old: Baselines, committed: Baselines]
      BY <1>1 DEF IntegrityTypeOK
    <3>3. /\ scan'.pc = "compare" /\ scan'.todo = watched /\ scan'.seen = scan.seen
          /\ scan'.old = scan.old /\ scan'.committed = scan.committed
      BY <3>1, <3>2
    <3>4. scan' \in [pc: {"idle", "read", "compare"}, todo: SUBSET watched,
                     seen: Baselines, old: Baselines, committed: Baselines]
      BY <3>1, <3>2
    <3> QED BY <3>3, <3>4
  <2>2. /\ DOMAIN scan.committed = watched \cap DOMAIN baseline
        /\ \A p \in watched \cap DOMAIN baseline : scan.committed[p] = baseline[p]
    BY <1>1, IntegrityTypes, BaselineRestricted DEF ScanSound
  <2>3. baseline' = baseline /\ scan.old = baseline /\ DOMAIN scan.seen = watched
    BY <1>1, <1>3 DEF FinishReading, ScanSound
  <2>4. ScanSound' /\ BaselineFollows'
    BY <1>1, <2>1, <2>2, <2>3 DEF ScanSound, BaselineFollows
  <2> QED BY <1>1, <2>1, <2>3, <2>4, ScanMoves DEF AlarmSound
<1> QED BY <1>2, <1>3

\* What comparing a path adds to the baseline that will be committed.
LEMMA ObservedState ==
  ASSUME IntegrityInvariant, scan.pc = "compare", NEW p \in scan.todo
  PROVE  /\ Observed(p) \in Baselines
         /\ DOMAIN Observed(p) = DOMAIN scan.committed \cup {p}
         /\ Observed(p)[p] = scan.seen[p]
         /\ \A q \in DOMAIN scan.committed : q # p => Observed(p)[q] = scan.committed[q]
         /\ p \in Paths /\ p \in watched /\ p \in DOMAIN scan.seen
<1>1. /\ p \in Paths /\ p \in watched /\ p \in DOMAIN scan.seen /\ scan.seen[p] \in States
      /\ scan.committed \in Baselines
  <2>1. IntegrityTypeOK /\ ScanSound
    BY DEF IntegrityInvariant
  <2>2. p \in watched /\ p \in Paths /\ p \in DOMAIN scan.seen
    BY <2>1, IntegrityTypes DEF ScanSound
  <2>3. scan.seen \in Baselines /\ scan.committed \in Baselines
    BY <2>1, IntegrityTypes
  <2> QED BY <2>2, <2>3, BaselineType
<1> QED BY <1>1, BaselineExtended DEF Observed

\* The scan after the comparison of p.
LEMMA ComparedSound ==
  ASSUME IntegrityInvariant, scan.pc = "compare", NEW p \in scan.todo,
         NEW c, c.pc = "compare", c.todo = scan.todo \ {p}, c.seen = scan.seen, c.old = scan.old,
         c.committed = Observed(p), scan' = c, watched' = watched
  PROVE  ScanSound'
<1>1. ScanSound /\ scan.todo \subseteq watched
  BY IntegrityTypes DEF IntegrityInvariant
<1>2. PICK b : b = Observed(p)
  OBVIOUS
<1>3. /\ DOMAIN b = DOMAIN scan.committed \cup {p} /\ b[p] = scan.seen[p]
      /\ \A q \in DOMAIN scan.committed : q # p => b[q] = scan.committed[q]
      /\ p \in watched
  BY <1>2, ObservedState
<1>4. /\ DOMAIN scan.seen = watched
      /\ DOMAIN scan.committed = (watched \ scan.todo) \cup (watched \cap DOMAIN scan.old)
      /\ \A q \in watched \ scan.todo : scan.committed[q] = scan.seen[q]
      /\ \A q \in scan.todo \cap DOMAIN scan.old : scan.committed[q] = scan.old[q]
  BY <1>1 DEF ScanSound
<1>5. DOMAIN b = (watched \ c.todo) \cup (watched \cap DOMAIN scan.old)
  BY <1>3, <1>4
<1>6. \A q \in watched \ c.todo : b[q] = scan.seen[q]
  BY <1>3, <1>4
<1>7. \A q \in c.todo \cap DOMAIN scan.old : b[q] = scan.old[q]
  BY <1>1, <1>3, <1>4
<1> QED BY <1>2, <1>4, <1>5, <1>6, <1>7 DEF ScanSound

LEMMA PassStep ==
  ASSUME IntegrityInvariant, NEW p \in Paths, Pass(p)
  PROVE  IntegrityInvariant'
<1>1. /\ UNCHANGED <<file, watched, baseline, spool, stored, edits, changes>>
      /\ scan.pc = "compare" /\ p \in scan.todo /\ ~Differs(p)
      /\ IntegrityTypeOK /\ ScanSound /\ AlarmSound /\ BaselineFollows
  BY DEF Pass, IntegrityInvariant
<1>2. PICK c : /\ scan' = c /\ c.pc = "compare" /\ c.todo = scan.todo \ {p} /\ c.seen = scan.seen
               /\ c.old = scan.old /\ c.committed = Observed(p)
               /\ c \in [pc: {"idle", "read", "compare"}, todo: SUBSET watched,
                         seen: Baselines, old: Baselines, committed: Baselines]
  <2>1. scan' = [scan EXCEPT !.todo = scan.todo \ {p}, !.committed = Observed(p)]
    BY DEF Pass
  <2>2. scan \in [pc: {"idle", "read", "compare"}, todo: SUBSET watched,
                   seen: Baselines, old: Baselines, committed: Baselines]
    BY <1>1 DEF IntegrityTypeOK
  <2>3. Observed(p) \in Baselines
    BY <1>1, ObservedState
  <2>4. /\ scan'.pc = "compare" /\ scan'.todo = scan.todo \ {p} /\ scan'.seen = scan.seen
        /\ scan'.old = scan.old /\ scan'.committed = Observed(p)
    BY <1>1, <2>1, <2>2
  <2>5. scan' \in [pc: {"idle", "read", "compare"}, todo: SUBSET watched,
                   seen: Baselines, old: Baselines, committed: Baselines]
    BY <2>1, <2>2, <2>3
  <2> QED BY <2>4, <2>5
<1>3. ScanSound'
  BY <1>1, <1>2, ComparedSound
<1>4. BaselineFollows'
  <2>1. p \in DOMAIN baseline => baseline[p] = Observed(p)[p]
    <3>1. p \in DOMAIN baseline => p \in DOMAIN scan.committed /\ baseline[p] = scan.committed[p]
      BY <1>1, ObservedState DEF BaselineFollows
    <3>2. p \in DOMAIN scan.committed => p \in DOMAIN scan.old /\ scan.committed[p] = scan.old[p]
      BY <1>1 DEF ScanSound
    <3> QED BY <1>1, <3>1, <3>2, ObservedState DEF Differs
  <2>2. /\ DOMAIN Observed(p) = DOMAIN scan.committed \cup {p}
        /\ \A q \in DOMAIN scan.committed : q # p => Observed(p)[q] = scan.committed[q]
    BY <1>1, ObservedState
  <2>3. \A q \in watched \cap DOMAIN baseline :
          q \in DOMAIN Observed(p) /\ baseline[q] = Observed(p)[q]
    BY <1>1, <2>1, <2>2 DEF BaselineFollows
  <2>4. /\ watched' = watched /\ baseline' = baseline /\ scan'.committed = Observed(p)
    BY <1>1, <1>2
  <2> QED BY <2>3, <2>4 DEF BaselineFollows
<1> QED BY <1>1, <1>2, <1>3, <1>4, ScanMoves DEF AlarmSound

\* The committed baseline is one of states the scan has seen and old ones.
LEMMA CommittedSound ==
  ASSUME IntegrityInvariant, scan.pc = "compare", NEW q \in DOMAIN scan.committed
  PROVE  changes[q] + Apart(scan.committed[q], file[q]) <= edits[q]
<1>1. IntegrityTypeOK /\ ScanSound /\ AlarmSound
  BY DEF IntegrityInvariant
<1>2. q \in Paths /\ q \in watched /\ q \in DOMAIN scan.seen
  BY <1>1, IntegrityTypes DEF ScanSound
<1>3. changes[q] \in Nat /\ edits[q] \in Nat
  BY <1>1, <1>2, IntegrityTypes
<1>4. CASE q \notin scan.todo
  BY <1>1, <1>2, <1>4 DEF ScanSound, AlarmSound
<1>5. CASE q \in scan.todo
  <2>1. q \in DOMAIN scan.old /\ scan.committed[q] = scan.old[q]
    BY <1>1, <1>2, <1>5 DEF ScanSound
  <2>2. changes[q] + Apart(scan.old[q], scan.seen[q]) + Apart(scan.seen[q], file[q]) <= edits[q]
    BY <1>1, <1>2, <1>5, <2>1 DEF AlarmSound
  <2>3. /\ Apart(scan.old[q], file[q]) <= Apart(scan.old[q], scan.seen[q]) + Apart(scan.seen[q], file[q])
        /\ Apart(scan.old[q], file[q]) \in Int /\ Apart(scan.old[q], scan.seen[q]) \in Int
        /\ Apart(scan.seen[q], file[q]) \in Int
    BY ApartRange
  <2> QED BY <1>3, <2>1, <2>2, <2>3
<1> QED BY <1>4, <1>5

\* A change is reported only if an edit came between the two states, which no
\* report has counted yet.
LEMMA ReportStep ==
  ASSUME IntegrityInvariant, NEW p \in Paths, Report(p)
  PROVE  IntegrityInvariant'
<1>1. /\ UNCHANGED <<file, watched, stored, edits>>
      /\ scan.pc = "compare" /\ p \in scan.todo /\ Differs(p)
      /\ IntegrityTypeOK /\ ScanSound /\ AlarmSound /\ NoFalseAlarm
  BY DEF Report, IntegrityInvariant
<1>2. CASE scan' = Idle /\ UNCHANGED <<baseline, spool, changes>>
  BY <1>1, <1>2, ToIdle DEF IntegrityTypeOK, AlarmSound
<1>3. CASE /\ Observed(p) \in spool \/ Cardinality(spool) < Capacity
           /\ spool' = spool \cup {Observed(p)}
           /\ baseline' = Observed(p)
           /\ scan' = [scan EXCEPT !.todo = @ \ {p}, !.committed = Observed(p)]
           /\ changes' = [changes EXCEPT ![p] = @ + 1]
  <2> PICK b : b = Observed(p)
    OBVIOUS
  <2>1. /\ b \in Baselines /\ DOMAIN b = DOMAIN scan.committed \cup {p} /\ b[p] = scan.seen[p]
        /\ \A q \in DOMAIN scan.committed : q # p => b[q] = scan.committed[q]
        /\ p \in watched /\ p \in DOMAIN scan.seen
    BY <1>1, ObservedState
  <2>2. PICK c : c = scan'
    OBVIOUS
  <2>3. /\ c.pc = "compare" /\ c.todo = scan.todo \ {p} /\ c.seen = scan.seen
        /\ c.old = scan.old /\ c.committed = b
        /\ c \in [pc: {"idle", "read", "compare"}, todo: SUBSET watched,
                  seen: Baselines, old: Baselines, committed: Baselines]
    <3>1. scan \in [pc: {"idle", "read", "compare"}, todo: SUBSET watched,
                    seen: Baselines, old: Baselines, committed: Baselines]
      BY <1>1 DEF IntegrityTypeOK
    <3>2. c = [scan EXCEPT !.todo = scan.todo \ {p}, !.committed = b]
      BY <1>3, <2>2
    <3> QED BY <1>1, <2>1, <3>1, <3>2
  <2>4. /\ changes \in [Paths -> Nat] /\ edits \in [Paths -> 0..MaxEdits]
        /\ changes' \in [Paths -> Nat] /\ changes'[p] = changes[p] + 1
        /\ \A q \in Paths : q # p => changes'[q] = changes[q]
    BY <1>1, <1>3 DEF IntegrityTypeOK
  <2>5. spool' \subseteq Baselines /\ IsFiniteSet(spool') /\ Cardinality(spool') <= Capacity
    <3>1. spool \subseteq Baselines /\ IsFiniteSet(spool) /\ Cardinality(spool) <= Capacity
      BY <1>1 DEF IntegrityTypeOK
    <3>2. CASE b \in spool
      BY <1>3, <3>1, <3>2
    <3>3. CASE b \notin spool
      <4>1. Cardinality(spool) < Capacity /\ spool' = spool \cup {b}
        BY <1>3, <3>3
      <4>2. Cardinality(spool') = Cardinality(spool) + 1 /\ IsFiniteSet(spool')
        BY <3>1, <3>3, <4>1, FS_AddElement
      <4>3. Cardinality(spool) \in Nat
        BY <3>1, FS_CardinalityType
      <4> QED BY <2>1, <3>1, <4>1, <4>2, <4>3, IntegrityParameters
    <3> QED BY <3>2, <3>3
  <2>6. IntegrityTypeOK'
    BY <1>1, <1>3, <2>1, <2>2, <2>3, <2>4, <2>5 DEF IntegrityTypeOK
  <2>7. ScanSound'
    BY <1>1, <2>2, <2>3, ComparedSound
  <2>8. BaselineFollows'
    <3>1. baseline' = scan'.committed /\ watched \cap DOMAIN b \subseteq DOMAIN b
      BY <1>3, <2>2, <2>3
    <3> QED BY <3>1 DEF BaselineFollows
  <2>9. changes'[p] + Apart(scan.seen[p], file[p]) <= edits[p]
    <3>1. /\ p \in DOMAIN scan.old
          /\ Apart(scan.old[p], scan.seen[p]) = 1 /\ Apart(scan.seen[p], file[p]) \in 0..1
      BY <1>1, ApartRange DEF Differs
    <3>2. changes[p] + Apart(scan.old[p], scan.seen[p]) + Apart(scan.seen[p], file[p]) <= edits[p]
      BY <1>1, <2>1, <3>1 DEF AlarmSound
    <3> QED BY <2>4, <3>1, <3>2
  <2>10. AlarmSound'
    <3>1. ASSUME NEW q \in DOMAIN b
          PROVE  changes'[q] + Apart(b[q], file[q]) <= edits[q]
      <4>1. CASE q = p
        BY <2>1, <2>9, <4>1
      <4>2. CASE q # p
        <5>1. q \in DOMAIN scan.committed /\ b[q] = scan.committed[q] /\ q \in Paths
          BY <1>1, <2>1, <4>2, IntegrityTypes, BaselineType
        <5> QED BY <1>1, <2>4, <4>2, <5>1, CommittedSound
      <4> QED BY <4>1, <4>2
    <3>2. ASSUME NEW q \in DOMAIN scan.seen
          PROVE  /\ changes'[q] + Apart(scan.seen[q], file[q]) <= edits[q]
                 /\ q \in DOMAIN scan.old /\ q \in scan.todo \ {p} =>
                      changes'[q] + Apart(scan.old[q], scan.seen[q]) + Apart(scan.seen[q], file[q]) <= edits[q]
      <4>1. q \in Paths
        BY <1>1, IntegrityTypes
      <4>2. CASE q = p
        BY <2>9, <4>2
      <4>3. CASE q # p
        BY <1>1, <2>4, <4>1, <4>3 DEF AlarmSound
      <4> QED BY <4>2, <4>3
    <3>3. baseline' = b /\ scan' = c /\ UNCHANGED <<file, edits>>
      BY <1>1, <1>3, <2>2
    <3> QED BY <2>3, <3>1, <3>2, <3>3 DEF AlarmSound
  <2>11. NoFalseAlarm'
    <3>1. changes'[p] <= edits[p]
      BY <2>4, <2>9, ApartRange
    <3> QED BY <1>1, <2>4, <3>1 DEF NoFalseAlarm
  <2> QED BY <2>6, <2>7, <2>8, <2>10, <2>11 DEF IntegrityInvariant
<1> QED BY <1>2, <1>3 DEF Report

LEMMA EndScanStep ==
  ASSUME IntegrityInvariant, EndScan
  PROVE  IntegrityInvariant'
<1>1. /\ UNCHANGED <<file, watched, spool, stored, edits, changes>> /\ scan' = Idle
      /\ scan.pc = "compare" /\ baseline' \in {scan.committed, baseline}
      /\ IntegrityTypeOK /\ AlarmSound
  BY DEF EndScan, IntegrityInvariant
<1>2. \A p \in DOMAIN baseline' : changes[p] + Apart(baseline'[p], file[p]) <= edits[p]
  BY <1>1, CommittedSound DEF AlarmSound
<1> QED BY <1>1, <1>2, IntegrityTypes, ToIdle DEF IntegrityTypeOK

LEMMA RestartStep ==
  ASSUME IntegrityInvariant, Restart
  PROVE  IntegrityInvariant'
  BY ToIdle DEF Restart, IntegrityInvariant, IntegrityTypeOK, AlarmSound

LEMMA StoreEventStep ==
  ASSUME IntegrityInvariant, StoreEvent
  PROVE  IntegrityInvariant'
<1>1. UNCHANGED <<file, watched, scan, baseline, edits, changes>> /\ IntegrityTypeOK
  BY DEF StoreEvent, IntegrityInvariant
<1>2. PICK id \in spool : spool' = spool \ {id} /\ stored' = stored \cup {id}
  BY DEF StoreEvent
<1>3. /\ spool \subseteq Baselines /\ stored \subseteq Baselines
      /\ IsFiniteSet(spool) /\ Cardinality(spool) <= Capacity
  BY <1>1 DEF IntegrityTypeOK
<1>4. /\ IsFiniteSet(spool') /\ Cardinality(spool') <= Capacity
  <2>1. IsFiniteSet(spool') /\ Cardinality(spool') = Cardinality(spool) - 1
    BY <1>2, <1>3, FS_RemoveElement
  <2> QED BY <1>3, <2>1, FS_CardinalityType, IntegrityParameters
<1>5. IntegrityTypeOK'
  BY <1>1, <1>2, <1>3, <1>4 DEF IntegrityTypeOK
<1>6. ScanSound' /\ BaselineFollows' /\ NoFalseAlarm' /\ AlarmSound'
  BY <1>1 DEF IntegrityInvariant, ScanSound, BaselineFollows, NoFalseAlarm, AlarmSound
<1> QED BY <1>5, <1>6 DEF IntegrityInvariant

\* An edit makes a state at most one edit more apart from the file's.
LEMMA EditFileStep ==
  ASSUME IntegrityInvariant, NEW p \in Paths, Edit(p)
  PROVE  IntegrityInvariant'
<1>1. /\ UNCHANGED <<watched, scan, baseline, spool, stored, changes>>
      /\ edits[p] < MaxEdits /\ edits' = [edits EXCEPT ![p] = @ + 1]
      /\ IntegrityTypeOK /\ AlarmSound /\ NoFalseAlarm
  BY DEF Edit, IntegrityInvariant
<1>2. PICK s \in States : file' = [file EXCEPT ![p] = s]
  BY DEF Edit
<1>3. /\ file' \in [Paths -> States] /\ edits' \in [Paths -> 0..MaxEdits]
      /\ edits'[p] = edits[p] + 1
      /\ \A q \in Paths : q # p => edits'[q] = edits[q] /\ file'[q] = file[q]
      /\ \A q \in Paths : edits[q] \in Nat /\ changes[q] \in Nat
  BY <1>1, <1>2, IntegrityParameters DEF IntegrityTypeOK
<1>4. IntegrityTypeOK'
  BY <1>1, <1>3 DEF IntegrityTypeOK
<1>5. ASSUME NEW q \in Paths, NEW n \in Int, NEW t, n + Apart(t, file[q]) <= edits[q]
      PROVE  n + Apart(t, file'[q]) <= edits'[q]
  <2>1. edits[q] \in Int /\ edits'[q] \in Int
    BY <1>3
  <2>2. CASE q = p
    <3>1. Apart(t, file'[q]) <= 1 /\ Apart(t, file[q]) >= 0
          /\ Apart(t, file'[q]) \in Int /\ Apart(t, file[q]) \in Int
      BY ApartRange
    <3> QED BY <1>3, <1>5, <2>1, <2>2, <3>1
  <2>3. CASE q # p
    BY <1>3, <1>5, <2>3
  <2> QED BY <2>2, <2>3
<1>6. AlarmSound'
  <2>1. DOMAIN baseline \subseteq Paths /\ DOMAIN scan.seen \subseteq Paths
    BY <1>1, IntegrityTypes
  <2>2. ASSUME NEW q \in DOMAIN baseline
        PROVE  changes[q] + Apart(baseline[q], file'[q]) <= edits'[q]
    BY <1>1, <1>3, <1>5, <2>1 DEF AlarmSound
  <2>3. ASSUME NEW q \in DOMAIN scan.seen, scan.pc # "idle"
        PROVE  /\ changes[q] + Apart(scan.seen[q], file'[q]) <= edits'[q]
               /\ q \in DOMAIN scan.old /\ (scan.pc = "read" \/ q \in scan.todo) =>
                    changes[q] + Apart(scan.old[q], scan.seen[q]) + Apart(scan.seen[q], file'[q]) <= edits'[q]
    <3>1. changes[q] \in Int /\ changes[q] + Apart(scan.old[q], scan.seen[q]) \in Int
      BY <1>3, <2>1, ApartRange
    <3> QED BY <1>1, <1>5, <2>1, <2>3, <3>1 DEF AlarmSound
  <2> QED BY <1>1, <2>2, <2>3 DEF AlarmSound
<1>7. NoFalseAlarm'
  BY <1>1, <1>3 DEF NoFalseAlarm
<1>8. ScanSound' /\ BaselineFollows'
  BY <1>1 DEF IntegrityInvariant, ScanSound, BaselineFollows
<1> QED BY <1>4, <1>6, <1>7, <1>8 DEF IntegrityInvariant

-----------------------------------------------------------------------------
(* The specification of the integrity source *)

LEMMA IntegrityInitStep ==
  ASSUME IntegrityInit
  PROVE  IntegrityInvariant
<1>1. /\ file \in [Paths -> States] /\ watched \in (SUBSET Paths) \ {{}} /\ scan = Idle
      /\ baseline = NoBaseline /\ spool = {} /\ stored = {}
      /\ edits = [p \in Paths |-> 0] /\ changes = [p \in Paths |-> 0]
  BY DEF IntegrityInit
<1>2. /\ scan.pc = "idle"
      /\ scan \in [pc: {"idle", "read", "compare"}, todo: SUBSET watched,
                   seen: Baselines, old: Baselines, committed: Baselines]
  BY <1>1, NoBaselineType DEF Idle, Scan
<1>3. IsFiniteSet(spool) /\ Cardinality(spool) <= Capacity
  BY <1>1, FS_EmptySet, IntegrityParameters
<1>4. edits \in [Paths -> 0..MaxEdits] /\ changes \in [Paths -> Nat]
  BY <1>1, IntegrityParameters
<1>5. IntegrityTypeOK
  BY <1>1, <1>2, <1>3, <1>4, NoBaselineType DEF IntegrityTypeOK
<1>6. ScanSound /\ BaselineFollows /\ NoFalseAlarm /\ AlarmSound
  BY <1>1, <1>2, NoBaselineType DEF ScanSound, BaselineFollows, NoFalseAlarm, AlarmSound
<1> QED BY <1>5, <1>6 DEF IntegrityInvariant

\* The inductive invariant of the integrity source holds in every reachable state.
THEOREM IntegrityInvariantHolds == IntegritySpec => []IntegrityInvariant
<1>1. IntegrityInit => IntegrityInvariant
  BY IntegrityInitStep
<1>2. IntegrityInvariant /\ [IntegrityNext]_integrityVars => IntegrityInvariant'
  <2> SUFFICES ASSUME IntegrityInvariant, [IntegrityNext]_integrityVars
               PROVE  IntegrityInvariant'
    OBVIOUS
  <2>1. CASE UNCHANGED integrityVars
    BY <2>1 DEF integrityVars, IntegrityInvariant, IntegrityTypeOK, ScanSound, BaselineFollows,
       NoFalseAlarm, AlarmSound
  <2> QED BY <2>1, BeginScanStep, ReadStep, FinishReadingStep, PassStep, ReportStep, EndScanStep,
     RestartStep, StoreEventStep, EditFileStep DEF IntegrityNext, ScanStep
<1> QED BY <1>1, <1>2, PTL DEF IntegritySpec

\* The state of the source has its type and the spool keeps its capacity.
THEOREM IntegrityTypeCorrect == IntegritySpec => []IntegrityTypeOK
<1>1. IntegrityInvariant => IntegrityTypeOK
  BY DEF IntegrityInvariant
<1> QED BY <1>1, IntegrityInvariantHolds, PTL

\* A file is never reported more often than it was changed, whenever scans are
\* cut short and whatever the configuration (FileIntegritySource._scan).
THEOREM AlarmsAreChanges == IntegritySpec => []NoFalseAlarm
<1>1. IntegrityInvariant => NoFalseAlarm
  BY DEF IntegrityInvariant
<1> QED BY <1>1, IntegrityInvariantHolds, PTL

-----------------------------------------------------------------------------
(* The baseline moves with a report *)

\* What a step may do to the baseline.
BaselineKept ==
  /\ \A p \in DOMAIN baseline \cap DOMAIN baseline' :
       baseline'[p] # baseline[p] => changes'[p] > changes[p]
  /\ (DOMAIN baseline \ DOMAIN baseline') \cap watched = {}

\* Reading has no baseline to lose: it makes the first one.
LEMMA FinishReadingMoves ==
  ASSUME IntegrityInvariant, FinishReading
  PROVE  BaselineKept
<1>1. scan.pc = "read" /\ ScanSound
  BY DEF FinishReading, IntegrityInvariant
<1>2. scan.old = baseline
  BY <1>1 DEF ScanSound
<1>3. CASE scan.old = NoBaseline
  <2>1. DOMAIN baseline = {}
    BY <1>2, <1>3, NoBaselineType
  <2> QED BY <2>1 DEF BaselineKept
<1>4. CASE scan.old # NoBaseline
  <2>1. baseline' = baseline
    BY <1>4 DEF FinishReading
  <2> QED BY <2>1 DEF BaselineKept
<1> QED BY <1>3, <1>4

\* A report moves the state of its path alone, and counts the change.
LEMMA ReportMoves ==
  ASSUME IntegrityInvariant, NEW p \in Paths, Report(p)
  PROVE  BaselineKept
<1>1. /\ scan.pc = "compare" /\ p \in scan.todo /\ IntegrityTypeOK /\ BaselineFollows
  BY DEF Report, IntegrityInvariant
<1>2. CASE baseline' = Observed(p) /\ changes' = [changes EXCEPT ![p] = @ + 1]
  <2>1. PICK o : o = Observed(p)
    OBVIOUS
  <2>2. /\ DOMAIN o = DOMAIN scan.committed \cup {p}
        /\ \A q \in DOMAIN scan.committed : q # p => o[q] = scan.committed[q]
    BY <2>1 DEF Observed, With
  <2>3. /\ watched \cap DOMAIN baseline \subseteq DOMAIN scan.committed
        /\ \A q \in watched \cap DOMAIN baseline : baseline[q] = scan.committed[q]
    BY <1>1 DEF BaselineFollows
  <2>4. baseline' = o
    BY <1>2, <2>1
  <2>5. (DOMAIN baseline \ DOMAIN o) \cap watched = {}
    BY <2>2, <2>3
  <2>6. changes'[p] > changes[p]
    BY <1>1, <1>2 DEF IntegrityTypeOK
  <2>7. DOMAIN scan.committed \subseteq watched
    BY <1>1, IntegrityTypes DEF IntegrityInvariant, ScanSound
  <2>8. \A q \in DOMAIN baseline \cap DOMAIN o : o[q] # baseline[q] => q = p
    BY <2>2, <2>3, <2>7
  <2> QED BY <2>4, <2>5, <2>6, <2>8 DEF BaselineKept
<1>3. CASE UNCHANGED baseline
  BY <1>3 DEF BaselineKept
<1> QED BY <1>2, <1>3 DEF Report

\* What a scan commits at its end covers every watched path of the baseline.
LEMMA EndScanMoves ==
  ASSUME IntegrityInvariant, EndScan
  PROVE  BaselineKept
<1>1. scan.pc = "compare" /\ ScanSound /\ BaselineFollows /\ IntegrityTypeOK
  BY DEF EndScan, IntegrityInvariant
<1>2. DOMAIN scan.committed \subseteq watched
  BY <1>1, IntegrityTypes DEF ScanSound
<1>3. /\ watched \cap DOMAIN baseline \subseteq DOMAIN scan.committed
      /\ \A q \in watched \cap DOMAIN baseline : baseline[q] = scan.committed[q]
  BY <1>1 DEF BaselineFollows
<1>4. baseline' = scan.committed \/ baseline' = baseline
  BY DEF EndScan
<1> QED BY <1>2, <1>3, <1>4 DEF BaselineKept

LEMMA IntegrityStepMoves ==
  ASSUME IntegrityInvariant, [IntegrityNext]_integrityVars
  PROVE  BaselineKept
<1>1. CASE UNCHANGED baseline
  BY <1>1 DEF BaselineKept
<1>2. CASE FinishReading
  BY <1>2, FinishReadingMoves
<1>3. CASE EndScan
  BY <1>3, EndScanMoves
<1>4. CASE \E p \in Paths : Report(p)
  BY <1>4, ReportMoves
<1>5. UNCHANGED baseline \/ FinishReading \/ EndScan \/ \E p \in Paths : Report(p)
  BY DEF IntegrityNext, ScanStep, BeginScan, Read, Pass, StoreEvent, Restart, Edit, integrityVars
<1> QED BY <1>1, <1>2, <1>3, <1>4, <1>5

\* A watched file's baseline moves, or goes away, only with the change having
\* been reported, whenever a scan is cut short (FileIntegritySource._scan).
THEOREM ChangesAreReported == IntegritySpec => NoChangeSwallowed
<1>1. IntegrityInvariant /\ [IntegrityNext]_integrityVars => [BaselineKept]_integrityVars
  BY IntegrityStepMoves
<1>2. IntegritySpec => [][BaselineKept]_integrityVars
  BY <1>1, IntegrityInvariantHolds, PTL DEF IntegritySpec
<1> QED BY <1>2 DEF NoChangeSwallowed, BaselineKept
=============================================================================
