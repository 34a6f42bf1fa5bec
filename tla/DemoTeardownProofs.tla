------------------------- MODULE DemoTeardownProofs -------------------------
(***************************************************************************)
(* Proofs about DemoTeardown, for every set of resources and every number  *)
(* of faults.                                                              *)
(*                                                                         *)
(* What the programs are is used through two facts only: what stands at a  *)
(* label (Site) and where it can go on (Flow).  At most one process moves  *)
(* at a time, so a step of one process leaves nothing to show of another.  *)
(***************************************************************************)
EXTENDS DemoTeardown, TLAPS

Programs == {Automated, Human, CleanInstall, Recovery}

\* What stands at label l of program P.
Site(P, l) ==
  /\ l \notin Ended
  /\ P[l].do = "child" <=> l = "child"
  /\ P[l].do = "reopen" <=> l = "reopen"
  /\ P[l].do = "create" <=> l = "new_ledger"
  /\ l = "mk_checkout" => P[l].do = "make" /\ P[l].on = "checkout"
  /\ P[l].do \in {"add", "make", "remove", "drop"} => P[l].on \in Artifacts
  /\ P[l].do \in {"await", "record", "poll", "clean", "confirm"} => P[l].on \in {"main", "restore"}
  /\ P[l].do = "ask" => P[l].on \subseteq Resources \ Foreign
  /\ l \in RestoreLabels => P[l].do \in {"await", "record", "poll", "clean", "confirm", "work"}
  /\ l \in AfterStop => P[l].do \in {"remove", "drop", "finish"}
  /\ l = "h_stop" => P[l].do = "clean" /\ P[l].on = "main"
  /\ l = "stop_restore" => P[l].do = "clean" /\ P[l].on = "restore"

\* Where program P goes on from label l: k is the next label or the one of an
\* exception.
Flow(P, l, k) ==
  /\ k \in DOMAIN P \cup {"exit"}
  /\ k # "mk_checkout"
  /\ k = "new_ledger" => l = "mk_checkout" /\ k # P[l].err
  /\ P[l].do = "finish" \/ (l = "mk_checkout" /\ k = P[l].err) => k = "exit"
  /\ k = "rm_early" => l = "new_ledger" /\ k # P[l].next
  /\ k = "child" => l = "add_checkout" /\ P[l].do = "add" /\ k # P[l].err
  /\ k = "reopen" => l = "child" \/ (P[l].do = "add" /\ k # P[l].next)
  /\ l = "child" => k = "reopen"
  /\ k \notin RestoreLabels /\ l \in RestoreLabels => l = "stop_restore"
  /\ k \in AfterStop => l \in AfterStop \cup {"h_stop"}
  /\ k \in DOMAIN P =>
       /\ P[k].do = "confirm" => P[l].do = "poll" /\ k # P[l].err
       /\ P[k].do = "drop" => P[l].do = "remove" /\ k # P[l].err /\ P[k].on = P[l].on
       /\ P[k].do = "await" => P[l].do = "ask" /\ P[l].on \subseteq Project(P[k].on)
       /\ P[k].do = "add" => /\ k # P[l].err
                             /\ \/ P[l].do = "make" /\ P[k].on = P[l].on
                                \/ l = "new_ledger" /\ k = "add_checkout"

LEMMA OwnResources == \A S \in {Foundation, ControlPlane, Restored} : S \subseteq Resources \ Foreign
BY DemoTeardownAssumption DEF Resources

LEMMA SitesOfPrograms ==
  ASSUME NEW P \in Programs, NEW l \in DOMAIN P
  PROVE  Site(P, l)
<1>1. CASE P = Automated
  <2>1. \A k \in DOMAIN Automated : Automated[k].do = "ask" =>
          Automated[k].on \in {Foundation, ControlPlane, Restored}
    BY DEF Automated, I
  <2>2. Automated[l].do = "ask" => Automated[l].on \subseteq Resources \ Foreign
    BY <1>1, <2>1, OwnResources
  <2>3. /\ l \notin Ended
        /\ Automated[l].do = "child" <=> l = "child"
        /\ Automated[l].do = "reopen" <=> l = "reopen"
        /\ Automated[l].do = "create" <=> l = "new_ledger"
        /\ l # "mk_checkout"
    BY <1>1 DEF Automated, I, Ended
  <2>4. /\ Automated[l].do \in {"add", "make", "remove", "drop"} => Automated[l].on \in Artifacts
        /\ Automated[l].do \in {"await", "record", "poll", "clean", "confirm"}
             => Automated[l].on \in {"main", "restore"}
    BY <1>1 DEF Automated, I, Artifacts
  <2>5. /\ l \in RestoreLabels
             => Automated[l].do \in {"await", "record", "poll", "clean", "confirm", "work"}
        /\ l \in AfterStop => Automated[l].do \in {"remove", "drop", "finish"}
        /\ l = "h_stop" => Automated[l].do = "clean" /\ Automated[l].on = "main"
        /\ l = "stop_restore" => Automated[l].do = "clean" /\ Automated[l].on = "restore"
    BY <1>1 DEF Automated, I, RestoreLabels, AfterStop
  <2> QED
    BY <1>1, <2>2, <2>3, <2>4, <2>5 DEF Site
<1>2. CASE P = Human
  <2>1. \A k \in DOMAIN Human : Human[k].do = "ask" =>
          Human[k].on \in {Foundation, ControlPlane, Restored}
    BY DEF Human, I
  <2>2. Human[l].do = "ask" => Human[l].on \subseteq Resources \ Foreign
    BY <1>2, <2>1, OwnResources
  <2> QED
    BY <1>2, <2>2 DEF Human, I, Site, Ended, Artifacts, RestoreLabels, AfterStop
<1>3. CASE P = CleanInstall
  BY <1>3 DEF CleanInstall, I, Site, Ended, Artifacts, RestoreLabels, AfterStop
<1>4. CASE P = Recovery
  BY <1>4 DEF Recovery, I, Site, Ended, Artifacts, RestoreLabels, AfterStop
<1> QED BY <1>1, <1>2, <1>3, <1>4 DEF Programs

LEMMA FlowsOfPrograms ==
  ASSUME NEW P \in Programs, NEW l \in DOMAIN P, NEW k \in {P[l].next, P[l].err}
  PROVE  Flow(P, l, k)
<1>1. CASE P = Automated
  <2>1. /\ k \in DOMAIN Automated \cup {"exit"}
        /\ Automated[l].do = "finish" => k = "exit"
        /\ l \notin {"mk_checkout", "child"}
        /\ k \notin {"mk_checkout", "new_ledger", "rm_early", "child", "reopen"}
        /\ k \notin RestoreLabels /\ l \in RestoreLabels => l = "stop_restore"
        /\ k \in AfterStop => l \in AfterStop \cup {"h_stop"}
    BY <1>1 DEF Automated, I, RestoreLabels, AfterStop
  <2>2. ASSUME k \in DOMAIN Automated
        PROVE  /\ Automated[k].do = "confirm" => Automated[l].do = "poll" /\ k # Automated[l].err
               /\ Automated[k].do = "drop" => /\ Automated[l].do = "remove" /\ k # Automated[l].err
                                              /\ Automated[k].on = Automated[l].on
               /\ Automated[k].do = "add" => /\ k # Automated[l].err
                                             /\ Automated[l].do = "make"
                                             /\ Automated[k].on = Automated[l].on
    BY <1>1, <2>2 DEF Automated, I
  <2>3. ASSUME k \in DOMAIN Automated, Automated[k].do = "await"
        PROVE  Automated[l].do = "ask" /\ Automated[l].on \subseteq Project(Automated[k].on)
    <3>1. /\ Automated[l].do = "ask"
          /\ \/ Automated[l].on = Restored /\ Automated[k].on = "restore"
             \/ Automated[l].on \in {Foundation, ControlPlane} /\ Automated[k].on = "main"
      BY <1>1, <2>3 DEF Automated, I
    <3> QED BY <3>1 DEF Project
  <2> QED
    BY <1>1, <2>1, <2>2, <2>3 DEF Flow
<1>2. CASE P = Human
  BY <1>2 DEF Human, I, Flow, RestoreLabels, AfterStop, Project
<1>3. CASE P = CleanInstall
  BY <1>3 DEF CleanInstall, I, Flow, RestoreLabels, AfterStop, Project
<1>4. CASE P = Recovery
  BY <1>4 DEF Recovery, I, Flow, RestoreLabels, AfterStop, Project
<1> QED BY <1>1, <1>2, <1>3, <1>4 DEF Programs

LEMMA HereSound ==
  ASSUME TypeOK, NEW p \in Processes, Running(p)
  PROVE  /\ at[p] \in DOMAIN Program(p)
         /\ Site(Program(p), at[p])
         /\ \A k \in {Here(p).next, Here(p).err} : Flow(Program(p), at[p], k)
<1>1. at[p] \in DOMAIN Program(p)
  BY DEF TypeOK
<1>2. Program(p) \in Programs
  BY DEF Program, Programs, Processes
<1> QED BY <1>1, <1>2, SitesOfPrograms, FlowsOfPrograms DEF Here

-----------------------------------------------------------------------------
(* Where a step leaves the processes *)

ControlOK ==
  /\ mode \in {"automated", "human", "clean"}
  /\ at \in [Processes -> Labels \cup Ended]
  /\ \A p \in Processes : Running(p) => at[p] \in DOMAIN Program(p)
  /\ clean \in [Processes -> Stages \cup (Resources \ Foreign)]
  /\ raised \in [Processes -> BOOLEAN] /\ failed \in [Processes -> BOOLEAN]
  /\ lapse \in BOOLEAN

DataOK ==
  /\ docker \subseteq Resources /\ daemon \subseteq Resources \ Foreign
  /\ files \subseteq Artifacts
  /\ ledger \in Ledgers /\ mem \in [Processes -> Ledgers]
  /\ own \in [Processes -> SUBSET Artifacts]
  /\ faults \in Nat

LEMMA TypeSplit == TypeOK <=> ControlOK /\ DataOK
BY DEF TypeOK, ControlOK, DataOK

Flags ==
  /\ raised \in [Processes -> BOOLEAN] /\ failed \in [Processes -> BOOLEAN]
  /\ lapse \in BOOLEAN

\* A step of p stays at its label, or goes on to one that the program names.
Stays(p) ==
  /\ at' = at
  /\ \E s \in Stages \cup (Resources \ Foreign) : clean' = [clean EXCEPT ![p] = s]

GoesOn(p) == \E k \in {Here(p).next, Here(p).err} : Goto(p, k)

Moves(p) == mode' = mode /\ Flags' /\ (Stays(p) \/ GoesOn(p))

LEMMA LabelsOfPrograms ==
  ASSUME NEW p \in Processes
  PROVE  DOMAIN Program(p) \subseteq Labels
BY DEF Program, Labels, Processes

LEMMA MovesKeepControl ==
  ASSUME TypeOK, NEW p \in Processes, Running(p), Moves(p)
  PROVE  ControlOK'
<1>1. mode' = mode /\ Flags'
  BY DEF Moves
<1>2. \A q \in Processes : Program(q)' = Program(q)
  BY <1>1 DEF Program
<1>3. CASE Stays(p)
  <2>1. at' = at /\ clean' \in [Processes -> Stages \cup (Resources \ Foreign)]
    BY <1>3 DEF Stays, TypeOK
  <2> QED BY <1>1, <1>2, <2>1 DEF ControlOK, TypeOK, Flags, Running
<1>4. CASE GoesOn(p)
  <2>1. PICK k \in {Here(p).next, Here(p).err} : Goto(p, k)
    BY <1>4 DEF GoesOn
  <2>2. k \in DOMAIN Program(p) \cup {"exit"}
    BY <2>1, HereSound DEF Flow
  <2>3. at' = [at EXCEPT ![p] = k] /\ clean' = [clean EXCEPT ![p] = "enter"]
    BY <2>1 DEF Goto
  <2>4. at' \in [Processes -> Labels \cup Ended]
    BY <2>2, <2>3, LabelsOfPrograms DEF TypeOK, Ended
  <2>5. clean' \in [Processes -> Stages \cup (Resources \ Foreign)]
    BY <2>3 DEF TypeOK, Stages
  <2>6. ASSUME NEW q \in Processes, Running(q)' PROVE at'[q] \in DOMAIN Program(q)'
    <3>1. CASE q = p
      BY <3>1, <2>2, <2>3, <2>6, <1>2 DEF TypeOK, Running, Ended
    <3>2. CASE q # p
      BY <3>2, <2>3, <2>6, <1>2 DEF TypeOK, Running
    <3> QED BY <3>1, <3>2
  <2> QED BY <1>1, <2>4, <2>5, <2>6 DEF ControlOK, TypeOK, Flags
<1> QED BY <1>3, <1>4 DEF Moves

LEMMA ProceedMoves ==
  ASSUME TypeOK, NEW p \in Processes, Proceed(p)
  PROVE  Moves(p) /\ GoesOn(p) /\ faults' = faults /\ lapse' = lapse /\ failed' = failed
BY DEF TypeOK, Proceed, Moves, GoesOn, Flags

LEMMA RaiseMoves ==
  ASSUME TypeOK, NEW p \in Processes, Raise(p)
  PROVE  Moves(p) /\ Goto(p, Here(p).err) /\ GoesOn(p)
<1>1. Goto(p, Here(p).err) /\ mode' = mode
  BY DEF Raise
<1>2. raised' \in [Processes -> BOOLEAN] /\ failed' \in [Processes -> BOOLEAN]
  BY DEF Raise, TypeOK
<1>3. lapse' \in BOOLEAN
  BY DEF Raise
<1> QED BY <1>1, <1>2, <1>3 DEF Moves, GoesOn, Flags

LEMMA StageMoves ==
  ASSUME TypeOK, NEW p \in Processes, NEW s \in Stages \cup (Resources \ Foreign), Stage(p, s)
  PROVE  Moves(p) /\ faults' = faults /\ at' = at
BY DEF TypeOK, Stage, Moves, Stays, Flags

-----------------------------------------------------------------------------
(* What a step writes *)

LEMMA WithResources ==
  ASSUME TypeOK, NEW p \in Processes, NEW R, R \subseteq Resources \ Foreign
  PROVE  /\ With(p, R) \in Ledgers
         /\ With(p, R).resources = R
         /\ With(p, R).artifacts = mem[p].artifacts /\ With(p, R).exists = mem[p].exists
BY DEF TypeOK, Ledgers, With

LEMMA WithArtifacts ==
  ASSUME TypeOK, NEW p \in Processes, NEW A, A \subseteq Artifacts
  PROVE  LET l == [mem[p] EXCEPT !.artifacts = A] IN
         l \in Ledgers /\ l.artifacts = A /\ l.resources = mem[p].resources /\ l.exists = mem[p].exists
BY DEF TypeOK, Ledgers

LEMMA CopyTyped ==
  ASSUME TypeOK, NEW p \in Processes
  PROVE  /\ mem[p] \in Ledgers
         /\ mem[p].resources \subseteq Resources \ Foreign /\ mem[p].artifacts \subseteq Artifacts
BY DEF TypeOK, Ledgers

LEMMA DiscoveredIsOwn ==
  ASSUME TypeOK, NEW name
  PROVE  Discovered(name) \subseteq (docker \cap Project(name)) \ Foreign
         /\ Discovered(name) \subseteq Resources \ Foreign
BY DEF TypeOK, Discovered, Listed

\* The write of a ledger, done or failed.
Stores(p, new) ==
  /\ mem' = [mem EXCEPT ![p] = new]
  /\ \/ ledger' = new /\ faults' = faults
     \/ ledger' = ledger /\ faults' = faults + 1 /\ Raise(p)

LEMMA StoresTyped ==
  ASSUME TypeOK, NEW p \in Processes, NEW new \in Ledgers, Stores(p, new)
  PROVE  ledger' \in Ledgers /\ mem' \in [Processes -> Ledgers] /\ faults' \in Nat
         /\ mem'[p] = new
BY DEF TypeOK, Stores

LEMMA WriteFailsStores ==
  ASSUME NEW p, NEW new, WriteFails(p, new)
  PROVE  Stores(p, new) /\ Raise(p)
BY DEF WriteFails, Stores

LEMMA WriteProceedStores ==
  ASSUME NEW p, NEW new, Write(p, new), Proceed(p)
  PROVE  Stores(p, new)
BY DEF Write, Proceed, Stores

LEMMA WriteStageStores ==
  ASSUME NEW p, NEW new, NEW s, Write(p, new), Stage(p, s)
  PROVE  Stores(p, new)
BY DEF Write, Stage, Stores

LEMMA RefuseKeepsData ==
  ASSUME NEW p, Refuse(p)
  PROVE  Raise(p) /\ UNCHANGED <<docker, daemon, files, ledger, mem, own, faults>>
BY DEF Refuse, world

\* A step that only writes the ledger, or nothing, is typed.
LEMMA DataKept ==
  ASSUME TypeOK, docker' \subseteq Resources, daemon' \subseteq daemon, files' \subseteq files,
         own' = own, UNCHANGED <<ledger, mem>>, faults' = faults
  PROVE  DataOK'
BY DEF TypeOK, DataOK

LEMMA DataStored ==
  ASSUME TypeOK, NEW p \in Processes, NEW new \in Ledgers, Stores(p, new),
         UNCHANGED <<docker, daemon, own>>, files' \subseteq files
  PROVE  DataOK'
BY StoresTyped DEF TypeOK, DataOK

-----------------------------------------------------------------------------
(* Every step keeps the types *)

LEMMA CreateTyped ==
  ASSUME TypeOK, NEW p \in Processes, Create(p)
  PROVE  Moves(p) /\ DataOK'
<1>1. Ledger({}, {}) \in Ledgers
  BY DEF Ledger, Ledgers
<1>2. Stores(p, Ledger({}, {})) /\ Moves(p)
  BY WriteProceedStores, ProceedMoves DEF Create
<1> QED BY <1>1, <1>2, DataStored DEF Create, world

LEMMA AddTyped ==
  ASSUME TypeOK, NEW p \in Processes, Add(p)
  PROVE  Moves(p) /\ DataOK'
<1>1. Here(p).on \in Artifacts
  BY HereSound DEF Add, Doing, Site, Here
<1>2. [mem[p] EXCEPT !.artifacts = @ \cup {Here(p).on}] \in Ledgers
  BY <1>1 DEF TypeOK, Ledgers
<1>3. Stores(p, [mem[p] EXCEPT !.artifacts = @ \cup {Here(p).on}]) /\ Moves(p)
  BY WriteProceedStores, WriteFailsStores, ProceedMoves, RaiseMoves DEF Add
<1> QED BY <1>2, <1>3, DataStored DEF Add, world

LEMMA DropTyped ==
  ASSUME TypeOK, NEW p \in Processes, Drop(p)
  PROVE  Moves(p) /\ DataOK'
<1>2. [mem[p] EXCEPT !.artifacts = @ \ {Here(p).on}] \in Ledgers
  BY DEF TypeOK, Ledgers
<1>3. CASE Refuse(p)
  BY <1>3, RefuseKeepsData, RaiseMoves, DataKept DEF TypeOK
<1>4. CASE ~Refuse(p)
  <2>1. Stores(p, [mem[p] EXCEPT !.artifacts = @ \ {Here(p).on}]) /\ Moves(p)
    BY <1>4, WriteProceedStores, WriteFailsStores, ProceedMoves, RaiseMoves DEF Drop
  <2> QED BY <1>2, <1>4, <2>1, DataStored DEF Drop, world
<1> QED BY <1>3, <1>4

LEMMA FinishTyped ==
  ASSUME TypeOK, NEW p \in Processes, Finish(p)
  PROVE  Moves(p) /\ DataOK'
<1>1. Moves(p) /\ faults' = faults
  BY ProceedMoves DEF Finish
<1>2. NoLedger \in Ledgers
  BY DEF NoLedger, Ledgers
<1> QED BY <1>1, <1>2 DEF Finish, world, TypeOK, DataOK

LEMMA AskTyped ==
  ASSUME TypeOK, NEW p \in Processes, Ask(p)
  PROVE  Moves(p) /\ DataOK'
<1>1. Moves(p) /\ faults' = faults
  BY ProceedMoves DEF Ask
<1>2. Here(p).on \subseteq Resources \ Foreign
  BY HereSound DEF Ask, Doing, Site, Here
<1> QED BY <1>1, <1>2 DEF Ask, TypeOK, DataOK

LEMMA AwaitTyped ==
  ASSUME TypeOK, NEW p \in Processes, Await(p)
  PROVE  Moves(p) /\ DataOK'
<1>1. Moves(p) /\ faults' \in Nat /\ daemon' \subseteq daemon
  BY ProceedMoves, RaiseMoves DEF Await, TypeOK
<1> QED BY <1>1 DEF Await, TypeOK, DataOK

LEMMA RecordedTyped ==
  ASSUME TypeOK, NEW p \in Processes, NEW name, Recorded(p, name)
  PROVE  LET new == With(p, (mem[p].resources \ Project(name)) \cup Discovered(name)) IN
         new \in Ledgers /\ Stores(p, new) /\ Moves(p)
<1>1. (mem[p].resources \ Project(name)) \cup Discovered(name) \subseteq Resources \ Foreign
  BY CopyTyped, DiscoveredIsOwn
<1>2. With(p, (mem[p].resources \ Project(name)) \cup Discovered(name)) \in Ledgers
  BY <1>1, WithResources
<1> QED
  BY <1>2, WriteProceedStores, WriteFailsStores, ProceedMoves, RaiseMoves DEF Recorded

LEMMA RecordTyped ==
  ASSUME TypeOK, NEW p \in Processes, Record(p)
  PROVE  Moves(p) /\ DataOK'
<1>1. CASE Recorded(p, Here(p).on) /\ UNCHANGED <<world, own>>
  BY <1>1, RecordedTyped, DataStored DEF world
<1>2. CASE Refuse(p)
  BY <1>2, RefuseKeepsData, RaiseMoves, DataKept DEF TypeOK
<1> QED BY <1>1, <1>2 DEF Record

LEMMA PollTyped ==
  ASSUME TypeOK, NEW p \in Processes, Poll(p)
  PROVE  Moves(p) /\ DataOK'
<1>1. UNCHANGED <<docker, daemon, files, own>>
  BY DEF Poll, world
<1>2. CASE Recorded(p, Here(p).on)
  BY <1>1, <1>2, RecordedTyped, DataStored
<1>3. CASE ledger' = mem[p] /\ UNCHANGED <<mem, faults>> /\ Raise(p)
  BY <1>1, <1>3, RaiseMoves, CopyTyped DEF TypeOK, DataOK
<1> QED BY <1>2, <1>3 DEF Poll

LEMMA CleanPhaseTyped ==
  ASSUME TypeOK, NEW p \in Processes, CleanPhase(p)
  PROVE  Moves(p) /\ DataOK' /\ Stores(p, mem[p])
<1>1. Stores(p, mem[p]) /\ Moves(p)
  BY WriteStageStores, WriteFailsStores, StageMoves, RaiseMoves DEF CleanPhase, Stages
<1> QED BY <1>1, CopyTyped, DataStored DEF CleanPhase, world

LEMMA CleanBeginTyped ==
  ASSUME TypeOK, NEW p \in Processes, CleanBegin(p)
  PROVE  Moves(p) /\ DataOK'
<1> DEFINE new == With(p, mem[p].resources \cup Discovered(Here(p).on))
<1>1. new \in Ledgers
  BY CopyTyped, DiscoveredIsOwn, WithResources
<1>2. CASE Write(p, new) /\ Stage(p, "each") /\ UNCHANGED <<world, own>>
  BY <1>1, <1>2, WriteStageStores, StageMoves, DataStored DEF Stages, world
<1>3. CASE WriteFails(p, new) /\ UNCHANGED <<world, own>>
  BY <1>1, <1>3, WriteFailsStores, RaiseMoves, DataStored DEF world
<1>4. CASE Stage(p, "missing") /\ UNCHANGED <<world, ledger, mem, own>>
  BY <1>4, StageMoves, DataKept DEF Stages, world, TypeOK
<1>5. CASE Refuse(p)
  BY <1>5, RefuseKeepsData, RaiseMoves, DataKept DEF TypeOK
<1> QED BY <1>2, <1>3, <1>4, <1>5 DEF CleanBegin

\* The ledger without one resource.
LEMMA WithoutTyped ==
  ASSUME TypeOK, NEW p \in Processes, NEW r
  PROVE  With(p, mem[p].resources \ {r}) \in Ledgers
<1>1. mem[p].resources \ {r} \subseteq Resources \ Foreign
  BY CopyTyped
<1> QED BY <1>1, WithResources

LEMMA CleanMissingTyped ==
  ASSUME TypeOK, NEW p \in Processes, CleanMissing(p)
  PROVE  Moves(p) /\ DataOK'
<1>1. ASSUME NEW r, UNCHANGED <<world, own>>,
             \/ Write(p, With(p, mem[p].resources \ {r})) /\ Stage(p, "missing")
             \/ WriteFails(p, With(p, mem[p].resources \ {r}))
      PROVE  Moves(p) /\ DataOK'
  <2>1. Stores(p, With(p, mem[p].resources \ {r})) /\ Moves(p)
    BY <1>1, WriteStageStores, WriteFailsStores, StageMoves, RaiseMoves DEF Stages
  <2> QED BY <1>1, <2>1, WithoutTyped, DataStored DEF world
<1>2. CASE Stage(p, "each") /\ UNCHANGED <<world, ledger, mem, own>>
  BY <1>2, StageMoves, DataKept DEF Stages, world, TypeOK
<1> QED BY <1>1, <1>2 DEF CleanMissing

LEMMA CleanEachTyped ==
  ASSUME TypeOK, NEW p \in Processes, CleanEach(p)
  PROVE  Moves(p) /\ DataOK'
<1>1. ASSUME NEW r \in First(Mine(p)), Delete(r), Stage(p, r), UNCHANGED <<daemon, files, ledger, mem, own>>
      PROVE  Moves(p) /\ DataOK'
  <2>1. r \in Resources \ Foreign
    BY CopyTyped DEF First, Mine
  <2>2. docker' \subseteq Resources
    BY <1>1 DEF Delete, TypeOK
  <2> QED BY <1>1, <2>1, <2>2, StageMoves, DataKept DEF TypeOK
<1>2. CASE Proceed(p) /\ UNCHANGED <<docker, daemon, files, ledger, mem, own>>
  BY <1>2, ProceedMoves, DataKept DEF TypeOK
<1>3. CASE Refuse(p)
  BY <1>3, RefuseKeepsData, RaiseMoves, DataKept DEF TypeOK
<1> QED BY <1>1, <1>2, <1>3 DEF CleanEach

LEMMA CleanRecordTyped ==
  ASSUME TypeOK, NEW p \in Processes, CleanRecord(p)
  PROVE  Moves(p) /\ DataOK'
<1>1. Stores(p, With(p, mem[p].resources \ {clean[p]})) /\ Moves(p)
  BY WriteStageStores, WriteFailsStores, StageMoves, RaiseMoves DEF CleanRecord, Stages
<1> QED BY <1>1, WithoutTyped, DataStored DEF CleanRecord, world

LEMMA MakeTyped ==
  ASSUME TypeOK, NEW p \in Processes, Make(p)
  PROVE  Moves(p) /\ DataOK'
<1>1. Here(p).on \in Artifacts
  BY HereSound DEF Make, Doing, Site, Here
<1>2. Moves(p) /\ faults' = faults
  BY ProceedMoves DEF Make
<1> QED BY <1>1, <1>2 DEF Make, TypeOK, DataOK

LEMMA WorkTyped ==
  ASSUME TypeOK, NEW p \in Processes, Work(p)
  PROVE  Moves(p) /\ DataOK'
BY ProceedMoves, DataKept DEF Work, world, TypeOK

LEMMA RemoveTyped ==
  ASSUME TypeOK, NEW p \in Processes, Remove(p)
  PROVE  Moves(p) /\ DataOK'
<1>1. CASE Here(p).on \in own[p]
  <2>1. Moves(p) /\ faults' = faults
    BY <1>1, ProceedMoves DEF Remove
  <2> QED BY <1>1, <2>1 DEF Remove, TypeOK, DataOK
<1>2. CASE Here(p).on \notin own[p]
  <2>1. Moves(p) /\ faults' = faults
    BY <1>2 DEF Remove, Moves, GoesOn, Flags, TypeOK
  <2> QED BY <1>2, <2>1 DEF Remove, TypeOK, DataOK
<1> QED BY <1>1, <1>2

LEMMA RemoveRecordedTyped ==
  ASSUME TypeOK, NEW p \in Processes, RemoveRecorded(p)
  PROVE  Moves(p) /\ DataOK'
<1>0. ASSUME UNCHANGED <<mode, at, clean, raised, failed, lapse>>
      PROVE  Moves(p)
  <2>1. clean' = [clean EXCEPT ![p] = clean[p]]
    BY <1>0 DEF TypeOK
  <2> QED BY <1>0, <2>1 DEF Moves, Stays, Flags, TypeOK
<1>1. UNCHANGED <<docker, daemon, own>>
  BY DEF RemoveRecorded
<1>2. ASSUME NEW f, files' = files \ {f},
             UNCHANGED <<mode, ledger, at, mem, clean, raised, failed, faults, lapse>>
      PROVE  Moves(p) /\ DataOK'
  BY <1>0, <1>1, <1>2, DataKept DEF TypeOK
<1>3. ASSUME NEW f, UNCHANGED files,
             LET new == [mem[p] EXCEPT !.artifacts = @ \ {f}] IN
             \/ Write(p, new) /\ UNCHANGED <<mode, at, clean, raised, failed, faults, lapse>>
             \/ WriteFails(p, new)
      PROVE  Moves(p) /\ DataOK'
  <2>1. [mem[p] EXCEPT !.artifacts = @ \ {f}] \in Ledgers
    BY DEF TypeOK, Ledgers
  <2>2. Stores(p, [mem[p] EXCEPT !.artifacts = @ \ {f}]) /\ Moves(p)
    BY <1>0, <1>3, WriteFailsStores, RaiseMoves DEF Write, Stores
  <2> QED BY <1>1, <1>3, <2>1, <2>2, DataStored
<1>4. CASE Proceed(p) /\ UNCHANGED <<files, ledger, mem>>
  BY <1>1, <1>4, ProceedMoves, DataKept DEF TypeOK
<1> QED BY <1>2, <1>3, <1>4 DEF RemoveRecorded

LEMMA ChildEndsTyped ==
  ASSUME TypeOK, NEW p \in Processes, ChildEnds(p)
  PROVE  Moves(p) /\ DataOK'
<1>1. CASE Proceed(p) /\ UNCHANGED <<world, ledger, mem, own>>
  BY <1>1, ProceedMoves, DataKept DEF world, TypeOK
<1>2. CASE Refuse(p)
  BY <1>2, RefuseKeepsData, RaiseMoves, DataKept DEF TypeOK
<1> QED BY <1>1, <1>2 DEF ChildEnds

LEMMA ReopenTyped ==
  ASSUME TypeOK, NEW p \in Processes, Reopen(p)
  PROVE  Moves(p) /\ DataOK'
<1>1. Moves(p)
  <2>1. GoesOn(p)
    BY DEF Reopen, GoesOn
  <2>2. raised' \in [Processes -> BOOLEAN] /\ failed' \in [Processes -> BOOLEAN] /\ lapse' \in BOOLEAN
    BY DEF Reopen, TypeOK
  <2> QED BY <2>1, <2>2 DEF Reopen, Moves, Flags
<1>2. mem' \in [Processes -> Ledgers]
  BY DEF Reopen, TypeOK
<1> QED BY <1>1, <1>2 DEF Reopen, world, TypeOK, DataOK

LEMMA FaultTyped ==
  ASSUME TypeOK, NEW p \in Processes, Fault(p)
  PROVE  Moves(p) /\ DataOK'
BY RaiseMoves DEF Fault, world, TypeOK, DataOK

\* The steps of a process other than starting the child.
Ordinary(p) ==
  \/ Create(p) \/ Add(p) \/ Drop(p) \/ Finish(p)
  \/ Ask(p) \/ Await(p) \/ Record(p) \/ Poll(p)
  \/ CleanPhase(p) \/ CleanBegin(p) \/ CleanMissing(p) \/ CleanEach(p) \/ CleanRecord(p)
  \/ Make(p) \/ Work(p) \/ Remove(p) \/ RemoveRecorded(p)
  \/ ChildEnds(p) \/ Reopen(p) \/ Fault(p)

LEMMA OrdinaryTyped ==
  ASSUME TypeOK, NEW p \in Processes, Ordinary(p)
  PROVE  Moves(p) /\ DataOK'
BY CreateTyped, AddTyped, DropTyped, FinishTyped, AskTyped, AwaitTyped, RecordTyped, PollTyped,
   CleanPhaseTyped, CleanBeginTyped, CleanMissingTyped, CleanEachTyped, CleanRecordTyped, MakeTyped,
   WorkTyped, RemoveTyped, RemoveRecordedTyped, ChildEndsTyped, ReopenTyped, FaultTyped
   DEF Ordinary

LEMMA OrdinaryRuns ==
  ASSUME TypeOK, NEW p \in Processes, Ordinary(p)
  PROVE  Running(p) /\ (at[p] = "child" => ~Running("runner"))
<1>1. Running(p)
  BY DEF Ordinary, Create, Add, Drop, Finish, Ask, Await, Record, Poll, CleanPhase, CleanBegin,
         CleanMissing, CleanEach, CleanRecord, Make, Work, Remove, RemoveRecorded, ChildEnds, Reopen,
         Fault, Cleaning, Doing
<1>2. ASSUME at[p] = "child", ~Fault(p) PROVE ~Running("runner")
  <2>1. Here(p).do = "child"
    BY <1>1, <1>2, HereSound DEF Site, Here
  <2>2. ChildEnds(p)
    BY <1>2, <2>1 DEF Ordinary, Create, Add, Drop, Finish, Ask, Await, Record, Poll, CleanPhase,
         CleanBegin, CleanMissing, CleanEach, CleanRecord, Make, Work, Remove, RemoveRecorded, Reopen,
         Cleaning, Doing
  <2> QED BY <2>2 DEF ChildEnds, Running, Ended
<1>3. ASSUME at[p] = "child", Fault(p) PROVE ~Running("runner")
  BY <1>1, <1>3, HereSound DEF Fault, Site, Here
<1> QED BY <1>1, <1>2, <1>3

\* The other steps.
LEMMA SpawnChildTyped ==
  ASSUME TypeOK, NEW p \in Processes, SpawnChild(p), mode = "clean"
  PROVE  TypeOK'
<1>1. at' = [at EXCEPT !["runner"] = "ask_main"] /\ mode' = mode
  BY DEF SpawnChild
<1>2. \A q \in Processes : Program(q)' = Program(q)
  BY <1>1 DEF Program
<1>3. "ask_main" \in DOMAIN Program("runner")
  BY DEF Program, Automated
<1>4. at' \in [Processes -> Labels \cup Ended]
  BY <1>1, <1>3, LabelsOfPrograms DEF TypeOK, Processes
<1>5. \A q \in Processes : Running(q)' => at'[q] \in DOMAIN Program(q)'
  BY <1>1, <1>2, <1>3 DEF TypeOK, Running, Processes
<1>6. mem' \in [Processes -> Ledgers]
  BY DEF SpawnChild, TypeOK
<1> QED BY <1>1, <1>4, <1>5, <1>6 DEF SpawnChild, world, TypeOK

LEMMA StartRecoveryTyped ==
  ASSUME TypeOK, StartRecovery
  PROVE  TypeOK'
<1>1. at' = [at EXCEPT !["recovery"] = "rc_restore"] /\ mode' = mode
      /\ clean' = [clean EXCEPT !["recovery"] = "enter"]
  BY DEF StartRecovery, Goto
<1>2. \A q \in Processes : Program(q)' = Program(q)
  BY <1>1 DEF Program
<1>3. "rc_restore" \in DOMAIN Program("recovery")
  BY DEF Program, Recovery
<1>4. at' \in [Processes -> Labels \cup Ended]
  BY <1>1, <1>3, LabelsOfPrograms DEF TypeOK, Processes
<1>5. \A q \in Processes : Running(q)' => at'[q] \in DOMAIN Program(q)'
  BY <1>1, <1>2, <1>3 DEF TypeOK, Running, Processes
<1>6. mem' \in [Processes -> Ledgers] /\ clean' \in [Processes -> Stages \cup (Resources \ Foreign)]
  BY <1>1 DEF StartRecovery, TypeOK, Stages
<1> QED BY <1>1, <1>4, <1>5, <1>6 DEF StartRecovery, world, TypeOK

LEMMA KillTyped ==
  ASSUME TypeOK, NEW p \in Processes, Kill(p)
  PROVE  TypeOK'
<1>1. at' = [at EXCEPT ![p] = "dead"] /\ mode' = mode
  BY DEF Kill
<1>2. \A q \in Processes : Program(q)' = Program(q)
  BY <1>1 DEF Program
<1>3. \A q \in Processes : Running(q)' => at'[q] \in DOMAIN Program(q)'
  BY <1>1, <1>2 DEF TypeOK, Running, Ended
<1>4. at' \in [Processes -> Labels \cup Ended]
  BY <1>1 DEF TypeOK, Ended
<1> QED BY <1>1, <1>3, <1>4 DEF Kill, world, TypeOK

LEMMA DockerTyped ==
  ASSUME TypeOK, \/ \E r \in daemon : DaemonCreates(r)
                 \/ \E r \in Foreign : ForeignAppears(r)
  PROVE  TypeOK'
<1>1. UNCHANGED <<mode, files, ledger, at, mem, own, clean, raised, failed, faults, lapse>>
  BY DEF DaemonCreates, ForeignAppears
<1>2. docker' \subseteq Resources /\ daemon' \subseteq Resources \ Foreign
  BY DEF DaemonCreates, ForeignAppears, TypeOK, Resources
<1> QED BY <1>1, <1>2 DEF TypeOK, Running, Program

LEMMA OrdinaryKeepsType ==
  ASSUME TypeOK, NEW p \in Processes, Ordinary(p)
  PROVE  TypeOK'
<1>1. ControlOK' /\ DataOK'
  BY OrdinaryTyped, OrdinaryRuns, MovesKeepControl
<1> QED BY <1>1 DEF TypeOK, ControlOK, DataOK

LEMMA StepIsOrdinary ==
  ASSUME NEW p \in Processes, Step(p) \/ Fault(p)
  PROVE  Ordinary(p) \/ SpawnChild(p)
BY DEF Step, Ordinary

\* Steps by kind: what the following proofs distinguish.
LEMMA NextCases ==
  ASSUME Next
  PROVE  \/ \E p \in Processes : Ordinary(p) \/ SpawnChild(p) \/ Kill(p)
         \/ \E r \in daemon : DaemonCreates(r)
         \/ \E r \in Foreign : ForeignAppears(r)
         \/ StartRecovery
BY StepIsOrdinary DEF Next

-----------------------------------------------------------------------------
(* One process at a time *)

LEMMA SpawnChildRuns ==
  ASSUME TypeOK, OneMoves, NEW p \in Processes, SpawnChild(p)
  PROVE  p = "parent" /\ at["parent"] = "child" /\ Running("parent") /\ mode = "clean"
<1>1. Running(p) /\ Here(p).do = "child"
  BY DEF SpawnChild, Doing
<1>2. at[p] = "child"
  BY <1>1, HereSound DEF Site, Here
<1>3. "child" \notin DOMAIN Automated \cup DOMAIN Human \cup DOMAIN Recovery
  BY DEF Automated, Human, Recovery
<1>4. p = "parent"
  BY <1>1, <1>2, <1>3, HereSound DEF Program, Processes
<1> QED BY <1>1, <1>2, <1>4 DEF OneMoves

LEMMA OneMovesKept ==
  ASSUME TypeOK, OneMoves, Next
  PROVE  OneMoves'
<1>1. ASSUME NEW p \in Processes, Ordinary(p) PROVE OneMoves'
  <2>1. Running(p) /\ (at[p] = "child" => ~Running("runner")) /\ Moves(p)
    BY <1>1, OrdinaryRuns, OrdinaryTyped
  <2>2. \A q \in Processes \ {p} : at'[q] = at[q]
    BY <2>1 DEF Moves, Stays, GoesOn, Goto, TypeOK
  <2>3. CASE Stays(p)
    BY <2>1, <2>3 DEF Moves, Stays, OneMoves, Running
  <2>4. CASE GoesOn(p)
    <3>1. PICK k \in {Here(p).next, Here(p).err} : Goto(p, k)
      BY <2>4 DEF GoesOn
    <3>2. at'[p] = k
      BY <3>1 DEF Goto, TypeOK
    <3>3. k = "rm_early" => at[p] = "new_ledger" /\ k # Here(p).next
      BY <2>1, HereSound DEF Flow, Here
    <3>4. k # "rm_early"
      <4>1. SUFFICES ASSUME k = "rm_early" PROVE FALSE
        OBVIOUS
      <4>2. Here(p).do = "create"
        BY <2>1, <3>3, <4>1, HereSound DEF Site, Here
      <4>3. Create(p)
        BY <1>1, <4>2 DEF Ordinary, Add, Drop, Finish, Ask, Await, Record, Poll, CleanPhase, CleanBegin,
           CleanMissing, CleanEach, CleanRecord, Make, Work, Remove, RemoveRecorded, ChildEnds, Reopen,
           Fault, Cleaning, Doing
      <4>4. k = Here(p).next
        BY <3>2, <4>2, <4>3 DEF Create, Proceed, Goto, TypeOK
      <4> QED BY <3>3, <4>1, <4>4
    <3> QED BY <2>1, <2>2, <3>2, <3>4 DEF Moves, OneMoves, Running, Processes
  <2> QED BY <2>1, <2>3, <2>4 DEF Moves
<1>2. ASSUME NEW p \in Processes, SpawnChild(p) PROVE OneMoves'
  BY <1>2, SpawnChildRuns DEF SpawnChild, OneMoves, Running, Processes, TypeOK
<1>3. ASSUME NEW p \in Processes, Kill(p) PROVE OneMoves'
  BY <1>3 DEF Kill, OneMoves, Running, Ended, Processes, TypeOK
<1>4. CASE StartRecovery
  BY <1>4 DEF StartRecovery, Goto, Quiet, OneMoves, Running, Processes, TypeOK
<1>5. ASSUME UNCHANGED <<mode, at>> PROVE OneMoves'
  BY <1>5 DEF OneMoves, Running
<1> QED BY <1>1, <1>2, <1>3, <1>4, <1>5, NextCases DEF DaemonCreates, ForeignAppears

LEMMA TypeKept ==
  ASSUME TypeOK, OneMoves, Next
  PROVE  TypeOK'
BY NextCases, OrdinaryKeepsType, SpawnChildTyped, SpawnChildRuns, KillTyped, StartRecoveryTyped,
   DockerTyped

\* The instruction at the label says which action is taken there.
LEMMA ByInstruction ==
  ASSUME NEW p \in Processes, Ordinary(p), ~Fault(p)
  PROVE  /\ Here(p).do = "create" <=> Create(p)
         /\ Here(p).do = "add" <=> Add(p)
         /\ Here(p).do = "drop" <=> Drop(p)
         /\ Here(p).do = "finish" <=> Finish(p)
         /\ Here(p).do = "ask" <=> Ask(p)
         /\ Here(p).do = "await" <=> Await(p)
         /\ Here(p).do = "record" <=> Record(p)
         /\ Here(p).do = "poll" <=> Poll(p)
         /\ Here(p).do \in {"clean", "confirm"} <=>
              CleanPhase(p) \/ CleanBegin(p) \/ CleanMissing(p) \/ CleanEach(p) \/ CleanRecord(p)
         /\ Here(p).do = "make" <=> Make(p)
         /\ Here(p).do = "work" <=> Work(p)
         /\ Here(p).do = "remove" <=> Remove(p)
         /\ Here(p).do = "artifacts" <=> RemoveRecorded(p)
         /\ Here(p).do = "child" <=> ChildEnds(p)
         /\ Here(p).do = "reopen" <=> Reopen(p)
BY DEF Ordinary, Create, Add, Drop, Finish, Ask, Await, Record, Poll, CleanPhase, CleanBegin,
       CleanMissing, CleanEach, CleanRecord, Make, Work, Remove, RemoveRecorded, ChildEnds, Reopen,
       Cleaning, Doing

LEMMA Alone ==
  ASSUME TypeOK, OneMoves, NEW p \in Processes, Ordinary(p), NEW q \in Processes \ {p}
  PROVE  /\ ~Busy(q) /\ ~Busy(q)'
         /\ at'[q] = at[q] /\ Here(q)' = Here(q) /\ Running(q)' = Running(q)
         /\ mode' = mode
<1>1. Running(p) /\ (at[p] = "child" => ~Running("runner")) /\ Moves(p)
  BY OrdinaryRuns, OrdinaryTyped
<1>2. at'[q] = at[q] /\ mode' = mode
  BY <1>1 DEF Moves, Stays, GoesOn, Goto, TypeOK
<1>3. Here(q)' = Here(q) /\ (Running(q)' <=> Running(q))
  BY <1>2 DEF Here, Program, Running
<1>4. ASSUME Running(q) PROVE Here(q).do = "child"
  <2>1. q = "parent" /\ at[q] = "child"
    BY <1>1, <1>4 DEF OneMoves, Processes
  <2> QED BY <1>4, <2>1, HereSound DEF Site, Here
<1> QED BY <1>2, <1>3, <1>4 DEF Busy, Running

\* At the label that p goes on to.
LEMMA HereAfter ==
  ASSUME TypeOK, NEW p \in Processes, Ordinary(p)
  PROVE  /\ Stays(p) => Here(p)' = Here(p) /\ Running(p)'
         /\ \A k : Goto(p, k) => Here(p)' = Program(p)[k] /\ at'[p] = k /\ clean'[p] = "enter"
<1>1. Running(p) /\ mode' = mode
  BY OrdinaryRuns, OrdinaryTyped DEF Moves
<1> QED BY <1>1 DEF Stays, Goto, Here, Program, Running, TypeOK

-----------------------------------------------------------------------------
(* The copy and the file *)

LEMMA OnlyBusyCopies ==
  ASSUME NEW p \in Processes, ~Busy(p)
  PROVE  CopySound(p)
BY DEF CopySound, Busy, Doing, Cleaning

LEMMA GoingOnCopies ==
  ASSUME TypeOK, NEW p \in Processes, Ordinary(p), GoesOn(p)
  PROVE  CopySound(p)'
<1>1. PICK k \in {Here(p).next, Here(p).err} : Goto(p, k)
  BY DEF GoesOn
<1>2. Here(p)' = Program(p)[k] /\ at'[p] = k /\ clean'[p] = "enter"
  BY <1>1, HereAfter
<1>3. ASSUME Doing(p, "confirm")' PROVE mem'[p] = ledger'
  <2>1. k \in DOMAIN Program(p) /\ Flow(Program(p), at[p], k)
    BY <1>2, <1>3, HereSound, OrdinaryRuns DEF Doing, Running, Ended, Flow
  <2>2. Here(p).do = "poll" /\ k # Here(p).err
    BY <1>2, <1>3, <2>1 DEF Doing, Flow, Here
  <2>3. ~Raise(p)
    BY <1>2, <2>2 DEF Raise, Goto, TypeOK
  <2>4. Poll(p)
    BY <2>2, <2>3, ByInstruction DEF Fault
  <2>5. PICK new : Write(p, new)
    BY <2>3, <2>4 DEF Poll, Recorded, WriteFails
  <2> QED BY <2>5 DEF Write, TypeOK
<1> QED BY <1>2, <1>3 DEF CopySound, Doing, Stages

LEMMA StayingCopies ==
  ASSUME TypeOK, NEW p \in Processes, Ordinary(p), ~GoesOn(p), CopySound(p)
  PROVE  CopySound(p)'
<1>1. Stays(p) /\ Running(p) /\ Here(p)' = Here(p) /\ Running(p)'
  BY OrdinaryTyped, OrdinaryRuns, HereAfter DEF Moves
<1>2. ~Raise(p) /\ ~Proceed(p) /\ ~Fault(p)
  BY RaiseMoves, ProceedMoves DEF Fault
<1>3. SUFFICES ASSUME Here(p).do \in {"clean", "confirm"} PROVE CopySound(p)'
  BY <1>1 DEF CopySound, Cleaning, Doing
<1>4. ASSUME NEW s \in Stages, clean'[p] = s, mem'[p] = ledger' PROVE CopySound(p)'
  BY <1>4 DEF CopySound
<1>5. ASSUME NEW new, NEW s \in Stages, Write(p, new), Stage(p, s) PROVE CopySound(p)'
  BY <1>4, <1>5 DEF Write, Stage, TypeOK
<1>6. CASE CleanPhase(p)
  BY <1>2, <1>5, <1>6 DEF CleanPhase, WriteFails, Stages
<1>7. CASE CleanBegin(p)
  <2>1. mem[p] = ledger
    BY <1>7 DEF CleanBegin, Cleaning, Doing, CopySound
  <2>2. CASE Stage(p, "missing") /\ UNCHANGED <<ledger, mem>>
    BY <1>4, <2>1, <2>2 DEF Stage, Stages, TypeOK
  <2>3. CASE ~(Stage(p, "missing") /\ UNCHANGED <<ledger, mem>>)
    <3>1. Write(p, With(p, mem[p].resources \cup Discovered(Here(p).on))) /\ Stage(p, "each")
      BY <1>2, <1>7, <2>3 DEF CleanBegin, WriteFails, Refuse
    <3> QED BY <1>5, <3>1 DEF Stages
  <2> QED BY <2>2, <2>3
<1>8. CASE CleanMissing(p)
  <2>1. mem[p] = ledger
    BY <1>8 DEF CleanMissing, Cleaning, Doing, CopySound
  <2>2. CASE Stage(p, "each") /\ UNCHANGED <<ledger, mem>>
    BY <1>4, <2>1, <2>2 DEF Stage, Stages, TypeOK
  <2>3. CASE ~(Stage(p, "each") /\ UNCHANGED <<ledger, mem>>)
    <3>1. PICK new : Write(p, new) /\ Stage(p, "missing")
      BY <1>2, <1>8, <2>3 DEF CleanMissing, WriteFails
    <3> QED BY <1>5, <3>1 DEF Stages
  <2> QED BY <2>2, <2>3
<1>9. CASE CleanEach(p)
  <2>1. mem[p] = ledger
    BY <1>9 DEF CleanEach, Cleaning, Doing, CopySound
  <2>2. PICK r \in First(Mine(p)) : Stage(p, r) /\ UNCHANGED <<ledger, mem>>
    BY <1>2, <1>9 DEF CleanEach, Refuse
  <2>3. clean'[p] = r /\ r \in Project(Here(p).on)
    BY <2>2 DEF Stage, TypeOK, First, Mine
  <2>4. mode' = mode
    BY <2>2 DEF Stage
  <2>5. Project(Here(p).on)' = Project(Here(p).on)
    BY <1>1 DEF Project
  <2> QED BY <1>1, <2>1, <2>2, <2>3, <2>5 DEF CopySound
<1>10. CASE CleanRecord(p)
  BY <1>2, <1>5, <1>10 DEF CleanRecord, WriteFails, Stages
<1> QED BY <1>2, <1>3, <1>6, <1>7, <1>8, <1>9, <1>10, ByInstruction

LEMMA CopyIsFileKept ==
  ASSUME TypeOK, OneMoves, CopyIsFile, Next
  PROVE  CopyIsFile'
<1>1. ASSUME NEW p \in Processes, Ordinary(p) PROVE CopyIsFile'
  <2>1. \A q \in Processes \ {p} : CopySound(q)'
    BY <1>1, Alone DEF CopySound, Busy, Doing, Cleaning
  <2>2. CopySound(p)'
    BY <1>1, GoingOnCopies, StayingCopies DEF CopyIsFile, CopySound
  <2> QED BY <2>1, <2>2 DEF CopyIsFile, CopySound
<1>2. ASSUME NEW p \in Processes, SpawnChild(p) PROVE CopyIsFile'
  <2>1. /\ Here("runner")' = Automated["ask_main"] /\ UNCHANGED <<ledger, clean, mode>>
        /\ \A q \in Processes \ {"runner"} : at'[q] = at[q] /\ mem'[q] = mem[q]
    BY <1>2, SpawnChildRuns DEF SpawnChild, Here, Program, TypeOK, Processes
  <2>2. \A q \in Processes \ {"runner"} : CopySound(q)'
    BY <2>1 DEF CopyIsFile, CopySound, Doing, Cleaning, Here, Program, Project, Running
  <2>3. CopySound("runner")'
    BY <2>1 DEF CopySound, Doing, Cleaning, Automated, I
  <2> QED BY <2>2, <2>3 DEF CopyIsFile, CopySound
<1>3. ASSUME NEW p \in Processes, Kill(p) PROVE CopyIsFile'
  <2>1. /\ at' = [at EXCEPT ![p] = "dead"] /\ UNCHANGED <<mode, ledger, mem, clean>>
    BY <1>3 DEF Kill
  <2>2. \A q \in Processes : CopySound(q)'
    BY <2>1 DEF CopyIsFile, CopySound, Doing, Cleaning, Here, Program, Project, Running, Ended, TypeOK
  <2> QED BY <2>2 DEF CopyIsFile, CopySound
<1>4. CASE StartRecovery
  <2>1. /\ at' = [at EXCEPT !["recovery"] = "rc_restore"] /\ UNCHANGED <<mode, ledger>>
        /\ clean' = [clean EXCEPT !["recovery"] = "enter"] /\ Quiet
    BY <1>4 DEF StartRecovery, Goto
  <2>2. \A q \in Processes \ {"recovery"} : ~Running(q)'
    BY <2>1 DEF Quiet, Running, TypeOK
  <2>3. clean'["recovery"] = "enter" /\ Here("recovery")' = Recovery["rc_restore"]
    BY <2>1 DEF TypeOK, Processes, Here, Program
  <2>4. CopySound("recovery")'
    BY <2>3 DEF CopySound, Doing, Stages, Recovery, I
  <2> QED BY <2>2, <2>4 DEF CopyIsFile, CopySound, Doing, Cleaning, Processes
<1>5. ASSUME UNCHANGED <<mode, at, mem, ledger, clean>> PROVE CopyIsFile'
  BY <1>5 DEF CopyIsFile, CopySound, Doing, Cleaning, Running, Here, Program, Project
<1> QED BY <1>1, <1>2, <1>3, <1>4, <1>5, NextCases DEF DaemonCreates, ForeignAppears

-----------------------------------------------------------------------------
(* Only what is recorded is deleted *)

\* A step of a process deletes at most one resource, which its copy records.
LEMMA DeletionIsMine ==
  ASSUME TypeOK, NEW p \in Processes, Ordinary(p)
  PROVE  /\ docker' \subseteq docker
         /\ docker' # docker => CleanEach(p) /\ docker \ docker' \subseteq Mine(p)
<1>1. CASE CleanEach(p)
  <2>1. CASE \E r \in First(Mine(p)) : Delete(r)
    BY <1>1, <2>1 DEF Delete, First
  <2>2. CASE ~\E r \in First(Mine(p)) : Delete(r)
    BY <1>1, <2>2, RefuseKeepsData DEF CleanEach
  <2> QED BY <2>1, <2>2
<1>2. CASE ~CleanEach(p)
  BY <1>2 DEF Ordinary, Create, Add, Drop, Finish, Ask, Await, Record, Poll, CleanPhase, CleanBegin,
       CleanMissing, CleanRecord, Make, Work, Remove, RemoveRecorded, ChildEnds, Reopen, Fault,
       Refuse, world
<1> QED BY <1>1, <1>2

LEMMA StepDeletesOnlyRecorded ==
  ASSUME TypeOK, CopyIsFile, [Next]_vars
  PROVE  docker \ docker' \subseteq ledger.resources \ Foreign
<1>1. ASSUME NEW p \in Processes, Ordinary(p)
      PROVE  docker \ docker' \subseteq ledger.resources \ Foreign
  <2>1. SUFFICES ASSUME docker' # docker
                 PROVE  docker \ docker' \subseteq ledger.resources \ Foreign
    OBVIOUS
  <2>2. CleanEach(p) /\ docker \ docker' \subseteq Mine(p)
    BY <1>1, <2>1, DeletionIsMine
  <2>3. mem[p] = ledger
    BY <2>2 DEF CleanEach, Cleaning, Doing, CopyIsFile, CopySound
  <2> QED BY <2>2, <2>3, CopyTyped DEF Mine
<1>2. ASSUME docker \subseteq docker' PROVE docker \ docker' \subseteq ledger.resources \ Foreign
  BY <1>2
<1>3. CASE UNCHANGED vars
  BY <1>2, <1>3 DEF vars
<1>4. CASE Next
  BY <1>1, <1>2, <1>4, NextCases DEF SpawnChild, Kill, StartRecovery, DaemonCreates, ForeignAppears, world
<1> QED BY <1>3, <1>4

LEMMA InitSound == Init => TypeOK /\ OneMoves /\ CopyIsFile
<1> SUFFICES ASSUME Init PROVE TypeOK /\ OneMoves /\ CopyIsFile
  OBVIOUS
<1>1. /\ at \in [Processes -> {"mk_checkout", "new_ledger", "idle"}]
      /\ at["recovery"] = "idle" /\ at["parent"] # "new_ledger"
      /\ at["parent"] = "mk_checkout" => mode = "clean" /\ at["runner"] = "idle"
      /\ at["runner"] \in {"new_ledger", "idle"}
  BY DEF Init, Processes
<1>2. \A p \in Processes : Running(p) => at[p] \in DOMAIN Program(p) /\ Here(p).do \in {"make", "create"}
  BY <1>1 DEF Running, Ended, Processes, Program, Here, Automated, Human, CleanInstall, I
<1>3. NoLedger \in Ledgers
  BY DEF NoLedger, Ledgers
<1>4. at \in [Processes -> Labels \cup Ended]
  BY <1>1 DEF Labels, Ended, Automated, CleanInstall
<1>5. TypeOK
  BY <1>2, <1>3, <1>4 DEF Init, TypeOK, Stages
<1>6. OneMoves
  BY <1>1 DEF OneMoves, Running, Ended, Processes
<1>7. CopyIsFile
  BY <1>2 DEF CopyIsFile, CopySound, Doing, Cleaning
<1> QED BY <1>5, <1>6, <1>7

LEMMA StepSound ==
  TypeOK /\ OneMoves /\ CopyIsFile /\ [Next]_vars => (TypeOK /\ OneMoves /\ CopyIsFile)'
<1>1. ASSUME TypeOK, OneMoves, CopyIsFile, UNCHANGED vars PROVE (TypeOK /\ OneMoves /\ CopyIsFile)'
  BY <1>1 DEF vars, TypeOK, OneMoves, CopyIsFile, CopySound, Running, Doing, Cleaning, Here, Program, Project
<1> QED BY <1>1, TypeKept, OneMovesKept, CopyIsFileKept

\* The variables of the demo verification always have their types, and every
\* running process is at a label of its program.
THEOREM TeardownTypeCorrect == Spec => []TypeOK
<1>1. TypeOK /\ OneMoves /\ CopyIsFile => TypeOK
  OBVIOUS
<1> QED BY <1>1, InitSound, StepSound, PTL DEF Spec

\* Only what the ledger on disk attributes to the run is ever deleted from
\* Docker: not a resource of somebody else under the same label, nor one that
\* appeared since the record was written (ownership._cleanup_project).
THEOREM DeletionsAreRecorded == Spec => DeletesOnlyRecorded
<1>1. TypeOK /\ OneMoves /\ CopyIsFile /\ [Next]_vars
        => [docker \ docker' \subseteq ledger.resources \ Foreign]_vars
  BY StepDeletesOnlyRecorded
<1> QED BY <1>1, InitSound, StepSound, PTL DEF Spec, DeletesOnlyRecorded

-----------------------------------------------------------------------------
(* Where the programs go on to *)

\* What follows when nothing is raised.
Ahead(P, l) ==
  /\ P[l].do = "make" /\ l # "mk_checkout" =>
       /\ P[l].next \in DOMAIN P /\ P[P[l].next].do = "add" /\ P[P[l].next].on = P[l].on
  /\ P[l].do = "ask" =>
       /\ P[l].next \in DOMAIN P /\ P[P[l].next].do = "await"
       /\ P[l].on \subseteq Project(P[P[l].next].on)

LEMMA AheadInPrograms ==
  ASSUME NEW P \in Programs, NEW l \in DOMAIN P
  PROVE  Ahead(P, l)
<1>1. P[l].do = "make" /\ l # "mk_checkout" =>
        /\ P[l].next \in DOMAIN P /\ P[P[l].next].do = "add" /\ P[P[l].next].on = P[l].on
  <2>1. CASE P = Automated BY <2>1 DEF Automated, I
  <2>2. CASE P = Human BY <2>2 DEF Human, I
  <2>3. CASE P = CleanInstall BY <2>3 DEF CleanInstall, I
  <2>4. CASE P = Recovery BY <2>4 DEF Recovery, I
  <2> QED BY <2>1, <2>2, <2>3, <2>4 DEF Programs
<1>2. ASSUME P[l].do = "ask"
      PROVE  P[l].next \in DOMAIN P /\ P[P[l].next].do = "await"
  <2>1. CASE P = Automated BY <1>2, <2>1 DEF Automated, I
  <2>2. CASE P = Human BY <1>2, <2>2 DEF Human, I
  <2>3. CASE P = CleanInstall BY <1>2, <2>3 DEF CleanInstall, I
  <2>4. CASE P = Recovery BY <1>2, <2>4 DEF Recovery, I
  <2> QED BY <2>1, <2>2, <2>3, <2>4 DEF Programs
<1>3. Flow(P, l, P[l].next)
  BY FlowsOfPrograms
<1> QED BY <1>1, <1>2, <1>3 DEF Ahead, Flow

LEMMA HereAhead ==
  ASSUME TypeOK, NEW p \in Processes, Running(p)
  PROVE  Ahead(Program(p), at[p])
<1>1. at[p] \in DOMAIN Program(p) /\ Program(p) \in Programs
  BY DEF TypeOK, Program, Programs, Processes
<1> QED BY <1>1, AheadInPrograms

\* A clean-up does not start over.
LEMMA CleanMovesOn ==
  ASSUME TypeOK, NEW p \in Processes, Running(p), Here(p).do = "clean"
  PROVE  Here(p).next # at[p] /\ Here(p).err # at[p]
<1>1. at[p] \in DOMAIN Program(p)
  BY DEF TypeOK
<1>2. CASE Program(p) = Automated BY <1>1, <1>2 DEF Here, Automated, I
<1>3. CASE Program(p) = Human BY <1>1, <1>3 DEF Here, Human, I
<1>4. CASE Program(p) = CleanInstall BY <1>1, <1>4 DEF Here, CleanInstall, I
<1>5. CASE Program(p) = Recovery BY <1>1, <1>5 DEF Here, Recovery, I
<1> QED BY <1>2, <1>3, <1>4, <1>5 DEF Program, Processes

\* What only the run does.
LEMMA OnlyRunner ==
  ASSUME TypeOK, NEW p \in Processes, Running(p)
  PROVE  /\ Here(p).do \in {"await", "ask", "record"} => p = "runner"
         /\ p = "runner" /\ at[p] \notin RestoreLabels
              /\ Here(p).do \in {"await", "record", "poll", "clean", "confirm"} => Here(p).on = "main"
         /\ p = "runner" => at[p] # "mk_checkout" /\ Here(p).do # "artifacts"
         /\ p = "runner" /\ Here(p).do = "drop" => Here(p).on # "checkout"
         /\ p = "runner" /\ Here(p).do = "finish" => at[p] = "h_finish"
<1>1. at[p] \in DOMAIN Program(p)
  BY DEF TypeOK
<1>2. CASE p = "runner" /\ Program(p) = Automated
  <2>1. \A l \in DOMAIN Automated : l \notin RestoreLabels
          /\ Automated[l].do \in {"await", "record", "poll", "clean", "confirm"} => Automated[l].on = "main"
    BY DEF Automated, I, RestoreLabels
  <2>2. \A l \in DOMAIN Automated : l # "mk_checkout" /\ Automated[l].do # "artifacts"
    BY DEF Automated, I
  <2>3. \A l \in DOMAIN Automated : /\ Automated[l].do = "drop" => Automated[l].on # "checkout"
                                    /\ Automated[l].do = "finish" => l = "h_finish"
    BY DEF Automated, I
  <2> QED BY <1>1, <1>2, <2>1, <2>2, <2>3 DEF Here
<1>3. CASE p = "runner" /\ Program(p) = Human
  BY <1>1, <1>3 DEF Here, Human, I, RestoreLabels
<1>4. CASE p = "parent"
  BY <1>1, <1>4 DEF Here, Program, CleanInstall, I
<1>5. CASE p = "recovery"
  BY <1>1, <1>5 DEF Here, Program, Recovery, I
<1> QED BY <1>2, <1>3, <1>4, <1>5 DEF Program, Processes

\* The parent's way from the checkout to the ledger and to its end.
LEMMA ParentSteps ==
  ASSUME TypeOK, Running("parent")
  PROVE  LET i == Here("parent") IN
         /\ at["parent"] = "mk_checkout" => i.next = "new_ledger"
         /\ at["parent"] = "new_ledger" => /\ i.next = "add_checkout"
                                           /\ CleanInstall["add_checkout"].do = "add"
                                           /\ CleanInstall["add_checkout"].on = "checkout"
         /\ at["parent"] = "add_checkout" => i.do = "add" /\ i.on = "checkout"
         /\ at["parent"] = "child" => i.next = "reopen" /\ i.err = "reopen"
         /\ i.do = "finish" => at["parent"] = "finish"
         /\ \A k \in {i.next, i.err} :
              /\ k = "rm_checkout" => at["parent"] = "reopen"
              /\ k = "drop_checkout" => at["parent"] = "rm_checkout"
              /\ k = "finish" => at["parent"] = "drop_checkout"
         /\ at["parent"] \in {"rm_checkout", "drop_checkout"} => i.do \in {"remove", "drop"}
BY DEF TypeOK, Processes, Here, Program, CleanInstall, I

LEMMA ParentAtEnd ==
  ASSUME TypeOK, Running("parent"), at["parent"] \in {"rm_checkout", "drop_checkout", "finish"}
  PROVE  Here("parent").do \in {"remove", "drop", "finish"}
BY DEF TypeOK, Processes, Here, Program, CleanInstall, I

LEMMA RecoverySteps ==
  ASSUME TypeOK, Running("recovery")
  PROVE  LET i == Here("recovery") IN
         /\ i.err = "exit"
         /\ at["recovery"] = "rc_restore" => i.do = "clean" /\ i.on = "restore" /\ i.next = "rc_main"
         /\ at["recovery"] = "rc_main" => i.do = "clean" /\ i.on = "main" /\ i.next = "rc_artifacts"
         /\ at["recovery"] = "rc_artifacts" => i.next = "rc_finish"
         /\ at["recovery"] = "rc_finish" => i.next = "exit"
         /\ i.do = "finish" => at["recovery"] = "rc_finish"
         /\ at["recovery"] \in {"rc_restore", "rc_main", "rc_artifacts", "rc_finish"}
BY DEF TypeOK, Processes, Here, Program, Recovery, I

\* What a step leaves of the other processes' variables, and what only grows.
LEMMA OthersKept ==
  ASSUME TypeOK, NEW p \in Processes, Ordinary(p)
  PROVE  /\ \A q \in Processes \ {p} : mem'[q] = mem[q] /\ failed'[q] = failed[q]
         /\ failed[p] => failed'[p]
         /\ lapse => lapse'
<1>1. ASSUME Raise(p) PROVE /\ \A q \in Processes \ {p} : failed'[q] = failed[q]
                            /\ failed[p] => failed'[p]
                            /\ lapse => lapse'
  BY <1>1 DEF Raise, TypeOK
<1>2. /\ \A q \in Processes \ {p} : failed'[q] = failed[q]
      /\ failed[p] => failed'[p]
      /\ lapse => lapse'
  <2>1. CASE Raise(p)
    BY <1>1, <2>1
  <2>2. CASE ~Raise(p)
    <3>1. CASE Drop(p) \/ Add(p) \/ Create(p) \/ Finish(p)
      BY <2>2, <3>1 DEF Drop, Add, Create, Finish, WriteFails, Refuse, Proceed
    <3>2. CASE Ask(p) \/ Await(p) \/ Record(p) \/ Poll(p)
      BY <2>2, <3>2 DEF Ask, Await, Record, Poll, Recorded, WriteFails, Refuse, Proceed
    <3>3. CASE CleanPhase(p) \/ CleanBegin(p) \/ CleanRecord(p)
      BY <2>2, <3>3 DEF CleanPhase, CleanBegin, CleanRecord, WriteFails, Refuse, Stage
    <3>4. CASE CleanMissing(p)
      <4>1. \E s \in {"missing", "each"} : Stage(p, s)
        BY <2>2, <3>4 DEF CleanMissing, WriteFails
      <4> QED BY <4>1 DEF Stage
    <3>5. CASE CleanEach(p)
      BY <2>2, <3>5 DEF CleanEach, Refuse, Stage, Proceed
    <3>6. CASE Make(p) \/ Work(p) \/ ChildEnds(p) \/ Fault(p)
      BY <2>2, <3>6 DEF Make, Work, ChildEnds, Fault, Refuse, Proceed
    <3>7. CASE Remove(p)
      BY <3>7 DEF Remove, Proceed
    <3>8. CASE Reopen(p)
      BY <3>8 DEF Reopen
    <3>9. CASE RemoveRecorded(p)
      <4>1. Proceed(p) \/ UNCHANGED <<failed, lapse>>
        BY <2>2, <3>9 DEF RemoveRecorded, WriteFails
      <4> QED BY <4>1 DEF Proceed
    <3> QED BY <3>1, <3>2, <3>3, <3>4, <3>5, <3>6, <3>7, <3>8, <3>9 DEF Ordinary
  <2> QED BY <2>1, <2>2
<1>3. \A q \in Processes \ {p} : mem'[q] = mem[q]
  BY DEF Ordinary, Create, Add, Drop, Finish, Ask, Await, Record, Poll, Recorded, CleanPhase,
         CleanBegin, CleanMissing, CleanEach, CleanRecord, Make, Work, Remove, RemoveRecorded, ChildEnds,
         Reopen, Fault, WriteFails, Write, Refuse, TypeOK
<1> QED BY <1>2, <1>3

-----------------------------------------------------------------------------
(* The artifacts and their records *)

\* What there is to show of the process that moves.
MoverFiles(p) ==
  /\ FilesSound(p)
  /\ ~Busy(p) => files \subseteq ledger.artifacts

\* The labels that a step arrives at.
LEMMA Arrival ==
  ASSUME TypeOK, NEW p \in Processes, Ordinary(p), NEW k \in {Here(p).next, Here(p).err}, Goto(p, k)
  PROVE  /\ at'[p] = k
         /\ Here(p)' = Program(p)[k]
         /\ Running(p)' <=> k # "exit"
         /\ Flow(Program(p), at[p], k)
         /\ k # "exit" => k \in DOMAIN Program(p) /\ Site(Program(p), k)
         /\ Busy(p)' <=> k \notin {"exit", "child", "reopen"}
<1>1. Running(p)
  BY OrdinaryRuns
<1>2. at'[p] = k /\ Here(p)' = Program(p)[k]
  BY HereAfter
<1>3. Flow(Program(p), at[p], k)
  BY <1>1, HereSound
<1>4. k # "exit" => k \in DOMAIN Program(p)
  BY <1>3 DEF Flow
<1>5. Program(p) \in Programs
  BY DEF Program, Programs, Processes
<1>6. k # "exit" => Site(Program(p), k)
  BY <1>4, <1>5, SitesOfPrograms
<1>7. Running(p)' <=> k # "exit"
  BY <1>2, <1>6 DEF Running, Ended, Site
<1> QED BY <1>2, <1>3, <1>4, <1>6, <1>7 DEF Busy, Site

LEMMA FirstLabelsBusy ==
  ASSUME TypeOK, NEW p \in Processes, at[p] \in FirstLabels
  PROVE  Busy(p) /\ Here(p).do \in {"make", "create"}
<1>1. Running(p)
  BY DEF FirstLabels, Running, Ended
<1> QED BY <1>1, HereSound DEF FirstLabels, Busy, Site, Here

ArtifactsKept(p) ==
  /\ files' = files
  /\ mem'[p].artifacts = mem[p].artifacts /\ mem'[p].exists = mem[p].exists
  /\ \/ ledger' = ledger
     \/ /\ Busy(p)
        /\ ledger'.artifacts = mem[p].artifacts /\ ledger'.exists = mem[p].exists

\* A step that leaves the artifacts alone, at a label where nothing is pending.
LEMMA KeptFiles ==
  ASSUME TypeOK, NEW p \in Processes, Ordinary(p), MoverFiles(p), ArtifactsKept(p),
         Here(p).do \notin {"add", "create", "reopen"},
         Here(p).do \in {"make", "remove"} => Goto(p, Here(p).err),
         Stays(p) \/ GoesOn(p)
  PROVE  MoverFiles(p)'
<1>1. Running(p) /\ Site(Program(p), at[p])
  BY OrdinaryRuns, HereSound
<1>2. Pending(p) = {}
  BY <1>1 DEF Pending, Doing, Site, Here
<1>3. /\ Busy(p) => files' \subseteq mem'[p].artifacts /\ mem'[p].artifacts \subseteq ledger'.artifacts
      /\ ~Busy(p) => files' \subseteq ledger'.artifacts
  BY <1>2 DEF MoverFiles, FilesSound, ArtifactsKept
<1>4. CASE Stays(p) /\ ~GoesOn(p)
  <2>1. at' = at /\ Here(p)' = Here(p) /\ Running(p)'
    BY <1>4, HereAfter DEF Stays
  <2>2. at[p] \notin FirstLabels
    <3>1. SUFFICES ASSUME at[p] \in FirstLabels PROVE FALSE
      OBVIOUS
    <3>2. Here(p).do \in {"make", "create"}
      BY <3>1, FirstLabelsBusy
    <3> QED BY <1>4, <3>2 DEF GoesOn
  <2> QED BY <1>1, <1>3, <2>1, <2>2 DEF MoverFiles, FilesSound, ArtifactsKept, Busy, Doing
<1>5. CASE GoesOn(p)
  <2>1. PICK k \in {Here(p).next, Here(p).err} :
          Goto(p, k) /\ (Here(p).do \in {"make", "remove"} => k = Here(p).err)
    BY <1>5 DEF GoesOn
  <2>2. /\ at'[p] = k /\ Here(p)' = Program(p)[k]
        /\ Running(p)' <=> k # "exit"
        /\ Flow(Program(p), at[p], k)
        /\ k # "exit" => k \in DOMAIN Program(p)
        /\ Busy(p)' <=> k \notin {"exit", "child", "reopen"}
    BY <2>1, Arrival
  <2>3. k \notin FirstLabels /\ k # "child" /\ (k = "reopen" => at[p] = "child")
    BY <1>1, <2>1, <2>2 DEF Flow, FirstLabels, Site, Here
  <2>4. ~Doing(p, "drop")'
    BY <2>1, <2>2 DEF Doing, Flow, Here
  <2>5. ASSUME Busy(p)'
        PROVE  /\ files' \subseteq mem'[p].artifacts /\ mem'[p].artifacts \subseteq ledger'.artifacts
               /\ mem'[p].exists
    <3>1. Busy(p)
      BY <1>1, <2>2, <2>5 DEF Busy, Flow, Site, Here
    <3>2. at[p] \notin FirstLabels
      BY <1>1, <2>1, <2>2, <2>5 DEF FirstLabels, Flow, Site, Here
    <3> QED BY <1>3, <3>1, <3>2 DEF MoverFiles, FilesSound, ArtifactsKept
  <2>6. ASSUME ~Busy(p)' PROVE files' \subseteq ledger'.artifacts
    BY <1>3
  <2> QED BY <2>2, <2>3, <2>4, <2>5, <2>6 DEF MoverFiles, FilesSound
<1> QED BY <1>4, <1>5

\* The actions that write no artifact.
LEMMA StoresKept ==
  ASSUME TypeOK, NEW p \in Processes, Busy(p), NEW new, Stores(p, new), files' = files,
         new.artifacts = mem[p].artifacts, new.exists = mem[p].exists
  PROVE  ArtifactsKept(p)
BY DEF TypeOK, Stores, ArtifactsKept

LEMMA CleaningKept ==
  ASSUME TypeOK, NEW p \in Processes,
         CleanPhase(p) \/ CleanBegin(p) \/ CleanMissing(p) \/ CleanEach(p) \/ CleanRecord(p)
  PROVE  ArtifactsKept(p)
<1>1. Busy(p)
  BY DEF Busy, CleanPhase, CleanBegin, CleanMissing, CleanEach, CleanRecord, Cleaning, Doing
<1>2. ASSUME UNCHANGED <<files, ledger, mem>> PROVE ArtifactsKept(p)
  BY <1>2 DEF ArtifactsKept
<1>3. ASSUME NEW R \in SUBSET (Resources \ Foreign), Stores(p, With(p, R)), files' = files
      PROVE  ArtifactsKept(p)
  BY <1>1, <1>3, WithResources, StoresKept
<1>4. CASE CleanPhase(p)
  BY <1>1, <1>4, CleanPhaseTyped, StoresKept DEF CleanPhase, world
<1>5. CASE CleanBegin(p)
  <2>1. mem[p].resources \cup Discovered(Here(p).on) \in SUBSET (Resources \ Foreign)
    BY CopyTyped, DiscoveredIsOwn
  <2>2. CASE UNCHANGED <<files, ledger, mem>>
    BY <1>2, <2>2
  <2>3. CASE ~UNCHANGED <<files, ledger, mem>>
    <3>1. files' = files /\ Stores(p, With(p, mem[p].resources \cup Discovered(Here(p).on)))
      BY <1>5, <2>3, RefuseKeepsData, WriteStageStores, WriteFailsStores DEF CleanBegin, world
    <3> QED BY <1>3, <2>1, <3>1
  <2> QED BY <2>2, <2>3
<1>6. CASE CleanMissing(p)
  <2>1. CASE UNCHANGED <<files, ledger, mem>>
    BY <1>2, <2>1
  <2>2. CASE ~UNCHANGED <<files, ledger, mem>>
    <3>1. PICK r : files' = files /\ Stores(p, With(p, mem[p].resources \ {r}))
      BY <1>6, <2>2, WriteStageStores, WriteFailsStores DEF CleanMissing, world
    <3>2. mem[p].resources \ {r} \in SUBSET (Resources \ Foreign)
      BY CopyTyped
    <3> QED BY <1>3, <3>1, <3>2
  <2> QED BY <2>1, <2>2
<1>7. CASE CleanEach(p)
  BY <1>2, <1>7, RefuseKeepsData DEF CleanEach
<1>8. CASE CleanRecord(p)
  <2>1. files' = files /\ Stores(p, With(p, mem[p].resources \ {clean[p]}))
    BY <1>8, WriteStageStores, WriteFailsStores DEF CleanRecord, world
  <2>2. mem[p].resources \ {clean[p]} \in SUBSET (Resources \ Foreign)
    BY CopyTyped
  <2> QED BY <1>3, <2>1, <2>2
<1> QED BY <1>4, <1>5, <1>6, <1>7, <1>8

LEMMA RecordingKept ==
  ASSUME TypeOK, NEW p \in Processes, Record(p) \/ Poll(p)
  PROVE  ArtifactsKept(p)
<1>1. Busy(p) /\ files' = files
  BY RefuseKeepsData DEF Busy, Record, Poll, Doing, world
<1>2. CASE Recorded(p, Here(p).on)
  <2>1. (mem[p].resources \ Project(Here(p).on)) \cup Discovered(Here(p).on) \subseteq Resources \ Foreign
    BY CopyTyped, DiscoveredIsOwn
  <2>2. Stores(p, With(p, (mem[p].resources \ Project(Here(p).on)) \cup Discovered(Here(p).on)))
    BY <1>2, RecordedTyped
  <2> QED BY <1>1, <2>1, <2>2, WithResources, StoresKept
<1>3. CASE ~Recorded(p, Here(p).on)
  BY <1>1, <1>3, RefuseKeepsData DEF Record, Poll, ArtifactsKept
<1> QED BY <1>2, <1>3

Plain(p) ==
  \/ Ask(p) \/ Await(p) \/ Record(p) \/ Poll(p)
  \/ CleanPhase(p) \/ CleanBegin(p) \/ CleanMissing(p) \/ CleanEach(p) \/ CleanRecord(p)
  \/ Work(p) \/ ChildEnds(p) \/ Fault(p)

LEMMA PlainFiles ==
  ASSUME TypeOK, NEW p \in Processes, MoverFiles(p), Plain(p)
  PROVE  MoverFiles(p)'
<1>1. Ordinary(p) /\ (Stays(p) \/ GoesOn(p))
  BY OrdinaryTyped DEF Plain, Ordinary, Moves
<1>2. ArtifactsKept(p)
  <2>1. CASE Ask(p) \/ Await(p) \/ Work(p) \/ ChildEnds(p) \/ Fault(p)
    BY <2>1, RefuseKeepsData DEF Ask, Await, Work, ChildEnds, Fault, world, ArtifactsKept
  <2> QED BY <2>1, CleaningKept, RecordingKept DEF Plain
<1>3. /\ Here(p).do \notin {"add", "create", "reopen"}
      /\ Here(p).do \in {"make", "remove"} => Fault(p)
  BY DEF Plain, Ask, Await, Record, Poll, CleanPhase, CleanBegin, CleanMissing, CleanEach, CleanRecord,
         Work, ChildEnds, Fault, Cleaning, Doing
<1>4. Fault(p) => Goto(p, Here(p).err)
  BY DEF Fault, Raise
<1> QED BY <1>1, <1>2, <1>3, <1>4, KeptFiles

LEMMA CreateFiles ==
  ASSUME TypeOK, OneMoves, NEW p \in Processes, MoverFiles(p), Create(p)
  PROVE  MoverFiles(p)'
<1>1. Ordinary(p) /\ Running(p)
  BY OrdinaryRuns DEF Ordinary
<1>2. at[p] = "new_ledger" /\ Busy(p)
  BY <1>1, HereSound DEF Create, Doing, Site, Here, Busy
<1>3. mem[p].artifacts = {} /\ ~Doing(p, "add")
  BY <1>2 DEF MoverFiles, FilesSound, FirstLabels, NoLedger, Create, Doing
<1>4. files \subseteq IF p = "parent" THEN {"checkout"} ELSE {}
  BY <1>2, <1>3 DEF MoverFiles, FilesSound, Pending
<1>5. /\ files' = files /\ mem'[p] = Ledger({}, {}) /\ ledger' = Ledger({}, {})
      /\ Goto(p, Here(p).next)
  BY <1>2 DEF Create, Doing, Write, Proceed, world, TypeOK
<1>6. /\ at'[p] = Here(p).next /\ Here(p)' = Program(p)[Here(p).next]
      /\ Running(p)' <=> Here(p).next # "exit"
      /\ Flow(Program(p), at[p], Here(p).next)
      /\ Here(p).next # "exit" => Here(p).next \in DOMAIN Program(p)
      /\ Busy(p)' <=> Here(p).next \notin {"exit", "child", "reopen"}
  BY <1>1, <1>5, Arrival
<1>7. Here(p).next \notin FirstLabels \cup {"child", "reopen"}
  BY <1>2, <1>6 DEF Flow, FirstLabels, Create, Doing, Here
<1>8. ~Doing(p, "drop")'
  BY <1>6 DEF Doing, Flow, Create, Here
<1>9. Ledger({}, {}).exists /\ Ledger({}, {}).artifacts = {}
  BY DEF Ledger
<1>10. p = "parent" => Doing(p, "add")' /\ Here(p)'.on = "checkout"
  BY <1>1, <1>2, <1>6, ParentSteps DEF Doing, Program
<1>11. files' \subseteq Pending(p)' \/ files' = {}
  BY <1>4, <1>5, <1>10 DEF Pending
<1>12. Busy(p)' \/ files' = {}
  BY <1>4, <1>5, <1>10 DEF Busy, Doing
<1> QED BY <1>5, <1>6, <1>7, <1>8, <1>9, <1>11, <1>12 DEF MoverFiles, FilesSound

\* An artifact that is not recorded is a lapse; otherwise copy and file have it.
LEMMA AddFiles ==
  ASSUME TypeOK, NEW p \in Processes, MoverFiles(p), Add(p), ~lapse'
  PROVE  /\ MoverFiles(p)'
         /\ mem'[p].artifacts = ledger'.artifacts /\ Here(p).on \in ledger'.artifacts
         /\ Goto(p, Here(p).next)
<1>1. Ordinary(p) /\ Running(p) /\ Busy(p) /\ Here(p).do = "add" /\ Doing(p, "add")
  BY OrdinaryRuns DEF Ordinary, Add, Doing, Busy
<1>2. ~Raise(p)
  BY <1>1 DEF Raise, CutOff
<1>3. PICK new : /\ new = [mem[p] EXCEPT !.artifacts = @ \cup {Here(p).on}]
                 /\ Write(p, new) /\ Proceed(p)
  BY <1>2 DEF Add, WriteFails
<1>4. new.artifacts = mem[p].artifacts \cup {Here(p).on} /\ new.exists = mem[p].exists
  BY <1>3, CopyTyped DEF Ledgers
<1>5. mem'[p] = new /\ ledger' = new /\ files' = files
  BY <1>3 DEF Write, TypeOK, Add, world
<1>6. Goto(p, Here(p).next)
  BY <1>1, <1>3 DEF Proceed
<1>7. /\ at'[p] = Here(p).next /\ Here(p)' = Program(p)[Here(p).next]
      /\ Running(p)' <=> Here(p).next # "exit"
      /\ Flow(Program(p), at[p], Here(p).next)
      /\ Here(p).next # "exit" => Here(p).next \in DOMAIN Program(p)
  BY <1>1, <1>6, Arrival
<1>8. at[p] \notin FirstLabels
  BY <1>1, HereSound DEF FirstLabels, Site, Here
<1>9. Here(p).next \notin FirstLabels /\ ~Doing(p, "drop")'
  BY <1>1, <1>7, <1>8 DEF Flow, FirstLabels, Doing, Here
<1>10. files \subseteq new.artifacts /\ mem[p].exists
  <2>1. Pending(p) = {Here(p).on}
    BY <1>1, <1>8 DEF Pending, FirstLabels
  <2> QED BY <1>1, <1>4, <1>8, <2>1 DEF MoverFiles, FilesSound
<1> QED BY <1>4, <1>5, <1>6, <1>7, <1>9, <1>10 DEF MoverFiles, FilesSound

LEMMA AddGrows ==
  ASSUME TypeOK, NEW p \in Processes, Add(p)
  PROVE  mem[p].artifacts \subseteq mem'[p].artifacts
<1>1. PICK new : new = [mem[p] EXCEPT !.artifacts = @ \cup {Here(p).on}] /\ mem'[p] = new
  BY DEF Add, Write, WriteFails, TypeOK
<1> QED BY <1>1, CopyTyped DEF Ledgers

\* Leaving "remove", "drop" or "artifacts": nothing is pending there.
LEMMA PassFiles ==
  ASSUME TypeOK, NEW p \in Processes, Ordinary(p), MoverFiles(p),
         Here(p).do \in {"remove", "drop", "artifacts"},
         files' \subseteq mem'[p].artifacts, mem'[p].artifacts \subseteq ledger'.artifacts,
         mem'[p].exists = mem[p].exists,
         Stays(p) \/ GoesOn(p),
         Doing(p, "drop")' => Here(p)'.on \notin files'
  PROVE  MoverFiles(p)'
<1>1. Running(p) /\ Site(Program(p), at[p]) /\ Busy(p)
  BY OrdinaryRuns, HereSound DEF Busy
<1>2. at[p] \notin FirstLabels
  BY <1>1 DEF FirstLabels, Site, Here
<1>3. at'[p] \notin FirstLabels
  <2>1. CASE Stays(p)
    BY <1>2, <2>1 DEF Stays
  <2>2. CASE GoesOn(p)
    <3>1. PICK k \in {Here(p).next, Here(p).err} : Goto(p, k)
      BY <2>2 DEF GoesOn
    <3>2. at'[p] = k /\ Flow(Program(p), at[p], k)
      BY <3>1, Arrival
    <3> QED BY <1>2, <3>2 DEF Flow, FirstLabels
  <2> QED BY <2>1, <2>2
<1>4. mem[p].exists
  BY <1>1, <1>2 DEF MoverFiles, FilesSound
<1> QED BY <1>3, <1>4 DEF MoverFiles, FilesSound

LEMMA PendingNothing ==
  ASSUME TypeOK, NEW p \in Processes, Running(p), MoverFiles(p),
         Here(p).do \in {"remove", "drop", "artifacts", "finish"}
  PROVE  files \subseteq mem[p].artifacts /\ mem[p].artifacts \subseteq ledger.artifacts
<1>1. Pending(p) = {} /\ Busy(p)
  BY HereSound DEF Pending, Doing, Site, Here, Busy
<1> QED BY <1>1 DEF MoverFiles, FilesSound

\* "drop" is reached only by removing the artifact.
LEMMA DropAfterRemove ==
  ASSUME TypeOK, NEW p \in Processes, Ordinary(p), GoesOn(p), Doing(p, "drop")'
  PROVE  Here(p).do = "remove" /\ Here(p)'.on = Here(p).on /\ ~Goto(p, Here(p).err)
<1>1. PICK k \in {Here(p).next, Here(p).err} : Goto(p, k)
  BY DEF GoesOn
<1>2. /\ at'[p] = k /\ Here(p)' = Program(p)[k]
      /\ Flow(Program(p), at[p], k) /\ (k # "exit" => k \in DOMAIN Program(p))
      /\ Running(p)' <=> k # "exit"
  BY <1>1, Arrival
<1>3. Here(p).do = "remove" /\ Here(p)'.on = Here(p).on /\ k # Here(p).err
  BY <1>2 DEF Flow, Doing, Here
<1>4. ~Goto(p, Here(p).err)
  BY <1>2, <1>3 DEF Goto, TypeOK
<1> QED BY <1>3, <1>4

LEMMA DropFiles ==
  ASSUME TypeOK, NEW p \in Processes, MoverFiles(p), Drop(p)
  PROVE  /\ MoverFiles(p)'
         /\ mem[p].artifacts \ {Here(p).on} \subseteq mem'[p].artifacts
<1>1. Ordinary(p) /\ Running(p) /\ Here(p).do = "drop"
  BY OrdinaryRuns DEF Ordinary, Drop, Doing
<1>2. GoesOn(p) /\ files' = files
  BY ProceedMoves, RaiseMoves DEF Drop, WriteFails, Refuse, world
<1>3. /\ files \subseteq mem[p].artifacts /\ mem[p].artifacts \subseteq ledger.artifacts
      /\ Here(p).on \notin files
  BY <1>1, PendingNothing DEF MoverFiles, FilesSound, Drop
<1>4. ~Doing(p, "drop")'
  BY <1>1, <1>2, DropAfterRemove
<1>5. /\ files' \subseteq mem'[p].artifacts /\ mem'[p].artifacts \subseteq ledger'.artifacts
      /\ mem'[p].exists = mem[p].exists
      /\ mem[p].artifacts \ {Here(p).on} \subseteq mem'[p].artifacts
  <2>1. CASE UNCHANGED <<mem, ledger>>
    BY <1>2, <1>3, <2>1
  <2>2. CASE ~UNCHANGED <<mem, ledger>>
    <3>1. PICK new : /\ new = [mem[p] EXCEPT !.artifacts = @ \ {Here(p).on}] /\ Stores(p, new)
      BY <2>2, RefuseKeepsData, WriteProceedStores, WriteFailsStores DEF Drop
    <3>2. new.artifacts = mem[p].artifacts \ {Here(p).on} /\ new.exists = mem[p].exists
      BY <3>1, CopyTyped DEF Ledgers
    <3>3. mem'[p] = new /\ ledger' \in {ledger, new}
      BY <3>1 DEF Stores, TypeOK
    <3> QED BY <1>2, <1>3, <3>2, <3>3
  <2> QED BY <2>1, <2>2
<1> QED BY <1>1, <1>2, <1>4, <1>5, PassFiles

LEMMA DropKeepsResources ==
  ASSUME TypeOK, NEW p \in Processes, Drop(p)
  PROVE  mem'[p].resources = mem[p].resources
<1>1. CASE mem' = mem
  BY <1>1
<1>2. CASE mem' # mem
  <2>1. mem' = [mem EXCEPT ![p] = [mem[p] EXCEPT !.artifacts = @ \ {Here(p).on}]]
    BY <1>2, RefuseKeepsData DEF Drop, Write, WriteFails
  <2> QED BY <2>1, CopyTyped DEF TypeOK, Ledgers
<1> QED BY <1>1, <1>2

LEMMA RemoveFiles ==
  ASSUME TypeOK, NEW p \in Processes, MoverFiles(p), Remove(p)
  PROVE  MoverFiles(p)'
<1>1. Ordinary(p) /\ Running(p) /\ Here(p).do = "remove"
  BY OrdinaryRuns DEF Ordinary, Remove, Doing
<1>2. GoesOn(p)
  BY ProceedMoves DEF Remove, GoesOn
<1>3. files \subseteq mem[p].artifacts /\ mem[p].artifacts \subseteq ledger.artifacts
  BY <1>1, PendingNothing
<1>4. UNCHANGED <<mem, ledger>> /\ files' \subseteq files
  BY DEF Remove
<1>5. Doing(p, "drop")' => Here(p)'.on \notin files'
  BY <1>1, <1>2, DropAfterRemove DEF Remove
<1> QED BY <1>1, <1>2, <1>3, <1>4, <1>5, PassFiles

LEMMA RemoveRecordedFiles ==
  ASSUME TypeOK, NEW p \in Processes, MoverFiles(p), RemoveRecorded(p)
  PROVE  MoverFiles(p)'
<1>1. Ordinary(p) /\ Running(p) /\ Here(p).do = "artifacts"
  BY OrdinaryRuns DEF Ordinary, RemoveRecorded, Doing
<1>2. Stays(p) \/ GoesOn(p)
  BY RemoveRecordedTyped DEF Moves
<1>3. files \subseteq mem[p].artifacts /\ mem[p].artifacts \subseteq ledger.artifacts
  BY <1>1, PendingNothing
<1>4. ~Doing(p, "drop")'
  <2>1. CASE Stays(p)
    BY <1>1, <2>1, HereAfter DEF Doing
  <2>2. CASE GoesOn(p)
    BY <1>1, <2>2, DropAfterRemove
  <2> QED BY <1>2, <2>1, <2>2
<1>5. /\ files' \subseteq mem'[p].artifacts /\ mem'[p].artifacts \subseteq ledger'.artifacts
      /\ mem'[p].exists = mem[p].exists
  <2>1. CASE UNCHANGED <<mem, ledger>> /\ files' \subseteq files
    BY <1>3, <2>1
  <2>2. CASE ~(UNCHANGED <<mem, ledger>> /\ files' \subseteq files)
    <3>1. PICK f \in mem[p].artifacts \ files :
            /\ Stores(p, [mem[p] EXCEPT !.artifacts = @ \ {f}])
            /\ files' = files
      BY <2>2, WriteFailsStores DEF RemoveRecorded, Write, Stores
    <3>2. PICK new : new = [mem[p] EXCEPT !.artifacts = @ \ {f}] /\ Stores(p, new)
      BY <3>1
    <3>3. new.artifacts = mem[p].artifacts \ {f} /\ new.exists = mem[p].exists
      BY <3>2, CopyTyped DEF Ledgers
    <3>4. mem'[p] = new /\ ledger' \in {ledger, new}
      BY <3>2 DEF Stores, TypeOK
    <3> QED BY <1>3, <3>1, <3>3, <3>4
  <2> QED BY <2>1, <2>2
<1> QED BY <1>1, <1>2, <1>4, <1>5, PassFiles

LEMMA MakeFiles ==
  ASSUME TypeOK, OneMoves, NEW p \in Processes, MoverFiles(p), Make(p)
  PROVE  MoverFiles(p)'
<1>1. Ordinary(p) /\ Running(p) /\ Here(p).do = "make" /\ Busy(p)
  BY OrdinaryRuns DEF Ordinary, Make, Doing, Busy
<1>2. Goto(p, Here(p).next) /\ UNCHANGED <<mem, ledger>> /\ files' = files \cup {Here(p).on}
  BY <1>1 DEF Make, Proceed
<1>3. /\ at'[p] = Here(p).next /\ Here(p)' = Program(p)[Here(p).next]
      /\ Running(p)' <=> Here(p).next # "exit"
      /\ Flow(Program(p), at[p], Here(p).next)
      /\ Busy(p)' <=> Here(p).next \notin {"exit", "child", "reopen"}
      /\ Here(p).next # "exit" => Site(Program(p), Here(p).next)
  BY <1>1, <1>2, Arrival
<1>4. files \subseteq mem[p].artifacts /\ mem[p].artifacts \subseteq ledger.artifacts
  <2>1. Pending(p) = {}
    BY <1>1, HereSound DEF Pending, Doing, Site, Here
  <2> QED BY <1>1, <2>1 DEF MoverFiles, FilesSound
<1>5. CASE at[p] = "mk_checkout"
  <2>1. p = "parent"
    BY <1>1, <1>5, OnlyRunner, RecoverySteps DEF Processes
  <2>2. Here(p).next = "new_ledger" /\ Here(p).on = "checkout"
    BY <1>1, <1>5, <2>1, ParentSteps, HereSound DEF Site, Here
  <2>3. mem[p] = NoLedger
    BY <1>5 DEF MoverFiles, FilesSound, FirstLabels
  <2>4. Site(Program(p), "new_ledger") /\ at'[p] = "new_ledger" /\ Busy(p)'
    BY <1>3, <2>2
  <2>5. Here(p)'.do = "create"
    BY <1>3, <2>2, <2>4 DEF Site
  <2>6. Pending(p)' = {"checkout"}
    BY <2>1, <2>4, <2>5 DEF Pending, Doing
  <2> QED BY <1>2, <1>4, <2>2, <2>3, <2>4, <2>5, <2>6 DEF MoverFiles, FilesSound, FirstLabels, Doing
<1>6. CASE at[p] # "mk_checkout"
  <2>1. /\ Here(p).next \in DOMAIN Program(p) /\ Here(p)'.do = "add" /\ Here(p)'.on = Here(p).on
    BY <1>1, <1>3, <1>6, HereAhead DEF Ahead, Here
  <2>2. Here(p).next # "exit"
    <3>1. Program(p) \in Programs
      BY DEF Program, Programs, Processes
    <3>2. Site(Program(p), Here(p).next)
      BY <2>1, <3>1, SitesOfPrograms
    <3> QED BY <3>2 DEF Site, Ended
  <2>3. Here(p).next \notin FirstLabels /\ at[p] \notin FirstLabels
    BY <1>1, <1>3, <1>6, HereSound DEF Flow, FirstLabels, Site, Here
  <2>4. Doing(p, "add")' /\ ~Doing(p, "drop")'
    BY <1>3, <2>1, <2>2 DEF Doing
  <2>5. Pending(p)' = {Here(p).on}
    BY <1>3, <2>1, <2>3, <2>4 DEF Pending, FirstLabels
  <2>6. Busy(p)' /\ mem[p].exists
    BY <1>1, <2>1, <2>3, <2>4 DEF MoverFiles, FilesSound, Busy, Doing
  <2>7. /\ files' \subseteq mem'[p].artifacts \cup Pending(p)'
        /\ mem'[p].artifacts \subseteq ledger'.artifacts
    BY <1>2, <1>4, <2>5
  <2>8. at'[p] \notin FirstLabels /\ mem'[p].exists
    BY <1>2, <1>3, <2>3, <2>6
  <2> QED BY <2>4, <2>6, <2>7, <2>8 DEF MoverFiles, FilesSound
<1> QED BY <1>5, <1>6

LEMMA FinishFiles ==
  ASSUME TypeOK, NEW p \in Processes, MoverFiles(p), Finish(p)
  PROVE  MoverFiles(p)' /\ at'[p] = "exit"
<1>1. Ordinary(p) /\ Running(p) /\ Here(p).do = "finish"
  BY OrdinaryRuns DEF Ordinary, Finish, Doing
<1>2. PICK k \in {Here(p).next, Here(p).err} : Goto(p, k)
  BY ProceedMoves DEF Finish, GoesOn
<1>3. at'[p] = "exit"
  BY <1>1, <1>2, Arrival DEF Flow, Here
<1>4. files \subseteq mem[p].artifacts /\ mem[p].artifacts \subseteq ledger.artifacts
  BY <1>1, PendingNothing
<1>5. files' = files /\ (ledger' = ledger \/ mem[p].artifacts = {})
  BY DEF Finish, world
<1> QED BY <1>3, <1>4, <1>5 DEF MoverFiles, FilesSound, Busy, Running, Ended, FirstLabels, Doing

LEMMA ReopenFiles ==
  ASSUME TypeOK, NEW p \in Processes, MoverFiles(p), Reopen(p), ledger.exists
  PROVE  MoverFiles(p)' /\ mem'[p] = ledger
<1>1. Ordinary(p) /\ Running(p) /\ Here(p).do = "reopen" /\ ~Busy(p)
  BY OrdinaryRuns DEF Ordinary, Reopen, Doing, Busy
<1>2. GoesOn(p) /\ UNCHANGED <<files, ledger>> /\ mem'[p] = ledger
  BY ReopenTyped DEF Reopen, GoesOn, world, TypeOK
<1>3. files \subseteq ledger.artifacts
  BY <1>1 DEF MoverFiles
<1>4. PICK k \in {Here(p).next, Here(p).err} : Goto(p, k)
  BY <1>2 DEF GoesOn
<1>5. at'[p] = k /\ Flow(Program(p), at[p], k)
  BY <1>1, <1>4, Arrival
<1>6. k \notin FirstLabels
  BY <1>1, <1>5, HereSound DEF Flow, FirstLabels, Site, Here
<1>7. ~Doing(p, "drop")'
  BY <1>1, <1>2, DropAfterRemove
<1> QED BY <1>2, <1>3, <1>5, <1>6, <1>7 DEF MoverFiles, FilesSound

LEMMA MoverOf ==
  ASSUME TypeOK, OneMoves, FilesRecorded, NEW p \in Processes, Ordinary(p)
  PROVE  MoverFiles(p)
BY Alone DEF FilesRecorded, MoverFiles

LEMMA MoverKeepsFiles ==
  ASSUME TypeOK, OneMoves, FilesRecorded, NoLedgerNoEffect, NEW p \in Processes, Ordinary(p), ~lapse'
  PROVE  MoverFiles(p)'
<1>1. MoverFiles(p)
  BY MoverOf
<1>2. CASE Reopen(p)
  <2>1. Running(p) /\ at[p] = "reopen"
    BY <1>2, HereSound DEF Reopen, Doing, Site, Here
  <2>2. ledger.exists
    BY <2>1 DEF NoLedgerNoEffect, FirstLabels
  <2> QED BY <1>1, <1>2, <2>2, ReopenFiles
<1> QED
  BY <1>1, <1>2, PlainFiles, CreateFiles, AddFiles, DropFiles, FinishFiles, MakeFiles, RemoveFiles,
     RemoveRecordedFiles DEF Ordinary, Plain

LEMMA CheckoutStaysKept ==
  ASSUME TypeOK, OneMoves, FilesRecorded, NEW p \in Processes, Ordinary(p), ~lapse'
  PROVE  CheckoutKept'
<1>1. SUFFICES ASSUME at'["parent"] = "child" PROVE CheckoutKept'
  BY DEF CheckoutKept
<1>2. Running(p) /\ Running("parent")' /\ MoverFiles(p)
  BY <1>1, OrdinaryRuns, MoverOf DEF Running, Ended
<1>3. CASE p = "parent"
  <2>1. at["parent"] # "child"
    <3>1. SUFFICES ASSUME at["parent"] = "child" PROVE FALSE
      OBVIOUS
    <3>2. Here(p).do = "child"
      BY <1>2, <1>3, <3>1, HereSound DEF Site, Here
    <3>3. Goto(p, Here(p).next) \/ Goto(p, Here(p).err)
      <4>1. CASE Fault(p)
        BY <4>1 DEF Fault, Raise
      <4>2. CASE ~Fault(p)
        BY <3>2, <4>2, ByInstruction, ProceedMoves, RefuseKeepsData, RaiseMoves DEF ChildEnds, GoesOn
      <4> QED BY <4>1, <4>2
    <3> QED BY <1>1, <1>2, <1>3, <3>1, <3>3, ParentSteps DEF Goto, TypeOK
  <2>2. PICK k \in {Here(p).next, Here(p).err} : Goto(p, k)
    BY <1>1, <1>3, <2>1, OrdinaryTyped DEF Moves, Stays, GoesOn
  <2>3. k = "child" /\ at[p] = "add_checkout" /\ k # Here(p).err /\ Here(p).do = "add"
    BY <1>1, <1>3, <2>2, Arrival DEF Flow, Here
  <2>4. Add(p)
    <3>1. ~Fault(p)
      BY <2>3 DEF Fault
    <3> QED BY <2>3, <3>1, ByInstruction
  <2>5. Here(p).on = "checkout"
    BY <1>2, <1>3, <2>3, ParentSteps
  <2>6. "checkout" \in ledger'.artifacts
    BY <1>2, <2>4, <2>5, AddFiles
  <2>7. ~Running("runner")
    BY <1>2, <1>3, <2>1 DEF OneMoves
  <2>8. ~Running("runner")'
    BY <1>3, <2>7, Alone DEF Processes
  <2> QED BY <2>6, <2>8 DEF CheckoutKept
<1>4. CASE p # "parent"
  <2>1. at["parent"] = "child" /\ Running("parent")
    BY <1>1, <1>4, Alone DEF Processes, Running, Ended
  <2>2. p = "runner"
    BY <1>2, <1>4, <2>1 DEF OneMoves, Processes
  <2>3. "checkout" \in mem[p].artifacts
    <3>1. CheckoutKept /\ Running("runner")
      BY <1>2, <2>2 DEF FilesRecorded
    <3> QED BY <2>1, <2>2, <3>1 DEF CheckoutKept
  <2>4. at'["runner"] # "idle"
    <3>1. CASE Stays(p)
      BY <1>2, <2>2, <3>1 DEF Stays, Running, Ended
    <3>2. CASE GoesOn(p)
      <4>1. PICK k \in {Here(p).next, Here(p).err} : Goto(p, k)
        BY <3>2 DEF GoesOn
      <4>2. at'[p] = k /\ (k # "exit" => Site(Program(p), k))
        BY <4>1, Arrival
      <4> QED BY <2>2, <4>2 DEF Site, Ended
    <3> QED BY <3>1, <3>2, OrdinaryTyped DEF Moves
  <2>5. "checkout" \in mem'[p].artifacts
    <3>1. CASE Plain(p)
      <4>1. ArtifactsKept(p)
        <5>1. CASE Ask(p) \/ Await(p) \/ Work(p) \/ ChildEnds(p) \/ Fault(p)
          BY <5>1, RefuseKeepsData DEF Ask, Await, Work, ChildEnds, Fault, world, ArtifactsKept
        <5> QED BY <3>1, <5>1, CleaningKept, RecordingKept DEF Plain
      <4> QED BY <2>3, <4>1 DEF ArtifactsKept
    <3>2. ~Create(p)
      <4>1. SUFFICES ASSUME Create(p) PROVE FALSE
        OBVIOUS
      <4>2. at[p] \in FirstLabels
        BY <1>2, <4>1, HereSound DEF Create, Doing, Site, Here, FirstLabels
      <4> QED BY <1>2, <2>3, <4>2 DEF MoverFiles, FilesSound, NoLedger
    <3>3. ~RemoveRecorded(p) /\ ~Reopen(p)
      <4>1. ~RemoveRecorded(p)
        BY <1>2, <2>2, OnlyRunner DEF RemoveRecorded, Doing
      <4>2. ~Reopen(p)
        <5>1. SUFFICES ASSUME Reopen(p) PROVE FALSE
          OBVIOUS
        <5>2. at[p] = "reopen"
          BY <1>2, <5>1, HereSound DEF Reopen, Doing, Site, Here
        <5>3. "reopen" \notin DOMAIN Automated \cup DOMAIN Human
          BY DEF Automated, Human
        <5> QED BY <1>2, <2>2, <5>2, <5>3, HereSound DEF Program
      <4> QED BY <4>1, <4>2
    <3>4. CASE Add(p)
      BY <1>2, <2>3, <3>4, AddGrows
    <3>5. CASE Drop(p)
      BY <1>2, <2>2, <2>3, <3>5, DropFiles, OnlyRunner DEF Drop, Doing
    <3>6. CASE Finish(p) \/ Make(p) \/ Remove(p)
      BY <2>3, <3>6 DEF Finish, Make, Remove
    <3> QED BY <3>1, <3>2, <3>3, <3>4, <3>5, <3>6 DEF Ordinary, Plain
  <2> QED BY <2>2, <2>4, <2>5 DEF CheckoutKept
<1> QED BY <1>3, <1>4

LEMMA OrdinaryKeepsFiles ==
  ASSUME TypeOK, OneMoves, FilesRecorded, NoLedgerNoEffect, NEW p \in Processes, Ordinary(p), ~lapse'
  PROVE  FilesRecorded'
<1>1. MoverFiles(p)' /\ CheckoutKept'
  BY MoverKeepsFiles, CheckoutStaysKept
<1>2. ASSUME NEW q \in Processes \ {p} PROVE FilesSound(q)'
  <2>1. ~Busy(q) /\ ~Busy(q)' /\ at'[q] = at[q]
    BY Alone
  <2>2. at'[q] \notin FirstLabels
    BY <2>1, FirstLabelsBusy
  <2> QED BY <2>1, <2>2 DEF FilesSound, Busy, Doing
<1>3. (\A q \in Processes : ~Busy(q)') => files' \subseteq ledger'.artifacts
  BY <1>1 DEF MoverFiles
<1>4. \A q \in Processes : FilesSound(q)'
  BY <1>1, <1>2 DEF MoverFiles
<1> QED BY <1>1, <1>3, <1>4 DEF FilesRecorded

-----------------------------------------------------------------------------
(* The resources and their records *)

LEMMA NothingAsked ==
  ASSUME TypeOK, OneMoves, DaemonAwaited, NEW p \in Processes, Ordinary(p), ~Await(p)
  PROVE  daemon = {}
<1>1. SUFFICES ASSUME NEW r \in daemon PROVE FALSE
  OBVIOUS
<1>2. PICK q \in Processes : Doing(q, "await")
  BY DEF DaemonAwaited
<1>3. Busy(q)
  BY <1>2 DEF Busy, Doing
<1>4. q = p
  BY <1>3, Alone
<1>5. ~Fault(p)
  BY <1>2, <1>4 DEF Doing, Fault
<1> QED BY <1>2, <1>4, <1>5, ByInstruction DEF Doing

LEMMA DaemonStaysAwaited ==
  ASSUME TypeOK, OneMoves, DaemonAwaited, NEW p \in Processes, Ordinary(p), ~lapse'
  PROVE  DaemonAwaited'
<1>1. CASE Ask(p)
  <2>1. Running(p) /\ Here(p).do = "ask"
    BY <1>1 DEF Ask, Doing
  <2>2. daemon' = Here(p).on /\ Goto(p, Here(p).next)
    <3>1. ~Await(p)
      BY <2>1 DEF Await, Doing
    <3> QED BY <1>1, <2>1, <3>1, NothingAsked DEF Ask, Proceed
  <2>3. /\ Here(p).next \in DOMAIN Program(p) /\ Program(p)[Here(p).next].do = "await"
        /\ Here(p).on \subseteq Project(Program(p)[Here(p).next].on)
    BY <2>1, HereAhead DEF Ahead, Here
  <2>4. Here(p)' = Program(p)[Here(p).next] /\ (Running(p)' <=> Here(p).next # "exit")
    BY <2>2, Arrival
  <2>5. Here(p).next # "exit"
    <3>1. Program(p) \in Programs
      BY DEF Program, Programs, Processes
    <3> QED BY <2>3, <3>1, SitesOfPrograms DEF Site, Ended
  <2>6. \A r \in daemon' : Doing(p, "await")' /\ r \in Project(Here(p)'.on)
    BY <2>2, <2>3, <2>4, <2>5 DEF Doing
  <2>7. Project(Here(p).on)' = Project(Here(p)'.on)
    BY DEF Project
  <2> QED BY <2>6, <2>7 DEF DaemonAwaited
<1>2. CASE Await(p)
  <2>1. daemon \subseteq Project(Here(p).on)
    <3>1. \A q \in Processes : Doing(q, "await") => q = p
      BY Alone DEF Doing, Busy
    <3> QED BY <3>1 DEF DaemonAwaited
  <2>2. daemon' = {}
    BY <1>2, <2>1 DEF Await, Raise, CutOff
  <2> QED BY <2>2 DEF DaemonAwaited
<1>3. CASE ~Ask(p) /\ ~Await(p)
  <2>1. daemon' = daemon
    BY <1>3 DEF Ordinary, Create, Add, Drop, Finish, Record, Poll, CleanPhase, CleanBegin,
       CleanMissing, CleanEach, CleanRecord, Make, Work, Remove, RemoveRecorded, ChildEnds, Reopen,
       Fault, Refuse, world
  <2> QED BY <1>3, <2>1, NothingAsked DEF DaemonAwaited
<1> QED BY <1>1, <1>2, <1>3

\* A clean-up that comes to its end has left nothing of the project.
LEMMA CleanUpDone ==
  ASSUME TypeOK, NEW p \in Processes, Ordinary(p), GoesOn(p), Here(p).do = "clean", ~Raise(p)
  PROVE  /\ docker' \cap Project(Here(p).on) = {} /\ mem' = mem
         /\ Goto(p, Here(p).next)
<1>1. CASE CleanPhase(p) \/ CleanBegin(p) \/ CleanRecord(p) \/ CleanMissing(p)
  <2>1. PICK s : Stage(p, s)
    BY <1>1 DEF CleanPhase, CleanBegin, CleanRecord, CleanMissing, WriteFails, Refuse
  <2>2. Here(p).next # at[p] /\ Here(p).err # at[p]
    <3>1. Running(p)
      BY OrdinaryRuns
    <3> QED BY <3>1, CleanMovesOn
  <2>3. at' = at
    BY <2>1 DEF Stage
  <2> QED BY <2>2, <2>3 DEF GoesOn, Goto, TypeOK
<1>2. CASE CleanEach(p)
  <2>1. CASE \E r : Stage(p, r)
    <3>1. Here(p).next # at[p] /\ Here(p).err # at[p]
      <4>1. Running(p)
        BY OrdinaryRuns
      <4> QED BY <4>1, CleanMovesOn
    <3> QED BY <2>1, <3>1 DEF GoesOn, Goto, Stage, TypeOK
  <2>2. CASE ~\E r : Stage(p, r)
    <3>1. /\ ~Mixed(Here(p).on) /\ Discovered(Here(p).on) = Mine(p) /\ Mine(p) = {}
          /\ Proceed(p) /\ UNCHANGED <<docker, mem>>
      BY <1>2, <2>2 DEF CleanEach, Refuse
    <3>2. docker \cap Project(Here(p).on) = {}
      BY <3>1 DEF Mixed, Discovered, Listed
    <3> QED BY <3>1, <3>2 DEF Proceed
  <2> QED BY <2>1, <2>2
<1>3. ~Fault(p)
  BY DEF Fault
<1> QED BY <1>1, <1>2, <1>3, ByInstruction

\* What a step takes out of a copy belongs to the project it works on.
LEMMA RecordsLeft ==
  ASSUME TypeOK, CopyIsFile, NEW p \in Processes, Ordinary(p), ~Create(p), ~Reopen(p),
         NEW r \in mem[p].resources, r \notin mem'[p].resources
  PROVE  /\ Here(p).do \in {"record", "poll", "clean", "confirm"}
         /\ r \in Project(Here(p).on)
<1>1. mem' # mem
  OBVIOUS
<1>2. CASE Add(p) \/ Drop(p) \/ RemoveRecorded(p)
  <2>1. PICK A : mem' = [mem EXCEPT ![p] = [mem[p] EXCEPT !.artifacts = A]]
    BY <1>1, <1>2, RefuseKeepsData DEF Add, Drop, RemoveRecorded, Write, WriteFails
  <2> QED BY <2>1 DEF TypeOK, Ledgers
<1>3. ASSUME NEW R, R \subseteq Resources \ Foreign,
             Stores(p, With(p, R)), \A x \in mem[p].resources \ R : x \in Project(Here(p).on)
      PROVE  r \in Project(Here(p).on)
  <2>1. mem'[p] = With(p, R)
    BY <1>3, WithResources, StoresTyped
  <2>2. mem'[p].resources = R
    BY <1>3, <2>1, WithResources
  <2> QED BY <1>3, <2>2
<1>4. CASE Record(p) \/ Poll(p)
  <2> DEFINE R == (mem[p].resources \ Project(Here(p).on)) \cup Discovered(Here(p).on)
  <2>1. R \subseteq Resources \ Foreign
    BY CopyTyped, DiscoveredIsOwn
  <2>2. Recorded(p, Here(p).on)
    BY <1>1, <1>4, RefuseKeepsData DEF Record, Poll
  <2>3. Stores(p, With(p, R))
    BY <2>2, RecordedTyped
  <2>4. r \in Project(Here(p).on)
    BY <1>3, <2>1, <2>3
  <2> QED BY <1>4, <2>4 DEF Record, Poll, Doing
<1>5. CASE CleanPhase(p)
  BY <1>1, <1>5, CleanPhaseTyped DEF Stores, TypeOK
<1>6. CASE CleanBegin(p)
  <2> DEFINE R == mem[p].resources \cup Discovered(Here(p).on)
  <2>1. R \subseteq Resources \ Foreign
    BY CopyTyped, DiscoveredIsOwn
  <2>2. Stores(p, With(p, R))
    BY <1>1, <1>6, RefuseKeepsData, WriteStageStores, WriteFailsStores DEF CleanBegin
  <2>3. r \in Project(Here(p).on)
    BY <1>3, <2>1, <2>2
  <2> QED BY <1>6, <2>3 DEF CleanBegin, Cleaning, Doing
<1>7. CASE CleanMissing(p)
  <2>1. PICK x \in Mine(p) : Stores(p, With(p, mem[p].resources \ {x}))
    BY <1>1, <1>7, RefuseKeepsData, WriteStageStores, WriteFailsStores DEF CleanMissing
  <2>2. mem[p].resources \ {x} \subseteq Resources \ Foreign
    BY CopyTyped
  <2>3. x \in Project(Here(p).on)
    BY DEF Mine
  <2>4. r \in Project(Here(p).on)
    BY <1>3, <2>1, <2>2, <2>3
  <2> QED BY <1>7, <2>4 DEF CleanMissing, Cleaning, Doing
<1>8. CASE CleanRecord(p)
  <2>1. Stores(p, With(p, mem[p].resources \ {clean[p]}))
    BY <1>8, WriteStageStores, WriteFailsStores DEF CleanRecord
  <2>2. mem[p].resources \ {clean[p]} \subseteq Resources \ Foreign
    BY CopyTyped
  <2>3. clean[p] \in Project(Here(p).on)
    BY <1>8 DEF CleanRecord, CopyIsFile, CopySound, Stages
  <2>4. r \in Project(Here(p).on)
    BY <1>3, <2>1, <2>2, <2>3
  <2> QED BY <1>8, <2>4 DEF CleanRecord, Cleaning, Doing
<1>9. ~CleanEach(p)
  BY <1>1, RefuseKeepsData DEF CleanEach
<1>10. ~(Finish(p) \/ Ask(p) \/ Await(p) \/ Make(p) \/ Work(p) \/ Remove(p) \/ ChildEnds(p) \/ Fault(p))
  BY <1>1, RefuseKeepsData DEF Finish, Ask, Await, Make, Work, Remove, ChildEnds, Fault
<1> QED BY <1>2, <1>4, <1>5, <1>6, <1>7, <1>8, <1>9, <1>10 DEF Ordinary

LEMMA RestoredApart ==
  Restored \cap Project("main") = {} /\ Restored \cap Foreign = {} /\ Project("restore") = Restored
BY DemoTeardownAssumption DEF Project

\* Where a process goes, it does not become idle.
LEMMA NeverIdle ==
  ASSUME TypeOK, NEW p \in Processes, Ordinary(p)
  PROVE  at'[p] # "idle" /\ at[p] # "idle"
<1>1. Running(p)
  BY OrdinaryRuns
<1>2. CASE Stays(p)
  BY <1>1, <1>2 DEF Stays, Running, Ended
<1>3. CASE GoesOn(p)
  <2>1. PICK k \in {Here(p).next, Here(p).err} : Goto(p, k)
    BY <1>3 DEF GoesOn
  <2>2. at'[p] = k /\ (k # "exit" => Site(Program(p), k))
    BY <2>1, Arrival
  <2> QED BY <1>1, <2>2 DEF Site, Running, Ended
<1> QED BY <1>2, <1>3, OrdinaryTyped DEF Moves

LEMMA RestoreStaysRecorded ==
  ASSUME TypeOK, OneMoves, CopyIsFile, RestoreRecorded, NEW p \in Processes, Ordinary(p), ~lapse'
  PROVE  RestoreRecorded'
<1>1. docker' \subseteq docker /\ mode' = mode
  BY DeletionIsMine, OrdinaryTyped DEF Moves
<1>2. CASE p # "runner"
  <2>1. at'["runner"] = at["runner"] /\ mem'["runner"] = mem["runner"]
    BY <1>2, Alone, OthersKept DEF Processes
  <2> QED BY <1>1, <2>1 DEF RestoreRecorded, Running
<1>3. CASE p = "runner"
  <2>1. Running(p)
    BY OrdinaryRuns
  <2>2. at'[p] = "new_ledger" => at[p] = "new_ledger"
    <3>1. CASE Stays(p)
      BY <3>1 DEF Stays
    <3>2. CASE GoesOn(p)
      <4>1. PICK k \in {Here(p).next, Here(p).err} : Goto(p, k)
        BY <3>2 DEF GoesOn
      <4>2. at'[p] = k /\ Flow(Program(p), at[p], k)
        BY <4>1, Arrival
      <4> QED BY <1>3, <2>1, <4>2, OnlyRunner DEF Flow
    <3> QED BY <3>1, <3>2, OrdinaryTyped DEF Moves
  <2>3. at'[p] \in {"idle", "new_ledger"} => docker' \subseteq Foreign
    BY <1>1, <1>3, <2>2, NeverIdle DEF RestoreRecorded
  <2>4. ASSUME Running(p)', at'[p] \notin RestoreLabels
        PROVE  docker' \cap Restored \subseteq mem'[p].resources
    <3>1. CASE at[p] \notin RestoreLabels
      <4>1. CASE Create(p)
        <5>1. at[p] = "new_ledger"
          BY <2>1, <4>1, HereSound DEF Create, Doing, Site, Here
        <5> QED BY <1>1, <1>3, <5>1, RestoredApart DEF RestoreRecorded
      <4>2. ~Reopen(p)
        <5>1. SUFFICES ASSUME Reopen(p) PROVE FALSE
          OBVIOUS
        <5>2. at[p] = "reopen"
          BY <2>1, <5>1, HereSound DEF Reopen, Doing, Site, Here
        <5>3. "reopen" \notin DOMAIN Automated \cup DOMAIN Human
          BY DEF Automated, Human
        <5> QED BY <1>3, <2>1, <5>2, <5>3, HereSound DEF Program
      <4>3. ASSUME ~Create(p), NEW r \in docker' \cap Restored PROVE r \in mem'[p].resources
        <5>1. r \in mem[p].resources
          BY <1>1, <1>3, <2>1, <3>1, <4>3 DEF RestoreRecorded
        <5>2. SUFFICES ASSUME r \notin mem'[p].resources PROVE FALSE
          OBVIOUS
        <5>3. /\ Here(p).do \in {"record", "poll", "clean", "confirm"}
              /\ r \in Project(Here(p).on)
          BY <4>2, <4>3, <5>1, <5>2, RecordsLeft
        <5>4. Here(p).on = "main"
          BY <1>3, <2>1, <3>1, <5>3, OnlyRunner
        <5> QED BY <4>3, <5>3, <5>4, RestoredApart
      <4> QED BY <4>1, <4>3
    <3>2. CASE at[p] \in RestoreLabels
      <4>1. PICK k \in {Here(p).next, Here(p).err} : Goto(p, k)
        BY <2>4, <3>2, OrdinaryTyped DEF Moves, Stays, GoesOn
      <4>2. at'[p] = k /\ Flow(Program(p), at[p], k)
        BY <4>1, Arrival
      <4>3. at[p] = "stop_restore"
        BY <2>4, <3>2, <4>2 DEF Flow
      <4>4. Here(p).do = "clean" /\ Here(p).on = "restore"
        BY <2>1, <4>3, HereSound DEF Site, Here
      <4>5. CASE Raise(p)
        BY <1>1, <4>3, <4>5 DEF Raise, CutOff
      <4>6. CASE ~Raise(p)
        <5>1. docker' \cap Project(Here(p).on) = {}
          BY <4>1, <4>4, <4>6, CleanUpDone DEF GoesOn
        <5> QED BY <4>4, <5>1, RestoredApart
      <4> QED BY <4>5, <4>6
    <3> QED BY <3>1, <3>2
  <2> QED BY <1>3, <2>3, <2>4 DEF RestoreRecorded
<1> QED BY <1>2, <1>3

LEMMA RunStaysStopped ==
  ASSUME TypeOK, OneMoves, RunStopped, NEW p \in Processes, Ordinary(p)
  PROVE  RunStopped'
<1>1. docker' \subseteq docker /\ Project("main")' = Project("main")
  BY DeletionIsMine DEF Project
<1>2. CASE p # "runner"
  <2>1. at'["runner"] = at["runner"] /\ failed'["runner"] = failed["runner"]
    BY <1>2, Alone, OthersKept DEF Processes
  <2> QED BY <1>1, <2>1 DEF RunStopped
<1>3. CASE p = "runner"
  <2>1. SUFFICES ASSUME at'[p] \in AfterStop, ~failed'[p]
                 PROVE  docker' \cap Project("main") \subseteq Foreign
    BY <1>1, <1>3 DEF RunStopped
  <2>2. ~failed[p]
    BY <2>1, OthersKept
  <2>3. CASE at[p] \in AfterStop
    BY <1>1, <1>3, <2>2, <2>3 DEF RunStopped
  <2>4. CASE at[p] \notin AfterStop
    <3>1. PICK k \in {Here(p).next, Here(p).err} : Goto(p, k)
      BY <2>1, <2>4, OrdinaryTyped DEF Moves, Stays, GoesOn
    <3>2. at'[p] = k /\ Flow(Program(p), at[p], k)
      BY <3>1, Arrival
    <3>3. at[p] = "h_stop"
      BY <2>1, <2>4, <3>2 DEF Flow
    <3>4. Here(p).do = "clean" /\ Here(p).on = "main"
      BY <3>3, HereSound, OrdinaryRuns DEF Site, Here
    <3>5. ~Raise(p)
      BY <2>1, <3>3 DEF Raise, Handlers, TypeOK
    <3>6. docker' \cap Project(Here(p).on) = {}
      BY <3>1, <3>4, <3>5, CleanUpDone DEF GoesOn
    <3> QED BY <3>4, <3>6
  <2> QED BY <2>3, <2>4
<1> QED BY <1>2, <1>3

LEMMA ParentStaysStopped ==
  ASSUME TypeOK, OneMoves, ParentStopped, NEW p \in Processes, Ordinary(p), ~lapse'
  PROVE  ParentStopped'
<1>1. docker' \subseteq docker
  BY DeletionIsMine
<1>2. SUFFICES ASSUME at'["parent"] \in {"rm_checkout", "drop_checkout", "finish"},
                      mem'["parent"].resources = {}
               PROVE  docker' \subseteq Foreign
  BY DEF ParentStopped
<1>3. CASE p # "parent"
  <2>1. at'["parent"] = at["parent"] /\ mem'["parent"] = mem["parent"]
    BY <1>3, Alone, OthersKept DEF Processes
  <2> QED BY <1>1, <1>2, <2>1 DEF ParentStopped
<1>4. CASE p = "parent"
  <2>1. Running(p)
    BY OrdinaryRuns
  <2>2. CASE at[p] = "reopen"
    <3>1. Here(p).do = "reopen"
      BY <2>1, <2>2, HereSound DEF Site, Here
    <3>2. Reopen(p)
      <4>1. ~Fault(p)
        BY <3>1 DEF Fault
      <4> QED BY <3>1, <4>1, ByInstruction
    <3>3. PICK now : /\ mem' = [mem EXCEPT ![p] = now]
                     /\ lapse' = (lapse \/ (now.resources = {} /\ (docker \cup daemon) \ Foreign # {}))
      BY <3>2 DEF Reopen
    <3>4. now.resources = {}
      BY <1>2, <1>4, <3>3 DEF TypeOK
    <3> QED BY <1>1, <3>3, <3>4
  <2>3. CASE at[p] # "reopen"
    <3>1. at[p] \in {"rm_checkout", "drop_checkout", "finish"} /\ Here(p).do # "reopen"
      <4>1. CASE Stays(p)
        BY <1>2, <1>4, <2>1, <2>3, <4>1, HereSound DEF Stays, Site, Here
      <4>2. CASE GoesOn(p)
        <5>1. PICK k \in {Here(p).next, Here(p).err} : Goto(p, k)
          BY <4>2 DEF GoesOn
        <5>2. at'[p] = k
          BY <5>1, Arrival
        <5> QED BY <1>2, <1>4, <2>1, <2>3, <5>2, ParentSteps, HereSound DEF Site, Here
      <4> QED BY <4>1, <4>2, OrdinaryTyped DEF Moves
    <3>2. at'[p] # at[p] => Here(p).do \in {"remove", "drop"}
      <4>1. SUFFICES ASSUME at'[p] # at[p] PROVE Here(p).do \in {"remove", "drop"}
        OBVIOUS
      <4>2. PICK k \in {Here(p).next, Here(p).err} : Goto(p, k)
        BY <4>1, OrdinaryTyped DEF Moves, Stays, GoesOn
      <4>3. at'[p] = k
        BY <4>2, Arrival
      <4> QED BY <1>2, <1>4, <2>1, <2>3, <4>3, ParentSteps
    <3>3. mem'[p].resources = mem[p].resources
      <4>1. CASE Drop(p)
        BY <4>1, RefuseKeepsData, DropKeepsResources
      <4>2. CASE Remove(p) \/ Fault(p) \/ Finish(p)
        BY <4>2 DEF Remove, Fault, Finish
      <4>3. Here(p).do \in {"remove", "drop", "finish"}
        BY <1>4, <2>1, <3>1, ParentAtEnd
      <4> QED BY <4>1, <4>2, <4>3, ByInstruction
    <3> QED BY <1>1, <1>2, <1>4, <3>1, <3>3 DEF ParentStopped
  <2> QED BY <2>2, <2>3
<1> QED BY <1>3, <1>4

LEMMA RecoveryStaysStopped ==
  ASSUME TypeOK, OneMoves, RecoveryStopped, NEW p \in Processes, Ordinary(p)
  PROVE  RecoveryStopped'
<1>1. docker' \subseteq docker /\ docker \subseteq Resources /\ mode' = mode
  BY DeletionIsMine, OrdinaryTyped DEF TypeOK, Moves
<1>2. CASE p # "recovery"
  <2>1. at'["recovery"] = at["recovery"]
    BY <1>2, Alone DEF Processes
  <2> QED BY <1>1, <2>1 DEF RecoveryStopped
<1>3. CASE p = "recovery"
  <2>1. Running(p)
    BY OrdinaryRuns
  <2>2. CASE Stays(p)
    BY <1>1, <2>2 DEF Stays, RecoveryStopped
  <2>3. CASE GoesOn(p)
    <3>1. PICK k \in {Here(p).next, Here(p).err} : Goto(p, k)
      BY <2>3 DEF GoesOn
    <3>2. at'[p] = k
      BY <3>1, Arrival
    <3>3. CASE at[p] = "rc_restore" /\ k # "exit"
      <4>1. Here(p).do = "clean" /\ Here(p).on = "restore" /\ k = "rc_main" /\ Here(p).err = "exit"
        BY <1>3, <2>1, <3>1, <3>3, RecoverySteps
      <4>2. ~Raise(p)
        BY <3>2, <4>1 DEF Raise, Goto, TypeOK
      <4>3. docker' \cap Restored = {}
        BY <2>3, <4>1, <4>2, CleanUpDone, RestoredApart
      <4> QED BY <1>3, <3>2, <4>1, <4>3 DEF RecoveryStopped
    <3>4. CASE at[p] = "rc_main" /\ k # "exit"
      <4>1. Here(p).do = "clean" /\ Here(p).on = "main" /\ k = "rc_artifacts" /\ Here(p).err = "exit"
        BY <1>3, <2>1, <3>1, <3>4, RecoverySteps
      <4>2. ~Raise(p)
        BY <3>2, <4>1 DEF Raise, Goto, TypeOK
      <4>3. docker' \cap Project("main") = {}
        BY <2>3, <4>1, <4>2, CleanUpDone
      <4>4. docker' \cap Restored = {}
        BY <1>1, <1>3, <3>4 DEF RecoveryStopped
      <4>5. docker' \subseteq Foreign
        BY <1>1, <4>3, <4>4 DEF Project, Resources
      <4> QED BY <1>3, <3>2, <4>1, <4>4, <4>5 DEF RecoveryStopped
    <3>5. CASE at[p] \in {"rc_artifacts", "rc_finish"}
      BY <1>1, <1>3, <3>5 DEF RecoveryStopped
    <3>6. CASE k = "exit"
      BY <1>3, <3>2, <3>6 DEF RecoveryStopped
    <3> QED BY <1>3, <2>1, <3>3, <3>4, <3>5, <3>6, RecoverySteps
  <2> QED BY <2>2, <2>3, OrdinaryTyped DEF Moves
<1> QED BY <1>2, <1>3

-----------------------------------------------------------------------------
(* The ledger goes when nothing is left *)

\* What a step writes exists like the copy it comes from.
LEMMA WrittenLedger ==
  ASSUME TypeOK, NEW p \in Processes, Ordinary(p), ~Finish(p), ~Create(p)
  PROVE  ledger' = ledger \/ (ledger'.exists = mem[p].exists /\ Here(p).do \notin {"make", "create"})
<1>1. ASSUME NEW A, Write(p, [mem[p] EXCEPT !.artifacts = A]) \/ WriteFails(p, [mem[p] EXCEPT !.artifacts = A])
      PROVE  ledger' = ledger \/ ledger'.exists = mem[p].exists
  BY <1>1 DEF Write, WriteFails, TypeOK, Ledgers
<1>2. CASE Add(p)
  BY <1>1, <1>2 DEF Add, Doing
<1>3. CASE Drop(p)
  BY <1>1, <1>3, RefuseKeepsData DEF Drop, Doing
<1>4. CASE RemoveRecorded(p)
  BY <1>1, <1>4 DEF RemoveRecorded, Doing
<1>5. CASE CleanPhase(p) \/ CleanBegin(p) \/ CleanMissing(p) \/ CleanEach(p) \/ CleanRecord(p)
  <2>1. Here(p).do \in {"clean", "confirm"}
    BY <1>5 DEF CleanPhase, CleanBegin, CleanMissing, CleanEach, CleanRecord, Cleaning, Doing
  <2> QED BY <1>5, <2>1, CleaningKept DEF ArtifactsKept
<1>6. CASE Record(p) \/ Poll(p)
  <2>1. Here(p).do \in {"record", "poll"}
    BY <1>6 DEF Record, Poll, Doing
  <2> QED BY <1>6, <2>1, RecordingKept DEF ArtifactsKept
<1>7. CASE Ask(p) \/ Await(p) \/ Make(p) \/ Work(p) \/ Remove(p) \/ ChildEnds(p) \/ Reopen(p) \/ Fault(p)
  BY <1>7, RefuseKeepsData DEF Ask, Await, Make, Work, Remove, ChildEnds, Reopen, Fault
<1> QED BY <1>2, <1>3, <1>4, <1>5, <1>6, <1>7 DEF Ordinary

\* Whoever finishes the ledger with nothing in it has cleaned up both projects.
LEMMA NothingLeftToFinish ==
  ASSUME TypeOK, ResourcesRecorded, NEW p \in Processes, Finish(p),
         ~failed[p], mem[p].resources = {}
  PROVE  docker \subseteq Foreign
<1>1. Running(p) /\ Here(p).do = "finish"
  BY DEF Finish, Doing
<1>2. CASE p = "runner"
  <2>1. at[p] = "h_finish"
    BY <1>1, <1>2, OnlyRunner
  <2>2. docker \cap Restored \subseteq {}
    BY <1>1, <1>2, <2>1 DEF ResourcesRecorded, RestoreRecorded, RestoreLabels
  <2>3. docker \cap Project("main") \subseteq Foreign
    BY <1>2, <2>1 DEF ResourcesRecorded, RunStopped, AfterStop
  <2> QED BY <2>2, <2>3 DEF TypeOK, Resources, Project
<1>3. CASE p = "parent"
  BY <1>1, <1>3, ParentSteps DEF ResourcesRecorded, ParentStopped
<1>4. CASE p = "recovery"
  BY <1>1, <1>4, RecoverySteps DEF ResourcesRecorded, RecoveryStopped
<1> QED BY <1>2, <1>3, <1>4 DEF Processes

LEMMA LedgerStaysFirst ==
  ASSUME TypeOK, OneMoves, FilesRecorded, ResourcesRecorded, NoLedgerNoEffect,
         NEW p \in Processes, Ordinary(p)
  PROVE  NoLedgerNoEffect'
<1>1. SUFFICES ASSUME ~ledger'.exists
               PROVE  /\ ledger' = NoLedger /\ docker' \subseteq Foreign
                      /\ \A q \in Processes : Running(q)' => at'[q] \in FirstLabels
  BY DEF NoLedgerNoEffect
<1>2. Running(p) /\ docker' \subseteq docker /\ MoverFiles(p)
  BY OrdinaryRuns, DeletionIsMine, MoverOf
<1>3. ~Create(p)
  BY <1>1 DEF Create, Write, Ledger
<1>4. CASE ledger.exists
  <2>1. Finish(p)
    <3>1. SUFFICES ASSUME ~Finish(p) PROVE FALSE
      OBVIOUS
    <3>2. ~mem[p].exists /\ Here(p).do \notin {"make", "create"} /\ ledger' # ledger
      BY <1>1, <1>3, <1>4, <3>1, WrittenLedger
    <3>3. at[p] \notin FirstLabels
      BY <3>2, FirstLabelsBusy
    <3>4. Busy(p)
      <4>1. ~ChildEnds(p) /\ ~Reopen(p) /\ ~Fault(p)
        BY <3>2, RefuseKeepsData DEF ChildEnds, Reopen, Fault
      <4> QED BY <1>2, <4>1, ByInstruction DEF Busy
    <3> QED BY <1>2, <3>2, <3>3, <3>4 DEF MoverFiles, FilesSound
  <2>2. /\ ledger' = NoLedger /\ ~failed[p]
        /\ mem[p].resources = {} /\ mem[p].artifacts = {}
    BY <1>1, <1>4, <2>1 DEF Finish
  <2>3. docker \subseteq Foreign
    BY <2>1, <2>2, NothingLeftToFinish
  <2>4. ~Running(p)'
    BY <1>2, <2>1, FinishFiles DEF Running, Ended
  <2>5. ASSUME NEW q \in Processes \ {p}, Running(q)' PROVE FALSE
    <3>1. Running(q)
      BY <2>5, Alone
    <3>2. p = "runner" /\ q = "parent" /\ at["parent"] = "child"
      <4>1. ~(p = "parent" /\ at[p] = "child")
        <5>1. at[p] = "child" => Here(p).do = "child"
          BY <1>2, HereSound DEF Site, Here
        <5> QED BY <2>1, <5>1 DEF Finish, Doing
      <4> QED BY <1>2, <2>5, <3>1, <4>1 DEF OneMoves, Processes
    <3>3. "checkout" \in mem["runner"].artifacts
      BY <1>2, <3>2 DEF FilesRecorded, CheckoutKept
    <3> QED BY <2>2, <3>2, <3>3
  <2> QED BY <1>2, <2>2, <2>3, <2>4, <2>5
<1>5. CASE ~ledger.exists
  <2>1. /\ ledger = NoLedger /\ docker \subseteq Foreign
        /\ \A q \in Processes : Running(q) => at[q] \in FirstLabels
    BY <1>5 DEF NoLedgerNoEffect
  <2>2. \A q \in Processes \ {p} : Running(q)' => at'[q] \in FirstLabels
    BY <2>1, Alone
  <2>3. Here(p).do \in {"make", "create"} /\ at[p] \in FirstLabels
    BY <1>2, <2>1, FirstLabelsBusy
  <2>4. Make(p) \/ Fault(p)
    BY <1>3, <2>3, ByInstruction
  <2>5. Here(p).do = "make" /\ at[p] = "mk_checkout" /\ ledger' = ledger
    <3>1. Here(p).do # "create" /\ ledger' = ledger
      BY <2>4 DEF Make, Fault, Doing
    <3> QED BY <1>2, <2>3, <3>1, HereSound DEF Site, FirstLabels, Here
  <2>6. p = "parent"
    BY <1>2, <2>5, OnlyRunner, RecoverySteps DEF Processes
  <2>7. Running(p)' => at'[p] \in FirstLabels
    <3>1. CASE Make(p)
      <4>1. Goto(p, Here(p).next)
        BY <2>5, <3>1 DEF Make, Proceed
      <4>2. Here(p).next = "new_ledger"
        BY <1>2, <2>5, <2>6, ParentSteps
      <4> QED BY <4>1, <4>2 DEF Goto, TypeOK, FirstLabels
    <3>2. CASE Fault(p)
      <4>1. Goto(p, Here(p).err)
        BY <3>2 DEF Fault, Raise
      <4>2. at'[p] = Here(p).err /\ Flow(Program(p), at[p], Here(p).err)
        BY <4>1, Arrival
      <4>3. at'[p] = "exit"
        BY <2>5, <4>2 DEF Flow, Here
      <4> QED BY <4>3 DEF Running, Ended
    <3> QED BY <2>4, <3>1, <3>2
  <2> QED BY <1>2, <2>1, <2>2, <2>5, <2>7
<1> QED BY <1>4, <1>5

-----------------------------------------------------------------------------
(* The steps of more than one process, and those of none *)

Tracked == FilesRecorded /\ ResourcesRecorded /\ NoLedgerNoEffect

LEMMA OrdinaryTracks ==
  ASSUME TypeOK, OneMoves, CopyIsFile, Tracked, NEW p \in Processes, Ordinary(p), ~lapse'
  PROVE  Tracked'
<1>1. DaemonAwaited' /\ RestoreRecorded' /\ RunStopped' /\ ParentStopped' /\ RecoveryStopped'
  BY DaemonStaysAwaited, RestoreStaysRecorded, RunStaysStopped, ParentStaysStopped, RecoveryStaysStopped
     DEF Tracked, ResourcesRecorded
<1>2. FilesRecorded' /\ NoLedgerNoEffect'
  BY OrdinaryKeepsFiles, LedgerStaysFirst DEF Tracked
<1> QED BY <1>1, <1>2 DEF Tracked, ResourcesRecorded

\* Docker has nothing to do while the run does not wait for it.
LEMMA NothingUnawaited ==
  ASSUME TypeOK, DaemonAwaited, ~Running("runner") \/ Here("runner").do # "await"
  PROVE  daemon = {}
BY OnlyRunner DEF DaemonAwaited, Doing

\* A process that stays where it is, with the copy and the ledger it had.
LEMMA SameFiles ==
  ASSUME NEW q \in Processes, at'[q] = at[q], mem'[q] = mem[q], UNCHANGED <<mode, ledger, files>>
  PROVE  (FilesSound(q)' <=> FilesSound(q)) /\ (Busy(q)' <=> Busy(q)) /\ (Running(q)' <=> Running(q))
BY DEF FilesSound, Busy, Doing, Pending, Running, Here, Program

LEMMA FilesUnmoved ==
  ASSUME FilesRecorded, UNCHANGED <<mode, at, mem, ledger, files>>
  PROVE  FilesRecorded'
<1>1. \A q \in Processes : FilesSound(q)' /\ (Busy(q)' <=> Busy(q)) /\ (Running(q)' <=> Running(q))
  BY SameFiles DEF FilesRecorded
<1>2. CheckoutKept'
  BY <1>1 DEF FilesRecorded, CheckoutKept, Processes
<1> QED BY <1>1, <1>2 DEF FilesRecorded, FilesSound

LEMMA SpawnChildTracks ==
  ASSUME TypeOK, OneMoves, Tracked, NEW p \in Processes, SpawnChild(p)
  PROVE  Tracked' /\ lapse' = lapse
<1>1. at["parent"] = "child" /\ Running("parent") /\ mode = "clean" /\ at["runner"] = "idle"
  BY SpawnChildRuns DEF SpawnChild
<1>2. /\ at' = [at EXCEPT !["runner"] = "ask_main"]
      /\ mem' = [mem EXCEPT !["runner"] = ledger]
      /\ UNCHANGED <<mode, docker, daemon, files, ledger, failed, lapse>>
  BY DEF SpawnChild, world
<1>3. ~Running("runner") /\ ~Running("recovery") /\ Here("parent").do = "child"
  BY <1>1, HereSound DEF OneMoves, Running, Ended, Site, Here, Processes
<1>4. ledger.exists /\ files \subseteq ledger.artifacts /\ "checkout" \in ledger.artifacts
  <2>1. \A q \in Processes : ~Busy(q)
    BY <1>3 DEF Busy, Processes
  <2> QED BY <1>1, <2>1 DEF Tracked, FilesRecorded, CheckoutKept, NoLedgerNoEffect, FirstLabels, Processes
<1>5. docker \subseteq Foreign /\ daemon = {}
  BY <1>1, <1>3, NothingUnawaited DEF Tracked, ResourcesRecorded, RestoreRecorded
<1>6. /\ at'["runner"] = "ask_main" /\ mem'["runner"] = ledger /\ Here("runner")' = Automated["ask_main"]
      /\ \A q \in Processes \ {"runner"} : at'[q] = at[q] /\ mem'[q] = mem[q]
  BY <1>1, <1>2 DEF TypeOK, Processes, Here, Program
<1>7. FilesRecorded'
  <2>1. \A q \in Processes \ {"runner"} : FilesSound(q)'
    BY <1>2, <1>6, SameFiles DEF Tracked, FilesRecorded
  <2>2. FilesSound("runner")'
    BY <1>2, <1>4, <1>6 DEF FilesSound, FirstLabels, Doing, Automated, I
  <2> QED BY <1>2, <1>4, <1>6, <2>1, <2>2 DEF FilesRecorded, CheckoutKept, FilesSound
<1>8. ResourcesRecorded'
  <2>1. DaemonAwaited' /\ RestoreRecorded'
    BY <1>2, <1>5, <1>6, RestoredApart DEF DaemonAwaited, RestoreRecorded
  <2>2. RunStopped' /\ ParentStopped' /\ RecoveryStopped'
    BY <1>1, <1>2, <1>5, <1>6 DEF RunStopped, AfterStop, ParentStopped, RecoveryStopped, Tracked,
       ResourcesRecorded, Processes
  <2> QED BY <2>1, <2>2 DEF ResourcesRecorded
<1> QED BY <1>2, <1>4, <1>7, <1>8 DEF Tracked, NoLedgerNoEffect

\* A kill that lapses nothing finds every effect in the file.
LEMMA KillTracks ==
  ASSUME TypeOK, OneMoves, Tracked, NEW p \in Processes, Kill(p), ~lapse'
  PROVE  Tracked'
<1>1. /\ at' = [at EXCEPT ![p] = "dead"] /\ UNCHANGED <<mode, docker, daemon, files, ledger, mem, failed>>
      /\ daemon = {} /\ files \subseteq ledger.artifacts
  BY DEF Kill, world
<1>2. at'[p] = "dead" /\ ~Running(p)' /\ \A q \in Processes \ {p} : at'[q] = at[q]
  BY <1>1 DEF TypeOK, Running, Ended
<1>3. FilesRecorded'
  <2>1. \A q \in Processes \ {p} : FilesSound(q)'
    BY <1>1, <1>2, SameFiles DEF Tracked, FilesRecorded
  <2>2. FilesSound(p)'
    BY <1>2 DEF FilesSound, Busy, Doing, FirstLabels
  <2>3. CheckoutKept'
    BY <1>1, <1>2 DEF CheckoutKept, Tracked, FilesRecorded, Processes, Running, Ended
  <2> QED BY <1>1, <2>1, <2>2, <2>3 DEF FilesRecorded, FilesSound
<1>4. ResourcesRecorded'
  <2>1. DaemonAwaited' /\ RestoreRecorded'
    BY <1>1, <1>2 DEF DaemonAwaited, RestoreRecorded, Tracked, ResourcesRecorded, Running, Processes
  <2>2. RunStopped' /\ ParentStopped' /\ RecoveryStopped'
    BY <1>1, <1>2 DEF RunStopped, AfterStop, ParentStopped, RecoveryStopped, Tracked,
       ResourcesRecorded, Project, Processes
  <2> QED BY <2>1, <2>2 DEF ResourcesRecorded
<1>5. NoLedgerNoEffect'
  BY <1>1, <1>2 DEF Tracked, NoLedgerNoEffect, Running
<1> QED BY <1>3, <1>4, <1>5 DEF Tracked

LEMMA StartRecoveryTracks ==
  ASSUME TypeOK, OneMoves, Tracked, StartRecovery
  PROVE  Tracked' /\ lapse' = lapse
<1>1. /\ at' = [at EXCEPT !["recovery"] = "rc_restore"]
      /\ mem' = [mem EXCEPT !["recovery"] = ledger]
      /\ UNCHANGED <<mode, docker, daemon, files, ledger, failed, lapse>>
      /\ ledger.exists /\ \A q \in Processes : ~Running(q)
  BY DEF StartRecovery, Goto, Quiet, world
<1>2. daemon = {} /\ files \subseteq ledger.artifacts
  <2>1. \A q \in Processes : ~Busy(q)
    BY <1>1 DEF Busy
  <2> QED BY <1>1, <2>1, NothingUnawaited DEF Tracked, FilesRecorded, ResourcesRecorded, Processes
<1>3. /\ at'["recovery"] = "rc_restore" /\ mem'["recovery"] = ledger
      /\ Here("recovery")' = Recovery["rc_restore"]
      /\ \A q \in Processes \ {"recovery"} : at'[q] = at[q] /\ mem'[q] = mem[q]
  BY <1>1 DEF TypeOK, Processes, Here, Program
<1>4. FilesRecorded'
  <2>1. \A q \in Processes \ {"recovery"} : FilesSound(q)'
    BY <1>1, <1>3, SameFiles DEF Tracked, FilesRecorded
  <2>2. FilesSound("recovery")'
    BY <1>1, <1>2, <1>3 DEF FilesSound, FirstLabels, Doing, Recovery, I
  <2>3. at'["parent"] # "child"
    BY <1>1, <1>3 DEF Running, Ended, Processes
  <2> QED BY <1>1, <1>2, <2>1, <2>2, <2>3 DEF FilesRecorded, CheckoutKept, FilesSound
<1>5. ResourcesRecorded'
  <2>1. DaemonAwaited' /\ RestoreRecorded'
    BY <1>1, <1>2, <1>3 DEF DaemonAwaited, RestoreRecorded, Tracked, ResourcesRecorded, Running, Processes
  <2>2. RunStopped' /\ ParentStopped' /\ RecoveryStopped'
    BY <1>1, <1>3 DEF RunStopped, ParentStopped, RecoveryStopped, Tracked, ResourcesRecorded,
       Project, Processes
  <2> QED BY <2>1, <2>2 DEF ResourcesRecorded
<1> QED BY <1>1, <1>4, <1>5 DEF Tracked, NoLedgerNoEffect

\* What Docker creates belongs to a project that the run has yet to clean up.
LEMMA DaemonTracks ==
  ASSUME TypeOK, OneMoves, Tracked, NEW r \in daemon, DaemonCreates(r)
  PROVE  Tracked' /\ lapse' = lapse
<1>1. /\ docker' = docker \cup {r} /\ daemon' \subseteq daemon
      /\ UNCHANGED <<mode, files, ledger, at, mem, failed, lapse>>
  BY DEF DaemonCreates
<1>2. PICK q \in Processes : Doing(q, "await") /\ r \in Project(Here(q).on)
  BY DEF Tracked, ResourcesRecorded, DaemonAwaited
<1>3. Running("runner") /\ Here("runner").do = "await" /\ r \in Project(Here("runner").on)
  BY <1>2, OnlyRunner DEF Doing
<1>4. at["runner"] \notin {"idle", "new_ledger"} \cup FirstLabels \cup AfterStop
  BY <1>3, HereSound DEF FirstLabels, Site, Running, Ended, Here, Processes
<1>5. FilesRecorded' /\ DaemonAwaited'
  BY <1>1, FilesUnmoved DEF Tracked, ResourcesRecorded, DaemonAwaited, Doing, Running, Here, Program, Project
<1>6. RestoreRecorded'
  <2>1. at["runner"] \notin RestoreLabels => r \notin Restored
    BY <1>3, OnlyRunner, RestoredApart DEF Processes
  <2> QED BY <1>1, <1>4, <2>1 DEF Tracked, ResourcesRecorded, RestoreRecorded, Running
<1>7. RunStopped'
  BY <1>1, <1>4 DEF RunStopped
<1>8. ParentStopped' /\ RecoveryStopped'
  <2>1. at["parent"] \notin {"rm_checkout", "drop_checkout", "finish"}
    BY <1>3 DEF OneMoves, Running, Ended
  <2>2. at["recovery"] \notin {"rc_main", "rc_artifacts", "rc_finish"}
    BY <1>3 DEF OneMoves, Running, Ended
  <2> QED BY <1>1, <2>1, <2>2 DEF ParentStopped, RecoveryStopped
<1>9. NoLedgerNoEffect'
  BY <1>1, <1>3, <1>4 DEF Tracked, NoLedgerNoEffect, Processes
<1> QED BY <1>1, <1>5, <1>6, <1>7, <1>8, <1>9 DEF Tracked, ResourcesRecorded

LEMMA ForeignTracks ==
  ASSUME Tracked, NEW r \in Foreign, docker' \in {docker, docker \cup {r}},
         UNCHANGED <<mode, daemon, files, ledger, at, mem, failed>>
  PROVE  Tracked'
<1>1. FilesRecorded' /\ DaemonAwaited'
  BY FilesUnmoved DEF Tracked, ResourcesRecorded, DaemonAwaited, Doing, Running, Here, Program, Project
<1>2. RestoreRecorded' /\ RunStopped' /\ ParentStopped' /\ RecoveryStopped'
  BY RestoredApart DEF Tracked, ResourcesRecorded, RestoreRecorded, RunStopped, ParentStopped,
     RecoveryStopped, Running, Project
<1>3. NoLedgerNoEffect'
  BY DEF Tracked, NoLedgerNoEffect, Running
<1> QED BY <1>1, <1>2, <1>3 DEF Tracked, ResourcesRecorded

LEMMA NothingTracks ==
  ASSUME Tracked, UNCHANGED vars
  PROVE  Tracked'
<1>1. FilesRecorded'
  BY FilesUnmoved DEF vars, Tracked
<1>2. ResourcesRecorded'
  BY DEF vars, Tracked, ResourcesRecorded, DaemonAwaited, RestoreRecorded, RunStopped, ParentStopped,
     RecoveryStopped, Doing, Running, Here, Program, Project
<1>3. NoLedgerNoEffect'
  BY DEF vars, Tracked, NoLedgerNoEffect, Running
<1> QED BY <1>1, <1>2, <1>3 DEF Tracked

LEMMA StepTracks ==
  ASSUME TeardownInvariant, [Next]_vars
  PROVE  TeardownInvariant'
<1>1. TypeOK /\ OneMoves /\ CopyIsFile /\ (~lapse => Tracked)
  BY DEF TeardownInvariant, Tracked
<1>2. (TypeOK /\ OneMoves /\ CopyIsFile)'
  BY <1>1, StepSound
<1>3. ASSUME ~lapse' PROVE Tracked'
  <2>1. ASSUME NEW p \in Processes, Ordinary(p) PROVE Tracked'
    BY <1>1, <1>3, <2>1, OrdinaryTracks, OthersKept
  <2>2. ASSUME NEW p \in Processes, SpawnChild(p) PROVE Tracked'
    <3>1. ~lapse
      BY <1>3, <2>2 DEF SpawnChild
    <3> QED BY <1>1, <2>2, <3>1, SpawnChildTracks
  <2>3. ASSUME NEW p \in Processes, Kill(p) PROVE Tracked'
    <3>1. ~lapse
      BY <1>3, <2>3 DEF Kill
    <3> QED BY <1>1, <1>3, <2>3, <3>1, KillTracks
  <2>4. CASE StartRecovery
    <3>1. ~lapse
      BY <1>3, <2>4 DEF StartRecovery
    <3> QED BY <1>1, <2>4, <3>1, StartRecoveryTracks
  <2>5. ASSUME NEW r \in daemon, DaemonCreates(r) PROVE Tracked'
    <3>1. ~lapse
      BY <1>3, <2>5 DEF DaemonCreates
    <3> QED BY <1>1, <2>5, <3>1, DaemonTracks
  <2>6. ASSUME NEW r \in Foreign, ForeignAppears(r) PROVE Tracked'
    <3>1. ~lapse /\ docker' = docker \cup {r} /\ UNCHANGED <<mode, daemon, files, ledger, at, mem, failed>>
      BY <1>3, <2>6 DEF ForeignAppears
    <3> QED BY <1>1, <3>1, ForeignTracks
  <2>7. CASE UNCHANGED vars
    <3>1. ~lapse
      BY <1>3, <2>7 DEF vars
    <3> QED BY <1>1, <2>7, <3>1, NothingTracks
  <2> QED BY <2>1, <2>2, <2>3, <2>4, <2>5, <2>6, <2>7, NextCases
<1> QED BY <1>2, <1>3 DEF TeardownInvariant, Tracked

LEMMA InitTracks ==
  ASSUME Init
  PROVE  TeardownInvariant
<1>1. TypeOK /\ OneMoves /\ CopyIsFile
  BY InitSound
<1>2. /\ at \in [Processes -> {"mk_checkout", "new_ledger", "idle"}]
      /\ docker = {} /\ daemon = {} /\ files = {} /\ ledger = NoLedger
      /\ \A p \in Processes : mem[p] = NoLedger
  BY DEF Init, Processes
<1>3. FilesRecorded
  <2>1. ASSUME NEW p \in Processes PROVE FilesSound(p)
    <3>1. Running(p) => at[p] \in FirstLabels
      BY <1>2 DEF Running, Ended, FirstLabels
    <3>2. ~Doing(p, "drop")
      BY <1>1, <3>1, FirstLabelsBusy DEF Doing
    <3> QED BY <1>2, <3>1, <3>2 DEF FilesSound, Busy
  <2> QED BY <1>2, <2>1 DEF FilesRecorded, CheckoutKept, Processes
<1>4. ResourcesRecorded
  BY <1>2 DEF ResourcesRecorded, DaemonAwaited, RestoreRecorded, RunStopped, ParentStopped, RecoveryStopped
<1>5. NoLedgerNoEffect
  BY <1>2 DEF NoLedgerNoEffect, Running, Ended, FirstLabels
<1> QED BY <1>1, <1>3, <1>4, <1>5 DEF TeardownInvariant

LEMMA TrackedLeavesNothing ==
  ASSUME TeardownInvariant
  PROVE  NoOrphans
<1>1. SUFFICES ASSUME Quiet, ~ledger.exists, ~lapse
               PROVE  docker \subseteq Foreign /\ daemon = {} /\ files = {}
  BY DEF NoOrphans
<1>2. TypeOK /\ FilesRecorded /\ ResourcesRecorded /\ NoLedgerNoEffect
  BY <1>1 DEF TeardownInvariant
<1>3. \A p \in Processes : ~Running(p) /\ ~Busy(p)
  BY <1>1 DEF Quiet, Busy
<1>4. docker \subseteq Foreign /\ ledger.artifacts = {}
  BY <1>1, <1>2 DEF NoLedgerNoEffect, NoLedger
<1>5. files = {}
  BY <1>2, <1>3, <1>4 DEF FilesRecorded
<1>6. daemon = {}
  BY <1>2, <1>3, NothingUnawaited DEF ResourcesRecorded, Processes
<1> QED BY <1>4, <1>5, <1>6

\* The invariant behind the next theorem: at every moment the process at work
\* can account for everything that exists, in its copy of the ledger or by where
\* it stands in its program.
THEOREM TeardownInvariantHolds == Spec => []TeardownInvariant
BY InitTracks, StepTracks, PTL DEF Spec

\* A run, its clean-install parent and the recovery command leave nothing behind
\* when the ledger is gone, whichever of their operations failed and however
\* often, as long as no effect was cut off from its record.
THEOREM NothingIsLeft == Spec => []NoOrphans
BY TeardownInvariantHolds, TrackedLeavesNothing, PTL
=============================================================================
