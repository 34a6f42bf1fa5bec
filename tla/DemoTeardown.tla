---------------------------- MODULE DemoTeardown ----------------------------
(***************************************************************************)
(* The demo verification of the repository (scripts/demo_e2e): who creates *)
(* Docker resources and temporary artifacts, how the recovery ledger keeps *)
(* track of them, and how they are removed: by the run itself, by the      *)
(* clean-install parent of a run, or later by the recovery command.        *)
(*                                                                         *)
(* A process runs one of four programs.  A program is a function on its    *)
(* labels: what to do, on what, where to go on, and where to go when an    *)
(* exception is raised there.  What the run verifies is in DemoPipeline.   *)
(***************************************************************************)
EXTENDS FiniteSets, Naturals

CONSTANTS
  Foundation,   \* resources of the main project's first compose up
  ControlPlane, \* resources that the control plane's compose up adds
  Restored,     \* resources of the restore project
  Foreign,      \* resources with the main project's label that are not the run's
  Networks,     \* resources that Docker removes after the containers on them
  MaxFaults     \* bound: exceptions, failed ledger writes and kills

ASSUME DemoTeardownAssumption ==
  /\ \A S \in {Foundation, ControlPlane, Restored} : IsFiniteSet(S) /\ S # {}
  /\ Restored \cap (Foundation \cup ControlPlane \cup Foreign) = {}
  /\ Foreign \cap (Foundation \cup ControlPlane) = {}
  /\ {"enter", "begin", "missing", "each"} \cap (Foundation \cup ControlPlane \cup Restored) = {}
  /\ MaxFaults \in Nat

VARIABLES
  mode,    \* how the verification was started: "automated", "human" or "clean"
  docker,  \* resources that exist
  daemon,  \* resources that Docker has been asked to create
  files,   \* temporary artifacts that exist
  ledger,  \* the recovery ledger on disk, or NoLedger
  at,      \* label of each process
  mem,     \* each process's copy of the ledger
  own,     \* artifacts that a process holds and has to remove
  clean,   \* how far each process is in the clean-up of a project
  raised,  \* an exception is on its way through the process
  failed,  \* part of the process's cleanup failed
  faults,  \* history: faults so far
  lapse    \* history: an effect was cut off from its record

vars ==
  <<mode, docker, daemon, files, ledger, at, mem, own, clean, raised, failed, faults, lapse>>

world == <<docker, daemon, files>>

Processes == {"runner", "parent", "recovery"}

Artifacts == {"checkout", "manifests", "tls", "backup", "credentials"}

Project(p) == IF p = "restore" THEN Restored ELSE Foundation \cup ControlPlane \cup Foreign

NoLedger == [exists |-> FALSE, resources |-> {}, artifacts |-> {}]

Ledger(resources, artifacts) ==
  [exists |-> TRUE, resources |-> resources, artifacts |-> artifacts]

-----------------------------------------------------------------------------
(* The programs *)

I(do, on, next, err) == [do |-> do, on |-> on, next |-> next, err |-> err]

\* run_automated_verification, with its finally block from h_backup on.
Automated ==
  [new_ledger  |-> I("create", "ledger", "ask_main", "exit"),
   ask_main    |-> I("ask", Foundation, "wait_main", "h_backup"),
   wait_main   |-> I("await", "main", "note_main", "poll_main"),
   note_main   |-> I("record", "main", "check_main", "poll_main"),
   poll_main   |-> I("poll", "main", "clean_main", "h_backup"),
   clean_main  |-> I("confirm", "main", "h_backup", "h_backup"),
   check_main  |-> I("work", "main", "ask_cp", "h_backup"),
   ask_cp      |-> I("ask", ControlPlane, "wait_cp", "h_backup"),
   wait_cp     |-> I("await", "main", "note_cp", "h_backup"),
   note_cp     |-> I("record", "main", "mk_manifests", "h_backup"),
   mk_manifests |-> I("make", "manifests", "add_manifests", "h_backup"),
   add_manifests |-> I("add", "manifests", "use_manifests", "h_backup"),
   use_manifests |-> I("work", "manifests", "rm_manifests", "rm_manifests"),
   rm_manifests |-> I("remove", "manifests", "drop_manifests", "h_backup"),
   drop_manifests |-> I("drop", "manifests", "feed", "h_backup"),
   feed        |-> I("work", "main", "mk_tls", "h_backup"),
   mk_tls      |-> I("make", "tls", "add_tls", "h_backup"),
   add_tls     |-> I("add", "tls", "use_tls", "h_backup"),
   use_tls     |-> I("work", "tls", "rm_tls", "rm_tls"),
   rm_tls      |-> I("remove", "tls", "drop_tls", "h_backup"),
   drop_tls    |-> I("drop", "tls", "replay", "h_backup"),
   replay      |-> I("work", "main", "mk_backup", "h_backup"),
   mk_backup   |-> I("make", "backup", "add_backup", "h_backup"),
   add_backup  |-> I("add", "backup", "ask_restore", "h_backup"),
   ask_restore |-> I("ask", Restored, "wait_restore", "stop_restore"),
   wait_restore |-> I("await", "restore", "note_restore", "poll_restore"),
   note_restore |-> I("record", "restore", "check_restore", "poll_restore"),
   check_restore |-> I("work", "restore", "stop_restore", "stop_restore"),
   poll_restore |-> I("poll", "restore", "clean_restore", "stop_restore"),
   clean_restore |-> I("confirm", "restore", "stop_restore", "stop_restore"),
   stop_restore |-> I("clean", "restore", "h_backup", "h_backup"),
   h_backup    |-> I("remove", "backup", "h_drop", "h_stop"),
   h_drop      |-> I("drop", "backup", "h_stop", "h_stop"),
   h_stop      |-> I("clean", "main", "h_finish", "h_finish"),
   h_finish    |-> I("finish", "ledger", "exit", "exit")]

\* run_human_demo: TLS material and credentials live until its finally block.
Human ==
  [new_ledger  |-> I("create", "ledger", "ask_main", "exit"),
   ask_main    |-> I("ask", Foundation, "wait_main", "h_stop"),
   wait_main   |-> I("await", "main", "note_main", "poll_main"),
   note_main   |-> I("record", "main", "check_main", "poll_main"),
   poll_main   |-> I("poll", "main", "clean_main", "h_stop"),
   clean_main  |-> I("confirm", "main", "h_stop", "h_stop"),
   check_main  |-> I("work", "main", "ask_cp", "h_stop"),
   ask_cp      |-> I("ask", ControlPlane, "wait_cp", "h_stop"),
   wait_cp     |-> I("await", "main", "note_cp", "h_stop"),
   note_cp     |-> I("record", "main", "mk_tls", "h_stop"),
   mk_tls      |-> I("make", "tls", "add_tls", "h_stop"),
   add_tls     |-> I("add", "tls", "mk_credentials", "h_stop"),
   mk_credentials |-> I("make", "credentials", "add_credentials", "h_stop"),
   add_credentials |-> I("add", "credentials", "serve", "h_stop"),
   serve       |-> I("work", "credentials", "h_stop", "h_stop"),
   h_stop      |-> I("clean", "main", "h_tls", "h_tls"),
   h_tls       |-> I("remove", "tls", "h_drop_tls", "h_credentials"),
   h_drop_tls  |-> I("drop", "tls", "h_credentials", "h_credentials"),
   h_credentials |-> I("remove", "credentials", "h_drop_credentials", "h_finish"),
   h_drop_credentials |-> I("drop", "credentials", "h_finish", "h_finish"),
   h_finish    |-> I("finish", "ledger", "exit", "exit")]

\* verify_clean_install: the ledger and the checkout outlive the child.
CleanInstall ==
  [mk_checkout  |-> I("make", "checkout", "new_ledger", "exit"),
   new_ledger   |-> I("create", "ledger", "add_checkout", "rm_early"),
   rm_early     |-> I("remove", "checkout", "exit", "exit"),
   add_checkout |-> I("add", "checkout", "child", "reopen"),
   child        |-> I("child", "runner", "reopen", "reopen"),
   reopen       |-> I("reopen", "ledger", "rm_checkout", "exit"),
   rm_checkout  |-> I("remove", "checkout", "drop_checkout", "exit"),
   drop_checkout |-> I("drop", "checkout", "finish", "exit"),
   finish       |-> I("finish", "ledger", "exit", "exit")]

\* recover_from_ledger in a process of its own.
Recovery ==
  [rc_restore   |-> I("clean", "restore", "rc_main", "exit"),
   rc_main      |-> I("clean", "main", "rc_artifacts", "exit"),
   rc_artifacts |-> I("artifacts", "ledger", "rc_finish", "exit"),
   rc_finish    |-> I("finish", "ledger", "exit", "exit")]

Program(p) ==
  CASE p = "parent"   -> CleanInstall
    [] p = "recovery" -> Recovery
    [] p = "runner"   -> IF mode = "human" THEN Human ELSE Automated

Ended == {"idle", "exit", "dead"}

Running(p) == at[p] \notin Ended

Quiet == \A p \in Processes : ~Running(p)

Here(p) == Program(p)[at[p]]

Doing(p, do) == Running(p) /\ Here(p).do = do

\* The finally blocks of a run: an exception there is only remembered.
Handlers ==
  {"h_backup", "h_drop", "h_stop", "h_tls", "h_drop_tls", "h_credentials", "h_drop_credentials",
   "h_finish"}

Init ==
  /\ mode \in {"automated", "human", "clean"}
  /\ docker = {} /\ daemon = {} /\ files = {}
  /\ ledger = NoLedger
  /\ at = [p \in Processes |->
       CASE mode = "clean" /\ p = "parent" -> "mk_checkout"
         [] mode # "clean" /\ p = "runner" -> "new_ledger"
         [] OTHER -> "idle"]
  /\ mem = [p \in Processes |-> NoLedger]
  /\ own = [p \in Processes |-> {}]
  /\ clean = [p \in Processes |-> "enter"]
  /\ raised = [p \in Processes |-> FALSE] /\ failed = [p \in Processes |-> FALSE]
  /\ faults = 0 /\ lapse = FALSE

Goto(p, label) ==
  /\ at' = [at EXCEPT ![p] = label]
  /\ clean' = [clean EXCEPT ![p] = "enter"]

\* The operation is done.  The finally block of a with-artifact block ends in
\* the exception that came through it.
Proceed(p) ==
  /\ Goto(p, IF raised[p] /\ Here(p).do = "drop" THEN Here(p).err ELSE Here(p).next)
  /\ UNCHANGED <<mode, raised, failed, faults, lapse>>

\* An exception cuts an effect off from its record: an artifact that was not
\* added, a compose up that died with the daemon still at work, and a clean-up
\* of the restore project that left something it had not recorded, since only
\* the clean-up of the main project counts as a failed cleanup.
CutOff(p) ==
  \/ Doing(p, "add")
  \/ Doing(p, "await") /\ daemon' # {}
  \/ at[p] = "stop_restore" /\ ~((docker \cup daemon) \cap Restored \subseteq mem'[p].resources)

Raise(p) ==
  /\ Goto(p, Here(p).err)
  /\ raised' = [raised EXCEPT ![p] = TRUE]
  /\ failed' = [failed EXCEPT ![p] = @ \/ at[p] \in Handlers]
  /\ lapse' = (lapse \/ CutOff(p))
  /\ UNCHANGED mode

\* The code itself raises: something it checked is not as it must be.
Refuse(p) == UNCHANGED <<world, ledger, mem, own, faults>> /\ Raise(p)

-----------------------------------------------------------------------------
(* The ledger: memory first, then an atomic replacement of the file *)

Write(p, new) ==
  /\ mem' = [mem EXCEPT ![p] = new]
  /\ ledger' = new

\* The replacement fails: memory is ahead of the file.
WriteFails(p, new) ==
  /\ faults < MaxFaults /\ faults' = faults + 1
  /\ mem' = [mem EXCEPT ![p] = new]
  /\ UNCHANGED ledger
  /\ Raise(p)

With(p, resources) == [mem[p] EXCEPT !.resources = resources]

Create(p) ==
  /\ Doing(p, "create")
  /\ Write(p, Ledger({}, {})) /\ Proceed(p)
  /\ UNCHANGED <<world, own>>

Add(p) ==
  LET new == [mem[p] EXCEPT !.artifacts = @ \cup {Here(p).on}] IN
  /\ Doing(p, "add")
  /\ \/ Write(p, new) /\ Proceed(p)
     \/ WriteFails(p, new)
  /\ UNCHANGED <<world, own>>

\* remove_artifact: refused unless the artifact is recorded.
Drop(p) ==
  LET new == [mem[p] EXCEPT !.artifacts = @ \ {Here(p).on}] IN
  /\ Doing(p, "drop")
  /\ \/ /\ Here(p).on \in mem[p].artifacts
        /\ (Write(p, new) /\ Proceed(p)) \/ WriteFails(p, new)
        /\ UNCHANGED <<world, own>>
     \/ Here(p).on \notin mem[p].artifacts /\ Refuse(p)

\* Fault: the ledger goes away with what it still records.
FinishRegardless(p) ==
  /\ Doing(p, "finish")
  /\ ledger' = NoLedger
  /\ Proceed(p)
  /\ UNCHANGED <<world, mem, own>>

\* A run whose cleanup failed leaves the ledger alone, like one that still
\* records something.
Finish(p) ==
  /\ Doing(p, "finish")
  /\ ledger' = IF failed[p] \/ mem[p].resources \cup mem[p].artifacts # {}
               THEN ledger ELSE NoLedger
  /\ Proceed(p)
  /\ UNCHANGED <<world, mem, own>>

-----------------------------------------------------------------------------
(* Docker: compose asks, the daemon creates, discovery finds *)

\* The resources with the project's label.
Listed(name) == docker \cap Project(name)

\* _discover_exact_project: those with the run's label as well.  One without it
\* makes the discovery fail, which is Mixed.
Discovered(name) == Listed(name) \ Foreign

Mixed(name) == Listed(name) \cap Foreign # {}

Ask(p) ==
  /\ Doing(p, "ask")
  /\ daemon' = daemon \cup Here(p).on
  /\ Proceed(p)
  /\ UNCHANGED <<docker, files, ledger, mem, own>>

\* docker compose up comes back, or it fails or is killed: then the daemon may
\* still create what it has been asked for.
Await(p) ==
  /\ Doing(p, "await")
  /\ \/ /\ daemon \cap Project(Here(p).on) = {}
        /\ Proceed(p)
        /\ UNCHANGED daemon
     \/ /\ faults < MaxFaults /\ faults' = faults + 1
        /\ daemon' \in SUBSET daemon
        /\ Raise(p)
  /\ UNCHANGED <<docker, files, ledger, mem, own>>

DaemonCreates(r) ==
  /\ r \in daemon
  /\ daemon' = daemon \ {r} /\ docker' = docker \cup {r}
  /\ UNCHANGED <<mode, files, ledger, at, mem, own, clean, raised, failed, faults, lapse>>

\* Somebody else's resource gets the project's label.
ForeignAppears(r) ==
  /\ r \in Foreign \ docker
  /\ docker' = docker \cup {r}
  /\ UNCHANGED <<mode, daemon, files, ledger, at, mem, own, clean, raised, failed, faults, lapse>>

\* What the ledger says of a project is replaced by what is discovered.
Recorded(p, name) ==
  LET new == With(p, (mem[p].resources \ Project(name)) \cup Discovered(name)) IN
  \/ Write(p, new) /\ Proceed(p)
  \/ WriteFails(p, new)

\* verify_all_owned_resources
Record(p) ==
  LET name == Here(p).on IN
  /\ Doing(p, "record")
  /\ \/ Discovered(name) # {} /\ ~Mixed(name) /\ Recorded(p, name) /\ UNCHANGED <<world, own>>
     \/ (Discovered(name) = {} \/ Mixed(name)) /\ Refuse(p)

\* _recover_after_failed_start writes the ledger, polls until something is
\* visible and gives up after a number of attempts.
Poll(p) ==
  LET name == Here(p).on IN
  /\ Doing(p, "poll")
  /\ \/ Discovered(name) # {} /\ ~Mixed(name) /\ Recorded(p, name)
     \/ /\ Discovered(name) = {} \/ Mixed(name)
        /\ ledger' = mem[p]
        /\ UNCHANGED <<mem, faults>> /\ Raise(p)
  /\ UNCHANGED <<world, own>>

-----------------------------------------------------------------------------
(* _cleanup_project: one deletion at a time, and only what is recorded *)

Cleaning(p) == Doing(p, "clean") \/ Doing(p, "confirm")

Mine(p) == mem[p].resources \cap Project(Here(p).on)

\* The clean-up goes on at another stage.
Stage(p, stage) ==
  /\ clean' = [clean EXCEPT ![p] = stage]
  /\ UNCHANGED <<mode, at, raised, failed, faults, lapse>>

\* stop and recover_from_ledger write the ledger before they start.
CleanPhase(p) ==
  /\ Doing(p, "clean") /\ clean[p] = "enter"
  /\ \/ Write(p, mem[p]) /\ Stage(p, "begin")
     \/ WriteFails(p, mem[p])
  /\ UNCHANGED <<world, own>>

CleanBegin(p) ==
  LET name == Here(p).on
      new  == With(p, mem[p].resources \cup Discovered(name)) IN
  /\ Cleaning(p) /\ clean[p] = IF Here(p).do = "clean" THEN "begin" ELSE "enter"
  /\ \/ /\ ~Mixed(name)
        /\ Mine(p) = {} /\ Discovered(name) # {} /\ Here(p).do = "clean"
        /\ (Write(p, new) /\ Stage(p, "each")) \/ WriteFails(p, new)
        /\ UNCHANGED <<world, own>>
     \/ /\ ~Mixed(name) /\ Discovered(name) \subseteq Mine(p)
        /\ Stage(p, "missing")
        /\ UNCHANGED <<world, ledger, mem, own>>
     \/ /\ \/ Mixed(name)
           \/ /\ ~(Discovered(name) \subseteq Mine(p))
              /\ Mine(p) # {} \/ Here(p).do = "confirm"
        /\ Refuse(p)

\* Fault: a recorded resource that is gone stops the clean-up.
CleanMissingRefused(p) ==
  LET gone == Mine(p) \ docker IN
  /\ Cleaning(p) /\ clean[p] = "missing"
  /\ \/ gone # {} /\ Refuse(p)
     \/ gone = {} /\ Stage(p, "each") /\ UNCHANGED <<world, ledger, mem, own>>

\* Recorded resources that are gone lose their records.
CleanMissing(p) ==
  LET gone == Mine(p) \ docker IN
  /\ Cleaning(p) /\ clean[p] = "missing"
  /\ \/ \E r \in gone :
          LET new == With(p, mem[p].resources \ {r}) IN
          /\ (Write(p, new) /\ Stage(p, "missing")) \/ WriteFails(p, new)
          /\ UNCHANGED <<world, own>>
     \/ gone = {} /\ Stage(p, "each") /\ UNCHANGED <<world, ledger, mem, own>>

\* _deletion_key: containers go before the networks they are on.
First(resources) == {r \in resources : r \in Networks => resources \subseteq Networks}

Delete(r) == docker' = docker \ {r}

\* Fault: whatever carries the project's label is deleted.
CleanEachByProject(p) ==
  /\ Cleaning(p) /\ clean[p] = "each"
  /\ \/ \E r \in First(Listed(Here(p).on)) :
          Delete(r) /\ Stage(p, IF r \in Mine(p) THEN r ELSE "each")
     \/ Listed(Here(p).on) = {} /\ Proceed(p) /\ UNCHANGED docker
  /\ UNCHANGED <<daemon, files, ledger, mem, own>>

\* What is discovered before each deletion must be what is recorded, and
\* nothing may be left at the end.
CleanEach(p) ==
  LET name == Here(p).on IN
  /\ Cleaning(p) /\ clean[p] = "each"
  /\ \/ /\ ~Mixed(name) /\ Discovered(name) = Mine(p)
        /\ \/ \E r \in First(Mine(p)) : Delete(r) /\ Stage(p, r)
           \/ Mine(p) = {} /\ Proceed(p) /\ UNCHANGED docker
        /\ UNCHANGED <<daemon, files, ledger, mem, own>>
     \/ (Mixed(name) \/ Discovered(name) # Mine(p)) /\ Refuse(p)

\* The record goes after the resource is confirmed absent.
CleanRecord(p) ==
  LET new == With(p, mem[p].resources \ {clean[p]}) IN
  /\ Cleaning(p) /\ clean[p] \notin {"enter", "begin", "missing", "each"}
  /\ (Write(p, new) /\ Stage(p, "each")) \/ WriteFails(p, new)
  /\ UNCHANGED <<world, own>>

-----------------------------------------------------------------------------
(* Temporary artifacts *)

Make(p) ==
  /\ Doing(p, "make")
  /\ files' = files \cup {Here(p).on}
  /\ own' = [own EXCEPT ![p] = @ \cup {Here(p).on}]
  /\ Proceed(p)
  /\ UNCHANGED <<docker, daemon, ledger, mem>>

Work(p) ==
  /\ Doing(p, "work")
  /\ Proceed(p)
  /\ UNCHANGED <<world, ledger, mem, own>>

\* A handler passes over an artifact that was never made.
Remove(p) ==
  /\ Doing(p, "remove")
  /\ IF Here(p).on \in own[p]
     THEN /\ files' = files \ {Here(p).on}
          /\ own' = [own EXCEPT ![p] = @ \ {Here(p).on}]
          /\ Proceed(p)
     ELSE /\ Goto(p, Here(p).err)
          /\ UNCHANGED <<mode, files, own, raised, failed, faults, lapse>>
  /\ UNCHANGED <<docker, daemon, ledger, mem>>

\* cleanup_recorded_artifacts: the artifact goes, if it is there, then its record.
RemoveRecorded(p) ==
  LET recorded == mem[p].artifacts IN
  /\ Doing(p, "artifacts")
  /\ \/ \E f \in recorded \cap files :
          /\ files' = files \ {f}
          /\ UNCHANGED <<mode, ledger, at, mem, clean, raised, failed, faults, lapse>>
     \/ \E f \in recorded \ files :
          LET new == [mem[p] EXCEPT !.artifacts = @ \ {f}] IN
          /\ \/ Write(p, new) /\ UNCHANGED <<mode, at, clean, raised, failed, faults, lapse>>
             \/ WriteFails(p, new)
          /\ UNCHANGED files
     \/ recorded = {} /\ Proceed(p) /\ UNCHANGED <<files, ledger, mem>>
  /\ UNCHANGED <<docker, daemon, own>>

-----------------------------------------------------------------------------
(* The parent of a clean install, the recovery command, and what goes wrong *)

\* The child runs the automated verification with the parent's ledger.
SpawnChild(p) ==
  /\ Doing(p, "child") /\ at["runner"] = "idle"
  /\ at' = [at EXCEPT !["runner"] = "ask_main"]
  /\ mem' = [mem EXCEPT !["runner"] = ledger]
  /\ UNCHANGED <<mode, world, ledger, own, clean, raised, failed, faults, lapse>>

ChildEnds(p) ==
  /\ Doing(p, "child") /\ at["runner"] \in {"exit", "dead"}
  /\ \/ /\ at["runner"] = "exit" /\ ~raised["runner"] /\ ~failed["runner"]
        /\ Proceed(p)
        /\ UNCHANGED <<world, ledger, mem, own>>
     \/ /\ at["runner"] = "dead" \/ raised["runner"] \/ failed["runner"]
        /\ Refuse(p)

\* The finally block reads the ledger again and decides whether the checkout,
\* which recovery would need, may go; an exception on its way changes no more.
\* A failed child that recorded nothing counts as one that left nothing.
Reopen(p) ==
  LET now == IF ledger.exists THEN ledger ELSE mem[p] IN
  /\ Doing(p, "reopen")
  /\ mem' = [mem EXCEPT ![p] = now]
  /\ Goto(p, IF ~raised[p] \/ now.resources = {} THEN Here(p).next ELSE Here(p).err)
  /\ raised' = [raised EXCEPT ![p] = FALSE]
  /\ lapse' = (lapse \/ (now.resources = {} /\ (docker \cup daemon) \ Foreign # {}))
  /\ UNCHANGED <<mode, world, ledger, own, failed, faults>>

\* The operator runs the recovery command when nothing else runs any more.
StartRecovery ==
  /\ Quiet /\ ledger.exists
  /\ Goto("recovery", "rc_restore")
  /\ mem' = [mem EXCEPT !["recovery"] = ledger]
  /\ UNCHANGED <<mode, world, ledger, own, raised, failed, faults, lapse>>

\* An exception at any operation that can fail before it has done anything.
Fault(p) ==
  /\ Running(p) /\ faults < MaxFaults
  /\ Here(p).do \in {"make", "work", "remove", "clean", "confirm", "record", "poll", "artifacts", "child"}
  /\ Here(p).do = "child" => ~Running("runner")
  /\ UNCHANGED <<world, ledger, mem, own>>
  /\ faults' = faults + 1
  /\ Raise(p)

\* The process is killed: no handler runs.
Kill(p) ==
  /\ Running(p) /\ faults < MaxFaults
  /\ at' = [at EXCEPT ![p] = "dead"]
  /\ faults' = faults + 1
  /\ lapse' = (lapse \/ daemon # {}
                     \/ ~(docker \subseteq ledger.resources \cup Foreign)
                     \/ ~(files \subseteq ledger.artifacts))
  /\ UNCHANGED <<mode, world, ledger, mem, own, clean, raised, failed>>

Step(p) ==
  \/ Create(p) \/ Add(p) \/ Drop(p) \/ Finish(p)
  \/ Ask(p) \/ Await(p) \/ Record(p) \/ Poll(p)
  \/ CleanPhase(p) \/ CleanBegin(p) \/ CleanMissing(p) \/ CleanEach(p) \/ CleanRecord(p)
  \/ Make(p) \/ Work(p) \/ Remove(p) \/ RemoveRecorded(p)
  \/ SpawnChild(p) \/ ChildEnds(p) \/ Reopen(p)

Next ==
  \/ \E p \in Processes : Step(p) \/ Fault(p) \/ Kill(p)
  \/ \E r \in daemon : DaemonCreates(r)
  \/ \E r \in Foreign : ForeignAppears(r)
  \/ StartRecovery

Spec == Init /\ [][Next]_vars

FairSpec ==
  /\ Spec
  /\ \A p \in Processes : WF_vars(Step(p))
  /\ WF_vars(\E r \in daemon : DaemonCreates(r))
  /\ WF_vars(StartRecovery)

-----------------------------------------------------------------------------
(* Properties *)

Resources == Foundation \cup ControlPlane \cup Restored \cup Foreign

Stages == {"enter", "begin", "missing", "each"}

Labels ==
  DOMAIN Automated \cup DOMAIN Human \cup DOMAIN CleanInstall \cup DOMAIN Recovery

Ledgers ==
  [exists : BOOLEAN, resources : SUBSET (Resources \ Foreign), artifacts : SUBSET Artifacts]

TypeOK ==
  /\ mode \in {"automated", "human", "clean"}
  /\ docker \subseteq Resources /\ daemon \subseteq Resources \ Foreign
  /\ files \subseteq Artifacts
  /\ ledger \in Ledgers /\ mem \in [Processes -> Ledgers]
  /\ own \in [Processes -> SUBSET Artifacts]
  /\ at \in [Processes -> Labels \cup Ended]
  /\ \A p \in Processes : Running(p) => at[p] \in DOMAIN Program(p)
  /\ clean \in [Processes -> Stages \cup (Resources \ Foreign)]
  /\ raised \in [Processes -> BOOLEAN] /\ failed \in [Processes -> BOOLEAN]
  /\ faults \in Nat /\ lapse \in BOOLEAN

\* When nothing runs and no ledger is left, the run has left nothing behind:
\* whatever was created has been removed, however many handlers failed on the
\* way.  It does not cover an effect that was cut off from its record: a kill
\* between the two, a compose up that dies with the daemon still at work, or a
\* clean-up of the restore project that fails before it has recorded anything
\* (CutOff).
NoOrphans ==
  Quiet /\ ~ledger.exists /\ ~lapse => docker \subseteq Foreign /\ daemon = {} /\ files = {}

\* Only what the ledger on disk attributes to the run is ever deleted.
DeletesOnlyRecorded == [][docker \ docker' \subseteq ledger.resources \ Foreign]_vars

\* What a new process can tell from the ledger on disk and from Docker.
Attributable ==
  /\ ledger.exists => daemon = {}
  /\ \A name \in {"main", "restore"} :
       /\ ~Mixed(name)
       /\ \/ ledger.resources \cap Project(name) = {}
          \/ Discovered(name) \subseteq ledger.resources

\* If from some time on everything that exists is attributable, the recovery
\* command, run again and again, completes: wherever the earlier process died
\* or failed, also between a deletion and the removal of its record.
RecoverySucceeds == <>[]Attributable => <>[]~ledger.exists

-----------------------------------------------------------------------------
(* The inductive invariant *)

\* A process that goes by its own copy of the ledger: the parent does not while
\* it waits for the child and until it has read the ledger again.
Busy(p) == Running(p) /\ Here(p).do \notin {"child", "reopen"}

\* One process at a time moves: the parent waits for its child, and the
\* recovery runs alone.
OneMoves ==
  /\ Running("recovery") => ~Running("runner") /\ ~Running("parent")
  /\ Running("runner") /\ Running("parent") => at["parent"] = "child"
  /\ Running("parent") => mode = "clean"
  /\ at["parent"] # "rm_early"

\* From the time a clean-up has written the ledger, the copy is the file, and a
\* resource that was just deleted is one of the project.
CopySound(p) ==
  /\ Doing(p, "confirm") \/ (Doing(p, "clean") /\ clean[p] # "enter") => mem[p] = ledger
  /\ Cleaning(p) /\ clean[p] \notin Stages => clean[p] \in Project(Here(p).on)

CopyIsFile == \A p \in Processes : CopySound(p)

FirstLabels == {"mk_checkout", "new_ledger"}

RestoreLabels ==
  {"wait_restore", "note_restore", "poll_restore", "clean_restore", "check_restore", "stop_restore"}

AfterStop ==
  {"h_tls", "h_drop_tls", "h_credentials", "h_drop_credentials", "h_finish"}

\* An artifact that a process has made and not recorded yet.
Pending(p) ==
  CASE Doing(p, "add") -> {Here(p).on}
    [] p = "parent" /\ at[p] = "new_ledger" -> {"checkout"}
    [] OTHER -> {}

\* Every artifact is in the ledger of the process that is at work, and in the
\* file as soon as that process is gone.
FilesSound(p) ==
  /\ Busy(p) => /\ files \subseteq mem[p].artifacts \cup Pending(p)
                /\ mem[p].artifacts \subseteq ledger.artifacts
  /\ Busy(p) /\ at[p] \notin FirstLabels => mem[p].exists
  /\ at[p] \in FirstLabels => mem[p] = NoLedger
  /\ Doing(p, "drop") => Here(p).on \notin files

\* The checkout stays recorded while the parent waits for its child.
CheckoutKept ==
  at["parent"] = "child" => /\ at["runner"] = "idle" => "checkout" \in ledger.artifacts
                            /\ Running("runner") => "checkout" \in mem["runner"].artifacts

FilesRecorded ==
  /\ \A p \in Processes : FilesSound(p)
  /\ (\A p \in Processes : ~Busy(p)) => files \subseteq ledger.artifacts
  /\ CheckoutKept

\* Docker has been asked for something only while a compose up is awaited.
DaemonAwaited ==
  \A r \in daemon : \E p \in Processes : Doing(p, "await") /\ r \in Project(Here(p).on)

\* What exists of the restore project is in the run's ledger, except between its
\* compose up and its clean-up.
RestoreRecorded ==
  /\ at["runner"] \in {"idle", "new_ledger"} => docker \subseteq Foreign
  /\ Running("runner") /\ at["runner"] \notin RestoreLabels
       => docker \cap Restored \subseteq mem["runner"].resources

\* After the clean-ups that did not fail there is nothing left to clean up.
RunStopped ==
  at["runner"] \in AfterStop /\ ~failed["runner"] => docker \cap Project("main") \subseteq Foreign

ParentStopped ==
  at["parent"] \in {"rm_checkout", "drop_checkout", "finish"} /\ mem["parent"].resources = {}
    => docker \subseteq Foreign

RecoveryStopped ==
  /\ at["recovery"] \in {"rc_main", "rc_artifacts", "rc_finish"} => docker \cap Restored = {}
  /\ at["recovery"] \in {"rc_artifacts", "rc_finish"} => docker \subseteq Foreign

\* Every resource that exists is in the ledger of the process that is at work,
\* or in a project that this process has yet to clean up.
ResourcesRecorded ==
  DaemonAwaited /\ RestoreRecorded /\ RunStopped /\ ParentStopped /\ RecoveryStopped

\* Without a ledger there is nothing, and nobody beyond the first steps.
NoLedgerNoEffect ==
  ~ledger.exists =>
    /\ ledger = NoLedger /\ docker \subseteq Foreign
    /\ \A p \in Processes : Running(p) => at[p] \in FirstLabels

TeardownInvariant ==
  /\ TypeOK /\ OneMoves /\ CopyIsFile
  /\ ~lapse => FilesRecorded /\ ResourcesRecorded /\ NoLedgerNoEffect

=============================================================================
