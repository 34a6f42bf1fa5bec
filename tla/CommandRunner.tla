---------------------------- MODULE CommandRunner ----------------------------
(***************************************************************************)
(* One command of the demo driver (scripts/demo_e2e/commands.py): the    *)
(* process it starts, a descendant that process may start, the threads   *)
(* that drain and feed the pipes, and the supervisor that waits for all  *)
(* of them under a deadline, an output limit and a shutdown request.     *)
(*                                                                       *)
(* The environment is unkind: a process may ignore SIGTERM, stay in the  *)
(* kernel through a SIGKILL, or leave a descendant that holds the pipes. *)
(* Output is counted in chunks; stdout and stderr are drained alike and  *)
(* modelled as one stream.                                               *)
(***************************************************************************)
EXTENDS Naturals

CONSTANTS
  OutputLimit,      \* chunks a command may print
  MaxChunks         \* bound: chunks the processes print

ASSUME CommandAssumption == OutputLimit \in Nat /\ MaxChunks \in Nat

VARIABLES
  cmdCase,          \* the request, and how its processes behave
  cmdPhase,         \* where _execute stands
  cmdThen,          \* what follows the termination under way
  cmdLeader,        \* the started process: "none", "running", "gone"
  cmdOther,         \* its descendant, likewise
  cmdCode,          \* the return code of the leader
  cmdPrinted,       \* chunks written to the pipe
  cmdCaptured,      \* chunks drained from it
  cmdDrain,         \* the draining thread: "reading", "ended", "overflow", "failed"
  cmdFeed,          \* the stdin thread: "writing", "ended"
  cmdShutdown,      \* the cooperative shutdown was requested
  cmdFailure,       \* why the command will raise
  cmdFile           \* the output file: "none", "open", "kept", "removed"

cmdVars == <<cmdCase, cmdPhase, cmdThen, cmdLeader, cmdOther, cmdCode, cmdPrinted, cmdCaptured,
             cmdDrain, cmdFeed, cmdShutdown, cmdFailure, cmdFile>>

processVars == <<cmdLeader, cmdOther, cmdCode, cmdPrinted>>
threadVars == <<cmdCaptured, cmdDrain, cmdFeed>>

Cases ==
  [windows : BOOLEAN,      \* a job object holds the tree, else a process group
   to_file : BOOLEAN,      \* run_to_file
   respects : BOOLEAN,     \* respect_shutdown
   check : BOOLEAN,
   ignores : SUBSET {"leader", "other"},    \* SIGTERM
   stuck : BOOLEAN,        \* the leader cannot be killed within the grace time
   holds : BOOLEAN]        \* the descendant inherits the pipes

-----------------------------------------------------------------------------
(* The processes. *)

\* Somebody has the other end of the pipes open.
PipeOpen == cmdLeader = "running" \/ (cmdOther = "running" /\ cmdCase.holds)

ProcessPrints ==
  /\ cmdPhase # "done" /\ PipeOpen /\ cmdPrinted < MaxChunks
  /\ cmdPrinted' = cmdPrinted + 1
  /\ UNCHANGED <<cmdCase, cmdPhase, cmdThen, cmdLeader, cmdOther, cmdCode, threadVars,
                 cmdShutdown, cmdFailure, cmdFile>>

LeaderStartsOther ==
  /\ cmdLeader = "running" /\ cmdOther = "none"
  /\ cmdOther' = "running"
  /\ UNCHANGED <<cmdCase, cmdPhase, cmdThen, cmdLeader, cmdCode, cmdPrinted, threadVars,
                 cmdShutdown, cmdFailure, cmdFile>>

LeaderExits ==
  /\ cmdLeader = "running"
  /\ cmdLeader' = "gone" /\ cmdCode' \in {0, 1}
  /\ UNCHANGED <<cmdCase, cmdPhase, cmdThen, cmdOther, cmdPrinted, threadVars, cmdShutdown,
                 cmdFailure, cmdFile>>

OtherExits ==
  /\ cmdOther = "running"
  /\ cmdOther' = "gone"
  /\ UNCHANGED <<cmdCase, cmdPhase, cmdThen, cmdLeader, cmdCode, cmdPrinted, threadVars,
                 cmdShutdown, cmdFailure, cmdFile>>

\* A command that does not respect the request never looks at it.
ShutdownRequested ==
  /\ cmdCase.respects /\ cmdPhase # "done"
  /\ ~cmdShutdown /\ cmdShutdown' = TRUE
  /\ UNCHANGED <<cmdCase, cmdPhase, cmdThen, processVars, threadVars, cmdFailure, cmdFile>>

-----------------------------------------------------------------------------
(* The threads on the pipes. *)

Threads == cmdPhase \notin {"new", "done"} /\ cmdLeader # "none"

\* The chunk over the limit is counted and thrown away, and the pipe closed.
Drain ==
  /\ Threads /\ cmdDrain = "reading"
  /\ \/ /\ cmdCaptured < cmdPrinted
        /\ IF cmdCaptured = OutputLimit
           THEN cmdDrain' = "overflow" /\ UNCHANGED cmdCaptured
           ELSE cmdCaptured' = cmdCaptured + 1 /\ UNCHANGED cmdDrain
     \/ /\ cmdCaptured < cmdPrinted /\ cmdCase.to_file
        /\ cmdDrain' = "failed" /\ UNCHANGED cmdCaptured
     \/ /\ cmdCaptured = cmdPrinted /\ ~PipeOpen
        /\ cmdDrain' = "ended" /\ UNCHANGED cmdCaptured
  /\ UNCHANGED <<cmdCase, cmdPhase, cmdThen, processVars, cmdFeed, cmdShutdown, cmdFailure,
                 cmdFile>>

\* Everything was read, or there is nobody left to read it; a reader may also
\* never come, so the thread need not end.
Feed ==
  /\ Threads /\ cmdFeed = "writing"
  /\ cmdFeed' = "ended"
  /\ UNCHANGED <<cmdCase, cmdPhase, cmdThen, processVars, cmdCaptured, cmdDrain, cmdShutdown,
                 cmdFailure, cmdFile>>

-----------------------------------------------------------------------------
(* The supervisor. *)

Goes(phase, then, failure) ==
  /\ cmdPhase' = phase /\ cmdThen' = then /\ cmdFailure' = failure
  /\ UNCHANGED <<cmdCase, cmdShutdown>>

Launch ==
  /\ cmdPhase = "new"
  /\ \/ /\ cmdCase.respects /\ cmdShutdown
        /\ Goes("done", "done", "shutdown")
        /\ UNCHANGED <<processVars, cmdFile>>
     \/ /\ ~(cmdCase.respects /\ cmdShutdown)
        /\ cmdFile' = IF cmdCase.to_file THEN "open" ELSE "none"
        /\ \/ /\ Goes("watch", "done", "none")
              /\ cmdLeader' = "running" /\ UNCHANGED <<cmdOther, cmdCode, cmdPrinted>>
           \/ /\ Goes("final", "done", "start")
              /\ UNCHANGED processVars
  /\ UNCHANGED threadVars

\* One turn of the poll loop.  The deadline may have passed at any of them.
Watch ==
  /\ cmdPhase = "watch"
  /\ \/ cmdLeader = "gone" /\ Goes("join", "done", "none")
     \/ /\ cmdLeader = "running"
        /\ \/ cmdDrain = "overflow" /\ Goes("term", "join", "overflow")
           \/ cmdDrain = "failed" /\ Goes("term", "join", "stream")
           \/ /\ cmdDrain \notin {"overflow", "failed"}
              /\ \/ cmdCase.respects /\ cmdShutdown /\ Goes("term", "join", "shutdown")
                 \/ ~(cmdCase.respects /\ cmdShutdown) /\ Goes("term", "join", "timeout")
  /\ UNCHANGED <<processVars, threadVars, cmdFile>>

Killed(who) == IF who = "none" THEN "none" ELSE "gone"

\* SIGTERM to the group ends whoever does not ignore it; a job object ends all.
Terminate ==
  /\ cmdPhase = "term"
  /\ LET spared == IF cmdCase.windows THEN {} ELSE cmdCase.ignores
         ends == cmdLeader = "running" /\ ~cmdCase.stuck /\ "leader" \notin spared
     IN  IF cmdLeader = "running" \/ cmdCase.windows
         THEN /\ cmdLeader' = IF ends THEN "gone" ELSE cmdLeader
              /\ cmdCode' = IF ends THEN 1 ELSE cmdCode
              /\ cmdOther' = IF "other" \in spared THEN cmdOther ELSE Killed(cmdOther)
         ELSE UNCHANGED <<cmdLeader, cmdCode, cmdOther>>
  /\ Goes("kill", cmdThen, cmdFailure)
  /\ UNCHANGED <<cmdPrinted, threadVars, cmdFile>>

\* Only a leader that outlived the grace time brings the SIGKILL.
NeedsKill == cmdLeader = "running"

Kill ==
  /\ cmdPhase = "kill"
  /\ IF NeedsKill
     THEN /\ cmdOther' = Killed(cmdOther)
          /\ IF cmdCase.stuck
             THEN /\ Goes(IF cmdThen = "close" THEN "done" ELSE "final", "done", "unterminated")
                  /\ UNCHANGED <<cmdLeader, cmdCode>>
             ELSE /\ Goes(cmdThen, "done", cmdFailure)
                  /\ cmdLeader' = "gone" /\ cmdCode' = 1
     ELSE Goes(cmdThen, "done", cmdFailure) /\ UNCHANGED <<cmdLeader, cmdCode, cmdOther>>
  /\ UNCHANGED <<cmdPrinted, threadVars, cmdFile>>

\* Fault: a thread that is still alive after the join is not looked at.
AnyThreads == TRUE

ThreadsDone == cmdDrain # "reading" /\ cmdFeed # "writing"

\* The join times out, or every thread has ended.
Join ==
  /\ cmdPhase = "join"
  /\ IF ThreadsDone THEN Goes("check", "done", cmdFailure)
                    ELSE Goes("term", "final", "threads")
  /\ UNCHANGED <<processVars, threadVars, cmdFile>>

\* What is raised for a command that ended by itself.
Verdict ==
  CASE cmdDrain = "overflow" -> "overflow"
    [] cmdDrain = "failed" -> "stream"
    [] cmdDrain \notin {"overflow", "failed"} ->
         IF cmdCase.check /\ cmdCode # 0 THEN "code" ELSE "none"

Check ==
  /\ cmdPhase = "check"
  /\ IF cmdFailure # "none"
     THEN Goes("final", "done", cmdFailure) /\ UNCHANGED cmdOther
     ELSE /\ \/ Goes("final", "done", Verdict)
             \/ /\ cmdDrain = "ended" /\ cmdCase.to_file
                /\ Goes("final", "done", "flush")
          /\ cmdOther' = IF cmdCase.windows /\ cmdDrain = "ended" THEN Killed(cmdOther) ELSE cmdOther
  /\ UNCHANGED <<cmdLeader, cmdCode, cmdPrinted, threadVars, cmdFile>>

\* finally: a leader that still runs is terminated once more, and when that
\* fails the rest is skipped.  Closing the job ends what is left in it.
Finally ==
  /\ cmdPhase = "final"
  /\ IF cmdLeader = "running"
     THEN Goes("term", "close", cmdFailure)
     ELSE Goes("close", "done", cmdFailure)
  /\ UNCHANGED <<processVars, threadVars, cmdFile>>

Close ==
  /\ cmdPhase = "close"
  /\ Goes("done", "done", cmdFailure)
  /\ cmdOther' = IF cmdCase.windows THEN Killed(cmdOther) ELSE cmdOther
  /\ cmdFile' = CASE cmdFile = "none" -> "none"
                  [] cmdFile # "none" -> IF cmdFailure = "none" THEN "kept" ELSE "removed"
  /\ UNCHANGED <<cmdLeader, cmdCode, cmdPrinted, threadVars>>

-----------------------------------------------------------------------------
CommandInit ==
  /\ cmdCase \in Cases
  /\ cmdPhase = "new" /\ cmdThen = "done"
  /\ cmdLeader = "none" /\ cmdOther = "none" /\ cmdCode = 0
  /\ cmdPrinted = 0 /\ cmdCaptured = 0 /\ cmdDrain = "reading"
  /\ cmdFeed \in {"writing", "ended"}
  /\ cmdShutdown = FALSE /\ cmdFailure = "none" /\ cmdFile = "none"

CommandNext ==
  \/ ProcessPrints \/ LeaderStartsOther \/ LeaderExits \/ OtherExits \/ ShutdownRequested
  \/ Drain \/ Feed
  \/ Launch \/ Watch \/ Terminate \/ Kill \/ Join \/ Check \/ Finally \/ Close

CommandSpec == CommandInit /\ [][CommandNext]_cmdVars

-----------------------------------------------------------------------------
\* A command that returns has ended by itself, and everything it and its
\* descendants printed was captured, within the limit; its file is kept.  A
\* command that raises leaves no running process it started and no partial
\* file, unless the process could not be killed; on Windows no descendant
\* either (CommandRunner._execute and _communicate_bounded).
CommandOutcome ==
  cmdPhase = "done" =>
    /\ cmdFailure = "none" =>
         /\ cmdLeader = "gone" /\ (cmdCase.check => cmdCode = 0)
         /\ cmdCaptured = cmdPrinted /\ cmdCaptured <= OutputLimit
         /\ cmdCase.to_file => cmdFile = "kept"
    /\ cmdFailure \notin {"none", "unterminated"} =>
         cmdLeader # "running" /\ cmdFile \in {"none", "removed"}
    /\ cmdCase.windows /\ cmdFailure # "unterminated" => cmdOther # "running"

\* A command that was terminated leaves nothing of its process tree running
\* (tests/unit/demo_e2e/test_commands.py:88).
TreeTerminated ==
  cmdPhase = "done" /\ cmdFailure \in {"timeout", "shutdown", "overflow", "stream"} =>
    cmdOther # "running"

-----------------------------------------------------------------------------
(* The inductive invariant *)

CommandTypeOK ==
  /\ cmdCase \in Cases
  /\ cmdPhase \in {"new", "watch", "term", "kill", "join", "check", "final", "close", "done"}
  /\ cmdThen \in {"join", "final", "close", "done"}
  /\ cmdLeader \in {"none", "running", "gone"} /\ cmdOther \in {"none", "running", "gone"}
  /\ cmdCode \in {0, 1}
  /\ cmdPrinted \in 0 .. MaxChunks /\ cmdCaptured \in 0 .. OutputLimit
  /\ cmdDrain \in {"reading", "ended", "overflow", "failed"} /\ cmdFeed \in {"writing", "ended"}
  /\ cmdShutdown \in BOOLEAN
  /\ cmdFailure \in {"none", "shutdown", "start", "overflow", "stream", "timeout", "unterminated",
                     "threads", "code", "flush"}
  /\ cmdFile \in {"none", "open", "kept", "removed"}

\* Before a process runs there is none to have a descendant or to print: the
\* threads and the file come after it.
BeforeLaunch ==
  /\ cmdPhase = "new" =>
       cmdLeader = "none" /\ cmdThen = "done" /\ cmdFailure = "none" /\ cmdFile = "none"
  /\ cmdLeader = "none" => cmdOther = "none" /\ cmdDrain = "reading"

\* The stream ended: everything was drained and nobody can print any more.
Drained == cmdDrain = "ended" => cmdCaptured = cmdPrinted /\ ~PipeOpen

\* What the supervisor knows of the leader and of the failure where it stands.
SupervisorSound ==
  /\ cmdPhase = "watch" => cmdLeader # "none" /\ cmdFailure = "none"
  /\ cmdPhase \in {"term", "kill"} =>
       cmdLeader # "none" /\ cmdFailure # "none" /\ cmdThen \in {"join", "final", "close"}
  /\ cmdPhase \in {"join", "check"} => cmdLeader = "gone"
  /\ cmdPhase = "check" => ThreadsDone
  /\ cmdPhase = "close" => cmdLeader # "running"

\* Without a failure the command ended by itself and its output is complete.
Succeeded ==
  cmdPhase \in {"final", "close", "done"} /\ cmdFailure = "none" =>
    cmdLeader = "gone" /\ (cmdCase.check => cmdCode = 0) /\ cmdDrain = "ended"

\* The output file is open until the very end.
FileSound ==
  /\ cmdPhase \notin {"new", "done"} => cmdFile = IF cmdCase.to_file THEN "open" ELSE "none"
  /\ ~cmdCase.to_file => cmdFile = "none"

CommandInvariant ==
  CommandTypeOK /\ BeforeLaunch /\ Drained /\ SupervisorSound /\ Succeeded /\ FileSound /\ CommandOutcome
=============================================================================
