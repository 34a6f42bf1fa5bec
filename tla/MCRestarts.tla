----------------------------- MODULE MCRestarts -----------------------------
(* Two programs that are started again after they were cut off: the bot's    *)
(* poller, which goes on from its offset, and the demo's recovery command,   *)
(* which goes on from its ledger.  They share nothing, so one run checks     *)
(* them side by side: part names the one that moves.                         *)
EXTENDS MCTelegramBot, MCDemoTeardown

VARIABLE part

restartsVars == <<part, botVars, vars>>

\* No verification has been started.
NoTeardown ==
  /\ mode = "automated"
  /\ docker = {} /\ daemon = {} /\ files = {} /\ ledger = NoLedger
  /\ at = [p \in Processes |-> "idle"]
  /\ mem = [p \in Processes |-> NoLedger]
  /\ own = [p \in Processes |-> {}]
  /\ clean = [p \in Processes |-> "enter"]
  /\ raised = [p \in Processes |-> FALSE] /\ failed = [p \in Processes |-> FALSE]
  /\ faults = 0 /\ lapse = FALSE

RestartsInit ==
  /\ BotInit
  /\ \/ part = "poller" /\ NoTeardown
     \/ part = "recovery" /\ Init

RestartsNext ==
  /\ UNCHANGED part
  /\ \/ part = "poller" /\ BotNext /\ UNCHANGED vars
     \/ part = "recovery" /\ Next /\ UNCHANGED botVars

\* The fairness of each (BotFairness, FairSpec) while it moves.
RestartsFairness ==
  /\ WF_botVars(part = "poller" /\ Fetch)
  /\ WF_botVars(part = "poller" /\ TryAgain)
  /\ WF_botVars(part = "poller" /\ Handle)
  /\ WF_botVars(part = "poller" /\ Confirm)
  /\ \A p \in Processes : WF_vars(part = "recovery" /\ Step(p))
  /\ WF_vars(part = "recovery" /\ \E r \in daemon : DaemonCreates(r))
  /\ WF_vars(part = "recovery" /\ StartRecovery)

RestartsSpec == RestartsInit /\ [][RestartsNext]_restartsVars /\ RestartsFairness
=============================================================================
