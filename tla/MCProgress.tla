----------------------------- MODULE MCProgress -----------------------------
(* The two parts of the control plane that must get something done in spite  *)
(* of crashes, lost leases and deadlocks: the outbox workers, and the        *)
(* ingestion of batches beside operators' requests. They share no state in   *)
(* these models, so one run checks them side by side: part names the one     *)
(* that moves.                                                               *)
EXTENDS MCOutbox, MCIncidents

VARIABLE part

progressVars == <<part, vars, incidentsVars>>

ProgressInit == part \in {"outbox", "incidents"} /\ Init /\ IncidentsInit

ProgressNext ==
  /\ UNCHANGED part
  /\ \/ part = "outbox" /\ Next /\ UNCHANGED incidentsVars
     \/ part = "incidents" /\ IncidentsNext /\ UNCHANGED vars

\* The fairness of each (Fairness, IncidentsFairness) while it moves.
OutboxFairness ==
  /\ WF_vars(part = "outbox" /\ Tick)
  /\ \A w \in Workers : WF_vars(part = "outbox" /\ WorkerStep(w))

IngestFairness ==
  /\ \A b \in Batches :
       /\ WF_incidentsVars(part = "incidents" /\ SendUnstored(b))
       /\ \A e \in Content[b] : SF_incidentsVars(part = "incidents" /\ Detect(b, e))
       /\ WF_incidentsVars(part = "incidents" /\ Link(b))
       /\ WF_incidentsVars(part = "incidents" /\ Commit(b))
       /\ WF_incidentsVars(part = "incidents" /\ BreakDeadlock(b))
  /\ \A c \in Callers :
       WF_incidentsVars(part = "incidents" /\ call[c].pc # "idle" /\ Operate(c))

ProgressSpec ==
  ProgressInit /\ [][ProgressNext]_progressVars /\ OutboxFairness /\ IngestFairness
=============================================================================
