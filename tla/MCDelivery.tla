----------------------------- MODULE MCDelivery -----------------------------
(* The two clients that send batches to the control plane and cannot rely on *)
(* its answers: the agent with its spool, and the demo gate with the shipped *)
(* catalog.  They share nothing, so one run checks them side by side: part   *)
(* names the one that moves.  The small history of DetectionRules is empty.  *)
EXTENDS MCAgentPipeline, DemoPipeline

VARIABLE part

clientVars == <<part, agentVars, rulesVars, gateVars>>

DeliveryInit == part \in {"agent", "gate"} /\ AgentInit /\ RulesInit /\ GateInit

DeliveryNext ==
  /\ UNCHANGED <<part, rulesVars>>
  /\ \/ part = "agent" /\ AgentNext /\ UNCHANGED gateVars
     \/ part = "gate" /\ GateNext /\ UNCHANGED agentVars

\* The fairness of the agent (AgentFairness) while it moves.
DeliveryFairness ==
  /\ WF_agentVars(part = "agent" /\ StartAgent)
  /\ WF_agentVars(part = "agent" /\ Deliver)
  /\ SF_agentVars(part = "agent" /\ AnswerFinal)
  /\ \A s \in Sources : WF_agentVars(part = "agent" /\ Collect(s))
  /\ \A e \in Events : WF_agentVars(part = "agent" /\ BecomeDue(e))

DeliverySpec == DeliveryInit /\ [][DeliveryNext]_clientVars /\ DeliveryFairness
=============================================================================
