----------------------------- MODULE MCDemoGate -----------------------------
(* The demo gate as it is in the source: verify_exact_rules demands eight    *)
(* rules, nothing fails around it, and nothing stops it but its own checks.  *)
(* The rules are those of the catalog; the small history of DetectionRules   *)
(* is empty here.                                                            *)
EXTENDS DemoPipeline

DemoGateSpec ==
  /\ RulesInit /\ GateInit
  /\ [][GateNext /\ UNCHANGED rulesVars]_<<rulesVars, gateVars>>
  /\ WF_gateVars(GateNext)
=============================================================================
