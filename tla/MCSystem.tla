------------------------------ MODULE MCSystem ------------------------------
(* Parts of the system that share no state in these models, checked side by  *)
(* side: part names the one that moves, the others stay where they began.    *)
(*   sessions   operator keys and browser sessions (WebSessions)             *)
(*   rules      the detection rules on a small history (DetectionRules)      *)
(*   agent      two sources, one spool and its delivery (AgentPipeline)      *)
EXTENDS MCWebSessions, DemoCatalog, MCAgentPipeline

VARIABLE part

systemVars == <<part, vars, rulesVars, agentVars>>

-----------------------------------------------------------------------------
(* One rule of each kind, and a history in which each can nearly match. *)

Step(type, repeat) == [type |-> type, filters |-> NoFilters, repeat |-> repeat]

SmallRules ==
  {[rule_key |-> "three_steps", enabled |-> TRUE, correlation |-> <<"ip">>,
    condition |-> [kind |-> "sequence", window |-> 3,
                   steps |-> <<Step("fail", 2), Step("lock", 1), Step("login", 1)>>]],
   [rule_key |-> "sequence_twice", enabled |-> TRUE, correlation |-> <<"ip">>,
    condition |-> [kind |-> "sequence", window |-> 2,
                   steps |-> <<Step("fail", 1), Step("login", 2)>>]],
   [rule_key |-> "new_ip", enabled |-> TRUE, correlation |-> <<"actor", "ip">>,
    condition |-> [kind |-> "first_seen", type |-> "login", filters |-> NoFilters, window |-> 2,
                   value |-> "ip", scope |-> <<"actor">>, required |-> 1]],
   [rule_key |-> "fails", enabled |-> TRUE, correlation |-> <<"ip">>,
    condition |-> [kind |-> "threshold", type |-> "fail", filters |-> NoFilters, window |-> 2,
                   threshold |-> 2, group |-> <<"ip">>]],
   [rule_key |-> "spray", enabled |-> TRUE, correlation |-> <<"ip">>,
    condition |-> [kind |-> "distinct", type |-> "fail", filters |-> NoFilters, window |-> 3,
                   threshold |-> 2, minimum |-> 2, counted |-> "actor", group |-> <<"ip">>]]}

Of(who, from) == [actor |-> who, ip |-> from]

Event(id, at, type, fields) == [id |-> id, at |-> at, type |-> type, fields |-> fields]

SmallHistory ==
  {Event(1, 0, "fail", Of("a", 1)), Event(2, 1, "fail", [ip |-> 1]),
   Event(3, 1, "fail", Of("b", 1)), Event(4, 1, "lock", Of("a", 1)),
   Event(5, 2, "lock", Of("a", 1)), Event(6, 2, "fail", Of("a", 1)),
   Event(7, 3, "login", Of("a", 1)), Event(8, 3, "login", Of("a", 2)),
   Event(9, 2, "login", Of("a", 1))}

-----------------------------------------------------------------------------
SystemInit ==
  /\ part \in {"sessions", "rules", "agent"}
  /\ Init /\ (part # "sessions" => key[FirstKey].expires = Never)
  /\ RulesInit /\ AgentInit

\* A session can always move; the other parts come to an end.
SystemNext ==
  /\ UNCHANGED part
  /\ \/ part = "sessions" /\ Next /\ UNCHANGED <<rulesVars, agentVars>>
     \/ part = "rules" /\ (RulesNext \/ UNCHANGED rulesVars) /\ UNCHANGED <<vars, agentVars>>
     \/ part = "agent" /\ (AgentNext \/ UNCHANGED agentVars) /\ UNCHANGED <<vars, rulesVars>>

SystemSpec == SystemInit /\ [][SystemNext]_systemVars
=============================================================================
