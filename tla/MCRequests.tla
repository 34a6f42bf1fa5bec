----------------------------- MODULE MCRequests -----------------------------
(* Parts that share no state, checked side by side: part names the one that  *)
(* moves, the others stay where they began.                                  *)
(*   incidents  ingestion, detection and the incident workflow (Incidents)   *)
(*   pages      the paged lists (KeysetPages)                                *)
(*   limits     the request limiters (LoginLimits)                           *)
(*   command    one command of the demo driver (CommandRunner)               *)
EXTENDS MCIncidents, KeysetPages, LoginLimits, CommandRunner

VARIABLE part

requestsVars == <<part, incidentsVars, pageVars, limitVars, cmdVars>>

-----------------------------------------------------------------------------
LimitOf == [kind \in {"global", "malformed", "subject", "keyed"} |->
              IF kind \in {"global", "keyed"} THEN 2 ELSE 1]
WindowOf == [kind \in DOMAIN LimitOf |-> IF kind = "global" THEN 2 ELSE 3]

\* Together: keyed requests; logins of one key and broken ones; two keys.
Mixes == {{"keyed"}, {"u", "malformed"}, {"u", "v"}}

\* Where a part stays that does not move.
QuietPages == {Row(id, id, id, TRUE) : id \in {1, 2}}
QuietCommand ==
  [windows |-> FALSE, to_file |-> FALSE, respects |-> FALSE, check |-> FALSE,
   ignores |-> {}, stuck |-> FALSE, holds |-> FALSE]

RequestsInit ==
  /\ part \in {"incidents", "pages", "limits", "command"}
  /\ IncidentsInit
  /\ IF part = "pages" THEN TRUE ELSE pageList = ServersList /\ pageRows = QuietPages
  /\ PagesInit
  /\ IF part = "limits" THEN TRUE ELSE limitMix = {"keyed"}
  /\ LimitsInit
  /\ IF part = "command" THEN TRUE ELSE cmdCase = QuietCommand /\ cmdFeed = "ended"
  /\ CommandInit

\* Only a transaction that nobody ends would be a deadlock; a list is read, the
\* clock of the limits runs out and a command ends.
RequestsNext ==
  /\ UNCHANGED part
  /\ \/ part = "incidents" /\ IncidentsNext /\ UNCHANGED <<pageVars, limitVars, cmdVars>>
     \/ /\ part = "pages" /\ (PagesNext \/ UNCHANGED pageVars)
        /\ UNCHANGED <<incidentsVars, limitVars, cmdVars>>
     \/ /\ part = "limits" /\ (LimitsNext \/ UNCHANGED limitVars)
        /\ UNCHANGED <<incidentsVars, pageVars, cmdVars>>
     \/ /\ part = "command" /\ (CommandNext \/ UNCHANGED cmdVars)
        /\ UNCHANGED <<incidentsVars, pageVars, limitVars>>

RequestsSpec == RequestsInit /\ [][RequestsNext]_requestsVars
=============================================================================
