----------------------------- MODULE MCSources -----------------------------
(* The two sources of the agent that compare files with what they remember:  *)
(* the follower with its cursor and the integrity source with its baseline.  *)
(* They share nothing, so one run checks them side by side: part names the   *)
(* one that moves, and the other is at rest.                                 *)
EXTENDS MCFollowedFile, MCFileIntegrity

VARIABLE part

sourcesVars == <<part, followedVars, integrityVars>>

\* A source that has come to the state of the files and sees no edit.
IntegritySettled ==
  /\ file = CHOOSE f \in [Paths -> States] : TRUE
  /\ watched = Paths
  /\ scan = Idle
  /\ baseline = file
  /\ spool = {} /\ stored = {}
  /\ edits = [f \in Paths |-> 0]
  /\ changes = [f \in Paths |-> 0]

SourcesInit ==
  \/ part = "followed" /\ FollowedInit /\ IntegritySettled
  \/ part = "integrity" /\ FollowedInit /\ IntegrityInit

\* Of a file nothing more may happen; a stop of the integrity source would be
\* a deadlock.
SourcesNext ==
  /\ UNCHANGED part
  /\ \/ part = "followed" /\ (FollowedNext \/ UNCHANGED followedVars) /\ UNCHANGED integrityVars
     \/ part = "integrity" /\ IntegrityNext /\ UNCHANGED followedVars

\* The fairness of each (FollowedFairness, IntegrityFairness) while it moves.
SourcesFairness ==
  /\ WF_followedVars(part = "followed" /\ Create)
  /\ WF_followedVars(part = "followed" /\ ReaderSteps)
  /\ SF_followedVars(part = "followed" /\ Open)
  /\ SF_followedVars(part = "followed" /\ CursorUnavailable)
  /\ SF_followedVars(part = "followed" /\ ReadLine)
  /\ WF_integrityVars(part = "integrity" /\ ScanStep)
  /\ WF_integrityVars(part = "integrity" /\ StoreEvent)

SourcesSpec == SourcesInit /\ [][SourcesNext]_sourcesVars /\ SourcesFairness
=============================================================================
