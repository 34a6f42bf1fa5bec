-------------------------- MODULE TelegramBotProofs --------------------------
(***************************************************************************)
(* Proofs about TelegramBot and the plans of IpBlockPlans, for any         *)
(* incidents, addresses, operators and menus of updates, any size of the   *)
(* batch and any bounds.                                                   *)
(*                                                                         *)
(* The operations on the plans come first, each as the caller runs it.     *)
(* Of the bot's steps most leave the updates alone (QuietStep) or handle   *)
(* one (HandledStep); these lemmas say what such a step has to keep.       *)
(***************************************************************************)
EXTENDS TelegramBot, SequenceTheorems, TLAPS

(* The operations on the plans *)

LEMMA PlanParameters ==
  /\ DOMAIN SourceIp \subseteq Incidents /\ MaxPlan \in Nat /\ SecondOperator \in BOOLEAN
  /\ 0 \notin PlanIds /\ PlanIds \subseteq Nat
  BY PlansAssumption DEF PlansAssumption, PlanIds

LEMMA NoDecisionSound ==
  /\ NoDecision \in [step: {"none", "locked", "classified"}, plan: PlanIds \cup {0},
                     actor: Actors, blockable: BOOLEAN]
  /\ NoDecision.step = "none"
  BY DEF NoDecision, Actors

LEMMA PlansUnchanged ==
  ASSUME PlansInvariant, UNCHANGED planVars
  PROVE  PlansInvariant'
  BY DEF PlansInvariant, PlansTypeOK, DecisionSound, ApprovedBySecond, AddressOf, planVars

\* A plan is written anew only while no approval is under way.
LEMMA PlanWritten ==
  ASSUME PlansInvariant, decision = NoDecision, NEW p \in PlanIds, NEW u \in PlanType,
         plan' = [plan EXCEPT ![p] = u], UNCHANGED <<allowlist, decision, listed>>,
         u.status # "approved" \/ u.decider # u.proposer
  PROVE  PlansInvariant'
<1>1. PlansTypeOK'
  BY DEF PlansInvariant, PlansTypeOK
<1>2. \A q \in PlanIds : plan'[q] = IF q = p THEN u ELSE plan[q]
  BY DEF PlansInvariant, PlansTypeOK
<1>3. DecisionSound'
  BY NoDecisionSound DEF DecisionSound
<1>4. ApprovedBySecond'
  BY <1>2 DEF PlansInvariant, ApprovedBySecond
<1> QED BY <1>1, <1>3, <1>4 DEF PlansInvariant

LEMMA ProposeStep ==
  ASSUME PlansInvariant, decision = NoDecision, NEW actor \in Operators, NEW i, NEW p \in PlanIds,
         Propose(actor, i, p)
  PROVE  PlansInvariant'
<1> DEFINE u == [plan[p] EXCEPT !.status = IF p \in Existing(i) THEN plan[p].status ELSE "proposed",
                                !.incident = i, !.proposer = actor, !.expired = FALSE]
<1>1. plan[p] \in PlanType /\ i \in Incidents
  BY PlanParameters DEF PlansInvariant, PlansTypeOK, Propose
<1>2. p \in Existing(i) => plan[p].status = "proposed"
  BY DEF Existing
<1>3. u \in PlanType /\ u.status = "proposed"
  BY <1>1, <1>2 DEF PlanType, PlanStatuses, Actors
<1>4. plan' = [plan EXCEPT ![p] = u] /\ UNCHANGED <<allowlist, decision, listed>>
  BY DEF Propose
<1> HIDE DEF u
<1> QED BY <1>3, <1>4, PlanWritten

LEMMA RejectStep ==
  ASSUME PlansInvariant, decision = NoDecision, NEW actor \in Operators, NEW p \in PlanIds,
         Reject(actor, p)
  PROVE  PlansInvariant'
<1> DEFINE u == [plan[p] EXCEPT !.status = "rejected", !.decider = actor]
<1>1. u \in PlanType /\ u.status = "rejected"
  BY DEF PlansInvariant, PlansTypeOK, PlanType, PlanStatuses, Actors
<1>2. plan' = [plan EXCEPT ![p] = u] /\ UNCHANGED <<allowlist, decision, listed>>
  BY DEF Reject, Decided
<1> HIDE DEF u
<1> QED BY <1>1, <1>2, PlanWritten

LEMMA ExpirePlanStep ==
  ASSUME PlansInvariant, NEW p \in PlanIds, ExpirePlan(p)
  PROVE  PlansInvariant'
<1>1. PlansTypeOK'
  BY DEF PlansInvariant, PlansTypeOK, PlanType, ExpirePlan
<1>2. \A q \in PlanIds : /\ plan'[q].status = plan[q].status /\ plan'[q].incident = plan[q].incident
                         /\ plan'[q].proposer = plan[q].proposer /\ plan'[q].decider = plan[q].decider
  BY DEF PlansInvariant, PlansTypeOK, PlanType, ExpirePlan
<1>3. DecisionSound'
  BY <1>2 DEF PlansInvariant, DecisionSound, ExpirePlan, AddressOf
<1>4. ApprovedBySecond'
  BY <1>2 DEF PlansInvariant, ApprovedBySecond
<1> QED BY <1>1, <1>3, <1>4 DEF PlansInvariant

\* The command line interface does not wait for an approval, and it can only
\* make the addresses listed since its beginning fewer.
LEMMA EditStep ==
  ASSUME PlansInvariant, NEW a \in Addresses, AddEntry(a) \/ RevokeEntry(a)
  PROVE  PlansInvariant'
<1>1. PlansTypeOK' /\ listed' \subseteq listed /\ UNCHANGED <<plan, decision>>
  BY DEF PlansInvariant, PlansTypeOK, AddEntry, RevokeEntry
<1>2. DecisionSound' /\ ApprovedBySecond'
  BY <1>1 DEF PlansInvariant, DecisionSound, ApprovedBySecond, AddressOf
<1> QED BY <1>1, <1>2 DEF PlansInvariant

LEMMA LockPlanStep ==
  ASSUME PlansInvariant, NEW actor \in Operators, NEW p \in PlanIds, LockPlan(actor, p)
  PROVE  PlansInvariant' /\ decision'.step = "locked"
<1>1. decision' = [step |-> "locked", plan |-> p, actor |-> actor, blockable |-> FALSE]
  BY DEF LockPlan, NoDecision
<1>2. PlansTypeOK'
  <2>1. decision' \in [step: {"none", "locked", "classified"}, plan: PlanIds \cup {0},
                      actor: Actors, blockable: BOOLEAN]
    BY <1>1 DEF Actors
  <2> QED BY <2>1 DEF PlansInvariant, PlansTypeOK, LockPlan
<1>3. DecisionSound'
  BY <1>1 DEF DecisionSound, LockPlan, Approvable, Live
<1>4. ApprovedBySecond'
  BY DEF PlansInvariant, ApprovedBySecond, LockPlan
<1> QED BY <1>1, <1>2, <1>3, <1>4 DEF PlansInvariant

\* The classification sees every entry there was when the approval began and
\* still is.
LEMMA ClassifyStep ==
  ASSUME PlansInvariant, Classify
  PROVE  PlansInvariant' /\ decision'.step = "classified"
<1>1. /\ decision'.step = "classified" /\ decision'.plan = decision.plan /\ decision'.actor = decision.actor
      /\ decision'.blockable = Blockable(AddressOf(decision.plan))
      /\ UNCHANGED <<plan, allowlist, listed>>
  BY DEF PlansInvariant, PlansTypeOK, Classify
<1>2. PlansTypeOK'
  BY <1>1 DEF PlansInvariant, PlansTypeOK, Classify, Blockable
<1>3. AddressOf(decision.plan)' = AddressOf(decision.plan)
  BY <1>1 DEF AddressOf
<1>4. decision'.blockable => AddressOf(decision.plan) \notin listed
  BY <1>1 DEF Blockable, PlansInvariant, PlansTypeOK
<1>5. DecisionSound'
  BY <1>1, <1>3, <1>4 DEF PlansInvariant, DecisionSound, Classify
<1>6. ApprovedBySecond'
  BY <1>1 DEF PlansInvariant, ApprovedBySecond
<1> QED BY <1>1, <1>2, <1>5, <1>6 DEF PlansInvariant

LEMMA RollBackStep ==
  ASSUME PlansInvariant, RollBackDecision
  PROVE  PlansInvariant'
<1>1. PlansTypeOK' /\ DecisionSound'
  BY NoDecisionSound DEF PlansInvariant, PlansTypeOK, DecisionSound, RollBackDecision
<1>2. ApprovedBySecond'
  BY DEF PlansInvariant, ApprovedBySecond, RollBackDecision
<1> QED BY <1>1, <1>2 DEF PlansInvariant

\* What the approval writes: another operator than the proposer decides, and
\* approves only an address that has not been listed throughout.
LEMMA CommitDecisionStep ==
  ASSUME PlansInvariant, CommitDecision
  PROVE  /\ PlansInvariant'
         /\ \A p \in PlanIds : plan[p].status # "approved" /\ plan'[p].status = "approved"
              => AddressOf(p) \notin listed
<1> DEFINE p == decision.plan
           status == IF decision.blockable THEN "approved" ELSE "rejected"
<1>1. /\ p \in PlanIds
      /\ SecondOperator => plan[p].proposer # decision.actor
      /\ decision.blockable => AddressOf(p) \notin listed
      /\ decision.actor \in Actors /\ plan \in [PlanIds -> PlanType]
  BY DEF PlansInvariant, PlansTypeOK, DecisionSound, CommitDecision
<1> DEFINE u == [plan[p] EXCEPT !.status = status, !.decider = decision.actor]
<1>2. /\ u \in PlanType /\ u.status = status /\ u.decider = decision.actor
      /\ u.proposer = plan[p].proposer /\ plan' = [plan EXCEPT ![p] = u]
  <2>1. status \in PlanStatuses /\ plan[p] \in PlanType
    BY <1>1 DEF PlanStatuses
  <2>2. u \in PlanType /\ u.status = status /\ u.decider = decision.actor /\ u.proposer = plan[p].proposer
    BY <1>1, <2>1 DEF PlanType
  <2>3. plan' = [plan EXCEPT ![p] = u]
    BY DEF CommitDecision, Decided
  <2> QED BY <2>2, <2>3
<1> HIDE DEF u
<1>3. /\ plan' \in [PlanIds -> PlanType]
      /\ plan'[p].status = status /\ plan'[p].decider = decision.actor
      /\ plan'[p].proposer = plan[p].proposer
      /\ \A q \in PlanIds \ {p} : plan'[q] = plan[q]
  BY <1>1, <1>2
<1>4. PlansTypeOK'
  BY <1>3, NoDecisionSound DEF PlansInvariant, PlansTypeOK, CommitDecision
<1>5. DecisionSound'
  BY NoDecisionSound DEF DecisionSound, CommitDecision
<1>6. ApprovedBySecond'
  BY <1>1, <1>3 DEF PlansInvariant, ApprovedBySecond
<1> QED BY <1>1, <1>3, <1>4, <1>5, <1>6 DEF PlansInvariant

-----------------------------------------------------------------------------
(* The updates *)

LEMMA BotParameters ==
  /\ UNION Menus \subseteq UpdateType /\ Moves \subseteq Incidents \X Targets
  /\ Batch \in Nat /\ Batch >= 1 /\ MaxUpdates \in Nat
  /\ MaxFailures \in Nat /\ MaxOutside \in Nat
  BY BotAssumption DEF BotAssumption

\* The fields of an update, by its kind.
LEMMA UpdateFields ==
  ASSUME NEW m \in UpdateType
  PROVE  /\ m.kind \in {"press", "text", "invalid", "long", "malformed", "command", "propose",
                       "approve", "reject"}
         /\ m.user \in Operators
         /\ m.kind = "press" => m.incident \in Incidents /\ m.to \in Targets
         /\ m.kind = "propose" => m.incident \in Incidents
         /\ m.kind \in {"approve", "reject"} => m.plan \in PlanIds
  BY DEF UpdateType

LEMMA UpdatesTyped ==
  ASSUME BotInvariant
  PROVE  /\ Len(sent) \in Nat /\ sent \in Seq(UNION Menus)
         /\ \A n \in UpdateIds : sent[n] \in UpdateType
<1>1. sent \in Seq(UNION Menus)
  BY DEF BotInvariant, BotTypeOK
<1>2. \A n \in UpdateIds : sent[n] \in UNION Menus
  BY <1>1, ElementOfSeq DEF UpdateIds
<1> QED BY <1>1, <1>2, LenProperties, BotParameters

\* Where the poller is: the update handled next is one of those sent, or the
\* one after the last.
LEMMA PollerPlace ==
  ASSUME BotInvariant
  PROVE  /\ offset \in Nat /\ Len(sent) \in Nat /\ offset <= Len(sent)
         /\ Position \in Nat /\ offset < Position /\ Position <= Len(sent) + 1
         /\ poller.pc \in {"idle", "waiting", "handling"}
         /\ poller.pc = "handling" =>
              /\ poller.next \in Nat /\ poller.last \in Nat /\ poller.next = Position
              /\ offset < poller.last /\ poller.last <= Len(sent)
         /\ poller.pc = "handling" /\ poller.next <= poller.last => poller.next \in UpdateIds
<1>1. /\ Len(sent) \in Nat /\ offset \in 0..Len(sent) /\ PollerSound
      /\ poller \in [pc: {"idle", "waiting", "handling"}, next: 0..Len(sent) + 1, last: 0..Len(sent)]
  BY UpdatesTyped DEF BotInvariant, BotTypeOK
<1> QED BY <1>1 DEF PollerSound, Position, UpdateIds

-----------------------------------------------------------------------------
(* Steps that handle no update *)

\* A step that sends and handles nothing keeps the invariant if the prompts
\* stay as they are, or fewer, and the poller does not move on.
LEMMA QuietStep ==
  ASSUME BotInvariant, UNCHANGED <<sent, recorded, shown, handled, dropped, changes>>,
         PlansInvariant', PollerSound',
         offset' \in 0..Len(sent),
         poller' \in [pc: {"idle", "waiting", "handling"}, next: 0..Len(sent) + 1, last: 0..Len(sent)],
         Position' \in Nat, Position' <= Position,
         incident' \in [Incidents -> [status: Targets \cup {"new"}, version: 1..3]],
         \A i \in Incidents : VersionSound(i)',
         pending' \in [Operators -> [incident: Incidents, to: Terminal, expired: BOOLEAN] \cup {NoPrompt}],
         \A u \in Operators : pending'[u] # NoPrompt =>
           /\ pending[u] # NoPrompt
           /\ pending'[u].incident = pending[u].incident /\ pending'[u].to = pending[u].to,
         failures' \in 0..MaxFailures, outside' \in 0..MaxOutside
  PROVE  BotInvariant'
<1>1. UpdateIds' = UpdateIds
  BY DEF UpdateIds
<1>2. BotTypeOK'
  BY <1>1 DEF BotInvariant, BotTypeOK, PlansInvariant
<1>3. ASSUME NEW u \in Operators
      PROVE  PromptSound(u)'
  <2> SUFFICES ASSUME pending'[u] # NoPrompt
               PROVE  \E n \in UpdateIds :
                        /\ sent[n].kind = "press" /\ sent[n].user = u
                        /\ sent[n].incident = pending'[u].incident /\ sent[n].to = pending'[u].to
                        /\ NotTakenBack(n, Position', u)
    BY <1>1 DEF PromptSound, NotTakenBack
  <2>1. PICK n \in UpdateIds :
          /\ sent[n].kind = "press" /\ sent[n].user = u
          /\ sent[n].incident = pending[u].incident /\ sent[n].to = pending[u].to
          /\ NotTakenBack(n, Position, u)
    BY DEF BotInvariant, PromptSound
  <2>2. n \in Nat /\ Position \in Nat
    BY PollerPlace DEF UpdateIds
  <2>3. NotTakenBack(n, Position', u)
    <3>1. (n + 1)..(Position' - 1) \subseteq (n + 1)..(Position - 1)
      BY <2>2
    <3> QED BY <2>1, <3>1 DEF NotTakenBack
  <2> QED BY <2>1, <2>3
<1>4. CancelledStaysOpen' /\ ChangesOnce' /\ \A c \in changes' : c.by \in recorded'
  BY <1>1 DEF BotInvariant, CancelledStaysOpen, ChangesOnce, Presses, NotTakenBack
<1> QED BY <1>2, <1>3, <1>4 DEF BotInvariant

\* What the steps below leave as it was.
LEMMA Unmoved ==
  ASSUME BotInvariant
  PROVE  /\ offset \in 0..Len(sent)
         /\ poller \in [pc: {"idle", "waiting", "handling"}, next: 0..Len(sent) + 1, last: 0..Len(sent)]
         /\ incident \in [Incidents -> [status: Targets \cup {"new"}, version: 1..3]]
         /\ \A i \in Incidents : VersionSound(i)
         /\ pending \in [Operators -> [incident: Incidents, to: Terminal, expired: BOOLEAN] \cup {NoPrompt}]
         /\ failures \in 0..MaxFailures /\ outside \in 0..MaxOutside
         /\ Position \in Nat /\ PlansInvariant /\ PollerSound
  BY PollerPlace DEF BotInvariant, BotTypeOK

LEMMA IncidentMoves ==
  ASSUME BotInvariant, NEW i \in Incidents, NEW to \in Targets, Moved(i, to),
         <<incident[i].status, to>> \in AllowedTransitions
  PROVE  /\ incident' \in [Incidents -> [status: Targets \cup {"new"}, version: 1..3]]
         /\ \A j \in Incidents : VersionSound(j)'
<1>1. /\ incident \in [Incidents -> [status: Targets \cup {"new"}, version: 1..3]]
      /\ VersionSound(i)
  BY Unmoved
<1>2. incident[i].status = "new" \/ (incident[i].status = "investigating" /\ to \in Terminal)
  BY DEF AllowedTransitions
<1>3. /\ incident[i].version \in 1..2 /\ to # "new"
      /\ to = "investigating" => incident[i].version = 1
  BY <1>1, <1>2 DEF VersionSound, Terminal, Targets
<1>4. incident[i].version + 1 \in 2..3
  BY <1>3
<1>5. incident' = [incident EXCEPT ![i] = [status |-> to, version |-> incident[i].version + 1]]
  BY DEF Moved
<1>6. incident' \in [Incidents -> [status: Targets \cup {"new"}, version: 1..3]]
  BY <1>1, <1>4, <1>5
<1>7. /\ incident'[i].status = to /\ incident'[i].version = incident[i].version + 1
      /\ \A j \in Incidents \ {i} : incident'[j] = incident[j]
  BY <1>1, <1>5
<1>8. ASSUME NEW j \in Incidents
      PROVE  VersionSound(j)'
  <2>1. CASE j = i
    BY <1>3, <1>4, <1>7, <2>1 DEF VersionSound
  <2>2. CASE j # i
    BY <1>7, <2>2, Unmoved DEF VersionSound
  <2> QED BY <2>1, <2>2
<1> QED BY <1>6, <1>8

LEMMA DashboardStep ==
  ASSUME BotInvariant, NEW m \in Moves, DashboardMoves(m[1], m[2])
  PROVE  BotInvariant'
<1>1. m[1] \in Incidents /\ m[2] \in Targets
  BY BotParameters
<1>2. /\ UNCHANGED <<sent, offset, poller, pending, recorded, shown, failures, handled, dropped, changes, planVars>>
      /\ outside < MaxOutside /\ outside' = outside + 1
      /\ Moved(m[1], m[2]) /\ <<incident[m[1]].status, m[2]>> \in AllowedTransitions
  BY DEF DashboardMoves, FromOutside
<1>3. /\ incident' \in [Incidents -> [status: Targets \cup {"new"}, version: 1..3]]
      /\ \A j \in Incidents : VersionSound(j)'
  BY <1>1, <1>2, IncidentMoves
<1>4. PlansInvariant' /\ PollerSound' /\ Position' = Position
  BY <1>2, PlansUnchanged, Unmoved DEF PollerSound, Position, planVars
<1>5. outside' \in 0..MaxOutside
  BY <1>2, Unmoved, BotParameters
<1> QED BY <1>2, <1>3, <1>4, <1>5, Unmoved, QuietStep

LEMMA ExpirePromptStep ==
  ASSUME BotInvariant, NEW u \in Operators, ExpirePrompt(u)
  PROVE  BotInvariant'
<1>1. UNCHANGED <<sent, offset, poller, incident, recorded, shown, failures, outside, handled, dropped, changes, planVars>>
  BY DEF ExpirePrompt
<1>2. pending[u] \in [incident: Incidents, to: Terminal, expired: BOOLEAN]
  BY Unmoved DEF ExpirePrompt
<1>3. /\ pending' \in [Operators -> [incident: Incidents, to: Terminal, expired: BOOLEAN] \cup {NoPrompt}]
      /\ \A v \in Operators : pending'[v] # NoPrompt =>
           /\ pending[v] # NoPrompt
           /\ pending'[v].incident = pending[v].incident /\ pending'[v].to = pending[v].to
  <2>1. pending' = [pending EXCEPT ![u] = [pending[u] EXCEPT !.expired = TRUE]] /\ pending[u] # NoPrompt
    BY DEF ExpirePrompt
  <2> QED BY <1>2, <2>1, Unmoved
<1>4. PlansInvariant' /\ PollerSound' /\ Position' = Position /\ \A j \in Incidents : VersionSound(j)'
  BY <1>1, PlansUnchanged, Unmoved DEF PollerSound, Position, planVars, VersionSound
<1> QED BY <1>1, <1>3, <1>4, Unmoved, QuietStep

\* A step of the plans, while the bot handles nothing else.
LEMMA PlansStep ==
  ASSUME BotInvariant, BotUnchanged, PlansInvariant', outside' \in 0..MaxOutside,
         \/ decision' = decision
         \/ poller.pc = "handling" /\ poller.next <= poller.last /\ sent[poller.next].kind = "approve"
  PROVE  BotInvariant'
<1>1. UNCHANGED <<sent, offset, poller, incident, pending, recorded, shown, failures, handled, dropped, changes>>
  BY DEF BotUnchanged
<1>2. PollerSound' /\ Position' = Position /\ \A j \in Incidents : VersionSound(j)'
  BY <1>1, Unmoved DEF PollerSound, Position, VersionSound
<1> QED BY <1>1, <1>2, Unmoved, QuietStep

LEMMA OutsideStep ==
  ASSUME BotInvariant, Environment, ~\E m \in UNION Menus : SendUpdate(m)
  PROVE  BotInvariant'
<1>1. CASE \E m \in Moves : DashboardMoves(m[1], m[2])
  BY <1>1, DashboardStep
<1>2. CASE \E u \in Operators : ExpirePrompt(u)
  BY <1>2, ExpirePromptStep
<1>3. ASSUME NEW p \in PlanIds, ExpirePlan(p) /\ OthersUnchanged
      PROVE  BotInvariant'
  <2>1. PlansInvariant' /\ decision' = decision
    BY <1>3, ExpirePlanStep, Unmoved DEF ExpirePlan
  <2> QED BY <1>3, <2>1, PlansStep, Unmoved DEF OthersUnchanged
<1>4. ASSUME NEW a \in Addresses, EditAllowlist(a)
      PROVE  BotInvariant'
  <2>1. PlansInvariant' /\ decision' = decision
    BY <1>4, EditStep, Unmoved DEF EditAllowlist, AddEntry, RevokeEntry
  <2>2. outside' \in 0..MaxOutside
    BY <1>4, Unmoved, BotParameters DEF EditAllowlist, FromOutside
  <2> QED BY <1>4, <2>1, <2>2, PlansStep DEF EditAllowlist
<1> QED BY <1>1, <1>2, <1>3, <1>4 DEF Environment

\* A message that arrives comes after all others.
LEMMA SendStep ==
  ASSUME BotInvariant, NEW m \in UNION Menus, SendUpdate(m)
  PROVE  BotInvariant'
<1>1. /\ sent' = Append(sent, m) /\ Len(sent) < MaxUpdates
      /\ UNCHANGED <<offset, poller, incident, pending, recorded, shown, failures,
                      outside, handled, dropped, changes, planVars>>
  BY DEF SendUpdate
<1>2. /\ sent' \in Seq(UNION Menus) /\ Len(sent') = Len(sent) + 1
      /\ \A n \in 1..Len(sent) : sent'[n] = sent[n]
  BY <1>1, UpdatesTyped, AppendProperties
<1>3. UpdateIds \subseteq UpdateIds' /\ \A n \in UpdateIds : sent'[n] = sent[n]
  BY <1>2, UpdatesTyped DEF UpdateIds
<1>4. Position' = Position /\ Position \in Nat /\ Position <= Len(sent) + 1
  BY <1>1, PollerPlace DEF Position
<1>5. PlansInvariant' /\ PollerSound' /\ \A i \in Incidents : VersionSound(i)'
  BY <1>1, <1>2, <1>4, PlansUnchanged, Unmoved, UpdatesTyped, PollerPlace
     DEF PollerSound, planVars, VersionSound
<1>6. BotTypeOK'
  <2>1. BotTypeOK
    BY DEF BotInvariant
  <2>2. offset' \in 0..Len(sent') /\ Len(sent') <= MaxUpdates
    BY <1>1, <1>2, <2>1, UpdatesTyped, BotParameters DEF BotTypeOK
  <2>3. poller' \in [pc: {"idle", "waiting", "handling"}, next: 0..Len(sent') + 1, last: 0..Len(sent')]
    <3>1. 0..Len(sent) + 1 \subseteq 0..Len(sent') + 1 /\ 0..Len(sent) \subseteq 0..Len(sent')
      BY <1>2, UpdatesTyped
    <3> QED BY <1>1, <2>1, <3>1 DEF BotTypeOK
  <2>4. recorded' \subseteq UpdateIds' /\ handled' \subseteq UpdateIds' /\ dropped' \subseteq handled'
    BY <1>1, <1>3, <2>1 DEF BotTypeOK
  <2>5. changes' \subseteq [by: UpdateIds', incident: Incidents, to: Targets]
    BY <1>1, <1>3, <2>1 DEF BotTypeOK
  <2> QED BY <1>1, <1>2, <1>5, <2>1, <2>2, <2>3, <2>4, <2>5 DEF BotTypeOK, PlansInvariant
<1>7. ASSUME NEW u \in Operators
      PROVE  PromptSound(u)'
  <2> SUFFICES ASSUME pending[u] # NoPrompt
               PROVE  \E n \in UpdateIds' :
                        /\ sent'[n].kind = "press" /\ sent'[n].user = u
                        /\ sent'[n].incident = pending[u].incident /\ sent'[n].to = pending[u].to
                        /\ NotTakenBack(n, Position, u)'
    BY <1>1, <1>4 DEF PromptSound, NotTakenBack
  <2>1. PICK n \in UpdateIds :
          /\ sent[n].kind = "press" /\ sent[n].user = u
          /\ sent[n].incident = pending[u].incident /\ sent[n].to = pending[u].to
          /\ NotTakenBack(n, Position, u)
    BY DEF BotInvariant, PromptSound
  <2>2. NotTakenBack(n, Position, u)'
    BY <1>3, <1>4, <1>1, <2>1, PollerPlace, UpdatesTyped DEF NotTakenBack, UpdateIds
  <2> QED BY <1>3, <2>1, <2>2
<1>8. ASSUME NEW c \in changes
      PROVE  \/ Presses(c.by, c)'
             \/ \E n \in UpdateIds' : Presses(n, c)' /\ NotTakenBack(n, c.by, sent[c.by].user)'
  <2>1. c.by \in UpdateIds
    BY DEF BotInvariant, BotTypeOK
  <2>2. ASSUME NEW n \in UpdateIds, Presses(n, c)
        PROVE  Presses(n, c)'
    BY <1>3, <2>1, <2>2 DEF Presses
  <2>3. ASSUME NEW n \in UpdateIds, NotTakenBack(n, c.by, sent[c.by].user)
        PROVE  NotTakenBack(n, c.by, sent[c.by].user)'
    <3>1. \A k \in n + 1..c.by - 1 : k \in UpdateIds
      BY <2>1, UpdatesTyped DEF UpdateIds
    <3> QED BY <1>1, <1>3, <2>1, <2>3, <3>1 DEF NotTakenBack
  <2>4. CASE Presses(c.by, c)
    BY <2>1, <2>2, <2>4
  <2>5. ASSUME NEW n \in UpdateIds, Presses(n, c), NotTakenBack(n, c.by, sent[c.by].user)
        PROVE  \E k \in UpdateIds' : Presses(k, c)' /\ NotTakenBack(k, c.by, sent[c.by].user)'
    BY <1>3, <2>2, <2>3, <2>5
  <2> QED BY <2>4, <2>5 DEF BotInvariant, CancelledStaysOpen
<1>9. CancelledStaysOpen' /\ ChangesOnce' /\ \A c \in changes' : c.by \in recorded'
  BY <1>1, <1>8 DEF BotInvariant, ChangesOnce, CancelledStaysOpen
<1> QED BY <1>5, <1>6, <1>7, <1>9 DEF BotInvariant

-----------------------------------------------------------------------------
(* The poller between updates *)

LEMMA AnsweredSome == ASSUME BotInvariant, Answered # {} PROVE offset < Len(sent)
<1>1. PICK n : n \in Answered
  OBVIOUS
<1> QED BY <1>1, PollerPlace, BotParameters DEF Answered

LEMMA FetchStep ==
  ASSUME BotInvariant, Fetch
  PROVE  BotInvariant'
<1>1. /\ UNCHANGED <<sent, offset, incident, pending, recorded, shown, failures,
                      outside, handled, dropped, changes, planVars>>
      /\ poller.pc = "idle" /\ offset < Len(sent)
  BY AnsweredSome DEF Fetch
<1>2. PICK last : last = IF offset + Batch < Len(sent) THEN offset + Batch ELSE Len(sent)
  OBVIOUS
<1>3. poller' = [pc |-> "handling", next |-> offset + 1, last |-> last]
  BY <1>2 DEF Fetch
<1>4. last \in Nat /\ offset < last /\ last <= Len(sent)
  BY <1>1, <1>2, PollerPlace, BotParameters
<1>5. poller' \in [pc: {"idle", "waiting", "handling"}, next: 0..Len(sent) + 1, last: 0..Len(sent)]
  BY <1>1, <1>3, <1>4, PollerPlace
<1>6. Position' = Position
  BY <1>1, <1>3 DEF Position
<1>7. PollerSound'
  <2>1. decision = NoDecision
    BY <1>1, Unmoved DEF PollerSound
  <2>2. \A n \in 1..Position - 1 : n \in handled
    BY Unmoved DEF PollerSound
  <2>3. poller'.pc = "handling" /\ poller'.next = offset + 1 /\ poller'.last = last
    BY <1>3
  <2> QED BY <1>1, <1>4, <1>6, <2>1, <2>2, <2>3, PollerPlace DEF PollerSound, planVars
<1>8. PlansInvariant' /\ \A j \in Incidents : VersionSound(j)'
  BY <1>1, PlansUnchanged, Unmoved DEF VersionSound
<1> QED BY <1>1, <1>5, <1>6, <1>7, <1>8, Unmoved, QuietStep

\* A request that fails, or whose answer is refused, moves nothing.
LEMMA RequestAgainStep ==
  ASSUME BotInvariant, FetchFails \/ TryAgain
  PROVE  BotInvariant'
<1>1. /\ UNCHANGED <<sent, offset, incident, pending, recorded, shown, outside, handled,
                      dropped, changes, planVars>>
      /\ poller.pc # "handling" /\ poller' \in {AtRest, Waiting}
      /\ \/ failures' = failures
         \/ failures < MaxFailures /\ failures' = failures + 1
  <2>1. CASE FetchFails
    BY <2>1 DEF FetchFails
  <2>2. CASE TryAgain
    BY <2>2 DEF TryAgain
  <2> QED BY <2>1, <2>2
<1>2. poller'.pc # "handling"
  BY <1>1 DEF AtRest, Waiting
<1>3. poller' \in [pc: {"idle", "waiting", "handling"}, next: 0..Len(sent) + 1, last: 0..Len(sent)]
  BY <1>1, UpdatesTyped DEF AtRest, Waiting
<1>4. Position' = Position
  BY <1>1, <1>2 DEF Position
<1>5. PollerSound'
  BY <1>1, <1>2, <1>4, Unmoved DEF PollerSound, planVars
<1>6. PlansInvariant' /\ (\A j \in Incidents : VersionSound(j)') /\ failures' \in 0..MaxFailures
  BY <1>1, PlansUnchanged, Unmoved, BotParameters DEF VersionSound
<1> QED BY <1>1, <1>3, <1>4, <1>5, <1>6, Unmoved, QuietStep

LEMMA ConfirmStep ==
  ASSUME BotInvariant, Confirm
  PROVE  BotInvariant'
<1>1. /\ UNCHANGED <<sent, incident, pending, recorded, shown, failures, outside,
                      handled, dropped, changes, planVars>>
      /\ poller.pc = "handling" /\ poller.next > poller.last /\ poller' = AtRest
      /\ poller'.pc = "idle"
  BY DEF Confirm, AtRest
<1>2. offset' = poller.last /\ poller.next = poller.last + 1
  <2>1. offset' = IF poller.last > offset THEN poller.last ELSE offset
    BY DEF Confirm
  <2>2. poller.next <= poller.last + 1
    BY <1>1, Unmoved DEF PollerSound
  <2>3. poller.next \in Nat /\ poller.last \in Nat /\ offset \in Nat /\ offset < poller.last
    BY <1>1, PollerPlace
  <2> QED BY <1>1, <2>1, <2>2, <2>3
<1>3. Position' = Position
  BY <1>1, <1>2 DEF Position
<1>4. poller' \in [pc: {"idle", "waiting", "handling"}, next: 0..Len(sent) + 1, last: 0..Len(sent)]
  BY <1>1, UpdatesTyped DEF AtRest
<1>5. PollerSound'
  <2>1. decision = NoDecision
    BY <1>1, PollerPlace, Unmoved DEF PollerSound
  <2> QED BY <1>1, <1>3, <2>1, Unmoved DEF PollerSound, planVars
<1>6. PlansInvariant' /\ (\A j \in Incidents : VersionSound(j)') /\ offset' \in 0..Len(sent)
  BY <1>1, <1>2, PlansUnchanged, PollerPlace, Unmoved DEF VersionSound
<1> QED BY <1>1, <1>3, <1>4, <1>5, <1>6, Unmoved, QuietStep

\* After an interruption the batch is handled again from its beginning.
LEMMA InterruptStep ==
  ASSUME BotInvariant, Interrupt
  PROVE  BotInvariant'
<1>1. /\ UNCHANGED <<sent, offset, incident, pending, recorded, shown, outside, handled, dropped, changes>>
      /\ failures < MaxFailures /\ failures' = failures + 1 /\ RollBackDecision
      /\ poller' = AtRest /\ poller'.pc = "idle"
  BY DEF Interrupt, AtRest
<1>2. Position' = offset + 1 /\ Position' \in Nat /\ Position' <= Position
  BY <1>1, PollerPlace DEF Position
<1>3. poller' \in [pc: {"idle", "waiting", "handling"}, next: 0..Len(sent) + 1, last: 0..Len(sent)]
  BY <1>1, UpdatesTyped DEF AtRest
<1>4. PollerSound'
  <2>1. \A n \in 1..Position' - 1 : n \in handled
    BY <1>2, PollerPlace, Unmoved DEF PollerSound
  <2> QED BY <1>1, <2>1 DEF PollerSound, RollBackDecision
<1>5. PlansInvariant' /\ (\A j \in Incidents : VersionSound(j)') /\ failures' \in 0..MaxFailures
  BY <1>1, RollBackStep, Unmoved, BotParameters DEF VersionSound
<1> QED BY <1>1, <1>2, <1>3, <1>4, <1>5, Unmoved, QuietStep

-----------------------------------------------------------------------------
(* Steps that handle an update *)

Handling ==
  /\ poller.pc = "handling" /\ poller.next <= poller.last
  /\ TakeNext

\* What handling may do to a prompt: forget it, keep it, though not past a
\* command of its user, or ask for one by the button of the update.
PromptsHandled ==
  \A u \in Operators :
    \/ pending'[u] = NoPrompt
    \/ /\ pending'[u] = pending[u]
       /\ sent[poller.next].kind = "command" /\ sent[poller.next].user = u => poller.next \in dropped'
    \/ /\ sent[poller.next].kind = "press" /\ sent[poller.next].user = u
       /\ sent[poller.next].incident = pending'[u].incident
       /\ sent[poller.next].to = pending'[u].to

\* A change of an incident by the update: its first, and for a button.
ChangesHandled ==
  \/ UNCHANGED changes
  \/ \E c \in [by: {poller.next}, incident: Incidents, to: Targets] :
       /\ changes' = changes \cup {c}
       /\ poller.next \notin recorded /\ poller.next \in recorded'
       /\ \/ Presses(poller.next, c)
          \/ \E n \in UpdateIds : Presses(n, c) /\ NotTakenBack(n, poller.next, sent[poller.next].user)

\* Handling the next update keeps the invariant if it treats the prompts and the
\* incidents in this way.
LEMMA HandledStep ==
  ASSUME BotInvariant, Handling, PromptsHandled, ChangesHandled,
         PlansInvariant', decision' = NoDecision,
         incident' \in [Incidents -> [status: Targets \cup {"new"}, version: 1..3]],
         \A i \in Incidents : VersionSound(i)',
         pending' \in [Operators -> [incident: Incidents, to: Terminal, expired: BOOLEAN] \cup {NoPrompt}],
         shown' \subseteq PlanIds,
         recorded' = recorded \/ recorded' = recorded \cup {poller.next},
         dropped' = dropped \/ dropped' = dropped \cup {poller.next}
  PROVE  BotInvariant'
<1> DEFINE q == poller.next
<1>1. /\ q \in UpdateIds /\ q \in Nat /\ q = Position /\ UNCHANGED <<sent, offset, failures, outside>>
      /\ poller' = [poller EXCEPT !.next = q + 1] /\ handled' = handled \cup {q}
      /\ q <= Len(sent) /\ UpdateIds' = UpdateIds
  BY PollerPlace DEF Handling, TakeNext, UpdateIds
<1>2. /\ poller'.pc = "handling" /\ poller'.next = q + 1 /\ poller'.last = poller.last
      /\ poller' \in [pc: {"idle", "waiting", "handling"}, next: 0..Len(sent) + 1, last: 0..Len(sent)]
  BY <1>1, Unmoved, PollerPlace DEF Handling
<1>3. Position' = q + 1
  BY <1>2 DEF Position
<1>4. PollerSound'
  <2>1. \A n \in 1..(q + 1) - 1 : n \in handled'
    BY <1>1, Unmoved DEF PollerSound
  <2> QED BY <1>1, <1>2, <1>3, <2>1, PollerPlace DEF PollerSound, Handling
<1>5. BotTypeOK'
  <2>1. BotTypeOK
    BY DEF BotInvariant
  <2>2. recorded' \subseteq UpdateIds /\ handled' \subseteq UpdateIds /\ dropped' \subseteq handled'
    BY <1>1, <2>1 DEF BotTypeOK
  <2>3. changes' \subseteq [by: UpdateIds, incident: Incidents, to: Targets]
    <3>1. \A c \in [by: {q}, incident: Incidents, to: Targets] :
            c \in [by: UpdateIds, incident: Incidents, to: Targets]
      BY <1>1
    <3> QED BY <2>1, <3>1 DEF BotTypeOK, ChangesHandled
  <2> QED BY <1>1, <1>2, <2>1, <2>2, <2>3 DEF BotTypeOK, PlansInvariant
<1>6. dropped \subseteq dropped' /\ recorded \subseteq recorded'
  OBVIOUS
<1>7. ASSUME NEW u \in Operators
      PROVE  PromptSound(u)'
  <2> SUFFICES ASSUME pending'[u] # NoPrompt
               PROVE  \E n \in UpdateIds :
                        /\ sent[n].kind = "press" /\ sent[n].user = u
                        /\ sent[n].incident = pending'[u].incident /\ sent[n].to = pending'[u].to
                        /\ \A m \in n + 1..q : sent[m].kind = "command" /\ sent[m].user = u => m \in dropped'
    <3>1. (q + 1) - 1 = q
      BY <1>1
    <3> QED BY <1>1, <1>3, <3>1 DEF PromptSound, NotTakenBack
  <2>1. CASE /\ pending'[u] = pending[u]
             /\ sent[q].kind = "command" /\ sent[q].user = u => q \in dropped'
    <3>1. PICK n \in UpdateIds :
            /\ sent[n].kind = "press" /\ sent[n].user = u
            /\ sent[n].incident = pending[u].incident /\ sent[n].to = pending[u].to
            /\ NotTakenBack(n, Position, u)
      BY <2>1 DEF BotInvariant, PromptSound
    <3>2. \A m \in n + 1..q : m = q \/ m \in n + 1..q - 1
      BY <1>1 DEF UpdateIds
    <3>3. \A m \in n + 1..q : sent[m].kind = "command" /\ sent[m].user = u => m \in dropped'
      BY <1>1, <1>6, <2>1, <3>1, <3>2 DEF NotTakenBack
    <3> QED BY <2>1, <3>1, <3>3
  <2>2. CASE /\ sent[q].kind = "press" /\ sent[q].user = u
             /\ sent[q].incident = pending'[u].incident /\ sent[q].to = pending'[u].to
    <3>1. q + 1..q = {}
      BY <1>1
    <3> QED BY <1>1, <2>2, <3>1
  <2> QED BY <2>1, <2>2 DEF PromptsHandled
<1>8. ASSUME NEW n \in UpdateIds, NEW b \in UpdateIds, NotTakenBack(n, b, sent[b].user)
      PROVE  NotTakenBack(n, b, sent[b].user)'
  BY <1>1, <1>6, <1>8 DEF NotTakenBack
<1>9. ASSUME NEW c \in changes'
      PROVE  /\ c.by \in recorded'
             /\ \/ Presses(c.by, c)'
                \/ \E n \in UpdateIds' : Presses(n, c)' /\ NotTakenBack(n, c.by, sent[c.by].user)'
  <2>1. CASE c \in changes
    <3>1. c.by \in UpdateIds /\ c.by \in recorded
      BY <2>1 DEF BotInvariant, BotTypeOK
    <3>2. CASE Presses(c.by, c)
      BY <1>1, <1>6, <3>1, <3>2 DEF Presses
    <3>3. ASSUME NEW n \in UpdateIds, Presses(n, c), NotTakenBack(n, c.by, sent[c.by].user)
          PROVE  \E k \in UpdateIds' : Presses(k, c)' /\ NotTakenBack(k, c.by, sent[c.by].user)'
      BY <1>1, <1>8, <3>1, <3>3 DEF Presses
    <3> QED BY <1>6, <2>1, <3>1, <3>2, <3>3 DEF BotInvariant, CancelledStaysOpen
  <2>2. CASE c \notin changes
    <3>1. /\ c.by = q /\ q \in recorded'
          /\ \/ Presses(q, c)
             \/ \E n \in UpdateIds : Presses(n, c) /\ NotTakenBack(n, q, sent[q].user)
      <4>1. ~UNCHANGED changes
        BY <2>2
      <4>2. PICK e \in [by: {q}, incident: Incidents, to: Targets] :
              /\ changes' = changes \cup {e} /\ q \in recorded'
              /\ \/ Presses(q, e)
                 \/ \E n \in UpdateIds : Presses(n, e) /\ NotTakenBack(n, q, sent[q].user)
        BY <4>1 DEF ChangesHandled
      <4>3. c = e /\ e.by = q
        BY <2>2, <4>2
      <4> QED BY <4>2, <4>3
    <3>2. CASE Presses(q, c)
      BY <1>1, <3>1, <3>2 DEF Presses
    <3>3. ASSUME NEW n \in UpdateIds, Presses(n, c), NotTakenBack(n, q, sent[q].user)
          PROVE  \E k \in UpdateIds' : Presses(k, c)' /\ NotTakenBack(k, c.by, sent[c.by].user)'
      BY <1>1, <1>8, <3>1, <3>3 DEF Presses
    <3> QED BY <3>1, <3>2, <3>3
  <2> QED BY <2>1, <2>2
<1>10. ChangesOnce'
  <2> SUFFICES ASSUME NEW c \in changes', NEW d \in changes', c.by = d.by PROVE c = d
    BY DEF ChangesOnce
  <2>1. \A e \in changes : e.by \in recorded
    BY DEF BotInvariant
  <2>2. CASE UNCHANGED changes
    BY <2>2 DEF BotInvariant, ChangesOnce
  <2>3. ASSUME NEW e, changes' = changes \cup {e}, e.by = q, q \notin recorded
        PROVE  c = d
    BY <2>1, <2>3 DEF BotInvariant, ChangesOnce
  <2> QED BY <2>2, <2>3 DEF ChangesHandled
<1> QED BY <1>4, <1>5, <1>7, <1>9, <1>10 DEF BotInvariant, CancelledStaysOpen

-----------------------------------------------------------------------------
(* The handlers *)

LEMMA CurrentUpdate ==
  ASSUME BotInvariant, NEW kinds, Current(kinds)
  PROVE  /\ poller.pc = "handling" /\ poller.next <= poller.last /\ decision = NoDecision
         /\ poller.next \in UpdateIds /\ Position = poller.next
         /\ Update = sent[poller.next] /\ Update \in UpdateType
         /\ Update.kind \in kinds /\ Update.user \in Operators
<1>1. poller.pc = "handling" /\ poller.next <= poller.last /\ decision = NoDecision
  BY DEF Current
<1>2. poller.next \in UpdateIds /\ Position = poller.next
  BY <1>1, PollerPlace
<1>3. sent[poller.next] \in UpdateType
  BY <1>2, UpdatesTyped
<1> QED BY <1>1, <1>2, <1>3, UpdateFields DEF Current, Update

\* A prompt survives every update but a command.
LEMMA PromptsKept ==
  ASSUME UNCHANGED pending,
         sent[poller.next].kind # "command" \/ poller.next \in dropped'
  PROVE  PromptsHandled
  BY DEF PromptsHandled

LEMMA PromptForgotten ==
  ASSUME BotInvariant, NEW kinds, Current(kinds), ForgetPrompt(Update.user)
  PROVE  /\ PromptsHandled
         /\ pending' \in [Operators -> [incident: Incidents, to: Terminal, expired: BOOLEAN] \cup {NoPrompt}]
<1>1. Update = sent[poller.next] /\ Update.user \in Operators
  BY CurrentUpdate
<1>2. \A u \in Operators : pending'[u] = IF u = Update.user THEN NoPrompt ELSE pending[u]
  BY Unmoved DEF ForgetPrompt
<1>3. PromptsHandled
  BY <1>1, <1>2 DEF PromptsHandled
<1>4. pending' \in [Operators -> [incident: Incidents, to: Terminal, expired: BOOLEAN] \cup {NoPrompt}]
  BY Unmoved DEF ForgetPrompt
<1> QED BY <1>3, <1>4

\* The transition is made once for an update, and for a button.
LEMMA ApplyStep ==
  ASSUME BotInvariant, NEW i \in Incidents, NEW to \in Targets, Apply(i, to),
         NEW n \in UpdateIds, sent[n].kind = "press", sent[n].user = sent[poller.next].user,
         sent[n].incident = i, sent[n].to = to,
         n = poller.next \/ NotTakenBack(n, poller.next, sent[poller.next].user)
  PROVE  /\ ChangesHandled
         /\ recorded' = recorded \cup {poller.next}
         /\ incident' \in [Incidents -> [status: Targets \cup {"new"}, version: 1..3]]
         /\ \A j \in Incidents : VersionSound(j)'
<1>1. recorded' = recorded \cup {poller.next}
  BY DEF Apply
<1>2. CASE poller.next \notin recorded /\ Applicable(i, to)
  <2>1. PICK c : c = [by |-> poller.next, incident |-> i, to |-> to]
    OBVIOUS
  <2>2. /\ c \in [by: {poller.next}, incident: Incidents, to: Targets]
        /\ c.by = poller.next /\ c.incident = i /\ c.to = to
    BY <2>1
  <2>3. changes' = changes \cup {c} /\ Moved(i, to)
    BY <1>2, <2>1 DEF Apply
  <2>4. Presses(n, c)
    BY <2>2 DEF Presses
  <2>5. ChangesHandled
    BY <1>1, <1>2, <2>2, <2>3, <2>4 DEF ChangesHandled
  <2>6. <<incident[i].status, to>> \in AllowedTransitions
    BY <1>2 DEF Applicable
  <2> QED BY <1>1, <2>3, <2>5, <2>6, IncidentMoves
<1>3. CASE ~(poller.next \notin recorded /\ Applicable(i, to))
  <2>1. UNCHANGED <<incident, changes>>
    BY <1>3 DEF Apply
  <2> QED BY <1>1, <2>1, Unmoved DEF ChangesHandled, VersionSound
<1> QED BY <1>2, <1>3

\* Handling that leaves the incidents as they are.
LEMMA NoChangeStep ==
  ASSUME BotInvariant, NEW kinds, Current(kinds), TakeNext, PromptsHandled,
         UNCHANGED <<incident, recorded, changes>>, PlansInvariant', decision' = NoDecision,
         pending' \in [Operators -> [incident: Incidents, to: Terminal, expired: BOOLEAN] \cup {NoPrompt}],
         shown' \subseteq PlanIds,
         dropped' = dropped \/ dropped' = dropped \cup {poller.next}
  PROVE  BotInvariant'
<1>1. Handling
  BY CurrentUpdate DEF Handling
<1>2. ChangesHandled /\ \A i \in Incidents : VersionSound(i)'
  BY Unmoved DEF ChangesHandled, VersionSound
<1> QED BY <1>1, <1>2, Unmoved, HandledStep

\* What holds of the parts a handler leaves alone.
LEMMA Untouched ==
  ASSUME BotInvariant
  PROVE  /\ shown \subseteq PlanIds
         /\ UNCHANGED planVars => PlansInvariant' /\ decision' = decision
  BY Unmoved, PlansUnchanged DEF BotInvariant, BotTypeOK, planVars

LEMMA IgnoreStep ==
  ASSUME BotInvariant, Ignore
  PROVE  BotInvariant'
<1>1. /\ TakeNext /\ UNCHANGED <<incident, pending, recorded, changes, shown, planVars>>
      /\ dropped' = IF Update.kind = "command" THEN dropped \cup {poller.next} ELSE dropped
  BY DEF Ignore, NoEffect
<1>2. PICK kinds : Current(kinds)
  BY DEF Ignore
<1>3. PromptsHandled
  BY <1>1, <1>2, CurrentUpdate, PromptsKept
<1> QED BY <1>1, <1>2, <1>3, CurrentUpdate, Unmoved, Untouched, NoChangeStep

LEMMA PressInvestigatingStep ==
  ASSUME BotInvariant, PressInvestigating
  PROVE  BotInvariant'
<1>1. /\ Current({"press"}) /\ Update.to = "investigating" /\ Apply(Update.incident, Update.to)
      /\ TakeNext /\ UNCHANGED <<dropped, pending, shown, planVars>>
  BY DEF PressInvestigating, Processed
<1>2. /\ poller.next \in UpdateIds /\ Update = sent[poller.next] /\ Update.kind = "press"
      /\ Update.incident \in Incidents /\ Update.to \in Targets
  BY <1>1, CurrentUpdate, UpdateFields
<1>3. /\ ChangesHandled /\ recorded' = recorded \cup {poller.next}
      /\ incident' \in [Incidents -> [status: Targets \cup {"new"}, version: 1..3]]
      /\ \A j \in Incidents : VersionSound(j)'
  BY <1>1, <1>2, ApplyStep
<1>4. PromptsHandled
  BY <1>1, <1>2, PromptsKept
<1>5. Handling
  BY <1>1, CurrentUpdate DEF Handling
<1> QED BY <1>1, <1>3, <1>4, <1>5, CurrentUpdate, Unmoved, Untouched, HandledStep

LEMMA PressTerminalStep ==
  ASSUME BotInvariant, PressTerminal
  PROVE  BotInvariant'
<1>1. /\ Current({"press"}) /\ Update.to \in Terminal
      /\ TakeNext /\ UNCHANGED <<dropped, incident, recorded, changes, shown, planVars>>
  BY DEF PressTerminal, Processed
<1>2. PICK prompt : prompt = [incident |-> Update.incident, to |-> Update.to, expired |-> FALSE]
  OBVIOUS
<1>3. pending' = [pending EXCEPT ![Update.user] = prompt]
  BY <1>2 DEF PressTerminal
<1>4. /\ Update = sent[poller.next] /\ Update.kind = "press" /\ Update.incident \in Incidents
      /\ Update.user \in Operators
  BY <1>1, CurrentUpdate, UpdateFields
<1>5. /\ prompt \in [incident: Incidents, to: Terminal, expired: BOOLEAN]
      /\ prompt.incident = Update.incident /\ prompt.to = Update.to
  BY <1>1, <1>2, <1>4
<1>6. pending' \in [Operators -> [incident: Incidents, to: Terminal, expired: BOOLEAN] \cup {NoPrompt}]
  BY <1>3, <1>5, Unmoved
<1>7. \A u \in Operators : pending'[u] = IF u = Update.user THEN prompt ELSE pending[u]
  BY <1>3, Unmoved
<1>8. PromptsHandled
  BY <1>4, <1>5, <1>7 DEF PromptsHandled
<1> QED BY <1>1, <1>6, <1>8, CurrentUpdate, Untouched, NoChangeStep

LEMMA PressRuledOutStep ==
  ASSUME BotInvariant, PressRuledOut
  PROVE  BotInvariant'
<1>1. /\ Current({"press"}) /\ TakeNext
      /\ UNCHANGED <<dropped, incident, pending, recorded, changes, shown, planVars>>
  BY DEF PressRuledOut, Processed, NoEffect
<1>2. PromptsHandled
  BY <1>1, CurrentUpdate, PromptsKept
<1> QED BY <1>1, <1>2, CurrentUpdate, Unmoved, Untouched, NoChangeStep

LEMMA CommandStep ==
  ASSUME BotInvariant, Command
  PROVE  BotInvariant'
<1>1. /\ Current({"command"}) /\ ForgetPrompt(Update.user) /\ TakeNext
      /\ UNCHANGED <<dropped, incident, recorded, changes, shown, planVars>>
  BY DEF Command, Processed
<1> QED BY <1>1, PromptForgotten, CurrentUpdate, Untouched, NoChangeStep

LEMMA NoReasonStep ==
  ASSUME BotInvariant, NoReason
  PROVE  BotInvariant'
<1>1. /\ Current({"text", "invalid", "long"}) /\ ForgetPrompt(Update.user) /\ TakeNext
      /\ UNCHANGED <<dropped, incident, recorded, changes, shown, planVars>>
  BY DEF NoReason, Processed
<1> QED BY <1>1, PromptForgotten, CurrentUpdate, Untouched, NoChangeStep

\* The reason answers the prompt, and the prompt stands for the button.
LEMMA ReasonStep ==
  ASSUME BotInvariant, Reason
  PROVE  BotInvariant'
<1>1. PICK prompt : prompt = pending[Update.user]
  OBVIOUS
<1>2. /\ Current({"text"}) /\ prompt # NoPrompt /\ ForgetPrompt(Update.user)
      /\ Apply(prompt.incident, prompt.to)
      /\ TakeNext /\ UNCHANGED <<dropped, shown, planVars>>
  BY <1>1 DEF Reason, Processed
<1>3. /\ Update = sent[poller.next] /\ Update.user \in Operators
      /\ Position = poller.next /\ poller.next \in UpdateIds
  BY <1>2, CurrentUpdate
<1>4. prompt.incident \in Incidents /\ prompt.to \in Targets
  BY <1>1, <1>2, <1>3, Unmoved DEF Targets
<1>5. PICK n \in UpdateIds :
        /\ sent[n].kind = "press" /\ sent[n].user = Update.user
        /\ sent[n].incident = prompt.incident /\ sent[n].to = prompt.to
        /\ NotTakenBack(n, poller.next, Update.user)
  BY <1>1, <1>2, <1>3 DEF BotInvariant, PromptSound
<1>6. /\ ChangesHandled /\ recorded' = recorded \cup {poller.next}
      /\ incident' \in [Incidents -> [status: Targets \cup {"new"}, version: 1..3]]
      /\ \A j \in Incidents : VersionSound(j)'
  BY <1>2, <1>3, <1>4, <1>5, ApplyStep
<1>7. Handling
  BY <1>2, CurrentUpdate DEF Handling
<1> QED BY <1>2, <1>6, <1>7, PromptForgotten, CurrentUpdate, Untouched, HandledStep

LEMMA HandleProposeStep ==
  ASSUME BotInvariant, HandlePropose
  PROVE  BotInvariant'
<1>1. /\ Current({"propose"}) /\ TakeNext /\ UNCHANGED <<dropped, incident, pending, recorded, changes>>
  BY DEF HandlePropose, Processed, NoEffect
<1>2. PromptsHandled
  BY <1>1, CurrentUpdate, PromptsKept
<1>3. decision = NoDecision /\ Update.user \in Operators
  BY <1>1, CurrentUpdate
<1>4. PlansInvariant' /\ decision' = NoDecision /\ shown' \subseteq PlanIds
  <2>1. ASSUME NEW p \in PlanIds, Propose(Update.user, Update.incident, p), shown' \in {shown, shown \cup {p}}
        PROVE  PlansInvariant' /\ decision' = NoDecision /\ shown' \subseteq PlanIds
    <3>1. PlansInvariant'
      BY <1>3, <2>1, ProposeStep, Unmoved
    <3> QED BY <1>3, <2>1, <3>1, Untouched DEF Propose
  <2>2. ASSUME NEW p \in PlanIds, Reuse(Update.incident, p), shown' \in {shown, shown \cup {p}}
        PROVE  PlansInvariant' /\ decision' = NoDecision /\ shown' \subseteq PlanIds
    BY <1>3, <2>2, Untouched DEF Reuse
  <2>3. CASE NoProposal(Update.incident) /\ UNCHANGED shown
    BY <1>3, <2>3, Untouched DEF NoProposal
  <2> QED BY <2>1, <2>2, <2>3 DEF HandlePropose
<1> QED BY <1>1, <1>2, <1>4, Unmoved, NoChangeStep

LEMMA HandleRejectStep ==
  ASSUME BotInvariant, HandleReject
  PROVE  BotInvariant'
<1>1. /\ Current({"reject"}) /\ TakeNext
      /\ UNCHANGED <<dropped, incident, pending, recorded, changes, shown>>
  BY DEF HandleReject, Processed, NoEffect
<1>2. PromptsHandled
  BY <1>1, CurrentUpdate, PromptsKept
<1>3. decision = NoDecision /\ Update.user \in Operators /\ Update.plan \in PlanIds
  BY <1>1, CurrentUpdate, UpdateFields
<1>4. PlansInvariant' /\ decision' = NoDecision
  <2>1. CASE Reject(Update.user, Update.plan)
    <3>1. PlansInvariant'
      BY <1>3, <2>1, RejectStep, Unmoved
    <3> QED BY <1>3, <2>1, <3>1 DEF Reject
  <2>2. CASE NotRejected(Update.plan)
    BY <1>3, <2>2, Untouched DEF NotRejected
  <2> QED BY <2>1, <2>2 DEF HandleReject
<1> QED BY <1>1, <1>2, <1>4, Unmoved, Untouched, NoChangeStep

LEMMA RefuseApprovalStep ==
  ASSUME BotInvariant, RefuseApproval
  PROVE  BotInvariant'
<1>1. /\ Current({"approve"}) /\ TakeNext
      /\ UNCHANGED <<dropped, incident, pending, recorded, changes, shown, planVars>>
  BY DEF RefuseApproval, Processed, NoEffect, NotApproved
<1>2. PromptsHandled
  BY <1>1, CurrentUpdate, PromptsKept
<1> QED BY <1>1, <1>2, CurrentUpdate, Unmoved, Untouched, NoChangeStep

LEMMA BeginApprovalStep ==
  ASSUME BotInvariant, BeginApproval
  PROVE  BotInvariant'
<1>1. /\ Current({"approve"}) /\ LockPlan(Update.user, Update.plan) /\ BotUnchanged /\ outside' = outside
  BY DEF BeginApproval, OthersUnchanged
<1>2. /\ Update = sent[poller.next] /\ Update.kind = "approve" /\ Update.user \in Operators
      /\ Update.plan \in PlanIds /\ poller.pc = "handling" /\ poller.next <= poller.last
  BY <1>1, CurrentUpdate, UpdateFields
<1>3. PlansInvariant'
  BY <1>1, <1>2, LockPlanStep, Unmoved
<1> QED BY <1>1, <1>2, <1>3, PlansStep, Unmoved

LEMMA ClassifyApprovalStep ==
  ASSUME BotInvariant, Classify, OthersUnchanged
  PROVE  BotInvariant'
<1>1. PlansInvariant' /\ BotUnchanged /\ outside' = outside
  BY ClassifyStep, Unmoved DEF OthersUnchanged
<1>2. poller.pc = "handling" /\ poller.next <= poller.last /\ sent[poller.next].kind = "approve"
  BY NoDecisionSound, Unmoved DEF Classify, PollerSound
<1> QED BY <1>1, <1>2, PlansStep, Unmoved

LEMMA FinishApprovalStep ==
  ASSUME BotInvariant, FinishApproval
  PROVE  BotInvariant'
<1>1. /\ CommitDecision /\ TakeNext
      /\ UNCHANGED <<dropped, incident, pending, recorded, changes, shown>>
  BY DEF FinishApproval, Processed, NoEffect
<1>2. PlansInvariant' /\ decision' = NoDecision
  BY <1>1, CommitDecisionStep, Unmoved DEF CommitDecision
<1>3. poller.pc = "handling" /\ poller.next <= poller.last /\ sent[poller.next].kind = "approve"
  BY <1>1, NoDecisionSound, Unmoved DEF CommitDecision, PollerSound
<1>4. Handling /\ PromptsHandled /\ ChangesHandled /\ \A i \in Incidents : VersionSound(i)'
  BY <1>1, <1>3, PromptsKept, Unmoved DEF Handling, ChangesHandled, VersionSound
<1> QED BY <1>1, <1>2, <1>4, Unmoved, Untouched, HandledStep

-----------------------------------------------------------------------------
(* The specification *)

LEMMA BotInitStep ==
  ASSUME BotInit
  PROVE  BotInvariant
<1>1. /\ sent = <<>> /\ Len(sent) = 0 /\ sent \in Seq(UNION Menus)
      /\ UpdateIds = {} /\ offset = 0 /\ poller = AtRest
      /\ pending = [u \in Operators |-> NoPrompt]
      /\ recorded = {} /\ handled = {} /\ dropped = {} /\ changes = {}
  BY DEF BotInit, UpdateIds
<1>2. PlansInvariant
  <2>1. NoPlan \in PlanType /\ NoPlan.status = "none"
    BY DEF NoPlan, PlanType, PlanStatuses, Actors
  <2>2. /\ plan = [p \in PlanIds |-> NoPlan] /\ allowlist \subseteq Addresses
        /\ decision = NoDecision /\ listed = {}
    BY DEF BotInit, PlansInit
  <2>3. PlansTypeOK /\ DecisionSound
    BY <2>1, <2>2, NoDecisionSound DEF PlansTypeOK, DecisionSound
  <2>4. ApprovedBySecond
    BY <2>1, <2>2 DEF ApprovedBySecond
  <2> QED BY <2>3, <2>4 DEF PlansInvariant
<1>3. /\ incident \in [Incidents -> [status: Targets \cup {"new"}, version: 1..3]]
      /\ \A i \in Incidents : VersionSound(i)
  <2>1. PICK fresh : fresh = [status |-> "new", version |-> 1]
    OBVIOUS
  <2>2. /\ fresh \in [status: Targets \cup {"new"}, version: 1..3]
        /\ fresh.status = "new" /\ fresh.version = 1
    BY <2>1
  <2>3. incident = [i \in Incidents |-> fresh]
    BY <2>1 DEF BotInit
  <2> QED BY <2>2, <2>3 DEF VersionSound
<1>4. BotTypeOK
  BY <1>1, <1>2, <1>3, BotParameters DEF BotTypeOK, BotInit, PlansInvariant, AtRest
<1>5. PollerSound
  <2>1. poller.pc = "idle" /\ decision = NoDecision
    BY <1>1 DEF AtRest, BotInit, PlansInit
  <2>2. Position = 1
    BY <1>1, <2>1 DEF Position
  <2> QED BY <1>1, <2>1, <2>2 DEF PollerSound
<1>6. (\A u \in Operators : PromptSound(u)) /\ ChangesOnce /\ CancelledStaysOpen
  BY <1>1 DEF PromptSound, ChangesOnce, CancelledStaysOpen
<1> QED BY <1>1, <1>2, <1>3, <1>4, <1>5, <1>6 DEF BotInvariant

LEMMA BotStutter ==
  ASSUME BotInvariant, UNCHANGED botVars
  PROVE  BotInvariant'
<1>1. UNCHANGED <<sent, offset, poller, incident, pending, recorded, shown, failures,
                  outside, handled, dropped, changes, planVars>>
  BY DEF botVars
<1>2. PlansInvariant' /\ decision' = decision
  BY <1>1, Untouched
<1> QED BY <1>1, <1>2, Unmoved, PlansStep DEF BotUnchanged

LEMMA HandleStep ==
  ASSUME BotInvariant, Handle
  PROVE  BotInvariant'
  BY IgnoreStep, PressInvestigatingStep, PressTerminalStep, PressRuledOutStep, CommandStep,
     ReasonStep, NoReasonStep, HandleProposeStep, HandleRejectStep, BeginApprovalStep,
     ClassifyApprovalStep, FinishApprovalStep, RefuseApprovalStep DEF Handle

LEMMA BotNextStep ==
  ASSUME BotInvariant, [BotNext]_botVars
  PROVE  BotInvariant'
<1>1. CASE Environment
  BY <1>1, SendStep, OutsideStep
<1> QED BY <1>1, FetchStep, RequestAgainStep, HandleStep, ConfirmStep, InterruptStep, BotStutter DEF BotNext

\* The inductive invariant of the bot and of the plans holds in every reachable
\* state (poller.py, router.py and ip_blocks.py).
THEOREM BotInvariantHolds == BotSpec => []BotInvariant
<1>1. BotInit => BotInvariant
  BY BotInitStep
<1>2. BotInvariant /\ [BotNext]_botVars => BotInvariant'
  BY BotNextStep
<1> QED BY <1>1, <1>2, PTL DEF BotSpec

\* The state of the bot and of the plans has its type, with every version of an
\* incident within the bound the transitions set.
THEOREM BotTypeCorrect == BotSpec => []BotTypeOK
<1>1. BotInvariant => BotTypeOK
  BY DEF BotInvariant
<1> QED BY <1>1, BotInvariantHolds, PTL

\* No update is confirmed before it has been handled, wherever the poller is
\* interrupted (run_once of poller.py, confirm_next_update_id of offsets.py).
THEOREM ConfirmedIsHandled == BotSpec => []NoUpdateLost
<1>1. BotInvariant => NoUpdateLost
  <2> SUFFICES ASSUME BotInvariant, NEW n \in 1..offset PROVE n \in handled
    BY DEF NoUpdateLost
  <2>1. n \in 1..Position - 1
    BY PollerPlace
  <2> QED BY <2>1, Unmoved DEF PollerSound
<1> QED BY <1>1, BotInvariantHolds, PTL

\* An update changes one incident at most, however often it is delivered and
\* whatever prompt its sender has by then (the key of transition_incident).
THEOREM UpdateChangesOnce == BotSpec => []ChangesOnce
<1>1. BotInvariant => ChangesOnce
  BY DEF BotInvariant
<1> QED BY <1>1, BotInvariantHolds, PTL

\* A message closes an incident only for a button its sender pressed and has
\* not taken back by a command the bot has seen (handle of router.py).
THEOREM PromptStandsForButton == BotSpec => []CancelledStaysOpen
<1>1. BotInvariant => CancelledStaysOpen
  BY DEF BotInvariant
<1> QED BY <1>1, BotInvariantHolds, PTL

\* Where a second operator is required, none approves a plan of their own
\* (approve_ip_block, with the row of the plan locked).
THEOREM SecondOperatorApproves == BotSpec => []ApprovedBySecond
<1>1. BotInvariant => ApprovedBySecond
  BY DEF BotInvariant, PlansInvariant
<1> QED BY <1>1, BotInvariantHolds, PTL

-----------------------------------------------------------------------------
(* Approval *)

ApprovesSound ==
  \A p \in PlanIds :
    plan[p].status # "approved" /\ plan'[p].status = "approved" => AddressOf(p) \notin listed

\* Of all operations only the commit of an approval makes a plan approved.
LEMMA OthersApproveNone ==
  ASSUME PlansInvariant,
         \/ \E actor \in Operators, i \in Incidents, p \in PlanIds : Propose(actor, i, p)
         \/ \E actor \in Operators, p \in PlanIds : Reject(actor, p)
         \/ \E p \in PlanIds : ExpirePlan(p)
         \/ plan' = plan
  PROVE  ApprovesSound
<1>1. plan \in [PlanIds -> PlanType]
  BY DEF PlansInvariant, PlansTypeOK
<1>2. ASSUME NEW actor \in Operators, NEW i \in Incidents, NEW p \in PlanIds, Propose(actor, i, p),
             NEW q \in PlanIds
      PROVE  plan'[q].status = plan[q].status \/ plan'[q].status = "proposed"
  <2>1. plan' = [plan EXCEPT ![p] = [plan[p] EXCEPT
            !.status = IF p \in Existing(i) THEN plan[p].status ELSE "proposed",
            !.incident = i, !.proposer = actor, !.expired = FALSE]]
    BY <1>2 DEF Propose
  <2> QED BY <1>1, <2>1 DEF PlanType
<1>3. ASSUME NEW actor \in Operators, NEW p \in PlanIds, Reject(actor, p), NEW q \in PlanIds
      PROVE  plan'[q].status = plan[q].status \/ plan'[q].status = "rejected"
  BY <1>1, <1>3 DEF Reject, Decided, PlanType
<1>4. ASSUME NEW p \in PlanIds, ExpirePlan(p), NEW q \in PlanIds
      PROVE  plan'[q].status = plan[q].status
  BY <1>1, <1>4 DEF ExpirePlan, PlanType
<1> QED BY <1>2, <1>3, <1>4 DEF ApprovesSound

LEMMA ApprovalStep ==
  ASSUME BotInvariant, [BotNext]_botVars
  PROVE  ApprovesSound
<1>1. PlansInvariant
  BY Unmoved
<1>2. CASE FinishApproval
  BY <1>1, <1>2, CommitDecisionStep DEF FinishApproval, ApprovesSound
<1>3. CASE HandlePropose
  <2>1. Update.user \in Operators /\ Update.incident \in Incidents
    BY <1>3, CurrentUpdate, UpdateFields DEF HandlePropose
  <2> QED BY <1>1, <1>3, <2>1, OthersApproveNone DEF HandlePropose, Reuse, NoProposal, planVars
<1>4. CASE HandleReject
  <2>1. Update.user \in Operators /\ Update.plan \in PlanIds
    BY <1>4, CurrentUpdate, UpdateFields DEF HandleReject
  <2> QED BY <1>1, <1>4, <2>1, OthersApproveNone DEF HandleReject, NotRejected, planVars
<1>5. CASE \E p \in PlanIds : ExpirePlan(p)
  BY <1>1, <1>5, OthersApproveNone
<1>6. CASE plan' = plan
  BY <1>1, <1>6, OthersApproveNone
<1>7. ASSUME BotNext, ~FinishApproval, ~HandlePropose, ~HandleReject, ~\E p \in PlanIds : ExpirePlan(p)
      PROVE  plan' = plan
  <2>1. Environment => plan' = plan
    BY <1>7 DEF Environment, SendUpdate, DashboardMoves, ExpirePrompt, EditAllowlist, AddEntry,
       RevokeEntry, planVars
  <2>2. Fetch \/ FetchFails \/ TryAgain \/ Confirm \/ Interrupt => plan' = plan
    BY DEF Fetch, FetchFails, TryAgain, Confirm, Interrupt, RollBackDecision, planVars
  <2>3. Handle => plan' = plan
    BY <1>7 DEF Handle, Ignore, PressInvestigating, PressTerminal, PressRuledOut, Command, Reason,
       NoReason, BeginApproval, LockPlan, Classify, RefuseApproval, NotApproved, planVars
  <2> QED BY <1>7, <2>1, <2>2, <2>3 DEF BotNext
<1>8. UNCHANGED botVars => plan' = plan
  BY DEF botVars, planVars
<1> QED BY <1>2, <1>3, <1>4, <1>5, <1>6, <1>7, <1>8

\* An address allowlisted when the approval of its plan begins, and still then,
\* is not approved, though the approval does not lock the allowlist
\* (classify_block_target inside approve_ip_block).
THEOREM ListedIsNotApproved == BotSpec => AllowlistWins
<1>1. BotInvariant /\ [BotNext]_botVars => [ApprovesSound]_planVars
  BY ApprovalStep
<1>2. BotSpec => [][ApprovesSound]_planVars
  BY <1>1, BotInvariantHolds, PTL DEF BotSpec
<1> QED BY <1>2 DEF AllowlistWins, ApprovesSound
=============================================================================
