---------------------------- MODULE TelegramBot -----------------------------
(***************************************************************************)
(* The inbound Telegram bot: one poller that fetches a batch of updates,   *)
(* handles them in order, each in a transaction of its own, and confirms   *)
(* the offset after the whole batch.  An answer that cannot be read moves  *)
(* nothing: the same request is made again.                                *)
(*                                                                         *)
(* The bot may stop anywhere: updates already handled come again.  Buttons *)
(* that close an incident ask for the reason in the next message and keep  *)
(* one pending action per account.  The incidents change in the dashboard  *)
(* as well, the prompts and plans expire, and the CLI edits the allowlist. *)
(***************************************************************************)
EXTENDS IpBlockPlans, Sequences

CONSTANTS
  Menus,        \* sets of updates; the users send updates of one of them
  Moves,        \* transitions made in the dashboard: incident and target
  Approvers,    \* operators who may approve a plan
  Batch,        \* telegram_bot_batch_limit
  MaxLong,      \* long messages that one answer holds (TELEGRAM_RESPONSE_LIMIT_BYTES)
  MaxUpdates,   \* bound: updates sent
  MaxFailures,  \* bound: interruptions of the poller and failed requests
  MaxOutside    \* bound: changes made in the dashboard and the CLI

Terminal == {"resolved", "false_positive"}
Targets == Terminal \cup {"investigating"}

\* Each account is linked to an operator; the two are one here.  A long text is
\* no valid reason either, a malformed update is outside the bounds of updates.py.
UpdateType ==
  [kind: {"press"}, user: Operators, incident: Incidents, to: Targets]
    \cup [kind: {"text", "invalid", "long", "malformed", "command"}, user: Operators]
    \cup [kind: {"propose"}, user: Operators, incident: Incidents]
    \cup [kind: {"approve", "reject"}, user: Operators, plan: PlanIds]

ASSUME BotAssumption ==
  /\ \A menu \in Menus : menu \subseteq UpdateType
  /\ Moves \subseteq Incidents \X Targets
  /\ Approvers \subseteq Operators
  /\ Batch \in Nat \ {0} /\ MaxLong \in Nat /\ MaxUpdates \in Nat
  /\ MaxFailures \in Nat /\ MaxOutside \in Nat

VARIABLES
  sent,      \* updates in the order of their update_id
  offset,    \* the last confirmed update: next_update_id - 1
  poller,    \* the batch being handled
  incident,  \* status and lock_version
  pending,   \* telegram_pending_actions
  recorded,  \* operator_idempotency_records: updates with an outcome
  shown,     \* plans whose decision buttons have reached the chat
  failures,  \* interruptions and failed requests so far
  outside,   \* changes in the dashboard and the CLI so far
  handled,   \* history: updates handled
  dropped,   \* history: commands the bot ignored
  changes    \* history: the incidents changed, by which update

botVars == <<sent, offset, poller, incident, pending, recorded, shown, failures,
          outside, handled, dropped, changes, planVars>>

UpdateIds == 1..Len(sent)

NoPrompt == [incident |-> "none", to |-> "none", expired |-> FALSE]

AtRest == [pc |-> "idle", next |-> 0, last |-> 0]

Waiting == [pc |-> "waiting", next |-> 0, last |-> 0]

BotTypeOK ==
  /\ PlansTypeOK
  /\ sent \in Seq(UNION Menus) /\ Len(sent) <= MaxUpdates
  /\ offset \in 0..Len(sent)
  /\ poller \in [pc: {"idle", "waiting", "handling"}, next: 0..Len(sent) + 1, last: 0..Len(sent)]
  /\ incident \in [Incidents -> [status: Targets \cup {"new"}, version: 1..3]]
  /\ pending \in [Operators ->
       [incident: Incidents, to: Terminal, expired: BOOLEAN] \cup {NoPrompt}]
  /\ recorded \subseteq UpdateIds /\ handled \subseteq UpdateIds /\ dropped \subseteq handled
  /\ shown \subseteq PlanIds
  /\ failures \in 0..MaxFailures /\ outside \in 0..MaxOutside
  /\ changes \subseteq [by: UpdateIds, incident: Incidents, to: Targets]

BotInit ==
  /\ PlansInit
  /\ sent = <<>> /\ offset = 0 /\ poller = AtRest
  /\ incident = [i \in Incidents |-> [status |-> "new", version |-> 1]]
  /\ pending = [u \in Operators |-> NoPrompt]
  /\ recorded = {} /\ shown = {} /\ failures = 0 /\ outside = 0
  /\ handled = {} /\ dropped = {} /\ changes = {}

-----------------------------------------------------------------------------
(* The users, the dashboard and the clock *)

SendUpdate(m) ==
  /\ Len(sent) < MaxUpdates
  /\ \E menu \in Menus : m \in menu /\ \A n \in UpdateIds : sent[n] \in menu
  /\ m.kind \in {"approve", "reject"} => m.plan \in shown
  /\ sent' = Append(sent, m)
  /\ UNCHANGED <<offset, poller, incident, pending, recorded, shown, failures,
                 outside, handled, dropped, changes, planVars>>

AllowedTransitions ==
  {<<"new", "investigating">>} \cup ({"new", "investigating"} \X Terminal)

Moved(i, to) ==
  incident' = [incident EXCEPT ![i] = [status |-> to, version |-> @.version + 1]]

FromOutside == outside < MaxOutside /\ outside' = outside + 1

DashboardMoves(i, to) ==
  /\ <<incident[i].status, to>> \in AllowedTransitions
  /\ Moved(i, to)
  /\ FromOutside
  /\ UNCHANGED <<sent, offset, poller, pending, recorded, shown, failures,
                 handled, dropped, changes, planVars>>

ExpirePrompt(u) ==
  /\ pending[u] # NoPrompt /\ ~pending[u].expired
  /\ pending' = [pending EXCEPT ![u].expired = TRUE]
  /\ UNCHANGED <<sent, offset, poller, incident, recorded, shown, failures,
                 outside, handled, dropped, changes, planVars>>

BotUnchanged ==
  UNCHANGED <<sent, offset, poller, incident, pending, recorded, shown, failures,
              handled, dropped, changes>>

OthersUnchanged == BotUnchanged /\ UNCHANGED outside

EditAllowlist(a) ==
  (AddEntry(a) \/ RevokeEntry(a)) /\ FromOutside /\ BotUnchanged

Environment ==
  \/ \E m \in UNION Menus : SendUpdate(m)
  \/ \E m \in Moves : DashboardMoves(m[1], m[2])
  \/ \E u \in Operators : ExpirePrompt(u)
  \/ \E p \in PlanIds : ExpirePlan(p) /\ OthersUnchanged
  \/ \E a \in Addresses : EditAllowlist(a)

-----------------------------------------------------------------------------
(* The poller *)

Answered ==
  offset + 1..(IF offset + Batch < Len(sent) THEN offset + Batch ELSE Len(sent))

\* The client refuses an answer over its bound, and one update outside the bounds
\* of the model spoils the whole answer.
Readable ==
  /\ \A n \in Answered : sent[n].kind # "malformed"
  /\ Cardinality({n \in Answered : sent[n].kind = "long"}) <= MaxLong

\* load_next_update_id and getUpdates.
Fetch ==
  /\ poller.pc = "idle" /\ Answered # {} /\ Readable
  /\ poller' = [pc |-> "handling", next |-> offset + 1,
                last |-> IF offset + Batch < Len(sent) THEN offset + Batch ELSE Len(sent)]
  /\ UNCHANGED <<sent, offset, incident, pending, recorded, shown, failures,
                 outside, handled, dropped, changes, planVars>>

\* The answer is refused, or the request fails for once: the poller waits.
FetchFails ==
  /\ poller.pc = "idle" /\ Answered # {}
  /\ \/ ~Readable /\ UNCHANGED failures
     \/ Readable /\ failures < MaxFailures /\ failures' = failures + 1
  /\ poller' = Waiting
  /\ UNCHANGED <<sent, offset, incident, pending, recorded, shown, outside, handled,
                 dropped, changes, planVars>>

TryAgain ==
  /\ poller.pc = "waiting"
  /\ poller' = AtRest
  /\ UNCHANGED <<sent, offset, incident, pending, recorded, shown, failures,
                 outside, handled, dropped, changes, planVars>>

Current(kinds) ==
  /\ poller.pc = "handling" /\ poller.next <= poller.last /\ decision = NoDecision
  /\ sent[poller.next].kind \in kinds

Update == sent[poller.next]

\* The reply may be lost; the update counts as handled all the same.
TakeNext ==
  /\ poller' = [poller EXCEPT !.next = @ + 1]
  /\ handled' = handled \cup {poller.next}
  /\ UNCHANGED <<sent, offset, failures, outside>>

Processed == TakeNext /\ UNCHANGED dropped

NoEffect == UNCHANGED <<incident, pending, recorded, changes>>

\* Dropped by the rate limiter, refused for the role, or of a shape the bot ignores.
Ignore ==
  /\ Current({"press", "text", "invalid", "long", "command", "propose", "approve", "reject"})
  /\ TakeNext /\ NoEffect
  /\ dropped' = IF Update.kind = "command" THEN dropped \cup {poller.next} ELSE dropped
  /\ UNCHANGED <<shown, planVars>>

\* transition_incident with the key of the update.  Buttons carry version 1.
Applicable(i, to) ==
  incident[i].version = 1 /\ <<incident[i].status, to>> \in AllowedTransitions

\* Fault: the outcome is not looked up, the version decides alone.
ApplyAgain(i, to) ==
  /\ recorded' = recorded \cup {poller.next}
  /\ IF Applicable(i, to)
       THEN /\ Moved(i, to)
            /\ changes' = changes \cup {[by |-> poller.next, incident |-> i, to |-> to]}
       ELSE UNCHANGED <<incident, changes>>

Apply(i, to) ==
  /\ recorded' = recorded \cup {poller.next}
  /\ IF poller.next \notin recorded /\ Applicable(i, to)
       THEN /\ Moved(i, to)
            /\ changes' = changes \cup {[by |-> poller.next, incident |-> i, to |-> to]}
       ELSE UNCHANGED <<incident, changes>>

PressInvestigating ==
  /\ Current({"press"}) /\ Update.to = "investigating"
  /\ Apply(Update.incident, Update.to)
  /\ Processed
  /\ UNCHANGED <<pending, shown, planVars>>

\* The prompt replaces an earlier one of the account.
PressTerminal ==
  /\ Current({"press"}) /\ Update.to \in Terminal
  /\ Applicable(Update.incident, Update.to)
  /\ pending' = [pending EXCEPT ![Update.user] =
       [incident |-> Update.incident, to |-> Update.to, expired |-> FALSE]]
  /\ Processed
  /\ UNCHANGED <<incident, recorded, changes, shown, planVars>>

\* _precheck_transition: no prompt for a transition already ruled out.
PressRuledOut ==
  /\ Current({"press"}) /\ Update.to \in Terminal
  /\ ~Applicable(Update.incident, Update.to)
  /\ Processed /\ NoEffect
  /\ UNCHANGED <<shown, planVars>>

ForgetPrompt(u) == pending' = [pending EXCEPT ![u] = NoPrompt]

\* Fault: the command leaves the prompt.
CommandOnly ==
  /\ Current({"command"})
  /\ Processed /\ NoEffect
  /\ UNCHANGED <<shown, planVars>>

\* A command cancels the prompt; what it shows changes nothing.
Command ==
  /\ Current({"command"})
  /\ ForgetPrompt(Update.user)
  /\ Processed
  /\ UNCHANGED <<incident, recorded, changes, shown, planVars>>

Reason ==
  LET prompt == pending[Update.user] IN
  /\ Current({"text"})
  /\ prompt # NoPrompt /\ ~prompt.expired
  /\ ForgetPrompt(Update.user)
  /\ Apply(prompt.incident, prompt.to)
  /\ Processed
  /\ UNCHANGED <<shown, planVars>>

\* An invalid reason gives the prompt up, an expired prompt is deleted.
NoReason ==
  LET prompt == pending[Update.user] IN
  /\ Current({"text", "invalid", "long"})
  /\ Update.kind = "text" => prompt = NoPrompt \/ prompt.expired
  /\ ForgetPrompt(Update.user)
  /\ Processed
  /\ UNCHANGED <<incident, recorded, changes, shown, planVars>>

\* The plan goes out in a second message, with its buttons; it may be lost.
HandlePropose ==
  /\ Current({"propose"})
  /\ \/ \E p \in PlanIds :
          /\ Propose(Update.user, Update.incident, p) \/ Reuse(Update.incident, p)
          /\ shown' \in {shown, shown \cup {p}}
     \/ NoProposal(Update.incident) /\ UNCHANGED shown
  /\ Processed /\ NoEffect

BeginApproval ==
  /\ Current({"approve"}) /\ Update.user \in Approvers
  /\ LockPlan(Update.user, Update.plan)
  /\ OthersUnchanged

FinishApproval ==
  /\ CommitDecision
  /\ Processed /\ NoEffect
  /\ UNCHANGED shown

RefuseApproval ==
  /\ Current({"approve"})
  /\ \/ Update.user \notin Approvers /\ UNCHANGED planVars
     \/ NotApproved(Update.user, Update.plan)
  /\ Processed /\ NoEffect
  /\ UNCHANGED shown

HandleReject ==
  /\ Current({"reject"})
  /\ Reject(Update.user, Update.plan) \/ NotRejected(Update.plan)
  /\ Processed /\ NoEffect
  /\ UNCHANGED shown

Handle ==
  \/ Ignore
  \/ PressInvestigating \/ PressTerminal \/ PressRuledOut
  \/ Command \/ Reason \/ NoReason
  \/ HandlePropose \/ HandleReject
  \/ BeginApproval \/ (Classify /\ OthersUnchanged) \/ FinishApproval \/ RefuseApproval

\* Fault: the offset is confirmed before the batch is handled.
ConfirmFirst ==
  /\ poller.pc = "handling"
  /\ poller' = IF poller.next > poller.last THEN AtRest ELSE poller
  /\ offset' = IF poller.last > offset THEN poller.last ELSE offset
  /\ UNCHANGED <<sent, incident, pending, recorded, shown, failures,
                 outside, handled, dropped, changes, planVars>>

\* Fault: a batch is confirmed only when each update has an outcome.
ConfirmIfRecorded ==
  /\ \A n \in UpdateIds : n <= poller.last => n \in recorded
  /\ poller.pc = "handling" /\ poller.next > poller.last
  /\ poller' = AtRest
  /\ offset' = IF poller.last > offset THEN poller.last ELSE offset
  /\ UNCHANGED <<sent, incident, pending, recorded, shown, failures,
                 outside, handled, dropped, changes, planVars>>

\* confirm_next_update_id, after the whole batch.
Confirm ==
  /\ poller.pc = "handling" /\ poller.next > poller.last
  /\ poller' = AtRest
  /\ offset' = IF poller.last > offset THEN poller.last ELSE offset
  /\ UNCHANGED <<sent, incident, pending, recorded, shown, failures,
                 outside, handled, dropped, changes, planVars>>

\* The process stops or the database fails; the open transaction is undone.
Interrupt ==
  /\ poller.pc = "handling" /\ failures < MaxFailures
  /\ failures' = failures + 1
  /\ poller' = AtRest
  /\ RollBackDecision
  /\ UNCHANGED <<sent, offset, incident, pending, recorded, shown, outside, handled,
                 dropped, changes>>

BotNext ==
  Environment \/ Fetch \/ FetchFails \/ TryAgain \/ Handle \/ Confirm \/ Interrupt

BotSpec == BotInit /\ [][BotNext]_botVars

\* The poller goes on; stops, and requests that fail although the answer can be
\* read, are finitely many by MaxFailures.
BotFairness ==
  /\ WF_botVars(Fetch) /\ WF_botVars(TryAgain)
  /\ WF_botVars(Handle) /\ WF_botVars(Confirm)

BotFairSpec == BotSpec /\ BotFairness

-----------------------------------------------------------------------------
\* A confirmed update has been handled: a stop in the middle of a batch repeats
\* it and loses nothing (offsets.py, ADR-0013).
NoUpdateLost == \A n \in 1..offset : n \in handled

\* However often an update comes, it changes one incident at most
\* (the key of transition_incident in router.py).
ChangesOnce == \A c, d \in changes : c.by = d.by => c = d

Presses(n, c) ==
  /\ sent[n].kind = "press" /\ sent[n].user = sent[c.by].user
  /\ sent[n].incident = c.incident /\ sent[n].to = c.to

\* A prompt asked for at the n-th update has not been taken back before the q-th.
NotTakenBack(n, q, user) ==
  \A m \in n + 1..q - 1 : sent[m].kind = "command" /\ sent[m].user = user => m \in dropped

\* A message closes an incident only for a button its sender pressed, and not
\* for one they took back with a command in between, whatever is repeated; a
\* command the rate limiter dropped takes nothing back (handle and
\* handle_callback_query in router.py).
CancelledStaysOpen ==
  \A c \in changes :
    \/ Presses(c.by, c)
    \/ \E n \in UpdateIds : Presses(n, c) /\ NotTakenBack(n, c.by, sent[c.by].user)

\* ADR-0014: the button asks for the reason, which is the message after it.
ReasonFollowsPrompt ==
  \A c \in changes : \E n \in 1..c.by : Presses(n, c)

\* Every update is confirmed in the end, also one the bot ignores (run of
\* poller.py), unless the next answer cannot be read: then the poller asks for
\* the same updates for ever and comes to no later one.
CatchesUp == []<>(offset = Len(sent) \/ ~Readable)

-----------------------------------------------------------------------------
(* The inductive invariant *)

\* The update that is handled next, now or after the next fetch.
Position == IF poller.pc = "handling" THEN poller.next ELSE offset + 1

PollerSound ==
  /\ poller.pc # "handling" => poller \in {AtRest, Waiting}
  /\ poller.pc = "handling" =>
       /\ offset < poller.next /\ poller.next <= poller.last + 1
       /\ offset < poller.last /\ poller.last <= Len(sent)
  /\ decision # NoDecision =>
       poller.pc = "handling" /\ poller.next <= poller.last /\ sent[poller.next].kind = "approve"
  /\ \A n \in 1..Position - 1 : n \in handled

\* An incident changes twice at most: AllowedTransitions has no cycle.
VersionSound(i) ==
  /\ incident[i].status = "new" <=> incident[i].version = 1
  /\ incident[i].status = "investigating" => incident[i].version = 2

\* Its sender has pressed the button of a prompt, and has not taken it back
\* before the update that comes next, so that this one may answer it.
PromptSound(u) ==
  pending[u] # NoPrompt =>
    \E n \in UpdateIds :
      /\ sent[n].kind = "press" /\ sent[n].user = u
      /\ sent[n].incident = pending[u].incident /\ sent[n].to = pending[u].to
      /\ NotTakenBack(n, Position, u)

BotInvariant ==
  /\ BotTypeOK /\ PlansInvariant /\ PollerSound
  /\ \A i \in Incidents : VersionSound(i)
  /\ \A u \in Operators : PromptSound(u)
  /\ \A c \in changes : c.by \in recorded
  /\ ChangesOnce /\ CancelledStaysOpen
=============================================================================
