---------------------------- MODULE IpBlockPlans ----------------------------
(***************************************************************************)
(* The dry-run plans to block an address: the operations of                *)
(* application/ip_blocks.py on the tables ip_block_plans and               *)
(* ip_block_allowlist_entries.  Nothing executes a plan.                   *)
(*                                                                         *)
(* A plan is proposed for an incident whose correlation names a source     *)
(* address, and approved or rejected later.  An expired plan stays         *)
(* "proposed": proposing again renews the same row.  Approval classifies   *)
(* the address anew, under the lock of the plan's row, while the local CLI *)
(* may change the allowlist, which it does not lock.                       *)
(*                                                                         *)
(* The module has no next-state relation of its own: TelegramBot, the only *)
(* caller of these operations, composes them.                              *)
(***************************************************************************)
EXTENDS Naturals, FiniteSets

CONSTANTS
  Incidents,
  Addresses,
  Operators,
  SourceIp,        \* source_ip of the correlation of some of the incidents
  NeverBlock,      \* addresses that are never blocked, or not canonical
  SecondOperator,  \* require_second_operator
  MaxPlan          \* bound: rows of ip_block_plans

PlanIds == 1..MaxPlan

ASSUME PlansAssumption ==
  /\ DOMAIN SourceIp \subseteq Incidents
  /\ \A i \in DOMAIN SourceIp : SourceIp[i] \in Addresses
  /\ NeverBlock \subseteq Addresses
  /\ SecondOperator \in BOOLEAN
  /\ MaxPlan \in Nat

VARIABLES
  plan,       \* ip_block_plans
  allowlist,  \* addresses with an active allowlist entry
  decision,   \* the transaction of approve_ip_block
  listed      \* history: addresses allowlisted ever since it began

planVars == <<plan, allowlist, decision, listed>>

PlanStatuses == {"none", "proposed", "approved", "rejected"}

\* A plan nobody has decided has "nobody" for its decider.
Actors == Operators \cup {"nobody"}

PlanType ==
  [status: PlanStatuses, incident: Incidents \cup {"none"},
   proposer: Actors, decider: Actors, expired: BOOLEAN]

NoPlan ==
  [status |-> "none", incident |-> "none", proposer |-> "nobody",
   decider |-> "nobody", expired |-> FALSE]

NoDecision == [step |-> "none", plan |-> 0, actor |-> "nobody", blockable |-> FALSE]

PlansTypeOK ==
  /\ plan \in [PlanIds -> PlanType]
  /\ allowlist \subseteq Addresses
  /\ decision \in [step: {"none", "locked", "classified"}, plan: PlanIds \cup {0},
                   actor: Actors, blockable: BOOLEAN]
  /\ listed \subseteq allowlist

PlansInit ==
  /\ plan = [p \in PlanIds |-> NoPlan]
  /\ allowlist \in SUBSET Addresses
  /\ decision = NoDecision
  /\ listed = {}

AddressOf(p) == SourceIp[plan[p].incident]

\* classify_block_target
Blockable(address) == address \notin NeverBlock \cup allowlist

\* Fault: the status of the plan is not looked at.
AnyExisting(i) == {p \in PlanIds : plan[p].status # "none" /\ plan[p].incident = i}

\* The plan the proposal finds: at most one, by the partial unique index.
Existing(i) == {p \in PlanIds : plan[p].status = "proposed" /\ plan[p].incident = i}

Unused == {p \in PlanIds : plan[p].status = "none"}

FirstUnused == CHOOSE p \in Unused : \A q \in Unused : p <= q

\* The row a proposal writes: the expired plan of the incident or a new one.
Renewed(i) == IF Existing(i) # {} THEN Existing(i) ELSE {FirstUnused}

Propose(actor, i, p) ==
  /\ i \in DOMAIN SourceIp /\ Blockable(SourceIp[i])
  /\ \A q \in Existing(i) : plan[q].expired
  /\ Existing(i) # {} \/ Unused # {}
  /\ p \in Renewed(i)
  /\ plan' = [plan EXCEPT
       ![p].status = IF p \in Existing(i) THEN @ ELSE "proposed",
       ![p].incident = i, ![p].proposer = actor, ![p].expired = FALSE]
  /\ UNCHANGED <<allowlist, decision, listed>>

\* The live plan is returned and nothing is written.
Reuse(i, p) ==
  /\ i \in DOMAIN SourceIp /\ Blockable(SourceIp[i])
  /\ p \in Existing(i) /\ ~plan[p].expired
  /\ UNCHANGED planVars

NoProposal(i) ==
  /\ i \in DOMAIN SourceIp => ~Blockable(SourceIp[i])
  /\ UNCHANGED planVars

Decided(p, status, actor) ==
  plan' = [plan EXCEPT ![p] = [@ EXCEPT !.status = status, !.decider = actor]]

Live(p) == plan[p].status = "proposed" /\ ~plan[p].expired

Approvable(actor, p) ==
  Live(p) /\ (SecondOperator => plan[p].proposer # actor)

\* The row is locked and checked; the address is classified only afterwards.
LockPlan(actor, p) ==
  /\ Approvable(actor, p)
  /\ decision' = [NoDecision EXCEPT !.step = "locked", !.plan = p, !.actor = actor]
  /\ listed' = allowlist
  /\ UNCHANGED <<plan, allowlist>>

\* Fault: the classification made for the proposal is trusted.
TrustProposal ==
  /\ decision.step = "locked"
  /\ decision' = [decision EXCEPT !.step = "classified", !.blockable = TRUE]
  /\ UNCHANGED <<plan, allowlist, listed>>

Classify ==
  /\ decision.step = "locked"
  /\ decision' = [decision EXCEPT !.step = "classified",
                                  !.blockable = Blockable(AddressOf(decision.plan))]
  /\ UNCHANGED <<plan, allowlist, listed>>

\* Approved; or rejected, when the policy has changed since the proposal.
CommitDecision ==
  /\ decision.step = "classified"
  /\ Decided(decision.plan, IF decision.blockable THEN "approved" ELSE "rejected", decision.actor)
  /\ decision' = NoDecision
  /\ listed' = {}
  /\ UNCHANGED allowlist

\* The approval that lost its connection or its process.
RollBackDecision ==
  /\ decision' = NoDecision
  /\ listed' = {}
  /\ UNCHANGED <<plan, allowlist>>

NotApproved(actor, p) ==
  ~Approvable(actor, p) /\ UNCHANGED planVars

Reject(actor, p) ==
  /\ Live(p)
  /\ Decided(p, "rejected", actor)
  /\ UNCHANGED <<allowlist, decision, listed>>

NotRejected(p) ==
  ~Live(p) /\ UNCHANGED planVars

ExpirePlan(p) ==
  /\ plan[p].status # "none" /\ ~plan[p].expired
  /\ plan' = [plan EXCEPT ![p] = [@ EXCEPT !.expired = TRUE]]
  /\ UNCHANGED <<allowlist, decision, listed>>

(* The local CLI *)

AddEntry(a) ==
  /\ a \notin allowlist
  /\ allowlist' = allowlist \cup {a}
  /\ UNCHANGED <<plan, decision, listed>>

RevokeEntry(a) ==
  /\ a \in allowlist
  /\ allowlist' = allowlist \ {a}
  /\ listed' = listed \ {a}
  /\ UNCHANGED <<plan, decision>>

-----------------------------------------------------------------------------
\* ADR-0015: an approved plan was approved by another operator than the one
\* who proposed it, also after its row was renewed (approve_ip_block).
ApprovedBySecond ==
  SecondOperator =>
    \A p \in PlanIds : plan[p].status = "approved" => plan[p].decider # plan[p].proposer

\* A change of the allowlist between proposal and approval wins: a plan is not
\* approved if its address was allowlisted when its approval began and still
\* is (approve_ip_block).
AllowlistWins ==
  [][\A p \in PlanIds :
       plan[p].status # "approved" /\ plan'[p].status = "approved"
         => AddressOf(p) \notin listed]_planVars

-----------------------------------------------------------------------------
(* The inductive invariant: a plan whose approval has begun stays as it was *)
(* checked, and its address is classified under the allowlist since then.   *)

DecisionSound ==
  /\ decision.step = "none" => decision = NoDecision
  /\ decision.step # "none" =>
       /\ decision.plan \in PlanIds /\ plan[decision.plan].status = "proposed"
       /\ SecondOperator => plan[decision.plan].proposer # decision.actor
  /\ decision.step = "classified" /\ decision.blockable => AddressOf(decision.plan) \notin listed

PlansInvariant == PlansTypeOK /\ DecisionSound /\ ApprovedBySecond
=============================================================================
