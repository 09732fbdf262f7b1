----------------------------- MODULE ApprovalGate -----------------------------
(***************************************************************************)
(* From the proposals of a diagnosis to the call of an operations tool:    *)
(* the coordinator registers, judges and groups them, the gate stores a    *)
(* request and then an interrupt (two commits), a human decides, and the   *)
(* binding of what was approved is checked before the call.                *)
(*                                                                         *)
(* The parameters of a proposal are one of the shapes the registry tells   *)
(* apart; "plain" and "transported" differ in keys that only say where the *)
(* call goes.  A snapshot is compared by what it is the hash of.           *)
(***************************************************************************)
EXTENDS Naturals, Sequences, FiniteSets, SequencesExt, Subsequences

CONSTANTS
  Services,        \* what an action can be about
  GateInputs,      \* bound: the sequences of proposals a gate is given
  MaxGateDeaths    \* bound: process deaths

Risks == <<"low", "medium", "high", "critical">>
RiskPriority(r) == CHOOSE n \in DOMAIN Risks : Risks[n] = r
RequiresHuman_CriticalOnly(r) == r = "critical"

RequiresHuman(r) == r \in {"high", "critical"}

\* ACTION_REGISTRY, and the actions with one of the tokens in their names.
Destructive == {"rollback_deploy", "restart_pods", "scale_replicas",
                "cicd.rollback_release", "cicd.rollback_service"}
ReadOnly == {"observe_service", "gitlab.list_merge_requests"}
ActionRegistry == Destructive \cup ReadOnly
AllowedRisks(a) == IF a \in Destructive THEN {"high", "critical"} ELSE {"low", "medium"}

\* "auto_approve" and "policy_blocked" are flags the policy reads; no registered
\* action knows either, so they are unknown keys to the registry.
GoodShapes == {"plain", "transported"}
BadShapes  == {"missing", "mistyped", "unknown", "auto_approve", "policy_blocked"}

GateProposals ==
  [id : Nat, action : ActionRegistry \cup {"unregistered"}, risk : ToSet(Risks),
   service : Services, params : GoodShapes \cup BadShapes]

\* A run proposes one action under an id made of its hypothesis and action, so the
\* proposals of a gate have ids of their own.
ASSUME GateAssumptions ==
  /\ Services # {} /\ MaxGateDeaths \in Nat /\ GateInputs \subseteq Seq(GateProposals)
  /\ \A ps \in GateInputs : \A i, j \in DOMAIN ps : ps[i].id = ps[j].id => i = j

NoSnapshot == <<>>

VARIABLES
  gateStage,     \* where the round is
  gateInput,     \* the proposals the gate was given
  request,       \* proposals of the stored request, with their snapshots
  gateInterrupt, \* the interrupt, naming the request
  autoApproved,  \* approved_actions of the gate
  decided,       \* the human's decision
  toolCalled,    \* history: what a tool was called for
  gateDeaths

gateVars == <<gateStage, gateInput, request, gateInterrupt, autoApproved, decided, toolCalled, gateDeaths>>

-----------------------------------------------------------------------------
(* Registry, policy and coordinator.                                       *)

\* normalize_executable_params raises on any other shape.
Executable(p) == p.action \in ActionRegistry /\ p.params \in GoodShapes

\* The normalized parameters, also hashed, are left out: those of the two good shapes
\* normalize to the same.
Snapshot(p) == [action |-> p.action, target |-> p.service, risk |-> p.risk]

\* attach_snapshot_to_proposal; a snapshot already there is replaced.
Attach_Once(p, snap) == [prop |-> p, snapshot |-> IF snap # NoSnapshot THEN snap ELSE Snapshot(p)]

Attach(p, snap) == [prop |-> p, snapshot |-> IF Executable(p) THEN Snapshot(p) ELSE snap]

SameQuestion(p, q) == p.action = q.action /\ p.service = q.service /\ p.params = q.params

Riskier(p, q) == RiskPriority(p.risk) > RiskPriority(q.risk)

\* The first place of a question is kept, with the riskiest of the proposals that ask
\* it, the first of equals.
DedupeProposals(ps) ==
  LET same(i) == {j \in DOMAIN ps : SameQuestion(ps[j], ps[i])}
      winner(i) == CHOOSE w \in same(i) : \A j \in same(i) :
                     ~Riskier(ps[j], ps[w]) /\ (Riskier(ps[w], ps[j]) \/ w <= j)
  IN Selected([i \in DOMAIN ps |-> ps[winner(i)]], {i \in DOMAIN ps : \A j \in same(i) : i <= j})

\* ApprovalPolicy.evaluate
PolicyVerdict(p) ==
  LET risk == IF p.action \in Destructive /\ ~RequiresHuman(p.risk) THEN "high" ELSE p.risk
  IN IF p.params = "auto_approve" THEN [decision |-> "auto_approve", risk |-> p.risk]
     ELSE IF p.params = "policy_blocked" THEN [decision |-> "reject", risk |-> p.risk]
     ELSE [decision |-> IF RequiresHuman(risk) THEN "requires_approval" ELSE "auto_approve", risk |-> risk]

\* Registration comes before the policy, so no flag of an unregistrable proposal is read.
Registered(ps) == Selected(ps, {i \in DOMAIN ps : Executable(ps[i])})

\* What the policy decided, at the risk it settled on; the snapshot is still of the
\* risk the proposal came with.  The verdicts are kept by proposal id, which here is as
\* good as by proposal.
Judged(ps, decision) ==
  LET registered == Registered(DedupeProposals(ps))
      chosen == Selected(registered, {i \in DOMAIN registered : PolicyVerdict(registered[i]).decision = decision})
  IN [i \in DOMAIN chosen |-> [prop |-> [chosen[i] EXCEPT !.risk = PolicyVerdict(chosen[i]).risk],
                               snapshot |-> Attach(chosen[i], NoSnapshot).snapshot]]

-----------------------------------------------------------------------------
(* The gate, the decision and the call.                                    *)

GateInit ==
  /\ gateInput \in GateInputs
  /\ gateStage = "gate"
  /\ request = <<>> /\ gateInterrupt = "none" /\ autoApproved = <<>>
  /\ decided = "none" /\ toolCalled = {} /\ gateDeaths = 0

EnterGate_InterruptFirst ==
  /\ gateStage = "gate"
  /\ autoApproved' = Judged(gateInput, "auto_approve")
  /\ IF Judged(gateInput, "requires_approval") # <<>>
     THEN gateInterrupt' = "pending" /\ gateStage' = "requested"
     ELSE gateStage' = (IF autoApproved' # <<>> THEN "execute" ELSE "ended") /\ UNCHANGED gateInterrupt
  /\ UNCHANGED <<gateInput, request, decided, toolCalled, gateDeaths>>

\* approval_gate up to the commit of the request.  With nothing to approve the first
\* approved action is executed, and with none of those the diagnosis just ends.
EnterGate ==
  /\ gateStage = "gate"
  /\ LET asked == Judged(gateInput, "requires_approval")
         free  == Judged(gateInput, "auto_approve")
     IN /\ autoApproved' = free
        /\ IF asked # <<>>
           THEN /\ request' = [i \in DOMAIN asked |-> Attach(asked[i].prop, asked[i].snapshot)]
                /\ gateStage' = "requested"
           ELSE /\ gateStage' = IF free # <<>> THEN "execute" ELSE "ended"
                /\ UNCHANGED request
  /\ UNCHANGED <<gateInput, gateInterrupt, decided, toolCalled, gateDeaths>>

\* The second commit, and the answer to the user.
CreateInterrupt ==
  /\ gateStage = "requested"
  /\ gateInterrupt' = "pending"
  /\ gateStage' = "awaiting"
  /\ UNCHANGED <<gateInput, request, autoApproved, decided, toolCalled, gateDeaths>>

\* The process dies before either commit's effects reach the session: what is stored
\* stays, the request can still be decided by its id, and nothing is executed.
DieInGate ==
  /\ gateStage \in {"gate", "requested"} /\ gateDeaths < MaxGateDeaths
  /\ gateDeaths' = gateDeaths + 1
  /\ gateStage' = IF request = <<>> THEN "ended" ELSE "orphan"
  /\ UNCHANGED <<gateInput, request, gateInterrupt, autoApproved, decided, toolCalled>>

\* The decision on the stored request, and the resumed conversation's answer to it.
DecideRequest(approved) ==
  /\ gateStage \in {"awaiting", "orphan"}
  /\ decided' = IF approved THEN "approved" ELSE "rejected"
  /\ gateInterrupt' = IF gateInterrupt = "pending" THEN "answered" ELSE gateInterrupt
  /\ gateStage' = IF approved THEN "execute" ELSE "ended"
  /\ UNCHANGED <<gateInput, request, autoApproved, toolCalled, gateDeaths>>

\* validate_execution_binding: the risk is one the registry allows, the snapshot is of
\* exactly what is about to run.  A synthetic request has no list of snapshots.
BindingHolds(r) ==
  /\ r.prop.action \in ActionRegistry
  /\ r.prop.risk \in AllowedRisks(r.prop.action)
  /\ r.snapshot # NoSnapshot
  /\ Executable(r.prop)
  /\ r.snapshot = Snapshot(r.prop)

\* Only the first action of the round is executed, whoever approved it.
ExecuteApproved ==
  /\ gateStage = "execute"
  /\ LET r == IF decided = "approved" THEN request[1] ELSE autoApproved[1]
     IN toolCalled' = IF BindingHolds(r) THEN {[action |-> r.prop.action, risk |-> r.prop.risk]} ELSE {}
  /\ gateStage' = "executed"
  /\ UNCHANGED <<gateInput, request, gateInterrupt, autoApproved, decided, gateDeaths>>

GateNext ==
  \/ EnterGate
  \/ CreateInterrupt
  \/ DieInGate
  \/ \E approved \in BOOLEAN : DecideRequest(approved)
  \/ ExecuteApproved

GateSpec == GateInit /\ [][GateNext]_gateVars

-----------------------------------------------------------------------------
(* Properties.                                                             *)

\* A tool is never called for an action that destroys, or that came or ended up at high
\* risk, unless a human approved the stored request, whatever flags, duplicates and
\* risks the proposals come with.
NothingRiskyWithoutAHuman ==
  \A c \in toolCalled : c.action \in Destructive \/ RequiresHuman(c.risk) => decided = "approved"

\* A destructive action a human approved is not refused afterwards by the binding,
\* although the policy raised its risk after its snapshot was first taken.
ApprovedDestructionRuns ==
  gateStage = "executed" /\ decided = "approved" /\ request[1].prop.action \in Destructive => toolCalled # {}

\* A pending interrupt is always about a request that is stored.
InterruptNamesRequest == gateInterrupt # "none" => request # <<>>

=============================================================================
