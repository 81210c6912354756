------------------------------ MODULE Policies ------------------------------
(***************************************************************************)
(* One decision policy, from its synthesis to what it recommends.          *)
(*                                                                         *)
(*   validate: -> VALIDATED                                                *)
(*   evaluate: save an offline evaluation                                  *)
(*   route for approval: upsert the request -> AWAITING_APPROVAL, then     *)
(*             answer with the nonce                                       *)
(*   approve:  read the request, then the policy; save a record, upsert    *)
(*             the request, move the policy                                *)
(*   shadow:   -> SHADOW_RUNNING, save what the policy would have done     *)
(*   evaluate shadow: save an evaluation of that -> AWAITING_ACTIVATION    *)
(*   route for activation: upsert the request of the latest evaluation     *)
(*   activate: read the request, then the policy, check that it is ready;  *)
(*             upsert the request, save a record, -> ACTIVE                *)
(*   recommend: policy ACTIVE -> latest ACTIVE record -> recommendation    *)
(*   pause:    -> PAUSED, then the latest ACTIVE record is paused too      *)
(*                                                                         *)
(* The requests are written without looking at their revision.             *)
(***************************************************************************)
EXTENDS Naturals

CONSTANTS Call,            \* concurrent calls
          MaxRoutes,       \* bound: nonces that are issued
          MaxEvaluations,  \* bound: evaluations of the shadow
          MaxActivations,  \* bound: activation records
          MaxWrites        \* bound: revisions of the policy's row

VARIABLES
  policy,       \* the row: status, recordRevision
  evaluated,    \* decision_policy_evaluations has one of this policy
  request,      \* the approval request, and the activation request of each evaluation
  issued,       \* nonces issued so far
  known,        \* nonces that were answered to somebody
  shadowed,     \* a shadow decision is recorded
  evaluations,  \* decision_policy_shadow_evaluations, in the order of their creation
  activations,  \* decision_policy_activation_records, in the order of their creation
  recommended,  \* decision_recommendations: the activations they were made under
  granted,      \* history: what a human has granted
  call          \* where each call is

requestVars == <<request, issued, known>>
shadowVars  == <<evaluated, shadowed, evaluations>>
liveVars    == <<activations, recommended>>
vars == <<policy, requestVars, shadowVars, liveVars, granted, call>>

Evaluation == 1 .. MaxEvaluations
Activation == 1 .. MaxActivations
Approval == 0                        \* the subject of the approval request
Subject == {Approval} \cup Evaluation

DecisionPolicyState ==
  {"SYNTHESIZED", "VALIDATED", "AWAITING_APPROVAL", "APPROVED_FOR_SHADOW", "SHADOW_RUNNING",
   "AWAITING_ACTIVATION", "ACTIVE", "PAUSED", "STALE", "REJECTED"}

Transitions ==
  (DecisionPolicyState \ {"STALE", "REJECTED"}) \X {"STALE"}
  \cup (DecisionPolicyState \ {"ACTIVE", "PAUSED", "STALE", "REJECTED"}) \X {"REJECTED"}
  \cup {"APPROVED_FOR_SHADOW", "SHADOW_RUNNING", "ACTIVE"} \X {"PAUSED"}
  \cup {"VALIDATED", "AWAITING_APPROVAL"} \X {"SYNTHESIZED"}
  \cup {"APPROVED_FOR_SHADOW", "AWAITING_ACTIVATION", "PAUSED"} \X {"SHADOW_RUNNING"}
  \cup {"SHADOW_RUNNING", "PAUSED"} \X {"AWAITING_ACTIVATION"}
  \cup {<<"SYNTHESIZED", "VALIDATED">>, <<"VALIDATED", "AWAITING_APPROVAL">>,
        <<"AWAITING_APPROVAL", "APPROVED_FOR_SHADOW">>, <<"AWAITING_ACTIVATION", "ACTIVE">>}

ApprovalDecision == {"APPROVE_SHADOW", "REJECT", "REQUEST_REVISION"}
ActivationDecision == {"ACTIVATE", "REJECT", "REQUEST_MORE_SHADOW_EVIDENCE"}
Decision == {"NONE"} \cup ApprovalDecision \cup ActivationDecision

Policy == [status: DecisionPolicyState, revision: 1 .. MaxWrites]
Row == [status: {"NONE", "PENDING", "DECIDED"}, issue: 0 .. MaxRoutes, decision: Decision]

PC == {"idle", "move", "evaluate", "request", "await", "policy", "record", "settle", "activate",
       "shadow", "aggregate", "activation", "recommend", "deactivate"}

CallState == [pc: PC, seen: Policy, to: DecisionPolicyState, subject: Subject,
              row: Row, activation: 0 .. MaxActivations]

NewPolicy == [status |-> "SYNTHESIZED", revision |-> 1]
NoRow == [status |-> "NONE", issue |-> 0, decision |-> "NONE"]
Idle == [pc |-> "idle", seen |-> NewPolicy, to |-> "SYNTHESIZED", subject |-> Approval,
         row |-> NoRow, activation |-> 0]

\* synthesizePolicy saves a policy under an identifier of its own.
Init ==
  /\ policy = NewPolicy
  /\ evaluated = FALSE
  /\ request = [s \in Subject |-> NoRow]
  /\ issued = 0
  /\ known = {}
  /\ shadowed = FALSE
  /\ evaluations = [e \in Evaluation |-> "NONE"]
  /\ activations = [a \in Activation |-> "NONE"]
  /\ recommended = {}
  /\ granted = {}
  /\ call = [c \in Call |-> Idle]

At(c, pc) == call[c].pc = pc
Enter(c, state) == call' = [call EXCEPT ![c] = state]
GoTo(c, pc) == call' = [call EXCEPT ![c].pc = pc]
Return(c) == call' = [call EXCEPT ![c] = Idle]

\* ORDER BY created_at DESC LIMIT 1: one row, or none.
Latest(table, kinds) ==
  {i \in DOMAIN table :
     table[i] \in kinds /\ \A j \in DOMAIN table : table[j] \in kinds => j <= i}

\* Where the next INSERT goes.
NextRow(table) ==
  {i \in DOMAIN table : \A j \in DOMAIN table : table[j] = "NONE" <=> i <= j}

LatestEvaluation == Latest(evaluations, {"EMPTY", "READY"})
ActiveActivation == Latest(activations, {"ACTIVE"})

-----------------------------------------------------------------------------
(* transition: the policy must be as it was read, and saveCas requires its  *)
(* revision.                                                                *)

MayMove(seen, to) == seen = policy /\ <<seen.status, to>> \in Transitions
Moved(to) == [status |-> to, revision |-> policy.revision + 1]

\* Made, or the operation throws.
MoveAndReturn(c) ==
  /\ At(c, "move")
  /\ policy.revision < MaxWrites
  /\ policy' = IF MayMove(call[c].seen, call[c].to) THEN Moved(call[c].to) ELSE policy
  /\ Return(c)
  /\ UNCHANGED <<requestVars, shadowVars, liveVars, granted>>

-----------------------------------------------------------------------------
(* validatePolicy, evaluateOffline                                          *)

StartValidate(c) ==
  /\ At(c, "idle")
  /\ policy.status = "SYNTHESIZED"
  /\ Enter(c, [Idle EXCEPT !.pc = "move", !.seen = policy, !.to = "VALIDATED"])
  /\ UNCHANGED <<policy, requestVars, shadowVars, liveVars, granted>>

StartEvaluate(c) ==
  /\ At(c, "idle")
  /\ policy.status \in {"VALIDATED", "AWAITING_APPROVAL"}
  /\ Enter(c, [Idle EXCEPT !.pc = "evaluate"])
  /\ UNCHANGED <<policy, requestVars, shadowVars, liveVars, granted>>

SaveEvaluation(c) ==
  /\ At(c, "evaluate")
  /\ evaluated' = TRUE
  /\ Return(c)
  /\ UNCHANGED <<policy, requestVars, shadowed, evaluations, liveVars, granted>>

-----------------------------------------------------------------------------
(* routeApproval                                                            *)

Pending(issue) == [status |-> "PENDING", issue |-> issue, decision |-> "NONE"]

StartRouteApproval(c) ==
  /\ At(c, "idle")
  /\ policy.status = "VALIDATED"
  /\ evaluated
  /\ Enter(c, [Idle EXCEPT !.pc = "request", !.seen = policy, !.to = "AWAITING_APPROVAL"])
  /\ UNCHANGED <<policy, requestVars, shadowVars, liveVars, granted>>

SaveApprovalRequest(c) ==
  /\ At(c, "request")
  /\ call[c].subject = Approval
  /\ issued < MaxRoutes
  /\ issued' = issued + 1
  /\ request' = [request EXCEPT ![Approval] = Pending(issued')]
  /\ call' = [call EXCEPT ![c].pc = "await", ![c].row = Pending(issued')]
  /\ UNCHANGED <<policy, known, shadowVars, liveVars, granted>>

\* The nonce is the answer: it is known only if the transition was made.
AwaitApproval(c) ==
  LET moves == MayMove(call[c].seen, "AWAITING_APPROVAL")
  IN  /\ At(c, "await")
      /\ policy.revision < MaxWrites
      /\ policy' = IF moves THEN Moved("AWAITING_APPROVAL") ELSE policy
      /\ known' = IF moves THEN known \cup {call[c].row.issue} ELSE known
      /\ Return(c)
      /\ UNCHANGED <<request, issued, shadowVars, liveVars, granted>>

-----------------------------------------------------------------------------
(* decideApproval, decideActivation: the request is read first, the policy  *)
(* after it.                                                                *)

DecisionsOn(s) == IF s = Approval THEN ApprovalDecision ELSE ActivationDecision

StartDecide(c) ==
  \E s \in Subject : \E d \in DecisionsOn(s) :
    /\ At(c, "idle")
    /\ request[s].status = "PENDING"
    /\ request[s].issue \in known
    /\ Enter(c, [Idle EXCEPT !.pc = "policy", !.subject = s,
                             !.row = [request[s] EXCEPT !.decision = d]])
    /\ UNCHANGED <<policy, requestVars, shadowVars, liveVars, granted>>

Target == [APPROVE_SHADOW |-> "APPROVED_FOR_SHADOW", REJECT |-> "REJECTED",
           REQUEST_REVISION |-> "SYNTHESIZED", ACTIVATE |-> "ACTIVE",
           REQUEST_MORE_SHADOW_EVIDENCE |-> "SHADOW_RUNNING"]

\* Mutant: the evaluation is not looked at.
Ready_AnyEvaluation(p, e) ==
  p.status \in {"AWAITING_ACTIVATION", "APPROVED_FOR_SHADOW", "SHADOW_RUNNING"}

\* assessDecisionPolicyActivationReadiness
Ready(p, e) ==
  /\ p.status \in {"AWAITING_ACTIVATION", "APPROVED_FOR_SHADOW", "SHADOW_RUNNING"}
  /\ evaluations[e] = "READY"

ReadPolicy(c) ==
  LET d == call[c].row.decision
  IN  /\ At(c, "policy")
      /\ d = "ACTIVATE" => Ready(policy, call[c].subject)
      /\ call' = [call EXCEPT ![c].pc = IF call[c].subject = Approval THEN "record" ELSE "settle",
                              ![c].seen = policy, ![c].to = Target[d]]
      /\ UNCHANGED <<policy, requestVars, shadowVars, liveVars, granted>>

SaveApprovalRecord(c) ==
  /\ At(c, "record")
  /\ granted' = IF call[c].row.decision = "APPROVE_SHADOW" THEN granted \cup {"SHADOW"} ELSE granted
  /\ GoTo(c, "settle")
  /\ UNCHANGED <<policy, requestVars, shadowVars, liveVars>>

SettleRequest(c) ==
  LET activates == call[c].row.decision = "ACTIVATE"
  IN  /\ At(c, "settle")
      /\ request' = [request EXCEPT ![call[c].subject] = [call[c].row EXCEPT !.status = "DECIDED"]]
      /\ granted' = IF activates THEN granted \cup {"LIVE"} ELSE granted
      /\ GoTo(c, IF activates THEN "activate" ELSE "move")
      /\ UNCHANGED <<policy, issued, known, shadowVars, liveVars>>

SaveActivation(c) ==
  /\ At(c, "activate")
  /\ \E a \in NextRow(activations) : activations' = [activations EXCEPT ![a] = "ACTIVE"]
  /\ GoTo(c, "move")
  /\ UNCHANGED <<policy, requestVars, shadowVars, recommended, granted>>

-----------------------------------------------------------------------------
(* runShadowDecision, evaluateShadow                                        *)

StartShadow(c) ==
  /\ At(c, "idle")
  /\ \/ /\ policy.status = "APPROVED_FOR_SHADOW"
        /\ policy.revision < MaxWrites
        /\ policy' = Moved("SHADOW_RUNNING")
     \/ /\ policy.status = "SHADOW_RUNNING"
        /\ UNCHANGED policy
  /\ Enter(c, [Idle EXCEPT !.pc = "shadow"])
  /\ UNCHANGED <<requestVars, shadowVars, liveVars, granted>>

SaveShadowRecord(c) ==
  /\ At(c, "shadow")
  /\ shadowed' = TRUE
  /\ Return(c)
  /\ UNCHANGED <<policy, requestVars, evaluated, evaluations, liveVars, granted>>

StartEvaluateShadow(c) ==
  /\ At(c, "idle")
  /\ policy.status = "SHADOW_RUNNING"
  /\ Enter(c, [Idle EXCEPT !.pc = "aggregate", !.seen = policy, !.to = "AWAITING_ACTIVATION"])
  /\ UNCHANGED <<policy, requestVars, shadowVars, liveVars, granted>>

\* An evaluation of no records is saved too; it is not enough to activate on.
SaveShadowEvaluation(c) ==
  /\ At(c, "aggregate")
  /\ \E e \in NextRow(evaluations) :
       evaluations' = [evaluations EXCEPT ![e] = IF shadowed THEN "READY" ELSE "EMPTY"]
  /\ GoTo(c, "move")
  /\ UNCHANGED <<policy, requestVars, evaluated, shadowed, liveVars, granted>>

-----------------------------------------------------------------------------
(* routeActivation                                                          *)

StartRouteActivation(c) ==
  \E e \in LatestEvaluation :
    /\ At(c, "idle")
    /\ policy.status = "AWAITING_ACTIVATION"
    /\ Ready(policy, e)
    /\ request[Approval].decision = "APPROVE_SHADOW"
    /\ Enter(c, [Idle EXCEPT !.pc = "request", !.subject = e])
    /\ UNCHANGED <<policy, requestVars, shadowVars, liveVars, granted>>

\* The answer with the nonce may be lost.
SaveActivationRequest(c) ==
  /\ At(c, "request")
  /\ call[c].subject # Approval
  /\ issued < MaxRoutes
  /\ issued' = issued + 1
  /\ request' = [request EXCEPT ![call[c].subject] = Pending(issued')]
  /\ known' \in {known, known \cup {issued'}}
  /\ Return(c)
  /\ UNCHANGED <<policy, shadowVars, liveVars, granted>>

-----------------------------------------------------------------------------
(* recommend                                                                *)

StartRecommend(c) ==
  /\ At(c, "idle")
  /\ policy.status = "ACTIVE"
  /\ Enter(c, [Idle EXCEPT !.pc = "activation"])
  /\ UNCHANGED <<policy, requestVars, shadowVars, liveVars, granted>>

ReadActivation(c) ==
  /\ At(c, "activation")
  /\ \E a \in ActiveActivation :
       call' = [call EXCEPT ![c].pc = "recommend", ![c].activation = a]
  /\ UNCHANGED <<policy, requestVars, shadowVars, liveVars, granted>>

SaveRecommendation(c) ==
  /\ At(c, "recommend")
  /\ recommended' = recommended \cup {call[c].activation}
  /\ Return(c)
  /\ UNCHANGED <<policy, requestVars, shadowVars, activations, granted>>

-----------------------------------------------------------------------------
(* pauseForSafety, markStaleFromCausalDrift                                 *)

Pause(c) ==
  /\ At(c, "idle")
  /\ policy.status \in {"ACTIVE", "SHADOW_RUNNING"}
  /\ policy.revision < MaxWrites
  /\ policy' = Moved("PAUSED")
  /\ Enter(c, [Idle EXCEPT !.pc = "deactivate"])
  /\ UNCHANGED <<requestVars, shadowVars, liveVars, granted>>

PauseActivation(c) ==
  /\ At(c, "deactivate")
  /\ activations' = [a \in Activation |->
                       IF a \in ActiveActivation THEN "PAUSED" ELSE activations[a]]
  /\ Return(c)
  /\ UNCHANGED <<policy, requestVars, shadowVars, recommended, granted>>

CausalDrift(c) ==
  /\ At(c, "idle")
  /\ LET to == IF policy.status \in {"ACTIVE", "SHADOW_RUNNING"} THEN "PAUSED" ELSE "STALE"
     IN  /\ <<policy.status, to>> \in Transitions
         /\ Enter(c, [Idle EXCEPT !.pc = "move", !.seen = policy, !.to = to])
  /\ UNCHANGED <<policy, requestVars, shadowVars, liveVars, granted>>

-----------------------------------------------------------------------------
\* A check throws, a statement fails or the process dies.
Abort(c) ==
  /\ ~At(c, "idle")
  /\ Return(c)
  /\ UNCHANGED <<policy, requestVars, shadowVars, liveVars, granted>>

ShadowStep(c) ==
  \/ StartValidate(c) \/ StartEvaluate(c) \/ SaveEvaluation(c) \/ StartRouteApproval(c)
  \/ SaveApprovalRequest(c) \/ AwaitApproval(c) \/ SaveApprovalRecord(c) \/ StartShadow(c)
  \/ SaveShadowRecord(c) \/ StartEvaluateShadow(c) \/ SaveShadowEvaluation(c)

LiveStep(c) ==
  \/ StartRouteActivation(c) \/ SaveActivationRequest(c) \/ SaveActivation(c)
  \/ StartRecommend(c) \/ ReadActivation(c) \/ SaveRecommendation(c) \/ Pause(c)
  \/ PauseActivation(c) \/ CausalDrift(c)

Next ==
  \E c \in Call :
    \/ ShadowStep(c) \/ LiveStep(c) \/ StartDecide(c) \/ ReadPolicy(c) \/ SettleRequest(c)
    \/ MoveAndReturn(c) \/ Abort(c)

Spec == Init /\ [][Next]_vars
-----------------------------------------------------------------------------
TypeOK ==
  /\ policy \in Policy
  /\ evaluated \in BOOLEAN
  /\ request \in [Subject -> Row]
  /\ issued \in 0 .. MaxRoutes
  /\ known \subseteq 0 .. MaxRoutes
  /\ shadowed \in BOOLEAN
  /\ evaluations \in [Evaluation -> {"NONE", "EMPTY", "READY"}]
  /\ activations \in [Activation -> {"NONE", "ACTIVE", "PAUSED"}]
  /\ recommended \subseteq Activation
  /\ granted \subseteq {"SHADOW", "LIVE"}
  /\ call \in [Call -> CallState]

\* docs/phase-19-decision-policy-optimization.md: "No direct `VALIDATED -> ACTIVE`" and
\* "Persisted shadow evaluation required": a policy that is ACTIVE has been watched
\* in the shadow and evaluated on that, and its activation is on record; so is the
\* activation under which anything was recommended.
ActivationRestsOnShadow ==
  /\ policy.status = "ACTIVE" =>
       /\ \E e \in Evaluation : evaluations[e] = "READY"
       /\ \E a \in Activation : activations[a] # "NONE"
  /\ policy.status \in {"AWAITING_ACTIVATION", "ACTIVE"} =>
       \E e \in Evaluation : evaluations[e] # "NONE"
  /\ \A a \in recommended : activations[a] # "NONE"

\* Shadow decisions are recorded only of a policy that an approver has admitted to
\* the shadow, recommendations are made only of one that an activator has activated.
Gate == INSTANCE AuthorizationGate WITH
  Subject  <- {"SHADOW", "LIVE"},
  Effect   <- {<<"SHADOW", 0>>} \cup {<<"LIVE", a>> : a \in Activation},
  granted  <- granted,
  admitted <- (IF shadowed THEN {<<"SHADOW", 0>>} ELSE {})
              \cup {<<"LIVE", a>> : a \in recommended},
  proved   <- {},
  finished <- {}

ImplementsGate == Gate!Spec
=============================================================================
