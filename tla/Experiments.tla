---------------------------- MODULE Experiments -----------------------------
(***************************************************************************)
(* One governed experiment up to the objective it is compiled into.        *)
(*                                                                         *)
(*   design:   -> DESIGNING -> INSERT plan -> charge the call -> PLANNED   *)
(*   validate: VALIDATING -> AWAITING_AUTHORIZATION, or DESIGNING again    *)
(*   route, decide: as in DecisionRequest; APPROVE saves a record, then    *)
(*             AUTHORIZED                                                  *)
(*   compile:  check the truth -> latest plan and latest record -> lineage *)
(*             or reserve an action -> admit the objective -> lineage ->   *)
(*             settle the action -> AWAITING_EXECUTION_AUTHORIZATION       *)
(*                                                                         *)
(* route, decide and compile compare the truth snapshot with the one of    *)
(* the admission, and make the experiment STALE if it differs.             *)
(*                                                                         *)
(* No operation moves an experiment to EXECUTING, which is where           *)
(* verification begins.                                                    *)
(***************************************************************************)
EXTENDS Integers, FiniteSets, DecisionRequest

CONSTANTS Call,        \* concurrent calls, each in a process of its own
          MaxDesigns,  \* maximumModelCalls: what designs may cost
          MaxActions,  \* maximumActions
          MaxPlans,    \* bound: versions of the plan
          MaxIssues,   \* bound: nonces that are issued
          MaxWrites    \* bound: revisions of the experiment's row

VARIABLES
  experiment,  \* the row: status, recordRevision, plan version
  plans,       \* the latest version in experiment_plans
  request,     \* experiment_authorization_requests, by plan version
  record,      \* the latest authorization record: its plan version, 0 for none
  issued,      \* nonces issued so far
  store,       \* authNonceStore of each process
  known,       \* nonces that were answered to somebody
  usage,       \* experiment_usage_ledgers
  lineage,     \* experiment_execution_lineage: plans with a run
  objective,   \* objectives admitted: <<plan of the record, plan>>
  drifted,     \* the truth is not what it was at the admission
  call,        \* where each call is
  sponsored    \* history: plans that a sponsor approved

planVars    == <<experiment, plans>>
requestVars == <<request, record, issued, store, known, sponsored>>
outcomeVars == <<lineage, objective>>
vars == <<planVars, requestVars, usage, outcomeVars, drifted, call>>

Plan == 1 .. MaxPlans

ExperimentState == {"ADMITTED", "DESIGNING", "PLANNED", "VALIDATING",
                    "AWAITING_AUTHORIZATION", "AUTHORIZED",
                    "AWAITING_EXECUTION_AUTHORIZATION", "CANCELLED", "STALE"}

Transitions ==
  (ExperimentState \ {"CANCELLED", "STALE"}) \X {"STALE", "CANCELLED"}
  \cup {"ADMITTED", "VALIDATING", "AWAITING_AUTHORIZATION", "STALE"} \X {"DESIGNING"}
  \cup {<<"DESIGNING", "PLANNED">>, <<"PLANNED", "VALIDATING">>,
        <<"VALIDATING", "AWAITING_AUTHORIZATION">>,
        <<"AWAITING_AUTHORIZATION", "AUTHORIZED">>,
        <<"AUTHORIZED", "AWAITING_EXECUTION_AUTHORIZATION">>,
        <<"STALE", "CANCELLED">>}

Experiment == [status: ExperimentState, revision: 1 .. MaxWrites, plan: 0 .. MaxPlans]
Usage == [designs: 0 .. MaxDesigns, reserved: 0 .. MaxActions, committed: 0 .. MaxActions]

PC == {"idle", "insert", "adopt", "validated", "truth", "stale", "save", "put", "expire",
       "sponsor", "settle", "move", "record", "plan", "lineage", "action", "admit", "link",
       "charge", "await", "read", "cas"}

CallState ==
  [pc: PC, next: PC, seen: Experiment, plan: 0 .. MaxPlans, record: 0 .. MaxPlans,
   request: Request(MaxIssues),
   decision: {"NONE", "APPROVE_EXPERIMENT", "REQUEST_REVISION", "REJECT_EXPERIMENT"},
   duplicate: BOOLEAN, usage: Usage, charge: {"none", "design", "reserve", "settle", "commit"}]

NewExperiment == [status |-> "ADMITTED", revision |-> 1, plan |-> 0]
NoUsage == [designs |-> 0, reserved |-> 0, committed |-> 0]
Idle == [pc |-> "idle", next |-> "idle", seen |-> NewExperiment, plan |-> 0,
         record |-> 0, request |-> NoRequest, decision |-> "NONE", duplicate |-> FALSE,
         usage |-> NoUsage, charge |-> "none"]

Init ==
  /\ experiment = NewExperiment
  /\ plans = 0
  /\ request = [v \in Plan |-> NoRequest]
  /\ record = 0
  /\ issued = 0
  /\ store = [c \in Call |-> [v \in Plan |-> 0]]
  /\ known = {}
  /\ usage = NoUsage
  /\ lineage = {}
  /\ objective = {}
  /\ drifted = FALSE
  /\ call = [c \in Call |-> Idle]
  /\ sponsored = {}

At(c, pc) == call[c].pc = pc
Enter(c, state) == call' = [call EXCEPT ![c] = state]
GoTo(c, pc) == call' = [call EXCEPT ![c].pc = pc]
Return(c) == call' = [call EXCEPT ![c] = Idle]

-----------------------------------------------------------------------------
(* The experiment's row: assertExperimentTransition, then UPDATE under the  *)
(* revision that was read.                                                  *)

Moved(e, status) == [e EXCEPT !.status = status, !.revision = @ + 1]

\* The last statement of an operation: made, or the operation throws.
MoveAndReturn(c, new) ==
  LET seen == call[c].seen
      may == <<seen.status, new.status>> \in Transitions /\ experiment.revision = seen.revision
  IN  /\ experiment.revision < MaxWrites
      /\ experiment' = IF may THEN new ELSE experiment
      /\ Return(c)

\* An operation that begins with a transition and goes on with what it wrote.
MoveAndGoOn(c, status, state) ==
  /\ experiment.revision < MaxWrites
  /\ experiment' = Moved(experiment, status)
  /\ Enter(c, [state EXCEPT !.seen = experiment'])

-----------------------------------------------------------------------------
(* reserveExperimentUsage: read the ledger, apply the delta, compare with   *)
(* the budget, CAS, and once more if that was lost.  No delta brings the    *)
(* ledger back to where it was, so that it stands for its own revision.     *)

AtLeastZero(n) == IF n < 0 THEN 0 ELSE n

Charged(u, charge) ==
  CASE charge = "design"  -> [u EXCEPT !.designs = @ + 1]
    [] charge = "reserve" -> [u EXCEPT !.reserved = @ + 1]
    [] charge = "settle"  -> [u EXCEPT !.reserved = AtLeastZero(@ - 1), !.committed = @ + 1]
    [] charge = "commit"  -> [u EXCEPT !.committed = @ + 1]

WithinBudget(u) == u.designs <= MaxDesigns /\ u.reserved + u.committed <= MaxActions

Charge(c, charge, next) ==
  call' = [call EXCEPT ![c].pc = "read", ![c].charge = charge, ![c].next = next]

ReadUsage(c) ==
  /\ At(c, "read")
  /\ WithinBudget(Charged(usage, call[c].charge))
  /\ call' = [call EXCEPT ![c].pc = "cas", ![c].usage = usage]
  /\ UNCHANGED <<planVars, requestVars, usage, outcomeVars, drifted>>

\* Mutant: the ledger is saved whatever its revision.
SaveUsage_NoCas(c) ==
  /\ At(c, "cas")
  /\ usage' = Charged(call[c].usage, call[c].charge)
  /\ call' = [call EXCEPT ![c].pc = call[c].next, ![c].next = "idle",
                          ![c].usage = NoUsage, ![c].charge = "none"]
  /\ UNCHANGED <<planVars, requestVars, outcomeVars, drifted>>

SaveUsage(c) ==
  /\ At(c, "cas")
  /\ IF usage = call[c].usage
     THEN /\ usage' = Charged(usage, call[c].charge)
          /\ call' = [call EXCEPT ![c].pc = call[c].next, ![c].next = "idle",
                                  ![c].usage = NoUsage, ![c].charge = "none"]
     ELSE GoTo(c, "read") /\ UNCHANGED usage
  /\ UNCHANGED <<planVars, requestVars, outcomeVars, drifted>>

-----------------------------------------------------------------------------
(* design, validate                                                         *)

StartDesign(c) ==
  LET designing == [Idle EXCEPT !.pc = "insert", !.plan = experiment.plan + 1]
  IN  /\ At(c, "idle")
      /\ experiment.plan < MaxPlans
      /\ \/ /\ experiment.status \in {"ADMITTED", "STALE"}
            /\ MoveAndGoOn(c, "DESIGNING", designing)
         \/ /\ experiment.status = "DESIGNING"
            /\ Enter(c, [designing EXCEPT !.seen = experiment])
            /\ UNCHANGED experiment
      /\ UNCHANGED <<plans, requestVars, usage, outcomeVars, drifted>>

\* A plain INSERT; then the design call is charged, after it was made.
InsertPlan(c) ==
  /\ At(c, "insert")
  /\ call[c].plan > plans
  /\ plans' = call[c].plan
  /\ Charge(c, "design", "adopt")
  /\ UNCHANGED <<experiment, requestVars, usage, outcomeVars, drifted>>

AdoptPlan(c) ==
  /\ At(c, "adopt")
  /\ MoveAndReturn(c, [Moved(call[c].seen, "PLANNED") EXCEPT !.plan = call[c].plan])
  /\ UNCHANGED <<plans, requestVars, usage, outcomeVars, drifted>>

StartValidate(c) ==
  /\ At(c, "idle")
  /\ \/ /\ experiment.status = "PLANNED"
        /\ MoveAndGoOn(c, "VALIDATING", [Idle EXCEPT !.pc = "validated"])
     \/ /\ experiment.status = "VALIDATING"
        /\ Enter(c, [Idle EXCEPT !.pc = "validated", !.seen = experiment])
        /\ UNCHANGED experiment
  /\ UNCHANGED <<plans, requestVars, usage, outcomeVars, drifted>>

FinishValidate(c) ==
  /\ At(c, "validated")
  /\ \E status \in {"AWAITING_AUTHORIZATION", "DESIGNING"} :
       MoveAndReturn(c, Moved(call[c].seen, status))
  /\ UNCHANGED <<plans, requestVars, usage, outcomeVars, drifted>>

-----------------------------------------------------------------------------
(* recheckTruthOrMarkStale                                                  *)

CheckTruth(c) ==
  /\ At(c, "truth")
  /\ GoTo(c, IF drifted THEN "stale" ELSE call[c].next)
  /\ UNCHANGED <<planVars, requestVars, usage, outcomeVars, drifted>>

\* markStale reads the experiment again; then the operation throws.
MarkStale(c) ==
  /\ At(c, "stale")
  /\ IF <<experiment.status, "STALE">> \in Transitions
     THEN MoveAndGoOn(c, "STALE", Idle)
     ELSE Return(c) /\ UNCHANGED experiment
  /\ UNCHANGED <<plans, requestVars, usage, outcomeVars, drifted>>

-----------------------------------------------------------------------------
(* routeAuthorization, decideAuthorization                                  *)

StartRoute(c) ==
  /\ At(c, "idle")
  /\ experiment.status = "AWAITING_AUTHORIZATION"
  /\ Enter(c, [Idle EXCEPT !.pc = "truth", !.next = "save", !.plan = plans])
  /\ UNCHANGED <<planVars, requestVars, usage, outcomeVars, drifted>>

\* A call that holds the nonce of a pending request answers with that one.
SaveRequest(c) ==
  /\ At(c, "save")
  /\ ~HoldsNonce(request, store[c])
  /\ issued < MaxIssues
  /\ issued' = issued + 1
  /\ request' = [request EXCEPT ![call[c].plan] = Fresh(issued')]
  /\ call' = [call EXCEPT ![c].pc = "put", ![c].request = Fresh(issued')]
  /\ UNCHANGED <<planVars, record, store, known, sponsored, usage, outcomeVars, drifted>>

PutNonce(c) ==
  /\ At(c, "put")
  /\ store' = [store EXCEPT ![c][call[c].plan] = call[c].request.issue]
  /\ known' = known \cup {call[c].request.issue}
  /\ Return(c)
  /\ UNCHANGED <<planVars, request, record, issued, sponsored, usage, outcomeVars, drifted>>

StartDecide(c) ==
  \E v \in PendingIn(request),
     d \in {"NONE", "APPROVE_EXPERIMENT", "REQUEST_REVISION", "REJECT_EXPERIMENT"} :
    /\ At(c, "idle")
    /\ d # "NONE" => request[v].issue \in known
    /\ Enter(c, [Idle EXCEPT !.pc = IF d = "NONE" THEN "expire" ELSE "sponsor",
                             !.plan = v, !.request = request[v], !.decision = d])
    /\ UNCHANGED <<planVars, requestVars, usage, outcomeVars, drifted>>

Settle(c, status) ==
  /\ Unchanged(request[call[c].plan], call[c].request)
  /\ request' = [request EXCEPT ![call[c].plan] = Settled(call[c].request, status)]

ExpireRequest(c) ==
  /\ At(c, "expire")
  /\ Settle(c, "EXPIRED")
  /\ Return(c)
  /\ UNCHANGED <<planVars, record, issued, store, known, sponsored, usage, outcomeVars,
                 drifted>>

CheckSponsor(c) ==
  /\ At(c, "sponsor")
  /\ call' = [call EXCEPT ![c].pc = "truth", ![c].next = "settle", ![c].seen = experiment]
  /\ UNCHANGED <<planVars, requestVars, usage, outcomeVars, drifted>>

SettleRequest(c) ==
  /\ At(c, "settle")
  /\ Settle(c, "SETTLED")
  /\ sponsored' = IF call[c].decision = "APPROVE_EXPERIMENT"
                  THEN sponsored \cup {call[c].plan} ELSE sponsored
  /\ GoTo(c, IF call[c].decision = "APPROVE_EXPERIMENT" THEN "record" ELSE "move")
  /\ UNCHANGED <<planVars, record, issued, store, known, usage, outcomeVars, drifted>>

SaveRecord(c) ==
  /\ At(c, "record")
  /\ record' = call[c].plan
  /\ GoTo(c, "move")
  /\ UNCHANGED <<planVars, request, issued, store, known, sponsored, usage, outcomeVars,
                 drifted>>

Decided == [APPROVE_EXPERIMENT |-> "AUTHORIZED", REQUEST_REVISION |-> "DESIGNING",
            REJECT_EXPERIMENT |-> "CANCELLED"]

MoveAsDecided(c) ==
  /\ At(c, "move")
  /\ MoveAndReturn(c, Moved(call[c].seen, Decided[call[c].decision]))
  /\ UNCHANGED <<plans, requestVars, usage, outcomeVars, drifted>>

-----------------------------------------------------------------------------
(* compileExecution                                                         *)

StartCompile(c) ==
  /\ At(c, "idle")
  /\ experiment.status = "AUTHORIZED"
  /\ Enter(c, [Idle EXCEPT !.pc = "truth", !.next = "plan", !.seen = experiment])
  /\ UNCHANGED <<planVars, requestVars, usage, outcomeVars, drifted>>

\* The latest plan and the latest record, each read for itself.
ReadPlan(c) ==
  /\ At(c, "plan")
  /\ record # 0
  /\ call' = [call EXCEPT ![c].pc = IF plans \in lineage THEN "await" ELSE "action",
                          ![c].plan = plans, ![c].record = record]
  /\ UNCHANGED <<planVars, requestVars, usage, outcomeVars, drifted>>

\* alreadyReserved: any action that was ever charged will do.
ReserveAction(c) ==
  /\ At(c, "action")
  /\ IF usage.reserved + usage.committed > 0 THEN GoTo(c, "admit")
     ELSE Charge(c, "reserve", "admit")
  /\ UNCHANGED <<planVars, requestVars, usage, outcomeVars, drifted>>

\* The objective's identity is that of the record and the plan: ADMITTED or
\* DUPLICATE_REUSED.  REJECTED and UNAVAILABLE throw.
AdmitObjective(c) ==
  LET o == <<call[c].record, call[c].plan>>
  IN  /\ At(c, "admit")
      /\ objective' = objective \cup {o}
      /\ call' = [call EXCEPT ![c].pc = "link", ![c].duplicate = o \in objective]
      /\ UNCHANGED <<planVars, requestVars, usage, lineage, drifted>>

SaveLineage(c) ==
  /\ At(c, "link")
  /\ lineage' = lineage \cup {call[c].plan}
  /\ GoTo(c, "charge")
  /\ UNCHANGED <<planVars, requestVars, usage, objective, drifted>>

SettleAction(c) ==
  /\ At(c, "charge")
  /\ CASE usage.reserved > 0 -> Charge(c, "settle", "await")
       [] usage.reserved = 0 /\ usage.committed = 0 /\ call[c].duplicate ->
            Charge(c, "commit", "await")
       [] OTHER -> GoTo(c, "await")
  /\ UNCHANGED <<planVars, requestVars, usage, outcomeVars, drifted>>

AwaitExecution(c) ==
  /\ At(c, "await")
  /\ MoveAndReturn(c, Moved(call[c].seen, "AWAITING_EXECUTION_AUTHORIZATION"))
  /\ UNCHANGED <<plans, requestVars, usage, outcomeVars, drifted>>

-----------------------------------------------------------------------------
(* The environment                                                          *)

\* Policies, capabilities or the configuration of the project change, and back.
Drift ==
  /\ drifted' = ~drifted
  /\ UNCHANGED <<planVars, requestVars, usage, outcomeVars, call>>

\* A check throws, a statement fails, an answer is lost, or the process dies and
\* takes its nonces with it.
Abort(c) ==
  /\ ~At(c, "idle")
  /\ Return(c)
  /\ store' \in {store, [store EXCEPT ![c] = [v \in Plan |-> 0]]}
  /\ UNCHANGED <<planVars, request, record, issued, known, sponsored, usage, outcomeVars,
                 drifted>>

DesignStep(c) ==
  \/ StartDesign(c) \/ InsertPlan(c) \/ AdoptPlan(c) \/ StartValidate(c)
  \/ FinishValidate(c) \/ ReadUsage(c) \/ SaveUsage(c)

AuthorizationStep(c) ==
  \/ CheckTruth(c) \/ MarkStale(c) \/ StartRoute(c) \/ SaveRequest(c) \/ PutNonce(c)
  \/ StartDecide(c) \/ ExpireRequest(c) \/ CheckSponsor(c) \/ SettleRequest(c)
  \/ SaveRecord(c) \/ MoveAsDecided(c)

CompilationStep(c) ==
  \/ StartCompile(c) \/ ReadPlan(c) \/ ReserveAction(c) \/ AdmitObjective(c)
  \/ SaveLineage(c) \/ SettleAction(c) \/ AwaitExecution(c)

Next ==
  \/ \E c \in Call : DesignStep(c) \/ AuthorizationStep(c) \/ CompilationStep(c) \/ Abort(c)
  \/ Drift

Spec == Init /\ [][Next]_vars
-----------------------------------------------------------------------------
TypeOK ==
  /\ experiment \in Experiment
  /\ plans \in 0 .. MaxPlans
  /\ request \in [Plan -> Request(MaxIssues)]
  /\ record \in 0 .. MaxPlans
  /\ issued \in 0 .. MaxIssues
  /\ store \in [Call -> [Plan -> 0 .. MaxIssues]]
  /\ known \subseteq 1 .. MaxIssues
  /\ usage \in Usage
  /\ lineage \subseteq Plan
  /\ objective \subseteq Plan \X Plan
  /\ drifted \in BOOLEAN
  /\ call \in [Call -> CallState]
  /\ sponsored \subseteq Plan

\* "Concurrent oversubscription and crash-replay double-charging fail closed /
\* conserve usage": no charge exceeds its ceiling, every plan that was adopted
\* has been charged, and so was an objective.  "AWAITING_EXECUTION_AUTHORIZATION
\* without durable Phase 2 lineage", which compileExecution reports as an error,
\* is never met.
CompilationIsAccounted ==
  /\ WithinBudget(usage)
  /\ experiment.plan <= usage.designs
  /\ objective # {} => usage.reserved + usage.committed >= 1
  /\ experiment.status = "AWAITING_EXECUTION_AUTHORIZATION" => lineage # {}
  /\ \A v \in lineage : \E o \in objective : o[2] = v

\* An objective comes of a record that a sponsor's approval has left.
Gate == INSTANCE AuthorizationGate WITH
  Subject  <- Plan,
  Effect   <- Plan \X Plan,
  granted  <- sponsored,
  admitted <- objective,
  proved   <- {},
  finished <- {}

ImplementsGate == Gate!Spec
=============================================================================
