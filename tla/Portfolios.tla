----------------------------- MODULE Portfolios -----------------------------
(***************************************************************************)
(* One strategic portfolio: planned, authorized by an allocator, and       *)
(* materialized into programs under an escrowed budget.                    *)
(*                                                                         *)
(*   plan:        -> ANALYZING -> model -> INSERT plan -> PLANNED          *)
(*   validate:    VALIDATING -> AWAITING_AUTHORIZATION                     *)
(*   route:       a pending request whose nonce this process holds, or     *)
(*                upsert a request and put its nonce                       *)
(*   decide:      read the request -> read the portfolio -> CAS the        *)
(*                request -> save the record -> AUTHORIZED                 *)
(*   materialize: per proposal: ledger, reservation, program, lineage;     *)
(*                then ACTIVE                                              *)
(*   verify:      VERIFYING -> prove the goals -> COMPLETED with its       *)
(*                record in one transaction, or FAILED, or ACTIVE again    *)
(*                                                                         *)
(* The operations are called by the scheduler and over HTTP, in any order  *)
(* and repeatedly.  A read that is followed by one compare-and-set of the  *)
(* row that was read, and by nothing in between, is one step.              *)
(***************************************************************************)
EXTENDS Integers, FiniteSets, DecisionRequest

CONSTANTS Call,         \* concurrent calls, each in a process of its own
          Proposals,    \* programs that a plan proposes; each takes one unit
          Ceiling,      \* maximum budget of the portfolio, in units
          MaxPlans,     \* bound: versions of the plan
          MaxIssues,    \* bound: nonces that are issued
          MaxWrites     \* bound: revisions of the portfolio's row

VARIABLES
  portfolio,    \* the row: status, recordRevision, plan version
  plans,        \* the latest version in portfolio_plans
  request,      \* portfolio_authorization_requests, by plan version
  record,       \* plans with an authorization record (there are none for REJECT)
  issued,       \* nonces issued so far
  store,        \* authorizationNonceStore of each process
  known,        \* nonces that were answered to somebody
  reserved,     \* portfolio_budget_ledgers; it only grows, and so is its own revision
  reservation,  \* portfolio_budget_reservations
  lineage,      \* portfolio_program_lineage
  program,      \* the programs, as their service knows them
  completion,   \* the plan version of the completion record, 0 for none
  call,         \* where each call is
  verdicts      \* history: <<plan version, decision>> of every settled request

planVars    == <<portfolio, plans>>
requestVars == <<request, record, issued, store, known, verdicts>>
budgetVars  == <<reserved, reservation>>
programVars == <<lineage, program>>
vars == <<planVars, requestVars, budgetVars, programVars, completion, call>>

Proposal == 1 .. Proposals
Plan == 1 .. MaxPlans
Slot == Plan \X Proposal

PortfolioState == {"ADMITTED", "ANALYZING", "PLANNED", "VALIDATING",
                   "AWAITING_AUTHORIZATION", "AUTHORIZED", "ACTIVE",
                   "REBALANCE_REQUIRED", "VERIFYING", "COMPLETED", "FAILED"}

\* PORTFOLIO_TRANSITIONS without cancellation and pause, which have no caller.
Transitions ==
  {"ADMITTED", "VALIDATING", "AWAITING_AUTHORIZATION", "REBALANCE_REQUIRED", "FAILED"}
      \X {"ANALYZING"}
  \cup {"ADMITTED", "ANALYZING", "VALIDATING", "AWAITING_AUTHORIZATION", "AUTHORIZED",
        "ACTIVE", "REBALANCE_REQUIRED", "VERIFYING"} \X {"FAILED"}
  \cup {<<"ANALYZING", "PLANNED">>, <<"PLANNED", "VALIDATING">>,
        <<"VALIDATING", "AWAITING_AUTHORIZATION">>,
        <<"AWAITING_AUTHORIZATION", "AUTHORIZED">>, <<"AUTHORIZED", "ACTIVE">>,
        <<"ACTIVE", "VERIFYING">>, <<"VERIFYING", "ACTIVE">>,
        <<"ACTIVE", "REBALANCE_REQUIRED">>, <<"VERIFYING", "REBALANCE_REQUIRED">>,
        <<"VERIFYING", "COMPLETED">>}

Portfolio == [status: PortfolioState, revision: 1 .. MaxWrites, plan: 0 .. MaxPlans]

PC == {"idle", "insert", "adopt", "validated", "save", "put", "expire", "allocator",
       "settle", "replan", "record", "authorize", "authorization", "proposal", "ledger",
       "cas", "reserve", "admit", "link", "activate", "prove", "FAILED", "ACTIVE",
       "complete"}

CallState == [pc: PC, seen: Portfolio, plan: 0 .. MaxPlans, request: Request(MaxIssues),
              decision: {"NONE", "APPROVE", "REJECT"}, proposal: 0 .. Proposals + 1,
              read: 0 .. Ceiling, outcome: {"NONE", "LINKED", "FAILED"}]

NewPortfolio == [status |-> "ADMITTED", revision |-> 1, plan |-> 0]
Idle == [pc |-> "idle", seen |-> NewPortfolio, plan |-> 0, request |-> NoRequest,
         decision |-> "NONE", proposal |-> 0, read |-> 0, outcome |-> "NONE"]

Init ==
  /\ portfolio = NewPortfolio
  /\ plans = 0
  /\ request = [v \in Plan |-> NoRequest]
  /\ record = {}
  /\ issued = 0
  /\ store = [c \in Call |-> [v \in Plan |-> 0]]
  /\ known = {}
  /\ reserved = 0
  /\ reservation = {}
  /\ lineage = [s \in Slot |-> "NONE"]
  /\ program = [s \in Slot |-> "NONE"]
  /\ completion = 0
  /\ call = [c \in Call |-> Idle]
  /\ verdicts = {}

At(c, pc) == call[c].pc = pc
Enter(c, state) == call' = [call EXCEPT ![c] = state]
GoTo(c, pc) == call' = [call EXCEPT ![c].pc = pc]
Return(c) == call' = [call EXCEPT ![c] = Idle]

-----------------------------------------------------------------------------
(* The portfolio's row: canTransitionPortfolio, then UPDATE under the       *)
(* revision that was read.                                                  *)

MayMove(p, status) ==
  /\ <<p.status, status>> \in Transitions
  /\ portfolio.revision = p.revision

Moved(p, status) == [p EXCEPT !.status = status, !.revision = @ + 1]

\* The last statement of an operation: made, or the operation throws.
MoveAndReturn(c, new) ==
  /\ portfolio.revision < MaxWrites
  /\ portfolio' = IF MayMove(call[c].seen, new.status) THEN new ELSE portfolio
  /\ Return(c)

\* An operation that begins with a transition and goes on with what it wrote.
MoveAndGoOn(c, status, state) ==
  /\ portfolio.revision < MaxWrites
  /\ portfolio' = Moved(portfolio, status)
  /\ Enter(c, [state EXCEPT !.seen = portfolio'])

-----------------------------------------------------------------------------
(* analyze, plan, validate                                                  *)

Analyze(c) ==
  /\ At(c, "idle")
  /\ portfolio.status = "ADMITTED"
  /\ MoveAndGoOn(c, "ANALYZING", Idle)
  /\ UNCHANGED <<plans, requestVars, budgetVars, programVars, completion>>

StartPlan(c) ==
  LET planning == [Idle EXCEPT !.pc = "insert", !.plan = portfolio.plan + 1]
  IN  /\ At(c, "idle")
      /\ portfolio.plan < MaxPlans
      /\ \/ /\ portfolio.status \in {"ADMITTED", "REBALANCE_REQUIRED",
                                     "AWAITING_AUTHORIZATION", "VALIDATING"}
            /\ MoveAndGoOn(c, "ANALYZING", planning)
         \/ /\ portfolio.status = "ANALYZING"
            /\ Enter(c, [planning EXCEPT !.seen = portfolio])
            /\ UNCHANGED portfolio
      /\ UNCHANGED <<plans, requestVars, budgetVars, programVars, completion>>

\* A plain INSERT: a version that a call has left behind is in the way of all
\* later ones.
InsertPlan(c) ==
  /\ At(c, "insert")
  /\ IF call[c].plan > plans
     THEN plans' = call[c].plan /\ GoTo(c, "adopt")
     ELSE UNCHANGED plans /\ Return(c)
  /\ UNCHANGED <<portfolio, requestVars, budgetVars, programVars, completion>>

AdoptPlan(c) ==
  /\ At(c, "adopt")
  /\ MoveAndReturn(c, [Moved(call[c].seen, "PLANNED") EXCEPT !.plan = call[c].plan])
  /\ UNCHANGED <<plans, requestVars, budgetVars, programVars, completion>>

StartValidate(c) ==
  /\ At(c, "idle")
  /\ \/ /\ portfolio.status = "PLANNED"
        /\ MoveAndGoOn(c, "VALIDATING", [Idle EXCEPT !.pc = "validated"])
     \/ /\ portfolio.status = "VALIDATING"
        /\ Enter(c, [Idle EXCEPT !.pc = "validated", !.seen = portfolio])
        /\ UNCHANGED portfolio
  /\ UNCHANGED <<plans, requestVars, budgetVars, programVars, completion>>

FinishValidate(c) ==
  /\ At(c, "validated")
  /\ \E status \in {"AWAITING_AUTHORIZATION", "FAILED"} :
       MoveAndReturn(c, Moved(call[c].seen, status))
  /\ UNCHANGED <<plans, requestVars, budgetVars, programVars, completion>>

-----------------------------------------------------------------------------
(* routeAuthorization, decideAuthorization                                  *)

StartRoute(c) ==
  /\ At(c, "idle")
  /\ portfolio.status = "AWAITING_AUTHORIZATION"
  /\ ~HoldsNonce(request, store[c])
  /\ Enter(c, [Idle EXCEPT !.pc = "save", !.plan = plans])
  /\ UNCHANGED <<planVars, requestVars, budgetVars, programVars, completion>>

\* The identifier is that of the plan, and save is an upsert: whatever stands
\* there becomes PENDING again, with revision 1.
SaveRequest(c) ==
  /\ At(c, "save")
  /\ issued < MaxIssues
  /\ issued' = issued + 1
  /\ request' = [request EXCEPT ![call[c].plan] = Fresh(issued')]
  /\ call' = [call EXCEPT ![c].pc = "put", ![c].request = request'[call[c].plan]]
  /\ UNCHANGED <<planVars, record, store, known, verdicts, budgetVars, programVars,
                 completion>>

PutNonce(c) ==
  /\ At(c, "put")
  /\ store' = [store EXCEPT ![c][call[c].plan] = call[c].request.issue]
  /\ known' = known \cup {call[c].request.issue}
  /\ Return(c)
  /\ UNCHANGED <<planVars, request, record, issued, verdicts, budgetVars, programVars,
                 completion>>

\* PENDING is read, and the nonce is that of what was read, unless it is late.
StartDecide(c) ==
  \E v \in PendingIn(request), d \in {"NONE", "APPROVE", "REJECT"} :
    /\ At(c, "idle")
    /\ d # "NONE" => request[v].issue \in known
    /\ Enter(c, [Idle EXCEPT !.pc = IF d = "NONE" THEN "expire" ELSE "allocator",
                             !.plan = v, !.request = request[v], !.decision = d])
    /\ UNCHANGED <<planVars, requestVars, budgetVars, programVars, completion>>

MaySettle(c) == Unchanged(request[call[c].plan], call[c].request)
Settle(c, status) ==
  request' = [request EXCEPT ![call[c].plan] = Settled(call[c].request, status)]

ExpireRequest(c) ==
  /\ At(c, "expire")
  /\ MaySettle(c)
  /\ Settle(c, "EXPIRED")
  /\ Return(c)
  /\ UNCHANGED <<planVars, record, issued, store, known, verdicts, budgetVars,
                 programVars, completion>>

\* The checks of the allocator, the institution and the freeze may throw.
CheckAllocator(c) ==
  /\ At(c, "allocator")
  /\ call' = [call EXCEPT ![c].pc = "settle", ![c].seen = portfolio]
  /\ UNCHANGED <<planVars, requestVars, budgetVars, programVars, completion>>

SettleRequest(c) ==
  /\ At(c, "settle")
  /\ MaySettle(c)
  /\ Settle(c, "SETTLED")
  /\ GoTo(c, IF call[c].decision = "APPROVE" THEN "record" ELSE "replan")
  /\ verdicts' = verdicts \cup {<<call[c].plan, call[c].decision>>}
  /\ UNCHANGED <<planVars, record, issued, store, known, budgetVars, programVars,
                 completion>>

Replan(c) ==
  /\ At(c, "replan")
  /\ MoveAndReturn(c, Moved(call[c].seen, "ANALYZING"))
  /\ UNCHANGED <<plans, requestVars, budgetVars, programVars, completion>>

SaveRecord(c) ==
  /\ At(c, "record")
  /\ record' = record \cup {call[c].plan}
  /\ IF call[c].seen.status = "AWAITING_AUTHORIZATION" THEN GoTo(c, "authorize") ELSE Return(c)
  /\ UNCHANGED <<planVars, request, issued, store, known, verdicts, budgetVars,
                 programVars, completion>>

Authorize(c) ==
  /\ At(c, "authorize")
  /\ MoveAndReturn(c, Moved(call[c].seen, "AUTHORIZED"))
  /\ UNCHANGED <<plans, requestVars, budgetVars, programVars, completion>>

-----------------------------------------------------------------------------
(* materializePrograms                                                      *)

StartMaterialize(c) ==
  /\ At(c, "idle")
  /\ portfolio.status \in {"AUTHORIZED", "ACTIVE"}
  /\ Enter(c, [Idle EXCEPT !.pc = "authorization"])
  /\ UNCHANGED <<planVars, requestVars, budgetVars, programVars, completion>>

\* Mutant: any authorization of the portfolio will do.
FindAuthorization_AnyPlan(c) ==
  /\ At(c, "authorization")
  /\ record # {}
  /\ call' = [call EXCEPT ![c].pc = "proposal", ![c].plan = plans, ![c].proposal = 1]
  /\ UNCHANGED <<planVars, requestVars, budgetVars, programVars, completion>>

\* findApprovedAuthorization: by the identifier of the latest plan
FindAuthorization(c) ==
  /\ At(c, "authorization")
  /\ plans \in record
  /\ call' = [call EXCEPT ![c].pc = "proposal", ![c].plan = plans, ![c].proposal = 1]
  /\ UNCHANGED <<planVars, requestVars, budgetVars, programVars, completion>>

SlotOf(c) == <<call[c].plan, call[c].proposal>>
NextProposal(c) == call' = [call EXCEPT ![c].pc = "proposal", ![c].proposal = @ + 1,
                                        ![c].outcome = "NONE"]

\* The lineage and the reservation of the next proposal are looked up.
LookUpProposal(c) ==
  /\ At(c, "proposal")
  /\ IF call[c].proposal > Proposals THEN GoTo(c, "activate")
     ELSE IF lineage[SlotOf(c)] = "LINKED" THEN NextProposal(c)
     ELSE GoTo(c, IF SlotOf(c) \in reservation THEN "admit" ELSE "ledger")
  /\ UNCHANGED <<planVars, requestVars, budgetVars, programVars, completion>>

\* Mutant: nobody looks at the ceiling.
ReadLedger_NoCeiling(c) ==
  /\ At(c, "ledger")
  /\ call' = [call EXCEPT ![c].pc = "cas", ![c].read = reserved]
  /\ UNCHANGED <<planVars, requestVars, budgetVars, programVars, completion>>

\* canReserve, or the operation throws
ReadLedger(c) ==
  /\ At(c, "ledger")
  /\ reserved < Ceiling
  /\ call' = [call EXCEPT ![c].pc = "cas", ![c].read = reserved]
  /\ UNCHANGED <<planVars, requestVars, budgetVars, programVars, completion>>

\* Mutant: the ledger is saved without its revision.
ReserveOnLedger_NoCas(c) ==
  /\ At(c, "cas")
  /\ reserved' = call[c].read + 1
  /\ call' = [call EXCEPT ![c].pc = "reserve", ![c].read = 0]
  /\ UNCHANGED <<planVars, requestVars, reservation, programVars, completion>>

ReserveOnLedger(c) ==
  /\ At(c, "cas")
  /\ reserved = call[c].read
  /\ reserved' = call[c].read + 1
  /\ call' = [call EXCEPT ![c].pc = "reserve", ![c].read = 0]
  /\ UNCHANGED <<planVars, requestVars, reservation, programVars, completion>>

SaveReservation(c) ==
  /\ At(c, "reserve")
  /\ reservation' = reservation \cup {SlotOf(c)}
  /\ GoTo(c, "admit")
  /\ UNCHANGED <<planVars, requestVars, reserved, programVars, completion>>

\* The program's identity is that of the proposal: ADMITTED or DUPLICATE.  A
\* refusal and an error are caught alike.
AdmitProgram(c) ==
  /\ At(c, "admit")
  /\ \/ /\ program' = IF program[SlotOf(c)] = "NONE"
                      THEN [program EXCEPT ![SlotOf(c)] = "ADMITTED"] ELSE program
        /\ call' = [call EXCEPT ![c].pc = "link", ![c].outcome = "LINKED"]
     \/ /\ UNCHANGED program
        /\ call' = [call EXCEPT ![c].pc = "link", ![c].outcome = "FAILED"]
  /\ UNCHANGED <<planVars, requestVars, budgetVars, lineage, completion>>

SaveLineage(c) ==
  /\ At(c, "link")
  /\ lineage' = [lineage EXCEPT ![SlotOf(c)] = call[c].outcome]
  /\ NextProposal(c)
  /\ UNCHANGED <<planVars, requestVars, budgetVars, program, completion>>

\* The portfolio is read again; proposals that failed do not matter.
Activate(c) ==
  /\ At(c, "activate")
  /\ IF portfolio.status = "AUTHORIZED"
     THEN MoveAndGoOn(c, "ACTIVE", Idle)
     ELSE Return(c) /\ UNCHANGED portfolio
  /\ UNCHANGED <<plans, requestVars, budgetVars, programVars, completion>>

-----------------------------------------------------------------------------
(* proposeRebalance, verify                                                 *)

ProposeRebalance(c) ==
  /\ At(c, "idle")
  /\ portfolio.status \in {"ACTIVE", "VERIFYING"}
  /\ MoveAndGoOn(c, "REBALANCE_REQUIRED", Idle)
  /\ UNCHANGED <<plans, requestVars, budgetVars, programVars, completion>>

\* A transition to VERIFYING that fails is caught; the portfolio is read again
\* and must be VERIFYING, as if the call had come later.
StartVerify(c) ==
  /\ At(c, "idle")
  /\ \/ /\ portfolio.status = "ACTIVE"
        /\ MoveAndGoOn(c, "VERIFYING", [Idle EXCEPT !.pc = "prove"])
     \/ /\ portfolio.status = "VERIFYING"
        /\ Enter(c, [Idle EXCEPT !.pc = "prove", !.seen = portfolio])
        /\ UNCHANGED portfolio
  /\ UNCHANGED <<plans, requestVars, budgetVars, programVars, completion>>

Evidence(s) == IF lineage[s] = "NONE" THEN "NONE" ELSE program[s]

\* provePortfolioGoal, for required goals to which one proposal each contributes
Prove(c) ==
  LET evidence == {Evidence(<<plans, p>>) : p \in Proposal}
  IN  /\ At(c, "prove")
      /\ call' = [call EXCEPT ![c].plan = plans, ![c].pc =
                    IF evidence = {"PROVED"} THEN "complete"
                    ELSE IF "UNPROVED" \in evidence THEN "FAILED" ELSE "ACTIVE"]
      /\ UNCHANGED <<planVars, requestVars, budgetVars, programVars, completion>>

Conclude(c) ==
  /\ call[c].pc \in {"FAILED", "ACTIVE"}
  /\ MoveAndReturn(c, Moved(call[c].seen, call[c].pc))
  /\ UNCHANGED <<plans, requestVars, budgetVars, programVars, completion>>

\* One transaction: the record, unless there is one, and the transition from
\* whatever status the portfolio has by now.
Complete(c) ==
  /\ At(c, "complete")
  /\ MayMove(portfolio, "COMPLETED")
  /\ completion' = IF completion = 0 THEN call[c].plan ELSE completion
  /\ MoveAndGoOn(c, "COMPLETED", Idle)
  /\ UNCHANGED <<plans, requestVars, budgetVars, programVars>>

-----------------------------------------------------------------------------
(* The environment                                                          *)

\* A program completes, with proof of the criterion that is bound or without.
EndProgram(s) ==
  /\ program[s] = "ADMITTED"
  /\ \E end \in {"PROVED", "UNPROVED"} : program' = [program EXCEPT ![s] = end]
  /\ UNCHANGED <<planVars, requestVars, budgetVars, lineage, completion, call>>

\* A check throws, a statement fails, an answer is lost, or the process dies and
\* takes its nonces with it.
Abort(c) ==
  /\ ~At(c, "idle")
  /\ Return(c)
  /\ store' \in {store, [store EXCEPT ![c] = [v \in Plan |-> 0]]}
  /\ UNCHANGED <<planVars, request, record, issued, known, verdicts, budgetVars,
                 programVars, completion>>

PlanningStep(c) ==
  \/ Analyze(c) \/ StartPlan(c) \/ InsertPlan(c) \/ AdoptPlan(c)
  \/ StartValidate(c) \/ FinishValidate(c)

AuthorizationStep(c) ==
  \/ StartRoute(c) \/ SaveRequest(c) \/ PutNonce(c)
  \/ StartDecide(c) \/ ExpireRequest(c) \/ CheckAllocator(c) \/ SettleRequest(c)
  \/ Replan(c) \/ SaveRecord(c) \/ Authorize(c)

MaterializationStep(c) ==
  \/ StartMaterialize(c) \/ FindAuthorization(c) \/ LookUpProposal(c) \/ ReadLedger(c)
  \/ ReserveOnLedger(c) \/ SaveReservation(c) \/ AdmitProgram(c) \/ SaveLineage(c)
  \/ Activate(c)

VerificationStep(c) ==
  \/ ProposeRebalance(c) \/ StartVerify(c) \/ Prove(c) \/ Conclude(c) \/ Complete(c)

Next ==
  \/ \E c \in Call : PlanningStep(c) \/ AuthorizationStep(c) \/ MaterializationStep(c)
                       \/ VerificationStep(c) \/ Abort(c)
  \/ \E s \in Slot : EndProgram(s)

Spec == Init /\ [][Next]_vars
-----------------------------------------------------------------------------
TypeOK ==
  /\ portfolio \in Portfolio
  /\ plans \in 0 .. MaxPlans
  /\ request \in [Plan -> Request(MaxIssues)]
  /\ record \subseteq Plan
  /\ issued \in 0 .. MaxIssues
  /\ store \in [Call -> [Plan -> 0 .. MaxIssues]]
  /\ known \subseteq 1 .. MaxIssues
  /\ reserved \in 0 .. Ceiling
  /\ reservation \subseteq Slot
  /\ lineage \in [Slot -> {"NONE", "LINKED", "FAILED"}]
  /\ program \in [Slot -> {"NONE", "ADMITTED", "PROVED", "UNPROVED"}]
  /\ completion \in 0 .. MaxPlans
  /\ call \in [Call -> CallState]
  /\ verdicts \subseteq Plan \X {"APPROVE", "REJECT"}

\* Every program that was admitted is escrowed, under the ceiling, also when two
\* calls materialize at a time or one of them dies between two statements.
EscrowCoversPrograms ==
  /\ \A s \in Slot : program[s] # "NONE" => s \in reservation
  /\ Cardinality(reservation) <= reserved
  /\ reserved <= Ceiling

\* The completion record comes with the status COMPLETED, and says of its plan
\* that every required goal was proved.
CompletionIsRecorded ==
  /\ (portfolio.status = "COMPLETED") <=> (completion # 0)
  /\ completion # 0 => \A p \in Proposal : program[<<completion, p>>] = "PROVED"

\* "Rebalancing that changes material allocation requires a new plan version and
\* a new authorization": programs come only of plans that were approved.
Gate == INSTANCE AuthorizationGate WITH
  Subject  <- Plan,
  Effect   <- Slot,
  granted  <- {v \in Plan : <<v, "APPROVE">> \in verdicts},
  admitted <- {s \in Slot : program[s] # "NONE"},
  proved   <- {s \in Slot : program[s] = "PROVED"},
  finished <- {v \in Plan : v = completion}

ImplementsGate == Gate!Spec
=============================================================================
