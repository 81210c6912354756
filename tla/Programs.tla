------------------------------ MODULE Programs ------------------------------
(***************************************************************************)
(* One governed program: decomposed into a plan, authorized by a human,    *)
(* materialized into child objectives under an escrowed budget, verified.  *)
(*                                                                         *)
(*   decompose:   DECOMPOSING -> model -> INSERT plan -> DECOMPOSED        *)
(*   validate:    VALIDATING -> AWAITING_MATERIALIZATION_APPROVAL          *)
(*   route:       find a pending approval, or upsert one and put its nonce *)
(*   decide:      read the approval -> read the program -> upsert the      *)
(*                decision -> MATERIALIZING                                *)
(*   materialize: per node: lineage? reservation? read the ledger, CAS it, *)
(*                save the reservation, admit the child, save the lineage; *)
(*                then ACTIVE                                              *)
(*   verify:      VERIFYING -> prove the criteria -> COMPLETED with its    *)
(*                record in one transaction, or ESCALATED                  *)
(*                                                                         *)
(* All but decide are invoked for scheduler work items.  An item exists    *)
(* once per binding, and its end is final, so that an operation whose item *)
(* is over is not invoked again.                                           *)
(***************************************************************************)
EXTENDS Integers, FiniteSets

CONSTANTS Call,          \* concurrent calls, each in a process of its own
          Nodes,         \* how many nodes a plan has; each takes one unit of budget
          Ceiling,       \* maximumProgramBudget, in units
          MaxRevisions,  \* maximumDecompositionRevisions
          MaxPlans,      \* bound: versions of the plan
          MaxIssues,     \* bound: nonces that are issued
          MaxFaults      \* bound: database errors and crashes

ASSUME ProgramsAssumption ==
  /\ {Nodes, Ceiling, MaxRevisions, MaxPlans, MaxIssues, MaxFaults} \subseteq Nat
  /\ Nodes <= Ceiling     \* checked by validateProgramPlan

VARIABLES
  program,      \* the row: status, recordRevision, plan version, revisions tried
  plans,        \* the latest version in program_plans
  approval,     \* program_materialization_approvals, by plan version
  issued,       \* nonces issued so far
  store,        \* materializationNonceStore of each process
  known,        \* nonces that were answered to somebody
  reserved,     \* program_budget_ledgers; it only grows, and so is its own revision
  reservation,  \* program_budget_reservations
  lineage,      \* program_lineage
  child,        \* the child objectives, as admission knows them
  completion,   \* the plan version of the ProgramCompletionRecord, 0 for none
  work,         \* the program's scheduler work items
  call,         \* where each call is
  verdicts,     \* history: <<plan version, decision>> of every recorded decision
  faults        \* database errors and crashes so far

budgetVars   == <<reserved, reservation>>
approvalVars == <<approval, issued, store, known, verdicts>>
childVars    == <<lineage, child>>
vars == <<program, plans, approvalVars, budgetVars, childVars, completion, work, call, faults>>

Node == 1 .. Nodes
Plan == 1 .. MaxPlans
Slot == Plan \X Node

ProgramState == {"ADMITTED", "DECOMPOSING", "DECOMPOSED", "VALIDATING",
                 "AWAITING_MATERIALIZATION_APPROVAL", "MATERIALIZING", "ACTIVE",
                 "VERIFYING", "COMPLETED", "BLOCKED", "ESCALATED"}

\* Where the operations below may take a program (PROGRAM_TRANSITIONS without
\* cancellation, pause and the ways out of BLOCKED and ESCALATED: no caller).
Transitions ==
  {<<"ADMITTED", "DECOMPOSING">>, <<"ADMITTED", "BLOCKED">>,
   <<"DECOMPOSING", "DECOMPOSED">>, <<"DECOMPOSING", "BLOCKED">>,
   <<"DECOMPOSING", "ESCALATED">>, <<"DECOMPOSED", "VALIDATING">>,
   <<"VALIDATING", "AWAITING_MATERIALIZATION_APPROVAL">>,
   <<"VALIDATING", "DECOMPOSING">>, <<"VALIDATING", "ESCALATED">>,
   <<"AWAITING_MATERIALIZATION_APPROVAL", "MATERIALIZING">>,
   <<"AWAITING_MATERIALIZATION_APPROVAL", "DECOMPOSING">>,
   <<"MATERIALIZING", "ACTIVE">>, <<"MATERIALIZING", "ESCALATED">>,
   <<"ACTIVE", "VERIFYING">>, <<"ACTIVE", "ESCALATED">>,
   <<"VERIFYING", "COMPLETED">>, <<"VERIFYING", "ACTIVE">>,
   <<"VERIFYING", "ESCALATED">>}

Program == [status: ProgramState, revision: Nat, plan: 0 .. MaxPlans, tried: Nat]

Approval == [status: {"NONE", "PENDING", "APPROVED", "REJECTED", "EXPIRED"},
             issue: 0 .. MaxIssues]

\* The binding of a work item: the plan, and for MATERIALIZE the subject hash
\* of the approval, which differs from issue to issue.
Item == {<<"DECOMPOSE", 0, 0>>}
          \cup {"VALIDATE", "ROUTE", "VERIFY"} \X Plan \X {0}
          \cup {"MATERIALIZE"} \X Plan \X (0 .. MaxIssues)
NoItem == <<"NONE", 0, 0>>

PC == {"idle", "begin", "model", "insert", "adopt", "validate", "await",
       "pending", "issue", "put", "approver", "expire", "record", "open",
       "approved", "node", "reservation", "ledger", "cas", "reserve", "admit", "link",
       "activate", "verifying", "reread", "prove", "escalate", "complete", "done"}

CallState == [pc: PC, item: Item \cup {NoItem}, seen: Program, plan: 0 .. MaxPlans,
              approval: Approval, decision: {"NONE", "APPROVE", "REJECT"},
              node: 0 .. Nodes + 1, linked: SUBSET Node, read: 0 .. Ceiling,
              outcome: {"NONE", "LINKED", "FAILED"}]

NewProgram == [status |-> "ADMITTED", revision |-> 1, plan |-> 0, tried |-> 0]
NoApproval == [status |-> "NONE", issue |-> 0]
Idle == [pc |-> "idle", item |-> NoItem, seen |-> NewProgram, plan |-> 0,
         approval |-> NoApproval, decision |-> "NONE", node |-> 0, linked |-> {},
         read |-> 0, outcome |-> "NONE"]

Init ==
  /\ program = NewProgram
  /\ plans = 0
  /\ approval = [v \in Plan |-> NoApproval]
  /\ issued = 0
  /\ store = [c \in Call |-> [v \in Plan |-> 0]]
  /\ known = {}
  /\ reserved = 0
  /\ reservation = {}
  /\ lineage = [s \in Slot |-> "NONE"]
  /\ child = [s \in Slot |-> "NONE"]
  /\ completion = 0
  /\ work = [i \in Item |-> "NONE"]
  /\ call = [c \in Call |-> Idle]
  /\ verdicts = {}
  /\ faults = 0

-----------------------------------------------------------------------------
(* Work items                                                               *)

\* candidateProgramWorkKinds and programWorkBindingHash
Candidates ==
  LET subject == IF plans # 0 /\ approval[plans].status = "APPROVED"
                 THEN approval[plans].issue ELSE 0
  IN  CASE program.status \in {"ADMITTED", "DECOMPOSING"} -> {<<"DECOMPOSE", 0, 0>>}
        [] program.status \in {"DECOMPOSED", "VALIDATING"} -> {<<"VALIDATE", plans, 0>>}
        [] program.status = "AWAITING_MATERIALIZATION_APPROVAL" -> {<<"ROUTE", plans, 0>>}
        [] program.status = "MATERIALIZING" -> {<<"MATERIALIZE", plans, subject>>}
        [] program.status \in {"ACTIVE", "VERIFYING"} -> {<<"VERIFY", plans, 0>>}
        [] OTHER -> {}

\* discoverForProgram: an item that exists is reused, whatever became of it.
Discover ==
  \E i \in Candidates :
    /\ work[i] = "NONE"
    /\ work' = [work EXCEPT ![i] = "ELIGIBLE"]
    /\ UNCHANGED <<program, plans, approvalVars, budgetVars, childVars, completion, call, faults>>

\* An item of this kind is dispatched.
Dispatched(c, kind, i) ==
  /\ call[c].pc = "idle"
  /\ i[1] = kind
  /\ work[i] = "ELIGIBLE"

Enter(c, i, state) ==
  /\ call' = [call EXCEPT ![c] = [state EXCEPT !.item = i]]
  /\ work' = [work EXCEPT ![i] = "RUNNING"]

Refuse(i) ==
  /\ work' = [work EXCEPT ![i] = "FAILED"]
  /\ UNCHANGED call

GoTo(c, pc) ==
  /\ call' = [call EXCEPT ![c].pc = pc]
  /\ UNCHANGED work

Finish(c, result) ==
  /\ call' = [call EXCEPT ![c] = Idle]
  /\ work' = IF call[c].item = NoItem THEN work
             ELSE [work EXCEPT ![call[c].item] = result]

\* Until the item is settled, the answer of the last statement may be lost; a decision
\* has no item.
Return(c) ==
  /\ call' = [call EXCEPT ![c] = IF call[c].item = NoItem THEN Idle
                                 ELSE [Idle EXCEPT !.pc = "done", !.item = call[c].item]]
  /\ UNCHANGED work
Throw(c)  == Finish(c, "FAILED")

\* isSafeRetryable, until maxAttempts is reached
ThrowDatabaseError(c) == Finish(c, "ELIGIBLE") \/ Finish(c, "FAILED")

Settle(c) ==
  /\ call[c].pc = "done"
  /\ Finish(c, "SUCCEEDED")
  /\ UNCHANGED <<program, plans, approvalVars, budgetVars, childVars, completion, faults>>

-----------------------------------------------------------------------------
(* The program's row                                                        *)

Updated(p, status) == [p EXCEPT !.status = status, !.revision = @ + 1]

\* canTransitionProgram, then the UPDATE under the revision that was read
MayTransition(p, status) ==
  /\ <<p.status, status>> \in Transitions
  /\ program.revision = p.revision

TransitionOrThrow(c, new) ==
  IF MayTransition(call[c].seen, new.status)
  THEN program' = new /\ Return(c)
  ELSE UNCHANGED program /\ Throw(c)

\* The call goes on with what it has written.
TransitionAndGoTo(c, status, pc) ==
  IF MayTransition(call[c].seen, status)
  THEN /\ program' = Updated(call[c].seen, status)
       /\ call' = [call EXCEPT ![c].pc = pc, ![c].seen = program']
       /\ UNCHANGED work
  ELSE UNCHANGED program /\ Throw(c)

-----------------------------------------------------------------------------
(* decompose, validate                                                      *)

StartDecompose(c) ==
  \E i \in Item :
    /\ Dispatched(c, "DECOMPOSE", i)
    /\ CASE program.status \in {"ADMITTED", "VALIDATING"} ->
              Enter(c, i, [Idle EXCEPT !.pc = "begin", !.seen = program])
         [] program.status = "DECOMPOSING" ->
              Enter(c, i, [Idle EXCEPT !.pc = "model", !.seen = program])
         [] OTHER -> Refuse(i)
    /\ UNCHANGED <<program, plans, approvalVars, budgetVars, childVars, completion, faults>>

BeginDecomposition(c) ==
  /\ call[c].pc = "begin"
  /\ TransitionAndGoTo(c, "DECOMPOSING", "model")
  /\ UNCHANGED <<plans, approvalVars, budgetVars, childVars, completion, faults>>

\* A plan that is not valid costs a revision; the program stays DECOMPOSING and
\* the call returns as if all were well.
ProposeInvalid(c) ==
  LET seen == call[c].seen IN
  /\ call[c].pc = "model"
  /\ CASE seen.tried > MaxRevisions ->
            TransitionOrThrow(c, Updated(seen, "BLOCKED"))
       [] seen.tried = MaxRevisions ->
            TransitionOrThrow(c, [Updated(seen, "BLOCKED") EXCEPT !.tried = @ + 1])
       [] OTHER ->
            IF program.revision = seen.revision
            THEN program' = [Updated(seen, seen.status) EXCEPT !.tried = @ + 1] /\ Return(c)
            ELSE UNCHANGED program /\ Throw(c)
  /\ UNCHANGED <<plans, approvalVars, budgetVars, childVars, completion, faults>>

ProposeValid(c) ==
  /\ call[c].pc = "model"
  /\ call[c].seen.tried <= MaxRevisions
  /\ call[c].seen.plan < MaxPlans
  /\ call' = [call EXCEPT ![c].pc = "insert", ![c].plan = call[c].seen.plan + 1]
  /\ UNCHANGED <<program, plans, approvalVars, budgetVars, childVars, completion, work, faults>>

\* A plain INSERT: if a call has left this version behind, every later attempt
\* collides with it.
SavePlan(c) ==
  /\ call[c].pc = "insert"
  /\ IF call[c].plan > plans
     THEN plans' = call[c].plan /\ GoTo(c, "adopt")
     ELSE UNCHANGED plans /\ ThrowDatabaseError(c)
  /\ UNCHANGED <<program, approvalVars, budgetVars, childVars, completion, faults>>

AdoptPlan(c) ==
  /\ call[c].pc = "adopt"
  /\ TransitionOrThrow(c, [Updated(call[c].seen, "DECOMPOSED")
                             EXCEPT !.plan = call[c].plan, !.tried = @ + 1])
  /\ UNCHANGED <<plans, approvalVars, budgetVars, childVars, completion, faults>>

StartValidate(c) ==
  \E i \in Item :
    /\ Dispatched(c, "VALIDATE", i)
    /\ Enter(c, i, [Idle EXCEPT !.seen = program, !.pc =
                      IF program.status = "DECOMPOSED" THEN "validate" ELSE "await"])
    /\ UNCHANGED <<program, plans, approvalVars, budgetVars, childVars, completion, faults>>

BeginValidation(c) ==
  /\ call[c].pc = "validate"
  /\ TransitionAndGoTo(c, "VALIDATING", "await")
  /\ UNCHANGED <<plans, approvalVars, budgetVars, childVars, completion, faults>>

\* recheckAuthorityFreeze may throw.
AwaitApproval(c) ==
  /\ call[c].pc = "await"
  /\ \/ TransitionOrThrow(c, Updated(call[c].seen, "AWAITING_MATERIALIZATION_APPROVAL"))
     \/ Throw(c) /\ UNCHANGED program
  /\ UNCHANGED <<plans, approvalVars, budgetVars, childVars, completion, faults>>

-----------------------------------------------------------------------------
(* routeMaterializationApproval, decideMaterialization                      *)

StartRoute(c) ==
  \E i \in Item :
    /\ Dispatched(c, "ROUTE", i)
    /\ IF program.status = "AWAITING_MATERIALIZATION_APPROVAL"
       THEN Enter(c, i, [Idle EXCEPT !.pc = "pending", !.plan = plans])
       ELSE Refuse(i)
    /\ UNCHANGED <<program, plans, approvalVars, budgetVars, childVars, completion, faults>>

Pending == {v \in Plan : approval[v].status = "PENDING"}

\* getPendingByProgram: the latest of the program; take and put.  The nonce of
\* another process is out of reach, and one that this process still has may
\* have been replaced by another.
FindPending(c) ==
  /\ call[c].pc = "pending"
  /\ IF \E v \in Pending : store[c][v] # 0 /\ \A w \in Pending : w <= v
     THEN Return(c)
     ELSE GoTo(c, "issue")
  /\ UNCHANGED <<program, plans, approvalVars, budgetVars, childVars, completion, faults>>

\* The identifier of the approval is that of the plan, and save is an upsert:
\* whatever stands there becomes PENDING with a new nonce.
SaveApproval(c) ==
  /\ call[c].pc = "issue"
  /\ issued < MaxIssues
  /\ issued' = issued + 1
  /\ approval' = [approval EXCEPT ![call[c].plan] =
                    [status |-> "PENDING", issue |-> issued + 1]]
  /\ call' = [call EXCEPT ![c].pc = "put", ![c].approval = approval'[call[c].plan]]
  /\ UNCHANGED <<program, plans, store, known, verdicts, budgetVars, childVars,
                 completion, work, faults>>

PutNonce(c) ==
  /\ call[c].pc = "put"
  /\ store' = [store EXCEPT ![c][call[c].plan] = call[c].approval.issue]
  /\ known' = known \cup {call[c].approval.issue}
  /\ Return(c)
  /\ UNCHANGED <<program, plans, approval, issued, verdicts, budgetVars, childVars,
                 completion, faults>>

\* The approval is read; it must be PENDING, the nonce must be its own, and the
\* time of the decision may be too late.
StartDecide(c) ==
  \E v \in Plan, d \in {"NONE", "APPROVE", "REJECT"} :
    /\ call[c].pc = "idle"
    /\ approval[v].status = "PENDING"
    /\ d # "NONE" => approval[v].issue \in known
    /\ call' = [call EXCEPT ![c] =
                  [Idle EXCEPT !.plan = v, !.approval = approval[v], !.decision = d,
                               !.pc = IF d = "NONE" THEN "expire" ELSE "approver"]]
    /\ UNCHANGED <<program, plans, approvalVars, budgetVars, childVars, completion, work, faults>>

\* materializationApprovals.save: what was read, with another status.
SaveStatus(c, status) ==
  approval' = [approval EXCEPT ![call[c].plan] =
                 [call[c].approval EXCEPT !.status = status]]

SaveExpired(c) ==
  /\ call[c].pc = "expire"
  /\ SaveStatus(c, "EXPIRED")
  /\ Throw(c)
  /\ UNCHANGED <<program, plans, issued, store, known, verdicts, budgetVars, childVars,
                 completion, faults>>

\* The program is read; PROGRAM_MATERIALIZER authority and the authority freeze
\* may refuse.
CheckApprover(c) ==
  /\ call[c].pc = "approver"
  /\ \/ call' = [call EXCEPT ![c].pc = "record", ![c].seen = program] /\ UNCHANGED work
     \/ Throw(c)
  /\ UNCHANGED <<program, plans, approvalVars, budgetVars, childVars, completion, faults>>

\* Mutant: whatever is decided approves.
RecordDecision_IgnoresDecision(c) ==
  /\ call[c].pc = "record"
  /\ SaveStatus(c, "APPROVED")
  /\ verdicts' = verdicts \cup {<<call[c].plan, call[c].decision>>}
  /\ IF call[c].seen.status = "AWAITING_MATERIALIZATION_APPROVAL"
     THEN /\ call' = [call EXCEPT ![c] = [Idle EXCEPT !.pc = "open", !.seen = call[c].seen]]
          /\ UNCHANGED work
     ELSE Return(c)
  /\ UNCHANGED <<program, plans, issued, store, known, budgetVars, childVars, completion,
                 faults>>

RecordDecision(c) ==
  /\ call[c].pc = "record"
  /\ SaveStatus(c, IF call[c].decision = "APPROVE" THEN "APPROVED" ELSE "REJECTED")
  /\ verdicts' = verdicts \cup {<<call[c].plan, call[c].decision>>}
  /\ IF /\ call[c].decision = "APPROVE"
        /\ call[c].seen.status = "AWAITING_MATERIALIZATION_APPROVAL"
     THEN /\ call' = [call EXCEPT ![c] = [Idle EXCEPT !.pc = "open", !.seen = call[c].seen]]
          /\ UNCHANGED work
     ELSE Return(c)
  /\ UNCHANGED <<program, plans, issued, store, known, budgetVars, childVars, completion,
                 faults>>

OpenMaterialization(c) ==
  /\ call[c].pc = "open"
  /\ TransitionOrThrow(c, Updated(call[c].seen, "MATERIALIZING"))
  /\ UNCHANGED <<plans, approvalVars, budgetVars, childVars, completion, faults>>

-----------------------------------------------------------------------------
(* materializeNext                                                          *)

StartMaterialize(c) ==
  \E i \in Item :
    /\ Dispatched(c, "MATERIALIZE", i)
    /\ IF program.status \in {"MATERIALIZING", "ACTIVE"}
       THEN Enter(c, i, [Idle EXCEPT !.pc = "approved"])
       ELSE Refuse(i)
    /\ UNCHANGED <<program, plans, approvalVars, budgetVars, childVars, completion, faults>>

\* findApprovedMaterialization by the identifier of the latest plan;
\* recheckAuthorityFreeze may throw.
CheckApproved(c) ==
  /\ call[c].pc = "approved"
  /\ \/ /\ approval[plans].status = "APPROVED"
        /\ call' = [call EXCEPT ![c].pc = "node", ![c].plan = plans, ![c].node = 1]
        /\ UNCHANGED work
     \/ Throw(c)
  /\ UNCHANGED <<program, plans, approvalVars, budgetVars, childVars, completion, faults>>

SlotOf(c) == <<call[c].plan, call[c].node>>

\* A node that is linked already is passed over; after the last one the program
\* is read again.
NextNode(c) ==
  /\ call[c].pc = "node"
  /\ IF call[c].node > Nodes
     THEN IF call[c].linked = Node /\ program.status = "MATERIALIZING"
          THEN /\ call' = [call EXCEPT ![c].pc = "activate", ![c].seen = program]
               /\ UNCHANGED work
          ELSE Return(c)
     ELSE IF lineage[SlotOf(c)] = "LINKED"
          THEN /\ call' = [call EXCEPT ![c].node = @ + 1, ![c].linked = @ \cup {call[c].node}]
               /\ UNCHANGED work
          ELSE GoTo(c, "reservation")
  /\ UNCHANGED <<program, plans, approvalVars, budgetVars, childVars, completion, faults>>

FindReservation(c) ==
  /\ call[c].pc = "reservation"
  /\ GoTo(c, IF SlotOf(c) \in reservation THEN "admit" ELSE "ledger")
  /\ UNCHANGED <<program, plans, approvalVars, budgetVars, childVars, completion, faults>>

\* Mutant: without canReserve.
ReadLedger_NoCeiling(c) ==
  /\ call[c].pc = "ledger"
  /\ call' = [call EXCEPT ![c].pc = "cas", ![c].read = reserved]
  /\ UNCHANGED work
  /\ UNCHANGED <<program, plans, approvalVars, budgetVars, childVars, completion, faults>>

\* canReserve
ReadLedger(c) ==
  /\ call[c].pc = "ledger"
  /\ IF reserved < Ceiling
     THEN /\ call' = [call EXCEPT ![c].pc = "cas", ![c].read = reserved]
          /\ UNCHANGED work
     ELSE Throw(c)
  /\ UNCHANGED <<program, plans, approvalVars, budgetVars, childVars, completion, faults>>

\* Mutant: the ledger is saved without its revision.
ReserveOnLedger_NoCas(c) ==
  /\ call[c].pc = "cas"
  /\ reserved' = call[c].read + 1
  /\ call' = [call EXCEPT ![c].pc = "reserve", ![c].read = 0]
  /\ UNCHANGED <<program, plans, approvalVars, reservation, childVars, completion, work, faults>>

\* saveCas
ReserveOnLedger(c) ==
  /\ call[c].pc = "cas"
  /\ IF reserved = call[c].read
     THEN /\ reserved' = call[c].read + 1
          /\ call' = [call EXCEPT ![c].pc = "reserve", ![c].read = 0]
          /\ UNCHANGED work
     ELSE UNCHANGED reserved /\ Throw(c)
  /\ UNCHANGED <<program, plans, approvalVars, reservation, childVars, completion, faults>>

SaveReservation(c) ==
  /\ call[c].pc = "reserve"
  /\ reservation' = reservation \cup {SlotOf(c)}
  /\ GoTo(c, "admit")
  /\ UNCHANGED <<program, plans, approvalVars, reserved, childVars, completion, faults>>

\* Admission knows the child by its deterministic identity: ADMITTED or a
\* duplicate.  It may answer CONFLICT or REJECTED, also for a child it knows.
AdmitChild(c) ==
  /\ call[c].pc = "admit"
  /\ \/ /\ child' = IF child[SlotOf(c)] = "NONE"
                    THEN [child EXCEPT ![SlotOf(c)] = "ADMITTED"] ELSE child
        /\ call' = [call EXCEPT ![c].pc = "link", ![c].outcome = "LINKED"]
     \/ /\ call' = [call EXCEPT ![c].pc = "link", ![c].outcome = "FAILED"]
        /\ UNCHANGED child
  /\ UNCHANGED <<program, plans, approvalVars, budgetVars, lineage, completion, work, faults>>

\* lineage.save is an upsert of what this call has learnt.
SaveLineage(c) ==
  /\ call[c].pc = "link"
  /\ lineage' = [lineage EXCEPT ![SlotOf(c)] = call[c].outcome]
  /\ call' = [call EXCEPT ![c].pc = "node", ![c].node = @ + 1, ![c].outcome = "NONE",
                ![c].linked = IF call[c].outcome = "LINKED" THEN @ \cup {call[c].node} ELSE @]
  /\ UNCHANGED <<program, plans, approvalVars, budgetVars, child, completion, work, faults>>

Activate(c) ==
  /\ call[c].pc = "activate"
  /\ TransitionOrThrow(c, Updated(call[c].seen, "ACTIVE"))
  /\ UNCHANGED <<plans, approvalVars, budgetVars, childVars, completion, faults>>

-----------------------------------------------------------------------------
(* verify                                                                   *)

StartVerify(c) ==
  \E i \in Item :
    /\ Dispatched(c, "VERIFY", i)
    /\ IF program.status = "COMPLETED" /\ completion # 0
       THEN work' = [work EXCEPT ![i] = "SUCCEEDED"] /\ UNCHANGED call
       ELSE Enter(c, i, [Idle EXCEPT !.seen = program, !.pc =
                           IF program.status = "ACTIVE" THEN "verifying" ELSE "prove"])
    /\ UNCHANGED <<program, plans, approvalVars, budgetVars, childVars, completion, faults>>

\* Any failure of this transition is caught, also one of the database, which
\* may have committed it.
BeginVerification(c) ==
  /\ call[c].pc = "verifying"
  /\ IF MayTransition(call[c].seen, "VERIFYING")
     THEN \/ TransitionAndGoTo(c, "VERIFYING", "prove") /\ UNCHANGED faults
          \/ /\ faults < MaxFaults
             /\ faults' = faults + 1
             /\ program' = Updated(call[c].seen, "VERIFYING")
             /\ GoTo(c, "reread")
     ELSE GoTo(c, "reread") /\ UNCHANGED <<program, faults>>
  /\ UNCHANGED <<plans, approvalVars, budgetVars, childVars, completion>>

ReadAgain(c) ==
  /\ call[c].pc = "reread"
  /\ CASE program.status = "COMPLETED" /\ completion # 0 -> Return(c)
       [] program.status = "VERIFYING" ->
            /\ call' = [call EXCEPT ![c].pc = "prove", ![c].seen = program]
            /\ UNCHANGED work
       [] OTHER -> Throw(c)
  /\ UNCHANGED <<program, plans, approvalVars, budgetVars, childVars, completion, faults>>

\* Mutant: a child that is linked counts as done.
ProvedBy_Linked(s) == lineage[s] = "LINKED"

\* proveRootCriterion for every root criterion, each of which one node satisfies:
\* a lineage with a run, COMPLETED with its record, verified as satisfied.
ProvedBy(s) == lineage[s] = "LINKED" /\ child[s] = "COMPLETED"

Prove(c) ==
  /\ call[c].pc = "prove"
  /\ call' = [call EXCEPT ![c].plan = plans, ![c].pc =
                IF \A n \in Node : ProvedBy(<<plans, n>>) THEN "complete" ELSE "escalate"]
  /\ UNCHANGED <<program, plans, approvalVars, budgetVars, childVars, completion, work, faults>>

Escalate(c) ==
  /\ call[c].pc = "escalate"
  /\ TransitionOrThrow(c, Updated(call[c].seen, "ESCALATED"))
  /\ UNCHANGED <<plans, approvalVars, budgetVars, childVars, completion, faults>>

\* One transaction: the record, unless there is one, and the transition from
\* whatever status the program has by now.
Complete(c) ==
  /\ call[c].pc = "complete"
  /\ CASE program.status = "COMPLETED" ->
            /\ completion' = IF completion = 0 THEN call[c].plan ELSE completion
            /\ UNCHANGED program
            /\ Return(c)
       [] MayTransition(program, "COMPLETED") ->
            /\ completion' = IF completion = 0 THEN call[c].plan ELSE completion
            /\ program' = Updated(program, "COMPLETED")
            /\ Return(c)
       [] OTHER -> UNCHANGED <<program, completion>> /\ Throw(c)
  /\ UNCHANGED <<plans, approvalVars, budgetVars, childVars, faults>>

-----------------------------------------------------------------------------
(* The environment                                                          *)

\* A child objective is completed and verified, which is final; one that fails
\* proves no more than one that goes on.
CompleteChild(s) ==
  /\ child[s] = "ADMITTED"
  /\ child' = [child EXCEPT ![s] = "COMPLETED"]
  /\ UNCHANGED <<program, plans, approvalVars, budgetVars, lineage, completion, work, call, faults>>

\* A statement fails, or the answer of the one before it is lost.
Fault(c) ==
  /\ call[c].pc # "idle"
  /\ faults < MaxFaults
  /\ faults' = faults + 1
  /\ IF call[c].pc = "verifying" THEN GoTo(c, "reread") ELSE ThrowDatabaseError(c)
  /\ UNCHANGED <<program, plans, approvalVars, budgetVars, childVars, completion>>

\* The process dies: its nonces are gone, its item stays RUNNING.
Crash(c) ==
  /\ call[c].pc # "idle"
  /\ faults < MaxFaults
  /\ faults' = faults + 1
  /\ call' = [call EXCEPT ![c] = Idle]
  /\ store' = [store EXCEPT ![c] = [v \in Plan |-> 0]]
  /\ UNCHANGED <<program, plans, approval, issued, known, verdicts, budgetVars, childVars,
                 completion, work>>

PlanningStep(c) ==
  \/ StartDecompose(c) \/ BeginDecomposition(c) \/ ProposeInvalid(c) \/ ProposeValid(c)
  \/ SavePlan(c) \/ AdoptPlan(c)
  \/ StartValidate(c) \/ BeginValidation(c) \/ AwaitApproval(c)

ApprovalStep(c) ==
  \/ StartRoute(c) \/ FindPending(c) \/ SaveApproval(c) \/ PutNonce(c)
  \/ StartDecide(c) \/ SaveExpired(c) \/ CheckApprover(c) \/ RecordDecision(c)
  \/ OpenMaterialization(c)

MaterializationStep(c) ==
  \/ StartMaterialize(c) \/ CheckApproved(c) \/ NextNode(c) \/ FindReservation(c)
  \/ ReadLedger(c) \/ ReserveOnLedger(c) \/ SaveReservation(c) \/ AdmitChild(c)
  \/ SaveLineage(c) \/ Activate(c)

VerificationStep(c) ==
  \/ StartVerify(c) \/ BeginVerification(c) \/ ReadAgain(c) \/ Prove(c) \/ Escalate(c)
  \/ Complete(c)

Next ==
  \/ Discover
  \/ \E c \in Call : PlanningStep(c) \/ ApprovalStep(c) \/ MaterializationStep(c)
                       \/ VerificationStep(c) \/ Settle(c) \/ Fault(c) \/ Crash(c)
  \/ \E s \in Slot : CompleteChild(s)

Spec == Init /\ [][Next]_vars
-----------------------------------------------------------------------------
TypeOK ==
  /\ program \in Program
  /\ plans \in 0 .. MaxPlans
  /\ approval \in [Plan -> Approval]
  /\ issued \in 0 .. MaxIssues
  /\ store \in [Call -> [Plan -> 0 .. MaxIssues]]
  /\ known \subseteq 1 .. MaxIssues
  /\ reserved \in 0 .. Ceiling
  /\ reservation \subseteq Slot
  /\ lineage \in [Slot -> {"NONE", "LINKED", "FAILED"}]
  /\ child \in [Slot -> {"NONE", "ADMITTED", "COMPLETED"}]
  /\ completion \in 0 .. MaxPlans
  /\ work \in [Item -> {"NONE", "ELIGIBLE", "RUNNING", "SUCCEEDED", "FAILED"}]
  /\ call \in [Call -> CallState]
  /\ verdicts \subseteq Plan \X {"APPROVE", "REJECT"}
  /\ faults \in 0 .. MaxFaults

\* "Concurrent materializers cannot over-allocate": whatever was admitted is
\* reserved, and what is reserved is on the ledger, below the ceiling.
EscrowCoversChildren ==
  /\ \A s \in Slot : child[s] # "NONE" => s \in reservation
  /\ Cardinality(reservation) <= reserved
  /\ reserved <= Ceiling

\* "immutable ProgramCompletionRecord is written transactionally with COMPLETED"
CompletionIsRecorded ==
  /\ (program.status = "COMPLETED") <=> (completion # 0)
  /\ completion # 0 => \A n \in Node : child[<<completion, n>>] = "COMPLETED"

\* programs/service.ts materialize, verify: what was admitted is paid for, and what is
\* completed is proved.
ProgramIsAccounted == EscrowCoversChildren /\ CompletionIsRecorded

-----------------------------------------------------------------------------
(* What makes them inductive: a call that still has the program's revision  *)
(* has its row, and what a call has seen done stays done                     *)

OldRow(p) ==
  p.revision <= program.revision /\ (p.revision = program.revision => p = program)

Approved(v) == <<v, "APPROVE">> \in verdicts

CallInv(c) ==
  LET at == call[c].pc IN
  /\ OldRow(call[c].seen)
  /\ call[c].item[2] <= plans
  /\ at = "model" => call[c].seen.status = "DECOMPOSING"
  /\ at \in {"approved", "verifying", "reread", "prove"} => plans # 0
  /\ at \in {"insert", "adopt", "pending", "issue", "put", "approver", "expire", "record",
             "complete"} => call[c].plan \in Plan
  /\ at \in {"approver", "record"} => call[c].decision # "NONE"
  /\ at = "put" => call[c].approval.issue # 0
  /\ at \in {"node", "reservation", "ledger", "cas", "reserve", "admit", "link"} =>
       /\ call[c].plan \in Plan /\ Approved(call[c].plan)
       /\ call[c].node # 0 /\ (at = "node" \/ call[c].node \in Node)
  /\ at = "cas" => call[c].read < Ceiling
  /\ at \in {"admit", "link"} => SlotOf(c) \in reservation
  /\ at = "complete" => \A n \in Node : child[<<call[c].plan, n>>] = "COMPLETED"

RowsInv ==
  /\ OldRow(NewProgram)
  /\ \A v \in Plan : approval[v].status = "APPROVED" => Approved(v)
  /\ \A i \in Item : work[i] # "NONE" => i[2] <= plans

\* What a call has put on the ledger and not yet reserved is accounted for; what a
\* call that died has put there is lost.
LedgerCovers ==
  Cardinality(reservation) + Cardinality({c \in Call : call[c].pc = "reserve"}) <= reserved

ProgramInv ==
  /\ ProgramIsAccounted
  /\ LedgerCovers
  /\ RowsInv
  /\ \A c \in Call : CallInv(c)

-----------------------------------------------------------------------------
\* "Human gate; no children": an approved plan, its children, their proofs and
\* the completion are those of an authorization gate.
Gate == INSTANCE AuthorizationGate WITH
  Subject  <- Plan,
  Effect   <- Slot,
  granted  <- {v \in Plan : <<v, "APPROVE">> \in verdicts},
  admitted <- {s \in Slot : child[s] # "NONE"},
  proved   <- {s \in Slot : child[s] = "COMPLETED"},
  finished <- {v \in Plan : v = completion}

ImplementsGate == Gate!Spec

=============================================================================
