# TLA+ verification of the orchestration runtime

The program is a TypeScript service over PostgreSQL. It takes an objective through admission,
ingestion, planning, validation, human approval, execution, verification and learning; above
that it decomposes programs into objectives, portfolios into programs, and decides on
experiments, decision problems and policies; and it governs who may do any of this. Several
processes may serve the same database; every process runs HTTP handlers, scheduler loops, an
outbox dispatcher and an expiry sweep at the same time. What must never go wrong is therefore
kept in rows (leases with fence tokens, phase fences, compare-and-set revisions, a transactional
outbox, nonces, ledgers), and the modules here model those rows and the interleavings of the
statements that read and write them.

Paths below are relative to the repository; a path without a prefix is in the TypeScript source
directory.

## 1. Inventory

### 1.1 Parts that are modelled (section 2)

| Part | State | Operations | Hard behaviour | What makes it correct |
|---|---|---|---|---|
| Lease store, `infrastructure/postgres/leases.ts` | `coordinator_leases`: owner, fence token, expiry, status | `acquire`, `assertWritable`, `release`, `isLiveHeld` | expiry by the database clock at any time; `NOW()` of a transaction is its start; re-entrant for the same owner | tokens only grow; one live owner |
| Phase coordinators, `coordinators.ts` | `coordinator_fences`: status, attempt, owner token | `begin`, `mark...`, `markFailed`, `reconcile...` of six phases | takeover while the former owner is at work; three unlocked statements to settle; retries | a superseded owner settles nothing; a terminal fence has its record |
| Phase services (`ingestion`, `planning`, `validation`, `execution`, `verification`, `memory`: `service.ts`) | contexts, plans, decisions, results, the run's state | look up, `begin`, work, persist, mark | crash between any two of these | a replay finds its record |
| Scheduler, `scheduling/` | `scheduler_work_items`, `scheduler_fairness_lock`, `scheduler_fairness_state`, pauses | discovery, reconciliation of expired claims, allocation, dispatch, settlement | several workers, takeovers, lost connections, retries | capacity, one invocation per item, nothing finished comes back, less urgent work goes first only so often |
| Approval, `authorization/` with `coordinators.ts`, `outbox.ts`, `inbox.ts` | requests, nonces, delivery secrets, bindings, records, reissue claims, outbox, inbox | `route`, `decide`, `expireDueRequests`, `recoverUnreachableApprovalDelivery`, `dispatchOnce` | duplicated and failing delivery, decisions racing with expiry and reissue | one decision authorizes a run, by a nonce that reached somebody |
| Admission, `admission/` | `idempotency_keys`, `project_locks`, `runs`, `objectives`, bindings | `admit` with `compensate` | lost answers, failed transactions, crashes between statements | one run for one key; locks and keys are given back |
| Execution and verification, `execution/`, `verification/`, `repositories/phase-stores.ts` | step rows, attempts, results, outcome, completion record, two fences | `execute`, `verify`, rollback, containment | takeover of a fence between the claim of a step and its actuation; a crash after `markRunning` | nothing is actuated twice or out of order; results tell the steps |
| Inference ledgers, `planning/inference-budget.ts`, `validation/`, `verification/`, `memory/` | usage records of model calls | `reserve`, `markDispatched`, `settle`, `release`, `markAmbiguous`, recovery at start | lost answers, late settlement, a process that starts beside others | every dispatched call is charged; the budget bounds what is reserved |
| Programs, `programs/` | program, plans, approvals, nonces, ledger, reservations, lineage, completion | `decompose`, `validate`, `routeMaterializationApproval`, `decideMaterialization`, `materializeNext`, `verify` | two calls on one program, replans while a decision is on its way, crashes between ledger, reservation and admission | a child is admitted once, granted by a human, and paid for |
| Portfolios, `portfolio/` | the same one level up, with allocators and rebalancing | `plan`, `routeAuthorization`, `decideAuthorization`, `materializePrograms`, `proposeRebalance`, `verify` | as above, and requests whose identifier repeats | as above |
| Experiments, `experiments/` | plans, usage ledger, requests, records, lineage | `design`, `validate`, `route`, `decide`, `compileExecution` | truth drifts between any two statements | no objective without a sponsor's grant and a charge |
| Scenarios, `scenarios/` | truth, sets, results, package, requests, records | `ground`, `generate`, `simulate`, `analyze`, `validatePackage`, `route`, `decide`, `materializePortfolioProposal` | the same, and second rounds of analysis | a selection rests on a complete package of the current set |
| Decision policies, `decision-policies/` | policy, requests, evaluations, shadow and activation records | validate, evaluate, approve, shadow, activate, recommend, pause | requests are upserted without a revision | what is active was watched as a shadow, evaluated and granted |
| Governance, `governance/` | grants, delegations, revocations, holds, attestations, cases, proofs | `createDelegation`, `revokeTarget`, `attest`, the phase gate | no transaction: two statements of one revocation | authority is rooted; a proof rests on a quorum; a gate sees revocations |
| Constitutional change, `constitutional/` | proposals, analyses, reviews, staged records, the governance that is hashed | create, submit, analyze, review, stage, activate; mandates revoked and activated, control enabled | direct changes beside the activation's lock; a fingerprint that comes back | no two changes are let through by one reading of the governance; each was reviewed |
| Federation, `federation/` | agreements, ratifications, participation changes, intents, acceptances, materializations | propose, ratify, activate, withdraw, `acceptWork`, `materializeWork` | withdrawal while work is materialized; activations that share no lock | an agreement is superseded once; work is accepted, under an agreement that all ratified |
| Revenue recovery, `revenue-recovery/` | case, runs, lineage, timeline, outreach attempts | detection, `prepareRecoveryObjective`, events, run replacement, objective reissue, outreach | two ways to replace a run beside planning and decisions; events that arrive during a refresh | one live run; lineage is a chain; contact limits hold |

They interact through the database only. A run's row (`state`, `recordRevision`) is written by
admission, by phase services and by approval, always with a compare-and-set on the revision
(`commitRunTransition`). The scheduler calls the phase services and the program and portfolio
operations; each phase has its own lease on a coordination key of its own, apart from the lease
on the work item. Approval hands its message to the dispatcher in the transaction that creates
the request. Programs admit objectives, portfolios admit programs, experiments admit objectives
and decision problems admit portfolios, each through the admission service of the layer below,
which is idempotent by its key. Governance is asked by a gate
before a phase is invoked. Transactions are READ COMMITTED (`durability/transaction.ts`,
`infrastructure/postgres/database.ts`), and a nested `withTransaction` joins the outer one. The
owner id of all leases is the instance id of the process (`runtime/process.ts`), which is new
after a restart (`docs/incident-response.md`).

### 1.2 Parts around them (not modelled)

| Part | Main operations | Why not |
|---|---|---|
| Ingestion content | lock of the commit, workspace, index, evidence, drift | Git and file system; the fenced frame is in PhaseFence |
| Plan compilation, validation engine | compile, order dependencies, score, classify findings | Pure computation over documents; what they decide is a choice in PhaseFence, Execution and Programs. Dependency ordering against a reference definition would be worth a run |
| Memory promotion | `reviewCandidate`, `tryAutoPromote`, `retirePrecedent`, `supersedePrecedent` | The fence of `learn` is modelled; a state machine per candidate is left for later (section 7) |
| Causal intelligence | estimation, review of claims | Mostly computation; its effect on policies is `CausalDrift` of Policies |
| Control plane | reads registries | Provisioned before the system runs; never written by it |
| Assurance, qualification, observability, control tower | collect evidence, issue certificates, derive telemetry and read models | Read what other parts write; nothing they write is read back by those |
| HTTP API | map requests and errors | Keeps no state |
| Schema migrations | DDL under an advisory lock | Run once |

The hazards of the code, each at its line and with the properties that would catch it going
wrong, are listed in `PROJECT.json`.

## 2. The modules

| Layer | Modules | Checked through | Proofs |
|---|---|---|---|
| Rows of a lease | `LeaseStore` (operators, no variable) | extended by PhaseFence and Scheduler | |
| Fenced phases | `PhaseFence`, abstract `FencingContract` | `MCPhaseFence`, as a part of `MCRun` | `PhaseProofs` |
| Scheduler | `Scheduler`, `Fairness` | `MCScheduler`, `MCDispatch`; its liveness in `MCWork` | `DispatchProofs` |
| Life of a run | `Admission`; `Approval` | `MCAdmission`; `MCApproval` | `AdmissionProofs`; `ApprovalProofs` |
| What becomes of a run | `Execution`, `Inference`, `Recovery` | `MCRun`, `MCExecution` | `PhaseProofs` (Execution), `RunProofs` |
| Programs | `Programs` | `MCPrograms`, `MCWork` | `ProgramsProofs` |
| Strategy | `Portfolios`, `Experiments`, `Scenarios` (over `DecisionRequest`), `Policies` | `MCStrategy` | `StrategyProofs` |
| Institution | `Governance`, `Constitution`, `Federation` | `MCInstitution` | `InstitutionProofs` |
| What every human gate promises | abstract `AuthorizationGate` | implemented by Programs, Portfolios, Experiments, Scenarios, Policies | in `ProgramsProofs` and `StrategyProofs` |

`MC...` modules hold what TLC needs (functions over model values, symmetry). `MCRun`,
`MCStrategy`, `MCInstitution`, `MCDispatch` and `MCWork` check several modules in one state graph:
parts whose rows do not meet have a variable `part`, chosen at the start, and a behaviour is that of
one of them; MCDispatch joins Scheduler and Fairness in this way, MCWork Programs and Scheduler. Such a run is the disjoint
union of the models and says of each what a run of its own would. MCRun extends PhaseFence and
has Execution, Inference and Recovery beside it. Nothing is claimed about
behaviours in which two parts move.

An action is what other transactions can see at once: a statement outside of a transaction, or
the COMMIT of one. What a transaction reads before it writes is an action of its own wherever no
lock protects it. What a call keeps in local variables across an `await` is a record per call,
worker or dispatcher with a field `pc`; a crash sets that record back and leaves the rows. An
error that only ends a call is that call going back to `idle`. Where a property of the form "X
only after Y" would need the past, the module keeps a history variable or a field of the call
that no guard reads (`doomed`, `reopened`, `verdicts`, `applied`), marked as history or ghost where it is declared.

### LeaseStore

`Acquired`, `CanAcquire`, `Writable`, `Released`, `LiveHeld`, `Expired` are the statements of
`PostgresLeaseStore`. The clock is a flag on the row, `expired`, which becomes true at any time
while the lease is held. Since `NOW()` is the start of a transaction, a call may find a lease
live that has expired since; `ExpiredGrant` is the token of the grant that a transaction found
expired when it started.

### PhaseFence and FencingContract

All six fenced phases of one run, with `phase` chosen at the start: ingestion, planning,
validation, execution, verification, learning. A *request* is one call of the phase service,
`home` its process. Several requests may have the same: an owner id is that of the process, and
`acquire` lets the owner of a live lease take it again (`leases.ts:73`), so that a second `begin` of
one process is granted beside the first.

| Code | Action |
|---|---|
| lookup of the phase's record at the head of the service | `Arrive` |
| `reconcileVerified`, `reconcilePlanned`: get, upsert, no lease | `ReconcileRead`, `ReconcileWrite` |
| `begin` on a terminal fence | `Replay` |
| `begin`: transaction start and read of the fence; `acquire` and `upsertFence` | `BeginRead`; `BeginGranted`, `BeginRefused` |
| `commitRunTransition` of execute and verify | `CommitRun` |
| saving the context, plan, decision, result or record | `Store` |
| the catch block | `WorkFails` |
| `mark...`: `assertWritable`, `get`, `updateFenceByOwnerToken` | `AssertWritable`, `ConfirmInProgress`, `Update` |
| the clock; a process dies | `ExpireLease`; `Crash` |

`FencingContract` has three variables (epoch, holder, verdict) and three actions (Grant, Settle,
Adopt). Its promise: a verdict is of the current epoch, and is given once per epoch unless it is
adopted. The mapping (operator `Contract`) takes the epoch from the lease's token, the holder
from its owner and the verdict from the fence.

### Scheduler and Fairness

Workers (`scheduling/loops.ts`) that run `reconcileExpiredClaimedWork`, `selectAndClaimWork`,
`dispatch` for ever. `ReconcileList`, `ReconcileCheck`, `Requeue` are the three steps of the
reconciliation; `Snapshot` and `Claim` or `ClaimNothing` are the allocation transaction under
`scheduler_fairness_lock`; `CheckReady`, `AssertFence`, `Update`, `Invoke`, `ReleaseLease` are
the dispatch, with `LoseConnection` for a statement whose connection is gone. Discovery of
items, milestones of other runs, pauses, `eligibleAt` and the clock are the environment. Which
candidate scores best is left open here (any may).

`Fairness` is that choice on its own: `Score` is `computeSchedulingScore` with the ranks of the
priority classes, ten points for a minute of age up to 400, the boost of a deadline and the deficit up to
300; a tie goes to the older. What is filtered out before (pauses, dependencies, capacity of project and
platform, capabilities, the page of 16, leases and revisions) takes away any part of the items, so the
candidates of a claim are any set of them. Items arrive in any class, with any age and deadline; a
worker asks for the work of any of the projects. One claim is one step, which is justified by
Scheduler's lock. Deficits and ages are kept capped, which changes no choice since they are only read through
their minimum with the cap, and a deficit never falls (the weight, which is at least one, is credited before a
quantum is paid).

### Approval

All approval requests of one run, with their nonces, secrets, messages, bindings, reissue claims
and the run. Callers run `route`, `decide`, `expireDueRequests` and
`recoverUnreachableApprovalDelivery`; dispatchers run `dispatchOnce` and the consumer. The
status of a request is read and written back by two statements without a lock
(`phase-stores.ts`, `updateStatus`) and so is two actions everywhere. The `now` of
`expireDueRequests` comes with the call: any set of pending requests may be due. A delivery may
throw after the message was sent.

### Admission

`admit` with its four stages outside of the transaction, the transaction, and `compensate`. Each
statement may reach the database although its caller gets an exception (`Answered`), or fail
before it (`FailStatement`); the transaction may be rolled back with the local variables
`created` and `bound` set (`RollBack`), since they are assigned inside of it.

### AuthorizationGate and the modules that implement it

`AuthorizationGate` is what a human gate promises: subjects (plans, sets, evaluations) are
granted by decisions, effects come into being only of granted subjects and each once, and the
aggregate is finished once. It has four actions (grant, effect, proof, finish) and nothing is
taken back. Programs, Portfolios, Experiments, Scenarios and Policies each define an instance
`Gate` under a refinement mapping and state `Gate!Spec` as `ImplementsGate`. Their services are
five copies of one idea with five different orders of statements, which is why one abstract
specification for all of them is worth having.

`Programs` — one program. Its operations are invoked for scheduler work items (`Discover`,
`Settle`): an item exists once per binding and its end is final.

| Code (`programs/service.ts`) | Actions |
|---|---|
| `decompose` | `StartDecompose`, `BeginDecomposition`, `ProposeInvalid`, `ProposeValid`, `SavePlan`, `AdoptPlan` |
| `validate` | `StartValidate`, `BeginValidation`, `AwaitApproval` |
| `routeMaterializationApproval` | `StartRoute`, `FindPending`, `SaveApproval`, `PutNonce` |
| `decideMaterialization` | `StartDecide`, `SaveExpired`, `CheckApprover`, `RecordDecision`, `OpenMaterialization` |
| `materializeNext` | `StartMaterialize`, `CheckApproved`, `NextNode`, `FindReservation`, `ReadLedger`, `ReserveOnLedger`, `SaveReservation`, `AdmitChild`, `SaveLineage`, `Activate` |
| `verify` | `StartVerify`, `BeginVerification`, `ReadAgain`, `Prove`, `Escalate`, `Complete` |
| a child run ends; a statement fails; a process dies | `CompleteChild`; `Fault`; `Crash` |

`Portfolios` — the same one level up, called by the scheduler and over HTTP in any order, with
allocators, `ProposeRebalance` and a verification that may fail or return. `DecisionRequest`
holds what portfolios, experiments and decision problems share: one row per subject, the nonce
that only the memory of the routing process knows, and `saveCas`. `Experiments` ends at
AWAITING_EXECUTION_AUTHORIZATION, because no operation moves an experiment to EXECUTING.
`Scenarios` counts simulations on the problem's row after the result is inserted, by two
statements (`InsertResult`, `CountRun`). In all three the truth may change at any time
(`Drift`), and each operation that compares it does so in an action of its own (`CheckTruth`).
`Policies` writes its requests without looking at their revision, so that a decision and a new
route may overwrite each other; this is why its gate is the first one that was proved.

### Execution

One run from APPROVED, with two owners of the execution fence and of the verification fence.
`Begin`, `Acquire`, `Store`, `Mark`, `MarkFailed` are the frame; the step rows go through
`Reserve`, `MarkRunning`, `Actuate`, `Complete`, `Fail`; `BeginRollback`, `Contain`, `Finish`
are the end of an execution; `EnterVerifying`, `Assess`, `Record`, `Escalate` are verification.
The history `actuations` counts how often each step was done to the world:
`ActuatedOnceInOrder` says at most once, only after all steps before it succeeded, and a rollback
only after a reversible step failed. A lease may expire and a call may fail or die between any
two of these. `ExecutionIsRecorded` says that the stored result tells what the step rows say, and
that outcome, completion record and COMPLETED come together.

### Inference

The usage ledger of one run, with `kind` (planning or validation, verification, learning)
chosen at the start. A call checks the budget, reserves (planning and validation check again
under the advisory lock), marks the dispatch, invokes the provider, and settles with the actual
use, the whole reservation or nothing. `Recover`, `ReadAmbiguous`, `MarkAmbiguous` are what a
process does that starts while others are at work. `DispatchedIsCharged` is what the ledger is
for; `Within(reopened)` is the budget, apart from the records that recovery reopened, and finding
4 is that they are not nothing.

### Recovery

One lead: its timeline, the case opened for it, and the runs the case is bound to one after
the other. `Preview`, `Prepare`, `Admit`, `Save` are `prepareRecoveryObjective`; `Append`,
`ListOpen`, `Refresh`, `Evaluate`, `SaveOutcome` are an event and the refresh of the status
with its three attempts; `ProveDefect`, `Replace` and `ProveRejection`, `Reissue` are the two
replacements, each one transaction under its own advisory lock; `StartStep`, `CheckPolicy`,
`Send`, `Persist` are an outreach step. Planning and decisions of a run are the environment. The
case's revision is abstracted to a flag per call that says whether the case was saved since the
call read it, which keeps the graph finite without a bound on revisions.

### Governance, Constitution, Federation

`Governance` has no transaction in it: `SaveDelegationRevocation` and `RevokeDelegation` are
the two statements of one revocation; `StartAttest` to `Settle` an attestation with the count of
the quorum; `StartGate` to `Pass` the phase gate, which looks at holds and mandates twice.
What one `resolveAuthority` reads is one step, since what it reads only ever becomes invalid.
`Entitled` is the reference definition of authority (a path of delegations, none revoked, from a
grant that stands) to which `Authorized`, the code's check of the chain stored with each delegation, is compared.

`Constitution` has as its fingerprint what `constitutional/fingerprint.ts:61-107` hashes: the flag of
constitutional control, and which units, projects and mandates are ACTIVE. Times, revisions, revocations and holds are not in it
(`constitutionalRevocationIds` is `[]` always, `service.ts:749`), so a hold changes nothing here, and
a fingerprint comes back when what was added is taken away again. What is never repeated is
the history `epoch`, which no guard reads except for its bound. The governance also changes without a proposal, beside the
activation's lock: `RevokeMandate` at any time; `StartMandate` and `ActivateMandate`, which look
at the control some statements before they write; `StartEnable` and `Enable`, which write back the
institution's row as it was read.

`Federation` has any participants for each version (`activate` locks those of its own agreement only), and as
its fingerprint which agreement is ACTIVE with which withdrawals, or that none is.

MCInstitution cuts the larger two of these into two kinds of behaviour each, for TLC's sake: two
proposals beside revocations, or one beside everything that changes the governance directly; three
versions of an agreement, or work under two. All are cut from one instance, about which the
proofs are.

## 3. The runs

State counts are TLC's distinct states, with symmetry where a cfg names it: calls, dispatchers,
projects, environments, contents, work items, and workers together with their processes are
interchangeable. It is used for safety; the one run with both symmetry and a liveness property,
`work`, exchanges the two calls of a program, of which the behaviours with fairness (those of the claim
loops) have nothing: every such state is alone in its orbit, so no cycle is lost or made up.

| Run | Instance | States | What it shows |
|---|---|---|---|
| `dispatch` | 2 workers in 2 processes, 2 items, room for one, 2 attempts, 2 claims per item, pauses; beside it 2 projects of weights 5 and 10, two classes, ages up to 40 minutes, items with and without a deadline, 2 waiting items | 1.6 million | capacity, exclusive claims, nothing settled or requeued that is not one's own, how often less urgent work may go first; no deadlock |
| `work` | 2 calls and 1 fault on a program of 2 nodes and 2 plans; beside it 1 dependent item, 2 workers in 2 processes, 3 claims, 3 attempts, fairness | 1.6 million | escrow, one authorization, completion on proof, the gate; a claim is given up in the end |
| `approval` | 2 callers, 2 dispatchers, 2 requests, 2 operations at a time | 3.4 million | one authorization, nonces, registration, delivery before waiting, decided runs are final |
| `admission` | 3 calls, 2 projects, 2 environments, 2 contents, 3 run ids, 2 faults | 713 thousand | one run per key, locks and keys of conflicts, immutable objectives |
| `admission_stuck` | the same | violation | `compensate` gives up half way |
| `run` | 3 requests, two of them in one process, all six phases, at most 3 grants; and, with 2 calls and 1 fault each, 2 steps and 2 compensating ones; 3 records of model calls for 4 tokens; 3 runs of a case | 2.2 million | the fencing invariants, the contract, what a replay answers with, who may be let in beside a holder, attempts that count up across processes; steps once and in order, results, charges, one live run |
| `strategy` | 2 calls on a portfolio, an experiment, a decision problem or a policy, 2 versions each | 956 thousand | spending, evidence, four gates |
| `strategy_unpackaged` | the same | violation | a second analysis can not be packaged |
| `execution_uncertain` | 2 calls, 2 steps, 1 compensating one, 2 leases per fence, 1 fault, fairness | violation | nothing contains a step that was RUNNING in a crash |
| `institution` | 2 calls; 3 principals, 2 roles, 2 delegations, 1 revocation, 1 hold; 2 proposals over a unit, a project and mandates, 3 writes of the governance; 3 versions of an agreement, the first and the last without a participant in common; 1 intent and 1 withdrawal | 2.5 million | authority, quorum, gates, serial changes, agreed work |
| `inference_oversubscribed` | 2 calls, 4 records, 1 fault | violation | a restart reopens what was settled |
| `concurrent_begin` | 3 requests, two of them in one process, ingestion | violation | two requests of one process ingest at the same time |

Two more configurations of MCInstitution end in a counterexample, and belong to what is said of them in
section 4. They are not among the runs above:
`tlc -config ConstitutionReplayed.cfg MCInstitution` (`AppliedOnce`, 21 states) and
`tlc -config FederationCompetitors.cfg MCInstitution` (`OneCompetitorSucceeds`, 17 states).

### Bounds, and why they are enough

* `MaxToken` 3: three grants let a request be superseded, its successor be superseded in turn,
  and the first still be on its way. What the invariants say of tokens is proved for any number
  (section 5).
* Scheduler: two items of one project with room for one make capacity bind; two workers are
  what every race in the code is between (the former owner and the one who takes over).
  `MaxClaims` 2 lets an item be claimed again after its first claim was lost, and `MaxAttempts`
  2 lets the same attempt be retried or be the last. The claims of `work` are of one item, because
  what sticks is one claim, and it may be claimed three times, so that the last
  claim can follow a retried and a lost one in either order.
* Fairness: all points are the code's own. Weights of 5 and 10 reach the cap of 300 after six claims and
  after three; HIGH and NORMAL are 300 apart, so age, deadline and deficit can each turn the order
  round. Time goes on by `Step` 20 minutes, since an age counts up to 40. Two waiting items are one
  that is passed over and one that goes first; as each claim lets another arrive, the number of
  arrivals has no bound. `BypassIsBounded` is proved for any classes, deadlines, steps and backlogs.
* Fences: two requests of one process and one of another are what it takes for a `begin` to be let in
  beside its own process and be displaced by the other.
* Approval: `MaxRequests` 2 is a request and its replacement, or two that were routed in a
  race; `MaxBusy` 2 limits what is under way *or was cut off by a crash*, so three-way races and
  two crashes during a third operation are outside of this run's bound (and inside of the proof's). `Limit` 1 makes a batch one
  message; a batch of several is handled one by one. `Decision` leaves out REJECTED, which
  differs from APPROVED only by its name.
* Admission: three calls allow two that conflict and a third which meets what they left behind;
  `MaxFaults` 2 is a failure and a failure of its compensation. The safety invariants are proved
  for any numbers.
* Run and work: two calls are one and its rival, or a call and its retry after a crash. Two nodes or
  steps let a call be between them; `Ceiling` 2 lets both nodes be paid for and no third thing;
  `MaxPlans` 2 and `MaxRevisions` 1 give one replan. `MaxTokens` 2 is one takeover of each fence.
  Four tokens for reservations of two, and two calls, make the third model call the one that must
  be refused; `MaxRecords` 3 lets one be made after a reservation was given back. Three
  runs are a replacement and a reissue in either order; with one message allowed
  (`MaxAttempts` 1) any second one is an error.
* Strategy: two versions let a decision on the old one meet the new one; `MaxIssues` 1 is
  one nonce per subject, and `MaxRoutes` 3 allows a policy's request to be routed again while a
  decision on it is under way. `MaxWrites` 10 is above what a portfolio's life writes to its row
  with one replan or one rebalancing; the others have one less.
* Constitution: `MaxChanges` 3 is a change, its undoing, and the change again: the shortest history in
  which a fingerprint comes back and is used.
* Institution: a chain of two delegations is the shortest with a middle to revoke; three
  principals and two requirements (K_OF_N, ROLE_SET) make a quorum that must not count one of
  them twice. Three versions let an agreement supersede one that superseded another, and the
  first and the third share no lock.

Deadlock is checked in `dispatch`. In the others the system may really stop: a bound
is used up, or everything is finished and no call waits for anything.

### Fairness assumed

Two runs state any. In `work`, for the claim loops, `WF(WorkerStep)`: a claim loop polls for ever and
its process is restarted when it dies (`BoundedWorkerLoop`; `runtime/process.ts`);
`WF(ExpireLease)`: nothing calls `heartbeat`, so a lease that is neither released nor settled
expires by the clock. Crashes and lost connections are not fair, and `ClaimsDoNotStick` has the
premise that crashes stop (`CrashesStop`). In `execution_uncertain`, every step of a call that is
under way and the start of calls are weakly fair, which is more than the code promises and makes
the counterexample stronger: although every live process goes on and the phases are asked for
again, the step stays RUNNING.

That an item is served in the end is claimed nowhere, because the score does not give it: a steady stream of
CRITICAL work (1000 points) keeps a BACKGROUND item (50, and at most 400 for its age, 150 for a
deadline and 300 for its project) waiting for ever, and no code sets the `deadlineAt` of an item. What
a weight does buy is `BypassIsBounded`, a safety property: an item that was among the candidates of a claim is
passed over by one that is *less urgent* (by class, age and deadline together) only while its project's
deficit is below the cap, and every time raises that by its weight; so for a weight `w` at most
`ceil(300 / 10w)` times, whatever arrives, is paused or is retried meanwhile.

## 4. What was found

Five places where the code does not do what its documents or comments say, each with a run
whose trace shows it and an entry under `findings` with the quotation.

1. **A rolled-back admission keeps its lock and key** (`admission/service.ts:556`;
   `docs/architecture.md:238`; `admission_stuck`). `compensate` moves a run that was rolled back
   with the transaction, throws, and releases neither.
2. **A second analysis cannot be packaged** (`scenarios/service.ts:678`;
   `docs/phase-16-scenario-intelligence.md`; `strategy_unpackaged`). The package is INSERTed
   under version 1 always, so a problem that went STALE or was sent back stays in VALIDATING.
3. **A step left RUNNING by a crash is never contained** (`execution/service.ts:318`;
   `docs/architecture.md:1046`; `execution_uncertain`). Only a call that meets the RUNNING row
   contains the run, and no later call gets that far because the run is EXECUTING.
4. **A restart oversubscribes the inference budget** (`infrastructure/postgres/recovery.ts:71`;
   `planning/model.ts:130`; `inference_oversubscribed`). Recovery reads the dispatched records
   and writes them back, also those that other processes have settled since.
5. **Concurrent begins of one process both go in** (`infrastructure/postgres/leases.ts:73`;
   `docs/architecture.md:452`; `concurrent_begin`). The lease is granted again to the same owner id,
   which is that of the process, so a phase is worked on twice at a time; and since both have read the
   attempt before, they may number theirs alike, against `docs/architecture.md:457`. What is left
   is `HolderIsDisplacedByItsOwn` (nobody else is let in, and the one displaced can no longer settle)
   and `TakeoverIncrementsAttempt` (across processes an attempt does count up).

Two more of this kind were found with the configurations named at the end of the runs:

* **A change is applied twice** (`constitutional/service.ts:538`, the upsert in
  `infrastructure/postgres/repositories/constitutional.ts:300-339`; "Idempotent activation per
  proposal identity", `docs/phase-21-constitutional-change-control.md`). A slow `stageActivation` puts STAGED over the
  ACTIVATED record. When the mandate that the proposal made is then revoked, the fingerprint is the
  proposal's base again, and `activate` carries it out once more.
* **Competing agreements both succeed** (`federation/service.ts:342-354`, `1436-1439`; "exactly one
  succeeds", `docs/phase-22-governed-federation.md:66`). Of two that were proposed while none was ACTIVE, on
  participants they do not share, both are activated, and stay ACTIVE. And with participants in common, the second
  succeeds once the first is suspended, because the fingerprint of no agreement comes back.

The models allow more that the documents do not describe; a reader who changes the code nearby
should know of it. None of it contradicts a property above, which are stated so that they hold.

* A fence that was decided may be reopened by a `begin` that read it earlier
  (`coordinators.ts:620`): `upsertFence` has no condition.
* Weights do not decide the long-run share of a project (`scheduling/fairness.ts:64`): deficits
  only grow, and count up to 300. What remains is `BypassIsBounded`.
* `updateStatus` of an approval request is a read and an unconditional write
  (`phase-stores.ts:1127`), so that a request that expires between the two ends APPROVED after it was EXPIRED;
  and a duplicate delivery may cancel a request that was registered by the first
  (`outbox-consumer.ts:130`, `outbox.ts:91`).
* A program's lineage row is an upsert: a slow call may relink a node to the same child again.
* Governance: a proof stays SATISFIED when revocations have taken its quorum; the gates see
  that, the case does not. The cycle check of a delegation reads edges before it saves its own,
  so two delegations may close a cycle; it authorizes nobody, since authority needs a root.
* Constitution: a proposal that was made before a detour of the governance activates after it. `enableConstitutionalControl`
  writes back a row it read before an activation, and so undoes the projects that this one added.
  Federation: a crash between the admission of federated work and its record leaves
  the work to a retry, which is answered with the same run.
* Recovery: an opt-out that is appended between detection's read of the timeline and its save
  is not in the case until the next event; `previewRecovery` may move an ENGAGED case back; a
  crash between an event and its refresh is not made up for by repeating the event, which is
  answered as a duplicate; a planner of a superseded run may still save its plan, on which
  nothing acts.

## 5. What is proved

For all values of the constants, with the assumptions named in the modules.

### PhaseProofs: PhaseFence

For any set of requests and processes, any number of grants and any of the six phases. The
assumptions are `PhaseFenceAssumption` (`home` maps requests to owners, `Phases` are among the
six, `MaxToken` is a number) and LeaseStore's (`NoOwner` is no owner). Requests may share a
process in any way.

| Theorem | Statement |
|---|---|
| `TypeCorrect`, `FenceInvariant` | `[]TypeOK`; `[]FenceInv`, the inductive invariant below |
| `FenceFollowsLeaseAlways`, `TokensAreExclusiveAlways` | two of its parts |
| `StaleOwnersNeverSettle` | a superseded request never changes the fence |
| `HoldersAreDisplacedByTheirOwn` | while the holder of the fence is at work under a live lease, only its own process is let in, and the fence is no longer the holder's then |
| `DoneFencesHaveRecords` | a terminal fence has its record |
| `ReplaysAreTheVerdict` | `[]ReplayIsTheVerdict`: a replay answers with the record of the attempt the fence names |
| `TakeoversCountUp` | who takes an open fence over from another process has an attempt one above that of the fence it replaces |
| `CoordinatorImplementsContract` | `Spec => Contract!Spec` |

`FenceFollowsLease` (the fence's owner token is the lease's newest one, or that of a
reconciliation) is not inductive: a request with an old token could write it back. So `FenceInv`
adds that tokens are held by one request each (`TokensAreExclusive`) and that each was issued,
the newest one to the owner of the lease (`HeldTokensWereIssued`). Of all actions only
`BeginGranted`, `ReconcileWrite` and `Update` change the fence. A grant takes a token above all
that were issued, which keeps the three parts; a reconciliation writes token 0; and `Update`
needs the fence's token to be the request's own, from which `HeldTokensWereIssued` gives that it
is the newest, hence `StaleOwnersNeverSettle`. That the three statements of `mark...` are no
transaction does not matter: it is the owner token in the UPDATE that decides.

`DoneFenceHasRecord` becomes inductive with: whoever is about to declare the phase done has seen
or written a record (`RecordInv`; records are never removed). For the refinement,
`HoldersAreUnsettled` says that a request that still owns the fence finds it IN_PROGRESS, so that
`Update` is a `Settle` of an open epoch or a stutter; the step lemma takes `BeginGranted` to
`Grant`, `ReconcileWrite` to `Adopt`, and everything else to a stutter.

`ReplayIsTheVerdict` relates a record to the grant under which it was stored, so `VerdictInv`
adds that a stored record stays and that only the request which moved the run stores one.
`TakeoverIncrementsAttempt` needs that the fence a `begin` has read is still there when it commits
(`ReadsAreCurrent`): the lease stands in the way of everybody else. Another request of the same
process may have come in between, and then the fence that is taken over is its own, which the property leaves out.

### DispatchProofs

About Scheduler, about Fairness, and about the two beside each other in MCDispatch (`DispatchTypes`):
with the theorems below that is every property of the run `dispatch`.

`SchedulerTypes`; `SchedulerInvariant`, from which `CapacityAlways`, `ClaimsAreExclusive` and
`SettlementIsOurs` follow, the three properties of the run `dispatch` that are about Scheduler.
For any workers, processes, projects and limits and any finite set of work items
(the one hypothesis, since capacity counts them).

`CapacityRespected` is not inductive, because `Claim` counts in `Snapshot` and writes later.
What makes it so is `AllocationIsCurrent`: the holder of `scheduler_fairness_lock` alone adds to
what is live, so that what it counted can only have become less. For the claims it is that reads
are old (`ReadIsOld`, `ClaimIsHeld`): no worker carries a revision ahead of the row's, and while
the row has the revision that was read, it is in the state that was read. From this the guard
`revision = read` of `Update` and `Requeue` gives that the item is the worker's own, hence
`OnlyTheClaimSettles`; and since a claim takes a new revision, two workers never carry the same
one (`ClaimsAreSingle`).

`BypassIsBoundedAlways`: `DispatchSpec => []BypassIsBounded`, for any projects, classes, deadlines, candidates and
backlog and all weights of 1 to 10 (`FairnessAssumption`, after `projectWeightClamp`). The bound alone
is not inductive; `BypassIsCounted` adds that below the cap the deficit has counted every
bypass. A claim that prefers something less urgent among the candidates finds the other's
deficit below that of the one it prefers, hence below the cap; and it credits the other's project,
since a worker that takes some projects only has candidates of no others.

### ApprovalProofs

`ApprovalInvariant`, and from it all five properties of the run `approval`: `ApprovalTypes`,
`DecisionsAreSingle`, `AcknowledgementsMeanRegistered`, `AwaitingMeansDelivered`,
`DecidedRunsAreFinal`. For any finite number of callers and dispatchers (finite, because
`MaxBusy` counts those at work), any limit of a batch and any number of requests.

`DecisionIsSingle` is not inductive: nothing in it says that a call between `consume` and COMMIT
still has the nonce, or that the revision it has of the run is that of a run which waits.
`ApprovalInv` says for every place in a call and in a dispatcher what it has seen
(`CallInv`, `DispatcherInv`) and for every request how its rows agree (`RequestInv`). What they
have seen is of a kind that others leave alone, which is `Keeps`: a request that exists goes on
to exist, one that is no longer PENDING never is again, a nonce that is used up stays so, a
secret that was delivered stays so, what is settled stays settled, and the run keeps its row or
gets a higher revision. One lemma shows that every such step preserves what all *other* calls
and dispatchers have seen (`CallKeeps`, `DispatcherKeeps`), so each action has only its own call
and its own rows to show. The rows of the outbox are the delicate part: a message may be
forgotten once its request is `Settled`, that is, not pending or bound, and `processed` must mean
the same, since a redelivery trusts it.

The two action properties follow from `RunMoves`: a sweep or a decision moves the run from
AWAITING_APPROVAL, a dispatcher to it, with the revision each of them has read, and no other step
moves it.

### PhaseProofs: Execution

`ExecutionInvariant`, and from it `StepsActOnceInOrder` (`[]ActuatedOnceInOrder`) and
`ExecutionsAreRecorded` (`[]ExecutionIsRecorded`), under the run's own specification `RunSpec`. For
any calls, any plan and rollback, any number of grants and faults; the leases are left to change
hands as they like. The assumption is MCRun's `RunAssumption`: a plan has a step
(`planning/proposal.ts`), and a rollback that is authorized has one too
(`extractAuthorizedRollback` answers null when it compensates nothing). Without the latter a
failed step could enter a rollback of no steps. `RunsKeepThePhases` (`RunSpec => Spec`) carries the
theorems on PhaseFence over to `RunSpec`.

Neither lease nor fence makes the steps act once, for a call that has lost both goes on in the
loop. It is the compare-and-set of the run from APPROVED to EXECUTING: it happens once, so one
call is in the loop, and never again when that one has left it (`EntryInv`). For the call in the
loop `Position` says, of the step it is at, that all before it have SUCCEEDED and all behind it
are untouched; a step is reserved when it is untouched, hence `actuations` is 0 before it is
actuated, and nothing behind a failure is ever reached. That only this call writes steps is what
`OthersKeep` needs: whatever a call does, what the others know stays true. Results appear after the
loop is over (`ResultInv`), each is that of an attempt and tells what the steps were
then, and since nobody writes steps any more, are still. A terminal fence comes from the call that
has just stored its result (`FencesInv`), and that is the only one that was in the loop. The
completion has the same guard, a run that is VERIFYING, as its compare-and-set, and the attempt that is
verified had ended before (`VerifyInv`, `CompletionInv`).

### RunProofs

With PhaseProofs it states all that the run `run` checks: `InferencesAreAccounted`
(`[]InferenceIsAccounted`), `RecoveryGoverned` (`[]RecoveryIsGoverned`) and `RunTypes` (`[]TypesOK`, of
all four parts), each of `RunSpec`, for any callers, budgets, reservations, runs, messages and faults.

* Inference. A record belongs to the call that reserved it (`Apart`, `OwnerInv`), so a call that has no
  answer yet finds it open and unused, and one that has charges what was used. The marking of
  a process that starts writes back what it has read, hence may undo a settlement in between:
  `MarkerInv` says that this loses no charge (a record it read as RELEASED was never asked for, one it
  read as SETTLED covers what was used), and that a record which is not in `reopened` still is
  what was read. The budget is then a count of pairs of a record and a token of its reservation:
  `Reserved`, the pairs of records that are not reopened, is all that `canReserve` has let
  in, and no later step adds to it. What the run costs is at most that, the reservations
  of `reopened` and what exceeds the reservations, which is `Within`. To count in this way,
  `CostOf` is the cardinality of such a set of pairs and not a sum over the records, of which nothing
  could be proved without induction.
* Recovery. The case is a row with a version, saved by compare-and-set; runs are made one after the
  other. `CaseCall` says that what a call has read of the case is the case while nobody has
  saved it since (`current`), `RunInv` and `BindingInv` that the case is bound to the latest run, and
  `EdgeInv` that what the lineage records lies behind that. So a replacement adds one edge, from the
  latest run to the new one, and only one of two that have read the same case does. For the
  messages, one call at a time acts for a run of the case, and its run goes on EXECUTING under it
  (`OutreachCall`, `Alone`); `SentInv` counts the message that was sent and not yet recorded, which is
  lost with a crash and halts the run.

### ProgramsProofs

`ProgramInvariant`, and from it all three properties of the run `work` that are about Programs: `ProgramTypes`,
`ProgramAccounts` (`[]ProgramIsAccounted`) and `ProgramImplementsGate` (`Spec => Gate!Spec`).
For any finite set of calls (`LedgerCovers` counts those about to reserve) and all bounds.

`ProgramIsAccounted` says that reservations do not exceed the ledger. This becomes inductive by
counting, beside the reservations, the calls that have raised the ledger and not yet reserved
(`LedgerCovers`); a call that dies in between leaves the ledger too high and never too low. The
rest of `ProgramInv` is that a call with the program's own revision has its row (`OldRow`), that
what it has seen approved was decided (`CallInv`), and that plans, approvals and work items refer
to versions that exist (`RowsInv`). For the refinement, `RecordDecision` with APPROVE maps to a
grant, `AdmitChild` to an effect, `CompleteChild` to a proof and `Complete` to the finish; the
invariant gives each of them its guard, although each call checks it in an earlier step.

### AdmissionProofs

`AdmissionTypes` (`TypeOK`), `KeysNameTheirRunsAlways`, `LockIsHeldAlways`,
`ObjectiveIsImmutable` and `ConflictsCleanUpAlways`, for any calls, objectives, projects and
numbers of failures. All rest on one inductive invariant (`AdmissionAgrees`): a key that is
reserved or bound, the run it names, the lock that run holds, and what the local variables of
each call claim agree with each other. `LockIsHeldThroughout` alone is not inductive, since it
does not say that two calls never carry the same run id; `KeysNameTheirRuns` alone is not,
because it does not say that a call that is about to bind a key has reserved it for its run. The
transaction's local variables may claim more than the database has (`RollBack`), and the
invariant says of which of them that is so.

### StrategyProofs

`StrategyInvariant`, and from it all that the run `strategy` checks: `StrategyTypes` (`[]TypeOK`),
`SpendingAccounted` (`[]SpendingIsAccounted`), `ChoicesRest` (`[]ChoicesRestOnEvidence`) and
`StrategyImplementsGate` (`Spec => ImplementsGate`, a gate for each part). The assumption is
MCStrategy's `StrategyAssumption`: the bounds are numbers, a portfolio has at least two writes of its
row, and the calls are finitely many, since those about to reserve or to count are counted.

Each part has an invariant of its own. `StrategySteps` says that a step is one of the part that is
there and leaves the tables of the others alone, which stay empty and keep their gates by that.

* Portfolio (`PortfolioInv`): `LedgerCoversEscrow` is the argument of Programs; the ledger covers the
  reservations and the calls that have raised it and not yet reserved. A call that admits holds the
  reservation of its program, and one that completes has seen every program of the plan proved.
* Experiment (`ExperimentInv`): `CompilationIsAccounted` becomes inductive with what a call carries
  between the reservation, the admission, the lineage and the charge (`ExperimentEffect`). No
  transaction encloses these four, so each of them must be true of a call that began over.
* Decision problem (`ProblemInv`): what a call has read of the problem is its row while the
  revision is the same, and what it has read of sets, analysis and selection is bounded by it
  (`ProblemRead`, `ProblemAnalysis`, `ProblemSelection`). There is one package, of the set
  that was current when it was inserted, the problem's set is the latest or the one before it, and there are as
  many results as there are runs and calls about to count theirs, or more (`RunsAreCounted`); hence a
  selection rests on a package of the current set although neither is locked.
* Policy (`PolicyTypeInv`, `PolicyRestInv`): requests are overwritten freely, so nothing can be said
  of the request that is there; what the invariant says is that whatever a call once read of a
  request stays true of the immutable evaluation it binds.

For the gates, the settling of an approval maps to a grant, an admission (a compilation, a proposal, a
recommendation) to an effect, the end of an admitted program to its proof and the completion of a
portfolio to the finish. The invariant gives each its guard, although each call checks it in an
earlier step than the one in which it acts.

### InstitutionProofs

`InstitutionIsSound`, and from it all six properties of the run `institution`:
`InstitutionTypes`, `AuthorityRoots`, `ProofQuorum`, `GateRevocations`, `SerialChanges`,
`AgreedWork`. For any calls, roles, proposals, agreements and intents, and any finite set of
principals (a quorum counts them). The assumptions stand in MCInstitution, and are what the columns
allow; which institutions take part in an agreement is left open.

Each of the three layers has its invariant. None of them has a transaction around what it reads and
writes (the activations apart), so the main part of each says what a call that has read something may rely
on (`GovernanceCall`, `DoomedCall`; `ChangeCall`; `ActivationCall`, `WorkCall`).

* Governance: the chain that is stored with a delegation *leads* from a root to the
  delegate (`DelegationsLead`), a chain in an attestation likewise (`AttestationsRest`). Every step
  keeps the table (`Kept`: rows are added and revoked, nothing else of them changes), and from this a chain
  that was read goes on to lead where it led; whether it still stands is another matter, and what
  `AuthorityIsRooted` says is that it is asked again. For the gate, `doomed` says
  that the proof was void when the gate was asked; `DoomedCall` says for each of the gate's
  reads which evidence of that the next ones still find: the proof's own revocation, or
  approvals that stand and are no quorum (`Seated` only grows with its set, and what stands
  only shrinks).
* Constitution: what is AUTHORIZED or later was analyzed and has its reviews (`Deserves`). That a fingerprint
  was compared in an epoch in which no other applied change has been compared does not follow from the
  fingerprint, which comes back: it follows from the lock, under which it is compared and the
  change is carried out, and from each change being a new epoch (`ChangeCall`, last part). Direct changes only add
  epochs, so they cannot break it.
* Federation: two activations between their locks and their COMMITs have no participant in common (`Exclusive`).
  Where every two agreements have one (`Overlap`) an activation therefore knows all that is ACTIVE
  and supersedes it, and one remains; where they have none it is still the compare-and-set to SUPERSEDED
  that only one of two wins. A base is superseded once something proposed on it was
  activated (`AgreementInv`), hence nothing else on that base is. Work that is `admitted` was accepted, under
  an agreement that was activated (`IntentInv`), by a call that no withdrawal preceded (`DecisionCall`).

### Model-checked only

Every invariant and every action property of the passing runs, and every refinement they check, is
stated by a theorem. What stays with TLC is liveness under fairness and ENABLED, beyond the prover's
reach (`ClaimsDoNotStick`), and what recursive definitions compute, which would need induction over
data; no module declares a RECURSIVE operator. The properties of the runs that expect a violation are
false and have no theorem.

## 6. What is left out, and why

* `heartbeat`, `markReleased`, `markCompleted`, `markPermanentFailure`, `LocalOutboxDispatcher`
  and `reissueApprovalRequest`: nothing outside of the tests calls them.
* The retries of `withTransaction` (three, for serialization failures and deadlocks) repeat
  the function and add no outcome to those of one attempt.
* Checks that only read (authority, control-plane eligibility, binding of plan and repository,
  readiness, freezes) are a choice between passing and failing where their failure changes what
  follows, and otherwise the end of the call.
* What the phases, models and simulations compute: a choice of the outcome.
* In PhaseFence a run is OPEN, CLOSED or contained; Execution and Approval have the states they
  use. The whole transition graph is in no module.
* In Admission all requests name one objective and version. That an admission which lost its
  connection at `bound = true` leaves its key RESERVED, and one that lost the answer of `acquire`
  its lock, is in the model and in no property: the documents do not say what should happen then.
* Fairness: how the candidates of a claim come to be (any part of what waits may be); the clock finer
  than a step. The limit of 16 items per project in Scheduler; pause, cancellation and `reconcile` (reads) of programs and
  portfolios; dependencies between the nodes of a program.
* Execution: preconditions of single steps and the resource budget (they only throw),
  artifacts, events. Inference: durations and money, for which tokens and calls stand.
* Recovery: leads, templates, pilot configuration, provider callbacks and attribution. One
  channel stands for three, an answer and an opt-out for all kinds of events. A reissue that
  adopts a duplicate run which no case is bound to is left out: the admissions of the model
  never make one.
* Governance: how mandates, units and scopes are made and edited, time windows, ANY_ONE and
  ALL_OF quorums. Constitution: the grants of constitutional roles, which are
  hashed too and written only when the system is provisioned; a mutation plan beyond which units, projects and mandates it adds, ends or makes. Federation: evidence envelopes, scopes
  of an agreement, rotation of participants.
* The behaviours of two parts at once: a portfolio takes the admission of a program for granted,
  a program that of an objective. What they rely on is that admission is idempotent, which
  `KeysNameTheirRuns` says of objectives.

## 7. Plan

In the order of what the system depends on most.

1. **Run life cycle**: the transition graph of `domain/run/run-state.ts` with all writers
   (admission, phases, approval, expiry, containment) over one compare-and-set row; PhaseFence,
   Approval and Execution then refine their part of it.
2. **Proofs** of the refinements of item 1.
3. **Run replacement** composed with Admission over the same keys and lock.
4. **Memory**: candidates, review, promotion, retirement as one more gate.
5. **Scheduler**: dependency deadlocks, several projects, the limit of a page of candidates,
   workers that share a process.
6. **Causal intelligence and assurance**, where they keep state; dependency ordering against a
   reference definition.
