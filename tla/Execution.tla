----------------------------- MODULE Execution -----------------------------
(***************************************************************************)
(* The execution of one approved run and the verification of its outcome.  *)
(*                                                                         *)
(*   execute:  readiness -> begin the fence -> preflight -> save an        *)
(*             attempt -> APPROVED to EXECUTING -> per step: reserve,      *)
(*             mark RUNNING, actuate, complete or fail; after a failure    *)
(*             the authorized rollback, or CONTAINED -> save the attempt   *)
(*             -> store the result -> settle the fence                     *)
(*   verify:   readiness -> begin the fence -> EXECUTING to VERIFYING ->   *)
(*             assess -> record the outcome, for a success with the        *)
(*             completion record and COMPLETED in one transaction, else    *)
(*             before ESCALATED -> store the result -> settle the fence    *)
(*                                                                         *)
(* Steps are totally ordered, and after the first failure all others are   *)
(* skipped; that a dependency did not succeed adds nothing to this, unless *)
(* it is a compensating step, which plans do not depend on.  The authority *)
(* snapshot is saved right before its attempt and is one with it here.     *)
(***************************************************************************)
EXTENDS Integers, Sequences

CONSTANTS Call,          \* concurrent calls, each in a process of its own
          NoCall,        \* the owner of a lease whose process is gone
          Steps,         \* the plan's steps, 1 .. Steps, in execution order
          Compensating,  \* how many compensating steps a rollback has
          Reversible,    \* the steps whose strategy is COMPENSATING_ACTION
          MaxTokens,     \* bound: leases granted, for each of the two fences
          MaxFaults      \* bound: database errors, failed checks and crashes

VARIABLES
  run,        \* runs.state; from APPROVED on no operation returns to a state
  lease,      \* coordinator_leases, by phase
  fence,      \* coordinator_fences, by phase
  attempts,   \* execution_attempts, in the order of their creation
  step,       \* step_executions, by idempotency key
  result,     \* execution_results
  outcomes,   \* outcome_verifications: the outcomes, in the order of their creation
  completed, \* the attempt of the CompletionRecord, 0 for none
  verdict,    \* verification_results
  memory,     \* what each process keeps: its caches and its count of rollbacks
  call,       \* where each call is
  actuations, \* history: how often each step was actuated
  faults      \* faults so far

runVars    == <<run, attempts, result>>
fenceVars  == <<lease, fence>>
stepVars   == <<step, actuations>>
proofVars  == <<outcomes, completed, verdict>>
vars == <<runVars, fenceVars, stepVars, proofVars, memory, call, faults>>

L == INSTANCE LeaseStore WITH Owner <- Call, NoOwner <- NoCall

Phase   == {"execution", "verification"}
Ordinary == 1 .. Steps
Rollback == Steps + 1 .. Steps + Compensating   \* by rollbackIdempotencyKey
Token   == 0 .. MaxTokens                       \* of an attempt: its lease

RunState == {"APPROVED", "EXECUTING", "CONTAINED", "VERIFYING", "COMPLETED", "ESCALATED"}

\* EXECUTION_FAILED and EXECUTION_PARTIAL settle alike; PARTIAL is both.
Status  == {"SUCCEEDED", "PARTIAL", "CONTAINED"}
Outcome == {"VERIFIED_SUCCESS", "OTHER", "CONTAINED"}
Closed  == {"COMPLETED", "CONTAINED", "DECIDED"}    \* begin starts no more

Fence    == [status: {"ABSENT", "IN_PROGRESS", "FAILED"} \cup Closed, token: Token]
Attempt  == [token: Token, status: {"IN_PROGRESS"} \cup Status]
Result   == [token: Token, status: {"NONE"} \cup Status]
NoResult == [token |-> 0, status |-> "NONE"]

PC == {"idle", "begin", "acquire", "preflight", "attempt", "start", "ledger",
       "reserve", "running", "actuate", "complete", "settle", "fail", "rollback",
       "contain", "finish", "store", "mark", "failing",
       "verifying", "assess", "record", "escalate", "decide"}

CallState == [pc: PC, phase: Phase, grant: Token, token: Token,
              key: 0 .. Steps + Compensating, failed: 0 .. Steps,
              contained: BOOLEAN, run: RunState, verified: Token,
              outcome: Outcome \cup {"NONE"}]
Idle == [pc |-> "idle", phase |-> "execution", grant |-> 0, token |-> 0, key |-> 0,
         failed |-> 0, contained |-> FALSE, run |-> "APPROVED", verified |-> 0,
         outcome |-> "NONE"]

Memory == [result: Result, rollbacks: 0 .. 1, verified: BOOLEAN]
Blank  == [result |-> NoResult, rollbacks |-> 0, verified |-> FALSE]

\* A process may have used up its one rollback for another run already.
Init ==
  /\ run = "APPROVED"
  /\ lease = [p \in Phase |-> L!NoLease]
  /\ fence = [p \in Phase |-> [status |-> "ABSENT", token |-> 0]]
  /\ attempts = <<>>
  /\ step = [k \in Ordinary \cup Rollback |-> "ABSENT"]
  /\ result = NoResult
  /\ outcomes = <<>>
  /\ completed = 0
  /\ verdict = "NONE"
  /\ memory \in [Call -> {Blank, [Blank EXCEPT !.rollbacks = 1]}]
  /\ call = [c \in Call |-> Idle]
  /\ actuations = [k \in Ordinary \cup Rollback |-> 0]
  /\ faults = 0

At(c, pc)   == call[c].pc = pc
InLoop(c)   == call[c].pc \in {"ledger", "reserve", "running", "actuate", "complete",
                                "settle", "fail", "rollback", "contain", "finish"}
Goto(c, pc) == call' = [call EXCEPT ![c].pc = pc]
Leave(c)    == call' = [call EXCEPT ![c] = Idle]

-----------------------------------------------------------------------------
(* The fence of a phase                                                     *)

\* begin, a transaction that starts here: a closed fence answers with the
\* stored result; else what NOW() says of the lease is what it will act on.
Begin(c) ==
  LET p == call[c].phase IN
  /\ At(c, "begin")
  /\ IF fence[p].status \in Closed
     THEN Leave(c)
     ELSE call' = [call EXCEPT ![c].pc = "acquire", ![c].grant = L!ExpiredGrant(lease[p])]
  /\ UNCHANGED <<runVars, fenceVars, stepVars, proofVars, memory, faults>>

\* ... acquire and, in the same transaction, the fence; IN_PROGRESS otherwise.
Acquire(c) ==
  LET p == call[c].phase IN
  /\ At(c, "acquire")
  /\ \/ /\ L!CanAcquire(lease[p], c, call[c].grant)
        /\ lease[p].token < MaxTokens
        /\ lease' = [lease EXCEPT ![p] = L!Acquired(@, c)]
        /\ fence' = [fence EXCEPT ![p] = [status |-> "IN_PROGRESS", token |-> lease'[p].token]]
        /\ call' = [call EXCEPT ![c].token = lease'[p].token,
                                ![c].pc = IF p = "execution" THEN "preflight" ELSE "verifying"]
     \/ /\ ~L!CanAcquire(lease[p], c, call[c].grant)
        /\ Leave(c)
        /\ UNCHANGED fenceVars
  /\ UNCHANGED <<runVars, stepVars, proofVars, memory, faults>>

\* assertWritable, and the update by owner token of a fence in progress.
MaySettle(c) ==
  LET p == call[c].phase IN
  /\ L!Writable(lease[p], c, call[c].token)
  /\ fence[p] = [status |-> "IN_PROGRESS", token |-> call[c].token]

\* The status of the ExecutionResult, of what happened to the steps.
Concluded(c) ==
  CASE call[c].contained -> "CONTAINED"
    [] ~call[c].contained /\ call[c].failed = 0 -> "SUCCEEDED"
    [] OTHER               -> "PARTIAL"

\* Mutant: the code of the failure ends up in the status.
Settled_Code(c) ==
  IF call[c].phase = "verification" THEN "DECIDED"
  ELSE CASE Concluded(c) = "SUCCEEDED" -> "COMPLETED"
         [] Concluded(c) = "CONTAINED" -> "EXECUTION_CONTAINED"
         [] OTHER -> "FAILED"

\* What a call makes of its fence in the end.
Settled(c) ==
  IF call[c].phase = "verification" THEN "DECIDED"
  ELSE CASE Concluded(c) = "SUCCEEDED" -> "COMPLETED"
         [] Concluded(c) = "CONTAINED" -> "CONTAINED"
         [] OTHER -> "FAILED"

\* markCompleted, markContained, markFailed or markDecided.
Mark(c) ==
  /\ At(c, "mark")
  /\ IF MaySettle(c)
     THEN /\ fence' = [fence EXCEPT ![call[c].phase].status = Settled(c)]
          /\ memory' = IF call[c].phase = "execution" THEN memory
                       ELSE [memory EXCEPT ![c].verified = TRUE]
          /\ Leave(c)
     ELSE Goto(c, "failing") /\ UNCHANGED <<fence, memory>>
  /\ UNCHANGED <<runVars, lease, stepVars, proofVars, faults>>

\* The catch block: markFailed, which may throw as well, and the error.
MarkFailed(c) ==
  /\ At(c, "failing")
  /\ fence' = IF MaySettle(c)
              THEN [fence EXCEPT ![call[c].phase].status = "FAILED"] ELSE fence
  /\ Leave(c)
  /\ UNCHANGED <<runVars, lease, stepVars, proofVars, memory, faults>>

-----------------------------------------------------------------------------
(* execute: up to the first step                                            *)

\* requireReady.
Execute(c) ==
  /\ At(c, "idle")
  /\ run = "APPROVED"
  /\ call' = [call EXCEPT ![c] = [Idle EXCEPT !.pc = "begin"]]
  /\ UNCHANGED <<runVars, fenceVars, stepVars, proofVars, memory, faults>>

\* A terminal fence answers with the stored result, which the process keeps.
Replay(c) ==
  /\ At(c, "idle")
  /\ run \in {"EXECUTING", "CONTAINED"}
  /\ fence["execution"].status \in {"COMPLETED", "FAILED", "CONTAINED"}
  /\ result # NoResult
  /\ memory' = [memory EXCEPT ![c].result = result]
  /\ UNCHANGED <<runVars, fenceVars, stepVars, proofVars, call, faults>>

\* assertFresh and the compilation; their other failures are faults.
Preflight(c) ==
  /\ At(c, "preflight")
  /\ Goto(c, IF run \in {"APPROVED", "EXECUTING"} THEN "attempt" ELSE "failing")
  /\ UNCHANGED <<runVars, fenceVars, stepVars, proofVars, memory, faults>>

SaveAttempt(c) ==
  /\ At(c, "attempt")
  /\ attempts' = Append(attempts, [token |-> call[c].token, status |-> "IN_PROGRESS"])
  /\ Goto(c, "start")
  /\ UNCHANGED <<run, result, fenceVars, stepVars, proofVars, memory, faults>>

\* Mutant: a run that is EXECUTING already may be entered again.
Start_Reentrant(c) ==
  /\ At(c, "start")
  /\ IF run \in {"APPROVED", "EXECUTING"} THEN run' = "EXECUTING" /\ Goto(c, "ledger")
     ELSE UNCHANGED run /\ Goto(c, "failing")
  /\ UNCHANGED <<attempts, result, fenceVars, stepVars, proofVars, memory, faults>>

\* assertTransition and the compare-and-set of the run.
Start(c) ==
  /\ At(c, "start")
  /\ IF run = "APPROVED" THEN run' = "EXECUTING" /\ Goto(c, "ledger")
     ELSE UNCHANGED run /\ Goto(c, "failing")
  /\ UNCHANGED <<attempts, result, fenceVars, stepVars, proofVars, memory, faults>>

CreateLedger(c) ==
  /\ At(c, "ledger")
  /\ call' = [call EXCEPT ![c].pc = "reserve", ![c].key = 1]
  /\ UNCHANGED <<runVars, fenceVars, stepVars, proofVars, memory, faults>>

-----------------------------------------------------------------------------
(* The pipeline of a step, ordinary or compensating                         *)

\* Where an error of the pipeline is caught: by the loop, or by the rollback.
Caught(c) == IF call[c].key \in Rollback THEN "contain" ELSE "fail"

\* reserve: INSERT, or what the row that is there allows.  No actuator can
\* prove a RUNNING step (provenByIdempotencyKey stays empty).
Reserve(c) ==
  LET k == call[c].key IN
  /\ At(c, "reserve")
  /\ step' = [step EXCEPT ![k] = IF @ = "ABSENT" THEN "RESERVED" ELSE @]
  /\ Goto(c, CASE step[k] \in {"ABSENT", "RESERVED"} -> "running"
               [] step[k] = "SUCCEEDED" -> "settle"
               [] step[k] = "RUNNING" -> "contain"
               [] OTHER -> Caught(c))
  /\ UNCHANGED <<runVars, fenceVars, proofVars, memory, actuations, faults>>

\* markRunning, before the actuator: RUNNING already is an answer like any.
MarkRunning(c) ==
  LET k == call[c].key IN
  /\ At(c, "running")
  /\ step' = [step EXCEPT ![k] = IF @ = "RESERVED" THEN "RUNNING" ELSE @]
  /\ Goto(c, IF step'[k] = "RUNNING" THEN "actuate" ELSE Caught(c))
  /\ UNCHANGED <<runVars, fenceVars, proofVars, memory, actuations, faults>>

\* The side effect.  When the actuator reports an error it may have happened.
Actuate(c) ==
  LET k == call[c].key IN
  /\ At(c, "actuate")
  /\ actuations' = [actuations EXCEPT ![k] = @ + 1]
  /\ \/ Goto(c, "complete")
     \/ Goto(c, Caught(c))
  /\ UNCHANGED <<runVars, fenceVars, proofVars, memory, step, faults>>

\* complete: a read and an update (ActuatedOnce: no other call is in the loop).
Complete(c) ==
  LET k == call[c].key IN
  /\ At(c, "complete")
  /\ step' = [step EXCEPT ![k] = IF @ = "RUNNING" THEN "SUCCEEDED" ELSE @]
  /\ Goto(c, IF step[k] = "RUNNING" THEN "settle" ELSE Caught(c))
  /\ UNCHANGED <<runVars, fenceVars, proofVars, memory, actuations, faults>>

\* Mutant: after the rollback the loop resumes behind the step that failed.
Following_Resumes(c) ==
  LET k == call[c].key IN
  IF k \notin {Steps, Steps + Compensating} THEN k + 1
  ELSE IF k = Steps + Compensating /\ call[c].failed < Steps THEN call[c].failed + 1 ELSE 0

\* The next step, of the plan or of the rollback; what is left is skipped.
Following(c) ==
  LET k == call[c].key IN IF k \in {Steps, Steps + Compensating} THEN 0 ELSE k + 1

\* settleReservedDuration and recordStep; the step's result is pushed.
Settle(c) ==
  /\ At(c, "settle")
  /\ call' = IF Following(c) = 0 THEN [call EXCEPT ![c].pc = "finish"]
             ELSE [call EXCEPT ![c].pc = "reserve", ![c].key = Following(c)]
  /\ UNCHANGED <<runVars, fenceVars, stepVars, proofVars, memory, faults>>

-----------------------------------------------------------------------------
(* Failure, rollback, containment                                           *)

\* fail: it throws out of the loop when the step has come to an end already.
Fail(c) ==
  LET k == call[c].key IN
  /\ At(c, "fail")
  /\ IF step[k] \in {"ABSENT", "RESERVED", "RUNNING"}
     THEN /\ step' = [step EXCEPT ![k] = "FAILED"]
          /\ call' = [call EXCEPT ![c].pc = "rollback", ![c].failed = k]
     ELSE Goto(c, "failing") /\ UNCHANGED step
  /\ UNCHANGED <<runVars, fenceVars, proofVars, memory, actuations, faults>>

\* Mutant: without an authorized rollback the failure is left as it is.
BeginRollback_NoContainment(c) ==
  LET may == call[c].failed \in Reversible /\ memory[c].rollbacks = 0 IN
  /\ At(c, "rollback")
  /\ IF may THEN /\ memory' = [memory EXCEPT ![c].rollbacks = 1]
                 /\ call' = [call EXCEPT ![c].pc = "reserve", ![c].key = Steps + 1]
     ELSE Goto(c, "finish") /\ UNCHANGED memory
  /\ UNCHANGED <<runVars, fenceVars, stepVars, proofVars, faults>>

\* executeAuthorizedRollback: one per process, whichever run it was for.
BeginRollback(c) ==
  LET may == call[c].failed \in Reversible /\ memory[c].rollbacks = 0 IN
  /\ At(c, "rollback")
  /\ IF may THEN /\ memory' = [memory EXCEPT ![c].rollbacks = 1]
                 /\ call' = [call EXCEPT ![c].pc = "reserve", ![c].key = Steps + 1]
     ELSE Goto(c, "contain") /\ UNCHANGED memory
  /\ UNCHANGED <<runVars, fenceVars, stepVars, proofVars, faults>>

\* transitionToContained; it throws out of the loop for a run that has moved on.
Contain(c) ==
  /\ At(c, "contain")
  /\ IF run \in {"EXECUTING", "CONTAINED"}
     THEN /\ run' = "CONTAINED"
          /\ call' = [call EXCEPT ![c].pc = "finish", ![c].contained = TRUE]
     ELSE UNCHANGED run /\ Goto(c, "failing")
  /\ UNCHANGED <<attempts, result, fenceVars, stepVars, proofVars, memory, faults>>

\* attempts.save, and the process's own copy of the result, before it is stored.
Finish(c) ==
  LET last == [token |-> call[c].token, status |-> Concluded(c)] IN
  /\ At(c, "finish")
  /\ attempts' = [i \in DOMAIN attempts |->
                    IF attempts[i].token = last.token THEN last ELSE attempts[i]]
  /\ memory' = [memory EXCEPT ![c].result = last]
  /\ Goto(c, "store")
  /\ UNCHANGED <<run, result, fenceVars, stepVars, proofVars, faults>>

\* storeResult of either phase: an upsert that asks for no lease.
Store(c) ==
  /\ At(c, "store")
  /\ IF call[c].phase = "execution"
     THEN result' = memory[c].result /\ UNCHANGED verdict
     ELSE verdict' = call[c].outcome /\ UNCHANGED result
  /\ Goto(c, "mark")
  /\ UNCHANGED <<run, attempts, fenceVars, stepVars, outcomes, completed, memory, faults>>

-----------------------------------------------------------------------------
(* verify                                                                   *)

\* getLatestResult: the process's own copy first.
ResultFor(c) == IF memory[c].result # NoResult THEN memory[c].result ELSE result

\* assess: a result, of the latest attempt, a terminal fence, no open step.
Verifiable(c) ==
  /\ run \in {"EXECUTING", "VERIFYING", "CONTAINED"}
  /\ ResultFor(c) # NoResult
  /\ attempts[Len(attempts)].token = ResultFor(c).token
  /\ fence["execution"].status \in {"COMPLETED", "CONTAINED", "FAILED"}
  /\ \A k \in DOMAIN step : step[k] \notin {"RESERVED", "RUNNING"}

\* A process that has decided answers from its cache, and so does any, from
\* the store, once the run is CONTAINED.
Verify(c) ==
  LET r == ResultFor(c) IN
  /\ At(c, "idle")
  /\ ~memory[c].verified
  /\ run = "CONTAINED" => verdict = "NONE"
  /\ Verifiable(c)
  /\ memory' = [memory EXCEPT ![c].result = r]
  /\ call' = [call EXCEPT ![c] =
       [Idle EXCEPT !.pc = "begin", !.phase = "verification", !.run = run,
                    !.verified = r.token,
                    !.contained = (run = "CONTAINED" \/ r.status = "CONTAINED")]]
  /\ UNCHANGED <<runVars, fenceVars, stepVars, proofVars, faults>>

\* EXECUTING -> VERIFYING, by the run as it was read on entry.
EnterVerifying(c) ==
  LET enters == ~call[c].contained /\ call[c].run = "EXECUTING" IN
  /\ At(c, "verifying")
  /\ run' = IF enters /\ run = "EXECUTING" THEN "VERIFYING" ELSE run
  /\ Goto(c, IF enters /\ run # "EXECUTING" THEN "failing" ELSE "assess")
  /\ UNCHANGED <<attempts, result, fenceVars, stepVars, proofVars, memory, faults>>

\* The evidence and the decision, which is a choice here, then the run again.
Assess(c) ==
  /\ At(c, "assess")
  /\ \E o \in IF call[c].contained THEN {"CONTAINED"} ELSE {"VERIFIED_SUCCESS", "OTHER"} :
       call' = [call EXCEPT ![c].pc = "record", ![c].outcome = o, ![c].run = run]
  /\ UNCHANGED <<runVars, fenceVars, stepVars, proofVars, memory, faults>>

\* A success: the outcome, the completion record (one per run) and COMPLETED
\* in one transaction.  Anything else is appended on its own.
Record(c) ==
  LET completes == completed = 0 /\ call[c].run = "VERIFYING" /\ run = "VERIFYING" IN
  /\ At(c, "record")
  /\ IF call[c].outcome = "VERIFIED_SUCCESS"
     THEN IF completes
          THEN /\ outcomes' = Append(outcomes, "VERIFIED_SUCCESS")
               /\ completed' = call[c].verified
               /\ run' = "COMPLETED"
               /\ Goto(c, "store")
          ELSE Goto(c, "failing") /\ UNCHANGED <<outcomes, completed, run>>
     ELSE /\ outcomes' = Append(outcomes, call[c].outcome)
          /\ Goto(c, IF call[c].contained THEN "store" ELSE "escalate")
          /\ UNCHANGED <<completed, run>>
  /\ UNCHANGED <<attempts, result, verdict, fenceVars, stepVars, memory, faults>>

\* VERIFYING -> ESCALATED, by the run as it was read before.
Escalate(c) ==
  /\ At(c, "escalate")
  /\ IF call[c].run = "VERIFYING" /\ run = "VERIFYING"
     THEN run' = "ESCALATED" /\ Goto(c, "store")
     ELSE UNCHANGED run /\ Goto(c, "failing")
  /\ UNCHANGED <<attempts, result, fenceVars, stepVars, proofVars, memory, faults>>

-----------------------------------------------------------------------------
(* What goes wrong                                                          *)

\* Where an error at this place of the code leads: the catch blocks.
Handlers(c) ==
  CASE call[c].pc \in {"begin", "acquire", "failing"} -> {"idle"}
    [] call[c].pc \in {"reserve", "running", "complete", "settle"} -> {Caught(c)}
    [] call[c].pc = "rollback" -> {"contain", "failing"}
    [] OTHER -> {"failing"}

\* A check fails, a statement fails, or its answer is lost (then it is the
\* next one that fails here).  The actuator's errors are Actuate's own.
Error(c) ==
  /\ faults < MaxFaults
  /\ call[c].pc \notin {"idle", "actuate"}
  /\ faults' = faults + 1
  /\ \E pc \in Handlers(c) :
       call' = [call EXCEPT ![c] = IF pc = "idle" THEN Idle ELSE [@ EXCEPT !.pc = pc]]
  /\ UNCHANGED <<runVars, fenceVars, stepVars, proofVars, memory>>

\* The process dies and starts again, under a new owner id.
Crash(c) ==
  /\ faults < MaxFaults
  /\ ~At(c, "idle")
  /\ faults' = faults + 1
  /\ Leave(c)
  /\ memory' = [memory EXCEPT ![c] = Blank]
  /\ lease' = [p \in Phase |-> IF lease[p].owner = c
                               THEN [lease[p] EXCEPT !.owner = NoCall] ELSE lease[p]]
  /\ UNCHANGED <<runVars, fence, stepVars, proofVars>>

\* NOW() passes lease_expires_at: nobody sends heartbeats.
Expire(p) ==
  /\ L!LiveHeld(lease[p])
  /\ lease' = [lease EXCEPT ![p] = L!Expired(@)]
  /\ UNCHANGED <<runVars, fence, stepVars, proofVars, memory, call, faults>>

-----------------------------------------------------------------------------

ExecuteStep(c) ==
  \/ Execute(c) \/ Preflight(c) \/ SaveAttempt(c) \/ Start(c) \/ CreateLedger(c)
  \/ Reserve(c) \/ MarkRunning(c) \/ Actuate(c) \/ Complete(c) \/ Settle(c)
  \/ Fail(c) \/ BeginRollback(c) \/ Contain(c) \/ Finish(c)

VerifyStep(c) ==
  Verify(c) \/ EnterVerifying(c) \/ Assess(c) \/ Record(c) \/ Escalate(c)

FenceStep(c) == Begin(c) \/ Acquire(c) \/ Store(c) \/ Mark(c) \/ MarkFailed(c)

Next ==
  \/ \E c \in Call : \/ ExecuteStep(c) \/ VerifyStep(c) \/ FenceStep(c)
                     \/ Replay(c) \/ Error(c) \/ Crash(c)
  \/ \E p \in Phase : Expire(p)

Spec == Init /\ [][Next]_vars

\* A process that is alive goes on, and the scheduler keeps offering the run.
FairSpec ==
  Spec /\ \A c \in Call : WF_vars(ExecuteStep(c) \/ VerifyStep(c) \/ FenceStep(c))

-----------------------------------------------------------------------------
(* Properties                                                               *)

\* Types, and that fences and runs hold the statuses their schemas list.
TypeOK ==
  /\ run \in RunState
  /\ lease \in [Phase -> L!LeaseRow]
  /\ fence \in [Phase -> Fence]
  /\ attempts \in Seq(Attempt)
  /\ step \in [Ordinary \cup Rollback ->
                 {"ABSENT", "RESERVED", "RUNNING", "SUCCEEDED", "FAILED"}]
  /\ result \in Result
  /\ outcomes \in Seq(Outcome)
  /\ completed \in Token
  /\ verdict \in Outcome \cup {"NONE"}
  /\ memory \in [Call -> Memory]
  /\ call \in [Call -> CallState]
  /\ actuations \in [Ordinary \cup Rollback -> Nat]
  /\ faults \in 0 .. MaxFaults

\* "Sequential dependency-ordered SafeActuator steps" (docs/architecture.md:
\* 1025): whichever calls hold, lose and take over the lease, one at most is
\* in the loop, and what it does to the world it does once: "no blind retry of
\* uncertain side effects" (docs/durability.md:87).
ActuatedOnce ==
  /\ \A c, d \in Call : InLoop(c) /\ InLoop(d) => c = d
  /\ \A k \in Ordinary \cup Rollback : actuations[k] <= 1

\* A step is actuated after all before it have SUCCEEDED, and compensating
\* ones after the failure of a step whose plan authorizes them: the rollback
\* never starts from a step that succeeded, and the loop never resumes behind
\* the step that failed (executeAuthorizedRollback, skippedResult).
FailureStopsTheRest ==
  /\ \A i, j \in Ordinary : i < j /\ actuations[j] > 0 => step[i] = "SUCCEEDED"
  /\ \A k \in Rollback : actuations[k] > 0 =>
       /\ \E i \in Reversible : step[i] = "FAILED"
       /\ \A j \in Rollback : j < k => step[j] = "SUCCEEDED"

\* execution/service.ts executeSteps: what is done to the world is done once, and in the
\* order that was approved.
ActuatedOnceInOrder == ActuatedOnce /\ FailureStopsTheRest

\* What the stored result says is what the rows and the run say: a success has
\* all steps SUCCEEDED, a failure without containment has been compensated in
\* full, and a containment has reached the run.  A fence that is COMPLETED or
\* CONTAINED has that result in the store (a replay finds it: "Execution fence is
\* terminal but result is missing" is never thrown), a decided verification its own.
ResultTellsTheSteps ==
  /\ CASE result.status = "SUCCEEDED" -> \A i \in Ordinary : step[i] = "SUCCEEDED"
       [] result.status = "PARTIAL" ->
            /\ \E i \in Reversible : step[i] = "FAILED"
            /\ \A k \in Rollback : step[k] = "SUCCEEDED"
       [] result.status = "CONTAINED" -> run = "CONTAINED"
       [] OTHER -> TRUE
  /\ fence["execution"].status = "COMPLETED" => result.status = "SUCCEEDED"
  /\ fence["execution"].status = "CONTAINED" =>
       result.status = "CONTAINED" /\ run = "CONTAINED"
  /\ fence["verification"].status = "DECIDED" => verdict # "NONE"

\* "OutcomeVerification + CompletionRecord + run COMPLETED" is one boundary
\* (docs/durability.md:60): a completion record, a COMPLETED run and a recorded
\* success come together, no step of the run is open then, and the attempt that
\* was verified is the one that moved the run.
CompletionIsAtomic ==
  /\ (completed # 0) <=> (run = "COMPLETED")
  /\ (run = "COMPLETED") <=> (\E i \in DOMAIN outcomes : outcomes[i] = "VERIFIED_SUCCESS")
  /\ completed # 0 =>
       /\ \A k \in DOMAIN step : step[k] \notin {"RESERVED", "RUNNING"}
       /\ \E i \in DOMAIN attempts : attempts[i] \in
            [token : {completed}, status : {"SUCCEEDED", "PARTIAL"}]

\* "If the process fails after RUNNING but before terminal persistence: [...]
\* contain (EXECUTING -> CONTAINED)" (docs/architecture.md:1046).
UncertainStepsAreContained ==
  (\E k \in DOMAIN step : step[k] = "RUNNING")
    ~> (run = "CONTAINED" \/ \A k \in DOMAIN step : step[k] # "RUNNING")
=============================================================================
