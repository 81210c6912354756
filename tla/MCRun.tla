-------------------------------- MODULE MCRun --------------------------------
(***************************************************************************)
(* What becomes of a run, in four models: PhaseFence, the fence that each  *)
(* of its phases goes through, Execution, how its approved plan is         *)
(* executed and verified inside of two such fences, Inference, what its    *)
(* model calls are charged, and Recovery, the product's case with the runs *)
(* that replace each other.  They keep their rows in tables of their own:  *)
(* a behaviour is that of one of them, chosen at the start, and names that *)
(* several use stand for the table of that one.                            *)
(***************************************************************************)
EXTENDS MCPhaseFence

CONSTANTS c1, c2, Caller, Nobody, Steps, Reversible, Compensating, MaxTokens,
          MaximumLlmCalls, MaximumTotalTokens, Reservation, Overrun, MaxRecords,
          MaxAttempts, MaxRuns, MaxFaults

\* A plan has a step, a rollback that compensates nothing is not authorized
\* (extractAuthorizedRollback), and a case may have a run.
ASSUME RunAssumption ==
  /\ Steps \in Nat \ {0} /\ Compensating \in Nat
  /\ Reversible \subseteq 1 .. Steps
  /\ Reversible # {} => Compensating > 0
  /\ MaximumLlmCalls \in Nat /\ MaximumTotalTokens \in Nat
  /\ Reservation \in Nat /\ Overrun \in Nat /\ MaxRecords \in Nat
  /\ MaxTokens \in Nat /\ MaxAttempts \in Nat /\ MaxRuns \in Nat \ {0} /\ MaxFaults \in Nat

VARIABLES
  part,
  call, faults,
  state, leases, fences, attempts, step, result, outcomes, completed, verdict, memory,
  actuations,
  kind, ledger, used, reopened,
  lead, runs, replacements, timeline, contacts, sent, optedOut

E == INSTANCE Execution
  WITH Call <- Caller, NoCall <- Nobody, run <- state, lease <- leases, fence <- fences
I == INSTANCE Inference WITH Call <- Caller
R == INSTANCE Recovery WITH Call <- Caller, lineage <- replacements, attempts <- contacts

callVars == <<call, faults>>
executionOnly == <<state, leases, fences, attempts, step, result, outcomes, completed, verdict,
                   memory, actuations>>
inferenceOnly == <<kind, ledger, used, reopened>>
recoveryOnly == <<lead, runs, replacements, timeline, contacts, sent, optedOut>>

\* What the tables of the others look like: empty.
NoPhase == Init /\ phase = "planning"
NoCalls == call = <<>> /\ faults = 0
NoExecution == /\ state = "APPROVED" /\ leases = <<>> /\ fences = <<>> /\ attempts = <<>>
               /\ step = <<>> /\ result = E!NoResult /\ outcomes = <<>> /\ completed = 0
               /\ verdict = "NONE" /\ memory = <<>> /\ actuations = <<>>
NoInference == kind = "planning" /\ ledger = <<>> /\ used = <<>> /\ reopened = {}
NoRecovery == /\ lead = R!NoCase /\ runs = <<>> /\ replacements = {} /\ timeline = {}
              /\ contacts = 0 /\ sent = 0 /\ optedOut = FALSE

RunInit ==
  \/ part = "phase" /\ Init /\ NoCalls /\ NoExecution /\ NoInference /\ NoRecovery
  \/ part = "execution" /\ E!Init /\ NoPhase /\ NoInference /\ NoRecovery
  \/ part = "inference" /\ I!Init /\ NoPhase /\ NoExecution /\ NoRecovery
  \/ part = "recovery" /\ R!Init /\ NoPhase /\ NoExecution /\ NoInference

RunNext ==
  /\ UNCHANGED part
  /\ \/ part = "phase" /\ Next /\ UNCHANGED <<callVars, executionOnly, inferenceOnly, recoveryOnly>>
     \/ part = "execution" /\ E!Next /\ UNCHANGED <<vars, inferenceOnly, recoveryOnly>>
     \/ part = "inference" /\ I!Next /\ UNCHANGED <<vars, executionOnly, recoveryOnly>>
     \/ part = "recovery" /\ R!Next /\ UNCHANGED <<vars, executionOnly, inferenceOnly>>

runVars == <<part, callVars, vars, executionOnly, inferenceOnly, recoveryOnly>>
RunSpec == RunInit /\ [][RunNext]_runVars

\* The two callers and, with them, the two requests that one process serves.
Swap(x) == IF x = r1 THEN r2 ELSE r1
Interchangeable ==
  {q @@ [x \in {r1, r2} |-> IF q[c1] = c1 THEN x ELSE Swap(x)] : q \in Permutations(Caller)}
-----------------------------------------------------------------------------
\* Every table and every call holds what its columns and its code allow.
TypesOK ==
  CASE part = "phase"     -> TypeOK
    [] part = "execution" -> E!TypeOK
    [] part = "inference" -> I!TypeOK
    [] part = "recovery"  -> R!TypeOK

\* execution/service.ts executeSteps: what is done to the world is done once, and in
\* the order that was approved, whichever of two owners of the lease does it.
ActuatedOnceInOrder == part = "execution" => E!ActuatedOnceInOrder

\* execution/service.ts finalizeResult, verification/service.ts storeResult: the stored
\* result says what the step rows and the run say, a settled fence has its document; and
\* "OutcomeVerification + CompletionRecord + run COMPLETED" is one boundary
\* (docs/durability.md): the three come together, of the attempt that was verified.
ExecutionIsRecorded == part = "execution" => E!ResultTellsTheSteps /\ E!CompletionIsAtomic

\* planning/service.ts invokeModel, PlanningUsageLedger: what a provider was asked for
\* is charged, whoever fails or restarts, and planners beside each other never exceed
\* the budget by more than the calls that recovery has reopened.
InferenceIsAccounted == part = "inference" => I!InferenceIsAccounted

\* revenue-recovery: whatever replaces, prepares, plans, sends and answers beside each
\* other, one run of the case is live, the recorded lineage is a chain that ends in it, the
\* lead gets no more messages than it may, and a suppressed case stays suppressed.
RecoveryIsGoverned == part = "recovery" => R!RecoveryIsGoverned
=============================================================================
