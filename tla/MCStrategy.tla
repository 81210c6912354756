---------------------------- MODULE MCStrategy ----------------------------
(***************************************************************************)
(* The strategic layers.  A portfolio, an experiment, a decision problem   *)
(* and a decision policy keep their rows in tables of their own and meet   *)
(* only at admissions, which each takes for granted: a behaviour is that   *)
(* of one of them, chosen at the start, and names that several modules use *)
(* stand for the table of that one.                                        *)
(***************************************************************************)
EXTENDS Naturals, FiniteSets, TLC

CONSTANTS Call, MaxPlans, MaxIssues, MaxWrites, Proposals, Ceiling, MaxDesigns, MaxActions,
          Scenarios, MaxRuns, MaxRoutes, MaxEvaluations, MaxActivations

\* What the proofs need of the bounds.
Bounds ==
  /\ IsFiniteSet(Call)
  /\ MaxPlans \in Nat /\ MaxIssues \in Nat /\ MaxWrites \in Nat \ {0, 1}
  /\ Proposals \in Nat /\ Ceiling \in Nat /\ MaxDesigns \in Nat /\ MaxActions \in Nat
  /\ Scenarios \in Nat /\ MaxRuns \in Nat
  /\ MaxRoutes \in Nat /\ MaxEvaluations \in Nat /\ MaxActivations \in Nat

ASSUME StrategyAssumption == Bounds

VARIABLES
  part,
  call, request, record, issued, store, known, lineage,
  plans, portfolio, reserved, reservation, program, completion, verdicts,
  experiment, usage, objective, drifted, sponsored,
  problem, sets, results, runs, package, proposed, truth, selected,
  policy, evaluated, shadowed, evaluations, activations, recommended, granted

P == INSTANCE Portfolios
E == INSTANCE Experiments WITH MaxWrites <- MaxWrites - 1
S == INSTANCE Scenarios WITH MaxSets <- MaxPlans, MaxWrites <- MaxWrites - 1
D == INSTANCE Policies WITH MaxWrites <- MaxWrites - 1

portfolioOnly == <<portfolio, reserved, reservation, program, completion, verdicts>>
experimentOnly == <<experiment, usage, objective, drifted, sponsored>>
problemOnly == <<problem, sets, results, runs, package, proposed, truth, selected>>
policyOnly == <<policy, evaluated, shadowed, evaluations, activations, recommended, granted>>
gateVars == <<record, store, lineage, plans>>     \* which a policy has not

\* What the tables of the others look like: empty.
NoPortfolio == /\ portfolio = P!NewPortfolio /\ reserved = 0 /\ reservation = {}
               /\ program = [s \in P!Slot |-> "NONE"] /\ completion = 0 /\ verdicts = {}
NoExperiment == /\ experiment = E!NewExperiment /\ usage = E!NoUsage /\ objective = {}
                /\ drifted = FALSE /\ sponsored = {}
NoProblem == /\ problem = S!NewProblem /\ sets = [v \in S!Set |-> 0] /\ results = {}
             /\ runs = 0 /\ package = 0 /\ proposed = {} /\ truth = 1 /\ selected = {}
NoPolicy == /\ policy = D!NewPolicy /\ evaluated = FALSE /\ shadowed = FALSE
            /\ evaluations = [e \in D!Evaluation |-> "NONE"]
            /\ activations = [a \in D!Activation |-> "NONE"] /\ recommended = {} /\ granted = {}

Init ==
  \/ part = "portfolio" /\ P!Init /\ NoExperiment /\ NoProblem /\ NoPolicy
  \/ part = "experiment" /\ E!Init /\ NoPortfolio /\ NoProblem /\ NoPolicy
  \/ part = "problem" /\ S!Init /\ NoPortfolio /\ NoExperiment /\ NoPolicy /\ plans = 0
  \/ /\ part = "policy" /\ D!Init /\ NoPortfolio /\ NoExperiment /\ NoProblem
     /\ record = 0 /\ store = <<>> /\ lineage = {} /\ plans = 0

Next ==
  /\ UNCHANGED part
  /\ \/ part = "portfolio" /\ P!Next /\ UNCHANGED <<experimentOnly, problemOnly, policyOnly>>
     \/ part = "experiment" /\ E!Next /\ UNCHANGED <<portfolioOnly, problemOnly, policyOnly>>
     \/ /\ part = "problem" /\ S!Next
        /\ UNCHANGED <<portfolioOnly, experimentOnly, policyOnly, plans>>
     \/ /\ part = "policy" /\ D!Next
        /\ UNCHANGED <<portfolioOnly, experimentOnly, problemOnly, gateVars>>

vars == <<part, P!vars, E!vars, S!vars, D!vars>>
Spec == Init /\ [][Next]_vars

Interchangeable == Permutations(Call)
-----------------------------------------------------------------------------
\* Every table and every call holds what its columns and its code allow, the
\* bounds of portfolio_budget_ledgers and of experiment_usage_ledgers included.
TypeOK ==
  CASE part = "portfolio"  -> P!TypeOK
    [] part = "experiment" -> E!TypeOK
    [] part = "problem"    -> S!TypeOK
    [] part = "policy"     -> D!TypeOK

\* portfolio/service.ts materializePrograms, verify: each program that was admitted
\* has its reservation, what is reserved stays below the portfolio's ceiling, and the
\* portfolio is COMPLETED exactly with its record, whose plan has every program of it
\* proved.  experiments/service.ts compileExecution, experiments/budget-ledger.ts: no
\* plan and no objective without its charge, and no charge above its ceiling.
SpendingIsAccounted ==
  /\ part = "portfolio" => P!EscrowCoversPrograms /\ P!CompletionIsRecorded
  /\ part = "experiment" => E!CompilationIsAccounted

\* scenarios/service.ts validatePackage to materializePortfolioProposal: a selection
\* rests on a complete package of the set that is current.
\* docs/phase-19-decision-policy-optimization.md, decision-policies/service.ts
\* decideActivation: no policy is ACTIVE, and nothing is recommended, without the
\* shadow that was watched, evaluated and activated on.
ChoicesRestOnEvidence ==
  /\ part = "problem" => S!SelectionRestsOnPackage
  /\ part = "policy" => D!ActivationRestsOnShadow

\* docs/phase-16-scenario-intelligence.md: a problem that went STALE or whose
\* selector asked for a revision is analyzed, and packaged, again.
AnalysisCanBePackaged == part = "problem" => S!AnalysisCanBePackaged

\* Each service keeps the promise of its gate: only what an allocator, a sponsor, a
\* selector or an activator has granted comes into being.  The tables of the parts that are not there
\* stay empty, and so their gates are kept trivially.
ImplementsGate == P!ImplementsGate /\ E!ImplementsGate /\ S!ImplementsGate /\ D!ImplementsGate
=============================================================================
