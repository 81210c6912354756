----------------------------- MODULE Scenarios ------------------------------
(***************************************************************************)
(* One strategic decision problem, from its grounding to the portfolio     *)
(* that is proposed for it.                                                *)
(*                                                                         *)
(*   ground:   -> GROUNDING -> save the truth that is read -> PROPOSED     *)
(*   generate: INSERT the next set of scenarios -> SIMULATING              *)
(*   simulate: for each scenario of the latest set without a result: look  *)
(*             at the ledger, INSERT the result, count the run;            *)
(*             -> ANALYZING                                                *)
(*   analyze:  -> VALIDATING                                               *)
(*   validate: INSERT the decision package -> AWAITING_SELECTION, or       *)
(*             ANALYZING again                                             *)
(*   route, decide: as in DecisionRequest; SELECT saves a record, then     *)
(*             SELECTED                                                    *)
(*   materialize: check the truth -> latest record and latest set ->       *)
(*             admit a portfolio -> lineage -> MATERIALIZED_AS_PROPOSAL    *)
(*                                                                         *)
(* A decision package has the version 1, always.                           *)
(***************************************************************************)
EXTENDS Integers, FiniteSets, DecisionRequest

CONSTANTS Call,       \* concurrent calls, each in a process of its own
          Scenarios,  \* scenarios of a set
          MaxRuns,    \* maximumSimulationRuns
          MaxSets,    \* bound: versions of the set
          MaxIssues,  \* bound: nonces that are issued
          MaxWrites   \* bound: revisions of the problem's row

VARIABLES
  problem,    \* the row: status, recordRevision, truth it is grounded on, set version
  sets,       \* scenario_sets: the truth each version was generated under, 0 for none
  results,    \* scenario_simulation_results: <<set, scenario>>
  runs,       \* simRuns in simulation_usage_ledgers
  package,    \* strategic_decision_packages: the set the package is about, 0 for none
  request,    \* strategy_selection_requests, by the set of the package
  record,     \* the latest selection record: its set, 0 for none
  issued,     \* nonces issued so far
  store,      \* selectionNonceStore of each process
  known,      \* nonces that were answered to somebody
  lineage,    \* scenario_portfolio_lineage: the sets of the records with a portfolio
  proposed,   \* portfolios proposed: <<set of the record, set of the scenario>>
  truth,      \* what the control plane says now
  call,       \* where each call is
  selected    \* history: sets a selector chose a scenario of

setVars     == <<sets, results, runs, package>>
requestVars == <<request, record, issued, store, known, selected>>
outcomeVars == <<lineage, proposed>>
vars == <<problem, setVars, requestVars, outcomeVars, truth, call>>

Set == 1 .. MaxSets
Scenario == 1 .. Scenarios
Truth == 1 .. 2

DecisionProblemState ==
  {"ADMITTED", "GROUNDING", "SCENARIOS_PROPOSED", "SIMULATING", "ANALYZING", "VALIDATING",
   "AWAITING_SELECTION", "SELECTED", "MATERIALIZED_AS_PROPOSAL", "STALE", "CANCELLED"}

Terminal == {"MATERIALIZED_AS_PROPOSAL", "CANCELLED"}

Transitions ==
  (DecisionProblemState \ Terminal) \X {"CANCELLED"}
  \cup (DecisionProblemState \ (Terminal \cup {"ADMITTED", "STALE"})) \X {"STALE"}
  \cup {"ADMITTED", "STALE"} \X {"GROUNDING"}
  \cup {"SIMULATING", "VALIDATING", "AWAITING_SELECTION"} \X {"ANALYZING"}
  \cup {<<"GROUNDING", "SCENARIOS_PROPOSED">>, <<"SCENARIOS_PROPOSED", "SIMULATING">>,
        <<"ANALYZING", "VALIDATING">>, <<"VALIDATING", "AWAITING_SELECTION">>,
        <<"AWAITING_SELECTION", "SELECTED">>, <<"SELECTED", "MATERIALIZED_AS_PROPOSAL">>}

Problem == [status: DecisionProblemState, revision: 1 .. MaxWrites,
            truth: 0 .. 2, set: 0 .. MaxSets]

PC == {"idle", "ground", "propose", "insert", "adopt", "pick", "run", "count", "simulated",
       "analyzed", "package", "await", "truth", "stale", "save", "put", "expire", "selector",
       "settle", "record", "move", "selection", "admit", "link", "materialized"}

CallState ==
  [pc: PC, next: PC, seen: Problem, set: 0 .. MaxSets, scenario: 0 .. Scenarios + 1,
   record: 0 .. MaxSets, request: Request(MaxIssues),
   decision: {"NONE", "SELECT_SCENARIO", "REQUEST_REVISION", "REJECT_ALL"}]

NewProblem == [status |-> "ADMITTED", revision |-> 1, truth |-> 0, set |-> 0]
Idle == [pc |-> "idle", next |-> "idle", seen |-> NewProblem, set |-> 0, scenario |-> 0,
         record |-> 0, request |-> NoRequest, decision |-> "NONE"]

Init ==
  /\ problem = NewProblem
  /\ sets = [v \in Set |-> 0]
  /\ results = {}
  /\ runs = 0
  /\ package = 0
  /\ request = [v \in Set |-> NoRequest]
  /\ record = 0
  /\ issued = 0
  /\ store = [c \in Call |-> [v \in Set |-> 0]]
  /\ known = {}
  /\ lineage = {}
  /\ proposed = {}
  /\ truth = 1
  /\ call = [c \in Call |-> Idle]
  /\ selected = {}

At(c, pc) == call[c].pc = pc
Enter(c, state) == call' = [call EXCEPT ![c] = state]
GoTo(c, pc) == call' = [call EXCEPT ![c].pc = pc]
Return(c) == call' = [call EXCEPT ![c] = Idle]

-----------------------------------------------------------------------------
(* The problem's row: assertDecisionTransition, then UPDATE under the       *)
(* revision that was read.                                                  *)

Moved(p, status) == [p EXCEPT !.status = status, !.revision = @ + 1]

MayMove(seen, new) ==
  <<seen.status, new.status>> \in Transitions /\ problem.revision = seen.revision

\* The last statement of an operation: made, or the operation throws.
MoveAndReturn(c, new) ==
  /\ problem.revision < MaxWrites
  /\ problem' = IF MayMove(call[c].seen, new) THEN new ELSE problem
  /\ Return(c)

\* An operation that begins with a transition and goes on with what it wrote.
MoveAndGoOn(c, status, state) ==
  /\ problem.revision < MaxWrites
  /\ problem' = Moved(problem, status)
  /\ Enter(c, [state EXCEPT !.seen = problem'])

LatestSet ==
  IF \E v \in Set : sets[v] # 0
  THEN CHOOSE v \in Set : sets[v] # 0 /\ \A w \in Set : sets[w] # 0 => w <= v
  ELSE 0

-----------------------------------------------------------------------------
(* ground, generateScenarios                                                *)

StartGround(c) ==
  /\ At(c, "idle")
  /\ \/ /\ problem.status \in {"ADMITTED", "STALE"}
        /\ MoveAndGoOn(c, "GROUNDING", [Idle EXCEPT !.pc = "ground"])
     \/ /\ problem.status = "GROUNDING"
        /\ Enter(c, [Idle EXCEPT !.pc = "ground", !.seen = problem])
        /\ UNCHANGED problem
  /\ UNCHANGED <<setVars, requestVars, outcomeVars, truth>>

SaveTruth(c) ==
  /\ At(c, "ground")
  /\ problem.revision < MaxWrites
  /\ problem.revision = call[c].seen.revision
  /\ problem' = [call[c].seen EXCEPT !.truth = truth, !.revision = @ + 1]
  /\ call' = [call EXCEPT ![c].pc = "propose", ![c].seen = problem']
  /\ UNCHANGED <<setVars, requestVars, outcomeVars, truth>>

Propose(c) ==
  /\ At(c, "propose")
  /\ MoveAndReturn(c, Moved(call[c].seen, "SCENARIOS_PROPOSED"))
  /\ UNCHANGED <<setVars, requestVars, outcomeVars, truth>>

\* From GROUNDING the transition comes first, and then the complaint that the
\* problem has not been grounded.
StartGenerate(c) ==
  LET generating == [Idle EXCEPT !.pc = IF problem.truth = 0 THEN "idle" ELSE "insert",
                                 !.set = IF problem.truth = 0 THEN 0 ELSE problem.set + 1]
  IN  /\ At(c, "idle")
      /\ problem.set < MaxSets
      /\ \/ /\ problem.status = "GROUNDING"
            /\ IF problem.truth = 0
               THEN /\ problem.revision < MaxWrites
                    /\ problem' = Moved(problem, "SCENARIOS_PROPOSED")
                    /\ Return(c)
               ELSE MoveAndGoOn(c, "SCENARIOS_PROPOSED", generating)
         \/ /\ problem.status = "SCENARIOS_PROPOSED"
            /\ problem.truth # 0
            /\ Enter(c, [generating EXCEPT !.seen = problem])
            /\ UNCHANGED problem
      /\ UNCHANGED <<setVars, requestVars, outcomeVars, truth>>

\* A plain INSERT: a version that is there already makes it fail.
InsertSet(c) ==
  /\ At(c, "insert")
  /\ sets[call[c].set] = 0
  /\ sets' = [sets EXCEPT ![call[c].set] = call[c].seen.truth]
  /\ GoTo(c, "adopt")
  /\ UNCHANGED <<problem, results, runs, package, requestVars, outcomeVars, truth>>

AdoptSet(c) ==
  /\ At(c, "adopt")
  /\ MoveAndReturn(c, [Moved(call[c].seen, "SIMULATING") EXCEPT !.set = call[c].set])
  /\ UNCHANGED <<setVars, requestVars, outcomeVars, truth>>

-----------------------------------------------------------------------------
(* simulateAll, simulateScenarioInternal, analyze.  An analysis that begins *)
(* in SIMULATING is a call of simulateAll and then one of its own.          *)

StartSimulate(c) ==
  /\ At(c, "idle")
  /\ problem.status \in {"SIMULATING", "ANALYZING"}
  /\ LatestSet # 0
  /\ Enter(c, [Idle EXCEPT !.pc = "pick", !.seen = problem, !.set = LatestSet,
                           !.scenario = 1])
  /\ UNCHANGED <<problem, setVars, requestVars, outcomeVars, truth>>

\* A result that is there is not made again; the ledger is looked at before one
\* is made, and says no for good when it is used up.
PickScenario(c) ==
  /\ At(c, "pick")
  /\ call[c].scenario \in Scenario
  /\ IF <<call[c].set, call[c].scenario>> \in results
     THEN call' = [call EXCEPT ![c].scenario = @ + 1]
     ELSE runs < MaxRuns /\ GoTo(c, "run")
  /\ UNCHANGED <<problem, setVars, requestVars, outcomeVars, truth>>

InsertResult(c) ==
  /\ At(c, "run")
  /\ <<call[c].set, call[c].scenario>> \notin results
  /\ results' = results \cup {<<call[c].set, call[c].scenario>>}
  /\ GoTo(c, "count")
  /\ UNCHANGED <<problem, sets, runs, package, requestVars, outcomeVars, truth>>

CountRun(c) ==
  /\ At(c, "count")
  /\ runs' = runs + 1
  /\ call' = [call EXCEPT ![c].pc = "pick", ![c].scenario = @ + 1]
  /\ UNCHANGED <<problem, sets, results, package, requestVars, outcomeVars, truth>>

\* Mutant: the loop ends before the last scenario.
FinishSimulate_Early(c) ==
  /\ At(c, "pick")
  /\ call[c].scenario >= Scenarios
  /\ MoveAndReturn(c, Moved(call[c].seen, "ANALYZING"))
  /\ UNCHANGED <<setVars, requestVars, outcomeVars, truth>>

\* From ANALYZING the row is only saved again.
FinishSimulate(c) ==
  LET seen == call[c].seen
  IN  /\ At(c, "pick")
      /\ call[c].scenario > Scenarios
      /\ \/ seen.status = "SIMULATING" /\ MoveAndReturn(c, Moved(seen, "ANALYZING"))
         \/ /\ seen.status = "ANALYZING"
            /\ problem.revision < MaxWrites
            /\ problem' = IF problem.revision = seen.revision
                          THEN Moved(seen, "ANALYZING") ELSE problem
            /\ Return(c)
      /\ UNCHANGED <<setVars, requestVars, outcomeVars, truth>>

StartAnalyze(c) ==
  /\ At(c, "idle")
  /\ \/ /\ problem.status = "VALIDATING"
        /\ MoveAndGoOn(c, "ANALYZING", [Idle EXCEPT !.pc = "simulated"])
     \/ /\ problem.status = "ANALYZING"
        /\ Enter(c, [Idle EXCEPT !.pc = "simulated", !.seen = problem])
        /\ UNCHANGED problem
  /\ UNCHANGED <<setVars, requestVars, outcomeVars, truth>>

FinishAnalyze(c) ==
  /\ At(c, "simulated")
  /\ \E s \in Scenario : <<LatestSet, s>> \in results
  /\ MoveAndReturn(c, Moved(call[c].seen, "VALIDATING"))
  /\ UNCHANGED <<setVars, requestVars, outcomeVars, truth>>

-----------------------------------------------------------------------------
(* validatePackage                                                          *)

StartValidate(c) ==
  /\ At(c, "idle")
  /\ problem.status = "VALIDATING"
  /\ Enter(c, [Idle EXCEPT !.pc = "analyzed", !.seen = problem])
  /\ UNCHANGED <<problem, setVars, requestVars, outcomeVars, truth>>

\* The latest set and its results are read; hard constraints may leave nothing to
\* recommend, and so may results that are not there.
Findings(c) ==
  LET v == LatestSet
      blocked == sets[v] # call[c].seen.truth \/ \A s \in Scenario : <<v, s>> \notin results
  IN  IF blocked THEN {TRUE} ELSE BOOLEAN

ComposePackage(c) ==
  /\ At(c, "analyzed")
  /\ LatestSet # 0
  /\ \E block \in Findings(c) :
       IF block
       THEN MoveAndReturn(c, Moved(call[c].seen, "ANALYZING"))
       ELSE /\ call' = [call EXCEPT ![c].pc = "package", ![c].set = LatestSet]
            /\ UNCHANGED problem
  /\ UNCHANGED <<setVars, requestVars, outcomeVars, truth>>

\* A plain INSERT of version 1: a package that is there already makes it fail.
InsertPackage(c) ==
  /\ At(c, "package")
  /\ package = 0
  /\ package' = call[c].set
  /\ GoTo(c, "await")
  /\ UNCHANGED <<problem, sets, results, runs, requestVars, outcomeVars, truth>>

AwaitSelection(c) ==
  /\ At(c, "await")
  /\ MoveAndReturn(c, Moved(call[c].seen, "AWAITING_SELECTION"))
  /\ UNCHANGED <<setVars, requestVars, outcomeVars, truth>>

-----------------------------------------------------------------------------
(* recheckTruthOrMarkStale                                                  *)

CheckTruth(c) ==
  /\ At(c, "truth")
  /\ GoTo(c, IF call[c].seen.truth # truth THEN "stale" ELSE call[c].next)
  /\ UNCHANGED <<problem, setVars, requestVars, outcomeVars, truth>>

\* markStale reads the problem again; then the operation throws.
MarkStale(c) ==
  /\ At(c, "stale")
  /\ IF <<problem.status, "STALE">> \in Transitions
     THEN MoveAndGoOn(c, "STALE", Idle) ELSE Return(c) /\ UNCHANGED problem
  /\ UNCHANGED <<setVars, requestVars, outcomeVars, truth>>

-----------------------------------------------------------------------------
(* routeSelection, decideSelection                                          *)

StartRoute(c) ==
  /\ At(c, "idle")
  /\ problem.status = "AWAITING_SELECTION"
  /\ Enter(c, [Idle EXCEPT !.pc = "truth", !.next = "save", !.seen = problem])
  /\ UNCHANGED <<problem, setVars, requestVars, outcomeVars, truth>>

\* A call that holds the nonce of a pending request answers with that one.
SaveRequest(c) ==
  /\ At(c, "save")
  /\ package # 0
  /\ ~HoldsNonce(request, store[c])
  /\ issued < MaxIssues
  /\ issued' = issued + 1
  /\ request' = [request EXCEPT ![package] = Fresh(issued')]
  /\ call' = [call EXCEPT ![c].pc = "put", ![c].set = package, ![c].request = Fresh(issued')]
  /\ UNCHANGED <<problem, setVars, record, store, known, selected, outcomeVars, truth>>

PutNonce(c) ==
  /\ At(c, "put")
  /\ store' = [store EXCEPT ![c][call[c].set] = call[c].request.issue]
  /\ known' = known \cup {call[c].request.issue}
  /\ Return(c)
  /\ UNCHANGED <<problem, setVars, request, record, issued, selected, outcomeVars, truth>>

StartDecide(c) ==
  \E v \in PendingIn(request), d \in {"NONE", "SELECT_SCENARIO", "REQUEST_REVISION", "REJECT_ALL"} :
    /\ At(c, "idle")
    /\ d # "NONE" => request[v].issue \in known
    /\ Enter(c, [Idle EXCEPT !.pc = IF d = "NONE" THEN "expire" ELSE "selector",
                             !.set = v, !.request = request[v], !.decision = d])
    /\ UNCHANGED <<problem, setVars, requestVars, outcomeVars, truth>>

Settle(c, status) ==
  /\ Unchanged(request[call[c].set], call[c].request)
  /\ request' = [request EXCEPT ![call[c].set] = Settled(call[c].request, status)]

ExpireRequest(c) ==
  /\ At(c, "expire")
  /\ Settle(c, "EXPIRED")
  /\ Return(c)
  /\ UNCHANGED <<problem, setVars, record, issued, store, known, selected, outcomeVars, truth>>

CheckSelector(c) ==
  /\ At(c, "selector")
  /\ call' = [call EXCEPT ![c].pc = "truth", ![c].next = "settle", ![c].seen = problem]
  /\ UNCHANGED <<problem, setVars, requestVars, outcomeVars, truth>>

SettleRequest(c) ==
  LET selects == call[c].decision = "SELECT_SCENARIO"
  IN  /\ At(c, "settle")
      /\ Settle(c, "SETTLED")
      /\ selected' = IF selects THEN selected \cup {call[c].set} ELSE selected
      /\ GoTo(c, IF selects THEN "record" ELSE "move")
      /\ UNCHANGED <<problem, setVars, record, issued, store, known, outcomeVars, truth>>

SaveRecord(c) ==
  /\ At(c, "record")
  /\ record' = call[c].set
  /\ GoTo(c, "move")
  /\ UNCHANGED <<problem, setVars, request, issued, store, known, selected, outcomeVars, truth>>

Decided == [SELECT_SCENARIO |-> "SELECTED", REQUEST_REVISION |-> "ANALYZING",
            REJECT_ALL |-> "CANCELLED"]

MoveAsDecided(c) ==
  /\ At(c, "move")
  /\ MoveAndReturn(c, Moved(call[c].seen, Decided[call[c].decision]))
  /\ UNCHANGED <<setVars, requestVars, outcomeVars, truth>>

-----------------------------------------------------------------------------
(* materializePortfolioProposal                                             *)

StartMaterialize(c) ==
  /\ At(c, "idle")
  /\ problem.status = "SELECTED"
  /\ Enter(c, [Idle EXCEPT !.pc = "truth", !.next = "selection", !.seen = problem])
  /\ UNCHANGED <<problem, setVars, requestVars, outcomeVars, truth>>

\* The latest record and the latest set; a lineage with a portfolio is enough.
ReadSelection(c) ==
  /\ At(c, "selection")
  /\ record # 0
  /\ call' = [call EXCEPT ![c].pc = IF record \in lineage THEN "materialized" ELSE "admit",
                          ![c].record = record, ![c].set = LatestSet]
  /\ UNCHANGED <<problem, setVars, requestVars, outcomeVars, truth>>

\* ADMITTED or DUPLICATE; REJECTED and UNAVAILABLE throw.
AdmitPortfolio(c) ==
  /\ At(c, "admit")
  /\ proposed' = proposed \cup {<<call[c].record, call[c].set>>}
  /\ GoTo(c, "link")
  /\ UNCHANGED <<problem, setVars, requestVars, lineage, truth>>

SaveLineage(c) ==
  /\ At(c, "link")
  /\ lineage' = lineage \cup {call[c].record}
  /\ GoTo(c, "materialized")
  /\ UNCHANGED <<problem, setVars, requestVars, proposed, truth>>

FinishMaterialize(c) ==
  /\ At(c, "materialized")
  /\ MoveAndReturn(c, Moved(call[c].seen, "MATERIALIZED_AS_PROPOSAL"))
  /\ UNCHANGED <<setVars, requestVars, outcomeVars, truth>>

-----------------------------------------------------------------------------
(* The environment                                                          *)

Drift ==
  /\ truth' = 3 - truth
  /\ UNCHANGED <<problem, setVars, requestVars, outcomeVars, call>>

\* A check throws, a statement fails, an answer is lost, or the process dies and
\* takes its nonces with it.
Abort(c) ==
  /\ ~At(c, "idle")
  /\ Return(c)
  /\ store' \in {store, [store EXCEPT ![c] = [v \in Set |-> 0]]}
  /\ UNCHANGED <<problem, setVars, request, record, issued, known, selected, outcomeVars, truth>>

AnalysisStep(c) ==
  \/ StartGround(c) \/ SaveTruth(c) \/ Propose(c) \/ StartGenerate(c) \/ InsertSet(c)
  \/ AdoptSet(c) \/ StartSimulate(c) \/ PickScenario(c) \/ InsertResult(c) \/ CountRun(c)
  \/ FinishSimulate(c) \/ StartAnalyze(c) \/ FinishAnalyze(c) \/ StartValidate(c)
  \/ ComposePackage(c) \/ InsertPackage(c) \/ AwaitSelection(c)

SelectionStep(c) ==
  \/ CheckTruth(c) \/ MarkStale(c) \/ StartRoute(c) \/ SaveRequest(c) \/ PutNonce(c)
  \/ StartDecide(c) \/ ExpireRequest(c) \/ CheckSelector(c) \/ SettleRequest(c)
  \/ SaveRecord(c) \/ MoveAsDecided(c)

MaterializationStep(c) ==
  \/ StartMaterialize(c) \/ ReadSelection(c) \/ AdmitPortfolio(c) \/ SaveLineage(c)
  \/ FinishMaterialize(c)

Next ==
  \/ \E c \in Call : AnalysisStep(c) \/ SelectionStep(c) \/ MaterializationStep(c) \/ Abort(c)
  \/ Drift

Spec == Init /\ [][Next]_vars
-----------------------------------------------------------------------------
TypeOK ==
  /\ problem \in Problem
  /\ sets \in [Set -> 0 .. 2]
  /\ results \subseteq Set \X Scenario
  /\ runs \in 0 .. MaxSets * Scenarios
  /\ package \in 0 .. MaxSets
  /\ request \in [Set -> Request(MaxIssues)]
  /\ record \in 0 .. MaxSets
  /\ issued \in 0 .. MaxIssues
  /\ store \in [Call -> [Set -> 0 .. MaxIssues]]
  /\ known \subseteq 1 .. MaxIssues
  /\ lineage \subseteq Set
  /\ proposed \subseteq Set \X Set
  /\ truth \in Truth
  /\ call \in [Call -> CallState]
  /\ selected \subseteq Set

\* "routes human strategy selection" of packaged analysis: who is asked to select is
\* shown a package about the set the problem is at, every scenario of it simulated,
\* generated under the truth the problem is grounded on; a selection has its
\* record, and a problem that was materialized has the lineage that
\* materializePortfolioProposal looks for ("MATERIALIZED_AS_PROPOSAL without durable
\* portfolio lineage").
SelectionRestsOnPackage ==
  /\ problem.status \in {"AWAITING_SELECTION", "SELECTED", "MATERIALIZED_AS_PROPOSAL"} =>
       /\ package = problem.set
       /\ sets[package] = problem.truth
       /\ \A s \in Scenario : <<package, s>> \in results
  /\ problem.status \in {"SELECTED", "MATERIALIZED_AS_PROPOSAL"} => record = problem.set
  /\ problem.status = "MATERIALIZED_AS_PROPOSAL" => record \in lineage
  /\ \A v \in lineage : \E p \in proposed : p[1] = v

\* A portfolio is proposed only of a record that a selector's choice has left.
Gate == INSTANCE AuthorizationGate WITH
  Subject  <- Set,
  Effect   <- Set \X Set,
  granted  <- selected,
  admitted <- proposed,
  proved   <- {},
  finished <- {}

ImplementsGate == Gate!Spec

\* "re-analysis required", "`STALE` may restart from `GROUNDING`" and the decision
\* REQUEST_REVISION: a problem that is analyzed again can be packaged again.
AnalysisCanBePackaged ==
  \A c \in Call : At(c, "package") /\ problem = call[c].seen =>
    package = 0 \/ \E d \in Call : At(d, "await")
=============================================================================
