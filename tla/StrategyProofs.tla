-------------------------- MODULE StrategyProofs --------------------------
(***************************************************************************)
(* Proofs about the strategic layers: portfolios, experiments, decision    *)
(* problems and decision policies, for every set of concurrent calls and   *)
(* every bound.  Each has an invariant of its own, and MCStrategy takes    *)
(* one of the four in a behaviour.                                         *)
(***************************************************************************)
EXTENDS MCStrategy, FiniteSetTheorems, TLAPS

(***************************************************************************)
(* What a portfolio and its calls keep                                     *)
(***************************************************************************)

\* A row that was read is the row while its revision is, and never ahead of it.
PortfolioRead(k) ==
  /\ k.seen.revision <= portfolio.revision
  /\ k.seen.revision = portfolio.revision => k.seen = portfolio

\* The subject that a call is about, and the request it has read.
PortfolioRequest(k) ==
  /\ k.pc = "insert" => k.plan \in P!Plan
  /\ k.pc = "adopt" => k.plan \in 1 .. plans
  /\ k.pc \in {"save", "put", "expire", "allocator", "settle"} => k.plan \in P!Plan
  /\ k.pc = "put" => k.request.issue # 0
  /\ k.pc \in {"expire", "allocator", "settle"} => k.request.revision = 1
  /\ k.pc \in {"allocator", "settle"} => k.decision # "NONE"

\* What the plan that is materialized was granted, and what is escrowed for it.
Materializing == {"proposal", "ledger", "cas", "reserve", "admit", "link"}

PortfolioEffect(k) ==
  /\ k.pc \in {"record"} \cup Materializing =>
       k.plan \in P!Plan /\ <<k.plan, "APPROVE">> \in verdicts
  /\ k.pc \in Materializing => k.proposal # 0
  /\ k.pc \in Materializing \ {"proposal"} => k.proposal \in P!Proposal
  /\ k.pc = "cas" => k.read < Ceiling
  /\ k.pc = "admit" => <<k.plan, k.proposal>> \in reservation
  /\ k.pc = "prove" => plans # 0
  /\ k.pc = "complete" =>
       k.plan \in P!Plan /\ \A p \in P!Proposal : program[<<k.plan, p>>] = "PROVED"

PortfolioCall(k) == PortfolioRead(k) /\ PortfolioRequest(k) /\ PortfolioEffect(k)

\* Calls that have raised the ledger and not made the reservation yet.
Escrowing == {c \in Call : P!At(c, "reserve")}

PortfolioRows ==
  /\ portfolio.revision = 1 => portfolio = P!NewPortfolio
  /\ portfolio.status \notin {"ADMITTED", "ANALYZING", "FAILED"} => plans # 0
  /\ \A v \in P!Plan : request[v].status = "PENDING" => request[v].revision = 1
  /\ \A v \in record : <<v, "APPROVE">> \in verdicts
  /\ \A s \in P!Slot : program[s] # "NONE" => s \in reservation
  /\ P!CompletionIsRecorded

LedgerCoversEscrow == Cardinality(reservation) + Cardinality(Escrowing) <= reserved

PortfolioInv ==
  /\ P!TypeOK
  /\ PortfolioRows
  /\ LedgerCoversEscrow
  /\ \A c \in Call : PortfolioCall(call[c])

\* What only grows, so that a call which has seen it may rely on it.
PortfolioGrows ==
  /\ \/ portfolio' = portfolio
     \/ portfolio'.revision = portfolio.revision + 1
  /\ plans <= plans'
  /\ verdicts \subseteq verdicts'
  /\ reservation \subseteq reservation'
  /\ \A s \in P!Slot : program[s] = "PROVED" => program'[s] = "PROVED"

\* A call that does not move keeps what it relies on.
LEMMA PortfolioOthers ==
  ASSUME Bounds, P!TypeOK, PortfolioGrows, plans' \in Nat, NEW k \in P!CallState, PortfolioCall(k)
  PROVE  PortfolioCall(k)'
<1>1. k.seen.revision \in Nat /\ portfolio.revision \in Nat /\ plans \in Nat
  BY DEF Bounds, P!TypeOK, P!CallState, P!Portfolio
<1>2. PortfolioRead(k)'
  BY <1>1 DEF PortfolioCall, PortfolioRead, PortfolioGrows
<1>3. PortfolioRequest(k)'
  BY <1>1 DEF PortfolioCall, PortfolioRequest, PortfolioGrows
<1>4. PortfolioEffect(k)'
  <2>1. k.pc = "complete" => k.plan \in P!Plan
          /\ \A p \in P!Proposal : program'[<<k.plan, p>>] = "PROVED"
    BY DEF PortfolioCall, PortfolioEffect, PortfolioGrows, P!Slot
  <2>2. k.pc = "prove" => plans' # 0
    BY <1>1 DEF PortfolioCall, PortfolioEffect, PortfolioGrows
  <2> QED
    BY <2>1, <2>2 DEF PortfolioCall, PortfolioEffect, PortfolioGrows
<1> QED
  BY <1>2, <1>3, <1>4 DEF PortfolioCall

\* What a call starts with, and the first row.
LEMMA PortfolioIdle ==
  ASSUME Bounds
  PROVE  P!Idle \in P!CallState /\ P!NewPortfolio \in P!Portfolio
<1>1. P!NewPortfolio \in P!Portfolio
  BY DEF Bounds, P!NewPortfolio, P!Portfolio, P!PortfolioState
<1>2. P!NoRequest \in P!Request(MaxIssues)
  BY DEF Bounds, P!NoRequest, P!Request
<1> QED
  BY <1>1, <1>2 DEF Bounds, P!Idle, P!CallState, P!PC

\* A call that has returned relies on nothing.
LEMMA PortfolioReturns ==
  ASSUME Bounds, PortfolioInv, PortfolioGrows
  PROVE  PortfolioCall(P!Idle)'
<1>1. /\ P!Idle.pc = "idle"
      /\ P!Idle.seen = P!NewPortfolio /\ P!NewPortfolio.revision = 1
  BY DEF P!Idle, P!NewPortfolio
<1>2. portfolio.revision \in Nat \ {0}
  BY DEF Bounds, PortfolioInv, P!TypeOK, P!Portfolio
<1>3. PortfolioRead(P!Idle)'
  BY <1>1, <1>2 DEF PortfolioRead, PortfolioInv, PortfolioRows, PortfolioGrows
<1>4. PortfolioRequest(P!Idle)' /\ PortfolioEffect(P!Idle)'
  BY <1>1 DEF PortfolioRequest, PortfolioEffect, Materializing
<1> QED
  BY <1>3, <1>4 DEF PortfolioCall

\* One call has moved; the others keep what they rely on.
LEMMA PortfolioCalls ==
  ASSUME Bounds, PortfolioInv, PortfolioGrows, plans' \in Nat,
         NEW c \in Call, NEW k \in P!CallState, call' = [call EXCEPT ![c] = k], PortfolioCall(k)'
  PROVE  /\ call' \in [Call -> P!CallState]
         /\ \A d \in Call : PortfolioCall(call[d])'
<1>1. call \in [Call -> P!CallState] /\ P!TypeOK
  BY DEF PortfolioInv, P!TypeOK
<1>2. call' \in [Call -> P!CallState]
  BY <1>1
<1>3. ASSUME NEW d \in Call PROVE PortfolioCall(call[d])'
  <2>1. CASE d = c
    <3>1. call'[d] = k
      BY <1>1, <2>1
    <3> QED
      BY <3>1 DEF PortfolioCall, PortfolioRead, PortfolioRequest, PortfolioEffect
  <2>2. CASE d # c
    <3>1. PICK x \in P!CallState : x = call[d]
      BY <1>1
    <3>2. call'[d] = x
      BY <1>1, <2>2, <3>1
    <3>3. PortfolioCall(x)
      BY <3>1 DEF PortfolioInv
    <3>4. PortfolioCall(x)'
      BY <1>1, <3>3, PortfolioOthers
    <3> QED
      BY <3>2, <3>4 DEF PortfolioCall, PortfolioRead, PortfolioRequest, PortfolioEffect
  <2> QED
    BY <2>1, <2>2
<1> QED
  BY <1>2, <1>3

\* The transitions that the properties depend on.
LEMMA PortfolioTransitions ==
  ASSUME NEW from, NEW to, <<from, to>> \in P!Transitions
  PROVE  /\ from # "COMPLETED"
         /\ to \notin {"ADMITTED", "ANALYZING", "FAILED", "PLANNED"} =>
              from \notin {"ADMITTED", "ANALYZING", "FAILED"}
  BY DEF P!Transitions

\* How many there are of those that a step of one call changes.
LEMMA CountStep ==
  ASSUME NEW Some, IsFiniteSet(Some), NEW c, NEW T, T \subseteq Some \cup {c}
  PROVE  /\ IsFiniteSet(T)
         /\ Cardinality(T) \in Nat /\ Cardinality(Some) \in Nat
         /\ Cardinality(T) <= Cardinality(Some) + 1
         /\ c \in Some \/ c \notin T => Cardinality(T) <= Cardinality(Some)
         /\ c \in Some /\ c \notin T => Cardinality(T) + 1 <= Cardinality(Some)
<1>1. IsFiniteSet(Some \cup {c}) /\ IsFiniteSet(Some \ {c})
  BY FS_AddElement, FS_RemoveElement
<1>2. IsFiniteSet(T)
  BY <1>1, FS_Subset
<1>3. /\ Cardinality(Some) \in Nat /\ Cardinality(T) \in Nat
      /\ Cardinality(Some \cup {c}) \in Nat /\ Cardinality(Some \ {c}) \in Nat
  BY <1>1, <1>2, FS_CardinalityType
<1>4. Cardinality(Some \cup {c}) <= Cardinality(Some) + 1
  <2>1. Cardinality(Some \cup {c}) = IF c \in Some THEN Cardinality(Some) ELSE Cardinality(Some) + 1
    BY FS_AddElement
  <2> QED
    BY <1>3, <2>1
<1>5. c \in Some => Cardinality(Some \ {c}) = Cardinality(Some) - 1
  BY FS_RemoveElement
<1>6. Cardinality(T) <= Cardinality(Some \cup {c})
  BY <1>1, FS_Subset
<1>7. c \in Some \/ c \notin T => T \subseteq Some
  OBVIOUS
<1>8. c \in Some \/ c \notin T => Cardinality(T) <= Cardinality(Some)
  BY <1>7, FS_Subset
<1>9. c \in Some /\ c \notin T => Cardinality(T) <= Cardinality(Some \ {c})
  <2>1. c \in Some /\ c \notin T => T \subseteq Some \ {c}
    OBVIOUS
  <2> QED
    BY <1>1, <2>1, FS_Subset
<1>10. Cardinality(T) <= Cardinality(Some) + 1
  BY <1>3, <1>4, <1>6
<1>11. c \in Some /\ c \notin T => Cardinality(T) + 1 <= Cardinality(Some)
  BY <1>3, <1>5, <1>9
<1> QED
  BY <1>2, <1>3, <1>8, <1>10, <1>11

\* The calls that escrow are finitely many, and their number changes with a call's step.
LEMMA EscrowingStep ==
  ASSUME Bounds, PortfolioInv, NEW c \in Call, NEW k \in P!CallState, call' = [call EXCEPT ![c] = k]
  PROVE  /\ Cardinality(Escrowing) \in Nat
         /\ Cardinality(Escrowing') \in Nat
         /\ Cardinality(Escrowing') <= Cardinality(Escrowing) + 1
         /\ k.pc # "reserve" => Cardinality(Escrowing') <= Cardinality(Escrowing)
         /\ call[c].pc = "reserve" /\ k.pc # "reserve" =>
              Cardinality(Escrowing') + 1 <= Cardinality(Escrowing)
<1>1. call \in [Call -> P!CallState]
  BY DEF PortfolioInv, P!TypeOK
<1>2. IsFiniteSet(Escrowing)
  BY FS_Subset DEF Bounds, Escrowing
<1>3. Escrowing' \subseteq Escrowing \cup {c}
  BY <1>1 DEF Escrowing, P!At
<1>4. k.pc # "reserve" => c \notin Escrowing'
  BY <1>1 DEF Escrowing, P!At
<1>5. call[c].pc = "reserve" => c \in Escrowing
  BY DEF Escrowing, P!At
<1>6. PICK Some : Some = Escrowing
  OBVIOUS
<1>7. PICK T : T = Escrowing'
  OBVIOUS
<1>8. IsFiniteSet(Some) /\ T \subseteq Some \cup {c}
  BY <1>2, <1>3, <1>6, <1>7
<1>9. /\ Cardinality(T) \in Nat /\ Cardinality(Some) \in Nat
      /\ Cardinality(T) <= Cardinality(Some) + 1
      /\ c \in Some \/ c \notin T => Cardinality(T) <= Cardinality(Some)
      /\ c \in Some /\ c \notin T => Cardinality(T) + 1 <= Cardinality(Some)
  BY <1>8, CountStep
<1> QED
  BY <1>4, <1>5, <1>6, <1>7, <1>9

\* The reservations that are there, and the most there can be.
LEMMA ReservationsAreFinite ==
  ASSUME Bounds, P!TypeOK
  PROVE  IsFiniteSet(reservation) /\ Cardinality(reservation) \in Nat
<1>1. IsFiniteSet(P!Plan) /\ IsFiniteSet(P!Proposal)
  BY FS_Interval DEF Bounds, P!Plan, P!Proposal
<1>2. IsFiniteSet(P!Slot)
  BY <1>1, FS_Product DEF P!Slot
<1> QED
  BY <1>2, FS_Subset, FS_CardinalityType DEF P!TypeOK

\* Steps that move a call and at most the portfolio's row.
LEMMA PortfolioMoves ==
  ASSUME Bounds, PortfolioInv,
         NEW c \in Call, NEW k \in P!CallState, call' = [call EXCEPT ![c] = k],
         k.pc # "reserve",
         PortfolioCall(k)',
         portfolio' \in P!Portfolio,
         \/ portfolio' = portfolio
         \/ /\ portfolio'.revision = portfolio.revision + 1
            /\ <<portfolio.status, portfolio'.status>> \in P!Transitions
            /\ portfolio'.status # "COMPLETED"
            /\ portfolio'.status = "PLANNED" => plans # 0,
         UNCHANGED <<plans, request, record, issued, known, verdicts, P!budgetVars, P!programVars,
                     completion>>,
         store' \in [Call -> [P!Plan -> 0 .. MaxIssues]]
  PROVE  PortfolioInv'
<1> USE DEF P!budgetVars, P!programVars
<1>1. PortfolioGrows /\ plans' \in Nat
  BY DEF PortfolioGrows, PortfolioInv, P!TypeOK, Bounds
<1>2. /\ call' \in [Call -> P!CallState]
      /\ \A d \in Call : PortfolioCall(call[d])'
  BY <1>1, PortfolioCalls
<1>3. P!TypeOK'
  BY <1>2 DEF PortfolioInv, P!TypeOK
<1>4. LedgerCoversEscrow'
  <2>1. Cardinality(reservation) \in Nat /\ reserved \in Nat
    BY ReservationsAreFinite DEF PortfolioInv, P!TypeOK, Bounds
  <2>2. /\ Cardinality(Escrowing) \in Nat /\ Cardinality(Escrowing') \in Nat
        /\ Cardinality(Escrowing') <= Cardinality(Escrowing)
    BY EscrowingStep
  <2>3. Cardinality(reservation) + Cardinality(Escrowing) <= reserved
    BY DEF PortfolioInv, LedgerCoversEscrow
  <2>4. Cardinality(reservation) + Cardinality(Escrowing') <= reserved
    BY <2>1, <2>2, <2>3
  <2> QED
    BY <2>4 DEF LedgerCoversEscrow
<1>5. PortfolioRows'
  <2>1. portfolio.revision \in Nat \ {0}
    BY DEF Bounds, PortfolioInv, P!TypeOK, P!Portfolio
  <2>2. CASE portfolio' = portfolio
    BY <2>2 DEF PortfolioInv, PortfolioRows, P!CompletionIsRecorded
  <2>3. CASE portfolio' # portfolio
    <3>1. portfolio'.revision # 1
      BY <2>1, <2>3
    <3>2. /\ portfolio.status # "COMPLETED" /\ portfolio'.status # "COMPLETED"
          /\ portfolio'.status \notin {"ADMITTED", "ANALYZING", "FAILED"} => plans # 0
      BY <2>3, PortfolioTransitions DEF PortfolioInv, PortfolioRows
    <3> QED
      BY <3>1, <3>2 DEF PortfolioInv, PortfolioRows, P!CompletionIsRecorded
  <2> QED
    BY <2>2, <2>3
<1> QED
  BY <1>2, <1>3, <1>4, <1>5 DEF PortfolioInv

\* What a call has seen of the row: the row, what it had seen before, or the first row.
LEMMA PortfolioReads ==
  ASSUME Bounds, PortfolioInv, NEW c \in Call, NEW k \in P!CallState,
         k.seen \in {portfolio, call[c].seen, P!NewPortfolio}
  PROVE  PortfolioRead(k)
<1>1. portfolio.revision \in Nat \ {0}
  BY DEF Bounds, PortfolioInv, P!TypeOK, P!Portfolio
<1>2. P!NewPortfolio.revision = 1
  BY DEF P!NewPortfolio
<1>3. PortfolioRead(call[c])
  BY DEF PortfolioInv, PortfolioCall
<1>4. portfolio.revision = 1 => portfolio = P!NewPortfolio
  BY DEF PortfolioInv, PortfolioRows
<1> QED
  BY <1>1, <1>2, <1>3, <1>4 DEF PortfolioRead

\* A step that moves nothing but its call.
LEMMA PortfolioQuiet ==
  ASSUME Bounds, PortfolioInv,
         NEW c \in Call, NEW k \in P!CallState, call' = [call EXCEPT ![c] = k],
         k.pc # "reserve",
         k.seen \in {portfolio, call[c].seen, P!NewPortfolio},
         PortfolioRequest(k), PortfolioEffect(k),
         UNCHANGED <<P!planVars, P!requestVars, P!budgetVars, P!programVars, completion>>
  PROVE  PortfolioInv'
<1> USE DEF P!planVars, P!requestVars, P!budgetVars, P!programVars
<1>1. PortfolioCall(k)'
  BY PortfolioReads DEF PortfolioCall, PortfolioRead, PortfolioRequest, PortfolioEffect
<1>2. portfolio' \in P!Portfolio /\ store' \in [Call -> [P!Plan -> 0 .. MaxIssues]]
  BY DEF PortfolioInv, P!TypeOK
<1> QED
  BY <1>1, <1>2, PortfolioMoves

\* A step that begins with a transition and goes on with the row it wrote.
LEMMA PortfolioGoesOn ==
  ASSUME Bounds, PortfolioInv,
         NEW c \in Call, NEW status \in P!PortfolioState, NEW state \in P!CallState,
         P!MoveAndGoOn(c, status, state),
         <<portfolio.status, status>> \in P!Transitions,
         status \notin {"COMPLETED", "PLANNED"},
         state.pc # "reserve",
         PortfolioRequest(state), PortfolioEffect(state),
         UNCHANGED <<plans, P!requestVars, P!budgetVars, P!programVars, completion>>
  PROVE  PortfolioInv'
<1> USE DEF P!requestVars, P!budgetVars, P!programVars
<1>1. PICK p : p = portfolio'
  OBVIOUS
<1>2. PICK k : k = [state EXCEPT !.seen = p]
  OBVIOUS
<1>3. /\ p \in P!Portfolio
      /\ p.revision = portfolio.revision + 1
      /\ p.status = status
  <2>1. portfolio \in P!Portfolio /\ portfolio.revision \in Nat \ {0}
          /\ portfolio.revision < MaxWrites
    BY DEF P!MoveAndGoOn, Bounds, PortfolioInv, P!TypeOK, P!Portfolio
  <2>2. portfolio.revision + 1 \in 1 .. MaxWrites
    BY <2>1 DEF Bounds
  <2>3. p = [portfolio EXCEPT !.status = status, !.revision = portfolio.revision + 1]
    BY <1>1 DEF P!MoveAndGoOn, P!Moved
  <2> QED
    BY <2>1, <2>2, <2>3 DEF P!Portfolio
<1>4. /\ k \in P!CallState /\ k.seen = p
      /\ k.pc = state.pc /\ k.plan = state.plan /\ k.request = state.request
      /\ k.decision = state.decision /\ k.proposal = state.proposal /\ k.read = state.read
  BY <1>2, <1>3 DEF P!CallState
<1>5. call' = [call EXCEPT ![c] = k]
  BY <1>1, <1>2 DEF P!MoveAndGoOn, P!Enter
<1>6. PortfolioRequest(k)' /\ PortfolioEffect(k)'
  BY <1>4 DEF PortfolioRequest, PortfolioEffect
<1>7. PortfolioRead(k)'
  BY <1>1, <1>3, <1>4 DEF PortfolioRead, P!Portfolio
<1>8. store' \in [Call -> [P!Plan -> 0 .. MaxIssues]]
  BY DEF PortfolioInv, P!TypeOK
<1> QED
  BY <1>1, <1>3, <1>4, <1>5, <1>6, <1>7, <1>8, PortfolioMoves DEF PortfolioCall

\* A step that ends with a transition of the row that was read, or throws.
LEMMA PortfolioEnds ==
  ASSUME Bounds, PortfolioInv,
         NEW c \in Call, NEW new,
         P!MoveAndReturn(c, new),
         new \in [status: P!PortfolioState, revision: Nat, plan: 0 .. MaxPlans],
         new.revision = call[c].seen.revision + 1,
         new.status # "COMPLETED",
         new.status = "PLANNED" => plans # 0,
         UNCHANGED <<plans, P!requestVars, P!budgetVars, P!programVars, completion>>
  PROVE  PortfolioInv'
<1> USE DEF P!requestVars, P!budgetVars, P!programVars
<1>1. /\ call \in [Call -> P!CallState] /\ portfolio \in P!Portfolio
      /\ portfolio.revision \in Nat /\ portfolio.revision < MaxWrites
  BY DEF P!MoveAndReturn, Bounds, PortfolioInv, P!TypeOK, P!Portfolio
<1>2. PortfolioRead(call[c])
  BY DEF PortfolioInv, PortfolioCall
<1>3. \/ portfolio' = portfolio
      \/ /\ portfolio' = new
         /\ portfolio'.revision = portfolio.revision + 1
         /\ <<portfolio.status, new.status>> \in P!Transitions
  BY <1>2 DEF P!MoveAndReturn, P!MayMove, PortfolioRead
<1>4. portfolio' \in P!Portfolio
  BY <1>1, <1>3 DEF P!Portfolio, Bounds
<1>5. call' = [call EXCEPT ![c] = P!Idle]
  BY DEF P!MoveAndReturn, P!Return
<1>6. PortfolioGrows
  BY <1>3 DEF PortfolioGrows, PortfolioInv, P!TypeOK, Bounds
<1>7. P!Idle \in P!CallState /\ P!Idle.pc # "reserve" /\ PortfolioCall(P!Idle)'
  BY <1>6, PortfolioIdle, PortfolioReturns DEF P!Idle
<1>8. store' \in [Call -> [P!Plan -> 0 .. MaxIssues]]
  BY DEF PortfolioInv, P!TypeOK
<1> QED
  BY <1>3, <1>4, <1>5, <1>7, <1>8, PortfolioMoves

\* A transition writes a row of the next revision.
LEMMA PortfolioMovedType ==
  ASSUME Bounds, NEW p \in P!Portfolio, NEW status \in P!PortfolioState
  PROVE  /\ P!Moved(p, status) \in [status: P!PortfolioState, revision: Nat, plan: 0 .. MaxPlans]
         /\ P!Moved(p, status).revision = p.revision + 1
         /\ P!Moved(p, status).status = status
<1>1. p.revision + 1 \in Nat /\ p \in [status: P!PortfolioState, revision: Nat, plan: 0 .. MaxPlans]
  BY DEF Bounds, P!Portfolio
<1> QED
  BY <1>1 DEF P!Moved

\* The same for an operation that changes nothing but the status.
LEMMA PortfolioConcludes ==
  ASSUME Bounds, PortfolioInv,
         NEW c \in Call, NEW status \in P!PortfolioState \ {"COMPLETED", "PLANNED"},
         P!MoveAndReturn(c, P!Moved(call[c].seen, status)),
         UNCHANGED <<plans, P!requestVars, P!budgetVars, P!programVars, completion>>
  PROVE  PortfolioInv'
<1>1. call[c].seen \in P!Portfolio
  BY DEF PortfolioInv, P!TypeOK, P!CallState
<1>2. PICK new : new = P!Moved(call[c].seen, status)
  OBVIOUS
<1>3. /\ new \in [status: P!PortfolioState, revision: Nat, plan: 0 .. MaxPlans]
      /\ new.revision = call[c].seen.revision + 1
      /\ new.status = status
  BY <1>1, <1>2, PortfolioMovedType
<1> QED
  BY <1>2, <1>3, PortfolioEnds

\* analyze, plan and validate: a plan is inserted, and then the row adopts it.
LEMMA PortfolioPlanning ==
  ASSUME Bounds, PortfolioInv, NEW c \in Call, P!PlanningStep(c)
  PROVE  PortfolioInv'
<1> USE DEF P!requestVars, P!budgetVars, P!programVars, P!planVars
<1>0. /\ call \in [Call -> P!CallState] /\ portfolio \in P!Portfolio /\ plans \in 0 .. MaxPlans
      /\ portfolio.plan \in 0 .. MaxPlans
      /\ PortfolioCall(call[c])
  BY DEF PortfolioInv, P!TypeOK, P!Portfolio
<1>t. P!Idle \in P!CallState /\ P!Idle.pc = "idle"
  BY PortfolioIdle DEF P!Idle
<1>1. CASE P!Analyze(c)
  <2>1. PortfolioRequest(P!Idle) /\ PortfolioEffect(P!Idle)
    BY <1>t DEF PortfolioRequest, PortfolioEffect, Materializing
  <2>2. <<portfolio.status, "ANALYZING">> \in P!Transitions
    BY <1>1 DEF P!Analyze, P!Transitions
  <2> QED
    BY <1>1, <1>t, <2>1, <2>2, PortfolioGoesOn DEF P!Analyze, P!PortfolioState
<1>2. CASE P!StartPlan(c)
  <2>1. PICK state : state = [P!Idle EXCEPT !.pc = "insert", !.plan = portfolio.plan + 1]
    OBVIOUS
  <2>2. portfolio.plan + 1 \in P!Plan /\ portfolio.plan + 1 \in 0 .. MaxPlans
    BY <1>0, <1>2 DEF P!StartPlan, P!Plan, Bounds
  <2>3. /\ state \in P!CallState /\ state.pc = "insert" /\ state.plan = portfolio.plan + 1
    BY <1>t, <2>1, <2>2 DEF P!CallState, P!PC
  <2>4. PortfolioRequest(state) /\ PortfolioEffect(state)
    BY <2>2, <2>3 DEF PortfolioRequest, PortfolioEffect, Materializing
  <2>5. CASE portfolio.status = "ANALYZING"
    <3>1. PICK k : k = [state EXCEPT !.seen = portfolio]
      OBVIOUS
    <3>2. /\ k \in P!CallState /\ k.pc = "insert" /\ k.plan = portfolio.plan + 1
          /\ k.seen = portfolio
      BY <1>0, <2>3, <3>1 DEF P!CallState
    <3>3. PortfolioRequest(k) /\ PortfolioEffect(k)
      BY <2>2, <3>2 DEF PortfolioRequest, PortfolioEffect, Materializing
    <3>4. call' = [call EXCEPT ![c] = k] /\ UNCHANGED <<P!planVars, P!requestVars, P!budgetVars,
                                                        P!programVars, completion>>
      BY <1>2, <2>1, <2>5, <3>1 DEF P!StartPlan, P!Enter
    <3> QED
      BY <3>2, <3>3, <3>4, PortfolioQuiet
  <2>6. CASE portfolio.status # "ANALYZING"
    <3>1. P!MoveAndGoOn(c, "ANALYZING", state)
      BY <1>2, <2>1, <2>6 DEF P!StartPlan
    <3>2. <<portfolio.status, "ANALYZING">> \in P!Transitions
      BY <1>2, <2>6 DEF P!StartPlan, P!Transitions
    <3> QED
      BY <1>2, <2>3, <2>4, <3>1, <3>2, PortfolioGoesOn DEF P!StartPlan, P!PortfolioState
  <2> QED
    BY <2>5, <2>6
<1>3. CASE P!InsertPlan(c)
  <2>1. call[c].plan \in P!Plan /\ call[c].pc = "insert" /\ call[c] \in P!CallState
    BY <1>0, <1>3 DEF P!InsertPlan, P!At, PortfolioCall, PortfolioRequest
  <2>2. CASE call[c].plan > plans
    <3>1. PICK k : k = [call[c] EXCEPT !.pc = "adopt"]
      OBVIOUS
    <3>2. /\ k \in P!CallState /\ k.pc = "adopt" /\ k.plan = call[c].plan /\ k.seen = call[c].seen
      BY <2>1, <3>1 DEF P!CallState, P!PC
    <3>3. call' = [call EXCEPT ![c] = k] /\ plans' = k.plan
      BY <1>0, <1>3, <2>2, <3>1, <3>2 DEF P!InsertPlan, P!GoTo
    <3>4. UNCHANGED <<portfolio, P!requestVars, P!budgetVars, P!programVars, completion>>
      BY <1>3 DEF P!InsertPlan
    <3>5. plans' \in 1 .. MaxPlans /\ plans <= plans' /\ plans' \in Nat /\ plans' # 0
      BY <1>0, <2>1, <2>2, <3>2, <3>3 DEF P!Plan, Bounds
    <3>6. PortfolioGrows
      BY <3>4, <3>5 DEF PortfolioGrows
    <3>7. PortfolioCall(k)'
      <4>1. PortfolioRead(k)'
        BY <1>0, <3>2, <3>4 DEF PortfolioRead, PortfolioCall
      <4> QED
        BY <2>1, <3>2, <3>3, <3>5, <4>1
        DEF PortfolioCall, PortfolioRequest, PortfolioEffect, Materializing, P!Plan
    <3>8. /\ call' \in [Call -> P!CallState]
          /\ \A d \in Call : PortfolioCall(call[d])'
      BY <3>2, <3>3, <3>5, <3>6, <3>7, PortfolioCalls
    <3>9. P!TypeOK'
      BY <3>4, <3>5, <3>8 DEF PortfolioInv, P!TypeOK
    <3>10. PortfolioRows'
      BY <3>4, <3>5 DEF PortfolioInv, PortfolioRows, P!CompletionIsRecorded
    <3>11. Escrowing' = Escrowing
      BY <1>0, <2>1, <3>2, <3>3 DEF Escrowing, P!At
    <3>12. LedgerCoversEscrow'
      BY <3>4, <3>11 DEF PortfolioInv, LedgerCoversEscrow
    <3> QED
      BY <3>8, <3>9, <3>10, <3>12 DEF PortfolioInv
  <2>3. CASE ~(call[c].plan > plans)
    <3>1. call' = [call EXCEPT ![c] = P!Idle] /\ UNCHANGED plans
      BY <1>3, <2>3 DEF P!InsertPlan, P!Return
    <3>2. PortfolioRequest(P!Idle) /\ PortfolioEffect(P!Idle) /\ P!Idle.seen = P!NewPortfolio
      BY <1>t DEF PortfolioRequest, PortfolioEffect, Materializing, P!Idle
    <3>3. UNCHANGED <<P!planVars, P!requestVars, P!budgetVars, P!programVars, completion>>
      BY <1>3, <3>1 DEF P!InsertPlan
    <3> QED
      BY <1>t, <3>1, <3>2, <3>3, PortfolioQuiet
  <2> QED
    BY <2>2, <2>3
<1>4. CASE P!AdoptPlan(c)
  <2>1. PICK new : new = [P!Moved(call[c].seen, "PLANNED") EXCEPT !.plan = call[c].plan]
    OBVIOUS
  <2>2. call[c].seen \in P!Portfolio /\ call[c].plan \in 0 .. MaxPlans
    BY <1>0 DEF P!CallState
  <2>3. /\ new \in [status: P!PortfolioState, revision: Nat, plan: 0 .. MaxPlans]
        /\ new.revision = call[c].seen.revision + 1
        /\ new.status = "PLANNED"
    <3>1. PICK m : m = P!Moved(call[c].seen, "PLANNED")
      OBVIOUS
    <3>2. /\ m \in [status: P!PortfolioState, revision: Nat, plan: 0 .. MaxPlans]
          /\ m.revision = call[c].seen.revision + 1 /\ m.status = "PLANNED"
      BY <2>2, <3>1, PortfolioMovedType DEF P!PortfolioState
    <3> QED
      BY <2>1, <2>2, <3>1, <3>2
  <2>4. plans # 0
    BY <1>0, <1>4 DEF P!AdoptPlan, P!At, PortfolioCall, PortfolioRequest
  <2> QED
    BY <1>4, <2>1, <2>3, <2>4, PortfolioEnds DEF P!AdoptPlan
<1>5. CASE P!StartValidate(c)
  <2>1. PICK state : state = [P!Idle EXCEPT !.pc = "validated"]
    OBVIOUS
  <2>2. PICK k : k = [P!Idle EXCEPT !.pc = "validated", !.seen = portfolio]
    OBVIOUS
  <2>3. /\ state \in P!CallState /\ state.pc = "validated"
        /\ k \in P!CallState /\ k.pc = "validated" /\ k.seen = portfolio
    BY <1>0, <1>t, <2>1, <2>2 DEF P!CallState, P!PC
  <2>4. /\ PortfolioRequest(state) /\ PortfolioEffect(state)
        /\ PortfolioRequest(k) /\ PortfolioEffect(k)
    BY <2>3 DEF PortfolioRequest, PortfolioEffect, Materializing
  <2>5. CASE portfolio.status = "PLANNED"
    <3>1. P!MoveAndGoOn(c, "VALIDATING", state)
      BY <1>5, <2>1, <2>5 DEF P!StartValidate
    <3>2. <<portfolio.status, "VALIDATING">> \in P!Transitions
      BY <2>5 DEF P!Transitions
    <3> QED
      BY <1>5, <2>3, <2>4, <3>1, <3>2, PortfolioGoesOn DEF P!StartValidate, P!PortfolioState
  <2>6. CASE portfolio.status # "PLANNED"
    <3>1. call' = [call EXCEPT ![c] = k] /\ UNCHANGED <<P!planVars, P!requestVars, P!budgetVars,
                                                        P!programVars, completion>>
      BY <1>5, <2>2, <2>6 DEF P!StartValidate, P!Enter
    <3> QED
      BY <2>3, <2>4, <3>1, PortfolioQuiet
  <2> QED
    BY <2>5, <2>6
<1>6. CASE P!FinishValidate(c)
  BY <1>6, PortfolioConcludes DEF P!FinishValidate, P!PortfolioState
<1> QED
  BY <1>1, <1>2, <1>3, <1>4, <1>5, <1>6 DEF P!PlanningStep

\* A call that goes on with what it carries.
LEMMA PortfolioGoTo ==
  ASSUME PortfolioInv, NEW c \in Call, NEW pc \in P!PC, P!GoTo(c, pc)
  PROVE  \E k \in P!CallState :
           /\ call' = [call EXCEPT ![c] = k]
           /\ k.pc = pc /\ k.seen = call[c].seen /\ k.plan = call[c].plan
           /\ k.request = call[c].request /\ k.decision = call[c].decision
           /\ k.proposal = call[c].proposal /\ k.read = call[c].read
           /\ k.outcome = call[c].outcome
<1>1. call \in [Call -> P!CallState] /\ call[c] \in P!CallState
  BY DEF PortfolioInv, P!TypeOK
<1>2. PICK k : k = [call[c] EXCEPT !.pc = pc]
  OBVIOUS
<1>3. call' = [call EXCEPT ![c] = k]
  BY <1>1, <1>2 DEF P!GoTo
<1>4. /\ k \in P!CallState
      /\ k.pc = pc /\ k.seen = call[c].seen /\ k.plan = call[c].plan
      /\ k.request = call[c].request /\ k.decision = call[c].decision
      /\ k.proposal = call[c].proposal /\ k.read = call[c].read
      /\ k.outcome = call[c].outcome
  BY <1>1, <1>2 DEF P!CallState
<1> QED
  BY <1>3, <1>4

\* Steps on the requests for an authorization.
LEMMA PortfolioDecides ==
  ASSUME Bounds, PortfolioInv,
         NEW c \in Call, NEW k \in P!CallState, call' = [call EXCEPT ![c] = k],
         k.pc # "reserve",
         k.seen \in {portfolio, call[c].seen, P!NewPortfolio},
         PortfolioRequest(k)', PortfolioEffect(k)',
         UNCHANGED <<P!planVars, P!budgetVars, P!programVars, completion>>,
         request' \in [P!Plan -> P!Request(MaxIssues)],
         \A v \in P!Plan : request'[v].status = "PENDING" => request'[v].revision = 1,
         record' \subseteq P!Plan, issued' \in 0 .. MaxIssues,
         store' \in [Call -> [P!Plan -> 0 .. MaxIssues]],
         known' \subseteq 1 .. MaxIssues,
         verdicts' \subseteq P!Plan \X {"APPROVE", "REJECT"},
         verdicts \subseteq verdicts',
         \A v \in record' : <<v, "APPROVE">> \in verdicts'
  PROVE  PortfolioInv'
<1> USE DEF P!planVars, P!budgetVars, P!programVars
<1>1. PortfolioGrows /\ plans' \in Nat
  BY DEF PortfolioGrows, PortfolioInv, P!TypeOK, Bounds
<1>2. PortfolioCall(k)'
  BY PortfolioReads DEF PortfolioCall, PortfolioRead
<1>3. /\ call' \in [Call -> P!CallState]
      /\ \A d \in Call : PortfolioCall(call[d])'
  BY <1>1, <1>2, PortfolioCalls
<1>4. P!TypeOK'
  BY <1>3 DEF PortfolioInv, P!TypeOK
<1>5. LedgerCoversEscrow'
  <2>1. Cardinality(reservation) \in Nat /\ reserved \in Nat
    BY ReservationsAreFinite DEF PortfolioInv, P!TypeOK, Bounds
  <2>2. /\ Cardinality(Escrowing) \in Nat /\ Cardinality(Escrowing') \in Nat
        /\ Cardinality(Escrowing') <= Cardinality(Escrowing)
    BY EscrowingStep
  <2>3. Cardinality(reservation) + Cardinality(Escrowing) <= reserved
    BY DEF PortfolioInv, LedgerCoversEscrow
  <2>4. Cardinality(reservation) + Cardinality(Escrowing') <= reserved
    BY <2>1, <2>2, <2>3
  <2> QED
    BY <2>4 DEF LedgerCoversEscrow
<1>6. PortfolioRows'
  BY DEF PortfolioInv, PortfolioRows, P!CompletionIsRecorded
<1> QED
  BY <1>3, <1>4, <1>5, <1>6 DEF PortfolioInv

\* The request that a decision has read, written back with another status.
LEMMA PortfolioSettles ==
  ASSUME Bounds, PortfolioInv, NEW c \in Call, NEW status \in {"SETTLED", "EXPIRED"},
         call[c].request.revision = 1, call[c].plan \in P!Plan, P!Settle(c, status)
  PROVE  /\ request' \in [P!Plan -> P!Request(MaxIssues)]
         /\ \A v \in P!Plan : request'[v].status = "PENDING" => request'[v].revision = 1
<1>1. request \in [P!Plan -> P!Request(MaxIssues)] /\ call[c].request \in P!Request(MaxIssues)
  BY DEF PortfolioInv, P!TypeOK, P!CallState
<1>2. PICK r : r = P!Settled(call[c].request, status)
  OBVIOUS
<1>3. r \in P!Request(MaxIssues) /\ r.status = status
  <2>1. PICK q \in P!Request(MaxIssues) : q = call[c].request
    BY <1>1
  <2>2. r = [q EXCEPT !.status = status, !.revision = 2]
    BY <1>2, <2>1 DEF P!Settled
  <2>3. q.issue \in 0 .. MaxIssues /\ 2 \in 0 .. 2
    BY DEF P!Request
  <2>4. r = [status |-> status, issue |-> q.issue, revision |-> 2]
    BY <2>2 DEF P!Request
  <2>5. status \in {"NONE", "PENDING", "SETTLED", "EXPIRED"}
    OBVIOUS
  <2> QED
    BY <2>3, <2>4, <2>5 DEF P!Request
<1>4. request' = [request EXCEPT ![call[c].plan] = r]
  BY <1>2 DEF P!Settle
<1>5. \A v \in P!Plan : request[v].status = "PENDING" => request[v].revision = 1
  BY DEF PortfolioInv, PortfolioRows
<1> QED
  BY <1>1, <1>3, <1>4, <1>5

\* routeAuthorization and decideAuthorization: what is settled is the request that was
\* read, and the verdict precedes the record and the move.
LEMMA PortfolioAuthorization ==
  ASSUME Bounds, PortfolioInv, NEW c \in Call, P!AuthorizationStep(c)
  PROVE  PortfolioInv'
<1> USE DEF P!requestVars, P!budgetVars, P!programVars, P!planVars
<1>0. /\ call \in [Call -> P!CallState] /\ call[c] \in P!CallState
      /\ portfolio \in P!Portfolio /\ plans \in 0 .. MaxPlans
      /\ request \in [P!Plan -> P!Request(MaxIssues)] /\ record \subseteq P!Plan
      /\ issued \in 0 .. MaxIssues /\ store \in [Call -> [P!Plan -> 0 .. MaxIssues]]
      /\ known \subseteq 1 .. MaxIssues
      /\ verdicts \subseteq P!Plan \X {"APPROVE", "REJECT"}
      /\ PortfolioRequest(call[c]) /\ PortfolioEffect(call[c])
      /\ \A v \in P!Plan : request[v].status = "PENDING" => request[v].revision = 1
      /\ \A v \in record : <<v, "APPROVE">> \in verdicts
  BY DEF PortfolioInv, P!TypeOK, PortfolioCall, PortfolioRows
<1>t. /\ P!Idle \in P!CallState /\ P!Idle.pc = "idle" /\ P!Idle.seen = P!NewPortfolio
      /\ PortfolioRequest(P!Idle)' /\ PortfolioEffect(P!Idle)'
  <2>1. P!Idle \in P!CallState /\ P!Idle.pc = "idle" /\ P!Idle.seen = P!NewPortfolio
    BY PortfolioIdle DEF P!Idle
  <2> QED
    BY <2>1 DEF PortfolioRequest, PortfolioEffect, Materializing
<1>1. CASE P!StartRoute(c)
  <2>1. PICK k : k = [P!Idle EXCEPT !.pc = "save", !.plan = plans]
    OBVIOUS
  <2>2. plans \in P!Plan
    BY <1>0, <1>1 DEF P!StartRoute, PortfolioInv, PortfolioRows, P!Plan, Bounds
  <2>3. /\ k \in P!CallState /\ k.pc = "save" /\ k.plan = plans /\ k.seen = P!NewPortfolio
    BY <1>0, <1>t, <2>1 DEF P!CallState, P!PC
  <2>4. PortfolioRequest(k) /\ PortfolioEffect(k)
    BY <2>2, <2>3 DEF PortfolioRequest, PortfolioEffect, Materializing
  <2>5. /\ call' = [call EXCEPT ![c] = k]
        /\ UNCHANGED <<P!planVars, P!requestVars, P!budgetVars, P!programVars, completion>>
    BY <1>1, <2>1 DEF P!StartRoute, P!Enter
  <2> QED
    BY <2>3, <2>4, <2>5, PortfolioQuiet
<1>2. CASE P!SaveRequest(c)
  <2>1. call[c].plan \in P!Plan
    BY <1>0, <1>2 DEF P!SaveRequest, P!At, PortfolioRequest
  <2>2. issued' \in 0 .. MaxIssues /\ issued' # 0
    BY <1>0, <1>2 DEF P!SaveRequest, Bounds
  <2>3. PICK r : r = P!Fresh(issued')
    OBVIOUS
  <2>4. r \in P!Request(MaxIssues) /\ r.issue = issued' /\ r.revision = 1
    BY <2>2, <2>3 DEF P!Fresh, P!Request
  <2>5. request' = [request EXCEPT ![call[c].plan] = r]
    BY <1>2, <2>3 DEF P!SaveRequest
  <2>6. request'[call[c].plan] = r /\ request' \in [P!Plan -> P!Request(MaxIssues)]
    BY <1>0, <2>1, <2>4, <2>5
  <2>7. \A v \in P!Plan : request'[v].status = "PENDING" => request'[v].revision = 1
    BY <1>0, <2>4, <2>5
  <2>8. PICK k : k = [call[c] EXCEPT !.pc = "put", !.request = r]
    OBVIOUS
  <2>9. /\ k \in P!CallState /\ k.pc = "put" /\ k.plan = call[c].plan
        /\ k.request = r /\ k.seen = call[c].seen
    BY <1>0, <2>4, <2>8 DEF P!CallState, P!PC
  <2>10. call' = [call EXCEPT ![c] = k]
    <3>1. PICK w : w = request'[call[c].plan]
      OBVIOUS
    <3>2. call' = [call EXCEPT ![c].pc = "put", ![c].request = w]
      BY <1>2, <3>1 DEF P!SaveRequest
    <3>3. call' = [call EXCEPT ![c] = [call[c] EXCEPT !.pc = "put", !.request = w]]
      BY <1>0, <3>2
    <3> QED
      BY <2>6, <2>8, <3>1, <3>3
  <2>11. PortfolioRequest(k)' /\ PortfolioEffect(k)'
    BY <2>1, <2>2, <2>4, <2>9 DEF PortfolioRequest, PortfolioEffect, Materializing
  <2>12. UNCHANGED <<P!planVars, record, store, known, verdicts, P!budgetVars, P!programVars,
                     completion>>
    BY <1>2 DEF P!SaveRequest
  <2> QED
    BY <1>0, <2>2, <2>6, <2>7, <2>9, <2>10, <2>11, <2>12, PortfolioDecides
<1>3. CASE P!PutNonce(c)
  <2>1. /\ call[c].plan \in P!Plan /\ call[c].request.issue \in 1 .. MaxIssues
    BY <1>0, <1>3 DEF P!PutNonce, P!At, PortfolioRequest, P!CallState, P!Request, Bounds
  <2>2. known' \subseteq 1 .. MaxIssues
    BY <1>0, <1>3, <2>1 DEF P!PutNonce
  <2>3. store' \in [Call -> [P!Plan -> 0 .. MaxIssues]]
    <3>1. PICK n \in 0 .. MaxIssues : n = call[c].request.issue
      BY <2>1 DEF Bounds
    <3>2. PICK v \in P!Plan : v = call[c].plan
      BY <2>1
    <3>3. store' = [store EXCEPT ![c] = [store[c] EXCEPT ![v] = n]]
      BY <1>0, <1>3, <3>1, <3>2 DEF P!PutNonce
    <3>4. [store[c] EXCEPT ![v] = n] \in [P!Plan -> 0 .. MaxIssues]
      BY <1>0
    <3> QED
      BY <1>0, <3>3, <3>4
  <2>4. call' = [call EXCEPT ![c] = P!Idle]
    BY <1>3 DEF P!PutNonce, P!Return
  <2>5. UNCHANGED <<P!planVars, request, record, issued, verdicts, P!budgetVars, P!programVars,
                    completion>>
    BY <1>3 DEF P!PutNonce
  <2> QED
    BY <1>0, <1>t, <2>2, <2>3, <2>4, <2>5, PortfolioDecides
<1>4. CASE P!StartDecide(c)
  <2>1. PICK v \in P!PendingIn(request), d \in {"NONE", "APPROVE", "REJECT"} :
          P!Enter(c, [P!Idle EXCEPT !.pc = IF d = "NONE" THEN "expire" ELSE "allocator",
                                    !.plan = v, !.request = request[v], !.decision = d])
    BY <1>4 DEF P!StartDecide
  <2>2. v \in P!Plan /\ request[v].revision = 1 /\ request[v] \in P!Request(MaxIssues)
    BY <1>0, <2>1 DEF P!PendingIn
  <2>3. PICK pc : pc = IF d = "NONE" THEN "expire" ELSE "allocator"
    OBVIOUS
  <2>4. PICK r : r = request[v]
    OBVIOUS
  <2>5. PICK k : k = [P!Idle EXCEPT !.pc = pc, !.plan = v, !.request = r, !.decision = d]
    OBVIOUS
  <2>6. pc \in P!PC /\ v \in 0 .. MaxPlans /\ r \in P!Request(MaxIssues)
    BY <2>2, <2>3, <2>4 DEF P!PC, P!Plan, Bounds
  <2>7. /\ k \in P!CallState /\ k.pc = pc /\ k.plan = v /\ k.request = r /\ k.decision = d
        /\ k.seen = P!NewPortfolio
    BY <1>t, <2>5, <2>6 DEF P!CallState
  <2>8. PortfolioRequest(k) /\ PortfolioEffect(k)
    BY <2>2, <2>3, <2>4, <2>7 DEF PortfolioRequest, PortfolioEffect, Materializing
  <2>9. call' = [call EXCEPT ![c] = k]
    BY <2>1, <2>3, <2>4, <2>5 DEF P!Enter
  <2>10. UNCHANGED <<P!planVars, P!requestVars, P!budgetVars, P!programVars, completion>>
    BY <1>4 DEF P!StartDecide
  <2> QED
    BY <2>3, <2>7, <2>8, <2>9, <2>10, PortfolioQuiet
<1>5. CASE P!ExpireRequest(c)
  <2>1. call[c].request.revision = 1 /\ call[c].plan \in P!Plan
    BY <1>0, <1>5 DEF P!ExpireRequest, P!At, PortfolioRequest
  <2>2. /\ request' \in [P!Plan -> P!Request(MaxIssues)]
        /\ \A v \in P!Plan : request'[v].status = "PENDING" => request'[v].revision = 1
    BY <1>5, <2>1, PortfolioSettles DEF P!ExpireRequest
  <2>3. call' = [call EXCEPT ![c] = P!Idle]
    BY <1>5 DEF P!ExpireRequest, P!Return
  <2>4. UNCHANGED <<P!planVars, record, issued, store, known, verdicts, P!budgetVars,
                    P!programVars, completion>>
    BY <1>5 DEF P!ExpireRequest
  <2> QED
    BY <1>0, <1>t, <2>2, <2>3, <2>4, PortfolioDecides
<1>6. CASE P!CheckAllocator(c)
  <2>1. PICK k : k = [call[c] EXCEPT !.pc = "settle", !.seen = portfolio]
    OBVIOUS
  <2>2. /\ k \in P!CallState /\ k.pc = "settle" /\ k.seen = portfolio /\ k.plan = call[c].plan
        /\ k.request = call[c].request /\ k.decision = call[c].decision
    BY <1>0, <2>1 DEF P!CallState, P!PC
  <2>3. PortfolioRequest(k) /\ PortfolioEffect(k)
    BY <1>0, <1>6, <2>2 DEF P!CheckAllocator, P!At, PortfolioRequest, PortfolioEffect, Materializing
  <2>4. /\ call' = [call EXCEPT ![c] = k]
        /\ UNCHANGED <<P!planVars, P!requestVars, P!budgetVars, P!programVars, completion>>
    BY <1>0, <1>6, <2>1 DEF P!CheckAllocator
  <2> QED
    BY <2>2, <2>3, <2>4, PortfolioQuiet
<1>7. CASE P!SettleRequest(c)
  <2>1. /\ call[c].request.revision = 1 /\ call[c].plan \in P!Plan
        /\ call[c].decision \in {"APPROVE", "REJECT"}
    BY <1>0, <1>7 DEF P!SettleRequest, P!At, PortfolioRequest, P!CallState
  <2>2. /\ request' \in [P!Plan -> P!Request(MaxIssues)]
        /\ \A v \in P!Plan : request'[v].status = "PENDING" => request'[v].revision = 1
    BY <1>7, <2>1, PortfolioSettles DEF P!SettleRequest
  <2>3. PICK pc : pc = IF call[c].decision = "APPROVE" THEN "record" ELSE "replan"
    OBVIOUS
  <2>4. pc \in P!PC /\ P!GoTo(c, pc)
    BY <1>7, <2>3 DEF P!SettleRequest, P!PC
  <2>5. PICK k \in P!CallState :
           /\ call' = [call EXCEPT ![c] = k]
           /\ k.pc = pc /\ k.seen = call[c].seen /\ k.plan = call[c].plan
           /\ k.request = call[c].request /\ k.decision = call[c].decision
    BY <2>4, PortfolioGoTo
  <2>6. verdicts' = verdicts \cup {<<call[c].plan, call[c].decision>>}
    BY <1>7 DEF P!SettleRequest
  <2>7. PortfolioRequest(k)' /\ PortfolioEffect(k)'
    BY <2>1, <2>3, <2>5, <2>6 DEF PortfolioRequest, PortfolioEffect, Materializing
  <2>8. /\ verdicts' \subseteq P!Plan \X {"APPROVE", "REJECT"} /\ verdicts \subseteq verdicts'
        /\ \A v \in record : <<v, "APPROVE">> \in verdicts'
    BY <1>0, <2>1, <2>6
  <2>9. UNCHANGED <<P!planVars, record, issued, store, known, P!budgetVars, P!programVars,
                    completion>>
    BY <1>7 DEF P!SettleRequest
  <2>10. k.pc # "reserve"
    BY <2>3, <2>5
  <2> QED
    BY <1>0, <2>2, <2>5, <2>7, <2>8, <2>9, <2>10, PortfolioDecides
<1>8. CASE P!Replan(c)
  BY <1>8, PortfolioConcludes DEF P!Replan, P!PortfolioState
<1>9. CASE P!SaveRecord(c)
  <2>1. call[c].plan \in P!Plan /\ <<call[c].plan, "APPROVE">> \in verdicts
    BY <1>0, <1>9 DEF P!SaveRecord, P!At, PortfolioEffect
  <2>2. record' \subseteq P!Plan /\ \A v \in record' : <<v, "APPROVE">> \in verdicts
    BY <1>0, <1>9, <2>1 DEF P!SaveRecord
  <2>3. UNCHANGED <<P!planVars, request, issued, store, known, verdicts, P!budgetVars,
                    P!programVars, completion>>
    BY <1>9 DEF P!SaveRecord
  <2>4. CASE P!GoTo(c, "authorize")
    <3>1. PICK k \in P!CallState :
             call' = [call EXCEPT ![c] = k] /\ k.pc = "authorize" /\ k.seen = call[c].seen
      BY <2>4, PortfolioGoTo DEF P!PC
    <3>2. PortfolioRequest(k)' /\ PortfolioEffect(k)'
      BY <3>1 DEF PortfolioRequest, PortfolioEffect, Materializing
    <3> QED
      BY <1>0, <2>2, <2>3, <3>1, <3>2, PortfolioDecides
  <2>5. CASE P!Return(c)
    <3>1. call' = [call EXCEPT ![c] = P!Idle]
      BY <2>5 DEF P!Return
    <3> QED
      BY <1>0, <1>t, <2>2, <2>3, <3>1, PortfolioDecides
  <2> QED
    BY <1>9, <2>4, <2>5 DEF P!SaveRecord
<1>10. CASE P!Authorize(c)
  BY <1>10, PortfolioConcludes DEF P!Authorize, P!PortfolioState
<1> QED
  BY <1>1, <1>2, <1>3, <1>4, <1>5, <1>6, <1>7, <1>8, <1>9, <1>10 DEF P!AuthorizationStep

\* materializePrograms: the ledger is raised before the reservation, the reservation
\* made before the program is admitted.
LEMMA PortfolioMaterialization ==
  ASSUME Bounds, PortfolioInv, NEW c \in Call, P!MaterializationStep(c)
  PROVE  PortfolioInv'
<1> USE DEF P!requestVars, P!budgetVars, P!programVars, P!planVars
<1>0. /\ call \in [Call -> P!CallState] /\ call[c] \in P!CallState
      /\ portfolio \in P!Portfolio /\ plans \in 0 .. MaxPlans /\ record \subseteq P!Plan
      /\ reserved \in 0 .. Ceiling /\ reservation \subseteq P!Slot
      /\ lineage \in [P!Slot -> {"NONE", "LINKED", "FAILED"}]
      /\ program \in [P!Slot -> {"NONE", "ADMITTED", "PROVED", "UNPROVED"}]
      /\ PortfolioCall(call[c])
      /\ PortfolioRequest(call[c]) /\ PortfolioEffect(call[c])
      /\ \A v \in record : <<v, "APPROVE">> \in verdicts
  BY DEF PortfolioInv, P!TypeOK, PortfolioCall, PortfolioRows
<1>t. /\ P!Idle \in P!CallState /\ P!Idle.pc = "idle" /\ P!Idle.seen = P!NewPortfolio
      /\ PortfolioRequest(P!Idle) /\ PortfolioEffect(P!Idle)
  <2>1. P!Idle \in P!CallState /\ P!Idle.pc = "idle" /\ P!Idle.seen = P!NewPortfolio
    BY PortfolioIdle DEF P!Idle
  <2> QED
    BY <2>1 DEF PortfolioRequest, PortfolioEffect, Materializing
<1>s. /\ call[c].pc \in {"reserve", "admit", "link"} => P!SlotOf(c) \in P!Slot
      /\ P!SlotOf(c) = <<call[c].plan, call[c].proposal>>
  BY <1>0 DEF P!SlotOf, P!Slot, PortfolioEffect, Materializing
<1>1. CASE P!StartMaterialize(c)
  <2>1. PICK k : k = [P!Idle EXCEPT !.pc = "authorization"]
    OBVIOUS
  <2>2. k \in P!CallState /\ k.pc = "authorization" /\ k.seen = P!NewPortfolio
    BY <1>t, <2>1 DEF P!CallState, P!PC
  <2>3. PortfolioRequest(k) /\ PortfolioEffect(k)
    BY <2>2 DEF PortfolioRequest, PortfolioEffect, Materializing
  <2>4. /\ call' = [call EXCEPT ![c] = k]
        /\ UNCHANGED <<P!planVars, P!requestVars, P!budgetVars, P!programVars, completion>>
    BY <1>1, <2>1 DEF P!StartMaterialize, P!Enter
  <2> QED
    BY <2>2, <2>3, <2>4, PortfolioQuiet
<1>2. CASE P!FindAuthorization(c)
  <2>1. PICK k : k = [call[c] EXCEPT !.pc = "proposal", !.plan = plans, !.proposal = 1]
    OBVIOUS
  <2>2. 1 \in 0 .. Proposals + 1
    BY DEF Bounds
  <2>3. /\ k \in P!CallState /\ k.pc = "proposal" /\ k.plan = plans /\ k.proposal = 1
        /\ k.seen = call[c].seen
    BY <1>0, <2>1, <2>2 DEF P!CallState, P!PC
  <2>4. plans \in P!Plan /\ <<plans, "APPROVE">> \in verdicts
    BY <1>0, <1>2 DEF P!FindAuthorization
  <2>5. PortfolioRequest(k) /\ PortfolioEffect(k)
    BY <2>3, <2>4 DEF PortfolioRequest, PortfolioEffect, Materializing
  <2>6. /\ call' = [call EXCEPT ![c] = k]
        /\ UNCHANGED <<P!planVars, P!requestVars, P!budgetVars, P!programVars, completion>>
    BY <1>0, <1>2, <2>1 DEF P!FindAuthorization
  <2> QED
    BY <2>3, <2>5, <2>6, PortfolioQuiet
<1>n. ASSUME P!NextProposal(c), call[c].pc \in {"proposal", "link"}, call[c].proposal \in P!Proposal
      PROVE  \E k \in P!CallState :
               /\ call' = [call EXCEPT ![c] = k]
               /\ k.pc = "proposal" /\ k.seen = call[c].seen
               /\ PortfolioRequest(k) /\ PortfolioEffect(k)
  <2>1. PICK k : k = [call[c] EXCEPT !.pc = "proposal", !.proposal = call[c].proposal + 1,
                                     !.outcome = "NONE"]
    OBVIOUS
  <2>2. call[c].proposal + 1 \in 0 .. Proposals + 1 /\ call[c].proposal + 1 # 0
    BY <1>n DEF Bounds, P!Proposal
  <2>3. /\ k \in P!CallState /\ k.pc = "proposal" /\ k.plan = call[c].plan
        /\ k.proposal = call[c].proposal + 1 /\ k.seen = call[c].seen
    BY <1>0, <2>1, <2>2 DEF P!CallState, P!PC
  <2>4. PortfolioRequest(k) /\ PortfolioEffect(k)
    BY <1>0, <1>n, <2>2, <2>3 DEF PortfolioRequest, PortfolioEffect, Materializing
  <2>5. call' = [call EXCEPT ![c] = k]
    BY <1>0, <1>n, <2>1 DEF P!NextProposal
  <2> QED
    BY <2>3, <2>4, <2>5
<1>3. CASE P!LookUpProposal(c)
  <2>1. UNCHANGED <<P!planVars, P!requestVars, P!budgetVars, P!programVars, completion>>
    BY <1>3 DEF P!LookUpProposal
  <2>2. CASE call[c].proposal > Proposals
    <3>1. PICK k \in P!CallState :
             call' = [call EXCEPT ![c] = k] /\ k.pc = "activate" /\ k.seen = call[c].seen
      BY <1>3, <2>2, PortfolioGoTo DEF P!LookUpProposal, P!PC
    <3>2. PortfolioRequest(k) /\ PortfolioEffect(k)
      BY <3>1 DEF PortfolioRequest, PortfolioEffect, Materializing
    <3> QED
      BY <2>1, <3>1, <3>2, PortfolioQuiet
  <2>3. CASE ~(call[c].proposal > Proposals)
    <3>0. call[c].proposal \in P!Proposal /\ call[c].pc = "proposal"
      BY <1>0, <1>3, <2>3 DEF P!LookUpProposal, P!At, PortfolioEffect, Materializing, P!CallState,
         Bounds,
         P!Proposal
    <3>1. CASE lineage[P!SlotOf(c)] = "LINKED"
      <4>1. P!NextProposal(c)
        BY <1>3, <2>3, <3>1 DEF P!LookUpProposal
      <4>2. PICK k \in P!CallState :
               /\ call' = [call EXCEPT ![c] = k]
               /\ k.pc = "proposal" /\ k.seen = call[c].seen
               /\ PortfolioRequest(k) /\ PortfolioEffect(k)
        BY <1>n, <3>0, <4>1
      <4> QED
        BY <2>1, <4>2, PortfolioQuiet
    <3>2. CASE lineage[P!SlotOf(c)] # "LINKED"
      <4>1. PICK pc : pc = IF P!SlotOf(c) \in reservation THEN "admit" ELSE "ledger"
        OBVIOUS
      <4>2. pc \in P!PC /\ P!GoTo(c, pc)
        BY <1>3, <2>3, <3>2, <4>1 DEF P!LookUpProposal, P!PC
      <4>3. PICK k \in P!CallState :
               /\ call' = [call EXCEPT ![c] = k] /\ k.pc = pc /\ k.seen = call[c].seen
               /\ k.plan = call[c].plan /\ k.proposal = call[c].proposal
        BY <4>2, PortfolioGoTo
      <4>4. k.pc = "admit" => <<k.plan, k.proposal>> \in reservation
        BY <1>s, <4>1, <4>3
      <4>5. PortfolioRequest(k) /\ PortfolioEffect(k) /\ k.pc # "reserve"
        BY <1>0, <3>0, <4>1, <4>3, <4>4 DEF PortfolioRequest, PortfolioEffect, Materializing
      <4> QED
        BY <2>1, <4>3, <4>5, PortfolioQuiet
    <3> QED
      BY <3>1, <3>2
  <2> QED
    BY <2>2, <2>3
<1>4. CASE P!ReadLedger(c)
  <2>1. PICK k : k = [call[c] EXCEPT !.pc = "cas", !.read = reserved]
    OBVIOUS
  <2>2. /\ k \in P!CallState /\ k.pc = "cas" /\ k.read = reserved /\ k.plan = call[c].plan
        /\ k.proposal = call[c].proposal /\ k.seen = call[c].seen
    BY <1>0, <2>1 DEF P!CallState, P!PC
  <2>3. PortfolioRequest(k) /\ PortfolioEffect(k)
    BY <1>0, <1>4, <2>2 DEF P!ReadLedger, P!At, PortfolioRequest, PortfolioEffect, Materializing
  <2>4. /\ call' = [call EXCEPT ![c] = k]
        /\ UNCHANGED <<P!planVars, P!requestVars, P!budgetVars, P!programVars, completion>>
    BY <1>0, <1>4, <2>1 DEF P!ReadLedger
  <2> QED
    BY <2>2, <2>3, <2>4, PortfolioQuiet
<1>a. PortfolioRead(call[c])
  BY <1>0 DEF PortfolioCall
\* A step on the escrow and the programs.
<1>b. ASSUME NEW k \in P!CallState, call' = [call EXCEPT ![c] = k], k.seen = call[c].seen,
             PortfolioRequest(k)', PortfolioEffect(k)',
             UNCHANGED <<P!planVars, P!requestVars, completion>>,
             reserved' \in 0 .. Ceiling, reservation' \subseteq P!Slot,
             reservation \subseteq reservation',
             lineage' \in [P!Slot -> {"NONE", "LINKED", "FAILED"}],
             program' \in [P!Slot -> {"NONE", "ADMITTED", "PROVED", "UNPROVED"}],
             \A s \in P!Slot : program'[s] # program[s] => program[s] = "NONE",
             \A s \in P!Slot : program'[s] # "NONE" => s \in reservation',
             LedgerCoversEscrow'
      PROVE  PortfolioInv'
  <2>1. PortfolioGrows /\ plans' \in Nat
    BY <1>0, <1>b DEF PortfolioGrows, Bounds
  <2>2. PortfolioCall(k)'
    BY <1>a, <1>b DEF PortfolioCall, PortfolioRead
  <2>3. /\ call' \in [Call -> P!CallState]
        /\ \A d \in Call : PortfolioCall(call[d])'
    BY <1>b, <2>1, <2>2, PortfolioCalls
  <2>4. P!TypeOK'
    BY <1>b, <2>3 DEF PortfolioInv, P!TypeOK
  <2>5. P!CompletionIsRecorded'
    <3>1. completion # 0 => \A p \in P!Proposal : program[<<completion, p>>] = "PROVED"
                                                  /\ <<completion, p>> \in P!Slot
      BY DEF PortfolioInv, PortfolioRows, P!CompletionIsRecorded, P!TypeOK, P!Slot, P!Plan, Bounds
    <3>2. completion # 0 => \A p \in P!Proposal : program'[<<completion, p>>] = "PROVED"
      BY <1>b, <3>1
    <3> QED
      BY <1>b, <3>2 DEF PortfolioInv, PortfolioRows, P!CompletionIsRecorded
  <2>6. PortfolioRows'
    BY <1>b, <2>5 DEF PortfolioInv, PortfolioRows
  <2> QED
    BY <1>b, <2>3, <2>4, <2>6 DEF PortfolioInv
<1>c. /\ Cardinality(reservation) \in Nat /\ reserved \in Nat
      /\ Cardinality(reservation) + Cardinality(Escrowing) <= reserved
      /\ \A s \in P!Slot : program[s] # "NONE" => s \in reservation
  BY ReservationsAreFinite DEF PortfolioInv, P!TypeOK, Bounds, LedgerCoversEscrow, PortfolioRows
<1>5. CASE P!ReserveOnLedger(c)
  <2>1. PICK k : k = [call[c] EXCEPT !.pc = "reserve", !.read = 0]
    OBVIOUS
  <2>2. 0 \in 0 .. Ceiling
    BY DEF Bounds
  <2>3. /\ k \in P!CallState /\ k.pc = "reserve" /\ k.plan = call[c].plan
        /\ k.proposal = call[c].proposal /\ k.seen = call[c].seen
    BY <1>0, <2>1, <2>2 DEF P!CallState, P!PC
  <2>4. PortfolioRequest(k)' /\ PortfolioEffect(k)'
    BY <1>0, <1>5, <2>3 DEF P!ReserveOnLedger, P!At, PortfolioRequest, PortfolioEffect,
       Materializing
  <2>5. call' = [call EXCEPT ![c] = k]
    BY <1>0, <1>5, <2>1 DEF P!ReserveOnLedger
  <2>6. reserved' = reserved + 1 /\ reserved < Ceiling
    BY <1>0, <1>5 DEF P!ReserveOnLedger, P!At, PortfolioEffect
  <2>7. /\ Cardinality(Escrowing) \in Nat /\ Cardinality(Escrowing') \in Nat
        /\ Cardinality(Escrowing') <= Cardinality(Escrowing) + 1
    BY <2>3, <2>5, EscrowingStep
  <2>8. reservation' = reservation /\ UNCHANGED <<P!planVars, P!requestVars, P!programVars,
                                                  completion>>
    BY <1>5 DEF P!ReserveOnLedger
  <2>9. LedgerCoversEscrow'
    <3>1. Cardinality(reservation) + Cardinality(Escrowing') <= reserved'
      BY <1>c, <2>6, <2>7
    <3> QED
      BY <2>8, <3>1 DEF LedgerCoversEscrow
  <2>10. reserved' \in 0 .. Ceiling
    BY <1>0, <2>6 DEF Bounds
  <2> QED
    BY <1>0, <1>b, <1>c, <2>3, <2>4, <2>5, <2>8, <2>9, <2>10
<1>6. CASE P!SaveReservation(c)
  <2>1. call[c].pc = "reserve" /\ P!GoTo(c, "admit")
    BY <1>6 DEF P!SaveReservation, P!At
  <2>2. PICK k \in P!CallState :
           /\ call' = [call EXCEPT ![c] = k] /\ k.pc = "admit" /\ k.seen = call[c].seen
           /\ k.plan = call[c].plan /\ k.proposal = call[c].proposal
    BY <2>1, PortfolioGoTo DEF P!PC
  <2>3. /\ reservation' = reservation \cup {P!SlotOf(c)}
        /\ UNCHANGED <<P!planVars, P!requestVars, reserved, P!programVars, completion>>
    BY <1>6 DEF P!SaveReservation
  <2>4. PortfolioRequest(k)' /\ PortfolioEffect(k)'
    BY <1>0, <1>s, <2>1, <2>2, <2>3 DEF PortfolioRequest, PortfolioEffect, Materializing
  <2>5. /\ Cardinality(Escrowing) \in Nat /\ Cardinality(Escrowing') \in Nat
        /\ Cardinality(Escrowing') + 1 <= Cardinality(Escrowing)
    BY <2>1, <2>2, EscrowingStep
  <2>6. Cardinality(reservation') \in Nat
          /\ Cardinality(reservation') <= Cardinality(reservation) + 1
    <3>1. IsFiniteSet(reservation)
      BY ReservationsAreFinite DEF PortfolioInv
    <3>2. PICK T : T = reservation'
      OBVIOUS
    <3>3. PICK R, s : R = reservation /\ s = P!SlotOf(c)
      OBVIOUS
    <3>4. IsFiniteSet(R) /\ T \subseteq R \cup {s}
      BY <2>3, <3>1, <3>2, <3>3
    <3>5. Cardinality(T) \in Nat /\ Cardinality(T) <= Cardinality(R) + 1
      BY <3>4, CountStep
    <3> QED
      BY <3>2, <3>3, <3>5
  <2>7. LedgerCoversEscrow'
    <3>1. Cardinality(reservation') + Cardinality(Escrowing') <= reserved
      BY <1>c, <2>5, <2>6
    <3> QED
      BY <2>3, <3>1 DEF LedgerCoversEscrow
  <2>8. reservation' \subseteq P!Slot /\ reservation \subseteq reservation'
    BY <1>0, <1>s, <2>1, <2>3
  <2> QED
    BY <1>0, <1>b, <1>c, <2>2, <2>3, <2>4, <2>7, <2>8
\* A step that neither raises the ledger nor reserves.
<1>d. ASSUME NEW k \in P!CallState, call' = [call EXCEPT ![c] = k], k.pc # "reserve",
             UNCHANGED P!budgetVars
      PROVE  LedgerCoversEscrow'
  <2>1. /\ Cardinality(Escrowing) \in Nat /\ Cardinality(Escrowing') \in Nat
        /\ Cardinality(Escrowing') <= Cardinality(Escrowing)
    BY <1>d, EscrowingStep
  <2>2. Cardinality(reservation) + Cardinality(Escrowing') <= reserved
    BY <1>c, <2>1
  <2> QED
    BY <1>d, <2>2 DEF LedgerCoversEscrow
<1>7. CASE P!AdmitProgram(c)
  <2>0. call[c].pc = "admit" /\ P!SlotOf(c) \in P!Slot /\ P!SlotOf(c) \in reservation
    BY <1>0, <1>7, <1>s DEF P!AdmitProgram, P!At, PortfolioEffect
  <2>1. PICK o \in {"LINKED", "FAILED"} :
          call' = [call EXCEPT ![c].pc = "link", ![c].outcome = o]
    BY <1>7 DEF P!AdmitProgram
  <2>2. PICK k : k = [call[c] EXCEPT !.pc = "link", !.outcome = o]
    OBVIOUS
  <2>3. /\ k \in P!CallState /\ k.pc = "link" /\ k.plan = call[c].plan
        /\ k.proposal = call[c].proposal /\ k.seen = call[c].seen
    BY <1>0, <2>2 DEF P!CallState, P!PC
  <2>4. call' = [call EXCEPT ![c] = k]
    BY <1>0, <2>1, <2>2
  <2>5. UNCHANGED <<P!planVars, P!requestVars, P!budgetVars, lineage, completion>>
    BY <1>7 DEF P!AdmitProgram
  <2>6. PortfolioRequest(k)' /\ PortfolioEffect(k)'
    BY <1>0, <2>0, <2>3, <2>5 DEF PortfolioRequest, PortfolioEffect, Materializing
  <2>7. /\ program' \in [P!Slot -> {"NONE", "ADMITTED", "PROVED", "UNPROVED"}]
        /\ \A s \in P!Slot : program'[s] # program[s] => program[s] = "NONE" /\ s = P!SlotOf(c)
    BY <1>0, <1>7, <2>0 DEF P!AdmitProgram
  <2>8. \A s \in P!Slot : program'[s] # "NONE" => s \in reservation
    BY <1>c, <2>0, <2>7
  <2>9. LedgerCoversEscrow'
    BY <1>d, <2>3, <2>4, <2>5
  <2> QED
    BY <1>0, <1>b, <2>3, <2>4, <2>5, <2>6, <2>7, <2>8, <2>9
<1>8. CASE P!SaveLineage(c)
  <2>1. call[c].pc = "link" /\ call[c].proposal \in P!Proposal /\ P!NextProposal(c)
          /\ P!SlotOf(c) \in P!Slot
    BY <1>0, <1>8, <1>s DEF P!SaveLineage, P!At, PortfolioEffect, Materializing
  <2>2. PICK k \in P!CallState :
               /\ call' = [call EXCEPT ![c] = k]
               /\ k.pc = "proposal" /\ k.seen = call[c].seen
               /\ PortfolioRequest(k) /\ PortfolioEffect(k)
    BY <1>n, <2>1
  <2>3. /\ UNCHANGED <<P!planVars, P!requestVars, P!budgetVars, program, completion>>
        /\ lineage' \in [P!Slot -> {"NONE", "LINKED", "FAILED"}]
    BY <1>0, <1>8, <2>1 DEF P!SaveLineage, P!CallState
  <2>4. PortfolioRequest(k)' /\ PortfolioEffect(k)'
    BY <2>2, <2>3 DEF PortfolioRequest, PortfolioEffect
  <2>5. LedgerCoversEscrow'
    BY <1>d, <2>2, <2>3
  <2> QED
    BY <1>0, <1>b, <1>c, <2>2, <2>3, <2>4, <2>5
<1>9. CASE P!Activate(c)
  <2>1. CASE portfolio.status = "AUTHORIZED"
    <3>1. <<portfolio.status, "ACTIVE">> \in P!Transitions
      BY <2>1 DEF P!Transitions
    <3> QED
      BY <1>9, <1>t, <2>1, <3>1, PortfolioGoesOn DEF P!Activate, P!PortfolioState
  <2>2. CASE portfolio.status # "AUTHORIZED"
    <3>1. /\ call' = [call EXCEPT ![c] = P!Idle]
          /\ UNCHANGED <<P!planVars, P!requestVars, P!budgetVars, P!programVars, completion>>
      BY <1>9, <2>2 DEF P!Activate, P!Return
    <3> QED
      BY <1>t, <3>1, PortfolioQuiet
  <2> QED
    BY <2>1, <2>2
<1> QED
  BY <1>1, <1>2, <1>3, <1>4, <1>5, <1>6, <1>7, <1>8, <1>9 DEF P!MaterializationStep

\* verify and proposeRebalance: a completion record is of a plan that was proved.
LEMMA PortfolioVerification ==
  ASSUME Bounds, PortfolioInv, NEW c \in Call, P!VerificationStep(c)
  PROVE  PortfolioInv'
<1> USE DEF P!requestVars, P!budgetVars, P!programVars, P!planVars
<1>0. /\ call \in [Call -> P!CallState] /\ call[c] \in P!CallState
      /\ portfolio \in P!Portfolio /\ plans \in 0 .. MaxPlans
      /\ PortfolioRequest(call[c]) /\ PortfolioEffect(call[c])
  BY DEF PortfolioInv, P!TypeOK, PortfolioCall, PortfolioRows
<1>t. /\ P!Idle \in P!CallState /\ P!Idle.pc = "idle" /\ P!Idle.seen = P!NewPortfolio
      /\ PortfolioRequest(P!Idle) /\ PortfolioEffect(P!Idle)
  <2>1. P!Idle \in P!CallState /\ P!Idle.pc = "idle" /\ P!Idle.seen = P!NewPortfolio
    BY PortfolioIdle DEF P!Idle
  <2> QED
    BY <2>1 DEF PortfolioRequest, PortfolioEffect, Materializing
<1>1. CASE P!ProposeRebalance(c)
  <2>1. <<portfolio.status, "REBALANCE_REQUIRED">> \in P!Transitions
    BY <1>1 DEF P!ProposeRebalance, P!Transitions
  <2> QED
    BY <1>1, <1>t, <2>1, PortfolioGoesOn DEF P!ProposeRebalance, P!PortfolioState
<1>2. CASE P!StartVerify(c)
  <2>0. plans # 0
    BY <1>2 DEF P!StartVerify, PortfolioInv, PortfolioRows
  <2>1. PICK state : state = [P!Idle EXCEPT !.pc = "prove"]
    OBVIOUS
  <2>2. PICK k : k = [P!Idle EXCEPT !.pc = "prove", !.seen = portfolio]
    OBVIOUS
  <2>3. /\ state \in P!CallState /\ state.pc = "prove"
        /\ k \in P!CallState /\ k.pc = "prove" /\ k.seen = portfolio
    BY <1>0, <1>t, <2>1, <2>2 DEF P!CallState, P!PC
  <2>4. /\ PortfolioRequest(state) /\ PortfolioEffect(state)
        /\ PortfolioRequest(k) /\ PortfolioEffect(k)
    BY <2>0, <2>3 DEF PortfolioRequest, PortfolioEffect, Materializing
  <2>5. CASE portfolio.status = "ACTIVE"
    <3>1. P!MoveAndGoOn(c, "VERIFYING", state)
      BY <1>2, <2>1, <2>5 DEF P!StartVerify
    <3>2. <<portfolio.status, "VERIFYING">> \in P!Transitions
      BY <2>5 DEF P!Transitions
    <3> QED
      BY <1>2, <2>3, <2>4, <3>1, <3>2, PortfolioGoesOn DEF P!StartVerify, P!PortfolioState
  <2>6. CASE portfolio.status # "ACTIVE"
    <3>1. call' = [call EXCEPT ![c] = k] /\ UNCHANGED <<P!planVars, P!requestVars, P!budgetVars,
                                                        P!programVars, completion>>
      BY <1>2, <2>2, <2>6 DEF P!StartVerify, P!Enter
    <3> QED
      BY <2>3, <2>4, <3>1, PortfolioQuiet
  <2> QED
    BY <2>5, <2>6
<1>3. CASE P!Prove(c)
  <2>0. plans \in P!Plan
    BY <1>0, <1>3 DEF P!Prove, P!At, PortfolioEffect, P!Plan, Bounds
  <2>1. PICK evidence : evidence = {P!Evidence(<<plans, p>>) : p \in P!Proposal}
    OBVIOUS
  <2>2. PICK pc : pc = IF evidence = {"PROVED"} THEN "complete"
                       ELSE IF "UNPROVED" \in evidence THEN "FAILED" ELSE "ACTIVE"
    OBVIOUS
  <2>3. PICK k : k = [call[c] EXCEPT !.plan = plans, !.pc = pc]
    OBVIOUS
  <2>4. /\ k \in P!CallState /\ k.pc = pc /\ k.plan = plans /\ k.seen = call[c].seen
    BY <1>0, <2>2, <2>3 DEF P!CallState, P!PC
  <2>5. evidence = {"PROVED"} => \A p \in P!Proposal : program[<<plans, p>>] = "PROVED"
    <3> SUFFICES ASSUME evidence = {"PROVED"}, NEW p \in P!Proposal
                 PROVE  program[<<plans, p>>] = "PROVED"
      OBVIOUS
    <3>1. P!Evidence(<<plans, p>>) \in evidence
      BY <2>1
    <3>2. P!Evidence(<<plans, p>>) = "PROVED"
      BY <3>1
    <3> QED
      BY <3>2 DEF P!Evidence
  <2>6. PortfolioRequest(k) /\ PortfolioEffect(k)
    BY <2>0, <2>2, <2>4, <2>5 DEF PortfolioRequest, PortfolioEffect, Materializing
  <2>7. call' = [call EXCEPT ![c] = k]
    BY <1>0, <1>3, <2>1, <2>2, <2>3 DEF P!Prove
  <2>8. UNCHANGED <<P!planVars, P!requestVars, P!budgetVars, P!programVars, completion>>
    BY <1>3 DEF P!Prove
  <2> QED
    BY <2>2, <2>4, <2>6, <2>7, <2>8, PortfolioQuiet
<1>4. CASE P!Conclude(c)
  BY <1>4, PortfolioConcludes DEF P!Conclude, P!PortfolioState
<1>5. CASE P!Complete(c)
  <2>1. PICK p : p = portfolio'
    OBVIOUS
  <2>2. PICK k : k = [P!Idle EXCEPT !.seen = p]
    OBVIOUS
  <2>3. portfolio.revision \in Nat \ {0} /\ portfolio.revision < MaxWrites
    BY <1>0, <1>5 DEF P!Complete, P!MoveAndGoOn, P!Portfolio
  <2>4. portfolio.revision + 1 \in 1 .. MaxWrites
    BY <2>3 DEF Bounds
  <2>5. p = [portfolio EXCEPT !.status = "COMPLETED", !.revision = portfolio.revision + 1]
    BY <1>5, <2>1 DEF P!Complete, P!MoveAndGoOn, P!Moved
  <2>6. /\ p \in P!Portfolio /\ p.status = "COMPLETED" /\ p.revision = portfolio.revision + 1
    BY <1>0, <2>4, <2>5 DEF P!Portfolio, P!PortfolioState
  <2>7. k \in P!CallState /\ k.pc = "idle" /\ k.seen = p
    BY <1>t, <2>2, <2>6 DEF P!CallState
  <2>8. call' = [call EXCEPT ![c] = k]
    BY <1>5, <2>1, <2>2 DEF P!Complete, P!MoveAndGoOn, P!Enter
  <2>9. UNCHANGED <<plans, P!requestVars, P!budgetVars, P!programVars>>
    BY <1>5 DEF P!Complete
  <2>10. PortfolioGrows /\ plans' \in Nat
    BY <1>0, <2>1, <2>6, <2>9 DEF PortfolioGrows, Bounds
  <2>11. PortfolioCall(k)'
    BY <2>1, <2>6, <2>7, <2>3 DEF PortfolioCall, PortfolioRead, PortfolioRequest, PortfolioEffect,
       Materializing
  <2>12. /\ call' \in [Call -> P!CallState]
         /\ \A d \in Call : PortfolioCall(call[d])'
    BY <2>7, <2>8, <2>10, <2>11, PortfolioCalls
  <2>13. /\ call[c].plan \in P!Plan /\ \A q \in P!Proposal : program[<<call[c].plan, q>>] = "PROVED"
    BY <1>0, <1>5 DEF P!Complete, P!At, PortfolioEffect
  <2>14. <<portfolio.status, "COMPLETED">> \in P!Transitions
    BY <1>5 DEF P!Complete, P!MayMove
  <2>15. portfolio.status # "COMPLETED" /\ plans # 0
    BY <2>14, PortfolioTransitions DEF PortfolioInv, PortfolioRows
  <2>16. completion = 0
    BY <2>15 DEF PortfolioInv, PortfolioRows, P!CompletionIsRecorded
  <2>17. completion' = call[c].plan
    BY <1>5, <2>16 DEF P!Complete
  <2>18. completion' \in 0 .. MaxPlans /\ completion' # 0
    BY <2>13, <2>17 DEF P!Plan, Bounds
  <2>19. P!TypeOK'
    BY <2>1, <2>6, <2>9, <2>12, <2>18 DEF PortfolioInv, P!TypeOK
  <2>20. P!CompletionIsRecorded'
    BY <2>1, <2>6, <2>9, <2>13, <2>17, <2>18 DEF P!CompletionIsRecorded
  <2>21. PortfolioRows'
    BY <2>1, <2>3, <2>6, <2>9, <2>15, <2>20 DEF PortfolioInv, PortfolioRows
  <2>22. LedgerCoversEscrow'
    <3>1. Cardinality(reservation) \in Nat /\ reserved \in Nat
      BY ReservationsAreFinite DEF PortfolioInv, P!TypeOK, Bounds
    <3>2. /\ Cardinality(Escrowing) \in Nat /\ Cardinality(Escrowing') \in Nat
          /\ Cardinality(Escrowing') <= Cardinality(Escrowing)
      BY <2>7, <2>8, EscrowingStep
    <3>3. Cardinality(reservation) + Cardinality(Escrowing) <= reserved
      BY DEF PortfolioInv, LedgerCoversEscrow
    <3>4. Cardinality(reservation) + Cardinality(Escrowing') <= reserved
      BY <3>1, <3>2, <3>3
    <3> QED
      BY <2>9, <3>4 DEF LedgerCoversEscrow
  <2> QED
    BY <2>12, <2>19, <2>21, <2>22 DEF PortfolioInv
<1> QED
  BY <1>1, <1>2, <1>3, <1>4, <1>5 DEF P!VerificationStep

\* A program of the portfolio ends, proved or not.
LEMMA PortfolioEndProgram ==
  ASSUME Bounds, PortfolioInv, NEW s \in P!Slot, P!EndProgram(s)
  PROVE  PortfolioInv'
<1> USE DEF P!requestVars, P!budgetVars, P!programVars, P!planVars
<1>1. PICK end \in {"PROVED", "UNPROVED"} : program' = [program EXCEPT ![s] = end]
  BY DEF P!EndProgram
<1>2. /\ program \in [P!Slot -> {"NONE", "ADMITTED", "PROVED", "UNPROVED"}]
      /\ program[s] = "ADMITTED"
      /\ UNCHANGED <<P!planVars, P!requestVars, P!budgetVars, lineage, completion, call>>
  BY DEF P!EndProgram, PortfolioInv, P!TypeOK
<1>3. /\ program' \in [P!Slot -> {"NONE", "ADMITTED", "PROVED", "UNPROVED"}]
      /\ \A t \in P!Slot : program'[t] # program[t] => program[t] = "ADMITTED"
  BY <1>1, <1>2
<1>4. P!TypeOK'
  BY <1>2, <1>3 DEF PortfolioInv, P!TypeOK
<1>5. PortfolioGrows /\ plans' \in Nat
  BY <1>2, <1>3 DEF PortfolioGrows, PortfolioInv, P!TypeOK, Bounds
<1>6. \A d \in Call : PortfolioCall(call[d])'
  <2> SUFFICES ASSUME NEW d \in Call PROVE PortfolioCall(call[d])'
    OBVIOUS
  <2>1. PICK x \in P!CallState : x = call[d]
    BY DEF PortfolioInv, P!TypeOK
  <2>2. call'[d] = x /\ P!TypeOK
    BY <1>2, <2>1 DEF PortfolioInv
  <2>3. PortfolioCall(x)
    BY <2>1 DEF PortfolioInv
  <2>4. PortfolioCall(x)'
    BY <1>5, <2>2, <2>3, PortfolioOthers
  <2> QED
    BY <2>2, <2>4 DEF PortfolioCall, PortfolioRead, PortfolioRequest, PortfolioEffect
<1>7. LedgerCoversEscrow'
  BY <1>2 DEF PortfolioInv, LedgerCoversEscrow, Escrowing, P!At
<1>8. P!CompletionIsRecorded'
  <2>1. completion # 0 => \A p \in P!Proposal : program[<<completion, p>>] = "PROVED"
                                                /\ <<completion, p>> \in P!Slot
    BY DEF PortfolioInv, PortfolioRows, P!CompletionIsRecorded, P!TypeOK, P!Slot, P!Plan, Bounds
  <2>2. completion # 0 => \A p \in P!Proposal : program'[<<completion, p>>] = "PROVED"
    BY <1>3, <2>1
  <2> QED
    BY <1>2, <2>2 DEF PortfolioInv, PortfolioRows, P!CompletionIsRecorded
<1>9. PortfolioRows'
  <2>1. \A t \in P!Slot : program'[t] # "NONE" => t \in reservation
    BY <1>3 DEF PortfolioInv, PortfolioRows
  <2> QED
    BY <1>2, <1>8, <2>1 DEF PortfolioInv, PortfolioRows
<1> QED
  BY <1>4, <1>6, <1>7, <1>9 DEF PortfolioInv

\* A call that throws or dies leaves what it has written.
LEMMA PortfolioAbort ==
  ASSUME Bounds, PortfolioInv, NEW c \in Call, P!Abort(c)
  PROVE  PortfolioInv'
<1> USE DEF P!requestVars, P!budgetVars, P!programVars, P!planVars
<1>1. /\ P!Idle \in P!CallState /\ P!Idle.pc = "idle" /\ P!Idle.seen = P!NewPortfolio
  BY PortfolioIdle DEF P!Idle
<1>2. PortfolioRequest(P!Idle)' /\ PortfolioEffect(P!Idle)'
  BY <1>1 DEF PortfolioRequest, PortfolioEffect, Materializing
<1>3. /\ call' = [call EXCEPT ![c] = P!Idle]
      /\ UNCHANGED <<P!planVars, request, record, issued, known, verdicts, P!budgetVars,
                     P!programVars, completion>>
  BY DEF P!Abort, P!Return
<1>4. store' \in [Call -> [P!Plan -> 0 .. MaxIssues]]
  <2>1. store \in [Call -> [P!Plan -> 0 .. MaxIssues]] /\ 0 \in 0 .. MaxIssues
    BY DEF PortfolioInv, P!TypeOK, Bounds
  <2> QED
    BY <2>1 DEF P!Abort
<1>5. /\ request \in [P!Plan -> P!Request(MaxIssues)] /\ record \subseteq P!Plan
      /\ issued \in 0 .. MaxIssues /\ known \subseteq 1 .. MaxIssues
      /\ verdicts \subseteq P!Plan \X {"APPROVE", "REJECT"}
      /\ \A v \in P!Plan : request[v].status = "PENDING" => request[v].revision = 1
      /\ \A v \in record : <<v, "APPROVE">> \in verdicts
  BY DEF PortfolioInv, P!TypeOK, PortfolioRows
<1> QED
  BY <1>1, <1>2, <1>3, <1>4, <1>5, PortfolioDecides

\* Every step of a portfolio's service keeps the invariant.
LEMMA PortfolioStep ==
  ASSUME Bounds, PortfolioInv, [P!Next]_(P!vars)
  PROVE  PortfolioInv'
<1>1. CASE UNCHANGED P!vars
  BY <1>1 DEF P!vars, P!planVars, P!requestVars, P!budgetVars, P!programVars, PortfolioInv,
     P!TypeOK,
     PortfolioRows, P!CompletionIsRecorded, LedgerCoversEscrow, Escrowing, P!At, PortfolioCall,
     PortfolioRead, PortfolioRequest, PortfolioEffect
<1> QED
  BY <1>1, PortfolioPlanning, PortfolioAuthorization, PortfolioMaterialization,
     PortfolioVerification, PortfolioEndProgram, PortfolioAbort DEF P!Next

\* The empty tables keep the invariant.
LEMMA PortfolioStarts ==
  ASSUME Bounds, P!Init
  PROVE  PortfolioInv
<1>1. P!Idle \in P!CallState /\ P!Idle.pc = "idle" /\ P!Idle.seen = P!NewPortfolio
        /\ P!NewPortfolio \in P!Portfolio
  BY PortfolioIdle DEF P!Idle
<1>2. P!TypeOK
  BY <1>1 DEF P!Init, P!TypeOK, Bounds, P!NoRequest, P!Request
<1>3. PortfolioRows
  BY DEF P!Init, PortfolioRows, P!CompletionIsRecorded, P!NewPortfolio, P!NoRequest
<1>4. LedgerCoversEscrow
  <2>1. Escrowing = {}
    BY <1>1 DEF Escrowing, P!At, P!Init
  <2>2. Cardinality({}) = 0
    BY FS_EmptySet
  <2>3. reservation = {} /\ reserved = 0
    BY DEF P!Init
  <2> QED
    BY <2>1, <2>2, <2>3 DEF LedgerCoversEscrow
<1>5. \A c \in Call : PortfolioCall(call[c])
  <2>1. \A c \in Call : call[c] = P!Idle
    BY DEF P!Init
  <2>2. PortfolioRead(P!Idle)
    BY <1>1 DEF PortfolioRead, P!Init, P!NewPortfolio
  <2>3. PortfolioRequest(P!Idle) /\ PortfolioEffect(P!Idle)
    BY <1>1 DEF PortfolioRequest, PortfolioEffect, Materializing
  <2> QED
    BY <2>1, <2>2, <2>3 DEF PortfolioCall
<1> QED
  BY <1>2, <1>3, <1>4, <1>5 DEF PortfolioInv

\* What the ledger has escrowed covers the reservations, and these the programs.
LEMMA PortfolioEscrow ==
  ASSUME Bounds, PortfolioInv
  PROVE  P!EscrowCoversPrograms /\ P!CompletionIsRecorded
<1>1. Cardinality(reservation) \in Nat /\ reserved \in 0 .. Ceiling
  BY ReservationsAreFinite DEF PortfolioInv, P!TypeOK
<1>2. Cardinality(Escrowing) \in Nat
  BY FS_Subset, FS_CardinalityType DEF Escrowing, Bounds
<1>3. Cardinality(reservation) + Cardinality(Escrowing) <= reserved
  BY DEF PortfolioInv, LedgerCoversEscrow
<1>4. Cardinality(reservation) <= reserved /\ reserved <= Ceiling
  BY <1>1, <1>2, <1>3 DEF Bounds
<1>5. P!Cardinality(reservation) = Cardinality(reservation)
  BY DEF P!Cardinality, Cardinality
<1> QED
  BY <1>4, <1>5 DEF P!EscrowCoversPrograms, PortfolioInv, PortfolioRows

\* Steps of a portfolio are steps of its gate, or leave it alone.
LEMMA PortfolioGateStep ==
  ASSUME Bounds, PortfolioInv, [P!Next]_(P!vars)
  PROVE  [P!Gate!Next]_(P!Gate!vars)
<1> USE DEF P!requestVars, P!budgetVars, P!programVars, P!planVars, P!Gate!vars
<1> DEFINE approved == {v \in P!Plan : <<v, "APPROVE">> \in verdicts}
           admitted == {s \in P!Slot : program[s] # "NONE"}
           proved == {s \in P!Slot : program[s] = "PROVED"}
           finished == {v \in P!Plan : v = completion}
<1>0. /\ call \in [Call -> P!CallState]
      /\ program \in [P!Slot -> {"NONE", "ADMITTED", "PROVED", "UNPROVED"}]
      /\ completion \in 0 .. MaxPlans
  BY DEF PortfolioInv, P!TypeOK
<1>1. ASSUME UNCHANGED <<verdicts, program, completion>> PROVE UNCHANGED P!Gate!vars
  BY <1>1
<1>2. CASE UNCHANGED P!vars
  BY <1>1, <1>2 DEF P!vars
<1>3. ASSUME NEW c \in Call, P!PlanningStep(c) \/ P!Abort(c) PROVE UNCHANGED P!Gate!vars
  <2>1. UNCHANGED <<verdicts, program, completion>>
    BY <1>3 DEF P!PlanningStep, P!Analyze, P!StartPlan, P!InsertPlan, P!AdoptPlan, P!StartValidate,
       P!FinishValidate, P!Abort
  <2> QED
    BY <1>1, <2>1
<1>4. ASSUME NEW c \in Call, P!AuthorizationStep(c) PROVE [P!Gate!Next]_(P!Gate!vars)
  <2>1. CASE P!SettleRequest(c)
    <3>0. UNCHANGED <<program, completion>>
      BY <2>1 DEF P!SettleRequest
    <3>1. call[c].plan \in P!Plan
      BY <2>1 DEF P!SettleRequest, P!At, PortfolioInv, PortfolioCall, PortfolioRequest
    <3>2. verdicts' = verdicts \cup {<<call[c].plan, call[c].decision>>}
      BY <2>1 DEF P!SettleRequest
    <3>3. CASE call[c].decision = "APPROVE"
      <4>0. PICK v \in P!Plan : v = call[c].plan
        BY <3>1
      <4>1. approved' = approved \cup {v}
        BY <3>2, <3>3, <4>0
      <4>2. UNCHANGED <<admitted, proved, finished>>
        BY <3>0
      <4>3. P!Gate!Grant(v)
        BY <4>1, <4>2 DEF P!Gate!Grant
      <4> QED
        BY <4>3 DEF P!Gate!Next
    <3>4. CASE call[c].decision # "APPROVE"
      <4>1. approved' = approved
        BY <3>2, <3>4
      <4>2. UNCHANGED <<admitted, proved, finished>>
        BY <3>0
      <4> QED
        BY <4>1, <4>2
    <3> QED
      BY <3>3, <3>4
  <2>2. CASE ~P!SettleRequest(c)
    <3>1. UNCHANGED <<verdicts, program, completion>>
      BY <1>4, <2>2 DEF P!AuthorizationStep, P!StartRoute, P!SaveRequest, P!PutNonce, P!StartDecide,
         P!ExpireRequest, P!CheckAllocator, P!Replan, P!SaveRecord, P!Authorize
    <3> QED
      BY <1>1, <3>1
  <2> QED
    BY <2>1, <2>2
<1>5. ASSUME NEW c \in Call, P!MaterializationStep(c) PROVE [P!Gate!Next]_(P!Gate!vars)
  <2>1. CASE P!AdmitProgram(c)
    <3>0. PICK s : s = P!SlotOf(c)
      OBVIOUS
    <3>1. s \in P!Slot /\ s[1] = call[c].plan /\ <<call[c].plan, "APPROVE">> \in verdicts
          /\ call[c].plan \in P!Plan
      BY <2>1, <3>0 DEF P!AdmitProgram, P!At, PortfolioInv, PortfolioCall, PortfolioEffect,
         Materializing,
         P!SlotOf, P!Slot
    <3>2. UNCHANGED <<verdicts, completion>>
      BY <2>1 DEF P!AdmitProgram
    <3>3. \/ program' = program
          \/ program[s] = "NONE" /\ program' = [program EXCEPT ![s] = "ADMITTED"]
      BY <2>1, <3>0 DEF P!AdmitProgram
    <3>4. CASE program' = program
      BY <1>1, <3>2, <3>4
    <3>5. CASE program[s] = "NONE" /\ program' = [program EXCEPT ![s] = "ADMITTED"]
      <4>1. admitted' = admitted \cup {s} /\ s \notin admitted /\ proved' = proved
        BY <1>0, <3>1, <3>5
      <4>2. UNCHANGED <<approved, finished>> /\ s[1] \in approved
        BY <3>1, <3>2
      <4>3. P!Gate!Admit(s)
        BY <4>1, <4>2 DEF P!Gate!Admit
      <4> QED
        BY <3>1, <4>3 DEF P!Gate!Next
    <3> QED
      BY <3>3, <3>4, <3>5
  <2>2. CASE ~P!AdmitProgram(c)
    <3>1. UNCHANGED <<verdicts, program, completion>>
      BY <1>5, <2>2 DEF P!MaterializationStep, P!StartMaterialize, P!FindAuthorization,
         P!LookUpProposal,
         P!ReadLedger, P!ReserveOnLedger, P!SaveReservation, P!SaveLineage, P!Activate
    <3> QED
      BY <1>1, <3>1
  <2> QED
    BY <2>1, <2>2
<1>6. ASSUME NEW c \in Call, P!VerificationStep(c) PROVE [P!Gate!Next]_(P!Gate!vars)
  <2>1. CASE P!Complete(c)
    <3>1. PICK v : v = call[c].plan
      OBVIOUS
    <3>2. /\ v \in P!Plan /\ \A q \in P!Proposal : program[<<v, q>>] = "PROVED"
      BY <2>1, <3>1 DEF P!Complete, P!At, PortfolioInv, PortfolioCall, PortfolioEffect
    <3>3. <<portfolio.status, "COMPLETED">> \in P!Transitions
      BY <2>1 DEF P!Complete, P!MayMove
    <3>4. completion = 0
      BY <3>3, PortfolioTransitions DEF PortfolioInv, PortfolioRows, P!CompletionIsRecorded
    <3>5. completion' = v /\ UNCHANGED <<verdicts, program>>
      BY <2>1, <3>1, <3>4 DEF P!Complete
    <3>6. finished = {}
      BY <3>4 DEF P!Plan, Bounds
    <3>7. finished' = {v} /\ UNCHANGED <<approved, admitted, proved>>
      BY <3>2, <3>5
    <3>8. P!Gate!PartsOf(v) \subseteq proved
      BY <3>2 DEF P!Gate!PartsOf, P!Slot
    <3>9. P!Gate!Finish(v)
      BY <3>6, <3>7, <3>8 DEF P!Gate!Finish
    <3> QED
      BY <3>2, <3>9 DEF P!Gate!Next
  <2>2. CASE ~P!Complete(c)
    <3>1. UNCHANGED <<verdicts, program, completion>>
      BY <1>6, <2>2 DEF P!VerificationStep, P!ProposeRebalance, P!StartVerify, P!Prove, P!Conclude
    <3> QED
      BY <1>1, <3>1
  <2> QED
    BY <2>1, <2>2
<1>7. ASSUME NEW s \in P!Slot, P!EndProgram(s) PROVE [P!Gate!Next]_(P!Gate!vars)
  <2>1. PICK end \in {"PROVED", "UNPROVED"} : program' = [program EXCEPT ![s] = end]
    BY <1>7 DEF P!EndProgram
  <2>2. program[s] = "ADMITTED" /\ UNCHANGED <<verdicts, completion>>
    BY <1>7 DEF P!EndProgram
  <2>3. s \in admitted /\ UNCHANGED <<approved, finished>> /\ admitted' = admitted
    BY <1>0, <2>1, <2>2
  <2>4. CASE end = "PROVED"
    <3>1. proved' = proved \cup {s}
      BY <1>0, <2>1, <2>4
    <3>2. P!Gate!Prove(s)
      BY <2>3, <3>1 DEF P!Gate!Prove
    <3> QED
      BY <3>2 DEF P!Gate!Next
  <2>5. CASE end # "PROVED"
    <3>1. proved' = proved
      BY <1>0, <2>1, <2>2, <2>5
    <3> QED
      BY <2>3, <3>1
  <2> QED
    BY <2>4, <2>5
<1> QED
  BY <1>2, <1>3, <1>4, <1>5, <1>6, <1>7 DEF P!Next

ExperimentRead(k) ==
  /\ k.seen.revision <= experiment.revision
  /\ k.seen.revision = experiment.revision => k.seen = experiment
  /\ k.seen.plan <= experiment.plan

\* Where a call goes after the truth was checked or the ledger charged.
ExperimentGoes(k) == IF k.pc \in {"truth", "read", "cas"} THEN k.next ELSE k.pc

ExperimentRequest(k) ==
  /\ ExperimentGoes(k) \notin {"truth", "read", "cas"}
  /\ k.pc = "truth" => k.next \in {"save", "settle", "plan"}
  /\ k.pc \in {"read", "cas"} => /\ k.charge # "none"
                                 /\ k.next \in {"adopt", "admit", "await"}
                                 /\ k.next = "adopt" => k.charge = "design"
  /\ ExperimentGoes(k) \in {"insert", "adopt"} => k.plan = k.seen.plan + 1
  /\ ExperimentGoes(k) \in {"save", "put", "expire", "sponsor", "settle", "record"} =>
       k.plan \in E!Plan
  /\ ExperimentGoes(k) = "put" => k.request.issue # 0
  /\ ExperimentGoes(k) \in {"expire", "sponsor", "settle"} => k.request.revision = 1
  /\ ExperimentGoes(k) \in {"sponsor", "settle", "record", "move"} => k.decision # "NONE"
  /\ ExperimentGoes(k) = "adopt" => k.plan <= plans

ExperimentEffect(k) ==
  /\ k.pc = "cas" => E!WithinBudget(E!Charged(k.usage, k.charge))
  /\ k.pc = "adopt" => k.plan <= usage.designs
  /\ ExperimentGoes(k) = "plan" => plans # 0
  /\ ExperimentGoes(k) = "record" => k.plan \in sponsored
  /\ ExperimentGoes(k) \in {"action", "admit", "link"} =>
       k.plan \in E!Plan /\ k.record \in E!Plan /\ k.record \in sponsored
  /\ k.pc = "admit" \/ (k.pc \in {"read", "cas"} /\ k.next = "admit" /\ k.charge # "reserve")
       => usage.reserved + usage.committed >= 1
  /\ k.pc = "link" => <<k.record, k.plan>> \in objective
  /\ ExperimentGoes(k) \in {"charge", "await"} => lineage # {}

ExperimentCall(k) == ExperimentRead(k) /\ ExperimentRequest(k) /\ ExperimentEffect(k)

ExperimentRows ==
  /\ experiment.revision = 1 => experiment = E!NewExperiment
  /\ experiment.status \notin {"ADMITTED", "DESIGNING", "CANCELLED", "STALE"} => plans # 0
  /\ \A v \in E!Plan : request[v].status = "PENDING" => request[v].revision = 1
  /\ record # 0 => record \in sponsored
  /\ E!CompilationIsAccounted

ExperimentInv ==
  /\ E!TypeOK
  /\ ExperimentRows
  /\ \A c \in Call : ExperimentCall(call[c])

\* What only grows, so that a call which has seen it may rely on it.
ExperimentGrows ==
  /\ \/ experiment' = experiment
     \/ /\ experiment'.revision = experiment.revision + 1
        /\ experiment.plan <= experiment'.plan
  /\ plans <= plans'
  /\ usage.designs <= usage'.designs
  /\ usage.reserved + usage.committed <= usage'.reserved + usage'.committed
  /\ sponsored \subseteq sponsored'
  /\ lineage \subseteq lineage'
  /\ objective \subseteq objective'

\* What a call starts with, the first row and the empty ledger.
LEMMA ExperimentIdle ==
  ASSUME Bounds
  PROVE  E!Idle \in E!CallState /\ E!NewExperiment \in E!Experiment /\ E!NoUsage \in E!Usage
<1>1. E!NewExperiment \in E!Experiment
  BY DEF Bounds, E!NewExperiment, E!Experiment, E!ExperimentState
<1>2. E!NoRequest \in E!Request(MaxIssues)
  BY DEF Bounds, E!NoRequest, E!Request
<1>3. E!NoUsage \in E!Usage
  BY DEF Bounds, E!NoUsage, E!Usage
<1> QED
  BY <1>1, <1>2, <1>3 DEF Bounds, E!Idle, E!CallState, E!PC

\* A call that does not move keeps what it relies on.
LEMMA ExperimentOthers ==
  ASSUME Bounds, E!TypeOK, ExperimentGrows,
         experiment' \in E!Experiment, plans' \in Nat, usage' \in E!Usage,
         NEW k \in E!CallState, ExperimentCall(k)
  PROVE  ExperimentCall(k)'
<1>1. /\ k.seen.revision \in Nat /\ experiment.revision \in Nat /\ plans \in Nat
      /\ k.seen.plan \in Nat /\ experiment.plan \in Nat /\ experiment'.plan \in Nat
      /\ k.plan \in Nat
  BY DEF Bounds, E!TypeOK, E!CallState, E!Experiment
<1>2. /\ usage.designs \in Nat /\ usage'.designs \in Nat
      /\ usage.reserved + usage.committed \in Nat /\ usage'.reserved + usage'.committed \in Nat
  BY DEF Bounds, E!TypeOK, E!Usage
<1>3. ExperimentRead(k)'
  BY <1>1 DEF ExperimentCall, ExperimentRead, ExperimentGrows
<1>4. ExperimentRequest(k)'
  BY <1>1 DEF ExperimentCall, ExperimentRequest, ExperimentGrows, ExperimentGoes
<1>5. ExperimentEffect(k)'
  <2>1. k.pc = "adopt" => k.plan <= usage'.designs
    BY <1>1, <1>2 DEF ExperimentCall, ExperimentEffect, ExperimentGrows
  <2>2. ExperimentGoes(k) = "plan" => plans' # 0
    BY <1>1 DEF ExperimentCall, ExperimentEffect, ExperimentGrows
  <2>3. k.pc = "admit" \/ (k.pc \in {"read", "cas"} /\ k.next = "admit" /\ k.charge # "reserve")
          => usage'.reserved + usage'.committed >= 1
    BY <1>2 DEF ExperimentCall, ExperimentEffect, ExperimentGrows
  <2> QED
    BY <2>1, <2>2, <2>3 DEF ExperimentCall, ExperimentEffect, ExperimentGrows, ExperimentGoes
<1> QED
  BY <1>3, <1>4, <1>5 DEF ExperimentCall

\* One call has moved, the others keep what they rely on, and the tables have their types.
LEMMA ExperimentSteps ==
  ASSUME Bounds, ExperimentInv, ExperimentGrows, ExperimentRows',
         NEW c \in Call, NEW k \in E!CallState, call' = [call EXCEPT ![c] = k],
         ExperimentCall(k)',
         experiment' \in E!Experiment, plans' \in 0 .. MaxPlans,
         request' \in [E!Plan -> E!Request(MaxIssues)],
         record' \in 0 .. MaxPlans, issued' \in 0 .. MaxIssues,
         store' \in [Call -> [E!Plan -> 0 .. MaxIssues]],
         known' \subseteq 1 .. MaxIssues, usage' \in E!Usage,
         lineage' \subseteq E!Plan, objective' \subseteq E!Plan \X E!Plan,
         drifted' \in BOOLEAN, sponsored' \subseteq E!Plan
  PROVE  ExperimentInv'
<1>1. call \in [Call -> E!CallState] /\ E!TypeOK
  BY DEF ExperimentInv, E!TypeOK
<1>2. call' \in [Call -> E!CallState]
  BY <1>1
<1>3. ASSUME NEW d \in Call PROVE ExperimentCall(call[d])'
  <2>1. CASE d = c
    <3>1. call'[d] = k
      BY <1>1, <2>1
    <3> QED
      BY <3>1 DEF ExperimentCall, ExperimentRead, ExperimentRequest, ExperimentEffect,
         ExperimentGoes
  <2>2. CASE d # c
    <3>1. PICK x \in E!CallState : x = call[d]
      BY <1>1
    <3>2. call'[d] = x
      BY <1>1, <2>2, <3>1
    <3>3. ExperimentCall(x)
      BY <3>1 DEF ExperimentInv
    <3>4. ExperimentCall(x)'
      BY <1>1, <3>3, ExperimentOthers DEF Bounds
    <3> QED
      BY <3>2, <3>4 DEF ExperimentCall, ExperimentRead, ExperimentRequest, ExperimentEffect,
         ExperimentGoes
  <2> QED
    BY <2>1, <2>2
<1>4. E!TypeOK'
  BY <1>2 DEF E!TypeOK
<1> QED
  BY <1>3, <1>4 DEF ExperimentInv

\* The transitions that the properties depend on.
LEMMA ExperimentTransitions ==
  ASSUME NEW from, NEW to, <<from, to>> \in E!Transitions,
         to \notin {"ADMITTED", "DESIGNING", "CANCELLED", "STALE", "PLANNED"}
  PROVE  from \notin {"ADMITTED", "DESIGNING", "CANCELLED", "STALE"}
  BY DEF E!Transitions, E!ExperimentState

\* Steps that move a call and at most the experiment's row.
LEMMA ExperimentMoves ==
  ASSUME Bounds, ExperimentInv,
         NEW c \in Call, NEW k \in E!CallState, call' = [call EXCEPT ![c] = k],
         ExperimentCall(k)',
         experiment' \in E!Experiment,
         \/ experiment' = experiment
         \/ /\ experiment'.revision = experiment.revision + 1
            /\ <<experiment.status, experiment'.status>> \in E!Transitions
            /\ experiment.plan <= experiment'.plan
            /\ experiment'.plan <= usage.designs
            /\ experiment'.status = "PLANNED" => plans # 0
            /\ experiment'.status = "AWAITING_EXECUTION_AUTHORIZATION" => lineage # {},
         UNCHANGED <<plans, request, record, issued, known, sponsored, usage, E!outcomeVars,
         drifted>>,
         store' \in [Call -> [E!Plan -> 0 .. MaxIssues]]
  PROVE  ExperimentInv'
<1> USE DEF E!outcomeVars
<1>0. E!TypeOK
  BY DEF ExperimentInv
<1>1. usage.designs \in Nat /\ usage.reserved + usage.committed \in Nat /\ plans \in Nat
  BY <1>0 DEF Bounds, E!TypeOK, E!Usage
<1>2. ExperimentGrows
  BY <1>1 DEF ExperimentGrows
<1>3. ExperimentRows'
  <2>1. experiment.revision \in Nat \ {0}
    BY <1>0 DEF Bounds, E!TypeOK, E!Experiment
  <2>2. CASE experiment' = experiment
    BY <2>2 DEF ExperimentInv, ExperimentRows, E!CompilationIsAccounted, E!WithinBudget
  <2>3. CASE experiment' # experiment
    <3>1. experiment'.revision # 1
      BY <2>1, <2>3
    <3>2. experiment'.status \notin {"ADMITTED", "DESIGNING", "CANCELLED", "STALE"} => plans # 0
      BY <2>3, ExperimentTransitions DEF ExperimentInv, ExperimentRows
    <3>3. E!CompilationIsAccounted'
      BY <2>3 DEF ExperimentInv, ExperimentRows, E!CompilationIsAccounted, E!WithinBudget
    <3> QED
      BY <3>1, <3>2, <3>3 DEF ExperimentInv, ExperimentRows
  <2> QED
    BY <2>2, <2>3
<1> QED
  BY <1>0, <1>2, <1>3, ExperimentSteps DEF E!TypeOK

\* What a call has seen of the row: the row, what it had seen before, or the first row.
LEMMA ExperimentReads ==
  ASSUME Bounds, ExperimentInv, NEW c \in Call, NEW k \in E!CallState,
         k.seen \in {experiment, call[c].seen, E!NewExperiment}
  PROVE  ExperimentRead(k)
<1>1. experiment.revision \in Nat \ {0} /\ experiment.plan \in Nat
  BY DEF Bounds, ExperimentInv, E!TypeOK, E!Experiment
<1>2. E!NewExperiment.revision = 1 /\ E!NewExperiment.plan = 0
  BY DEF E!NewExperiment
<1>3. ExperimentRead(call[c])
  BY DEF ExperimentInv, ExperimentCall
<1>4. experiment.revision = 1 => experiment = E!NewExperiment
  BY DEF ExperimentInv, ExperimentRows
<1> QED
  BY <1>1, <1>2, <1>3, <1>4 DEF ExperimentRead

\* A call that is at no statement relies on nothing.
LEMMA ExperimentRests ==
  ASSUME Bounds, NEW k \in E!CallState, k.pc = "idle"
  PROVE  /\ ExperimentRequest(k) /\ ExperimentEffect(k)
         /\ ExperimentRequest(k)' /\ ExperimentEffect(k)'
  BY DEF ExperimentRequest, ExperimentEffect, ExperimentGoes

\* A step that moves nothing but its call.
LEMMA ExperimentQuiet ==
  ASSUME Bounds, ExperimentInv,
         NEW c \in Call, NEW k \in E!CallState, call' = [call EXCEPT ![c] = k],
         k.seen \in {experiment, call[c].seen, E!NewExperiment},
         ExperimentRequest(k), ExperimentEffect(k),
         UNCHANGED <<E!planVars, E!requestVars, usage, E!outcomeVars, drifted>>
  PROVE  ExperimentInv'
<1> USE DEF E!planVars, E!requestVars, E!outcomeVars
<1>1. ExperimentCall(k)'
  BY ExperimentReads
  DEF ExperimentCall, ExperimentRead, ExperimentRequest, ExperimentEffect, ExperimentGoes
<1>2. experiment' \in E!Experiment /\ store' \in [Call -> [E!Plan -> 0 .. MaxIssues]]
  BY DEF ExperimentInv, E!TypeOK
<1> QED
  BY <1>1, <1>2, ExperimentMoves

\* A step that begins with a transition and goes on with the row it wrote.
LEMMA ExperimentGoesOn ==
  ASSUME Bounds, ExperimentInv,
         NEW c \in Call, NEW status \in E!ExperimentState, NEW state \in E!CallState,
         E!MoveAndGoOn(c, status, state),
         <<experiment.status, status>> \in E!Transitions,
         status \notin {"PLANNED", "AWAITING_EXECUTION_AUTHORIZATION"},
         \/ state.pc \in {"idle", "validated"}
         \/ state.pc = "insert" /\ state.plan = experiment.plan + 1,
         UNCHANGED <<plans, E!requestVars, usage, E!outcomeVars, drifted>>
  PROVE  ExperimentInv'
<1> USE DEF E!requestVars
<1>1. PICK e : e = experiment'
  OBVIOUS
<1>2. PICK k : k = [state EXCEPT !.seen = e]
  OBVIOUS
<1>3. /\ e \in E!Experiment
      /\ e.revision = experiment.revision + 1
      /\ e.status = status
      /\ e.plan = experiment.plan
  <2>1. experiment \in E!Experiment /\ experiment.revision \in Nat \ {0}
          /\ experiment.revision < (MaxWrites - 1)
    BY DEF E!MoveAndGoOn, Bounds, ExperimentInv, E!TypeOK, E!Experiment
  <2>2. experiment.revision + 1 \in 1 .. (MaxWrites - 1)
    BY <2>1 DEF Bounds
  <2>3. e = [experiment EXCEPT !.status = status, !.revision = experiment.revision + 1]
    BY <1>1 DEF E!MoveAndGoOn, E!Moved
  <2> QED
    BY <2>1, <2>2, <2>3 DEF E!Experiment
<1>4. /\ k \in E!CallState /\ k.seen = e /\ k.pc = state.pc /\ k.plan = state.plan
  BY <1>2, <1>3 DEF E!CallState
<1>5. call' = [call EXCEPT ![c] = k]
  BY <1>1, <1>2 DEF E!MoveAndGoOn, E!Enter
<1>6. ExperimentRequest(k)' /\ ExperimentEffect(k)'
  BY <1>3, <1>4 DEF ExperimentRequest, ExperimentEffect, ExperimentGoes
<1>7. ExperimentRead(k)'
  BY <1>1, <1>3, <1>4 DEF ExperimentRead, E!Experiment, Bounds
<1>8. store' \in [Call -> [E!Plan -> 0 .. MaxIssues]]
  BY DEF ExperimentInv, E!TypeOK
<1>9. experiment.plan <= experiment'.plan /\ experiment'.plan <= usage.designs
  BY <1>1, <1>3 DEF ExperimentInv, E!TypeOK, ExperimentRows, E!CompilationIsAccounted,
     E!Experiment, Bounds
<1> QED
  BY <1>1, <1>3, <1>4, <1>5, <1>6, <1>7, <1>8, <1>9, ExperimentMoves DEF ExperimentCall

\* A step that ends with a transition of the row that was read, or throws.
LEMMA ExperimentEnds ==
  ASSUME Bounds, ExperimentInv,
         NEW c \in Call, NEW new,
         E!MoveAndReturn(c, new),
         new \in [status: E!ExperimentState, revision: Nat, plan: 0 .. MaxPlans],
         new.revision = call[c].seen.revision + 1,
         call[c].seen.plan <= new.plan,
         call[c].seen = experiment => new.plan <= usage.designs,
         new.status = "PLANNED" => plans # 0,
         new.status = "AWAITING_EXECUTION_AUTHORIZATION" => lineage # {},
         UNCHANGED <<plans, E!requestVars, usage, E!outcomeVars, drifted>>
  PROVE  ExperimentInv'
<1> USE DEF E!requestVars
<1>1. /\ call \in [Call -> E!CallState] /\ experiment \in E!Experiment
      /\ experiment.revision \in Nat /\ experiment.revision < (MaxWrites - 1)
  BY DEF E!MoveAndReturn, Bounds, ExperimentInv, E!TypeOK, E!Experiment
<1>2. ExperimentRead(call[c])
  BY DEF ExperimentInv, ExperimentCall
<1>3. \/ experiment' = experiment
      \/ /\ experiment' = new
         /\ experiment'.revision = experiment.revision + 1
         /\ <<experiment.status, new.status>> \in E!Transitions
         /\ experiment.plan <= new.plan
         /\ new.plan <= usage.designs
  BY <1>2 DEF E!MoveAndReturn, ExperimentRead
<1>4. experiment' \in E!Experiment
  BY <1>1, <1>3 DEF E!Experiment, Bounds
<1>5. call' = [call EXCEPT ![c] = E!Idle]
  BY DEF E!MoveAndReturn, E!Return
<1>6. E!Idle \in E!CallState /\ E!Idle.pc = "idle" /\ E!Idle.seen = E!NewExperiment
  BY ExperimentIdle DEF E!Idle
<1>7. ExperimentRead(E!Idle)'
  <2>1. ExperimentRead(E!Idle) /\ E!NewExperiment.revision = 1 /\ E!NewExperiment.plan = 0
    BY <1>6, ExperimentReads DEF E!NewExperiment
  <2>2. experiment.revision \in Nat \ {0} /\ experiment.plan \in Nat /\ experiment'.plan \in Nat
    BY <1>1, <1>4 DEF E!Experiment, Bounds
  <2> QED
    BY <1>3, <1>6, <2>1, <2>2 DEF ExperimentRead
<1>8. ExperimentCall(E!Idle)'
  BY <1>6, <1>7, ExperimentRests DEF ExperimentCall
<1>9. store' \in [Call -> [E!Plan -> 0 .. MaxIssues]]
  BY DEF ExperimentInv, E!TypeOK
<1> QED
  BY <1>3, <1>4, <1>5, <1>6, <1>8, <1>9, ExperimentMoves

\* The same for an operation that changes nothing but the status.
LEMMA ExperimentConcludes ==
  ASSUME Bounds, ExperimentInv,
         NEW c \in Call, NEW status \in E!ExperimentState \ {"PLANNED"},
         status = "AWAITING_EXECUTION_AUTHORIZATION" => lineage # {},
         E!MoveAndReturn(c, E!Moved(call[c].seen, status)),
         UNCHANGED <<plans, E!requestVars, usage, E!outcomeVars, drifted>>
  PROVE  ExperimentInv'
<1>1. call[c].seen \in E!Experiment
  BY DEF ExperimentInv, E!TypeOK, E!CallState
<1>2. PICK new : new = E!Moved(call[c].seen, status)
  OBVIOUS
<1>3. PICK e \in E!Experiment : e = call[c].seen
  BY <1>1
<1>4. e.revision + 1 \in Nat /\ e.plan \in Nat
        /\ e \in [status: E!ExperimentState, revision: Nat, plan: 0 .. MaxPlans]
  BY DEF E!Experiment, Bounds
<1>5. /\ new \in [status: E!ExperimentState, revision: Nat, plan: 0 .. MaxPlans]
      /\ new.revision = e.revision + 1 /\ new.status = status /\ new.plan = e.plan
  BY <1>2, <1>3, <1>4 DEF E!Moved
<1>6. e = experiment => new.plan <= usage.designs
  BY <1>5 DEF ExperimentInv, ExperimentRows, E!CompilationIsAccounted
<1>7. e.plan <= new.plan
  BY <1>4, <1>5
<1> QED
  BY <1>2, <1>3, <1>5, <1>6, <1>7, ExperimentEnds

\* A call that goes on with what it carries.
LEMMA ExperimentGoTo ==
  ASSUME ExperimentInv, NEW c \in Call, NEW pc \in E!PC, E!GoTo(c, pc)
  PROVE  \E k \in E!CallState :
           /\ call' = [call EXCEPT ![c] = k]
           /\ k.pc = pc /\ k.next = call[c].next /\ k.seen = call[c].seen
           /\ k.plan = call[c].plan /\ k.record = call[c].record
           /\ k.request = call[c].request /\ k.decision = call[c].decision
           /\ k.usage = call[c].usage /\ k.charge = call[c].charge
<1>1. call \in [Call -> E!CallState] /\ call[c] \in E!CallState
  BY DEF ExperimentInv, E!TypeOK
<1>2. PICK k : k = [call[c] EXCEPT !.pc = pc]
  OBVIOUS
<1>3. call' = [call EXCEPT ![c] = k]
  BY <1>1, <1>2 DEF E!GoTo
<1>4. /\ k \in E!CallState
      /\ k.pc = pc /\ k.next = call[c].next /\ k.seen = call[c].seen
      /\ k.plan = call[c].plan /\ k.record = call[c].record
      /\ k.request = call[c].request /\ k.decision = call[c].decision
      /\ k.usage = call[c].usage /\ k.charge = call[c].charge
  BY <1>1, <1>2 DEF E!CallState
<1> QED
  BY <1>3, <1>4

\* A call that goes to charge the ledger.
LEMMA ExperimentCharges ==
  ASSUME ExperimentInv, NEW c \in Call, NEW next \in E!PC,
         NEW charge \in {"design", "reserve", "settle", "commit"}, E!Charge(c, charge, next)
  PROVE  \E k \in E!CallState :
           /\ call' = [call EXCEPT ![c] = k]
           /\ k.pc = "read" /\ k.next = next /\ k.seen = call[c].seen
           /\ k.plan = call[c].plan /\ k.record = call[c].record /\ k.charge = charge
<1>1. call \in [Call -> E!CallState] /\ call[c] \in E!CallState
  BY DEF ExperimentInv, E!TypeOK
<1>2. PICK k : k = [call[c] EXCEPT !.pc = "read", !.charge = charge, !.next = next]
  OBVIOUS
<1>3. call' = [call EXCEPT ![c] = k]
  BY <1>1, <1>2 DEF E!Charge
<1>4. /\ k \in E!CallState
      /\ k.pc = "read" /\ k.next = next /\ k.seen = call[c].seen
      /\ k.plan = call[c].plan /\ k.record = call[c].record /\ k.charge = charge
  <2>1. "read" \in E!PC /\ charge \in {"none", "design", "reserve", "settle", "commit"}
    BY DEF E!PC
  <2> QED
    BY <1>1, <1>2, <2>1 DEF E!CallState
<1> QED
  BY <1>3, <1>4

\* Steps on the requests for an authorization.
LEMMA ExperimentDecides ==
  ASSUME Bounds, ExperimentInv,
         NEW c \in Call, NEW k \in E!CallState, call' = [call EXCEPT ![c] = k],
         k.seen \in {experiment, call[c].seen, E!NewExperiment},
         ExperimentRequest(k)', ExperimentEffect(k)',
         UNCHANGED <<E!planVars, usage, E!outcomeVars, drifted>>,
         request' \in [E!Plan -> E!Request(MaxIssues)],
         \A v \in E!Plan : request'[v].status = "PENDING" => request'[v].revision = 1,
         record' \in 0 .. MaxPlans, issued' \in 0 .. MaxIssues,
         store' \in [Call -> [E!Plan -> 0 .. MaxIssues]],
         known' \subseteq 1 .. MaxIssues,
         sponsored' \subseteq E!Plan, sponsored \subseteq sponsored',
         record' # 0 => record' \in sponsored'
  PROVE  ExperimentInv'
<1> USE DEF E!planVars, E!outcomeVars
<1>1. ExperimentGrows
  BY DEF ExperimentGrows, ExperimentInv, E!TypeOK, E!Usage, Bounds
<1>2. ExperimentCall(k)'
  BY ExperimentReads DEF ExperimentCall, ExperimentRead
<1>3. ExperimentRows'
  BY DEF ExperimentInv, ExperimentRows, E!CompilationIsAccounted, E!WithinBudget
<1> QED
  BY <1>1, <1>2, <1>3, ExperimentSteps DEF ExperimentInv, E!TypeOK

\* The request that a decision has read, written back with another status.
LEMMA ExperimentSettles ==
  ASSUME Bounds, ExperimentInv, NEW c \in Call, NEW status \in {"SETTLED", "EXPIRED"},
         call[c].request.revision = 1, call[c].plan \in E!Plan, E!Settle(c, status)
  PROVE  /\ request' \in [E!Plan -> E!Request(MaxIssues)]
         /\ \A v \in E!Plan : request'[v].status = "PENDING" => request'[v].revision = 1
<1>1. request \in [E!Plan -> E!Request(MaxIssues)] /\ call[c].request \in E!Request(MaxIssues)
  BY DEF ExperimentInv, E!TypeOK, E!CallState
<1>2. PICK r : r = E!Settled(call[c].request, status)
  OBVIOUS
<1>3. r \in E!Request(MaxIssues) /\ r.status = status
  <2>1. PICK q \in E!Request(MaxIssues) : q = call[c].request
    BY <1>1
  <2>2. r = [q EXCEPT !.status = status, !.revision = 2]
    BY <1>2, <2>1 DEF E!Settled
  <2>3. q.issue \in 0 .. MaxIssues /\ 2 \in 0 .. 2
    BY DEF E!Request
  <2>4. r = [status |-> status, issue |-> q.issue, revision |-> 2]
    BY <2>2 DEF E!Request
  <2>5. status \in {"NONE", "PENDING", "SETTLED", "EXPIRED"}
    OBVIOUS
  <2> QED
    BY <2>3, <2>4, <2>5 DEF E!Request
<1>4. request' = [request EXCEPT ![call[c].plan] = r]
  BY <1>2 DEF E!Settle
<1>5. \A v \in E!Plan : request[v].status = "PENDING" => request[v].revision = 1
  BY DEF ExperimentInv, ExperimentRows
<1> QED
  BY <1>1, <1>3, <1>4, <1>5

\* design, validate and the charges: a plan is inserted and then adopted, and the ledger
\* is saved under the revision that was read.
LEMMA ExperimentDesign ==
  ASSUME Bounds, ExperimentInv, NEW c \in Call, E!DesignStep(c)
  PROVE  ExperimentInv'
<1> USE DEF E!requestVars, E!planVars, E!outcomeVars
<1>0. /\ call \in [Call -> E!CallState] /\ call[c] \in E!CallState
      /\ experiment \in E!Experiment /\ plans \in 0 .. MaxPlans /\ usage \in E!Usage
      /\ ExperimentCall(call[c]) /\ ExperimentRequest(call[c]) /\ ExperimentEffect(call[c])
      /\ ExperimentRead(call[c])
      /\ experiment.plan <= usage.designs
  BY DEF ExperimentInv, E!TypeOK, ExperimentCall, ExperimentRows, E!CompilationIsAccounted
<1>t. E!Idle \in E!CallState /\ E!Idle.pc = "idle" /\ E!Idle.seen = E!NewExperiment
  BY ExperimentIdle DEF E!Idle
<1>u. call[c].plan \in 0 .. MaxPlans /\ call[c].seen \in E!Experiment
  BY <1>0 DEF E!CallState
<1>1. CASE E!StartDesign(c)
  <2>1. PICK state : state = [E!Idle EXCEPT !.pc = "insert", !.plan = experiment.plan + 1]
    OBVIOUS
  <2>2. experiment.plan + 1 \in 0 .. MaxPlans
    BY <1>0, <1>1 DEF E!StartDesign, E!Experiment, Bounds
  <2>3. state \in E!CallState /\ state.pc = "insert" /\ state.plan = experiment.plan + 1
    BY <1>t, <2>1, <2>2 DEF E!CallState, E!PC
  <2>4. CASE E!MoveAndGoOn(c, "DESIGNING", state) /\ experiment.status \in {"ADMITTED", "STALE"}
    <3>1. <<experiment.status, "DESIGNING">> \in E!Transitions
      BY <2>4 DEF E!Transitions
    <3> QED
      BY <1>1, <2>3, <2>4, <3>1, ExperimentGoesOn DEF E!StartDesign, E!ExperimentState
  <2>5. CASE E!Enter(c, [state EXCEPT !.seen = experiment]) /\ UNCHANGED experiment
    <3>1. PICK k : k = [state EXCEPT !.seen = experiment]
      OBVIOUS
    <3>2. /\ k \in E!CallState /\ k.pc = "insert" /\ k.plan = experiment.plan + 1
          /\ k.seen = experiment
      BY <1>0, <2>3, <3>1 DEF E!CallState
    <3>3. ExperimentRequest(k) /\ ExperimentEffect(k)
      BY <3>2 DEF ExperimentRequest, ExperimentEffect, ExperimentGoes
    <3>4. /\ call' = [call EXCEPT ![c] = k]
          /\ UNCHANGED <<E!planVars, E!requestVars, usage, E!outcomeVars, drifted>>
      BY <1>1, <2>5, <3>1 DEF E!StartDesign, E!Enter
    <3> QED
      BY <3>2, <3>3, <3>4, ExperimentQuiet
  <2> QED
    BY <1>1, <2>1, <2>4, <2>5 DEF E!StartDesign
<1>2. CASE E!InsertPlan(c)
  <2>1. PICK k \in E!CallState :
           /\ call' = [call EXCEPT ![c] = k]
           /\ k.pc = "read" /\ k.next = "adopt" /\ k.seen = call[c].seen
           /\ k.plan = call[c].plan /\ k.record = call[c].record /\ k.charge = "design"
    BY <1>2, ExperimentCharges DEF E!InsertPlan, E!PC
  <2>2. /\ plans' = call[c].plan /\ plans < plans' /\ plans' \in 0 .. MaxPlans /\ plans' # 0
    BY <1>0, <1>2, <1>u DEF E!InsertPlan, Bounds
  <2>3. call[c].plan = call[c].seen.plan + 1
    BY <1>0, <1>2 DEF E!InsertPlan, E!At, ExperimentRequest, ExperimentGoes
  <2>4. UNCHANGED <<experiment, E!requestVars, usage, E!outcomeVars, drifted>>
    BY <1>2 DEF E!InsertPlan
  <2>5. ExperimentRequest(k)' /\ ExperimentEffect(k)'
    BY <2>1, <2>2, <2>3 DEF ExperimentRequest, ExperimentEffect, ExperimentGoes, Bounds
  <2>6. ExperimentRead(k)'
    BY <1>0, <2>1, <2>4 DEF ExperimentRead
  <2>7. ExperimentGrows
    BY <1>0, <2>2, <2>4 DEF ExperimentGrows, E!Usage, Bounds
  <2>8. ExperimentRows'
    BY <2>2, <2>4 DEF ExperimentInv, ExperimentRows, E!CompilationIsAccounted, E!WithinBudget
  <2>9. ExperimentCall(k)'
    BY <2>5, <2>6 DEF ExperimentCall
  <2>10. E!TypeOK
    BY DEF ExperimentInv
  <2> QED
    BY <2>1, <2>2, <2>4, <2>7, <2>8, <2>9, <2>10, ExperimentSteps DEF E!TypeOK
<1>3. CASE E!AdoptPlan(c)
  <2>1. PICK new : new = [E!Moved(call[c].seen, "PLANNED") EXCEPT !.plan = call[c].plan]
    OBVIOUS
  <2>2. PICK e \in E!Experiment : e = call[c].seen
    BY <1>u
  <2>3. PICK m : m = E!Moved(e, "PLANNED")
    OBVIOUS
  <2>4. e.revision + 1 \in Nat /\ e.plan \in Nat
          /\ e \in [status: E!ExperimentState, revision: Nat, plan: 0 .. MaxPlans]
    BY DEF E!Experiment, Bounds
  <2>5. /\ m \in [status: E!ExperimentState, revision: Nat, plan: 0 .. MaxPlans]
        /\ m.revision = e.revision + 1 /\ m.status = "PLANNED"
    BY <2>3, <2>4 DEF E!Moved, E!ExperimentState
  <2>6. new = [m EXCEPT !.plan = call[c].plan]
    BY <2>1, <2>2, <2>3
  <2>7. /\ new \in [status: E!ExperimentState, revision: Nat, plan: 0 .. MaxPlans]
        /\ new.revision = e.revision + 1 /\ new.status = "PLANNED" /\ new.plan = call[c].plan
    BY <1>u, <2>5, <2>6
  <2>8. /\ call[c].plan = e.plan + 1 /\ call[c].plan <= usage.designs /\ call[c].plan <= plans
    BY <1>0, <1>3, <2>2 DEF E!AdoptPlan, E!At, ExperimentRequest, ExperimentEffect, ExperimentGoes
  <2>9. plans # 0 /\ e.plan <= new.plan
    BY <1>0, <1>u, <2>4, <2>7, <2>8 DEF Bounds
  <2> QED
    BY <1>3, <2>1, <2>2, <2>7, <2>8, <2>9, ExperimentEnds DEF E!AdoptPlan
<1>4. CASE E!StartValidate(c)
  <2>1. PICK state : state = [E!Idle EXCEPT !.pc = "validated"]
    OBVIOUS
  <2>2. PICK k : k = [E!Idle EXCEPT !.pc = "validated", !.seen = experiment]
    OBVIOUS
  <2>3. /\ state \in E!CallState /\ state.pc = "validated"
        /\ k \in E!CallState /\ k.pc = "validated" /\ k.seen = experiment
    BY <1>0, <1>t, <2>1, <2>2 DEF E!CallState, E!PC
  <2>4. ExperimentRequest(k) /\ ExperimentEffect(k)
    BY <2>3 DEF ExperimentRequest, ExperimentEffect, ExperimentGoes
  <2>5. CASE experiment.status = "PLANNED" /\ E!MoveAndGoOn(c, "VALIDATING", state)
    <3>1. <<experiment.status, "VALIDATING">> \in E!Transitions
      BY <2>5 DEF E!Transitions
    <3> QED
      BY <1>4, <2>3, <2>5, <3>1, ExperimentGoesOn DEF E!StartValidate, E!ExperimentState
  <2>6. CASE call' = [call EXCEPT ![c] = k] /\ UNCHANGED experiment
    <3>1. UNCHANGED <<E!planVars, E!requestVars, usage, E!outcomeVars, drifted>>
      BY <1>4, <2>6 DEF E!StartValidate
    <3> QED
      BY <2>3, <2>4, <2>6, <3>1, ExperimentQuiet
  <2> QED
    BY <1>4, <2>1, <2>2, <2>5, <2>6 DEF E!StartValidate, E!Enter
<1>5. CASE E!FinishValidate(c)
  BY <1>5, ExperimentConcludes DEF E!FinishValidate, E!ExperimentState
<1>6. CASE E!ReadUsage(c)
  <2>1. PICK k : k = [call[c] EXCEPT !.pc = "cas", !.usage = usage]
    OBVIOUS
  <2>2. /\ k \in E!CallState /\ k.pc = "cas" /\ k.usage = usage /\ k.seen = call[c].seen
        /\ k.plan = call[c].plan /\ k.record = call[c].record /\ k.charge = call[c].charge
        /\ k.next = call[c].next /\ k.request = call[c].request /\ k.decision = call[c].decision
    BY <1>0, <2>1 DEF E!CallState, E!PC
  <2>3. call[c].pc = "read" /\ E!WithinBudget(E!Charged(usage, call[c].charge))
    BY <1>6 DEF E!ReadUsage, E!At
  <2>4. ExperimentGoes(k) = call[c].next /\ ExperimentGoes(call[c]) = call[c].next
    BY <2>2, <2>3 DEF ExperimentGoes
  <2>5. ExperimentRequest(k)
    BY <1>0, <2>2, <2>3, <2>4 DEF ExperimentRequest
  <2>6. ExperimentEffect(k)
    BY <1>0, <2>2, <2>3, <2>4 DEF ExperimentEffect
  <2>7. /\ call' = [call EXCEPT ![c] = k]
        /\ UNCHANGED <<E!planVars, E!requestVars, usage, E!outcomeVars, drifted>>
    BY <1>0, <1>6, <2>1 DEF E!ReadUsage
  <2> QED
    BY <2>2, <2>5, <2>6, <2>7, ExperimentQuiet
<1>7. CASE E!SaveUsage(c)
  <2>0. /\ call[c].pc = "cas" /\ call[c].charge # "none"
        /\ call[c].next \in {"adopt", "admit", "await"}
        /\ UNCHANGED <<E!planVars, E!requestVars, E!outcomeVars, drifted>>
    BY <1>0, <1>7 DEF E!SaveUsage, E!At, ExperimentRequest
  <2>1. CASE usage = call[c].usage
    <3>1. PICK k : k = [call[c] EXCEPT !.pc = call[c].next, !.next = "idle",
                                       !.usage = E!NoUsage, !.charge = "none"]
      OBVIOUS
    <3>2. /\ k \in E!CallState /\ k.pc = call[c].next /\ k.seen = call[c].seen
          /\ k.plan = call[c].plan /\ k.record = call[c].record
          /\ k.request = call[c].request /\ k.decision = call[c].decision
      <4>1. E!NoUsage \in E!Usage /\ "idle" \in E!PC
        BY ExperimentIdle DEF E!PC
      <4> QED
        BY <1>0, <3>1, <4>1 DEF E!CallState
    <3>3. call' = [call EXCEPT ![c] = k]
      BY <1>0, <1>7, <2>1, <3>1 DEF E!SaveUsage
    <3>4. PICK u : u = E!Charged(usage, call[c].charge)
      OBVIOUS
    <3>5. usage' = u
      BY <1>7, <2>1, <3>4 DEF E!SaveUsage
    <3>6. E!WithinBudget(u)
      BY <1>0, <2>0, <2>1, <3>4 DEF ExperimentEffect
    <3>7. call[c].charge \in {"design", "reserve", "settle", "commit"}
      BY <1>0, <2>0 DEF E!CallState
    <3>8. /\ usage.designs \in Nat /\ usage.reserved \in Nat /\ usage.committed \in Nat
          /\ usage \in [designs: Nat, reserved: Nat, committed: Nat]
      BY <1>0 DEF E!Usage, Bounds
    <3>9. /\ u \in [designs: Nat, reserved: Nat, committed: Nat]
          /\ u.designs = IF call[c].charge = "design" THEN usage.designs + 1 ELSE usage.designs
          /\ u.reserved + u.committed >= usage.reserved + usage.committed
          /\ call[c].charge = "reserve" => u.reserved + u.committed >= 1
      <4>1. CASE call[c].charge = "design"
        <5>1. u = [usage EXCEPT !.designs = usage.designs + 1]
          BY <3>4, <4>1 DEF E!Charged
        <5> QED
          BY <3>8, <4>1, <5>1
      <4>2. CASE call[c].charge = "reserve"
        <5>1. u = [usage EXCEPT !.reserved = usage.reserved + 1]
          BY <3>4, <4>2 DEF E!Charged
        <5> QED
          BY <3>8, <4>2, <5>1
      <4>3. CASE call[c].charge = "settle"
        <5>1. PICK r : r = E!AtLeastZero(usage.reserved - 1)
          OBVIOUS
        <5>2. r \in Nat /\ r >= usage.reserved - 1
          BY <3>8, <5>1 DEF E!AtLeastZero
        <5>3. u = [usage EXCEPT !.reserved = r, !.committed = usage.committed + 1]
          BY <3>4, <4>3, <5>1 DEF E!Charged
        <5>4. usage.committed + 1 \in Nat
          BY <3>8
        <5>5. /\ u \in [designs: Nat, reserved: Nat, committed: Nat]
              /\ u.designs = usage.designs /\ u.reserved = r /\ u.committed = usage.committed + 1
          BY <3>8, <5>2, <5>3, <5>4
        <5>6. r + (usage.committed + 1) >= usage.reserved + usage.committed
          BY <3>8, <5>2
        <5> QED
          BY <4>3, <5>5, <5>6
      <4>4. CASE call[c].charge = "commit"
        <5>1. u = [usage EXCEPT !.committed = usage.committed + 1]
          BY <3>4, <4>4 DEF E!Charged
        <5> QED
          BY <3>8, <4>4, <5>1
      <4> QED
        BY <3>7, <4>1, <4>2, <4>3, <4>4
    <3>10. u \in E!Usage
      BY <3>6, <3>9 DEF E!WithinBudget, E!Usage, Bounds
    <3>11. ExperimentRequest(k)'
      <4>1. ExperimentGoes(k) = call[c].next /\ ExperimentGoes(call[c]) = call[c].next
        BY <2>0, <3>2 DEF ExperimentGoes
      <4> QED
        BY <1>0, <2>0, <3>2, <4>1 DEF ExperimentRequest, ExperimentGoes
    <3>12. ExperimentEffect(k)'
      <4>1. ExperimentGoes(k) = call[c].next /\ ExperimentGoes(call[c]) = call[c].next
        BY <2>0, <3>2 DEF ExperimentGoes
      <4>2. k.pc = "adopt" => k.plan <= u.designs
        <5> SUFFICES ASSUME k.pc = "adopt" PROVE k.plan <= u.designs
          OBVIOUS
        <5>1. call[c].charge = "design" /\ call[c].plan = call[c].seen.plan + 1
          BY <1>0, <2>0, <3>2, <4>1 DEF ExperimentRequest
        <5>2. call[c].seen.plan <= experiment.plan /\ experiment.plan <= usage.designs
          BY <1>0 DEF ExperimentRead
        <5>3. call[c].seen.plan \in Nat /\ experiment.plan \in Nat
          BY <1>0, <1>u DEF E!Experiment, Bounds
        <5> QED
          BY <3>2, <3>8, <3>9, <5>1, <5>2, <5>3
      <4>3. k.pc = "admit" => u.reserved + u.committed >= 1
        <5>1. k.pc = "admit" /\ call[c].charge # "reserve" => usage.reserved + usage.committed >= 1
          BY <1>0, <2>0, <3>2 DEF ExperimentEffect
        <5>2. u.reserved + u.committed \in Nat /\ usage.reserved + usage.committed \in Nat
          BY <3>8, <3>9
        <5> QED
          BY <3>9, <5>1, <5>2
      <4>4. /\ k.pc \in {"admit"} => k.plan \in E!Plan /\ k.record \in E!Plan
                 /\ k.record \in sponsored
            /\ k.pc = "await" => lineage # {}
        BY <1>0, <2>0, <3>2, <4>1 DEF ExperimentEffect
      <4>5. k.pc \in {"adopt", "admit", "await"} /\ ExperimentGoes(k) = k.pc
        BY <2>0, <3>2, <4>1
      <4>6. sponsored' = sponsored /\ lineage' = lineage
        BY <2>0
      <4> HIDE DEF E!requestVars, E!planVars, E!outcomeVars
      <4> QED
        BY <3>5, <4>2, <4>3, <4>4, <4>5, <4>6 DEF ExperimentEffect, ExperimentGoes
    <3>13. ExperimentRead(k)'
      BY <1>0, <2>0, <3>2 DEF ExperimentRead
    <3>14. ExperimentCall(k)'
      BY <3>11, <3>12, <3>13 DEF ExperimentCall
    <3>15. ExperimentGrows
      BY <1>0, <2>0, <3>5, <3>8, <3>9 DEF ExperimentGrows, Bounds
    <3>16. ExperimentRows'
      <4>1. experiment.plan <= u.designs
        BY <1>0, <3>8, <3>9 DEF E!Experiment, Bounds
      <4>2. objective # {} => u.reserved + u.committed >= 1
        <5>1. u.reserved + u.committed \in Nat /\ usage.reserved + usage.committed \in Nat
          BY <3>8, <3>9
        <5> QED
          BY <3>9, <5>1 DEF ExperimentInv, ExperimentRows, E!CompilationIsAccounted
      <4>3. E!CompilationIsAccounted'
        BY <2>0, <3>5, <3>6, <4>1, <4>2 DEF ExperimentInv, ExperimentRows,
           E!CompilationIsAccounted, E!WithinBudget
      <4> QED
        BY <2>0, <4>3 DEF ExperimentInv, ExperimentRows
    <3>17. E!TypeOK
      BY DEF ExperimentInv
    <3> QED
      BY <2>0, <3>2, <3>3, <3>5, <3>10, <3>14, <3>15, <3>16, <3>17, ExperimentSteps DEF E!TypeOK
  <2>2. CASE usage # call[c].usage
    <3>1. E!GoTo(c, "read") /\ UNCHANGED usage
      BY <1>7, <2>2 DEF E!SaveUsage
    <3>2. PICK k \in E!CallState :
           /\ call' = [call EXCEPT ![c] = k]
           /\ k.pc = "read" /\ k.next = call[c].next /\ k.seen = call[c].seen
           /\ k.plan = call[c].plan /\ k.record = call[c].record
           /\ k.request = call[c].request /\ k.decision = call[c].decision
           /\ k.usage = call[c].usage /\ k.charge = call[c].charge
      BY <3>1, ExperimentGoTo DEF E!PC
    <3>3. ExperimentGoes(k) = call[c].next /\ ExperimentGoes(call[c]) = call[c].next
      BY <2>0, <3>2 DEF ExperimentGoes
    <3>4. ExperimentRequest(k) /\ ExperimentEffect(k)
      BY <1>0, <2>0, <3>2, <3>3 DEF ExperimentRequest, ExperimentEffect
    <3> QED
      BY <2>0, <3>1, <3>2, <3>4, ExperimentQuiet
  <2> QED
    BY <2>1, <2>2
<1> QED
  BY <1>1, <1>2, <1>3, <1>4, <1>5, <1>6, <1>7 DEF E!DesignStep

\* routeAuthorization and decideAuthorization: what is settled is the request that was
\* read, and the record follows it.
LEMMA ExperimentAuthorization ==
  ASSUME Bounds, ExperimentInv, NEW c \in Call, E!AuthorizationStep(c)
  PROVE  ExperimentInv'
<1> USE DEF E!requestVars, E!planVars, E!outcomeVars
<1>0. /\ call \in [Call -> E!CallState] /\ call[c] \in E!CallState
      /\ experiment \in E!Experiment /\ plans \in 0 .. MaxPlans
      /\ request \in [E!Plan -> E!Request(MaxIssues)] /\ record \in 0 .. MaxPlans
      /\ issued \in 0 .. MaxIssues /\ store \in [Call -> [E!Plan -> 0 .. MaxIssues]]
      /\ known \subseteq 1 .. MaxIssues /\ sponsored \subseteq E!Plan
      /\ ExperimentRequest(call[c]) /\ ExperimentEffect(call[c])
      /\ \A v \in E!Plan : request[v].status = "PENDING" => request[v].revision = 1
      /\ record # 0 => record \in sponsored
  BY DEF ExperimentInv, E!TypeOK, ExperimentCall, ExperimentRows
<1>t. /\ E!Idle \in E!CallState /\ E!Idle.pc = "idle" /\ E!Idle.seen = E!NewExperiment
      /\ ExperimentRequest(E!Idle)' /\ ExperimentEffect(E!Idle)'
  <2>1. E!Idle \in E!CallState /\ E!Idle.pc = "idle" /\ E!Idle.seen = E!NewExperiment
    BY ExperimentIdle DEF E!Idle
  <2> QED
    BY <2>1, ExperimentRests
<1>1. CASE E!CheckTruth(c)
  <2>1. PICK pc : pc = IF drifted THEN "stale" ELSE call[c].next
    OBVIOUS
  <2>2. /\ call[c].pc = "truth" /\ call[c].next \in {"save", "settle", "plan"}
        /\ UNCHANGED <<E!planVars, E!requestVars, usage, E!outcomeVars, drifted>>
    BY <1>0, <1>1 DEF E!CheckTruth, E!At, ExperimentRequest
  <2>3. pc \in E!PC /\ E!GoTo(c, pc) /\ pc \in {"stale", call[c].next}
    BY <1>1, <2>1, <2>2 DEF E!CheckTruth, E!PC
  <2>4. PICK k \in E!CallState :
           /\ call' = [call EXCEPT ![c] = k]
           /\ k.pc = pc /\ k.next = call[c].next /\ k.seen = call[c].seen
           /\ k.plan = call[c].plan /\ k.record = call[c].record
           /\ k.request = call[c].request /\ k.decision = call[c].decision
    BY <2>3, ExperimentGoTo
  <2>5. ExperimentGoes(k) = pc /\ ExperimentGoes(call[c]) = call[c].next
    BY <2>2, <2>3, <2>4 DEF ExperimentGoes
  <2>6. ExperimentRequest(k)
    BY <1>0, <2>2, <2>3, <2>4, <2>5 DEF ExperimentRequest
  <2>7. ExperimentEffect(k)
    BY <1>0, <2>2, <2>3, <2>4, <2>5 DEF ExperimentEffect
  <2> QED
    BY <2>2, <2>4, <2>6, <2>7, ExperimentQuiet
<1>2. CASE E!MarkStale(c)
  <2>1. CASE <<experiment.status, "STALE">> \in E!Transitions
    BY <1>2, <1>t, <2>1, ExperimentGoesOn DEF E!MarkStale, E!ExperimentState
  <2>2. CASE <<experiment.status, "STALE">> \notin E!Transitions
    <3>1. /\ call' = [call EXCEPT ![c] = E!Idle]
          /\ UNCHANGED <<E!planVars, E!requestVars, usage, E!outcomeVars, drifted>>
      BY <1>2, <2>2 DEF E!MarkStale, E!Return
    <3> QED
      BY <1>t, <3>1, ExperimentRests, ExperimentQuiet
  <2> QED
    BY <2>1, <2>2
<1>3. CASE E!StartRoute(c)
  <2>1. PICK k : k = [E!Idle EXCEPT !.pc = "truth", !.next = "save", !.plan = plans]
    OBVIOUS
  <2>2. plans \in E!Plan
    BY <1>0, <1>3 DEF E!StartRoute, ExperimentInv, ExperimentRows, E!Plan, Bounds
  <2>3. /\ k \in E!CallState /\ k.pc = "truth" /\ k.next = "save" /\ k.plan = plans
        /\ k.seen = E!NewExperiment
    <3>1. "truth" \in E!PC /\ "save" \in E!PC
      BY DEF E!PC
    <3> QED
      BY <1>0, <1>t, <2>1, <3>1 DEF E!CallState
  <2>4. ExperimentRequest(k) /\ ExperimentEffect(k)
    BY <2>2, <2>3 DEF ExperimentRequest, ExperimentEffect, ExperimentGoes
  <2>5. /\ call' = [call EXCEPT ![c] = k]
        /\ UNCHANGED <<E!planVars, E!requestVars, usage, E!outcomeVars, drifted>>
    BY <1>3, <2>1 DEF E!StartRoute, E!Enter
  <2> QED
    BY <2>3, <2>4, <2>5, ExperimentQuiet
<1>4. CASE E!SaveRequest(c)
  <2>1. call[c].pc = "save" /\ call[c].plan \in E!Plan
    BY <1>0, <1>4 DEF E!SaveRequest, E!At, ExperimentRequest, ExperimentGoes
  <2>2. issued' \in 0 .. MaxIssues /\ issued' # 0
    BY <1>0, <1>4 DEF E!SaveRequest, Bounds
  <2>3. PICK r : r = E!Fresh(issued')
    OBVIOUS
  <2>4. r \in E!Request(MaxIssues) /\ r.issue = issued' /\ r.revision = 1
    BY <2>2, <2>3 DEF E!Fresh, E!Request
  <2>5. request' = [request EXCEPT ![call[c].plan] = r]
    BY <1>4, <2>3 DEF E!SaveRequest
  <2>6. request' \in [E!Plan -> E!Request(MaxIssues)]
    BY <1>0, <2>1, <2>4, <2>5
  <2>7. \A v \in E!Plan : request'[v].status = "PENDING" => request'[v].revision = 1
    BY <1>0, <2>4, <2>5
  <2>8. PICK k : k = [call[c] EXCEPT !.pc = "put", !.request = r]
    OBVIOUS
  <2>9. /\ k \in E!CallState /\ k.pc = "put" /\ k.plan = call[c].plan
        /\ k.request = r /\ k.seen = call[c].seen
    BY <1>0, <2>4, <2>8 DEF E!CallState, E!PC
  <2>10. call' = [call EXCEPT ![c] = k]
    <3>1. call' = [call EXCEPT ![c].pc = "put", ![c].request = r]
      BY <1>4, <2>3 DEF E!SaveRequest
    <3> QED
      BY <1>0, <2>8, <3>1
  <2>11. ExperimentRequest(k)' /\ ExperimentEffect(k)'
    BY <2>1, <2>2, <2>4, <2>9 DEF ExperimentRequest, ExperimentEffect, ExperimentGoes
  <2>12. UNCHANGED <<E!planVars, record, store, known, sponsored, usage, E!outcomeVars, drifted>>
    BY <1>4 DEF E!SaveRequest
  <2> QED
    BY <1>0, <2>2, <2>6, <2>7, <2>9, <2>10, <2>11, <2>12, ExperimentDecides
<1>5. CASE E!PutNonce(c)
  <2>1. call[c].pc = "put"
    BY <1>5 DEF E!PutNonce, E!At
  <2>2. call[c].plan \in E!Plan /\ call[c].request.issue \in 1 .. MaxIssues
    BY <1>0, <2>1 DEF ExperimentRequest, ExperimentGoes, E!CallState, E!Request, Bounds
  <2>3. known' \subseteq 1 .. MaxIssues
    BY <1>0, <1>5, <2>2 DEF E!PutNonce
  <2>4. store' \in [Call -> [E!Plan -> 0 .. MaxIssues]]
    <3>1. PICK n \in 0 .. MaxIssues : n = call[c].request.issue
      BY <2>2 DEF Bounds
    <3>2. PICK v \in E!Plan : v = call[c].plan
      BY <2>2
    <3>3. store' = [store EXCEPT ![c] = [store[c] EXCEPT ![v] = n]]
      BY <1>0, <1>5, <3>1, <3>2 DEF E!PutNonce
    <3>4. [store[c] EXCEPT ![v] = n] \in [E!Plan -> 0 .. MaxIssues]
      BY <1>0
    <3> QED
      BY <1>0, <3>3, <3>4
  <2>5. /\ call' = [call EXCEPT ![c] = E!Idle]
        /\ UNCHANGED <<E!planVars, request, record, issued, sponsored, usage, E!outcomeVars,
                       drifted>>
    BY <1>5 DEF E!PutNonce, E!Return
  <2> QED
    BY <1>0, <1>t, <2>3, <2>4, <2>5, ExperimentDecides
<1>6. CASE E!StartDecide(c)
  <2>1. PICK v \in E!PendingIn(request),
             d \in {"NONE", "APPROVE_EXPERIMENT", "REQUEST_REVISION", "REJECT_EXPERIMENT"} :
          E!Enter(c, [E!Idle EXCEPT !.pc = IF d = "NONE" THEN "expire" ELSE "sponsor",
                                    !.plan = v, !.request = request[v], !.decision = d])
    BY <1>6 DEF E!StartDecide
  <2>2. v \in E!Plan /\ request[v].revision = 1 /\ request[v] \in E!Request(MaxIssues)
    BY <1>0, <2>1 DEF E!PendingIn
  <2>3. PICK pc : pc = IF d = "NONE" THEN "expire" ELSE "sponsor"
    OBVIOUS
  <2>4. PICK r : r = request[v]
    OBVIOUS
  <2>5. PICK k : k = [E!Idle EXCEPT !.pc = pc, !.plan = v, !.request = r, !.decision = d]
    OBVIOUS
  <2>6. pc \in E!PC /\ v \in 0 .. MaxPlans /\ r \in E!Request(MaxIssues)
    BY <2>2, <2>3, <2>4 DEF E!PC, E!Plan, Bounds
  <2>7. /\ k \in E!CallState /\ k.pc = pc /\ k.plan = v /\ k.request = r /\ k.decision = d
        /\ k.seen = E!NewExperiment
    BY <1>t, <2>5, <2>6 DEF E!CallState
  <2>8. ExperimentRequest(k) /\ ExperimentEffect(k)
    BY <2>2, <2>3, <2>4, <2>7 DEF ExperimentRequest, ExperimentEffect, ExperimentGoes
  <2>9. call' = [call EXCEPT ![c] = k]
    BY <2>1, <2>3, <2>4, <2>5 DEF E!Enter
  <2>10. UNCHANGED <<E!planVars, E!requestVars, usage, E!outcomeVars, drifted>>
    BY <1>6 DEF E!StartDecide
  <2> QED
    BY <2>7, <2>8, <2>9, <2>10, ExperimentQuiet
<1>7. CASE E!ExpireRequest(c)
  <2>1. call[c].request.revision = 1 /\ call[c].plan \in E!Plan
    BY <1>0, <1>7 DEF E!ExpireRequest, E!At, ExperimentRequest, ExperimentGoes
  <2>2. /\ request' \in [E!Plan -> E!Request(MaxIssues)]
        /\ \A v \in E!Plan : request'[v].status = "PENDING" => request'[v].revision = 1
    BY <1>7, <2>1, ExperimentSettles DEF E!ExpireRequest
  <2>3. /\ call' = [call EXCEPT ![c] = E!Idle]
        /\ UNCHANGED <<E!planVars, record, issued, store, known, sponsored, usage, E!outcomeVars,
                       drifted>>
    BY <1>7 DEF E!ExpireRequest, E!Return
  <2> QED
    BY <1>0, <1>t, <2>2, <2>3, ExperimentDecides
<1>8. CASE E!CheckSponsor(c)
  <2>1. PICK k : k = [call[c] EXCEPT !.pc = "truth", !.next = "settle", !.seen = experiment]
    OBVIOUS
  <2>2. /\ k \in E!CallState /\ k.pc = "truth" /\ k.next = "settle" /\ k.seen = experiment
        /\ k.plan = call[c].plan /\ k.request = call[c].request /\ k.decision = call[c].decision
    BY <1>0, <2>1 DEF E!CallState, E!PC
  <2>3. ExperimentRequest(k) /\ ExperimentEffect(k)
    BY <1>0, <1>8, <2>2 DEF E!CheckSponsor, E!At, ExperimentRequest, ExperimentEffect,
       ExperimentGoes
  <2>4. /\ call' = [call EXCEPT ![c] = k]
        /\ UNCHANGED <<E!planVars, E!requestVars, usage, E!outcomeVars, drifted>>
    BY <1>0, <1>8, <2>1 DEF E!CheckSponsor
  <2> QED
    BY <2>2, <2>3, <2>4, ExperimentQuiet
<1>9. CASE E!SettleRequest(c)
  <2>0. call[c].pc = "settle" /\ ExperimentGoes(call[c]) = "settle"
    BY <1>9 DEF E!SettleRequest, E!At, ExperimentGoes
  <2>1. /\ call[c].request.revision = 1 /\ call[c].plan \in E!Plan /\ call[c].decision # "NONE"
    BY <1>0, <2>0 DEF ExperimentRequest
  <2>2. /\ request' \in [E!Plan -> E!Request(MaxIssues)]
        /\ \A v \in E!Plan : request'[v].status = "PENDING" => request'[v].revision = 1
    BY <1>9, <2>1, ExperimentSettles DEF E!SettleRequest
  <2>3. PICK pc : pc = IF call[c].decision = "APPROVE_EXPERIMENT" THEN "record" ELSE "move"
    OBVIOUS
  <2>4. pc \in E!PC /\ E!GoTo(c, pc)
    BY <1>9, <2>3 DEF E!SettleRequest, E!PC
  <2>5. PICK k \in E!CallState :
           /\ call' = [call EXCEPT ![c] = k]
           /\ k.pc = pc /\ k.seen = call[c].seen /\ k.plan = call[c].plan
           /\ k.decision = call[c].decision
    BY <2>4, ExperimentGoTo
  <2>6. sponsored' = IF call[c].decision = "APPROVE_EXPERIMENT"
                     THEN sponsored \cup {call[c].plan} ELSE sponsored
    BY <1>9 DEF E!SettleRequest
  <2>7. ExperimentGoes(k) = pc
    BY <2>3, <2>5 DEF ExperimentGoes
  <2>8. ExperimentRequest(k)' /\ ExperimentEffect(k)'
    BY <2>1, <2>3, <2>5, <2>6, <2>7 DEF ExperimentRequest, ExperimentEffect, ExperimentGoes
  <2>9. sponsored' \subseteq E!Plan /\ sponsored \subseteq sponsored'
    BY <1>0, <2>1, <2>6
  <2>10. UNCHANGED <<E!planVars, record, issued, store, known, usage, E!outcomeVars, drifted>>
    BY <1>9 DEF E!SettleRequest
  <2> QED
    BY <1>0, <2>2, <2>5, <2>8, <2>9, <2>10, ExperimentDecides
<1>10. CASE E!SaveRecord(c)
  <2>0. call[c].pc = "record" /\ ExperimentGoes(call[c]) = "record"
    BY <1>10 DEF E!SaveRecord, E!At, ExperimentGoes
  <2>1. /\ call[c].plan \in E!Plan /\ call[c].plan \in sponsored /\ call[c].decision # "NONE"
    BY <1>0, <2>0 DEF ExperimentRequest, ExperimentEffect
  <2>2. PICK k \in E!CallState :
           /\ call' = [call EXCEPT ![c] = k]
           /\ k.pc = "move" /\ k.seen = call[c].seen /\ k.plan = call[c].plan
           /\ k.decision = call[c].decision
    BY <1>10, ExperimentGoTo DEF E!SaveRecord, E!PC
  <2>3. ExperimentRequest(k)' /\ ExperimentEffect(k)'
    BY <2>1, <2>2 DEF ExperimentRequest, ExperimentEffect, ExperimentGoes
  <2>4. /\ record' = call[c].plan /\ record' \in 0 .. MaxPlans
        /\ UNCHANGED <<E!planVars, request, issued, store, known, sponsored, usage, E!outcomeVars,
                       drifted>>
    BY <1>10, <2>1 DEF E!SaveRecord, E!Plan, Bounds
  <2> QED
    BY <1>0, <2>1, <2>2, <2>3, <2>4, ExperimentDecides
<1>11. CASE E!MoveAsDecided(c)
  <2>1. call[c].decision \in {"APPROVE_EXPERIMENT", "REQUEST_REVISION", "REJECT_EXPERIMENT"}
    BY <1>0, <1>11 DEF E!MoveAsDecided, E!At, ExperimentRequest, ExperimentGoes, E!CallState
  <2>2. PICK status : status = E!Decided[call[c].decision]
    OBVIOUS
  <2>3. status \in {"AUTHORIZED", "DESIGNING", "CANCELLED"}
    BY <2>1, <2>2 DEF E!Decided
  <2>4. E!MoveAndReturn(c, E!Moved(call[c].seen, status))
    BY <1>11, <2>2 DEF E!MoveAsDecided
  <2> QED
    BY <1>11, <2>3, <2>4, ExperimentConcludes DEF E!MoveAsDecided, E!ExperimentState
<1> QED
  BY <1>1, <1>2, <1>3, <1>4, <1>5, <1>6, <1>7, <1>8, <1>9, <1>10, <1>11 DEF E!AuthorizationStep

\* compileExecution: an action is reserved before an objective is admitted, and settled
\* after the lineage is saved.
LEMMA ExperimentCompilation ==
  ASSUME Bounds, ExperimentInv, NEW c \in Call, E!CompilationStep(c)
  PROVE  ExperimentInv'
<1> USE DEF E!requestVars, E!planVars, E!outcomeVars
<1>0. /\ call \in [Call -> E!CallState] /\ call[c] \in E!CallState
      /\ experiment \in E!Experiment /\ plans \in 0 .. MaxPlans /\ record \in 0 .. MaxPlans
      /\ usage \in E!Usage /\ lineage \subseteq E!Plan /\ objective \subseteq E!Plan \X E!Plan
      /\ sponsored \subseteq E!Plan
      /\ ExperimentCall(call[c]) /\ ExperimentRead(call[c])
      /\ ExperimentRequest(call[c]) /\ ExperimentEffect(call[c])
      /\ record # 0 => record \in sponsored
      /\ E!CompilationIsAccounted
  BY DEF ExperimentInv, E!TypeOK, ExperimentCall, ExperimentRows
<1>t. /\ E!Idle \in E!CallState /\ E!Idle.pc = "idle" /\ E!Idle.seen = E!NewExperiment
  BY ExperimentIdle DEF E!Idle
<1>u. usage.reserved \in Nat /\ usage.committed \in Nat /\ usage.designs \in Nat
  BY <1>0 DEF E!Usage, Bounds
<1>1. CASE E!StartCompile(c)
  <2>1. PICK k : k = [E!Idle EXCEPT !.pc = "truth", !.next = "plan", !.seen = experiment]
    OBVIOUS
  <2>2. plans # 0
    BY <1>1 DEF E!StartCompile, ExperimentInv, ExperimentRows
  <2>3. /\ k \in E!CallState /\ k.pc = "truth" /\ k.next = "plan" /\ k.seen = experiment
    BY <1>0, <1>t, <2>1 DEF E!CallState, E!PC
  <2>4. ExperimentRequest(k) /\ ExperimentEffect(k)
    BY <2>2, <2>3 DEF ExperimentRequest, ExperimentEffect, ExperimentGoes
  <2>5. /\ call' = [call EXCEPT ![c] = k]
        /\ UNCHANGED <<E!planVars, E!requestVars, usage, E!outcomeVars, drifted>>
    BY <1>1, <2>1 DEF E!StartCompile, E!Enter
  <2> QED
    BY <2>3, <2>4, <2>5, ExperimentQuiet
<1>2. CASE E!ReadPlan(c)
  <2>1. PICK pc : pc = IF plans \in lineage THEN "await" ELSE "action"
    OBVIOUS
  <2>2. PICK k : k = [call[c] EXCEPT !.pc = pc, !.plan = plans, !.record = record]
    OBVIOUS
  <2>3. plans # 0 /\ record # 0
    BY <1>0, <1>2 DEF E!ReadPlan, E!At, ExperimentEffect, ExperimentGoes
  <2>4. plans \in E!Plan /\ record \in sponsored /\ record \in E!Plan
    BY <1>0, <2>3 DEF E!Plan, Bounds
  <2>5. /\ k \in E!CallState /\ k.pc = pc /\ k.plan = plans /\ k.record = record
        /\ k.seen = call[c].seen
    BY <1>0, <2>1, <2>2 DEF E!CallState, E!PC
  <2>6. ExperimentRequest(k) /\ ExperimentEffect(k)
    BY <2>1, <2>4, <2>5 DEF ExperimentRequest, ExperimentEffect, ExperimentGoes
  <2>7. /\ call' = [call EXCEPT ![c] = k]
        /\ UNCHANGED <<E!planVars, E!requestVars, usage, E!outcomeVars, drifted>>
    BY <1>0, <1>2, <2>1, <2>2 DEF E!ReadPlan
  <2> QED
    BY <2>5, <2>6, <2>7, ExperimentQuiet
<1>3. CASE E!ReserveAction(c)
  <2>0. /\ call[c].pc = "action" /\ ExperimentGoes(call[c]) = "action"
        /\ UNCHANGED <<E!planVars, E!requestVars, usage, E!outcomeVars, drifted>>
    BY <1>3 DEF E!ReserveAction, E!At, ExperimentGoes
  <2>1. call[c].plan \in E!Plan /\ call[c].record \in E!Plan /\ call[c].record \in sponsored
    BY <1>0, <2>0 DEF ExperimentEffect
  <2>2. CASE usage.reserved + usage.committed > 0
    <3>1. PICK k \in E!CallState :
           /\ call' = [call EXCEPT ![c] = k]
           /\ k.pc = "admit" /\ k.seen = call[c].seen
           /\ k.plan = call[c].plan /\ k.record = call[c].record
      BY <1>3, <2>2, ExperimentGoTo DEF E!ReserveAction, E!PC
    <3>2. ExperimentRequest(k) /\ ExperimentEffect(k)
      BY <1>u, <2>1, <2>2, <3>1 DEF ExperimentRequest, ExperimentEffect, ExperimentGoes
    <3> QED
      BY <2>0, <3>1, <3>2, ExperimentQuiet
  <2>3. CASE ~(usage.reserved + usage.committed > 0)
    <3>1. PICK k \in E!CallState :
           /\ call' = [call EXCEPT ![c] = k]
           /\ k.pc = "read" /\ k.next = "admit" /\ k.seen = call[c].seen
           /\ k.plan = call[c].plan /\ k.record = call[c].record /\ k.charge = "reserve"
      BY <1>3, <2>3, ExperimentCharges DEF E!ReserveAction, E!PC
    <3>2. ExperimentRequest(k) /\ ExperimentEffect(k)
      BY <2>1, <3>1 DEF ExperimentRequest, ExperimentEffect, ExperimentGoes
    <3> QED
      BY <2>0, <3>1, <3>2, ExperimentQuiet
  <2> QED
    BY <2>2, <2>3
<1>4. CASE E!AdmitObjective(c)
  <2>0. /\ call[c].pc = "admit" /\ ExperimentGoes(call[c]) = "admit"
        /\ UNCHANGED <<E!planVars, E!requestVars, usage, lineage, drifted>>
    BY <1>4 DEF E!AdmitObjective, E!At, ExperimentGoes
  <2>1. /\ call[c].plan \in E!Plan /\ call[c].record \in E!Plan /\ call[c].record \in sponsored
        /\ usage.reserved + usage.committed >= 1
    BY <1>0, <2>0 DEF ExperimentEffect
  <2>2. PICK o : o = <<call[c].record, call[c].plan>>
    OBVIOUS
  <2>3. PICK b : b = (o \in objective)
    OBVIOUS
  <2>4. PICK k : k = [call[c] EXCEPT !.pc = "link", !.duplicate = b]
    OBVIOUS
  <2>5. b \in BOOLEAN /\ "link" \in E!PC
    BY <2>3 DEF E!PC
  <2>6. /\ k \in E!CallState /\ k.pc = "link" /\ k.seen = call[c].seen
        /\ k.plan = call[c].plan /\ k.record = call[c].record
    BY <1>0, <2>4, <2>5 DEF E!CallState
  <2>7. call' = [call EXCEPT ![c] = k] /\ objective' = objective \cup {o}
    BY <1>0, <1>4, <2>2, <2>3, <2>4 DEF E!AdmitObjective
  <2>8. objective' \subseteq E!Plan \X E!Plan
    BY <1>0, <2>1, <2>2, <2>7
  <2>9. ExperimentRequest(k)' /\ ExperimentEffect(k)'
    BY <2>0, <2>1, <2>2, <2>6, <2>7 DEF ExperimentRequest, ExperimentEffect, ExperimentGoes
  <2>10. ExperimentCall(k)'
    BY <1>0, <2>0, <2>6, <2>9 DEF ExperimentCall, ExperimentRead
  <2>11. ExperimentGrows
    BY <1>0, <1>u, <2>0, <2>7 DEF ExperimentGrows, Bounds
  <2>12. ExperimentRows'
    BY <2>0, <2>1, <2>7 DEF ExperimentInv, ExperimentRows, E!CompilationIsAccounted, E!WithinBudget
  <2>13. E!TypeOK
    BY DEF ExperimentInv
  <2> QED
    BY <2>0, <2>6, <2>7, <2>8, <2>10, <2>11, <2>12, <2>13, ExperimentSteps DEF E!TypeOK
<1>5. CASE E!SaveLineage(c)
  <2>0. /\ call[c].pc = "link" /\ ExperimentGoes(call[c]) = "link"
        /\ UNCHANGED <<E!planVars, E!requestVars, usage, objective, drifted>>
        /\ lineage' = lineage \cup {call[c].plan}
    BY <1>5 DEF E!SaveLineage, E!At, ExperimentGoes
  <2>1. call[c].plan \in E!Plan /\ <<call[c].record, call[c].plan>> \in objective
    BY <1>0, <2>0 DEF ExperimentEffect
  <2>2. PICK k \in E!CallState :
           /\ call' = [call EXCEPT ![c] = k]
           /\ k.pc = "charge" /\ k.seen = call[c].seen
           /\ k.plan = call[c].plan /\ k.record = call[c].record
    BY <1>5, ExperimentGoTo DEF E!SaveLineage, E!PC
  <2>3. ExperimentRequest(k)' /\ ExperimentEffect(k)'
    BY <2>0, <2>2 DEF ExperimentRequest, ExperimentEffect, ExperimentGoes
  <2>4. ExperimentCall(k)'
    BY <1>0, <2>0, <2>2, <2>3 DEF ExperimentCall, ExperimentRead
  <2>5. ExperimentGrows
    BY <1>0, <1>u, <2>0 DEF ExperimentGrows, Bounds
  <2>6. \A v \in lineage' : \E o \in objective : o[2] = v
    BY <1>0, <2>0, <2>1 DEF E!CompilationIsAccounted
  <2>7. ExperimentRows'
    BY <2>0, <2>6 DEF ExperimentInv, ExperimentRows, E!CompilationIsAccounted, E!WithinBudget
  <2>8. E!TypeOK
    BY DEF ExperimentInv
  <2>9. lineage' \subseteq E!Plan
    BY <1>0, <2>0, <2>1
  <2> QED
    BY <2>0, <2>2, <2>4, <2>5, <2>7, <2>8, <2>9, ExperimentSteps DEF E!TypeOK
<1>6. CASE E!SettleAction(c)
  <2>0. /\ call[c].pc = "charge" /\ ExperimentGoes(call[c]) = "charge"
        /\ UNCHANGED <<E!planVars, E!requestVars, usage, E!outcomeVars, drifted>>
    BY <1>6 DEF E!SettleAction, E!At, ExperimentGoes
  <2>1. lineage # {}
    BY <1>0, <2>0 DEF ExperimentEffect
  <2>2. ASSUME NEW charge \in {"settle", "commit"}, E!Charge(c, charge, "await")
        PROVE  ExperimentInv'
    <3>1. PICK k \in E!CallState :
           /\ call' = [call EXCEPT ![c] = k]
           /\ k.pc = "read" /\ k.next = "await" /\ k.seen = call[c].seen /\ k.charge = charge
      BY <2>2, ExperimentCharges DEF E!PC
    <3>2. ExperimentRequest(k) /\ ExperimentEffect(k)
      BY <2>1, <3>1 DEF ExperimentRequest, ExperimentEffect, ExperimentGoes
    <3> QED
      BY <2>0, <3>1, <3>2, ExperimentQuiet
  <2>3. CASE E!GoTo(c, "await")
    <3>1. PICK k \in E!CallState :
           call' = [call EXCEPT ![c] = k] /\ k.pc = "await" /\ k.seen = call[c].seen
      BY <2>3, ExperimentGoTo DEF E!PC
    <3>2. ExperimentRequest(k) /\ ExperimentEffect(k)
      BY <2>1, <3>1 DEF ExperimentRequest, ExperimentEffect, ExperimentGoes
    <3> QED
      BY <2>0, <3>1, <3>2, ExperimentQuiet
  <2>4. \/ E!Charge(c, "settle", "await") \/ E!Charge(c, "commit", "await") \/ E!GoTo(c, "await")
    BY <1>6 DEF E!SettleAction
  <2> QED
    BY <2>2, <2>3, <2>4
<1>7. CASE E!AwaitExecution(c)
  <2>1. lineage # {}
    BY <1>0, <1>7 DEF E!AwaitExecution, E!At, ExperimentEffect, ExperimentGoes
  <2> QED
    BY <1>7, <2>1, ExperimentConcludes DEF E!AwaitExecution, E!ExperimentState
<1> QED
  BY <1>1, <1>2, <1>3, <1>4, <1>5, <1>6, <1>7 DEF E!CompilationStep

\* A call that throws or dies leaves what it has written.
LEMMA ExperimentAbort ==
  ASSUME Bounds, ExperimentInv, NEW c \in Call, E!Abort(c)
  PROVE  ExperimentInv'
<1> USE DEF E!requestVars, E!planVars, E!outcomeVars
<1>1. /\ E!Idle \in E!CallState /\ E!Idle.pc = "idle" /\ E!Idle.seen = E!NewExperiment
  BY ExperimentIdle DEF E!Idle
<1>2. /\ call' = [call EXCEPT ![c] = E!Idle]
      /\ UNCHANGED <<E!planVars, request, record, issued, known, sponsored, usage, E!outcomeVars,
                     drifted>>
  BY DEF E!Abort, E!Return
<1>3. store' \in [Call -> [E!Plan -> 0 .. MaxIssues]]
  <2>1. store \in [Call -> [E!Plan -> 0 .. MaxIssues]] /\ 0 \in 0 .. MaxIssues
    BY DEF ExperimentInv, E!TypeOK, Bounds
  <2> QED
    BY <2>1 DEF E!Abort
<1>4. ExperimentCall(E!Idle)'
  BY <1>1, <1>2, ExperimentReads, ExperimentRests DEF ExperimentCall, ExperimentRead
<1>5. experiment' \in E!Experiment
  BY <1>2 DEF ExperimentInv, E!TypeOK
<1> QED
  BY <1>1, <1>2, <1>3, <1>4, <1>5, ExperimentMoves

\* Every step of an experiment's service keeps the invariant.
LEMMA ExperimentStep ==
  ASSUME Bounds, ExperimentInv, [E!Next]_(E!vars)
  PROVE  ExperimentInv'
<1> USE DEF E!requestVars, E!planVars, E!outcomeVars
<1>1. CASE UNCHANGED E!vars
  BY <1>1 DEF E!vars, ExperimentInv, E!TypeOK, ExperimentRows, E!CompilationIsAccounted,
     E!WithinBudget,
     ExperimentCall, ExperimentRead, ExperimentRequest, ExperimentEffect, ExperimentGoes
<1>2. CASE E!Drift
  BY <1>2 DEF E!Drift, ExperimentInv, E!TypeOK, ExperimentRows, E!CompilationIsAccounted,
     E!WithinBudget,
     ExperimentCall, ExperimentRead, ExperimentRequest, ExperimentEffect, ExperimentGoes
<1> QED
  BY <1>1, <1>2, ExperimentDesign, ExperimentAuthorization, ExperimentCompilation,
     ExperimentAbort DEF E!Next

\* The empty tables keep the invariant.
LEMMA ExperimentStarts ==
  ASSUME Bounds, E!Init
  PROVE  ExperimentInv
<1>1. /\ E!Idle \in E!CallState /\ E!Idle.pc = "idle" /\ E!Idle.seen = E!NewExperiment
      /\ E!NewExperiment \in E!Experiment /\ E!NoUsage \in E!Usage
  BY ExperimentIdle DEF E!Idle
<1>2. E!TypeOK
  <2>1. request \in [E!Plan -> E!Request(MaxIssues)]
    BY DEF E!Init, Bounds, E!NoRequest, E!Request
  <2>2. store \in [Call -> [E!Plan -> 0 .. MaxIssues]] /\ issued \in 0 .. MaxIssues
    BY DEF E!Init, Bounds
  <2>3. plans \in 0 .. MaxPlans /\ record \in 0 .. MaxPlans
    BY DEF E!Init, Bounds
  <2>4. experiment \in E!Experiment /\ usage \in E!Usage /\ call \in [Call -> E!CallState]
    BY <1>1 DEF E!Init
  <2> QED
    BY <2>1, <2>2, <2>3, <2>4 DEF E!Init, E!TypeOK
<1>3. ExperimentRows
  BY DEF E!Init, ExperimentRows, E!CompilationIsAccounted, E!WithinBudget, E!NewExperiment,
     E!NoUsage,
     E!NoRequest, Bounds
<1>4. \A c \in Call : ExperimentCall(call[c])
  <2>1. \A c \in Call : call[c] = E!Idle
    BY DEF E!Init
  <2>2. ExperimentRead(E!Idle)
    BY <1>1 DEF ExperimentRead, E!Init, E!NewExperiment
  <2>3. ExperimentRequest(E!Idle) /\ ExperimentEffect(E!Idle)
    BY <1>1, ExperimentRests
  <2> QED
    BY <2>1, <2>2, <2>3 DEF ExperimentCall
<1> QED
  BY <1>2, <1>3, <1>4 DEF ExperimentInv

\* Steps of an experiment are steps of its gate, or leave it alone.
LEMMA ExperimentGateStep ==
  ASSUME Bounds, ExperimentInv, [E!Next]_(E!vars)
  PROVE  [E!Gate!Next]_(E!Gate!vars)
<1> USE DEF E!requestVars, E!planVars, E!outcomeVars, E!Gate!vars
<1>1. ASSUME UNCHANGED <<sponsored, objective>> PROVE UNCHANGED E!Gate!vars
  BY <1>1
<1>2. CASE UNCHANGED E!vars \/ E!Drift
  BY <1>1, <1>2 DEF E!vars, E!Drift
<1>3. ASSUME NEW c \in Call, E!DesignStep(c) \/ E!Abort(c) PROVE UNCHANGED E!Gate!vars
  <2>1. UNCHANGED <<sponsored, objective>>
    BY <1>3 DEF E!DesignStep, E!StartDesign, E!InsertPlan, E!AdoptPlan, E!StartValidate,
       E!FinishValidate,
       E!ReadUsage, E!SaveUsage, E!Abort
  <2> QED
    BY <1>1, <2>1
<1>4. ASSUME NEW c \in Call, E!AuthorizationStep(c) PROVE [E!Gate!Next]_(E!Gate!vars)
  <2>1. CASE E!SettleRequest(c)
    <3>1. PICK v \in E!Plan : v = call[c].plan
      BY <2>1 DEF E!SettleRequest, E!At, ExperimentInv, ExperimentCall, ExperimentRequest,
         ExperimentGoes
    <3>2. /\ UNCHANGED objective
          /\ sponsored' = IF call[c].decision = "APPROVE_EXPERIMENT"
                          THEN sponsored \cup {v} ELSE sponsored
      BY <2>1, <3>1 DEF E!SettleRequest
    <3>3. UNCHANGED sponsored \/ E!Gate!Grant(v)
      BY <3>2 DEF E!Gate!Grant
    <3> QED
      BY <1>1, <3>2, <3>3 DEF E!Gate!Next
  <2>2. CASE ~E!SettleRequest(c)
    <3>1. UNCHANGED <<sponsored, objective>>
      BY <1>4, <2>2 DEF E!AuthorizationStep, E!CheckTruth, E!MarkStale, E!StartRoute,
         E!SaveRequest, E!PutNonce,
         E!StartDecide, E!ExpireRequest, E!CheckSponsor, E!SaveRecord, E!MoveAsDecided
    <3> QED
      BY <1>1, <3>1
  <2> QED
    BY <2>1, <2>2
<1>5. ASSUME NEW c \in Call, E!CompilationStep(c) PROVE [E!Gate!Next]_(E!Gate!vars)
  <2>1. CASE E!AdmitObjective(c)
    <3>1. PICK o : o = <<call[c].record, call[c].plan>>
      OBVIOUS
    <3>2. o \in E!Plan \X E!Plan /\ o[1] \in sponsored
      BY <2>1, <3>1 DEF E!AdmitObjective, E!At, ExperimentInv, ExperimentCall, ExperimentEffect,
         ExperimentGoes
    <3>3. objective' = objective \cup {o} /\ UNCHANGED sponsored
      BY <2>1, <3>1 DEF E!AdmitObjective
    <3>4. CASE o \in objective
      <4>1. UNCHANGED <<sponsored, objective>>
        BY <3>3, <3>4
      <4> QED
        BY <1>1, <4>1
    <3>5. CASE o \notin objective
      <4>1. E!Gate!Admit(o)
        BY <3>2, <3>3, <3>5 DEF E!Gate!Admit
      <4> QED
        BY <3>2, <4>1 DEF E!Gate!Next
    <3> QED
      BY <3>4, <3>5
  <2>2. CASE ~E!AdmitObjective(c)
    <3>1. UNCHANGED <<sponsored, objective>>
      BY <1>5, <2>2 DEF E!CompilationStep, E!StartCompile, E!ReadPlan, E!ReserveAction,
         E!SaveLineage,
         E!SettleAction, E!AwaitExecution, E!Charge, E!GoTo
    <3> QED
      BY <1>1, <3>1
  <2> QED
    BY <2>1, <2>2
<1> QED
  BY <1>2, <1>3, <1>4, <1>5 DEF E!Next

\* The states before the set that is next is adopted, and those after it.
Ungenerated == {"ADMITTED", "GROUNDING", "SCENARIOS_PROPOSED", "STALE", "CANCELLED"}
Chosen == {"AWAITING_SELECTION", "SELECTED", "MATERIALIZED_AS_PROPOSAL"}

Simulated(v) == \A s \in S!Scenario : <<v, s>> \in results

ProblemRead(k) ==
  /\ k.seen.revision <= problem.revision
  /\ k.seen.revision = problem.revision => k.seen = problem
  /\ k.seen.set <= problem.set

ProblemGoes(k) == IF k.pc = "truth" THEN k.next ELSE k.pc

ProblemAnalysis(k) ==
  /\ k.pc = "truth" => k.next \in {"save", "settle", "selection"}
  /\ k.pc = "ground" => k.seen.status = "GROUNDING"
  /\ k.pc \in {"insert", "adopt"} => /\ k.set = k.seen.set + 1 /\ k.set \in S!Set
                                     /\ k.seen.truth # 0
  /\ k.pc = "insert" => problem.set > k.seen.set \/ problem.status \in Ungenerated
  /\ k.pc = "adopt" => sets[k.set] = k.seen.truth
  /\ k.pc \in {"pick", "run", "count"} =>
       /\ k.set \in S!Set
       /\ k.scenario # 0
       /\ k.seen = problem => k.set = problem.set
       /\ \A s \in S!Scenario : s < k.scenario => <<k.set, s>> \in results
  /\ k.pc \in {"run", "count"} => k.scenario \in S!Scenario
  /\ k.pc = "count" => <<k.set, k.scenario>> \in results
  /\ k.pc = "analyzed" => k.seen.status = "VALIDATING"
  /\ k.pc \in {"package", "await"} => k.set \in S!Set
  /\ k.pc = "package" /\ package = 0 /\ k.seen = problem => k.set = problem.set /\ Simulated(k.set)
  /\ k.pc = "await" => package # 0
  /\ k.pc = "await" /\ k.seen = problem => package = problem.set /\ Simulated(package)

Deciding == {"put", "expire", "selector", "settle", "record", "move", "selection", "admit", "link",
             "materialized"}

ProblemSelection(k) ==
  /\ ProblemGoes(k) \in Deciding => package # 0
  /\ ProblemGoes(k) \in {"put", "expire", "selector", "settle", "record"} => k.set = package
  /\ ProblemGoes(k) = "put" => k.request.issue # 0
  /\ ProblemGoes(k) \in {"expire", "selector", "settle"} => k.request.revision = 1
  /\ ProblemGoes(k) \in {"selector", "settle", "record", "move"} => k.decision # "NONE"
  /\ k.pc = "record" => k.set \in selected
  /\ k.pc = "move" /\ k.decision = "SELECT_SCENARIO" => record = package
  /\ ProblemGoes(k) \in {"selection"} => problem.set # 0
  /\ k.pc \in {"admit", "link", "materialized"} => k.record = package /\ k.record \in selected
       /\ record = package
  /\ k.pc \in {"admit", "link"} => k.set \in S!Set
  /\ k.pc = "link" => <<k.record, k.set>> \in proposed
  /\ k.pc = "materialized" => k.record \in lineage

ProblemCall(k) == ProblemRead(k) /\ ProblemAnalysis(k) /\ ProblemSelection(k)

Counting == {c \in Call : S!At(c, "count")}

ProblemRows ==
  /\ problem.revision = 1 => problem = S!NewProblem
  /\ \A v \in S!Set : v <= problem.set => sets[v] # 0
  /\ \A v \in S!Set : v > problem.set + 1 => sets[v] = 0
  /\ problem.status \notin Ungenerated =>
       /\ problem.set \in S!Set
       /\ sets[problem.set] = problem.truth
       /\ \A v \in S!Set : v > problem.set => sets[v] = 0
  /\ package = 0 /\ problem.status \in {"ANALYZING", "VALIDATING"} => Simulated(problem.set)
  /\ \A v \in S!Set : request[v].status # "NONE" => v = package
  /\ \A v \in S!Set : request[v].status = "PENDING" => request[v].revision = 1
  /\ record # 0 => record \in selected /\ record = package
  /\ S!SelectionRestsOnPackage

RunsAreCounted == runs + Cardinality(Counting) <= Cardinality(results)

ProblemInv ==
  /\ S!TypeOK
  /\ ProblemRows
  /\ RunsAreCounted
  /\ \A c \in Call : ProblemCall(call[c])

\* What only grows, so that a call which has seen it may rely on it.
ProblemGrows ==
  /\ \/ problem' = problem
     \/ /\ problem'.revision = problem.revision + 1
        /\ problem.set <= problem'.set
        /\ problem.status \in Ungenerated /\ problem'.status \notin Ungenerated =>
             problem.set < problem'.set
  /\ \A v \in S!Set : sets[v] # 0 => sets'[v] = sets[v]
  /\ results \subseteq results'
  /\ package # 0 => package' = package
  /\ record' # record => record' = package
  /\ selected \subseteq selected'
  /\ lineage \subseteq lineage'
  /\ proposed \subseteq proposed'

\* What a call starts with, and the first row.
LEMMA ProblemIdle ==
  ASSUME Bounds
  PROVE  S!Idle \in S!CallState /\ S!NewProblem \in S!Problem
<1>1. S!NewProblem \in S!Problem
  BY DEF Bounds, S!NewProblem, S!Problem, S!DecisionProblemState
<1>2. S!NoRequest \in S!Request(MaxIssues)
  BY DEF Bounds, S!NoRequest, S!Request
<1> QED
  BY <1>1, <1>2 DEF Bounds, S!Idle, S!CallState, S!PC

\* A call that does not move keeps what it relies on.
LEMMA ProblemOthers ==
  ASSUME Bounds, S!TypeOK, ProblemGrows, problem' \in S!Problem,
         NEW k \in S!CallState, ProblemCall(k)
  PROVE  ProblemCall(k)'
<1>1. /\ k.seen.revision \in Nat /\ problem.revision \in Nat
      /\ k.seen.set \in Nat /\ problem.set \in Nat /\ problem'.set \in Nat /\ k.set \in Nat
  BY DEF Bounds, S!TypeOK, S!CallState, S!Problem
<1>2. ProblemRead(k)'
  BY <1>1 DEF ProblemCall, ProblemRead, ProblemGrows
<1>3. k.seen = problem' => problem' = problem
  BY <1>1 DEF ProblemCall, ProblemRead, ProblemGrows
<1>4. ProblemAnalysis(k)'
  <2>1. k.pc = "insert" => problem'.set > k.seen.set \/ problem'.status \in Ungenerated
    BY <1>1 DEF ProblemCall, ProblemRead, ProblemAnalysis, ProblemGrows
  <2>2. k.pc = "adopt" => sets'[k.set] = k.seen.truth
    BY DEF ProblemCall, ProblemAnalysis, ProblemGrows
  <2>3. k.pc \in {"pick", "run", "count"} =>
          /\ k.seen = problem' => k.set = problem'.set
          /\ \A s \in S!Scenario : s < k.scenario => <<k.set, s>> \in results'
    BY <1>3 DEF ProblemCall, ProblemAnalysis, ProblemGrows
  <2>4. k.pc = "count" => <<k.set, k.scenario>> \in results'
    BY DEF ProblemCall, ProblemAnalysis, ProblemGrows
  <2>5. \A v : Simulated(v) => Simulated(v)'
    BY DEF Simulated, ProblemGrows
  <2>6. k.pc = "package" /\ package' = 0 /\ k.seen = problem' =>
          k.set = problem'.set /\ Simulated(k.set)'
    BY <1>3, <2>5 DEF ProblemCall, ProblemAnalysis, ProblemGrows
  <2>7. k.pc = "await" => package' # 0
    BY DEF ProblemCall, ProblemAnalysis, ProblemGrows
  <2>8. k.pc = "await" /\ k.seen = problem' => package' = problem'.set /\ Simulated(package)'
    <3> SUFFICES ASSUME k.pc = "await", k.seen = problem'
                 PROVE  package' = problem'.set /\ Simulated(package)'
      OBVIOUS
    <3>1. package' = package /\ problem' = problem
      BY <1>3 DEF ProblemCall, ProblemAnalysis, ProblemGrows
    <3>2. package = problem.set /\ Simulated(package)
      BY <3>1 DEF ProblemCall, ProblemAnalysis
    <3> QED
      BY <3>1, <3>2 DEF Simulated, ProblemGrows
  <2> QED
    BY <2>1, <2>2, <2>3, <2>4, <2>6, <2>7, <2>8 DEF ProblemCall, ProblemAnalysis
<1>5. ProblemSelection(k)'
  <2>1. ProblemGoes(k) \in Deciding => package # 0 /\ package' = package
    BY DEF ProblemCall, ProblemSelection, ProblemGrows
  <2>2. k.pc \in {"move", "admit", "link", "materialized", "record"} => ProblemGoes(k) \in Deciding
    BY DEF ProblemGoes, Deciding
  <2>3. ProblemGoes(k) \in {"put", "expire", "selector", "settle", "record"} =>
          ProblemGoes(k) \in Deciding
    BY DEF Deciding
  <2>4. /\ ProblemGoes(k)' = ProblemGoes(k)
        /\ ProblemGoes(k) \in {"selection"} => problem'.set # 0
    BY <1>1 DEF ProblemCall, ProblemSelection, ProblemGrows, ProblemGoes
  <2>5. record = package /\ package' = package => record' = package'
    BY DEF ProblemGrows
  <2>6. /\ k.pc = "move" /\ k.decision = "SELECT_SCENARIO" => record' = package'
        /\ k.pc \in {"admit", "link", "materialized"} =>
             k.record = package' /\ k.record \in selected' /\ record' = package'
    BY <2>1, <2>2, <2>5 DEF ProblemCall, ProblemSelection, ProblemGrows
  <2>7. /\ k.pc = "record" => k.set \in selected'
        /\ k.pc = "link" => <<k.record, k.set>> \in proposed'
        /\ k.pc = "materialized" => k.record \in lineage'
    BY DEF ProblemCall, ProblemSelection, ProblemGrows
  <2> QED
    BY <2>1, <2>3, <2>4, <2>6, <2>7 DEF ProblemCall, ProblemSelection
<1> QED
  BY <1>2, <1>4, <1>5 DEF ProblemCall

\* One call has moved, the others keep what they rely on, and the tables have their types.
LEMMA ProblemSteps ==
  ASSUME Bounds, ProblemInv, ProblemGrows, ProblemRows', RunsAreCounted',
         NEW c \in Call, NEW k \in S!CallState, call' = [call EXCEPT ![c] = k],
         ProblemCall(k)',
         problem' \in S!Problem, sets' \in [S!Set -> 0 .. 2],
         results' \subseteq S!Set \X S!Scenario,
         runs' \in 0 .. MaxPlans * Scenarios, package' \in 0 .. MaxPlans,
         request' \in [S!Set -> S!Request(MaxIssues)],
         record' \in 0 .. MaxPlans, issued' \in 0 .. MaxIssues,
         store' \in [Call -> [S!Set -> 0 .. MaxIssues]],
         known' \subseteq 1 .. MaxIssues,
         lineage' \subseteq S!Set, proposed' \subseteq S!Set \X S!Set,
         truth' \in S!Truth, selected' \subseteq S!Set
  PROVE  ProblemInv'
<1>1. call \in [Call -> S!CallState] /\ S!TypeOK
  BY DEF ProblemInv, S!TypeOK
<1>2. call' \in [Call -> S!CallState]
  BY <1>1
<1>3. ASSUME NEW d \in Call PROVE ProblemCall(call[d])'
  <2>1. CASE d = c
    <3>1. call'[d] = k
      BY <1>1, <2>1
    <3> QED
      BY <3>1 DEF ProblemCall, ProblemRead, ProblemAnalysis, ProblemSelection, ProblemGoes,
         Simulated
  <2>2. CASE d # c
    <3>1. PICK x \in S!CallState : x = call[d]
      BY <1>1
    <3>2. call'[d] = x
      BY <1>1, <2>2, <3>1
    <3>3. ProblemCall(x)
      BY <3>1 DEF ProblemInv
    <3>4. ProblemCall(x)'
      BY <1>1, <3>3, ProblemOthers
    <3>5. ProblemRead(call[d])'
      BY <3>2, <3>4 DEF ProblemCall, ProblemRead
    <3>6. ProblemAnalysis(call[d])'
      BY <3>2, <3>4 DEF ProblemCall, ProblemAnalysis, Simulated
    <3>7. ProblemSelection(call[d])'
      BY <3>2, <3>4 DEF ProblemCall, ProblemSelection, ProblemGoes
    <3> QED
      BY <3>5, <3>6, <3>7 DEF ProblemCall
  <2> QED
    BY <2>1, <2>2
<1>4. S!TypeOK'
  BY <1>2 DEF S!TypeOK
<1> QED
  BY <1>3, <1>4 DEF ProblemInv

\* The transitions that the properties depend on.
LEMMA ProblemTransitions ==
  ASSUME NEW from, NEW to, <<from, to>> \in S!Transitions
  PROVE  /\ to \notin Ungenerated /\ to # "SIMULATING" => from \notin Ungenerated
         /\ to = "VALIDATING" => from = "ANALYZING"
         /\ to = "AWAITING_SELECTION" => from = "VALIDATING"
         /\ to = "SELECTED" => from = "AWAITING_SELECTION"
         /\ to = "MATERIALIZED_AS_PROPOSAL" => from = "SELECTED"
         /\ to = "SIMULATING" => from = "SCENARIOS_PROPOSED"
  BY DEF S!Transitions, Ungenerated, S!DecisionProblemState, S!Terminal

\* The results that are there, and the most there can be.
LEMMA ResultsAreFinite ==
  ASSUME Bounds, NEW r, r \subseteq S!Set \X S!Scenario
  PROVE  IsFiniteSet(r) /\ Cardinality(r) \in Nat /\ Cardinality(r) <= MaxPlans * Scenarios
<1>1. /\ IsFiniteSet(S!Set) /\ Cardinality(S!Set) = MaxPlans
      /\ IsFiniteSet(S!Scenario) /\ Cardinality(S!Scenario) = Scenarios
  BY FS_Interval DEF Bounds, S!Set, S!Scenario
<1>2. IsFiniteSet(S!Set \X S!Scenario) /\ Cardinality(S!Set \X S!Scenario) = MaxPlans * Scenarios
  BY <1>1, FS_Product
<1> QED
  BY <1>2, FS_Subset, FS_CardinalityType

\* The calls that count a run are finitely many, and their number changes with a call's step.
LEMMA CountingStep ==
  ASSUME Bounds, ProblemInv, NEW c \in Call, NEW k \in S!CallState, call' = [call EXCEPT ![c] = k]
  PROVE  /\ Cardinality(Counting) \in Nat
         /\ Cardinality(Counting') \in Nat
         /\ Cardinality(Counting') <= Cardinality(Counting) + 1
         /\ k.pc # "count" => Cardinality(Counting') <= Cardinality(Counting)
         /\ call[c].pc = "count" /\ k.pc # "count" =>
              Cardinality(Counting') + 1 <= Cardinality(Counting)
<1>1. call \in [Call -> S!CallState]
  BY DEF ProblemInv, S!TypeOK
<1>2. IsFiniteSet(Counting)
  BY FS_Subset DEF Bounds, Counting
<1>3. Counting' \subseteq Counting \cup {c}
  BY <1>1 DEF Counting, S!At
<1>4. k.pc # "count" => c \notin Counting'
  BY <1>1 DEF Counting, S!At
<1>5. call[c].pc = "count" => c \in Counting
  BY DEF Counting, S!At
<1>6. PICK before : before = Counting
  OBVIOUS
<1>7. PICK after : after = Counting'
  OBVIOUS
<1>8. IsFiniteSet(before) /\ after \subseteq before \cup {c}
  BY <1>2, <1>3, <1>6, <1>7
<1>9. /\ Cardinality(after) \in Nat /\ Cardinality(before) \in Nat
      /\ Cardinality(after) <= Cardinality(before) + 1
      /\ c \in before \/ c \notin after => Cardinality(after) <= Cardinality(before)
      /\ c \in before /\ c \notin after => Cardinality(after) + 1 <= Cardinality(before)
  BY <1>8, CountStep
<1> QED
  BY <1>4, <1>5, <1>6, <1>7, <1>9

\* A step after which no run is counted, and no result is there, that was not before.
LEMMA ProblemRuns ==
  ASSUME Bounds, ProblemInv, NEW c \in Call, NEW k \in S!CallState, call' = [call EXCEPT ![c] = k],
         k.pc # "count", UNCHANGED <<runs, results>>
  PROVE  RunsAreCounted'
<1>1. /\ Cardinality(Counting) \in Nat /\ Cardinality(Counting') \in Nat
      /\ Cardinality(Counting') <= Cardinality(Counting)
  BY CountingStep
<1>2. runs \in Nat /\ Cardinality(results) \in Nat
  BY ResultsAreFinite DEF ProblemInv, S!TypeOK, Bounds
<1>3. runs + Cardinality(Counting) <= Cardinality(results)
  BY DEF ProblemInv, RunsAreCounted
<1>4. runs + Cardinality(Counting') <= Cardinality(results)
  BY <1>1, <1>2, <1>3
<1> QED
  BY <1>4 DEF RunsAreCounted

\* The latest set is the one that the problem is at, or one ahead of it.
LEMMA LatestIsCurrent ==
  ASSUME Bounds, S!TypeOK, ProblemRows
  PROVE  /\ S!LatestSet \in 0 .. MaxPlans
         /\ problem.set # 0 => S!LatestSet \in S!Set
         /\ problem.status \notin Ungenerated => S!LatestSet = problem.set
<1>1. problem.set \in 0 .. MaxPlans /\ MaxPlans \in Nat
  BY DEF S!TypeOK, S!Problem, Bounds
<1>2. problem.set # 0 => problem.set \in S!Set /\ sets[problem.set] # 0
  BY <1>1 DEF ProblemRows, S!Set
<1>3. CASE \A v \in S!Set : sets[v] = 0
  <2>1. S!LatestSet = 0 /\ problem.set = 0
    BY <1>2, <1>3 DEF S!LatestSet
  <2>2. problem.status \in Ungenerated
    BY <2>1 DEF ProblemRows, S!Set
  <2> QED
    BY <1>1, <2>1, <2>2
<1>4. CASE \E v \in S!Set : sets[v] # 0
  <2>1. \A v \in S!Set : sets[v] # 0 => v <= problem.set + 1
    BY <1>1 DEF ProblemRows, S!Set
  <2>2. \E m \in S!Set : /\ sets[m] # 0 /\ \A w \in S!Set : sets[w] # 0 => w <= m
                         /\ m \in {problem.set, problem.set + 1}
    <3>1. CASE problem.set + 1 \in S!Set /\ sets[problem.set + 1] # 0
      BY <2>1, <3>1
    <3>2. CASE ~(problem.set + 1 \in S!Set /\ sets[problem.set + 1] # 0)
      <4>1. \A v \in S!Set : sets[v] # 0 => v <= problem.set
        BY <1>1, <2>1, <3>2 DEF S!Set
      <4>2. problem.set # 0
        BY <1>4, <4>1 DEF S!Set
      <4> QED
        BY <1>2, <4>1, <4>2
    <3> QED
      BY <3>1, <3>2
  <2>3. PICK m \in S!Set : /\ sets[m] # 0 /\ \A w \in S!Set : sets[w] # 0 => w <= m
                           /\ m \in {problem.set, problem.set + 1}
    BY <2>2
  <2>4. S!LatestSet = CHOOSE v \in S!Set : sets[v] # 0 /\ \A w \in S!Set : sets[w] # 0 => w <= v
    BY <1>4 DEF S!LatestSet
  <2>5. S!LatestSet \in S!Set /\ sets[S!LatestSet] # 0 /\ \A w \in S!Set : sets[w] # 0 =>
          w <= S!LatestSet
    BY <2>3, <2>4
  <2>6. S!LatestSet = m
    <3>1. S!LatestSet <= m /\ m <= S!LatestSet
      BY <2>3, <2>5
    <3>2. S!LatestSet \in Nat /\ m \in Nat
      BY <1>1, <2>5 DEF S!Set
    <3> QED
      BY <3>1, <3>2
  <2>7. problem.status \notin Ungenerated => m = problem.set
    BY <1>1, <2>3 DEF ProblemRows, S!Set
  <2> QED
    BY <1>1, <2>5, <2>6, <2>7 DEF S!Set
<1> QED
  BY <1>3, <1>4

\* What a transition of the row that adopts no set may lead to.
ProblemLeads(status) ==
  /\ status # "SIMULATING"
  /\ status \in {"ANALYZING", "VALIDATING"} /\ package = 0 => Simulated(problem.set)
  /\ status = "AWAITING_SELECTION" => package = problem.set /\ Simulated(package)
  /\ status = "SELECTED" => record = package
  /\ status = "MATERIALIZED_AS_PROPOSAL" => record \in lineage

\* Steps that move a call and at most the problem's row.
LEMMA ProblemMoves ==
  ASSUME Bounds, ProblemInv,
         NEW c \in Call, NEW k \in S!CallState, call' = [call EXCEPT ![c] = k],
         k.pc # "count", ProblemCall(k)',
         problem' \in S!Problem,
         \/ problem' = problem
         \/ /\ problem'.revision = problem.revision + 1
            /\ \/ <<problem.status, problem'.status>> \in S!Transitions
               \/ problem'.status = problem.status
            /\ problem'.set = problem.set
            /\ problem'.truth = problem.truth \/ problem'.status \in Ungenerated
            /\ ProblemLeads(problem'.status),
         UNCHANGED <<S!setVars, request, record, issued, known, selected, S!outcomeVars, truth>>,
         store' \in [Call -> [S!Set -> 0 .. MaxIssues]]
  PROVE  ProblemInv'
<1> USE DEF S!setVars, S!outcomeVars
<1>0. S!TypeOK /\ ProblemRows
  BY DEF ProblemInv
<1>1. problem.revision \in Nat \ {0} /\ problem.set \in Nat
  BY <1>0 DEF S!TypeOK, S!Problem, Bounds
<1>2. problem'.set = problem.set
  OBVIOUS
<1>3. problem' # problem /\ problem'.status \notin Ungenerated =>
        /\ problem.status \notin Ungenerated
        /\ problem'.truth = problem.truth
  BY ProblemTransitions DEF ProblemLeads
<1>4. ProblemGrows
  BY <1>1, <1>2, <1>3 DEF ProblemGrows
<1>5. S!SelectionRestsOnPackage'
  <2>1. CASE problem' = problem
    BY <1>0, <2>1 DEF ProblemRows, S!SelectionRestsOnPackage
  <2>2. CASE problem' # problem
    <3>1. problem'.status \in Chosen => /\ package = problem.set /\ sets[package] = problem.truth
                                        /\ Simulated(package) /\ problem'.truth = problem.truth
      <4> SUFFICES ASSUME problem'.status \in Chosen
                   PROVE  /\ package = problem.set /\ sets[package] = problem.truth
                          /\ Simulated(package) /\ problem'.truth = problem.truth
        OBVIOUS
      <4>1. problem'.truth = problem.truth /\ problem.status \notin Ungenerated
        BY <1>3, <2>2 DEF Chosen, Ungenerated
      <4>2. CASE problem'.status = "AWAITING_SELECTION"
        BY <1>0, <2>2, <4>1, <4>2 DEF ProblemLeads, ProblemRows
      <4>3. CASE problem'.status # "AWAITING_SELECTION"
        <5>1. problem.status \in Chosen
          BY <2>2, <4>3, ProblemTransitions DEF Chosen
        <5> QED
          BY <1>0, <4>1, <5>1 DEF Chosen, ProblemRows, S!SelectionRestsOnPackage, Simulated
      <4> QED
        BY <4>2, <4>3
    <3>2. problem'.status \in {"SELECTED", "MATERIALIZED_AS_PROPOSAL"} => record = package
      <4>1. CASE problem'.status = "SELECTED"
        BY <2>2, <4>1 DEF ProblemLeads
      <4>2. CASE problem'.status = "MATERIALIZED_AS_PROPOSAL"
        <5>1. problem.status \in {"SELECTED", "MATERIALIZED_AS_PROPOSAL"}
          BY <2>2, <4>2, ProblemTransitions
        <5> QED
          BY <1>0, <5>1 DEF ProblemRows, S!SelectionRestsOnPackage
      <4> QED
        BY <4>1, <4>2
    <3>3. problem'.status = "MATERIALIZED_AS_PROPOSAL" => record \in lineage
      BY <2>2 DEF ProblemLeads
    <3>4. \A v \in lineage : \E p \in proposed : p[1] = v
      BY <1>0 DEF ProblemRows, S!SelectionRestsOnPackage
    <3> QED
      BY <1>2, <3>1, <3>2, <3>3, <3>4 DEF S!SelectionRestsOnPackage, Chosen, Simulated
  <2> QED
    BY <2>1, <2>2
<1>6. ProblemRows'
  <2>1. CASE problem' = problem
    BY <1>0, <1>5, <2>1 DEF ProblemRows, Simulated
  <2>2. CASE problem' # problem
    <3>1. problem'.revision # 1
      BY <1>1, <2>2
    <3>2. problem'.status \notin Ungenerated =>
            /\ problem'.set \in S!Set
            /\ sets[problem'.set] = problem'.truth
            /\ \A v \in S!Set : v > problem'.set => sets[v] = 0
      BY <1>0, <1>2, <1>3, <2>2 DEF ProblemRows
    <3>3. package = 0 /\ problem'.status \in {"ANALYZING", "VALIDATING"} => Simulated(problem'.set)
      BY <1>2, <2>2 DEF ProblemLeads
    <3> QED
      BY <1>0, <1>2, <1>5, <3>1, <3>2, <3>3 DEF ProblemRows, Simulated
  <2> QED
    BY <2>1, <2>2
<1>7. RunsAreCounted'
  BY ProblemRuns
<1> QED
  BY <1>0, <1>4, <1>6, <1>7, ProblemSteps DEF S!TypeOK

\* What a call has seen of the row: the row, what it had seen before, or the first row.
LEMMA ProblemReads ==
  ASSUME Bounds, ProblemInv, NEW c \in Call, NEW k \in S!CallState,
         k.seen \in {problem, call[c].seen, S!NewProblem}
  PROVE  ProblemRead(k)
<1>1. problem.revision \in Nat \ {0} /\ problem.set \in Nat
  BY DEF Bounds, ProblemInv, S!TypeOK, S!Problem
<1>2. S!NewProblem.revision = 1 /\ S!NewProblem.set = 0
  BY DEF S!NewProblem
<1>3. ProblemRead(call[c])
  BY DEF ProblemInv, ProblemCall
<1>4. problem.revision = 1 => problem = S!NewProblem
  BY DEF ProblemInv, ProblemRows
<1> QED
  BY <1>1, <1>2, <1>3, <1>4 DEF ProblemRead

\* A call that is at no statement, or at one that uses the row only, relies on nothing.
LEMMA ProblemRests ==
  ASSUME Bounds, NEW k \in S!CallState, k.pc \in {"idle", "propose", "simulated"}
  PROVE  /\ ProblemAnalysis(k) /\ ProblemSelection(k)
         /\ ProblemAnalysis(k)' /\ ProblemSelection(k)'
  BY DEF ProblemAnalysis, ProblemSelection, ProblemGoes, Deciding

\* A step that moves nothing but its call.
LEMMA ProblemQuiet ==
  ASSUME Bounds, ProblemInv,
         NEW c \in Call, NEW k \in S!CallState, call' = [call EXCEPT ![c] = k],
         k.pc # "count",
         k.seen \in {problem, call[c].seen, S!NewProblem},
         ProblemAnalysis(k), ProblemSelection(k),
         UNCHANGED <<problem, S!setVars, S!requestVars, S!outcomeVars, truth>>
  PROVE  ProblemInv'
<1> USE DEF S!setVars, S!requestVars, S!outcomeVars
<1>1. ProblemRead(k)
  BY ProblemReads
<1>2. ProblemCall(k)'
  BY <1>1 DEF ProblemCall, ProblemRead, ProblemAnalysis, ProblemSelection, ProblemGoes, Simulated
<1>3. problem' \in S!Problem /\ store' \in [Call -> [S!Set -> 0 .. MaxIssues]]
  BY DEF ProblemInv, S!TypeOK
<1> QED
  BY <1>2, <1>3, ProblemMoves

\* A step that begins with a transition and goes on with the row it wrote.
LEMMA ProblemGoesOn ==
  ASSUME Bounds, ProblemInv,
         NEW c \in Call, NEW status \in S!DecisionProblemState, NEW state \in S!CallState,
         S!MoveAndGoOn(c, status, state),
         <<problem.status, status>> \in S!Transitions,
         ProblemLeads(status),
         \/ state.pc \in {"idle", "simulated"}
         \/ state.pc = "ground" /\ status = "GROUNDING"
         \/ /\ state.pc = "insert" /\ status = "SCENARIOS_PROPOSED"
            /\ state.set = problem.set + 1 /\ state.set \in S!Set /\ problem.truth # 0,
         UNCHANGED <<S!setVars, S!requestVars, S!outcomeVars, truth>>
  PROVE  ProblemInv'
<1> USE DEF S!requestVars
<1>1. PICK e : e = problem'
  OBVIOUS
<1>2. PICK k : k = [state EXCEPT !.seen = e]
  OBVIOUS
<1>3. /\ e \in S!Problem
      /\ e.revision = problem.revision + 1
      /\ e.status = status /\ e.set = problem.set /\ e.truth = problem.truth
  <2>1. problem \in S!Problem /\ problem.revision \in Nat \ {0}
          /\ problem.revision < (MaxWrites - 1)
    BY DEF S!MoveAndGoOn, Bounds, ProblemInv, S!TypeOK, S!Problem
  <2>2. problem.revision + 1 \in 1 .. (MaxWrites - 1)
    BY <2>1 DEF Bounds
  <2>3. e = [problem EXCEPT !.status = status, !.revision = problem.revision + 1]
    BY <1>1 DEF S!MoveAndGoOn, S!Moved
  <2> QED
    BY <2>1, <2>2, <2>3 DEF S!Problem
<1>4. /\ k \in S!CallState /\ k.seen = e /\ k.pc = state.pc /\ k.set = state.set
  BY <1>2, <1>3 DEF S!CallState
<1>5. call' = [call EXCEPT ![c] = k]
  BY <1>1, <1>2 DEF S!MoveAndGoOn, S!Enter
<1>6. ProblemAnalysis(k)'
  BY <1>1, <1>3, <1>4 DEF ProblemAnalysis, Ungenerated
<1>7. ProblemSelection(k)'
  BY <1>4 DEF ProblemSelection, ProblemGoes, Deciding
<1>8. ProblemRead(k)'
  BY <1>1, <1>3, <1>4 DEF ProblemRead, S!Problem, Bounds
<1>9. store' \in [Call -> [S!Set -> 0 .. MaxIssues]] /\ k.pc # "count"
  BY <1>4 DEF ProblemInv, S!TypeOK
<1> QED
  BY <1>1, <1>3, <1>4, <1>5, <1>6, <1>7, <1>8, <1>9, ProblemMoves DEF ProblemCall

\* A step that ends with a change of the row that was read, or throws.
LEMMA ProblemEnds ==
  ASSUME Bounds, ProblemInv,
         NEW c \in Call, NEW status \in S!DecisionProblemState,
         problem.revision < (MaxWrites - 1),
         \/ problem' = problem
         \/ /\ problem' = S!Moved(call[c].seen, status)
            /\ problem.revision = call[c].seen.revision
            /\ \/ <<call[c].seen.status, status>> \in S!Transitions
               \/ status = call[c].seen.status,
         S!Return(c),
         call[c].seen = problem => ProblemLeads(status),
         UNCHANGED <<S!setVars, S!requestVars, S!outcomeVars, truth>>
  PROVE  ProblemInv'
<1> USE DEF S!requestVars
<1>1. /\ call \in [Call -> S!CallState] /\ problem \in S!Problem
      /\ problem.revision \in Nat \ {0} /\ problem.revision + 1 \in 1 .. (MaxWrites - 1)
      /\ problem.set \in Nat
  BY DEF Bounds, ProblemInv, S!TypeOK, S!Problem
<1>2. ProblemRead(call[c])
  BY DEF ProblemInv, ProblemCall
<1>3. \/ problem' = problem
      \/ /\ problem' = [problem EXCEPT !.status = status, !.revision = problem.revision + 1]
         /\ \/ <<problem.status, status>> \in S!Transitions
            \/ status = problem.status
         /\ ProblemLeads(status)
  BY <1>2 DEF S!Moved, ProblemRead
<1>4. /\ problem' \in S!Problem
      /\ \/ problem' = problem
         \/ /\ problem'.revision = problem.revision + 1
            /\ \/ <<problem.status, problem'.status>> \in S!Transitions
               \/ problem'.status = problem.status
            /\ problem'.set = problem.set /\ problem'.truth = problem.truth
            /\ ProblemLeads(problem'.status)
  <2>1. CASE problem' = problem
    BY <1>1, <2>1
  <2>2. CASE problem' # problem
    <3>1. problem' = [problem EXCEPT !.status = status, !.revision = problem.revision + 1]
      BY <1>3, <2>2
    <3>2. /\ problem' \in S!Problem /\ problem'.revision = problem.revision + 1
          /\ problem'.status = status /\ problem'.set = problem.set
          /\ problem'.truth = problem.truth
      BY <1>1, <3>1 DEF S!Problem
    <3> QED
      BY <1>3, <2>2, <3>2
  <2> QED
    BY <2>1, <2>2
<1>5. call' = [call EXCEPT ![c] = S!Idle]
  BY DEF S!Return
<1>6. S!Idle \in S!CallState /\ S!Idle.pc = "idle" /\ S!Idle.seen = S!NewProblem
  BY ProblemIdle DEF S!Idle
<1>7. ProblemRead(S!Idle)'
  <2>1. ProblemRead(S!Idle) /\ S!NewProblem.revision = 1 /\ S!NewProblem.set = 0
    BY <1>6, ProblemReads DEF S!NewProblem
  <2>2. problem'.set \in Nat
    BY <1>1, <1>4
  <2> QED
    BY <1>1, <1>4, <1>6, <2>1, <2>2 DEF ProblemRead
<1>8. ProblemCall(S!Idle)'
  BY <1>6, <1>7, ProblemRests DEF ProblemCall
<1>9. store' \in [Call -> [S!Set -> 0 .. MaxIssues]]
  BY DEF ProblemInv, S!TypeOK
<1> QED
  BY <1>4, <1>5, <1>6, <1>8, <1>9, ProblemMoves

\* The same for the last statement of an operation.
LEMMA ProblemConcludes ==
  ASSUME Bounds, ProblemInv,
         NEW c \in Call, NEW status \in S!DecisionProblemState,
         S!MoveAndReturn(c, S!Moved(call[c].seen, status)),
         call[c].seen = problem /\ <<problem.status, status>> \in S!Transitions
           => ProblemLeads(status),
         UNCHANGED <<S!setVars, S!requestVars, S!outcomeVars, truth>>
  PROVE  ProblemInv'
<1>1. PICK e \in S!Problem : e = call[c].seen
  BY DEF ProblemInv, S!TypeOK, S!CallState
<1>2. S!Moved(e, status).status = status
  BY DEF S!Moved, S!Problem
<1>3. PICK new : new = S!Moved(call[c].seen, status)
  OBVIOUS
<1>4. /\ problem.revision < (MaxWrites - 1) /\ S!Return(c)
      /\ problem' = IF <<call[c].seen.status, status>> \in S!Transitions
                       /\ problem.revision = call[c].seen.revision
                    THEN new ELSE problem
  BY <1>1, <1>2, <1>3 DEF S!MoveAndReturn, S!MayMove
<1>5. ProblemRead(call[c])
  BY DEF ProblemInv, ProblemCall
<1>6. CASE <<call[c].seen.status, status>> \in S!Transitions
        /\ problem.revision = call[c].seen.revision
  <2>1. ProblemLeads(status)
    BY <1>5, <1>6 DEF ProblemRead
  <2> QED
    BY <1>3, <1>4, <1>6, <2>1, ProblemEnds
<1>7. CASE ~(<<call[c].seen.status, status>> \in S!Transitions
        /\ problem.revision = call[c].seen.revision)
  <2>1. problem' = problem
    BY <1>4, <1>7
  <2>2. "CANCELLED" \in S!DecisionProblemState /\ ProblemLeads("CANCELLED")
    BY DEF S!DecisionProblemState, ProblemLeads
  <2> QED
    BY <1>4, <2>1, <2>2, ProblemEnds
<1> QED
  BY <1>6, <1>7

\* A call that goes on with what it carries.
LEMMA ProblemGoTo ==
  ASSUME ProblemInv, NEW c \in Call, NEW pc \in S!PC, S!GoTo(c, pc)
  PROVE  \E k \in S!CallState :
           /\ call' = [call EXCEPT ![c] = k]
           /\ k.pc = pc /\ k.next = call[c].next /\ k.seen = call[c].seen
           /\ k.set = call[c].set /\ k.scenario = call[c].scenario /\ k.record = call[c].record
           /\ k.request = call[c].request /\ k.decision = call[c].decision
<1>1. call \in [Call -> S!CallState] /\ call[c] \in S!CallState
  BY DEF ProblemInv, S!TypeOK
<1>2. PICK k : k = [call[c] EXCEPT !.pc = pc]
  OBVIOUS
<1>3. call' = [call EXCEPT ![c] = k]
  BY <1>1, <1>2 DEF S!GoTo
<1>4. /\ k \in S!CallState
      /\ k.pc = pc /\ k.next = call[c].next /\ k.seen = call[c].seen
      /\ k.set = call[c].set /\ k.scenario = call[c].scenario /\ k.record = call[c].record
      /\ k.request = call[c].request /\ k.decision = call[c].decision
  BY <1>1, <1>2 DEF S!CallState
<1> QED
  BY <1>3, <1>4

\* Steps on the requests for a selection.
LEMMA ProblemDecides ==
  ASSUME Bounds, ProblemInv,
         NEW c \in Call, NEW k \in S!CallState, call' = [call EXCEPT ![c] = k],
         k.pc # "count",
         k.seen \in {problem, call[c].seen, S!NewProblem},
         ProblemAnalysis(k)', ProblemSelection(k)',
         UNCHANGED <<problem, S!setVars, S!outcomeVars, truth>>,
         request' \in [S!Set -> S!Request(MaxIssues)],
         \A v \in S!Set : request'[v].status # "NONE" => v = package,
         \A v \in S!Set : request'[v].status = "PENDING" => request'[v].revision = 1,
         record' \in 0 .. MaxPlans, issued' \in 0 .. MaxIssues,
         store' \in [Call -> [S!Set -> 0 .. MaxIssues]],
         known' \subseteq 1 .. MaxIssues,
         selected' \subseteq S!Set, selected \subseteq selected',
         \/ record' = record
         \/ record' = package /\ record' \in selected' /\ package # 0
  PROVE  ProblemInv'
<1> USE DEF S!setVars, S!outcomeVars
<1>0. S!TypeOK /\ ProblemRows
  BY DEF ProblemInv
<1>1. ProblemGrows
  BY DEF ProblemGrows
<1>2. ProblemRead(k)
  BY ProblemReads
<1>3. ProblemCall(k)'
  BY <1>2 DEF ProblemCall, ProblemRead
<1>4. S!SelectionRestsOnPackage'
  <2>1. CASE record' = record
    BY <1>0, <2>1 DEF ProblemRows, S!SelectionRestsOnPackage
  <2>2. CASE record' # record
    <3>1. problem.status \notin {"SELECTED", "MATERIALIZED_AS_PROPOSAL"}
      BY <1>0, <2>2 DEF ProblemRows, S!SelectionRestsOnPackage
    <3> QED
      BY <1>0, <3>1 DEF ProblemRows, S!SelectionRestsOnPackage
  <2> QED
    BY <2>1, <2>2
<1>5. ProblemRows'
  BY <1>0, <1>4 DEF ProblemRows, Simulated
<1>6. RunsAreCounted'
  BY ProblemRuns
<1> QED
  BY <1>0, <1>1, <1>3, <1>5, <1>6, ProblemSteps DEF S!TypeOK

\* The request that a decision has read, written back with another status.
LEMMA ProblemSettles ==
  ASSUME Bounds, ProblemInv, NEW c \in Call, NEW status \in {"SETTLED", "EXPIRED"},
         call[c].request.revision = 1, call[c].set \in S!Set, call[c].set = package,
         S!Settle(c, status)
  PROVE  /\ request' \in [S!Set -> S!Request(MaxIssues)]
         /\ \A v \in S!Set : request'[v].status # "NONE" => v = package
         /\ \A v \in S!Set : request'[v].status = "PENDING" => request'[v].revision = 1
<1>1. request \in [S!Set -> S!Request(MaxIssues)] /\ call[c].request \in S!Request(MaxIssues)
  BY DEF ProblemInv, S!TypeOK, S!CallState
<1>2. PICK r : r = S!Settled(call[c].request, status)
  OBVIOUS
<1>3. r \in S!Request(MaxIssues) /\ r.status = status
  <2>1. PICK q \in S!Request(MaxIssues) : q = call[c].request
    BY <1>1
  <2>2. r = [q EXCEPT !.status = status, !.revision = 2]
    BY <1>2, <2>1 DEF S!Settled
  <2>3. q.issue \in 0 .. MaxIssues /\ 2 \in 0 .. 2
    BY DEF S!Request
  <2>4. r = [status |-> status, issue |-> q.issue, revision |-> 2]
    BY <2>2 DEF S!Request
  <2>5. status \in {"NONE", "PENDING", "SETTLED", "EXPIRED"}
    OBVIOUS
  <2> QED
    BY <2>3, <2>4, <2>5 DEF S!Request
<1>4. request' = [request EXCEPT ![call[c].set] = r]
  BY <1>2 DEF S!Settle
<1>5. /\ \A v \in S!Set : request[v].status = "PENDING" => request[v].revision = 1
      /\ \A v \in S!Set : request[v].status # "NONE" => v = package
  BY DEF ProblemInv, ProblemRows
<1> QED
  BY <1>1, <1>3, <1>4, <1>5

\* ground and generateScenarios: a set is inserted under the truth that was read, and
\* adopted with the transition to SIMULATING.
LEMMA ProblemGeneration ==
  ASSUME Bounds, ProblemInv, NEW c \in Call,
         \/ S!StartGround(c) \/ S!SaveTruth(c) \/ S!Propose(c) \/ S!StartGenerate(c) \/ S!InsertSet(c)
         \/ S!AdoptSet(c)
  PROVE  ProblemInv'
<1> USE DEF S!setVars, S!requestVars, S!outcomeVars
<1>0. /\ S!TypeOK /\ ProblemRows
      /\ call \in [Call -> S!CallState] /\ call[c] \in S!CallState
      /\ problem \in S!Problem /\ sets \in [S!Set -> 0 .. 2] /\ truth \in S!Truth
      /\ ProblemCall(call[c]) /\ ProblemRead(call[c])
      /\ ProblemAnalysis(call[c]) /\ ProblemSelection(call[c])
  BY DEF ProblemInv, S!TypeOK, ProblemCall
<1>t. S!Idle \in S!CallState /\ S!Idle.pc = "idle" /\ S!Idle.seen = S!NewProblem
  BY ProblemIdle DEF S!Idle
<1>u. /\ call[c].seen \in S!Problem /\ call[c].set \in 0 .. MaxPlans
      /\ problem.set \in Nat /\ problem.revision \in Nat \ {0} /\ problem.truth \in 0 .. 2
      /\ call[c].seen.truth \in 0 .. 2 /\ call[c].seen.set \in Nat
  BY <1>0 DEF S!CallState, S!Problem, Bounds
<1>1. CASE S!StartGround(c)
  <2>1. PICK state : state = [S!Idle EXCEPT !.pc = "ground"]
    OBVIOUS
  <2>2. PICK k : k = [S!Idle EXCEPT !.pc = "ground", !.seen = problem]
    OBVIOUS
  <2>3. /\ state \in S!CallState /\ state.pc = "ground"
        /\ k \in S!CallState /\ k.pc = "ground" /\ k.seen = problem
    BY <1>0, <1>t, <2>1, <2>2 DEF S!CallState, S!PC
  <2>4. CASE problem.status \in {"ADMITTED", "STALE"} /\ S!MoveAndGoOn(c, "GROUNDING", state)
    <3>1. <<problem.status, "GROUNDING">> \in S!Transitions /\ ProblemLeads("GROUNDING")
      BY <2>4 DEF S!Transitions, ProblemLeads
    <3> QED
      BY <1>1, <2>3, <2>4, <3>1, ProblemGoesOn DEF S!StartGround, S!DecisionProblemState
  <2>5. CASE problem.status = "GROUNDING" /\ call' = [call EXCEPT ![c] = k] /\ UNCHANGED problem
    <3>1. ProblemAnalysis(k) /\ ProblemSelection(k)
      BY <2>3, <2>5 DEF ProblemAnalysis, ProblemSelection, ProblemGoes, Deciding
    <3>2. UNCHANGED <<problem, S!setVars, S!requestVars, S!outcomeVars, truth>>
      BY <1>1, <2>5 DEF S!StartGround
    <3> QED
      BY <2>3, <2>5, <3>1, <3>2, ProblemQuiet
  <2> QED
    BY <1>1, <2>1, <2>2, <2>4, <2>5 DEF S!StartGround, S!Enter
<1>2. CASE S!SaveTruth(c)
  <2>1. /\ call[c].seen = problem /\ problem.status = "GROUNDING"
    BY <1>0, <1>2 DEF S!SaveTruth, S!At, ProblemAnalysis, ProblemRead
  <2>2. PICK e : e = problem'
    OBVIOUS
  <2>3. /\ e = [problem EXCEPT !.truth = truth, !.revision = problem.revision + 1]
        /\ problem.revision + 1 \in 1 .. (MaxWrites - 1) /\ truth \in 0 .. 2
    <3>1. e = [problem EXCEPT !.truth = truth, !.revision = problem.revision + 1]
      BY <1>2, <2>1, <2>2 DEF S!SaveTruth
    <3>2. problem.revision < (MaxWrites - 1)
      BY <1>2 DEF S!SaveTruth
    <3>3. problem.revision + 1 \in 1 .. (MaxWrites - 1)
      BY <1>u, <3>2 DEF Bounds
    <3>4. truth \in 0 .. 2
      BY <1>0 DEF S!Truth
    <3> QED
      BY <3>1, <3>3, <3>4
  <2>4. /\ e \in S!Problem /\ e.revision = problem.revision + 1 /\ e.status = "GROUNDING"
        /\ e.set = problem.set
    BY <1>0, <2>1, <2>3 DEF S!Problem
  <2>5. PICK k : k = [call[c] EXCEPT !.pc = "propose", !.seen = e]
    OBVIOUS
  <2>6. k \in S!CallState /\ k.pc = "propose" /\ k.seen = e
    BY <1>0, <2>4, <2>5 DEF S!CallState, S!PC
  <2>7. call' = [call EXCEPT ![c] = k]
    BY <1>0, <1>2, <2>2, <2>5 DEF S!SaveTruth
  <2>8. UNCHANGED <<S!setVars, S!requestVars, S!outcomeVars, truth>>
    BY <1>2 DEF S!SaveTruth
  <2>9. ProblemCall(k)'
    <3>1. ProblemRead(k)'
      BY <1>u, <2>2, <2>4, <2>6 DEF ProblemRead
    <3> QED
      BY <2>6, <3>1, ProblemRests DEF ProblemCall
  <2>10. store' \in [Call -> [S!Set -> 0 .. MaxIssues]]
    BY <1>0, <2>8 DEF S!TypeOK
  <2>11. ProblemLeads("GROUNDING") /\ "GROUNDING" \in Ungenerated
    BY DEF ProblemLeads, Ungenerated
  <2> QED
    BY <2>1, <2>2, <2>4, <2>6, <2>7, <2>8, <2>9, <2>10, <2>11, ProblemMoves
<1>3. CASE S!Propose(c)
  <2>1. ProblemLeads("SCENARIOS_PROPOSED")
    BY DEF ProblemLeads
  <2> QED
    BY <1>3, <2>1, ProblemConcludes DEF S!Propose, S!DecisionProblemState
<1>4. CASE S!StartGenerate(c)
  <2>0. /\ problem.set < MaxPlans /\ UNCHANGED <<S!setVars, S!requestVars, S!outcomeVars, truth>>
        /\ ProblemLeads("SCENARIOS_PROPOSED")
        /\ <<"GROUNDING", "SCENARIOS_PROPOSED">> \in S!Transitions
        /\ "SCENARIOS_PROPOSED" \in S!DecisionProblemState
    BY <1>4 DEF S!StartGenerate, ProblemLeads, S!Transitions, S!DecisionProblemState
  <2>1. problem.set + 1 \in S!Set /\ problem.set + 1 \in 0 .. MaxPlans
    BY <1>u, <2>0 DEF S!Set, Bounds
  <2>2. PICK generating : generating = [S!Idle EXCEPT !.pc = "insert", !.set = problem.set + 1]
    OBVIOUS
  <2>3. PICK k : k = [generating EXCEPT !.seen = problem]
    OBVIOUS
  <2>4. /\ generating \in S!CallState /\ generating.pc = "insert"
        /\ generating.set = problem.set + 1
    BY <1>t, <2>1, <2>2 DEF S!CallState, S!PC
  <2>5. /\ k \in S!CallState /\ k.pc = "insert" /\ k.set = problem.set + 1 /\ k.seen = problem
    BY <1>0, <2>3, <2>4 DEF S!CallState
  <2>6. CASE problem.status = "GROUNDING" /\ problem.truth = 0
    <3>1. /\ problem.revision < (MaxWrites - 1) /\ problem' = S!Moved(problem, "SCENARIOS_PROPOSED")
          /\ S!Return(c)
      BY <1>4, <2>6 DEF S!StartGenerate
    <3>2. problem' = [problem EXCEPT !.status = "SCENARIOS_PROPOSED", !.revision = problem.revision + 1]
      BY <3>1 DEF S!Moved
    <3>3. problem.revision + 1 \in 1 .. (MaxWrites - 1)
      BY <1>u, <3>1 DEF Bounds
    <3>4. /\ problem' \in S!Problem /\ problem'.revision = problem.revision + 1
          /\ problem'.status = "SCENARIOS_PROPOSED"
          /\ problem'.set = problem.set /\ problem'.truth = problem.truth
      BY <1>0, <2>0, <3>2, <3>3 DEF S!Problem
    <3>5. call' = [call EXCEPT ![c] = S!Idle]
      BY <3>1 DEF S!Return
    <3>6. ProblemCall(S!Idle)'
      <4>1. ProblemRead(S!Idle) /\ S!NewProblem.revision = 1 /\ S!NewProblem.set = 0
        BY <1>t, ProblemReads DEF S!NewProblem
      <4>2. ProblemRead(S!Idle)'
        BY <1>t, <1>u, <3>4, <4>1 DEF ProblemRead
      <4> QED
        BY <1>t, <4>2, ProblemRests DEF ProblemCall
    <3>7. store' \in [Call -> [S!Set -> 0 .. MaxIssues]]
      BY <1>0, <2>0 DEF S!TypeOK
    <3> QED
      BY <1>t, <2>0, <2>6, <3>4, <3>5, <3>6, <3>7, ProblemMoves
  <2>7. CASE problem.status = "GROUNDING" /\ problem.truth # 0
    <3>1. S!MoveAndGoOn(c, "SCENARIOS_PROPOSED", generating)
      BY <1>4, <2>2, <2>7 DEF S!StartGenerate
    <3> QED
      BY <2>0, <2>1, <2>4, <2>7, <3>1, ProblemGoesOn
  <2>8. CASE problem.status = "SCENARIOS_PROPOSED"
    <3>1. problem.truth # 0 /\ UNCHANGED problem /\ call' = [call EXCEPT ![c] = k]
      BY <1>4, <2>2, <2>3, <2>8 DEF S!StartGenerate, S!Enter
    <3>2. ProblemAnalysis(k) /\ ProblemSelection(k)
      BY <2>1, <2>5, <2>8, <3>1
      DEF ProblemAnalysis, ProblemSelection, ProblemGoes, Deciding, Ungenerated
    <3>3. UNCHANGED <<problem, S!setVars, S!requestVars, S!outcomeVars, truth>>
      BY <2>0, <3>1
    <3> QED
      BY <2>5, <3>1, <3>2, <3>3, ProblemQuiet
  <2> QED
    BY <1>4, <2>6, <2>7, <2>8 DEF S!StartGenerate
<1>5. CASE S!InsertSet(c)
  <2>0. /\ call[c].pc = "insert" /\ sets[call[c].set] = 0
        /\ sets' = [sets EXCEPT ![call[c].set] = call[c].seen.truth]
        /\ UNCHANGED <<problem, results, runs, package, S!requestVars, S!outcomeVars, truth>>
    BY <1>5 DEF S!InsertSet, S!At
  <2>1. /\ call[c].set = call[c].seen.set + 1 /\ call[c].set \in S!Set /\ call[c].seen.truth # 0
        /\ problem.set > call[c].seen.set \/ problem.status \in Ungenerated
        /\ call[c].seen.set <= problem.set
    BY <1>0, <2>0 DEF ProblemAnalysis, ProblemRead
  <2>2. ~(call[c].set <= problem.set)
    BY <1>0, <2>0, <2>1 DEF ProblemRows
  <2>3. call[c].set = problem.set + 1 /\ problem.status \in Ungenerated
    BY <1>u, <2>1, <2>2
  <2>4. PICK k \in S!CallState :
           /\ call' = [call EXCEPT ![c] = k]
           /\ k.pc = "adopt" /\ k.seen = call[c].seen /\ k.set = call[c].set
    BY <1>5, ProblemGoTo DEF S!InsertSet, S!PC
  <2>5. /\ sets' \in [S!Set -> 0 .. 2] /\ sets'[k.set] = k.seen.truth
        /\ \A v \in S!Set : v # k.set => sets'[v] = sets[v]
    BY <1>0, <1>u, <2>0, <2>1, <2>4
  <2>6. ProblemCall(k)'
    <3>1. ProblemAnalysis(k)'
      BY <2>1, <2>4, <2>5 DEF ProblemAnalysis
    <3>2. ProblemSelection(k)'
      BY <2>4 DEF ProblemSelection, ProblemGoes, Deciding
    <3>3. ProblemRead(k)'
      BY <1>0, <2>0, <2>4 DEF ProblemRead
    <3> QED
      BY <3>1, <3>2, <3>3 DEF ProblemCall
  <2>7. ProblemGrows
    BY <2>0, <2>4, <2>5 DEF ProblemGrows
  <2>8. S!SelectionRestsOnPackage'
    <3>1. problem.status \notin Chosen
      BY <2>3 DEF Ungenerated, Chosen
    <3>2. \A v \in lineage : \E p \in proposed : p[1] = v
      BY <1>0 DEF ProblemRows, S!SelectionRestsOnPackage
    <3> QED
      BY <2>0, <3>1, <3>2 DEF S!SelectionRestsOnPackage, Chosen
  <2>9. ProblemRows'
    <3>1. \A v \in S!Set : v <= problem.set => sets'[v] # 0
      BY <1>0, <2>2, <2>4, <2>5 DEF ProblemRows
    <3>2. \A v \in S!Set : v > problem.set + 1 => sets'[v] = 0
      <4> SUFFICES ASSUME NEW v \in S!Set, v > problem.set + 1 PROVE sets'[v] = 0
        OBVIOUS
      <4>1. v # k.set
        BY <1>u, <2>3, <2>4
      <4> QED
        BY <1>0, <2>5, <4>1 DEF ProblemRows
    <3> QED
      BY <1>0, <2>0, <2>3, <2>8, <3>1, <3>2 DEF ProblemRows, Simulated
  <2>10. RunsAreCounted'
    BY <2>0, <2>4, ProblemRuns
  <2> QED
    BY <1>0, <2>0, <2>4, <2>5, <2>6, <2>7, <2>9, <2>10, ProblemSteps DEF S!TypeOK
<1>6. CASE S!AdoptSet(c)
  <2>0. /\ call[c].pc = "adopt" /\ UNCHANGED <<S!setVars, S!requestVars, S!outcomeVars, truth>>
        /\ problem.revision < (MaxWrites - 1)
    BY <1>6 DEF S!AdoptSet, S!At, S!MoveAndReturn
  <2>1. /\ call[c].set = call[c].seen.set + 1 /\ call[c].set \in S!Set /\ call[c].seen.truth # 0
        /\ sets[call[c].set] = call[c].seen.truth
    BY <1>0, <2>0 DEF ProblemAnalysis
  <2>2. PICK new : new = [S!Moved(call[c].seen, "SIMULATING") EXCEPT !.set = call[c].set]
    OBVIOUS
  <2>3. new = [call[c].seen EXCEPT !.status = "SIMULATING", !.revision = call[c].seen.revision + 1,
                                   !.set = call[c].set]
    BY <2>2 DEF S!Moved
  <2>4. new.status = "SIMULATING"
    BY <1>u, <2>3 DEF S!Problem
  <2>5. /\ call' = [call EXCEPT ![c] = S!Idle]
        /\ problem' = IF S!MayMove(call[c].seen, new) THEN new ELSE problem
    BY <1>6, <2>2 DEF S!AdoptSet, S!MoveAndReturn, S!Return
  <2>s. store' \in [Call -> [S!Set -> 0 .. MaxIssues]]
    BY <1>0, <2>0 DEF S!TypeOK
  <2>6. CASE ~S!MayMove(call[c].seen, new)
    <3>1. UNCHANGED <<problem, S!setVars, S!requestVars, S!outcomeVars, truth>>
      BY <2>0, <2>5, <2>6
    <3> QED
      BY <1>t, <2>5, <3>1, ProblemRests, ProblemQuiet
  <2>7. CASE S!MayMove(call[c].seen, new)
    <3>1. /\ call[c].seen = problem /\ <<problem.status, "SIMULATING">> \in S!Transitions
          /\ problem' = new
      BY <1>0, <2>4, <2>5, <2>7 DEF S!MayMove, ProblemRead
    <3>2. problem.status = "SCENARIOS_PROPOSED"
      BY <3>1, ProblemTransitions
    <3>3. problem.revision + 1 \in 1 .. (MaxWrites - 1) /\ problem.set + 1 \in 0 .. MaxPlans
          /\ "SIMULATING" \in S!DecisionProblemState
      BY <1>u, <2>0, <2>1, <3>1 DEF S!Set, Bounds, S!DecisionProblemState
    <3>4. problem' = [problem EXCEPT !.status = "SIMULATING", !.revision = problem.revision + 1,
                                     !.set = problem.set + 1]
      BY <2>1, <2>3, <3>1
    <3>5. /\ problem' \in S!Problem /\ problem'.status = "SIMULATING"
          /\ problem'.revision = problem.revision + 1 /\ problem'.set = problem.set + 1
          /\ problem'.truth = problem.truth
      BY <1>0, <3>3, <3>4 DEF S!Problem
    <3>6. ProblemGrows
      BY <1>u, <2>0, <3>5 DEF ProblemGrows
    <3>7. ProblemCall(S!Idle)'
      <4>1. ProblemRead(S!Idle) /\ S!NewProblem.revision = 1 /\ S!NewProblem.set = 0
        BY <1>t, ProblemReads DEF S!NewProblem
      <4>2. ProblemRead(S!Idle)'
        BY <1>t, <1>u, <3>5, <4>1 DEF ProblemRead
      <4> QED
        BY <1>t, <4>2, ProblemRests DEF ProblemCall
    <3>8. S!SelectionRestsOnPackage'
      <4>1. \A v \in lineage : \E p \in proposed : p[1] = v
        BY <1>0 DEF ProblemRows, S!SelectionRestsOnPackage
      <4> QED
        BY <2>0, <3>5, <4>1 DEF S!SelectionRestsOnPackage
    <3>9. ProblemRows'
      <4>1. problem.set + 1 \in S!Set /\ sets[problem.set + 1] = problem.truth /\ problem.truth # 0
        BY <2>1, <3>1
      <4>2. \A v \in S!Set : v <= problem.set + 1 => sets[v] # 0
        BY <1>0, <1>u, <4>1 DEF ProblemRows, S!Set
      <4>3. \A v \in S!Set : v > problem.set + 1 => sets[v] = 0
        BY <1>0 DEF ProblemRows
      <4>4. \A v \in S!Set : v > problem.set + 2 => sets[v] = 0
        BY <1>u, <4>3 DEF S!Set
      <4>5. problem'.revision # 1 /\ (problem.set + 1) + 1 = problem.set + 2
        BY <1>u, <3>5
      <4> QED
        BY <1>0, <2>0, <3>5, <3>8, <4>1, <4>2, <4>3, <4>4, <4>5 DEF ProblemRows, Simulated
    <3>10. RunsAreCounted'
      BY <1>t, <2>0, <2>5, ProblemRuns
    <3> QED
      BY <1>0, <1>t, <2>0, <2>5, <3>5, <3>6, <3>7, <3>9, <3>10, ProblemSteps DEF S!TypeOK
  <2> QED
    BY <2>6, <2>7
<1> QED
  BY <1>1, <1>2, <1>3, <1>4, <1>5, <1>6

\* simulateAll: a result is inserted before its run is counted, and a call that reaches
\* the end has a result for every scenario of the set it read.
LEMMA ProblemSimulation ==
  ASSUME Bounds, ProblemInv, NEW c \in Call,
         \/ S!StartSimulate(c) \/ S!PickScenario(c) \/ S!InsertResult(c) \/ S!CountRun(c)
         \/ S!FinishSimulate(c)
  PROVE  ProblemInv'
<1> USE DEF S!setVars, S!requestVars, S!outcomeVars
<1>0. /\ S!TypeOK /\ ProblemRows /\ RunsAreCounted
      /\ call \in [Call -> S!CallState] /\ call[c] \in S!CallState
      /\ problem \in S!Problem /\ results \subseteq S!Set \X S!Scenario
      /\ ProblemCall(call[c]) /\ ProblemRead(call[c])
      /\ ProblemAnalysis(call[c]) /\ ProblemSelection(call[c])
  BY DEF ProblemInv, S!TypeOK, ProblemCall
<1>t. S!Idle \in S!CallState /\ S!Idle.pc = "idle" /\ S!Idle.seen = S!NewProblem
  BY ProblemIdle DEF S!Idle
<1>u. /\ Scenarios \in Nat /\ runs \in Nat /\ Cardinality(results) \in Nat /\ IsFiniteSet(results)
      /\ call[c].scenario \in 0 .. Scenarios + 1
  BY <1>0, ResultsAreFinite DEF S!TypeOK, Bounds, S!CallState
<1>1. CASE S!StartSimulate(c)
  <2>1. /\ problem.status \in {"SIMULATING", "ANALYZING"}
        /\ UNCHANGED <<problem, S!setVars, S!requestVars, S!outcomeVars, truth>>
    BY <1>1 DEF S!StartSimulate
  <2>2. problem.status \notin Ungenerated
    BY <2>1 DEF Ungenerated
  <2>3. S!LatestSet = problem.set /\ problem.set \in S!Set
    BY <1>0, <2>2, LatestIsCurrent DEF ProblemRows
  <2>4. PICK v : v = S!LatestSet
    OBVIOUS
  <2>5. PICK k : k = [S!Idle EXCEPT !.pc = "pick", !.seen = problem, !.set = v, !.scenario = 1]
    OBVIOUS
  <2>6. v \in 0 .. MaxPlans /\ 1 \in 0 .. Scenarios + 1
    BY <1>u, <2>3, <2>4 DEF S!Set, Bounds
  <2>7. /\ k \in S!CallState /\ k.pc = "pick" /\ k.seen = problem /\ k.set = v /\ k.scenario = 1
    BY <1>0, <1>t, <2>5, <2>6 DEF S!CallState, S!PC
  <2>8. ProblemAnalysis(k)
    <3>1. \A s \in S!Scenario : ~(s < 1)
      BY DEF S!Scenario
    <3> QED
      BY <2>3, <2>4, <2>7, <3>1 DEF ProblemAnalysis
  <2>9. ProblemSelection(k)
    BY <2>7 DEF ProblemSelection, ProblemGoes, Deciding
  <2>10. call' = [call EXCEPT ![c] = k]
    BY <1>1, <2>4, <2>5 DEF S!StartSimulate, S!Enter
  <2> QED
    BY <2>1, <2>7, <2>8, <2>9, <2>10, ProblemQuiet
<1>2. CASE S!PickScenario(c)
  <2>1. /\ call[c].pc = "pick" /\ call[c].scenario \in S!Scenario
        /\ UNCHANGED <<problem, S!setVars, S!requestVars, S!outcomeVars, truth>>
    BY <1>2 DEF S!PickScenario, S!At
  <2>2. /\ call[c].set \in S!Set
        /\ call[c].seen = problem => call[c].set = problem.set
        /\ \A s \in S!Scenario : s < call[c].scenario => <<call[c].set, s>> \in results
    BY <1>0, <2>1 DEF ProblemAnalysis
  <2>3. CASE <<call[c].set, call[c].scenario>> \in results
    <3>1. PICK n : n = call[c].scenario + 1
      OBVIOUS
    <3>2. n \in 0 .. Scenarios + 1 /\ n # 0
          /\ \A s \in S!Scenario : s < n => s < call[c].scenario \/ s = call[c].scenario
      BY <1>u, <2>1, <3>1 DEF S!Scenario
    <3>3. PICK k : k = [call[c] EXCEPT !.scenario = n]
      OBVIOUS
    <3>4. /\ k \in S!CallState /\ k.pc = "pick" /\ k.set = call[c].set /\ k.scenario = n
          /\ k.seen = call[c].seen
      BY <1>0, <2>1, <3>2, <3>3 DEF S!CallState
    <3>5. ProblemAnalysis(k)
      BY <2>2, <2>3, <3>2, <3>4 DEF ProblemAnalysis
    <3>6. ProblemSelection(k)
      BY <3>4 DEF ProblemSelection, ProblemGoes, Deciding
    <3>7. call' = [call EXCEPT ![c] = k]
      BY <1>0, <1>2, <2>3, <3>1, <3>3 DEF S!PickScenario
    <3> QED
      BY <2>1, <3>4, <3>5, <3>6, <3>7, ProblemQuiet
  <2>4. CASE <<call[c].set, call[c].scenario>> \notin results
    <3>1. PICK k \in S!CallState :
           /\ call' = [call EXCEPT ![c] = k]
           /\ k.pc = "run" /\ k.seen = call[c].seen
           /\ k.set = call[c].set /\ k.scenario = call[c].scenario
      BY <1>2, <2>4, ProblemGoTo DEF S!PickScenario, S!PC
    <3>2. ProblemAnalysis(k)
      BY <2>1, <2>2, <3>1 DEF ProblemAnalysis, S!Scenario
    <3>3. ProblemSelection(k)
      BY <3>1 DEF ProblemSelection, ProblemGoes, Deciding
    <3> QED
      BY <2>1, <3>1, <3>2, <3>3, ProblemQuiet
  <2> QED
    BY <2>3, <2>4
<1>3. CASE S!InsertResult(c)
  <2>1. PICK o : o = <<call[c].set, call[c].scenario>>
    OBVIOUS
  <2>2. /\ call[c].pc = "run" /\ o \notin results /\ results' = results \cup {o}
        /\ UNCHANGED <<problem, sets, runs, package, S!requestVars, S!outcomeVars, truth>>
    BY <1>3, <2>1 DEF S!InsertResult, S!At
  <2>3. /\ call[c].set \in S!Set /\ call[c].scenario \in S!Scenario /\ call[c].scenario # 0
        /\ call[c].seen = problem => call[c].set = problem.set
        /\ \A s \in S!Scenario : s < call[c].scenario => <<call[c].set, s>> \in results
    BY <1>0, <2>2 DEF ProblemAnalysis
  <2>4. PICK k \in S!CallState :
           /\ call' = [call EXCEPT ![c] = k]
           /\ k.pc = "count" /\ k.seen = call[c].seen
           /\ k.set = call[c].set /\ k.scenario = call[c].scenario
    BY <1>3, ProblemGoTo DEF S!InsertResult, S!PC
  <2>5. results' \subseteq S!Set \X S!Scenario
    BY <1>0, <2>1, <2>2, <2>3
  <2>6. ProblemCall(k)'
    <3>1. ProblemAnalysis(k)'
      BY <2>1, <2>2, <2>3, <2>4 DEF ProblemAnalysis
    <3>2. ProblemSelection(k)'
      BY <2>4 DEF ProblemSelection, ProblemGoes, Deciding
    <3>3. ProblemRead(k)'
      BY <1>0, <2>2, <2>4 DEF ProblemRead
    <3> QED
      BY <3>1, <3>2, <3>3 DEF ProblemCall
  <2>7. ProblemGrows
    BY <2>2 DEF ProblemGrows
  <2>8. ProblemRows'
    <3>1. \A v : Simulated(v) => Simulated(v)'
      BY <2>2 DEF Simulated
    <3>2. S!SelectionRestsOnPackage'
      BY <1>0, <2>2 DEF ProblemRows, S!SelectionRestsOnPackage
    <3>3. package = 0 /\ problem.status \in {"ANALYZING", "VALIDATING"} => Simulated(problem.set)
      BY <1>0 DEF ProblemRows
    <3>4. package' = 0 /\ problem'.status \in {"ANALYZING", "VALIDATING"} => Simulated(problem.set)'
      BY <2>2, <3>3 DEF Simulated
    <3> QED
      BY <1>0, <2>2, <3>2, <3>4 DEF ProblemRows
  <2>9. RunsAreCounted'
    <3>1. Cardinality(results') = Cardinality(results) + 1
      BY <1>u, <2>2, FS_AddElement
    <3>2. /\ Cardinality(Counting) \in Nat /\ Cardinality(Counting') \in Nat
          /\ Cardinality(Counting') <= Cardinality(Counting) + 1
      BY <2>4, CountingStep
    <3>3. runs' = runs /\ runs + Cardinality(Counting) <= Cardinality(results)
      BY <1>0, <2>2 DEF RunsAreCounted
    <3>4. runs + Cardinality(Counting') <= Cardinality(results) + 1
      BY <1>u, <3>2, <3>3
    <3> QED
      BY <3>1, <3>3, <3>4 DEF RunsAreCounted
  <2> QED
    BY <1>0, <2>2, <2>4, <2>5, <2>6, <2>7, <2>8, <2>9, ProblemSteps DEF S!TypeOK
<1>4. CASE S!CountRun(c)
  <2>1. /\ call[c].pc = "count" /\ runs' = runs + 1
        /\ UNCHANGED <<problem, sets, results, package, S!requestVars, S!outcomeVars, truth>>
    BY <1>4 DEF S!CountRun, S!At
  <2>2. /\ call[c].set \in S!Set /\ call[c].scenario \in S!Scenario
        /\ call[c].seen = problem => call[c].set = problem.set
        /\ \A s \in S!Scenario : s < call[c].scenario => <<call[c].set, s>> \in results
        /\ <<call[c].set, call[c].scenario>> \in results
    BY <1>0, <2>1 DEF ProblemAnalysis
  <2>3. PICK n : n = call[c].scenario + 1
    OBVIOUS
  <2>4. n \in 0 .. Scenarios + 1 /\ n # 0
        /\ \A s \in S!Scenario : s < n => s < call[c].scenario \/ s = call[c].scenario
    BY <1>u, <2>2, <2>3 DEF S!Scenario
  <2>5. PICK k : k = [call[c] EXCEPT !.pc = "pick", !.scenario = n]
    OBVIOUS
  <2>6. /\ k \in S!CallState /\ k.pc = "pick" /\ k.set = call[c].set /\ k.scenario = n
        /\ k.seen = call[c].seen
    BY <1>0, <2>4, <2>5 DEF S!CallState, S!PC
  <2>7. call' = [call EXCEPT ![c] = k]
    BY <1>0, <1>4, <2>3, <2>5 DEF S!CountRun
  <2>8. ProblemCall(k)'
    <3>1. ProblemAnalysis(k)'
      BY <2>1, <2>2, <2>4, <2>6 DEF ProblemAnalysis
    <3>2. ProblemSelection(k)'
      BY <2>6 DEF ProblemSelection, ProblemGoes, Deciding
    <3>3. ProblemRead(k)'
      BY <1>0, <2>1, <2>6 DEF ProblemRead
    <3> QED
      BY <3>1, <3>2, <3>3 DEF ProblemCall
  <2>9. ProblemGrows
    BY <2>1 DEF ProblemGrows
  <2>10. ProblemRows'
    BY <1>0, <2>1 DEF ProblemRows, S!SelectionRestsOnPackage, Simulated
  <2>11. /\ Cardinality(Counting) \in Nat /\ Cardinality(Counting') \in Nat
         /\ Cardinality(Counting') + 1 <= Cardinality(Counting)
    BY <2>1, <2>6, <2>7, CountingStep
  <2>12. runs + Cardinality(Counting) <= Cardinality(results)
    BY <1>0 DEF RunsAreCounted
  <2>13. /\ runs' + Cardinality(Counting') <= Cardinality(results)
         /\ runs' \in Nat /\ runs' <= Cardinality(results)
    BY <1>u, <2>1, <2>11, <2>12
  <2>14. RunsAreCounted'
    BY <2>1, <2>13 DEF RunsAreCounted
  <2>15. runs' \in 0 .. MaxPlans * Scenarios
    <3>1. Cardinality(results) <= MaxPlans * Scenarios
      BY <1>0, ResultsAreFinite
    <3>2. MaxPlans * Scenarios \in Nat
      BY DEF Bounds
    <3> QED
      BY <1>u, <2>13, <3>1, <3>2
  <2> QED
    BY <1>0, <2>1, <2>6, <2>7, <2>8, <2>9, <2>10, <2>14, <2>15, ProblemSteps DEF S!TypeOK
<1>5. CASE S!FinishSimulate(c)
  <2>1. /\ call[c].pc = "pick" /\ call[c].scenario > Scenarios
        /\ UNCHANGED <<S!setVars, S!requestVars, S!outcomeVars, truth>>
        /\ "ANALYZING" \in S!DecisionProblemState
    BY <1>5 DEF S!FinishSimulate, S!At, S!DecisionProblemState
  <2>2. call[c].seen = problem => ProblemLeads("ANALYZING")
    <3>1. \A s \in S!Scenario : <<call[c].set, s>> \in results
      BY <1>0, <1>u, <2>1 DEF ProblemAnalysis, S!Scenario
    <3>2. call[c].seen = problem => call[c].set = problem.set
      BY <1>0, <2>1 DEF ProblemAnalysis
    <3> QED
      BY <3>1, <3>2 DEF ProblemLeads, Simulated
  <2>3. CASE S!MoveAndReturn(c, S!Moved(call[c].seen, "ANALYZING"))
    BY <2>1, <2>2, <2>3, ProblemConcludes
  <2>4. CASE /\ call[c].seen.status = "ANALYZING" /\ problem.revision < (MaxWrites - 1)
             /\ problem' = IF problem.revision = call[c].seen.revision
                           THEN S!Moved(call[c].seen, "ANALYZING") ELSE problem
             /\ S!Return(c)
    BY <2>1, <2>2, <2>4, ProblemEnds
  <2> QED
    BY <1>5, <2>3, <2>4 DEF S!FinishSimulate
<1> QED
  BY <1>1, <1>2, <1>3, <1>4, <1>5

\* analyze and validatePackage: the package is of the set that is current when nobody
\* has moved the row, and its transition is refused when somebody has.
LEMMA ProblemPackaging ==
  ASSUME Bounds, ProblemInv, NEW c \in Call,
         \/ S!StartAnalyze(c) \/ S!FinishAnalyze(c) \/ S!StartValidate(c) \/ S!ComposePackage(c)
         \/ S!InsertPackage(c) \/ S!AwaitSelection(c)
  PROVE  ProblemInv'
<1> USE DEF S!setVars, S!requestVars, S!outcomeVars
<1>0. /\ S!TypeOK /\ ProblemRows
      /\ call \in [Call -> S!CallState] /\ call[c] \in S!CallState
      /\ problem \in S!Problem /\ package \in 0 .. MaxPlans
      /\ ProblemCall(call[c]) /\ ProblemRead(call[c])
      /\ ProblemAnalysis(call[c]) /\ ProblemSelection(call[c])
  BY DEF ProblemInv, S!TypeOK, ProblemCall
<1>t. S!Idle \in S!CallState /\ S!Idle.pc = "idle" /\ S!Idle.seen = S!NewProblem
  BY ProblemIdle DEF S!Idle
<1>l. /\ S!LatestSet \in 0 .. MaxPlans
      /\ problem.status \notin Ungenerated => S!LatestSet = problem.set /\ problem.set \in S!Set
  BY <1>0, LatestIsCurrent DEF ProblemRows
<1>1. CASE S!StartAnalyze(c)
  <2>1. PICK state : state = [S!Idle EXCEPT !.pc = "simulated"]
    OBVIOUS
  <2>2. PICK k : k = [S!Idle EXCEPT !.pc = "simulated", !.seen = problem]
    OBVIOUS
  <2>3. /\ state \in S!CallState /\ state.pc = "simulated"
        /\ k \in S!CallState /\ k.pc = "simulated" /\ k.seen = problem
    BY <1>0, <1>t, <2>1, <2>2 DEF S!CallState, S!PC
  <2>4. CASE problem.status = "VALIDATING" /\ S!MoveAndGoOn(c, "ANALYZING", state)
    <3>1. <<problem.status, "ANALYZING">> \in S!Transitions
      BY <2>4 DEF S!Transitions
    <3>2. ProblemLeads("ANALYZING")
      BY <1>0, <2>4 DEF ProblemLeads, ProblemRows
    <3> QED
      BY <1>1, <2>3, <2>4, <3>1, <3>2, ProblemGoesOn DEF S!StartAnalyze, S!DecisionProblemState
  <2>5. CASE call' = [call EXCEPT ![c] = k] /\ UNCHANGED problem
    <3>1. UNCHANGED <<problem, S!setVars, S!requestVars, S!outcomeVars, truth>>
      BY <1>1, <2>5 DEF S!StartAnalyze
    <3> QED
      BY <2>3, <2>5, <3>1, ProblemRests, ProblemQuiet
  <2> QED
    BY <1>1, <2>1, <2>2, <2>4, <2>5 DEF S!StartAnalyze, S!Enter
<1>2. CASE S!FinishAnalyze(c)
  <2>1. <<problem.status, "VALIDATING">> \in S!Transitions => ProblemLeads("VALIDATING")
    BY <1>0, ProblemTransitions DEF ProblemLeads, ProblemRows
  <2> QED
    BY <1>2, <2>1, ProblemConcludes DEF S!FinishAnalyze, S!DecisionProblemState
<1>3. CASE S!StartValidate(c)
  <2>1. PICK k : k = [S!Idle EXCEPT !.pc = "analyzed", !.seen = problem]
    OBVIOUS
  <2>2. k \in S!CallState /\ k.pc = "analyzed" /\ k.seen = problem
    BY <1>0, <1>t, <2>1 DEF S!CallState, S!PC
  <2>3. /\ problem.status = "VALIDATING" /\ call' = [call EXCEPT ![c] = k]
        /\ UNCHANGED <<problem, S!setVars, S!requestVars, S!outcomeVars, truth>>
    BY <1>3, <2>1 DEF S!StartValidate, S!Enter
  <2>4. ProblemAnalysis(k) /\ ProblemSelection(k)
    BY <2>2, <2>3 DEF ProblemAnalysis, ProblemSelection, ProblemGoes, Deciding
  <2> QED
    BY <2>2, <2>3, <2>4, ProblemQuiet
<1>4. CASE S!ComposePackage(c)
  <2>1. /\ call[c].pc = "analyzed" /\ S!LatestSet # 0 /\ call[c].seen.status = "VALIDATING"
        /\ UNCHANGED <<S!setVars, S!requestVars, S!outcomeVars, truth>>
    BY <1>0, <1>4 DEF S!ComposePackage, S!At, ProblemAnalysis
  <2>2. package = 0 /\ call[c].seen = problem => S!LatestSet = problem.set /\ Simulated(problem.set)
    BY <1>0, <1>l, <2>1 DEF ProblemRows, Ungenerated
  <2>3. CASE S!MoveAndReturn(c, S!Moved(call[c].seen, "ANALYZING"))
    <3>1. call[c].seen = problem => ProblemLeads("ANALYZING")
      BY <2>2 DEF ProblemLeads
    <3> QED
      BY <2>1, <2>3, <3>1, ProblemConcludes DEF S!DecisionProblemState
  <2>4. CASE /\ call' = [call EXCEPT ![c].pc = "package", ![c].set = S!LatestSet]
             /\ UNCHANGED problem
    <3>1. PICK v : v = S!LatestSet
      OBVIOUS
    <3>2. PICK k : k = [call[c] EXCEPT !.pc = "package", !.set = v]
      OBVIOUS
    <3>3. v \in 0 .. MaxPlans /\ v \in S!Set
      BY <1>l, <2>1, <3>1 DEF S!Set, Bounds
    <3>4. k \in S!CallState /\ k.pc = "package" /\ k.set = v /\ k.seen = call[c].seen
      BY <1>0, <3>2, <3>3 DEF S!CallState, S!PC
    <3>5. call' = [call EXCEPT ![c] = k]
      BY <1>0, <2>4, <3>1, <3>2
    <3>6. ProblemAnalysis(k)
      BY <2>2, <3>1, <3>3, <3>4 DEF ProblemAnalysis
    <3>7. ProblemSelection(k)
      BY <3>4 DEF ProblemSelection, ProblemGoes, Deciding
    <3>8. UNCHANGED <<problem, S!setVars, S!requestVars, S!outcomeVars, truth>>
      BY <2>1, <2>4
    <3> QED
      BY <3>4, <3>5, <3>6, <3>7, <3>8, ProblemQuiet
  <2> QED
    BY <1>4, <2>3, <2>4 DEF S!ComposePackage
<1>5. CASE S!InsertPackage(c)
  <2>1. /\ call[c].pc = "package" /\ package = 0 /\ package' = call[c].set
        /\ UNCHANGED <<problem, sets, results, runs, S!requestVars, S!outcomeVars, truth>>
    BY <1>5 DEF S!InsertPackage, S!At
  <2>2. /\ call[c].set \in S!Set
        /\ call[c].seen = problem => call[c].set = problem.set /\ Simulated(call[c].set)
    BY <1>0, <2>1 DEF ProblemAnalysis
  <2>3. package' \in 0 .. MaxPlans /\ package' # 0
    BY <2>1, <2>2 DEF S!Set, Bounds
  <2>4. PICK k \in S!CallState :
           /\ call' = [call EXCEPT ![c] = k]
           /\ k.pc = "await" /\ k.seen = call[c].seen /\ k.set = call[c].set
    BY <1>5, ProblemGoTo DEF S!InsertPackage, S!PC
  <2>5. ProblemCall(k)'
    <3>1. ProblemAnalysis(k)'
      <4>1. k.seen = problem => package' = problem.set /\ Simulated(package)'
        BY <2>1, <2>2, <2>4 DEF Simulated
      <4> QED
        BY <2>1, <2>2, <2>3, <2>4, <4>1 DEF ProblemAnalysis
    <3>2. ProblemSelection(k)'
      BY <2>4 DEF ProblemSelection, ProblemGoes, Deciding
    <3>3. ProblemRead(k)'
      BY <1>0, <2>1, <2>4 DEF ProblemRead
    <3> QED
      BY <3>1, <3>2, <3>3 DEF ProblemCall
  <2>6. ProblemGrows
    BY <2>1 DEF ProblemGrows
  <2>7. \A v \in S!Set : v # 0
    BY DEF S!Set
  <2>8. problem.status \notin Chosen
    <3> SUFFICES ASSUME problem.status \in Chosen PROVE FALSE
      OBVIOUS
    <3>1. problem.status \notin Ungenerated
      BY DEF Chosen, Ungenerated
    <3>2. problem.set \in S!Set /\ package = problem.set
      BY <1>0, <3>1 DEF ProblemRows, S!SelectionRestsOnPackage, Chosen
    <3> QED
      BY <2>1, <2>7, <3>2
  <2>9. record = 0 /\ \A v \in S!Set : request[v].status = "NONE"
    BY <1>0, <2>1, <2>7 DEF ProblemRows
  <2>10. S!SelectionRestsOnPackage'
    <3>1. \A v \in lineage : \E p \in proposed : p[1] = v
      BY <1>0 DEF ProblemRows, S!SelectionRestsOnPackage
    <3> QED
      BY <2>1, <2>8, <3>1 DEF S!SelectionRestsOnPackage, Chosen
  <2>11. ProblemRows'
    BY <1>0, <2>1, <2>3, <2>9, <2>10 DEF ProblemRows
  <2>12. RunsAreCounted'
    BY <2>1, <2>4, ProblemRuns
  <2> QED
    BY <1>0, <2>1, <2>3, <2>4, <2>5, <2>6, <2>11, <2>12, ProblemSteps DEF S!TypeOK
<1>6. CASE S!AwaitSelection(c)
  <2>1. call[c].seen = problem => ProblemLeads("AWAITING_SELECTION")
    BY <1>0, <1>6 DEF S!AwaitSelection, S!At, ProblemAnalysis, ProblemLeads
  <2> QED
    BY <1>6, <2>1, ProblemConcludes DEF S!AwaitSelection, S!DecisionProblemState
<1> QED
  BY <1>1, <1>2, <1>3, <1>4, <1>5, <1>6

\* routeSelection and decideSelection: whatever is routed or decided is about the one
\* package there is, and a record follows the choice.
LEMMA ProblemSelecting ==
  ASSUME Bounds, ProblemInv, NEW c \in Call, S!SelectionStep(c)
  PROVE  ProblemInv'
<1> USE DEF S!setVars, S!requestVars, S!outcomeVars
<1>0. /\ call \in [Call -> S!CallState] /\ call[c] \in S!CallState
      /\ problem \in S!Problem /\ package \in 0 .. MaxPlans
      /\ request \in [S!Set -> S!Request(MaxIssues)] /\ record \in 0 .. MaxPlans
      /\ issued \in 0 .. MaxIssues /\ store \in [Call -> [S!Set -> 0 .. MaxIssues]]
      /\ known \subseteq 1 .. MaxIssues /\ selected \subseteq S!Set
      /\ ProblemAnalysis(call[c]) /\ ProblemSelection(call[c])
      /\ \A v \in S!Set : request[v].status # "NONE" => v = package
      /\ \A v \in S!Set : request[v].status = "PENDING" => request[v].revision = 1
  BY DEF ProblemInv, S!TypeOK, ProblemCall, ProblemRows
<1>s. /\ \A v \in S!Set : v # 0
      /\ package # 0 => package \in S!Set
  BY <1>0 DEF S!Set, Bounds
<1>t. /\ S!Idle \in S!CallState /\ S!Idle.pc = "idle" /\ S!Idle.seen = S!NewProblem
      /\ ProblemAnalysis(S!Idle)' /\ ProblemSelection(S!Idle)'
  <2>1. S!Idle \in S!CallState /\ S!Idle.pc = "idle" /\ S!Idle.seen = S!NewProblem
    BY ProblemIdle DEF S!Idle
  <2> QED
    BY <2>1, ProblemRests
<1>1. CASE S!CheckTruth(c)
  <2>1. PICK pc : pc = IF call[c].seen.truth # truth THEN "stale" ELSE call[c].next
    OBVIOUS
  <2>2. /\ call[c].pc = "truth" /\ call[c].next \in {"save", "settle", "selection"}
        /\ UNCHANGED <<problem, S!setVars, S!requestVars, S!outcomeVars, truth>>
    BY <1>0, <1>1 DEF S!CheckTruth, S!At, ProblemAnalysis
  <2>3. pc \in S!PC /\ S!GoTo(c, pc) /\ pc \in {"stale", call[c].next}
    BY <1>1, <2>1, <2>2 DEF S!CheckTruth, S!PC
  <2>4. PICK k \in S!CallState :
           /\ call' = [call EXCEPT ![c] = k]
           /\ k.pc = pc /\ k.next = call[c].next /\ k.seen = call[c].seen
           /\ k.set = call[c].set /\ k.record = call[c].record
           /\ k.request = call[c].request /\ k.decision = call[c].decision
    BY <2>3, ProblemGoTo
  <2>5. ProblemGoes(k) = pc /\ ProblemGoes(call[c]) = call[c].next
    BY <2>2, <2>3, <2>4 DEF ProblemGoes
  <2>6. ProblemAnalysis(k)
    BY <2>2, <2>3, <2>4 DEF ProblemAnalysis
  <2>7. ProblemSelection(k)
    BY <1>0, <2>2, <2>3, <2>4, <2>5 DEF ProblemSelection, Deciding
  <2>8. k.pc # "count"
    BY <2>2, <2>3, <2>4
  <2> QED
    BY <2>2, <2>4, <2>6, <2>7, <2>8, ProblemQuiet
<1>2. CASE S!MarkStale(c)
  <2>1. CASE <<problem.status, "STALE">> \in S!Transitions
    <3>1. ProblemLeads("STALE")
      BY DEF ProblemLeads
    <3> QED
      BY <1>2, <1>t, <2>1, <3>1, ProblemGoesOn DEF S!MarkStale, S!DecisionProblemState
  <2>2. CASE <<problem.status, "STALE">> \notin S!Transitions
    <3>1. /\ call' = [call EXCEPT ![c] = S!Idle]
          /\ UNCHANGED <<problem, S!setVars, S!requestVars, S!outcomeVars, truth>>
      BY <1>2, <2>2 DEF S!MarkStale, S!Return
    <3> QED
      BY <1>t, <3>1, ProblemRests, ProblemQuiet
  <2> QED
    BY <2>1, <2>2
<1>3. CASE S!StartRoute(c)
  <2>1. PICK k : k = [S!Idle EXCEPT !.pc = "truth", !.next = "save", !.seen = problem]
    OBVIOUS
  <2>2. k \in S!CallState /\ k.pc = "truth" /\ k.next = "save" /\ k.seen = problem
    BY <1>0, <1>t, <2>1 DEF S!CallState, S!PC
  <2>3. ProblemAnalysis(k) /\ ProblemSelection(k)
    BY <2>2 DEF ProblemAnalysis, ProblemSelection, ProblemGoes, Deciding
  <2>4. /\ call' = [call EXCEPT ![c] = k]
        /\ UNCHANGED <<problem, S!setVars, S!requestVars, S!outcomeVars, truth>>
    BY <1>3, <2>1 DEF S!StartRoute, S!Enter
  <2> QED
    BY <2>2, <2>3, <2>4, ProblemQuiet
<1>4. CASE S!SaveRequest(c)
  <2>1. package # 0 /\ package \in S!Set
    BY <1>4, <1>s DEF S!SaveRequest
  <2>2. issued' \in 0 .. MaxIssues /\ issued' # 0
    BY <1>0, <1>4 DEF S!SaveRequest, Bounds
  <2>3. PICK r : r = S!Fresh(issued')
    OBVIOUS
  <2>4. r \in S!Request(MaxIssues) /\ r.issue = issued' /\ r.revision = 1
    BY <2>2, <2>3 DEF S!Fresh, S!Request
  <2>5. request' = [request EXCEPT ![package] = r]
    BY <1>4, <2>3 DEF S!SaveRequest
  <2>6. request' \in [S!Set -> S!Request(MaxIssues)]
    BY <1>0, <2>1, <2>4, <2>5
  <2>7. /\ \A v \in S!Set : request'[v].status = "PENDING" => request'[v].revision = 1
        /\ \A v \in S!Set : request'[v].status # "NONE" => v = package
    BY <1>0, <2>4, <2>5
  <2>8. PICK k : k = [call[c] EXCEPT !.pc = "put", !.set = package, !.request = r]
    OBVIOUS
  <2>9. /\ k \in S!CallState /\ k.pc = "put" /\ k.set = package
        /\ k.request = r /\ k.seen = call[c].seen
    BY <1>0, <2>4, <2>8 DEF S!CallState, S!PC
  <2>10. call' = [call EXCEPT ![c] = k]
    <3>1. call' = [call EXCEPT ![c].pc = "put", ![c].set = package, ![c].request = r]
      BY <1>4, <2>3 DEF S!SaveRequest
    <3> QED
      BY <1>0, <2>8, <3>1
  <2>11. UNCHANGED <<problem, S!setVars, record, store, known, selected, S!outcomeVars, truth>>
    BY <1>4 DEF S!SaveRequest
  <2>12. ProblemAnalysis(k)' /\ ProblemSelection(k)'
    BY <2>1, <2>2, <2>4, <2>9, <2>11 DEF ProblemAnalysis, ProblemSelection, ProblemGoes, Deciding
  <2> QED
    BY <1>0, <2>2, <2>6, <2>7, <2>9, <2>10, <2>11, <2>12, ProblemDecides
<1>5. CASE S!PutNonce(c)
  <2>1. call[c].pc = "put" /\ ProblemGoes(call[c]) = "put"
    BY <1>5 DEF S!PutNonce, S!At, ProblemGoes
  <2>2. call[c].set \in S!Set /\ call[c].request.issue \in 1 .. MaxIssues
    <3>1. call[c].set = package /\ package # 0 /\ call[c].request.issue # 0
      BY <1>0, <2>1 DEF ProblemSelection, Deciding
    <3>2. call[c].request.issue \in 0 .. MaxIssues
      BY <1>0 DEF S!CallState, S!Request
    <3> QED
      BY <1>s, <3>1, <3>2 DEF Bounds
  <2>3. known' \subseteq 1 .. MaxIssues
    BY <1>0, <1>5, <2>2 DEF S!PutNonce
  <2>4. store' \in [Call -> [S!Set -> 0 .. MaxIssues]]
    <3>1. PICK n \in 0 .. MaxIssues : n = call[c].request.issue
      BY <2>2 DEF Bounds
    <3>2. PICK v \in S!Set : v = call[c].set
      BY <2>2
    <3>3. store' = [store EXCEPT ![c] = [store[c] EXCEPT ![v] = n]]
      BY <1>0, <1>5, <3>1, <3>2 DEF S!PutNonce
    <3>4. [store[c] EXCEPT ![v] = n] \in [S!Set -> 0 .. MaxIssues]
      BY <1>0
    <3> QED
      BY <1>0, <3>3, <3>4
  <2>5. /\ call' = [call EXCEPT ![c] = S!Idle]
        /\ UNCHANGED <<problem, S!setVars, request, record, issued, selected, S!outcomeVars, truth>>
    BY <1>5 DEF S!PutNonce, S!Return
  <2> QED
    BY <1>0, <1>t, <2>3, <2>4, <2>5, ProblemDecides
<1>6. CASE S!StartDecide(c)
  <2>1. PICK v \in S!PendingIn(request),
             d \in {"NONE", "SELECT_SCENARIO", "REQUEST_REVISION", "REJECT_ALL"} :
          S!Enter(c, [S!Idle EXCEPT !.pc = IF d = "NONE" THEN "expire" ELSE "selector",
                                    !.set = v, !.request = request[v], !.decision = d])
    BY <1>6 DEF S!StartDecide
  <2>2. v \in S!Set /\ v = package /\ request[v].revision = 1 /\ request[v] \in S!Request(MaxIssues)
    BY <1>0, <2>1 DEF S!PendingIn
  <2>3. PICK pc : pc = IF d = "NONE" THEN "expire" ELSE "selector"
    OBVIOUS
  <2>4. PICK r : r = request[v]
    OBVIOUS
  <2>5. PICK k : k = [S!Idle EXCEPT !.pc = pc, !.set = v, !.request = r, !.decision = d]
    OBVIOUS
  <2>6. pc \in S!PC /\ v \in 0 .. MaxPlans /\ r \in S!Request(MaxIssues)
    BY <2>2, <2>3, <2>4 DEF S!PC, S!Set, Bounds
  <2>7. /\ k \in S!CallState /\ k.pc = pc /\ k.set = v /\ k.request = r /\ k.decision = d
        /\ k.seen = S!NewProblem
    BY <1>t, <2>5, <2>6 DEF S!CallState
  <2>8. ProblemAnalysis(k)
    BY <2>3, <2>7 DEF ProblemAnalysis
  <2>9. ProblemSelection(k)
    BY <1>s, <2>2, <2>3, <2>4, <2>7 DEF ProblemSelection, ProblemGoes, Deciding
  <2>10. call' = [call EXCEPT ![c] = k]
    BY <2>1, <2>3, <2>4, <2>5 DEF S!Enter
  <2>11. /\ UNCHANGED <<problem, S!setVars, S!requestVars, S!outcomeVars, truth>>
         /\ k.pc # "count"
    BY <1>6, <2>3, <2>7 DEF S!StartDecide
  <2> QED
    BY <2>7, <2>8, <2>9, <2>10, <2>11, ProblemQuiet
<1>7. CASE S!ExpireRequest(c)
  <2>1. call[c].request.revision = 1 /\ call[c].set = package /\ package # 0
    BY <1>0, <1>7 DEF S!ExpireRequest, S!At, ProblemSelection, ProblemGoes, Deciding
  <2>2. /\ request' \in [S!Set -> S!Request(MaxIssues)]
        /\ \A v \in S!Set : request'[v].status # "NONE" => v = package
        /\ \A v \in S!Set : request'[v].status = "PENDING" => request'[v].revision = 1
    BY <1>7, <1>s, <2>1, ProblemSettles DEF S!ExpireRequest
  <2>3. /\ call' = [call EXCEPT ![c] = S!Idle]
        /\ UNCHANGED <<problem, S!setVars, record, issued, store, known, selected, S!outcomeVars,
                       truth>>
    BY <1>7 DEF S!ExpireRequest, S!Return
  <2> QED
    BY <1>0, <1>t, <2>2, <2>3, ProblemDecides
<1>8. CASE S!CheckSelector(c)
  <2>1. PICK k : k = [call[c] EXCEPT !.pc = "truth", !.next = "settle", !.seen = problem]
    OBVIOUS
  <2>2. /\ k \in S!CallState /\ k.pc = "truth" /\ k.next = "settle" /\ k.seen = problem
        /\ k.set = call[c].set /\ k.request = call[c].request /\ k.decision = call[c].decision
    BY <1>0, <2>1 DEF S!CallState, S!PC
  <2>3. call[c].pc = "selector" /\ ProblemGoes(call[c]) = "selector"
    BY <1>8 DEF S!CheckSelector, S!At, ProblemGoes
  <2>4. ProblemAnalysis(k) /\ ProblemSelection(k)
    BY <1>0, <2>2, <2>3 DEF ProblemAnalysis, ProblemSelection, ProblemGoes, Deciding
  <2>5. /\ call' = [call EXCEPT ![c] = k]
        /\ UNCHANGED <<problem, S!setVars, S!requestVars, S!outcomeVars, truth>>
    BY <1>0, <1>8, <2>1 DEF S!CheckSelector
  <2> QED
    BY <2>2, <2>4, <2>5, ProblemQuiet
<1>9. CASE S!SettleRequest(c)
  <2>0. call[c].pc = "settle" /\ ProblemGoes(call[c]) = "settle"
    BY <1>9 DEF S!SettleRequest, S!At, ProblemGoes
  <2>1. /\ call[c].request.revision = 1 /\ call[c].set = package /\ package # 0
        /\ call[c].set \in S!Set /\ call[c].decision # "NONE"
    BY <1>0, <1>s, <2>0 DEF ProblemSelection, Deciding
  <2>2. /\ request' \in [S!Set -> S!Request(MaxIssues)]
        /\ \A v \in S!Set : request'[v].status # "NONE" => v = package
        /\ \A v \in S!Set : request'[v].status = "PENDING" => request'[v].revision = 1
    BY <1>9, <2>1, ProblemSettles DEF S!SettleRequest
  <2>3. PICK pc : pc = IF call[c].decision = "SELECT_SCENARIO" THEN "record" ELSE "move"
    OBVIOUS
  <2>4. pc \in S!PC /\ S!GoTo(c, pc) /\ pc # "count"
    BY <1>9, <2>3 DEF S!SettleRequest, S!PC
  <2>5. PICK k \in S!CallState :
           /\ call' = [call EXCEPT ![c] = k]
           /\ k.pc = pc /\ k.seen = call[c].seen /\ k.set = call[c].set
           /\ k.decision = call[c].decision
    BY <2>4, ProblemGoTo
  <2>6. selected' = IF call[c].decision = "SELECT_SCENARIO"
                    THEN selected \cup {call[c].set} ELSE selected
    BY <1>9 DEF S!SettleRequest
  <2>7. ProblemGoes(k) = pc
    BY <2>3, <2>5 DEF ProblemGoes
  <2>8. UNCHANGED <<problem, S!setVars, record, issued, store, known, S!outcomeVars, truth>>
    BY <1>9 DEF S!SettleRequest
  <2>9. ProblemAnalysis(k)'
    BY <2>3, <2>5 DEF ProblemAnalysis
  <2>10. ProblemSelection(k)'
    BY <2>1, <2>3, <2>5, <2>6, <2>8 DEF ProblemSelection, ProblemGoes, Deciding
  <2>11. selected' \subseteq S!Set /\ selected \subseteq selected'
    BY <1>0, <2>1, <2>6
  <2> QED
    BY <1>0, <2>2, <2>4, <2>5, <2>8, <2>9, <2>10, <2>11, ProblemDecides
<1>10. CASE S!SaveRecord(c)
  <2>0. call[c].pc = "record" /\ ProblemGoes(call[c]) = "record"
    BY <1>10 DEF S!SaveRecord, S!At, ProblemGoes
  <2>1. /\ call[c].set = package /\ package # 0 /\ call[c].set \in selected
        /\ call[c].decision # "NONE"
    BY <1>0, <2>0 DEF ProblemSelection, Deciding
  <2>2. PICK k \in S!CallState :
           /\ call' = [call EXCEPT ![c] = k]
           /\ k.pc = "move" /\ k.seen = call[c].seen /\ k.set = call[c].set
           /\ k.decision = call[c].decision
    BY <1>10, ProblemGoTo DEF S!SaveRecord, S!PC
  <2>3. /\ record' = package
        /\ UNCHANGED <<problem, S!setVars, request, issued, store, known, selected, S!outcomeVars,
                       truth>>
    BY <1>10, <2>1 DEF S!SaveRecord
  <2>4. ProblemAnalysis(k)' /\ ProblemSelection(k)'
    BY <2>1, <2>2, <2>3 DEF ProblemAnalysis, ProblemSelection, ProblemGoes, Deciding
  <2> QED
    BY <1>0, <2>1, <2>2, <2>3, <2>4, ProblemDecides
<1>11. CASE S!MoveAsDecided(c)
  <2>0. call[c].pc = "move" /\ ProblemGoes(call[c]) = "move"
    BY <1>11 DEF S!MoveAsDecided, S!At, ProblemGoes
  <2>1. /\ call[c].decision \in {"SELECT_SCENARIO", "REQUEST_REVISION", "REJECT_ALL"}
        /\ package # 0
        /\ call[c].decision = "SELECT_SCENARIO" => record = package
    BY <1>0, <2>0 DEF ProblemSelection, S!CallState, Deciding
  <2>2. PICK status : status = S!Decided[call[c].decision]
    OBVIOUS
  <2>3. /\ status \in {"SELECTED", "ANALYZING", "CANCELLED"}
        /\ status = "SELECTED" => record = package
    BY <2>1, <2>2 DEF S!Decided
  <2>4. S!MoveAndReturn(c, S!Moved(call[c].seen, status))
    BY <1>11, <2>2 DEF S!MoveAsDecided
  <2>5. ProblemLeads(status) /\ status \in S!DecisionProblemState
    BY <2>1, <2>3 DEF ProblemLeads, S!DecisionProblemState
  <2> QED
    BY <1>11, <2>4, <2>5, ProblemConcludes DEF S!MoveAsDecided
<1> QED
  BY <1>1, <1>2, <1>3, <1>4, <1>5, <1>6, <1>7, <1>8, <1>9, <1>10, <1>11 DEF S!SelectionStep

\* materializePortfolioProposal: a lineage is saved of a record whose portfolio was
\* proposed, and the last transition needs one.
LEMMA ProblemMaterialization ==
  ASSUME Bounds, ProblemInv, NEW c \in Call, S!MaterializationStep(c)
  PROVE  ProblemInv'
<1> USE DEF S!setVars, S!requestVars, S!outcomeVars
<1>0. /\ S!TypeOK /\ ProblemRows /\ RunsAreCounted
      /\ call \in [Call -> S!CallState] /\ call[c] \in S!CallState
      /\ problem \in S!Problem /\ package \in 0 .. MaxPlans /\ record \in 0 .. MaxPlans
      /\ lineage \subseteq S!Set /\ proposed \subseteq S!Set \X S!Set /\ selected \subseteq S!Set
      /\ ProblemRead(call[c]) /\ ProblemAnalysis(call[c]) /\ ProblemSelection(call[c])
  BY DEF ProblemInv, S!TypeOK, ProblemCall
<1>s. /\ \A v \in S!Set : v # 0
      /\ package # 0 => package \in S!Set
  BY <1>0 DEF S!Set, Bounds
<1>t. /\ S!Idle \in S!CallState /\ S!Idle.pc = "idle" /\ S!Idle.seen = S!NewProblem
  BY ProblemIdle DEF S!Idle
<1>1. CASE S!StartMaterialize(c)
  <2>1. PICK k : k = [S!Idle EXCEPT !.pc = "truth", !.next = "selection", !.seen = problem]
    OBVIOUS
  <2>2. k \in S!CallState /\ k.pc = "truth" /\ k.next = "selection" /\ k.seen = problem
    BY <1>0, <1>t, <2>1 DEF S!CallState, S!PC
  <2>3. /\ problem.status = "SELECTED" /\ call' = [call EXCEPT ![c] = k]
        /\ UNCHANGED <<problem, S!setVars, S!requestVars, S!outcomeVars, truth>>
    BY <1>1, <2>1 DEF S!StartMaterialize, S!Enter
  <2>4. package # 0 /\ problem.set # 0
    BY <1>0, <1>s, <2>3 DEF ProblemRows, S!SelectionRestsOnPackage, Ungenerated
  <2>5. ProblemAnalysis(k)
    BY <2>2 DEF ProblemAnalysis
  <2>6. ProblemSelection(k)
    BY <2>2, <2>4 DEF ProblemSelection, ProblemGoes, Deciding
  <2> QED
    BY <2>2, <2>3, <2>5, <2>6, ProblemQuiet
<1>2. CASE S!ReadSelection(c)
  <2>0. /\ call[c].pc = "selection" /\ ProblemGoes(call[c]) = "selection" /\ record # 0
        /\ UNCHANGED <<problem, S!setVars, S!requestVars, S!outcomeVars, truth>>
    BY <1>2 DEF S!ReadSelection, S!At, ProblemGoes
  <2>1. PICK pc : pc = IF record \in lineage THEN "materialized" ELSE "admit"
    OBVIOUS
  <2>2. PICK v : v = S!LatestSet
    OBVIOUS
  <2>3. problem.set # 0 /\ package # 0
    BY <1>0, <2>0 DEF ProblemSelection, Deciding
  <2>4. v \in S!Set /\ v \in 0 .. MaxPlans
    BY <1>0, <2>2, <2>3, LatestIsCurrent
  <2>5. record = package /\ record \in selected
    BY <1>0, <2>0 DEF ProblemRows
  <2>6. PICK k : k = [call[c] EXCEPT !.pc = pc, !.record = record, !.set = v]
    OBVIOUS
  <2>7. /\ k \in S!CallState /\ k.pc = pc /\ k.record = record /\ k.set = v
        /\ k.seen = call[c].seen
    BY <1>0, <2>1, <2>4, <2>6 DEF S!CallState, S!PC
  <2>8. call' = [call EXCEPT ![c] = k]
    BY <1>0, <1>2, <2>1, <2>2, <2>6 DEF S!ReadSelection
  <2>9. ProblemAnalysis(k)
    BY <2>1, <2>7 DEF ProblemAnalysis
  <2>10. ProblemSelection(k)
    BY <2>1, <2>3, <2>4, <2>5, <2>7 DEF ProblemSelection, ProblemGoes, Deciding
  <2>11. k.pc # "count"
    BY <2>1, <2>7
  <2> QED
    BY <2>0, <2>7, <2>8, <2>9, <2>10, <2>11, ProblemQuiet
<1>3. CASE S!AdmitPortfolio(c)
  <2>0. /\ call[c].pc = "admit" /\ ProblemGoes(call[c]) = "admit"
        /\ proposed' = proposed \cup {<<call[c].record, call[c].set>>}
        /\ UNCHANGED <<problem, S!setVars, S!requestVars, lineage, truth>>
    BY <1>3 DEF S!AdmitPortfolio, S!At, ProblemGoes
  <2>1. /\ call[c].record = package /\ call[c].record \in selected /\ record = package
        /\ call[c].set \in S!Set /\ package # 0
    BY <1>0, <2>0 DEF ProblemSelection, Deciding
  <2>2. PICK k \in S!CallState :
           /\ call' = [call EXCEPT ![c] = k]
           /\ k.pc = "link" /\ k.seen = call[c].seen /\ k.set = call[c].set
           /\ k.record = call[c].record
    BY <1>3, ProblemGoTo DEF S!AdmitPortfolio, S!PC
  <2>3. <<call[c].record, call[c].set>> \in S!Set \X S!Set
    BY <1>0, <2>1
  <2>4. proposed' \subseteq S!Set \X S!Set /\ <<k.record, k.set>> \in proposed'
    BY <1>0, <2>0, <2>2, <2>3
  <2>5. ProblemCall(k)'
    <3>1. ProblemAnalysis(k)'
      BY <2>2 DEF ProblemAnalysis
    <3>2. ProblemSelection(k)'
      BY <2>0, <2>1, <2>2, <2>4 DEF ProblemSelection, ProblemGoes, Deciding
    <3>3. ProblemRead(k)'
      BY <1>0, <2>0, <2>2 DEF ProblemRead
    <3> QED
      BY <3>1, <3>2, <3>3 DEF ProblemCall
  <2>6. ProblemGrows
    BY <2>0 DEF ProblemGrows
  <2>7. S!SelectionRestsOnPackage'
    <3>1. \A v \in lineage : \E p \in proposed' : p[1] = v
      BY <1>0, <2>0 DEF ProblemRows, S!SelectionRestsOnPackage
    <3> QED
      BY <1>0, <2>0, <3>1 DEF ProblemRows, S!SelectionRestsOnPackage
  <2>8. ProblemRows'
    BY <1>0, <2>0, <2>7 DEF ProblemRows, Simulated
  <2>9. RunsAreCounted'
    BY <2>0, <2>2, ProblemRuns
  <2> QED
    BY <1>0, <2>0, <2>2, <2>4, <2>5, <2>6, <2>8, <2>9, ProblemSteps DEF S!TypeOK
<1>4. CASE S!SaveLineage(c)
  <2>0. /\ call[c].pc = "link" /\ ProblemGoes(call[c]) = "link"
        /\ lineage' = lineage \cup {call[c].record}
        /\ UNCHANGED <<problem, S!setVars, S!requestVars, proposed, truth>>
    BY <1>4 DEF S!SaveLineage, S!At, ProblemGoes
  <2>1. /\ call[c].record = package /\ call[c].record \in selected /\ record = package
        /\ <<call[c].record, call[c].set>> \in proposed /\ package # 0
    BY <1>0, <2>0 DEF ProblemSelection, Deciding
  <2>2. PICK k \in S!CallState :
           /\ call' = [call EXCEPT ![c] = k]
           /\ k.pc = "materialized" /\ k.seen = call[c].seen /\ k.set = call[c].set
           /\ k.record = call[c].record
    BY <1>4, ProblemGoTo DEF S!SaveLineage, S!PC
  <2>3. lineage' \subseteq S!Set
    BY <1>0, <2>0, <2>1
  <2>4. ProblemCall(k)'
    <3>1. ProblemAnalysis(k)'
      BY <2>2 DEF ProblemAnalysis
    <3>2. ProblemSelection(k)'
      BY <2>0, <2>1, <2>2 DEF ProblemSelection, ProblemGoes, Deciding
    <3>3. ProblemRead(k)'
      BY <1>0, <2>0, <2>2 DEF ProblemRead
    <3> QED
      BY <3>1, <3>2, <3>3 DEF ProblemCall
  <2>5. ProblemGrows
    BY <2>0 DEF ProblemGrows
  <2>6. S!SelectionRestsOnPackage'
    <3>1. \A v \in lineage' : \E p \in proposed : p[1] = v
      <4>1. \A v \in lineage : \E p \in proposed : p[1] = v
        BY <1>0 DEF ProblemRows, S!SelectionRestsOnPackage
      <4>2. <<call[c].record, call[c].set>>[1] = call[c].record
        OBVIOUS
      <4> QED
        BY <2>0, <2>1, <4>1, <4>2
    <3> QED
      BY <1>0, <2>0, <3>1 DEF ProblemRows, S!SelectionRestsOnPackage
  <2>7. ProblemRows'
    BY <1>0, <2>0, <2>6 DEF ProblemRows, Simulated
  <2>8. RunsAreCounted'
    BY <2>0, <2>2, ProblemRuns
  <2> QED
    BY <1>0, <2>0, <2>2, <2>3, <2>4, <2>5, <2>7, <2>8, ProblemSteps DEF S!TypeOK
<1>5. CASE S!FinishMaterialize(c)
  <2>1. record \in lineage
    BY <1>0, <1>5 DEF S!FinishMaterialize, S!At, ProblemSelection
  <2>2. ProblemLeads("MATERIALIZED_AS_PROPOSAL")
    BY <2>1 DEF ProblemLeads
  <2> QED
    BY <1>5, <2>2, ProblemConcludes DEF S!FinishMaterialize, S!DecisionProblemState
<1> QED
  BY <1>1, <1>2, <1>3, <1>4, <1>5 DEF S!MaterializationStep

\* A call that throws or dies leaves what it has written, its nonces excepted.
LEMMA ProblemAbort ==
  ASSUME Bounds, ProblemInv, NEW c \in Call, S!Abort(c)
  PROVE  ProblemInv'
<1> USE DEF S!setVars, S!requestVars, S!outcomeVars
<1>1. S!Idle \in S!CallState /\ S!Idle.pc = "idle" /\ S!Idle.seen = S!NewProblem
  BY ProblemIdle DEF S!Idle
<1>2. /\ call' = [call EXCEPT ![c] = S!Idle]
      /\ UNCHANGED <<problem, S!setVars, request, record, issued, known, selected, S!outcomeVars,
                     truth>>
  BY DEF S!Abort, S!Return
<1>3. store' \in [Call -> [S!Set -> 0 .. MaxIssues]]
  <2>1. store \in [Call -> [S!Set -> 0 .. MaxIssues]] /\ 0 \in 0 .. MaxIssues
    BY DEF ProblemInv, S!TypeOK, Bounds
  <2> QED
    BY <2>1 DEF S!Abort
<1>4. ProblemCall(S!Idle)'
  BY <1>1, <1>2, ProblemReads, ProblemRests DEF ProblemCall, ProblemRead
<1>5. problem' \in S!Problem
  BY <1>2 DEF ProblemInv, S!TypeOK
<1> QED
  BY <1>1, <1>2, <1>3, <1>4, <1>5, ProblemMoves

\* Every step of a decision problem's service keeps the invariant.
LEMMA ProblemStep ==
  ASSUME Bounds, ProblemInv, [S!Next]_(S!vars)
  PROVE  ProblemInv'
<1> USE DEF S!setVars, S!requestVars, S!outcomeVars
<1>1. CASE UNCHANGED <<problem, S!setVars, S!requestVars, S!outcomeVars, call>>
        /\ truth' \in S!Truth
  <2>1. S!TypeOK'
    BY <1>1 DEF ProblemInv, S!TypeOK
  <2>2. ProblemRows' /\ RunsAreCounted'
    BY <1>1 DEF ProblemInv, ProblemRows, S!SelectionRestsOnPackage, Simulated, RunsAreCounted,
       Counting, S!At
  <2>3. \A c \in Call : ProblemCall(call[c])'
    BY <1>1 DEF ProblemInv, ProblemCall, ProblemRead, ProblemAnalysis, ProblemSelection,
       ProblemGoes, Simulated
  <2> QED
    BY <2>1, <2>2, <2>3 DEF ProblemInv
<1>2. CASE UNCHANGED S!vars
  BY <1>1, <1>2 DEF S!vars, ProblemInv, S!TypeOK
<1>3. CASE S!Drift
  BY <1>1, <1>3 DEF S!Drift, ProblemInv, S!TypeOK, S!Truth
<1>4. ASSUME NEW c \in Call, S!AnalysisStep(c) PROVE ProblemInv'
  BY <1>4, ProblemGeneration, ProblemSimulation, ProblemPackaging DEF S!AnalysisStep
<1> QED
  BY <1>2, <1>3, <1>4, ProblemSelecting, ProblemMaterialization, ProblemAbort DEF S!Next

\* The empty tables keep the invariant.
LEMMA ProblemStarts ==
  ASSUME Bounds, S!Init
  PROVE  ProblemInv
<1>1. /\ S!Idle \in S!CallState /\ S!Idle.pc = "idle" /\ S!Idle.seen = S!NewProblem
      /\ S!NewProblem \in S!Problem
  BY ProblemIdle DEF S!Idle
<1>2. S!TypeOK
  <2>1. S!NoRequest \in S!Request(MaxIssues)
    BY DEF S!NoRequest, S!Request, Bounds
  <2>2. 0 \in 0 .. MaxPlans /\ 0 \in 0 .. MaxIssues /\ 0 \in 0 .. MaxPlans * Scenarios
    BY DEF Bounds
  <2> QED
    BY <1>1, <2>1, <2>2 DEF S!Init, S!TypeOK, S!Truth
<1>3. ProblemRows
  BY DEF S!Init, ProblemRows, S!SelectionRestsOnPackage, Ungenerated, S!NewProblem, S!NoRequest,
     S!Set, Bounds
<1>4. \A c \in Call : call[c] = S!Idle
  BY DEF S!Init
<1>5. RunsAreCounted
  <2>1. Counting = {}
    BY <1>1, <1>4 DEF Counting, S!At
  <2>2. Cardinality({}) = 0
    BY FS_EmptySet
  <2> QED
    BY <2>1, <2>2 DEF RunsAreCounted, S!Init
<1>6. \A c \in Call : ProblemCall(call[c])
  <2>1. ProblemRead(S!Idle)
    BY <1>1 DEF ProblemRead, S!Init, S!NewProblem
  <2>2. ProblemAnalysis(S!Idle) /\ ProblemSelection(S!Idle)
    BY <1>1, ProblemRests
  <2> QED
    BY <1>4, <2>1, <2>2 DEF ProblemCall
<1> QED
  BY <1>2, <1>3, <1>5, <1>6 DEF ProblemInv

\* Steps of a decision problem are steps of its gate, or leave it alone.
LEMMA ProblemGateStep ==
  ASSUME Bounds, ProblemInv, [S!Next]_(S!vars)
  PROVE  [S!Gate!Next]_(S!Gate!vars)
<1> USE DEF S!setVars, S!requestVars, S!outcomeVars, S!Gate!vars
<1>1. ASSUME UNCHANGED <<selected, proposed>> PROVE UNCHANGED S!Gate!vars
  BY <1>1
<1>2. CASE UNCHANGED S!vars \/ S!Drift
  BY <1>1, <1>2 DEF S!vars, S!Drift
<1>3. ASSUME NEW c \in Call, S!AnalysisStep(c) \/ S!Abort(c) PROVE UNCHANGED S!Gate!vars
  <2>1. UNCHANGED <<selected, proposed>>
    BY <1>3 DEF S!AnalysisStep, S!StartGround, S!SaveTruth, S!Propose, S!StartGenerate,
       S!InsertSet, S!AdoptSet,
       S!StartSimulate, S!PickScenario, S!InsertResult, S!CountRun, S!FinishSimulate,
       S!StartAnalyze,
       S!FinishAnalyze, S!StartValidate, S!ComposePackage, S!InsertPackage, S!AwaitSelection,
       S!Abort
  <2> QED
    BY <1>1, <2>1
<1>4. ASSUME NEW c \in Call, S!SelectionStep(c) PROVE [S!Gate!Next]_(S!Gate!vars)
  <2>1. CASE S!SettleRequest(c)
    <3>1. call[c].set \in S!Set
      <4>1. /\ package # 0 /\ call[c].set = package /\ package \in 0 .. MaxPlans
        BY <2>1 DEF S!SettleRequest, S!At, ProblemInv, S!TypeOK, ProblemCall, ProblemSelection,
           ProblemGoes, Deciding
      <4> QED
        BY <4>1 DEF S!Set, Bounds
    <3>2. PICK v \in S!Set : v = call[c].set
      BY <3>1
    <3>3. /\ UNCHANGED proposed
          /\ selected' = IF call[c].decision = "SELECT_SCENARIO"
                         THEN selected \cup {v} ELSE selected
      BY <2>1, <3>2 DEF S!SettleRequest
    <3>4. UNCHANGED selected \/ S!Gate!Grant(v)
      BY <3>3 DEF S!Gate!Grant
    <3> QED
      BY <1>1, <3>3, <3>4 DEF S!Gate!Next
  <2>2. CASE ~S!SettleRequest(c)
    <3>1. UNCHANGED <<selected, proposed>>
      BY <1>4, <2>2 DEF S!SelectionStep, S!CheckTruth, S!MarkStale, S!StartRoute, S!SaveRequest,
         S!PutNonce,
         S!StartDecide, S!ExpireRequest, S!CheckSelector, S!SaveRecord, S!MoveAsDecided
    <3> QED
      BY <1>1, <3>1
  <2> QED
    BY <2>1, <2>2
<1>5. ASSUME NEW c \in Call, S!MaterializationStep(c) PROVE [S!Gate!Next]_(S!Gate!vars)
  <2>1. CASE S!AdmitPortfolio(c)
    <3>1. PICK o : o = <<call[c].record, call[c].set>>
      OBVIOUS
    <3>2. o \in S!Set \X S!Set /\ o[1] \in selected
      BY <2>1, <3>1 DEF S!AdmitPortfolio, S!At, ProblemInv, S!TypeOK, ProblemCall, ProblemSelection
    <3>3. proposed' = proposed \cup {o} /\ UNCHANGED selected
      BY <2>1, <3>1 DEF S!AdmitPortfolio
    <3>4. CASE o \in proposed
      <4>1. UNCHANGED <<selected, proposed>>
        BY <3>3, <3>4
      <4> QED
        BY <1>1, <4>1
    <3>5. CASE o \notin proposed
      <4>1. S!Gate!Admit(o)
        BY <3>2, <3>3, <3>5 DEF S!Gate!Admit
      <4> QED
        BY <3>2, <4>1 DEF S!Gate!Next
    <3> QED
      BY <3>4, <3>5
  <2>2. CASE ~S!AdmitPortfolio(c)
    <3>1. UNCHANGED <<selected, proposed>>
      BY <1>5, <2>2 DEF S!MaterializationStep, S!StartMaterialize, S!ReadSelection, S!SaveLineage,
         S!FinishMaterialize
    <3> QED
      BY <1>1, <3>1
  <2> QED
    BY <2>1, <2>2
<1> QED
  BY <1>2, <1>3, <1>4, <1>5 DEF S!Next

(***************************************************************************)
(* Types                                                                   *)
(***************************************************************************)

\* Approval is the subject 0, the evaluations are numbered from 1.
LEMMA PolicyApprovalIsApart == D!Approval \in D!Subject /\ D!Approval \notin D!Evaluation
  BY DEF D!Approval, D!Subject, D!Evaluation

\* What a call starts as.
LEMMA PolicyIdleType == ASSUME Bounds PROVE D!Idle \in D!CallState
<1>1. D!NewPolicy \in D!Policy
  BY DEF Bounds, D!NewPolicy, D!Policy, D!DecisionPolicyState
<1>2. D!NoRow \in D!Row
  BY DEF Bounds, D!NoRow, D!Row, D!Decision
<1> QED
  BY <1>1, <1>2, PolicyApprovalIsApart
  DEF Bounds, D!Idle, D!CallState, D!PC, D!DecisionPolicyState

\* A transition writes a row of the next revision.
LEMMA PolicyMovedType ==
  ASSUME Bounds, D!TypeOK, policy.revision < (MaxWrites - 1), NEW to \in D!DecisionPolicyState
  PROVE  D!Moved(to) \in D!Policy
  BY DEF Bounds, D!TypeOK, D!Moved, D!Policy

\* The requests that are routed.
LEMMA PolicyPendingType ==
  ASSUME Bounds, NEW i \in 0 .. MaxRoutes
  PROVE  D!Pending(i) \in D!Row
  BY DEF Bounds, D!Pending, D!Row, D!Decision

\* Where a decision leads is a state of the policy.
LEMMA PolicyTargetType ==
  ASSUME NEW s \in D!Subject, NEW d \in D!DecisionsOn(s)
  PROVE  d \in D!Decision \ {"NONE"} /\ D!Target[d] \in D!DecisionPolicyState
  BY DEF D!DecisionsOn, D!Decision, D!ApprovalDecision, D!ActivationDecision, D!Target,
     D!DecisionPolicyState

\* What a call carries from one statement to the next: a decision on the subject
\* it is for and where that leads, or the activation it has read.
PolicyCarries == {"policy", "record", "settle", "recommend"}

PolicyDecided(c) ==
  /\ D!At(c, "policy") => call[c].row.decision \in D!DecisionsOn(call[c].subject)
  /\ D!At(c, "record") => /\ call[c].subject = D!Approval
                          /\ call[c].row.decision \in D!ApprovalDecision
                          /\ call[c].to = D!Target[call[c].row.decision]
  /\ D!At(c, "settle") => /\ call[c].row.decision \in D!DecisionsOn(call[c].subject)
                          /\ call[c].to = D!Target[call[c].row.decision]
  /\ D!At(c, "recommend") => call[c].activation \in D!Activation

PolicyTypeInv == D!TypeOK /\ \A c \in Call : PolicyDecided(c)

\* The empty tables have their types.
LEMMA PolicyTypesStart ==
  ASSUME Bounds, D!Init
  PROVE  PolicyTypeInv
<1>1. policy \in D!Policy
  BY DEF Bounds, D!Init, D!NewPolicy, D!Policy, D!DecisionPolicyState
<1>2. request \in [D!Subject -> D!Row]
  BY DEF Bounds, D!Init, D!NoRow, D!Row, D!Decision
<1>3. call \in [Call -> D!CallState]
  BY PolicyIdleType DEF D!Init
<1>4. \A c \in Call : PolicyDecided(c)
  BY DEF D!Init, PolicyDecided, D!At, D!Idle
<1>5. /\ evaluations \in [D!Evaluation -> {"NONE", "EMPTY", "READY"}]
      /\ activations \in [D!Activation -> {"NONE", "ACTIVE", "PAUSED"}]
  BY DEF D!Init
<1>6. issued \in 0 .. MaxRoutes
  BY DEF D!Init, Bounds
<1>7. /\ evaluated \in BOOLEAN /\ shadowed \in BOOLEAN
      /\ known = {} /\ recommended = {} /\ granted = {}
  BY DEF D!Init
<1> QED
  BY <1>1, <1>2, <1>3, <1>4, <1>5, <1>6, <1>7 DEF PolicyTypeInv, D!TypeOK

\* Every step of the policy's service keeps the types, and what its calls carry.
LEMMA PolicyTypesStep ==
  ASSUME Bounds, PolicyTypeInv, [D!Next]_(D!vars)
  PROVE  PolicyTypeInv'
<1>1. CASE UNCHANGED D!vars
  BY <1>1 DEF D!vars, D!requestVars, D!shadowVars, D!liveVars, PolicyTypeInv, D!TypeOK,
     PolicyDecided, D!At
<1>2. ASSUME NEW c \in Call,
             D!ShadowStep(c) \/ D!LiveStep(c) \/ D!StartDecide(c) \/ D!ReadPolicy(c)
               \/ D!SettleRequest(c) \/ D!MoveAndReturn(c) \/ D!Abort(c)
      PROVE  PolicyTypeInv'
  <2> USE DEF D!requestVars, D!shadowVars, D!liveVars, PolicyCarries
  <2>a. ASSUME NEW k \in D!CallState, call' = [call EXCEPT ![c] = k],
               k.pc \notin PolicyCarries
        PROVE  call' \in [Call -> D!CallState] /\ \A d \in Call : PolicyDecided(d)'
    BY <2>a DEF PolicyTypeInv, D!TypeOK, PolicyDecided, D!At
  <2>b. ASSUME NEW pc \in D!PC \ PolicyCarries, D!GoTo(c, pc)
        PROVE  call' \in [Call -> D!CallState] /\ \A d \in Call : PolicyDecided(d)'
    <3>1. [call[c] EXCEPT !.pc = pc] \in D!CallState
      BY DEF PolicyTypeInv, D!TypeOK, D!CallState
    <3>2. call' = [call EXCEPT ![c] = [call[c] EXCEPT !.pc = pc]]
      BY <2>b DEF D!GoTo, PolicyTypeInv, D!TypeOK
    <3>3. [call[c] EXCEPT !.pc = pc].pc = pc
      BY DEF PolicyTypeInv, D!TypeOK, D!CallState
    <3> QED
      BY <2>a, <3>1, <3>2, <3>3
  <2>c. ASSUME D!Return(c)
        PROVE  call' \in [Call -> D!CallState] /\ \A d \in Call : PolicyDecided(d)'
    BY <2>a, <2>c, PolicyIdleType DEF D!Return, D!Idle
  <2>d. ASSUME NEW pc \in D!PC \ PolicyCarries, NEW p \in D!Policy,
               NEW to \in D!DecisionPolicyState,
               D!Enter(c, [D!Idle EXCEPT !.pc = pc, !.seen = p, !.to = to])
        PROVE  call' \in [Call -> D!CallState] /\ \A d \in Call : PolicyDecided(d)'
    BY <2>a, <2>d, PolicyIdleType DEF D!Enter, D!CallState, D!Idle
  <2>e. ASSUME NEW pc \in D!PC \ PolicyCarries,
               D!Enter(c, [D!Idle EXCEPT !.pc = pc])
        PROVE  call' \in [Call -> D!CallState] /\ \A d \in Call : PolicyDecided(d)'
    BY <2>a, <2>e, PolicyIdleType DEF D!Enter, D!CallState, D!Idle
  <2>1. CASE D!StartValidate(c)
    <3>1. call' \in [Call -> D!CallState] /\ \A d \in Call : PolicyDecided(d)'
      BY <2>1, <2>d DEF D!StartValidate, PolicyTypeInv, D!TypeOK, D!PC, D!DecisionPolicyState
    <3> QED
      BY <2>1, <3>1 DEF D!StartValidate, PolicyTypeInv, D!TypeOK
  <2>2. CASE D!StartEvaluate(c)
    BY <2>2, <2>e DEF D!StartEvaluate, PolicyTypeInv, D!TypeOK, D!PC
  <2>3. CASE D!SaveEvaluation(c)
    BY <2>3, <2>c DEF D!SaveEvaluation, PolicyTypeInv, D!TypeOK
  <2>4. CASE D!StartRouteApproval(c)
    <3>1. call' \in [Call -> D!CallState] /\ \A d \in Call : PolicyDecided(d)'
      BY <2>4, <2>d DEF D!StartRouteApproval, PolicyTypeInv, D!TypeOK, D!PC, D!DecisionPolicyState
    <3> QED
      BY <2>4, <3>1 DEF D!StartRouteApproval, PolicyTypeInv, D!TypeOK
  <2>5. CASE D!SaveApprovalRequest(c)
    <3>1. issued' \in 0 .. MaxRoutes
      BY <2>5 DEF D!SaveApprovalRequest, PolicyTypeInv, D!TypeOK, Bounds
    <3>2. D!Pending(issued') \in D!Row
      BY <3>1, PolicyPendingType
    <3>3. [call[c] EXCEPT !.pc = "await", !.row = D!Pending(issued')] \in D!CallState
      BY <3>2 DEF PolicyTypeInv, D!TypeOK, D!CallState, D!PC
    <3>4. call' = [call EXCEPT ![c] = [call[c] EXCEPT !.pc = "await", !.row = D!Pending(issued')]]
      BY <2>5 DEF D!SaveApprovalRequest, PolicyTypeInv, D!TypeOK
    <3>5. [call[c] EXCEPT !.pc = "await", !.row = D!Pending(issued')].pc = "await"
      BY DEF PolicyTypeInv, D!TypeOK, D!CallState
    <3>6. call' \in [Call -> D!CallState] /\ \A d \in Call : PolicyDecided(d)'
      BY <2>a, <3>3, <3>4, <3>5
    <3>7. request' \in [D!Subject -> D!Row]
      BY <2>5, <3>2 DEF D!SaveApprovalRequest, PolicyTypeInv, D!TypeOK
    <3> QED
      BY <2>5, <3>1, <3>6, <3>7 DEF D!SaveApprovalRequest, PolicyTypeInv, D!TypeOK
  <2>6. CASE D!AwaitApproval(c)
    <3>1. policy' \in D!Policy
      BY <2>6, PolicyMovedType DEF D!AwaitApproval, PolicyTypeInv, D!TypeOK, D!DecisionPolicyState
    <3>2. known' \subseteq 0 .. MaxRoutes
      BY <2>6 DEF D!AwaitApproval, PolicyTypeInv, D!TypeOK, D!CallState, D!Row
    <3> QED
      BY <2>6, <2>c, <3>1, <3>2 DEF D!AwaitApproval, PolicyTypeInv, D!TypeOK
  <2>7. CASE D!SaveApprovalRecord(c)
    <3>1. [call[c] EXCEPT !.pc = "settle"] \in D!CallState
      BY DEF PolicyTypeInv, D!TypeOK, D!CallState, D!PC
    <3>2. call' = [call EXCEPT ![c] = [call[c] EXCEPT !.pc = "settle"]]
      BY <2>7 DEF D!SaveApprovalRecord, D!GoTo, PolicyTypeInv, D!TypeOK
    <3>3. call' \in [Call -> D!CallState]
      BY <3>1, <3>2 DEF PolicyTypeInv, D!TypeOK
    <3>4. \A d \in Call : PolicyDecided(d)'
      BY <2>7, <3>1, <3>2 DEF D!SaveApprovalRecord, PolicyTypeInv, D!TypeOK, PolicyDecided, D!At,
         D!DecisionsOn, D!CallState
    <3>5. granted' \subseteq {"SHADOW", "LIVE"}
      BY <2>7 DEF D!SaveApprovalRecord, PolicyTypeInv, D!TypeOK
    <3> QED
      BY <2>7, <3>3, <3>4, <3>5 DEF D!SaveApprovalRecord, PolicyTypeInv, D!TypeOK
  <2>8. CASE D!StartShadow(c)
    <3>1. policy' \in D!Policy
      BY <2>8, PolicyMovedType DEF D!StartShadow, PolicyTypeInv, D!TypeOK, D!DecisionPolicyState
    <3> QED
      BY <2>8, <2>e, <3>1 DEF D!StartShadow, PolicyTypeInv, D!TypeOK, D!PC
  <2>9. CASE D!SaveShadowRecord(c)
    BY <2>9, <2>c DEF D!SaveShadowRecord, PolicyTypeInv, D!TypeOK
  <2>10. CASE D!StartEvaluateShadow(c)
    <3>1. call' \in [Call -> D!CallState] /\ \A d \in Call : PolicyDecided(d)'
      BY <2>10, <2>d DEF D!StartEvaluateShadow, PolicyTypeInv, D!TypeOK, D!PC, D!DecisionPolicyState
    <3> QED
      BY <2>10, <3>1 DEF D!StartEvaluateShadow, PolicyTypeInv, D!TypeOK
  <2>11. CASE D!SaveShadowEvaluation(c)
    <3>1. evaluations' \in [D!Evaluation -> {"NONE", "EMPTY", "READY"}]
      BY <2>11 DEF D!SaveShadowEvaluation, PolicyTypeInv, D!TypeOK
    <3> QED
      BY <2>11, <2>b, <3>1 DEF D!SaveShadowEvaluation, PolicyTypeInv, D!TypeOK, D!PC
  <2>12. CASE D!StartRouteActivation(c)
    <3>1. PICK e \in D!LatestEvaluation : D!Enter(c, [D!Idle EXCEPT !.pc = "request", !.subject = e])
      BY <2>12 DEF D!StartRouteActivation
    <3>2. e \in D!Subject
      BY <3>1 DEF D!LatestEvaluation, D!Latest, D!Subject, PolicyTypeInv, D!TypeOK
    <3>3. [D!Idle EXCEPT !.pc = "request", !.subject = e] \in D!CallState
      BY <3>2, PolicyIdleType DEF D!CallState, D!PC
    <3>4. call' \in [Call -> D!CallState] /\ \A d \in Call : PolicyDecided(d)'
      BY <2>a, <3>1, <3>3 DEF D!Enter, D!Idle
    <3> QED
      BY <2>12, <3>4 DEF D!StartRouteActivation, PolicyTypeInv, D!TypeOK
  <2>13. CASE D!SaveActivationRequest(c)
    <3>1. issued' \in 0 .. MaxRoutes /\ issued' # 0
      BY <2>13 DEF D!SaveActivationRequest, PolicyTypeInv, D!TypeOK, Bounds
    <3>2. request' \in [D!Subject -> D!Row]
      BY <2>13, <3>1, PolicyPendingType DEF D!SaveActivationRequest, PolicyTypeInv, D!TypeOK
    <3>3. known' \subseteq 0 .. MaxRoutes
      BY <2>13, <3>1 DEF D!SaveActivationRequest, PolicyTypeInv, D!TypeOK
    <3> QED
      BY <2>13, <2>c, <3>1, <3>2, <3>3 DEF D!SaveActivationRequest, PolicyTypeInv, D!TypeOK
  <2>14. CASE D!SaveActivation(c)
    <3>1. activations' \in [D!Activation -> {"NONE", "ACTIVE", "PAUSED"}]
      BY <2>14 DEF D!SaveActivation, PolicyTypeInv, D!TypeOK
    <3> QED
      BY <2>14, <2>b, <3>1 DEF D!SaveActivation, PolicyTypeInv, D!TypeOK, D!PC
  <2>15. CASE D!StartRecommend(c)
    BY <2>15, <2>e DEF D!StartRecommend, PolicyTypeInv, D!TypeOK, D!PC
  <2>16. CASE D!ReadActivation(c)
    <3>1. PICK a \in D!ActiveActivation :
            call' = [call EXCEPT ![c].pc = "recommend", ![c].activation = a]
      BY <2>16 DEF D!ReadActivation
    <3>2. a \in D!Activation /\ a \in 0 .. MaxActivations
      BY <3>1 DEF D!ActiveActivation, D!Latest, D!Activation, PolicyTypeInv, D!TypeOK, Bounds
    <3>3. [call[c] EXCEPT !.pc = "recommend", !.activation = a] \in D!CallState
      BY <3>2 DEF PolicyTypeInv, D!TypeOK, D!CallState, D!PC
    <3>4. call' = [call EXCEPT ![c] = [call[c] EXCEPT !.pc = "recommend", !.activation = a]]
      BY <3>1 DEF PolicyTypeInv, D!TypeOK
    <3>5. /\ [call[c] EXCEPT !.pc = "recommend", !.activation = a].pc = "recommend"
          /\ [call[c] EXCEPT !.pc = "recommend", !.activation = a].activation = a
      BY DEF PolicyTypeInv, D!TypeOK, D!CallState
    <3>6. call' \in [Call -> D!CallState] /\ \A d \in Call : PolicyDecided(d)'
      BY <3>2, <3>3, <3>4, <3>5 DEF PolicyTypeInv, D!TypeOK, PolicyDecided, D!At
    <3> QED
      BY <2>16, <3>6 DEF D!ReadActivation, PolicyTypeInv, D!TypeOK
  <2>17. CASE D!SaveRecommendation(c)
    <3>1. recommended' \subseteq D!Activation
      BY <2>17 DEF D!SaveRecommendation, PolicyTypeInv, D!TypeOK, PolicyDecided
    <3> QED
      BY <2>17, <2>c, <3>1 DEF D!SaveRecommendation, PolicyTypeInv, D!TypeOK
  <2>18. CASE D!Pause(c)
    <3>1. policy' \in D!Policy
      BY <2>18, PolicyMovedType DEF D!Pause, PolicyTypeInv, D!TypeOK, D!DecisionPolicyState
    <3> QED
      BY <2>18, <2>e, <3>1 DEF D!Pause, PolicyTypeInv, D!TypeOK, D!PC
  <2>19. CASE D!PauseActivation(c)
    <3>1. activations' \in [D!Activation -> {"NONE", "ACTIVE", "PAUSED"}]
      BY <2>19 DEF D!PauseActivation, PolicyTypeInv, D!TypeOK
    <3> QED
      BY <2>19, <2>c, <3>1 DEF D!PauseActivation, PolicyTypeInv, D!TypeOK
  <2>20. CASE D!CausalDrift(c)
    <3>1. call' \in [Call -> D!CallState] /\ \A d \in Call : PolicyDecided(d)'
      BY <2>20, <2>d DEF D!CausalDrift, PolicyTypeInv, D!TypeOK, D!PC, D!DecisionPolicyState
    <3> QED
      BY <2>20, <3>1 DEF D!CausalDrift, PolicyTypeInv, D!TypeOK
  <2>21. CASE D!StartDecide(c)
    <3>0. PICK s \in D!Subject : \E d \in D!DecisionsOn(s) :
            D!Enter(c, [D!Idle EXCEPT !.pc = "policy", !.subject = s,
                                      !.row = [request[s] EXCEPT !.decision = d]])
      BY <2>21 DEF D!StartDecide
    <3>1. PICK d \in D!DecisionsOn(s) :
            D!Enter(c, [D!Idle EXCEPT !.pc = "policy", !.subject = s,
                                      !.row = [request[s] EXCEPT !.decision = d]])
      BY <3>0
    <3> DEFINE row == [request[s] EXCEPT !.decision = d]
               k == [D!Idle EXCEPT !.pc = "policy", !.subject = s, !.row = row]
    <3>2. row \in D!Row /\ row.decision = d
      BY PolicyTargetType DEF PolicyTypeInv, D!TypeOK, D!Row
    <3> HIDE DEF row
    <3>3. k \in D!CallState /\ k.pc = "policy" /\ k.subject = s /\ k.row = row
      BY <3>2, PolicyIdleType DEF D!CallState, D!PC, D!Idle
    <3>4. call' = [call EXCEPT ![c] = k]
      BY <3>1 DEF D!Enter, row
    <3> HIDE DEF k
    <3>5. call' \in [Call -> D!CallState] /\ \A x \in Call : PolicyDecided(x)'
      BY <3>2, <3>3, <3>4 DEF PolicyTypeInv, D!TypeOK, PolicyDecided, D!At
    <3> QED
      BY <2>21, <3>5 DEF D!StartDecide, PolicyTypeInv, D!TypeOK
  <2>22. CASE D!ReadPolicy(c)
    <3> DEFINE next == IF call[c].subject = D!Approval THEN "record" ELSE "settle"
               k == [call[c] EXCEPT !.pc = next, !.seen = policy,
                                    !.to = D!Target[call[c].row.decision]]
    <3>1. call[c].row.decision \in D!DecisionsOn(call[c].subject) /\ call[c].subject \in D!Subject
      BY <2>22 DEF D!ReadPolicy, PolicyTypeInv, D!TypeOK, PolicyDecided, D!CallState
    <3>2. D!Target[call[c].row.decision] \in D!DecisionPolicyState
      BY <3>1, PolicyTargetType
    <3>3. /\ k \in D!CallState
          /\ k.pc = next
          /\ k.subject = call[c].subject
          /\ k.row = call[c].row
          /\ k.to = D!Target[call[c].row.decision]
      BY <3>2 DEF PolicyTypeInv, D!TypeOK, D!CallState, D!PC
    <3>4. call' = [call EXCEPT ![c] = k]
      BY <2>22 DEF D!ReadPolicy, PolicyTypeInv, D!TypeOK
    <3> HIDE DEF k
    <3>5. call' \in [Call -> D!CallState] /\ \A x \in Call : PolicyDecided(x)'
      BY <3>1, <3>3, <3>4 DEF PolicyTypeInv, D!TypeOK, PolicyDecided, D!At, D!DecisionsOn
    <3> QED
      BY <2>22, <3>5 DEF D!ReadPolicy, PolicyTypeInv, D!TypeOK
  <2>23. CASE D!SettleRequest(c)
    <3>1. call' \in [Call -> D!CallState] /\ \A d \in Call : PolicyDecided(d)'
      BY <2>23, <2>b DEF D!SettleRequest, D!PC
    <3>2. request' \in [D!Subject -> D!Row]
      BY <2>23 DEF D!SettleRequest, PolicyTypeInv, D!TypeOK, D!CallState, D!Row
    <3>3. granted' \subseteq {"SHADOW", "LIVE"}
      BY <2>23 DEF D!SettleRequest, PolicyTypeInv, D!TypeOK
    <3> QED
      BY <2>23, <3>1, <3>2, <3>3 DEF D!SettleRequest, PolicyTypeInv, D!TypeOK
  <2>24. CASE D!MoveAndReturn(c)
    <3>1. policy' \in D!Policy
      BY <2>24, PolicyMovedType DEF D!MoveAndReturn, PolicyTypeInv, D!TypeOK, D!CallState
    <3> QED
      BY <2>24, <2>c, <3>1 DEF D!MoveAndReturn, PolicyTypeInv, D!TypeOK
  <2>25. CASE D!Abort(c)
    BY <2>25, <2>c DEF D!Abort, PolicyTypeInv, D!TypeOK
  <2> QED
    BY <1>2, <2>1, <2>2, <2>3, <2>4, <2>5, <2>6, <2>7, <2>8, <2>9, <2>10, <2>11, <2>12,
       <2>13, <2>14, <2>15, <2>16, <2>17, <2>18, <2>19, <2>20, <2>21, <2>22, <2>23, <2>24,
       <2>25 DEF D!ShadowStep, D!LiveStep
<1> QED
  BY <1>1, <1>2 DEF D!Next

PolicyAdmitted == {"APPROVED_FOR_SHADOW", "SHADOW_RUNNING", "AWAITING_ACTIVATION", "ACTIVE", "PAUSED"}

PolicySomeReady == \E e \in D!Evaluation : evaluations[e] = "READY"
PolicySomeEvaluation == \E e \in D!Evaluation : evaluations[e] # "NONE"
PolicySomeActivation == \E a \in D!Activation : activations[a] # "NONE"

\* What a call that is about to write relies on.
PolicyCallRests(c) ==
  /\ D!At(c, "settle") => /\ call[c].to = "APPROVED_FOR_SHADOW" => "SHADOW" \in granted
                          /\ call[c].to = "ACTIVE" => PolicySomeReady
  /\ D!At(c, "activate") => call[c].to = "ACTIVE" /\ "LIVE" \in granted /\ PolicySomeReady
  /\ D!At(c, "move") => /\ call[c].to = "APPROVED_FOR_SHADOW" => "SHADOW" \in granted
                        /\ call[c].to = "AWAITING_ACTIVATION" => PolicySomeEvaluation
                        /\ call[c].to = "ACTIVE" => PolicySomeReady /\ PolicySomeActivation
  /\ D!At(c, "aggregate") => call[c].to = "AWAITING_ACTIVATION"
  /\ D!At(c, "shadow") => "SHADOW" \in granted
  /\ D!At(c, "recommend") => activations[call[c].activation] # "NONE"

\* The rows and the calls together: what the properties say, made inductive.
PolicyRestInv ==
  /\ policy.status \in PolicyAdmitted => "SHADOW" \in granted
  /\ shadowed => "SHADOW" \in granted
  /\ PolicySomeActivation => "LIVE" \in granted
  /\ D!ActivationRestsOnShadow
  /\ \A c \in Call : PolicyCallRests(c)

\* Grants, evaluations and activations are never taken back.
PolicyGrows ==
  /\ granted \subseteq granted'
  /\ \A e \in D!Evaluation : evaluations[e] # "NONE" => evaluations'[e] = evaluations[e]
  /\ \A a \in D!Activation : activations[a] # "NONE" => activations'[a] # "NONE"

\* A call that does not move keeps what it rests on.
LEMMA PolicyOthersRest ==
  ASSUME PolicyTypeInv, PolicyGrows, NEW c \in Call, PolicyCallRests(c), call'[c] = call[c]
  PROVE  PolicyCallRests(c)'
<1>1. /\ PolicySomeReady => PolicySomeReady'
      /\ PolicySomeEvaluation => PolicySomeEvaluation'
      /\ PolicySomeActivation => PolicySomeActivation'
  BY DEF PolicyGrows, PolicySomeReady, PolicySomeEvaluation, PolicySomeActivation
<1>2. D!At(c, "recommend") => call[c].activation \in D!Activation
  BY DEF PolicyTypeInv, PolicyDecided
<1> QED
  BY <1>1, <1>2 DEF PolicyCallRests, PolicyGrows, D!At

\* A step that leaves policy, shadow and activations as they are needs only to keep
\* what the call that makes it rests on.
LEMMA PolicyQuietRest ==
  ASSUME PolicyTypeInv, PolicyRestInv, PolicyGrows, NEW c \in Call, NEW k,
         call' = [call EXCEPT ![c] = k], PolicyCallRests(c)',
         UNCHANGED <<policy, shadowed, activations, recommended>>
  PROVE  PolicyRestInv'
<1>1. \A d \in Call : PolicyCallRests(d)'
  BY PolicyOthersRest DEF PolicyRestInv, PolicyTypeInv, D!TypeOK
<1>2. D!ActivationRestsOnShadow'
  BY DEF D!ActivationRestsOnShadow, PolicyRestInv, PolicyGrows
<1> QED
  BY <1>1, <1>2 DEF PolicyRestInv, PolicyGrows, PolicySomeActivation

\* Every step of a call keeps what policies rest on.
LEMMA PolicyRestStep ==
  ASSUME Bounds, PolicyTypeInv, PolicyTypeInv', PolicyRestInv, NEW c \in Call,
         D!ShadowStep(c) \/ D!LiveStep(c) \/ D!StartDecide(c) \/ D!ReadPolicy(c)
           \/ D!SettleRequest(c) \/ D!MoveAndReturn(c) \/ D!Abort(c)
  PROVE  PolicyRestInv'
<1> USE DEF D!requestVars, D!shadowVars, D!liveVars
<1> DEFINE Still == UNCHANGED <<granted, evaluations, activations>>
<1>a. Still => PolicyGrows
  BY DEF PolicyGrows
<1>b. ASSUME D!Return(c) PROVE PolicyCallRests(c)' /\ call' = [call EXCEPT ![c] = D!Idle]
  BY <1>b DEF D!Return, PolicyCallRests, D!At, D!Idle, PolicyTypeInv, D!TypeOK
<1>c. ASSUME NEW k \in D!CallState, call' = [call EXCEPT ![c] = k],
             k.pc \in {"evaluate", "request", "await", "policy", "record", "activation",
                       "deactivate"}
      PROVE  PolicyCallRests(c)'
  BY <1>c DEF PolicyCallRests, D!At, PolicyTypeInv, D!TypeOK
<1>d. call'[c] \in D!CallState
  BY DEF PolicyTypeInv, D!TypeOK
<1>1. CASE D!StartValidate(c)
  <2>1. PolicyCallRests(c)'
    BY <1>1 DEF D!StartValidate, D!Enter, PolicyCallRests, D!At, D!Idle, PolicyTypeInv, D!TypeOK
  <2> QED
    BY <1>1, <1>a, <2>1, PolicyQuietRest DEF D!StartValidate, D!Enter
<1>2. CASE D!StartEvaluate(c)
  <2>1. PolicyCallRests(c)'
    BY <1>2 DEF D!StartEvaluate, D!Enter, PolicyCallRests, D!At, D!Idle, PolicyTypeInv, D!TypeOK
  <2> QED
    BY <1>2, <1>a, <2>1, PolicyQuietRest DEF D!StartEvaluate, D!Enter
<1>3. CASE D!SaveEvaluation(c)
  BY <1>3, <1>a, <1>b, PolicyQuietRest DEF D!SaveEvaluation
<1>4. CASE D!StartRouteApproval(c)
  <2>1. PolicyCallRests(c)'
    BY <1>4 DEF D!StartRouteApproval, D!Enter, PolicyCallRests, D!At, D!Idle, PolicyTypeInv,
       D!TypeOK
  <2> QED
    BY <1>4, <1>a, <2>1, PolicyQuietRest DEF D!StartRouteApproval, D!Enter
<1>5. CASE D!SaveApprovalRequest(c)
  <2>1. call' = [call EXCEPT ![c] = call'[c]] /\ call'[c].pc = "await"
    <3>1. call \in [Call -> D!CallState]
      BY DEF PolicyTypeInv, D!TypeOK
    <3>2. call' = [call EXCEPT ![c] = [@ EXCEPT !.pc = "await", !.row = D!Pending(issued')]]
      BY <1>5 DEF D!SaveApprovalRequest
    <3>3. call'[c] = [call[c] EXCEPT !.pc = "await", !.row = D!Pending(issued')]
      BY <3>1, <3>2
    <3>4. call'[c].pc = "await"
      BY <3>1, <3>3 DEF D!CallState
    <3> QED
      BY <3>2, <3>3, <3>4
  <2>2. PolicyCallRests(c)'
    BY <2>1 DEF PolicyCallRests, D!At
  <2> QED
    BY <1>5, <1>a, <2>1, <2>2, PolicyQuietRest DEF D!SaveApprovalRequest
<1>6. CASE D!AwaitApproval(c)
  <2>1. Still
    BY <1>6 DEF D!AwaitApproval
  <2>2. \A d \in Call : PolicyCallRests(d)'
    BY <1>6, <1>a, <1>b, <2>1, PolicyOthersRest DEF D!AwaitApproval, PolicyRestInv, PolicyTypeInv,
       D!TypeOK
  <2>3. policy'.status \in {policy.status, "AWAITING_APPROVAL"}
    BY <1>6 DEF D!AwaitApproval, D!Moved
  <2>4. D!ActivationRestsOnShadow'
    BY <1>6, <2>1, <2>3 DEF D!AwaitApproval, D!ActivationRestsOnShadow, PolicyRestInv
  <2> QED
    BY <1>6, <2>1, <2>2, <2>3, <2>4 DEF D!AwaitApproval, PolicyRestInv, PolicyAdmitted,
       PolicySomeActivation
<1>7. CASE D!SaveApprovalRecord(c)
  <2>1. PolicyGrows
    BY <1>7 DEF D!SaveApprovalRecord, PolicyGrows
  <2>2. /\ call' = [call EXCEPT ![c] = call'[c]]
        /\ call'[c].pc = "settle"
        /\ call'[c].to = call[c].to
    BY <1>7 DEF D!SaveApprovalRecord, D!GoTo, PolicyTypeInv, D!TypeOK, D!CallState
  <2>3. /\ call[c].row.decision \in D!ApprovalDecision
        /\ call[c].to = D!Target[call[c].row.decision]
    BY <1>7 DEF D!SaveApprovalRecord, PolicyTypeInv, PolicyDecided
  <2>4. call[c].to # "ACTIVE"
    BY <2>3 DEF D!ApprovalDecision, D!Target
  <2>5. call[c].to = "APPROVED_FOR_SHADOW" => call[c].row.decision = "APPROVE_SHADOW"
    BY <2>3 DEF D!ApprovalDecision, D!Target
  <2>6. call[c].to = "APPROVED_FOR_SHADOW" => "SHADOW" \in granted'
    BY <1>7, <2>5 DEF D!SaveApprovalRecord
  <2>7. PolicyCallRests(c)'
    BY <2>2, <2>4, <2>6 DEF PolicyCallRests, D!At
  <2> QED
    BY <1>7, <2>1, <2>2, <2>7, PolicyQuietRest DEF D!SaveApprovalRecord
<1>8. CASE D!StartShadow(c)
  <2>1. Still
    BY <1>8 DEF D!StartShadow
  <2>2. "SHADOW" \in granted
    BY <1>8 DEF D!StartShadow, PolicyRestInv, PolicyAdmitted
  <2>3. PolicyCallRests(c)'
    BY <1>8, <2>1, <2>2 DEF D!StartShadow, D!Enter, PolicyCallRests, D!At, D!Idle, PolicyTypeInv,
       D!TypeOK
  <2>4. \A d \in Call : PolicyCallRests(d)'
    BY <1>8, <1>a, <2>1, <2>3, PolicyOthersRest DEF D!StartShadow, D!Enter, PolicyRestInv,
       PolicyTypeInv, D!TypeOK
  <2>5. policy'.status = "SHADOW_RUNNING"
    BY <1>8 DEF D!StartShadow, D!Moved
  <2>6. D!ActivationRestsOnShadow'
    BY <1>8, <2>1, <2>5 DEF D!StartShadow, D!ActivationRestsOnShadow, PolicyRestInv
  <2> QED
    BY <1>8, <2>1, <2>2, <2>4, <2>6 DEF D!StartShadow, PolicyRestInv, PolicySomeActivation
<1>9. CASE D!SaveShadowRecord(c)
  <2>1. Still /\ UNCHANGED <<policy, recommended>> /\ D!Return(c)
    BY <1>9 DEF D!SaveShadowRecord
  <2>2. "SHADOW" \in granted
    BY <1>9 DEF D!SaveShadowRecord, PolicyRestInv, PolicyCallRests
  <2>3. \A d \in Call : PolicyCallRests(d)'
    BY <1>a, <1>b, <2>1, PolicyOthersRest DEF PolicyRestInv, PolicyTypeInv, D!TypeOK
  <2>4. D!ActivationRestsOnShadow'
    BY <2>1 DEF D!ActivationRestsOnShadow, PolicyRestInv
  <2> QED
    BY <2>1, <2>2, <2>3, <2>4 DEF PolicyRestInv, PolicySomeActivation
<1>10. CASE D!StartEvaluateShadow(c)
  <2>1. PolicyCallRests(c)'
    BY <1>10 DEF D!StartEvaluateShadow, D!Enter, PolicyCallRests, D!At, D!Idle, PolicyTypeInv,
       D!TypeOK
  <2> QED
    BY <1>10, <1>a, <2>1, PolicyQuietRest DEF D!StartEvaluateShadow, D!Enter
<1>11. CASE D!SaveShadowEvaluation(c)
  <2>1. PICK e \in D!NextRow(evaluations) :
          evaluations' = [evaluations EXCEPT ![e] = IF shadowed THEN "READY" ELSE "EMPTY"]
    BY <1>11 DEF D!SaveShadowEvaluation
  <2>2. e \in D!Evaluation /\ evaluations[e] = "NONE"
    <3>1. DOMAIN evaluations = D!Evaluation
      BY DEF PolicyTypeInv, D!TypeOK
    <3>2. e \in D!Evaluation /\ (evaluations[e] = "NONE" <=> e <= e)
      BY <3>1 DEF D!NextRow
    <3>3. e <= e
      BY <3>2 DEF D!Evaluation, Bounds
    <3> QED
      BY <3>2, <3>3
  <2>3. PolicyGrows
    BY <1>11, <2>1, <2>2 DEF D!SaveShadowEvaluation, PolicyGrows, PolicyTypeInv, D!TypeOK
  <2>4. PolicySomeEvaluation'
    BY <2>1, <2>2 DEF PolicySomeEvaluation, PolicyTypeInv, D!TypeOK
  <2>5. /\ call' = [call EXCEPT ![c] = call'[c]]
        /\ call'[c].pc = "move"
        /\ call'[c].to = "AWAITING_ACTIVATION"
    BY <1>11 DEF D!SaveShadowEvaluation, D!GoTo, PolicyRestInv, PolicyCallRests, PolicyTypeInv,
       D!TypeOK, D!CallState
  <2>6. PolicyCallRests(c)'
    BY <2>4, <2>5 DEF PolicyCallRests, D!At
  <2> QED
    BY <1>11, <2>3, <2>5, <2>6, PolicyQuietRest DEF D!SaveShadowEvaluation
<1>12. CASE D!StartRouteActivation(c)
  <2>1. PICK e \in D!LatestEvaluation : D!Enter(c, [D!Idle EXCEPT !.pc = "request", !.subject = e])
    BY <1>12 DEF D!StartRouteActivation
  <2>2. PolicyCallRests(c)'
    BY <2>1 DEF D!Enter, PolicyCallRests, D!At, D!Idle, PolicyTypeInv, D!TypeOK
  <2> QED
    BY <1>12, <1>a, <2>1, <2>2, PolicyQuietRest DEF D!StartRouteActivation, D!Enter
<1>13. CASE D!SaveActivationRequest(c)
  BY <1>13, <1>a, <1>b, PolicyQuietRest DEF D!SaveActivationRequest
<1>14. CASE D!SaveActivation(c)
  <2>1. PICK a \in D!NextRow(activations) : activations' = [activations EXCEPT ![a] = "ACTIVE"]
    BY <1>14 DEF D!SaveActivation
  <2>2. a \in D!Activation
    BY <2>1 DEF D!NextRow, PolicyTypeInv, D!TypeOK
  <2>3. PolicyGrows
    BY <1>14, <2>1, <2>2 DEF D!SaveActivation, PolicyGrows, PolicyTypeInv, D!TypeOK
  <2>4. PolicySomeActivation'
    BY <2>1, <2>2 DEF PolicySomeActivation, PolicyTypeInv, D!TypeOK
  <2>5. "LIVE" \in granted' /\ PolicySomeReady'
    BY <1>14 DEF D!SaveActivation, PolicyRestInv, PolicyCallRests, PolicySomeReady
  <2>6. /\ call'[c].pc = "move"
        /\ call'[c].to = "ACTIVE"
        /\ \A d \in Call \ {c} : call'[d] = call[d]
    BY <1>14 DEF D!SaveActivation, D!GoTo, PolicyRestInv, PolicyCallRests, D!At, PolicyTypeInv,
       D!TypeOK, D!CallState
  <2>7. \A d \in Call : PolicyCallRests(d)'
    <3>1. PolicyCallRests(c)'
      BY <2>4, <2>5, <2>6 DEF PolicyCallRests, D!At
    <3> QED
      BY <2>3, <2>6, <3>1, PolicyOthersRest DEF PolicyRestInv
  <2>8. D!ActivationRestsOnShadow'
    BY <1>14, <2>3, <2>4 DEF D!SaveActivation, D!ActivationRestsOnShadow, PolicyRestInv,
       PolicyGrows, PolicySomeActivation,
       PolicyTypeInv, D!TypeOK
  <2> QED
    BY <1>14, <2>5, <2>7, <2>8 DEF D!SaveActivation, PolicyRestInv
<1>15. CASE D!StartRecommend(c)
  <2>1. PolicyCallRests(c)'
    BY <1>15 DEF D!StartRecommend, D!Enter, PolicyCallRests, D!At, D!Idle, PolicyTypeInv, D!TypeOK
  <2> QED
    BY <1>15, <1>a, <2>1, PolicyQuietRest DEF D!StartRecommend, D!Enter
<1>16. CASE D!ReadActivation(c)
  <2>1. PICK a \in D!ActiveActivation :
          call' = [call EXCEPT ![c].pc = "recommend", ![c].activation = a]
    BY <1>16 DEF D!ReadActivation
  <2>2. activations[a] # "NONE"
    BY <2>1 DEF D!ActiveActivation, D!Latest
  <2>3. /\ call' = [call EXCEPT ![c] = call'[c]]
        /\ call'[c].pc = "recommend"
        /\ call'[c].activation = a
    BY <2>1 DEF PolicyTypeInv, D!TypeOK, D!CallState
  <2>4. PolicyCallRests(c)'
    BY <1>16, <2>2, <2>3 DEF D!ReadActivation, PolicyCallRests, D!At
  <2> QED
    BY <1>16, <1>a, <2>3, <2>4, PolicyQuietRest DEF D!ReadActivation
<1>17. CASE D!SaveRecommendation(c)
  <2>1. activations[call[c].activation] # "NONE"
    BY <1>17 DEF D!SaveRecommendation, PolicyRestInv, PolicyCallRests
  <2>2. Still /\ UNCHANGED <<policy, shadowed>> /\ D!Return(c)
    BY <1>17 DEF D!SaveRecommendation
  <2>3. \A d \in Call : PolicyCallRests(d)'
    BY <1>a, <1>b, <2>2, PolicyOthersRest DEF PolicyRestInv, PolicyTypeInv, D!TypeOK
  <2>4. D!ActivationRestsOnShadow'
    BY <1>17, <2>1, <2>2 DEF D!SaveRecommendation, D!ActivationRestsOnShadow, PolicyRestInv
  <2> QED
    BY <2>2, <2>3, <2>4 DEF PolicyRestInv, PolicySomeActivation
<1>18. CASE D!Pause(c)
  <2>1. Still /\ UNCHANGED <<shadowed, recommended>>
    BY <1>18 DEF D!Pause
  <2>2. "SHADOW" \in granted
    BY <1>18 DEF D!Pause, PolicyRestInv, PolicyAdmitted
  <2>3. PolicyCallRests(c)'
    BY <1>18 DEF D!Pause, D!Enter, PolicyCallRests, D!At, D!Idle, PolicyTypeInv, D!TypeOK
  <2>4. \A d \in Call : PolicyCallRests(d)'
    BY <1>18, <1>a, <2>1, <2>3, PolicyOthersRest DEF D!Pause, D!Enter, PolicyRestInv,
       PolicyTypeInv, D!TypeOK
  <2>5. policy'.status = "PAUSED"
    BY <1>18 DEF D!Pause, D!Moved
  <2>6. D!ActivationRestsOnShadow'
    BY <2>1, <2>5 DEF D!ActivationRestsOnShadow, PolicyRestInv
  <2> QED
    BY <2>1, <2>2, <2>4, <2>6 DEF PolicyRestInv, PolicySomeActivation
<1>19. CASE D!PauseActivation(c)
  <2>1. /\ UNCHANGED <<policy, shadowed, recommended, granted, evaluations>>
        /\ D!Return(c)
        /\ \A a \in D!Activation : activations'[a] \in {activations[a], "PAUSED"}
    BY <1>19 DEF D!PauseActivation
  <2>2. \A a \in D!Activation : activations'[a] # "NONE" <=> activations[a] # "NONE"
    <3> SUFFICES ASSUME NEW a \in D!Activation
                 PROVE  activations'[a] # "NONE" <=> activations[a] # "NONE"
      OBVIOUS
    <3>1. a \in D!ActiveActivation => activations[a] = "ACTIVE" /\ activations'[a] = "PAUSED"
      BY <1>19 DEF D!PauseActivation, D!ActiveActivation, D!Latest
    <3>2. a \notin D!ActiveActivation => activations'[a] = activations[a]
      BY <1>19 DEF D!PauseActivation
    <3> QED
      BY <3>1, <3>2
  <2>3. PolicyGrows
    BY <2>1, <2>2 DEF PolicyGrows
  <2>4. \A d \in Call : PolicyCallRests(d)'
    BY <1>b, <2>1, <2>3, PolicyOthersRest DEF PolicyRestInv, PolicyTypeInv, D!TypeOK
  <2>5. D!ActivationRestsOnShadow'
    BY <2>1, <2>2 DEF D!ActivationRestsOnShadow, PolicyRestInv, PolicyTypeInv, D!TypeOK
  <2> QED
    BY <2>1, <2>2, <2>4, <2>5 DEF PolicyRestInv, PolicySomeActivation
<1>20. CASE D!CausalDrift(c)
  <2>1. PICK to \in {"PAUSED", "STALE"} :
          D!Enter(c, [D!Idle EXCEPT !.pc = "move", !.seen = policy, !.to = to])
    BY <1>20 DEF D!CausalDrift
  <2>2. PolicyCallRests(c)'
    BY <2>1 DEF D!Enter, PolicyCallRests, D!At, D!Idle, PolicyTypeInv, D!TypeOK
  <2> QED
    BY <1>20, <1>a, <2>1, <2>2, PolicyQuietRest DEF D!CausalDrift, D!Enter
<1>21. CASE D!StartDecide(c)
  <2>0. PICK s \in D!Subject : \E d \in D!DecisionsOn(s) :
          D!Enter(c, [D!Idle EXCEPT !.pc = "policy", !.subject = s,
                                    !.row = [request[s] EXCEPT !.decision = d]])
    BY <1>21 DEF D!StartDecide
  <2>1. call' = [call EXCEPT ![c] = call'[c]] /\ call'[c].pc = "policy"
    BY <2>0 DEF D!Enter, D!Idle, PolicyTypeInv, D!TypeOK
  <2>2. PolicyCallRests(c)'
    BY <2>1 DEF PolicyCallRests, D!At
  <2> QED
    BY <1>21, <1>a, <2>1, <2>2, PolicyQuietRest DEF D!StartDecide
<1>22. CASE D!ReadPolicy(c)
  <2> DEFINE d == call[c].row.decision
  <2>1. /\ call' = [call EXCEPT ![c] = call'[c]]
        /\ call'[c].pc = IF call[c].subject = D!Approval THEN "record" ELSE "settle"
        /\ call'[c].to = D!Target[d]
    BY <1>22 DEF D!ReadPolicy, PolicyTypeInv, D!TypeOK, D!CallState
  <2>2. d \in D!DecisionsOn(call[c].subject) /\ call[c].subject \in D!Subject
    BY <1>22 DEF D!ReadPolicy, PolicyTypeInv, D!TypeOK, PolicyDecided, D!CallState
  <2>3. PolicyCallRests(c)'
    <3>1. CASE call[c].subject = D!Approval
      BY <2>1, <3>1 DEF PolicyCallRests, D!At
    <3>2. CASE call[c].subject # D!Approval
      <4>1. d \in D!ActivationDecision /\ call[c].subject \in D!Evaluation
        BY <2>2, <3>2 DEF D!DecisionsOn, D!Subject
      <4>2. D!Target[d] # "APPROVED_FOR_SHADOW" /\ (D!Target[d] = "ACTIVE" => d = "ACTIVATE")
        BY <4>1 DEF D!ActivationDecision, D!Target
      <4>3. d = "ACTIVATE" => PolicySomeReady'
        BY <1>22, <4>1 DEF D!ReadPolicy, D!Ready, PolicySomeReady
      <4> QED
        BY <2>1, <3>2, <4>2, <4>3 DEF PolicyCallRests, D!At
    <3> QED
      BY <3>1, <3>2
  <2> QED
    BY <1>22, <1>a, <2>1, <2>3, PolicyQuietRest DEF D!ReadPolicy
<1>23. CASE D!SettleRequest(c)
  <2> DEFINE d == call[c].row.decision
  <2>1. PolicyGrows /\ UNCHANGED <<evaluations, activations>>
    BY <1>23 DEF D!SettleRequest, PolicyGrows
  <2>2. /\ call' = [call EXCEPT ![c] = call'[c]]
        /\ call'[c].pc = IF d = "ACTIVATE" THEN "activate" ELSE "move"
        /\ call'[c].to = call[c].to
    BY <1>23 DEF D!SettleRequest, D!GoTo, PolicyTypeInv, D!TypeOK, D!CallState
  <2>3. call[c].to = D!Target[d] /\ d \in D!ApprovalDecision \cup D!ActivationDecision
    BY <1>23 DEF D!SettleRequest, PolicyTypeInv, PolicyDecided, D!DecisionsOn
  <2>4. /\ d = "ACTIVATE" => call[c].to = "ACTIVE" /\ "LIVE" \in granted'
        /\ d # "ACTIVATE" => call[c].to \notin {"ACTIVE", "AWAITING_ACTIVATION"}
    BY <1>23, <2>3 DEF D!SettleRequest, D!ApprovalDecision, D!ActivationDecision, D!Target
  <2>5. /\ call[c].to = "APPROVED_FOR_SHADOW" => "SHADOW" \in granted'
        /\ call[c].to = "ACTIVE" => PolicySomeReady'
    BY <1>23, <2>1 DEF D!SettleRequest, PolicyRestInv, PolicyCallRests, PolicyGrows, PolicySomeReady
  <2>6. PolicyCallRests(c)'
    BY <2>2, <2>4, <2>5 DEF PolicyCallRests, D!At
  <2> QED
    BY <1>23, <2>1, <2>2, <2>6, PolicyQuietRest DEF D!SettleRequest
<1>24. CASE D!MoveAndReturn(c)
  <2> DEFINE to == call[c].to
  <2>1. Still /\ UNCHANGED <<shadowed, recommended>> /\ D!Return(c)
    BY <1>24 DEF D!MoveAndReturn
  <2>2. \A d \in Call : PolicyCallRests(d)'
    BY <1>a, <1>b, <2>1, PolicyOthersRest DEF PolicyRestInv, PolicyTypeInv, D!TypeOK
  <2>3. CASE policy' = policy
    <3>1. D!ActivationRestsOnShadow'
      BY <2>1, <2>3 DEF D!ActivationRestsOnShadow, PolicyRestInv
    <3> QED
      BY <2>1, <2>2, <2>3, <3>1 DEF PolicyRestInv, PolicySomeActivation
  <2>4. CASE policy' # policy
    <3>1. policy'.status = to /\ <<policy.status, to>> \in D!Transitions
      BY <1>24, <2>4 DEF D!MoveAndReturn, D!MayMove, D!Moved
    <3>2. to \in PolicyAdmitted => to = "APPROVED_FOR_SHADOW" \/ policy.status \in PolicyAdmitted
      BY <3>1 DEF D!Transitions, PolicyAdmitted, D!DecisionPolicyState
    <3>3. to \in PolicyAdmitted => "SHADOW" \in granted'
      BY <1>24, <2>1, <3>2 DEF D!MoveAndReturn, PolicyRestInv, PolicyCallRests
    <3>4. /\ to = "AWAITING_ACTIVATION" => PolicySomeEvaluation
          /\ to = "ACTIVE" => PolicySomeReady /\ PolicySomeActivation
      BY <1>24 DEF D!MoveAndReturn, PolicyRestInv, PolicyCallRests
    <3>5. D!ActivationRestsOnShadow'
      BY <2>1, <3>1, <3>4 DEF D!ActivationRestsOnShadow, PolicyRestInv, PolicySomeReady,
         PolicySomeEvaluation,
         PolicySomeActivation
    <3> QED
      BY <2>1, <2>2, <3>1, <3>3, <3>5 DEF PolicyRestInv, PolicySomeActivation
  <2> QED
    BY <2>3, <2>4
<1>25. CASE D!Abort(c)
  BY <1>25, <1>a, <1>b, PolicyQuietRest DEF D!Abort
<1> QED
  BY <1>1, <1>2, <1>3, <1>4, <1>5, <1>6, <1>7, <1>8, <1>9, <1>10, <1>11, <1>12, <1>13, <1>14,
     <1>15, <1>16, <1>17, <1>18, <1>19, <1>20, <1>21, <1>22, <1>23, <1>24, <1>25
  DEF D!ShadowStep, D!LiveStep

\* An empty policy rests on nothing.
LEMMA PolicyRestStarts ==
  ASSUME D!Init
  PROVE  PolicyRestInv
  BY DEF D!Init, PolicyRestInv, PolicyAdmitted, PolicySomeActivation, D!ActivationRestsOnShadow,
     PolicyCallRests, D!At, D!Idle,
     D!NewPolicy

\* Every step, and none, keeps what policies rest on.
LEMMA PolicyRestNext ==
  ASSUME Bounds, PolicyTypeInv, PolicyTypeInv', PolicyRestInv, [D!Next]_(D!vars)
  PROVE  PolicyRestInv'
<1>1. CASE UNCHANGED D!vars
  BY <1>1 DEF D!vars, D!shadowVars, D!liveVars, PolicyRestInv, PolicyAdmitted, PolicySomeActivation,
     D!ActivationRestsOnShadow, PolicyCallRests, PolicySomeReady, PolicySomeEvaluation, D!At
<1>2. CASE D!Next
  BY <1>2, PolicyRestStep DEF D!Next
<1> QED
  BY <1>1, <1>2

\* Steps of a policy are steps of its gate, or leave it alone.
LEMMA PolicyGateStep ==
  ASSUME Bounds, PolicyTypeInv, PolicyRestInv, [D!Next]_(D!vars)
  PROVE  [D!Gate!Next]_(D!Gate!vars)
<1> DEFINE admitted == (IF shadowed THEN {<<"SHADOW", 0>>} ELSE {})
                       \cup {<<"LIVE", a>> : a \in recommended}
           effects == {<<"SHADOW", 0>>} \cup {<<"LIVE", a>> : a \in D!Activation}
<1> USE DEF D!Gate!vars, D!requestVars, D!shadowVars, D!liveVars
<1>1. ASSUME UNCHANGED <<granted, shadowed, recommended>> PROVE UNCHANGED D!Gate!vars
  BY <1>1
<1>2. ASSUME UNCHANGED <<shadowed, recommended>>, NEW s \in {"SHADOW", "LIVE"},
             granted' = granted \cup {s}
      PROVE  D!Gate!Next
  BY <1>2 DEF D!Gate!Next, D!Gate!Grant
<1>3. ASSUME NEW e \in effects, e[1] \in granted, granted' = granted,
             admitted' = admitted \cup {e}
      PROVE  [D!Gate!Next]_(D!Gate!vars)
  <2>1. CASE e \in admitted
    <3>1. admitted' = admitted
      BY <1>3, <2>1
    <3> QED
      BY <1>3, <3>1
  <2>2. CASE e \notin admitted
    BY <1>3, <2>2 DEF D!Gate!Next, D!Gate!Admit
  <2> QED
    BY <2>1, <2>2
<1>4. CASE UNCHANGED D!vars
  BY <1>1, <1>4 DEF D!vars
<1>5. ASSUME NEW c \in Call,
             D!ShadowStep(c) \/ D!LiveStep(c) \/ D!StartDecide(c) \/ D!ReadPolicy(c)
               \/ D!SettleRequest(c) \/ D!MoveAndReturn(c) \/ D!Abort(c)
      PROVE  [D!Gate!Next]_(D!Gate!vars)
  <2>1. CASE D!SaveApprovalRecord(c)
    <3>1. UNCHANGED <<shadowed, recommended>> /\ granted' \in {granted, granted \cup {"SHADOW"}}
      BY <2>1 DEF D!SaveApprovalRecord
    <3> QED
      BY <1>1, <1>2, <3>1
  <2>2. CASE D!SettleRequest(c)
    <3>1. UNCHANGED <<shadowed, recommended>> /\ granted' \in {granted, granted \cup {"LIVE"}}
      BY <2>2 DEF D!SettleRequest
    <3> QED
      BY <1>1, <1>2, <3>1
  <2>3. CASE D!SaveShadowRecord(c)
    <3>1. "SHADOW" \in granted
      BY <2>3 DEF D!SaveShadowRecord, PolicyRestInv, PolicyCallRests
    <3>2. granted' = granted /\ admitted' = admitted \cup {<<"SHADOW", 0>>}
      BY <2>3 DEF D!SaveShadowRecord
    <3> QED
      BY <1>3, <3>1, <3>2
  <2>4. CASE D!SaveRecommendation(c)
    <3> DEFINE a == call[c].activation
    <3>1. a \in D!Activation /\ activations[a] # "NONE"
      BY <2>4 DEF D!SaveRecommendation, PolicyRestInv, PolicyCallRests, PolicyTypeInv, PolicyDecided
    <3>2. "LIVE" \in granted
      BY <3>1 DEF PolicyRestInv, PolicySomeActivation
    <3>3. granted' = granted /\ admitted' = admitted \cup {<<"LIVE", a>>}
      BY <2>4 DEF D!SaveRecommendation
    <3> QED
      BY <1>3, <3>1, <3>2, <3>3
  <2>5. CASE \/ D!StartValidate(c) \/ D!StartEvaluate(c) \/ D!SaveEvaluation(c)
             \/ D!StartRouteApproval(c) \/ D!SaveApprovalRequest(c) \/ D!AwaitApproval(c)
             \/ D!StartShadow(c) \/ D!StartEvaluateShadow(c) \/ D!SaveShadowEvaluation(c)
    BY <1>1, <2>5 DEF D!StartValidate, D!StartEvaluate, D!SaveEvaluation, D!StartRouteApproval,
       D!SaveApprovalRequest, D!AwaitApproval, D!StartShadow, D!StartEvaluateShadow,
       D!SaveShadowEvaluation
  <2>6. CASE \/ D!StartRouteActivation(c) \/ D!SaveActivationRequest(c) \/ D!SaveActivation(c)
             \/ D!StartRecommend(c) \/ D!ReadActivation(c) \/ D!Pause(c) \/ D!PauseActivation(c)
             \/ D!CausalDrift(c)
    BY <1>1, <2>6 DEF D!StartRouteActivation, D!SaveActivationRequest, D!SaveActivation,
       D!StartRecommend,
       D!ReadActivation, D!Pause, D!PauseActivation, D!CausalDrift
  <2>7. CASE D!StartDecide(c) \/ D!ReadPolicy(c) \/ D!MoveAndReturn(c) \/ D!Abort(c)
    BY <1>1, <2>7 DEF D!StartDecide, D!ReadPolicy, D!MoveAndReturn, D!Abort
  <2> QED
    BY <1>5, <2>1, <2>2, <2>3, <2>4, <2>5, <2>6, <2>7 DEF D!ShadowStep, D!LiveStep
<1> QED
  BY <1>4, <1>5 DEF D!Next

(***************************************************************************)
(* The four together: a behaviour is that of one part, and the tables of   *)
(* the others stay as they are.                                            *)
(***************************************************************************)

StrategyInv ==
  /\ part \in {"portfolio", "experiment", "problem", "policy"}
  /\ part = "portfolio" => PortfolioInv
  /\ part = "experiment" => ExperimentInv
  /\ part = "problem" => ProblemInv
  /\ part = "policy" => PolicyTypeInv /\ PolicyRestInv

\* What a step is: one of the part that is there, or none.
StrategyGoes ==
  /\ part' = part
  /\ IF part = "portfolio" THEN [P!Next]_(P!vars)
     ELSE UNCHANGED <<portfolio, reserved, reservation, program, completion, verdicts>>
  /\ IF part = "experiment" THEN [E!Next]_(E!vars)
     ELSE UNCHANGED <<experiment, usage, objective, drifted, sponsored>>
  /\ IF part = "problem" THEN [S!Next]_(S!vars)
     ELSE UNCHANGED <<problem, sets, results, runs, package, proposed, truth, selected>>
  /\ IF part = "policy" THEN [D!Next]_(D!vars)
     ELSE UNCHANGED <<policy, evaluated, shadowed, evaluations, activations, recommended, granted>>

\* A step is one of the part that is there, and leaves the tables of the others alone.
LEMMA StrategySteps ==
  ASSUME [Next]_vars
  PROVE  StrategyGoes
<1> USE DEF portfolioOnly, experimentOnly, problemOnly, policyOnly
<1>1. CASE UNCHANGED vars
  <2>1. UNCHANGED part /\ UNCHANGED P!vars /\ UNCHANGED E!vars /\ UNCHANGED S!vars
          /\ UNCHANGED D!vars
    BY <1>1 DEF vars
  <2>2. /\ UNCHANGED <<portfolio, reserved, reservation, program, completion, verdicts>>
        /\ UNCHANGED <<experiment, usage, objective, drifted, sponsored>>
    BY <2>1 DEF P!vars, P!planVars, P!requestVars, P!budgetVars, P!programVars,
       E!vars, E!planVars, E!requestVars, E!outcomeVars
  <2>3. /\ UNCHANGED <<problem, sets, results, runs, package, proposed, truth, selected>>
        /\ UNCHANGED <<policy, evaluated, shadowed, evaluations, activations, recommended, granted>>
    BY <2>1 DEF S!vars, S!setVars, S!requestVars, S!outcomeVars,
       D!vars, D!requestVars, D!shadowVars, D!liveVars
  <2> QED
    BY <2>1, <2>2, <2>3 DEF StrategyGoes
<1>2. CASE Next
  <2>1. CASE part = "portfolio" /\ P!Next /\ UNCHANGED <<experimentOnly, problemOnly, policyOnly>>
    BY <1>2, <2>1 DEF StrategyGoes, Next
  <2>2. CASE part = "experiment" /\ E!Next /\ UNCHANGED <<portfolioOnly, problemOnly, policyOnly>>
    BY <1>2, <2>2 DEF StrategyGoes, Next
  <2>3. CASE part = "problem" /\ S!Next /\ UNCHANGED <<portfolioOnly, experimentOnly, policyOnly>>
    BY <1>2, <2>3 DEF StrategyGoes, Next
  <2>4. CASE part = "policy" /\ D!Next /\ UNCHANGED <<portfolioOnly, experimentOnly, problemOnly>>
    BY <1>2, <2>4 DEF StrategyGoes, Next
  <2> QED
    BY <1>2, <2>1, <2>2, <2>3, <2>4 DEF Next
<1> QED
  BY <1>1, <1>2

\* In every reachable state of the strategic layers, for every set of concurrent calls
\* and every bound, the part that is there keeps its invariant: what its rows say of
\* each other, and what a call between two statements of its service relies on.
THEOREM StrategyInvariant == Spec => []StrategyInv
<1>1. Init => StrategyInv
  BY StrategyAssumption, PortfolioStarts, ExperimentStarts, ProblemStarts, PolicyTypesStart,
     PolicyRestStarts DEF Init, StrategyInv
<1>2. StrategyInv /\ [Next]_vars => StrategyInv'
  <2> SUFFICES ASSUME StrategyInv, StrategyGoes PROVE StrategyInv'
    BY StrategySteps
  <2>1. CASE part = "portfolio"
    <3>1. PortfolioInv'
      BY <2>1, StrategyAssumption, PortfolioStep DEF StrategyInv, StrategyGoes
    <3> QED
      BY <2>1, <3>1 DEF StrategyInv, StrategyGoes
  <2>2. CASE part = "experiment"
    <3>1. ExperimentInv'
      BY <2>2, StrategyAssumption, ExperimentStep DEF StrategyInv, StrategyGoes
    <3> QED
      BY <2>2, <3>1 DEF StrategyInv, StrategyGoes
  <2>3. CASE part = "problem"
    <3>1. ProblemInv'
      BY <2>3, StrategyAssumption, ProblemStep DEF StrategyInv, StrategyGoes
    <3> QED
      BY <2>3, <3>1 DEF StrategyInv, StrategyGoes
  <2>4. CASE part = "policy"
    <3>1. PolicyTypeInv'
      BY <2>4, StrategyAssumption, PolicyTypesStep DEF StrategyInv, StrategyGoes
    <3>2. PolicyRestInv'
      BY <2>4, <3>1, StrategyAssumption, PolicyRestNext DEF StrategyInv, StrategyGoes
    <3> QED
      BY <2>4, <3>1, <3>2 DEF StrategyInv, StrategyGoes
  <2> QED
    BY <2>1, <2>2, <2>3, <2>4 DEF StrategyInv
<1> QED
  BY <1>1, <1>2, PTL DEF Spec

\* Every table and every call of the service that is there holds what its columns and
\* its code allow, in every reachable state.
THEOREM StrategyTypes == Spec => []TypeOK
<1>1. StrategyInv => TypeOK
  <2> SUFFICES ASSUME StrategyInv PROVE TypeOK
    OBVIOUS
  <2>1. CASE part = "portfolio"
    BY <2>1 DEF StrategyInv, PortfolioInv, TypeOK
  <2>2. CASE part = "experiment"
    BY <2>2 DEF StrategyInv, ExperimentInv, TypeOK
  <2>3. CASE part = "problem"
    BY <2>3 DEF StrategyInv, ProblemInv, TypeOK
  <2>4. CASE part = "policy"
    BY <2>4 DEF StrategyInv, PolicyTypeInv, TypeOK
  <2> QED
    BY <2>1, <2>2, <2>3, <2>4 DEF StrategyInv
<1> QED
  BY <1>1, StrategyInvariant, PTL

\* portfolio/service.ts materializePrograms and verify, experiments/service.ts
\* compileExecution: no program without its reservation, no reservation above the
\* ceiling, no completion without its record and no experiment's plan or objective
\* without its charge, whatever calls interleave and wherever they abort.
THEOREM SpendingAccounted == Spec => []SpendingIsAccounted
<1>1. StrategyInv => SpendingIsAccounted
  <2> SUFFICES ASSUME StrategyInv PROVE SpendingIsAccounted
    OBVIOUS
  <2>1. CASE part = "portfolio"
    BY <2>1, StrategyAssumption, PortfolioEscrow DEF StrategyInv, SpendingIsAccounted
  <2>2. CASE part = "experiment"
    BY <2>2 DEF StrategyInv, ExperimentInv, ExperimentRows, SpendingIsAccounted
  <2>3. CASE part \notin {"portfolio", "experiment"}
    BY <2>3 DEF SpendingIsAccounted
  <2> QED
    BY <2>1, <2>2, <2>3
<1> QED
  BY <1>1, StrategyInvariant, PTL

\* scenarios/service.ts validatePackage to materializePortfolioProposal: a selection
\* rests on a complete package of the set that is current;
\* decision-policies/service.ts decideActivation: no policy is ACTIVE, and nothing is
\* recommended, without the shadow that was watched, evaluated and activated on.
THEOREM ChoicesRest == Spec => []ChoicesRestOnEvidence
<1>1. StrategyInv => ChoicesRestOnEvidence
  BY DEF StrategyInv, ProblemInv, ProblemRows, PolicyRestInv, ChoicesRestOnEvidence
<1> QED
  BY <1>1, StrategyInvariant, PTL

(***************************************************************************)
(* The promises of the gates                                               *)
(***************************************************************************)

\* Empty tables are where a gate starts.
LEMMA GatesStart ==
  ASSUME Init
  PROVE  P!Gate!Init /\ E!Gate!Init /\ S!Gate!Init /\ D!Gate!Init
<1>1. \A v \in P!Plan : v # 0
  BY StrategyAssumption DEF Bounds, P!Plan
<1>2. verdicts = {} /\ program = [s \in P!Slot |-> "NONE"] /\ completion = 0
  BY DEF Init, P!Init, NoPortfolio
<1>3. sponsored = {} /\ objective = {}
  BY DEF Init, E!Init, NoExperiment
<1>4. selected = {} /\ proposed = {}
  BY DEF Init, S!Init, NoProblem
<1>5. shadowed = FALSE /\ recommended = {} /\ granted = {}
  BY DEF Init, D!Init, NoPolicy
<1>6. P!Gate!Init
  BY <1>1, <1>2 DEF P!Gate!Init
<1>7. E!Gate!Init
  BY <1>3 DEF E!Gate!Init
<1>8. S!Gate!Init
  BY <1>4 DEF S!Gate!Init
<1>9. D!Gate!Init
  BY <1>5 DEF D!Gate!Init
<1> QED
  BY <1>6, <1>7, <1>8, <1>9

\* The services of portfolios, experiments, decision problems and policies keep the
\* promise of AuthorizationGate: what an allocator, a sponsor, a selector or an
\* activator has not granted never comes into being, for every step of every call.
THEOREM StrategyImplementsGate == Spec => ImplementsGate
<1>1. StrategyInv /\ [Next]_vars => [P!Gate!Next]_(P!Gate!vars)
  <2> SUFFICES ASSUME StrategyInv, StrategyGoes PROVE [P!Gate!Next]_(P!Gate!vars)
    BY StrategySteps
  <2>1. CASE part = "portfolio"
    BY <2>1, StrategyAssumption, PortfolioGateStep DEF StrategyInv, StrategyGoes
  <2>2. CASE part # "portfolio"
    <3>1. UNCHANGED <<verdicts, program, completion>>
      BY <2>2 DEF StrategyGoes
    <3> QED
      BY <3>1 DEF P!Gate!vars
  <2> QED
    BY <2>1, <2>2
<1>2. StrategyInv /\ [Next]_vars => [E!Gate!Next]_(E!Gate!vars)
  <2> SUFFICES ASSUME StrategyInv, StrategyGoes PROVE [E!Gate!Next]_(E!Gate!vars)
    BY StrategySteps
  <2>1. CASE part = "experiment"
    BY <2>1, StrategyAssumption, ExperimentGateStep DEF StrategyInv, StrategyGoes
  <2>2. CASE part # "experiment"
    BY <2>2 DEF StrategyGoes, E!Gate!vars
  <2> QED
    BY <2>1, <2>2
<1>3. StrategyInv /\ [Next]_vars => [S!Gate!Next]_(S!Gate!vars)
  <2> SUFFICES ASSUME StrategyInv, StrategyGoes PROVE [S!Gate!Next]_(S!Gate!vars)
    BY StrategySteps
  <2>1. CASE part = "problem"
    BY <2>1, StrategyAssumption, ProblemGateStep DEF StrategyInv, StrategyGoes
  <2>2. CASE part # "problem"
    BY <2>2 DEF StrategyGoes, S!Gate!vars
  <2> QED
    BY <2>1, <2>2
<1>4. StrategyInv /\ [Next]_vars => [D!Gate!Next]_(D!Gate!vars)
  <2> SUFFICES ASSUME StrategyInv, StrategyGoes PROVE [D!Gate!Next]_(D!Gate!vars)
    BY StrategySteps
  <2>1. CASE part = "policy"
    BY <2>1, StrategyAssumption, PolicyGateStep DEF StrategyInv, StrategyGoes
  <2>2. CASE part # "policy"
    <3>1. UNCHANGED <<granted, shadowed, recommended>>
      BY <2>2 DEF StrategyGoes
    <3> QED
      BY <3>1 DEF D!Gate!vars
  <2> QED
    BY <2>1, <2>2
<1>5. Init => P!Gate!Init /\ E!Gate!Init /\ S!Gate!Init /\ D!Gate!Init
  BY GatesStart
<1> QED
  BY <1>1, <1>2, <1>3, <1>4, <1>5, StrategyInvariant, PTL
  DEF Spec, ImplementsGate, P!ImplementsGate, E!ImplementsGate, S!ImplementsGate,
      D!ImplementsGate, P!Gate!Spec, E!Gate!Spec, S!Gate!Spec, D!Gate!Spec
=============================================================================
