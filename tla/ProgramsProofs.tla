--------------------------- MODULE ProgramsProofs ---------------------------
(***************************************************************************)
(* Proofs about Programs, for any finite number of concurrent calls, plans *)
(* of any size and all bounds: types, the accounts of a program, and that  *)
(* it implements an authorization gate.                                    *)
(***************************************************************************)
EXTENDS Programs, FiniteSetTheorems, TLAPS

WorkStatus == {"NONE", "ELIGIBLE", "RUNNING", "SUCCEEDED", "FAILED"}

IInv == TypeOK /\ ProgramInv

\* The rows a call decides on.
RowsStay ==
  UNCHANGED <<program, plans, approval, verdicts, reserved, reservation, lineage, child,
              completion>>

\* What only has a type.
RestOK ==
  /\ issued \in 0 .. MaxIssues
  /\ store \in [Call -> [Plan -> 0 .. MaxIssues]]
  /\ known \subseteq 1 .. MaxIssues
  /\ faults \in 0 .. MaxFaults

\* The work items keep to the plans there are.
ItemsOK(w) == /\ w \in [Item -> WorkStatus]
              /\ \A i \in Item : w[i] # "NONE" => i[2] <= plans

(***************************************************************************)
(* Values                                                                  *)
(***************************************************************************)

LEMMA ConstantTypes ==
  /\ Nodes \in Nat /\ Ceiling \in Nat /\ MaxRevisions \in Nat /\ MaxPlans \in Nat
  /\ MaxIssues \in Nat /\ MaxFaults \in Nat
BY ProgramsAssumption

\* The plan a work item is bound to.
LEMMA ItemPlans ==
  /\ \A i \in Item : i[2] \in Nat /\ i # NoItem
  /\ \A i \in Item : i[1] # "DECOMPOSE" => i[2] \in Plan
  /\ NoItem[2] = 0
<1>1. \A i \in Item : i[1] # "DECOMPOSE" => i[2] \in Plan
  BY DEF Item
<1>2. \A i \in Item : i[2] \in Nat /\ i[1] # "NONE"
  BY ConstantTypes DEF Item, Plan
<1> QED
  BY <1>1, <1>2 DEF NoItem

LEMMA RecordTypes ==
  /\ NewProgram \in Program /\ NoApproval \in Approval /\ Idle \in CallState
  /\ Idle.pc = "idle" /\ Idle.seen = NewProgram /\ Idle.item = NoItem
  /\ NewProgram.revision = 1
<1>1. NewProgram \in Program /\ NoApproval \in Approval /\ NewProgram.revision = 1
  BY ConstantTypes DEF NewProgram, NoApproval, Program, ProgramState, Approval
<1>2. Idle \in CallState
  BY <1>1, ConstantTypes DEF Idle, CallState, PC
<1> QED
  BY <1>1, <1>2 DEF Idle

\* What a call works with.
LEMMA CallTypes ==
  ASSUME TypeOK, NEW c \in Call
  PROVE  /\ call[c] \in CallState /\ call \in [Call -> CallState]
         /\ call[c].item \in Item \cup {NoItem}
         /\ call[c].seen \in Program
         /\ call[c].plan \in 0 .. MaxPlans
         /\ call[c].approval \in Approval
         /\ call[c].decision \in {"NONE", "APPROVE", "REJECT"}
         /\ call[c].node \in 0 .. Nodes + 1
         /\ call[c].linked \subseteq Node
         /\ call[c].read \in 0 .. Ceiling
         /\ call[c].outcome \in {"NONE", "LINKED", "FAILED"}
         /\ call[c].seen.revision \in Nat /\ call[c].seen.tried \in Nat
         /\ call[c].seen.plan \in 0 .. MaxPlans /\ call[c].seen.status \in ProgramState
<1>1. call[c] \in CallState /\ call \in [Call -> CallState]
  BY DEF TypeOK
<1>2. call[c].seen \in Program
  BY <1>1 DEF CallState
<1> QED
  BY <1>1, <1>2 DEF CallState, Program

LEMMA SlotsAreFinite ==
  ASSUME TypeOK
  PROVE  IsFiniteSet(reservation) /\ Cardinality(reservation) \in Nat
<1>1. IsFiniteSet(Plan) /\ IsFiniteSet(Node)
  BY ConstantTypes, FS_Interval DEF Plan, Node
<1>2. IsFiniteSet(Slot)
  BY <1>1, FS_Product DEF Slot
<1> QED
  BY <1>2, FS_Subset, FS_CardinalityType DEF TypeOK

(***************************************************************************)
(* Steps that keep what the calls know                                     *)
(***************************************************************************)

\* The row moves on, plans, decisions and reservations are added, and a child that is
\* completed stays so.
Grows ==
  /\ program' = program \/ program'.revision > program.revision
  /\ plans <= plans'
  /\ verdicts \subseteq verdicts'
  /\ reservation \subseteq reservation'
  /\ \A s \in Slot : child[s] = "COMPLETED" => child'[s] = "COMPLETED"

LEMMA OldRowsStayOld ==
  ASSUME TypeOK, TypeOK', Grows, NEW p \in Program, OldRow(p)
  PROVE  p.revision <= program'.revision /\ (p.revision = program'.revision => p = program')
BY DEF TypeOK, Grows, OldRow, Program

LEMMA OthersKeep ==
  ASSUME TypeOK, TypeOK', Grows, NEW c \in Call, CallInv(c), call'[c] = call[c]
  PROVE  CallInv(c)'
<1>1. OldRow(call[c].seen)'
  BY OldRowsStayOld, CallTypes DEF CallInv, OldRow
<1>2. plans \in Nat /\ plans' \in Nat /\ (plans # 0 => plans' # 0)
  BY ConstantTypes DEF TypeOK, Grows
<1>3. call'[c].item[2] <= plans'
  BY <1>2, CallTypes, ItemPlans DEF Grows, CallInv
<1>4. \A v : Approved(v) => Approved(v)'
  BY DEF Approved, Grows
<1>5. call[c].pc = "complete" => \A n \in Node : child'[<<call[c].plan, n>>] = "COMPLETED"
  <2>1. call[c].pc = "complete" => \A n \in Node : <<call[c].plan, n>> \in Slot
    BY DEF CallInv, Slot
  <2> QED
    BY <2>1 DEF CallInv, Grows
<1>6. call[c].pc \in {"admit", "link"} => SlotOf(c)' \in reservation'
  BY DEF CallInv, Grows, SlotOf
<1>7. Approved(call[c].plan) => Approved(call[c].plan)'
  BY DEF Approved, Grows
<1> QED
  BY <1>1, <1>2, <1>3, <1>5, <1>6, <1>7 DEF CallInv

LEMMA InvFromStep ==
  ASSUME IInv, TypeOK', Grows, NEW c \in Call,
         \A j \in Call \ {c} : call'[j] = call[j],
         CallInv(c)', RowsInv', ProgramIsAccounted', LedgerCovers'
  PROVE  IInv'
BY OthersKeep DEF IInv, ProgramInv

\* Nobody begins to save a reservation.
LEMMA LedgerStays ==
  ASSUME IsFiniteSet(Call), IInv, UNCHANGED <<reserved, reservation>>, NEW c \in Call,
         \A j \in Call \ {c} : call'[j] = call[j],
         call'[c] = call[c] \/ call'[c].pc # "reserve"
  PROVE  LedgerCovers'
<1> DEFINE S == {j \in Call : call[j].pc = "reserve"}
           T == {j \in Call : call'[j].pc = "reserve"}
<1>1. T \subseteq S /\ IsFiniteSet(S)
  BY FS_Subset
<1>2. Cardinality(T) <= Cardinality(S) /\ Cardinality(T) \in Nat /\ Cardinality(S) \in Nat
  BY <1>1, FS_Subset, FS_CardinalityType
<1>3. Cardinality(reservation) + Cardinality(S) <= reserved
  BY DEF IInv, ProgramInv, LedgerCovers
<1>4. Cardinality(reservation) \in Nat /\ reserved \in Nat
  BY SlotsAreFinite, ConstantTypes DEF IInv, TypeOK
<1>5. Cardinality(reservation) + Cardinality(T) <= reserved
  BY <1>2, <1>3, <1>4
<1> QED
  BY <1>5 DEF LedgerCovers

\* A step that writes no row but work items.
LEMMA QuietStep ==
  ASSUME IsFiniteSet(Call), IInv, RowsStay, RestOK', ItemsOK(work'), NEW c \in Call,
         call' \in [Call -> CallState],
         \A j \in Call \ {c} : call'[j] = call[j],
         \/ call'[c] = call[c]
         \/ call'[c].pc # "reserve" /\ CallInv(c)'
  PROVE  IInv'
<1>1. TypeOK'
  BY DEF IInv, TypeOK, RowsStay, RestOK, ItemsOK, WorkStatus
<1>2. Grows
  BY ConstantTypes DEF Grows, RowsStay, IInv, TypeOK
<1>3. CallInv(c)'
  BY <1>1, <1>2, OthersKeep DEF IInv, ProgramInv
<1>4. RowsInv'
  BY DEF IInv, ProgramInv, RowsStay, RowsInv, ItemsOK, OldRow, Approved
<1>5. ProgramIsAccounted'
  BY DEF IInv, ProgramInv, RowsStay, ProgramIsAccounted, EscrowCoversChildren,
         CompletionIsRecorded
<1>6. LedgerCovers'
  BY LedgerStays DEF RowsStay
<1> QED
  BY <1>1, <1>2, <1>3, <1>4, <1>5, <1>6, InvFromStep
(***************************************************************************)
(* The ways a step ends                                                    *)
(***************************************************************************)

\* A call that returns or throws: nothing of what it knew is left.
LEMMA CallEnds ==
  ASSUME IInv, NEW c \in Call,
         \/ Return(c) \/ Throw(c) \/ ThrowDatabaseError(c) \/ Finish(c, "SUCCEEDED")
  PROVE  /\ call' \in [Call -> CallState] /\ ItemsOK(work')
         /\ \A j \in Call \ {c} : call'[j] = call[j]
         /\ call'[c].pc \in {"idle", "done"}
         /\ call'[c].seen = NewProgram /\ call'[c].item[2] <= plans
<1> DEFINE done == [Idle EXCEPT !.pc = "done", !.item = call[c].item]
<1>1. /\ call[c].item \in Item \cup {NoItem} /\ call[c].item[2] <= plans
      /\ call \in [Call -> CallState] /\ plans \in Nat /\ NoItem[2] <= plans
  BY CallTypes, ItemPlans, ConstantTypes DEF IInv, ProgramInv, CallInv, TypeOK
<1>2. done \in CallState /\ done.pc = "done" /\ done.seen = NewProgram /\ done.item = call[c].item
  <2>1. Idle \in CallState /\ "done" \in PC
    BY RecordTypes DEF PC
  <2> QED
    BY <1>1, <2>1, RecordTypes DEF CallState
<1>3. call' = [call EXCEPT ![c] = Idle] \/ call' = [call EXCEPT ![c] = done]
  BY DEF Return, Throw, ThrowDatabaseError, Finish
<1>4. \/ work' = work
      \/ /\ call[c].item # NoItem
         /\ \E r \in {"ELIGIBLE", "SUCCEEDED", "FAILED"} :
              work' = [work EXCEPT ![call[c].item] = r]
  BY DEF Return, Throw, ThrowDatabaseError, Finish
<1>5. ItemsOK(work)
  BY DEF IInv, TypeOK, ProgramInv, RowsInv, ItemsOK, WorkStatus
<1>6. ItemsOK(work')
  BY <1>1, <1>4, <1>5 DEF ItemsOK, WorkStatus
<1> QED
  BY <1>1, <1>2, <1>3, <1>6, RecordTypes

LEMMA EndedKnowsNothing ==
  ASSUME NEW c \in Call, call'[c].pc \in {"idle", "done"}, call'[c].seen = NewProgram,
         call'[c].item[2] <= plans', RowsInv'
  PROVE  CallInv(c)'
BY DEF CallInv, RowsInv

LEMMA EndStep ==
  ASSUME IsFiniteSet(Call), IInv, RowsStay, RestOK', NEW c \in Call,
         \/ Return(c) \/ Throw(c) \/ ThrowDatabaseError(c) \/ Finish(c, "SUCCEEDED")
  PROVE  IInv'
<1>1. RowsInv'
  BY CallEnds DEF IInv, ProgramInv, RowsStay, RowsInv, ItemsOK, OldRow, Approved
<1>2. CallInv(c)' /\ call'[c].pc # "reserve"
  BY <1>1, CallEnds, EndedKnowsNothing DEF RowsStay
<1> QED
  BY <1>2, CallEnds, QuietStep

\* A call that goes on, with l.
LEMMA GoStep ==
  ASSUME IsFiniteSet(Call), IInv, RowsStay, RestOK', NEW c \in Call, NEW l \in CallState,
         call' = [call EXCEPT ![c] = l], work' = work,
         l.pc # "reserve", CallInv(c)'
  PROVE  IInv'
<1>1. ItemsOK(work')
  BY DEF IInv, TypeOK, ProgramInv, RowsInv, ItemsOK, WorkStatus
<1>2. /\ call' \in [Call -> CallState]
      /\ \A j \in Call \ {c} : call'[j] = call[j]
      /\ call'[c] = l
  BY DEF IInv, TypeOK
<1> QED
  BY <1>1, <1>2, QuietStep

\* An item is dispatched, and the call begins in l or refuses the item.
LEMMA DispatchStep ==
  ASSUME IsFiniteSet(Call), IInv, RowsStay, RestOK', NEW c \in Call, NEW i \in Item,
         work[i] = "ELIGIBLE",
         \/ /\ call' = call
            /\ \E s \in WorkStatus : work' = [work EXCEPT ![i] = s]
         \/ \E l \in CallState :
              Enter(c, i, l) /\ l.pc # "reserve" /\ CallInv(c)'
  PROVE  IInv'
<1>1. i[2] <= plans /\ work \in [Item -> WorkStatus]
  BY DEF IInv, TypeOK, ProgramInv, RowsInv, WorkStatus
<1>2. \E s \in WorkStatus : work' = [work EXCEPT ![i] = s]
  BY DEF Enter, WorkStatus
<1>3. ItemsOK(work')
  BY <1>1, <1>2 DEF ItemsOK, IInv, ProgramInv, RowsInv
<1>4. CASE call' = call
  BY <1>3, <1>4, QuietStep DEF IInv, TypeOK
<1>5. ASSUME NEW l \in CallState, Enter(c, i, l), l.pc # "reserve", CallInv(c)'
      PROVE  IInv'
  <2>1. [l EXCEPT !.item = i] \in CallState /\ [l EXCEPT !.item = i].pc = l.pc
    BY DEF CallState
  <2>2. /\ call' \in [Call -> CallState]
        /\ \A j \in Call \ {c} : call'[j] = call[j]
        /\ call'[c].pc # "reserve"
    BY <1>5, <2>1 DEF Enter, IInv, TypeOK
  <2> QED
    BY <1>3, <1>5, <2>2, QuietStep
<1> QED
  BY <1>4, <1>5

\* The row is written by a call that still has its revision, and it is not COMPLETED.
LEMMA RowStep ==
  ASSUME IsFiniteSet(Call), IInv, RestOK', NEW c \in Call,
         UNCHANGED <<plans, approval, verdicts, reserved, reservation, lineage, child,
                     completion>>,
         program.revision = call[c].seen.revision, call[c].seen.status # "COMPLETED",
         program' \in Program, program'.revision = call[c].seen.revision + 1,
         program'.status # "COMPLETED",
         call' \in [Call -> CallState], ItemsOK(work'),
         \A j \in Call \ {c} : call'[j] = call[j],
         call'[c].pc # "reserve",
         \/ call'[c].pc \in {"idle", "done"} /\ call'[c].seen = NewProgram
                                             /\ call'[c].item[2] <= plans
         \/ CallInv(c)'
  PROVE  IInv'
<1>1. program = call[c].seen /\ program.revision \in Nat
  BY CallTypes DEF IInv, ProgramInv, CallInv, OldRow
<1>2. TypeOK'
  BY DEF IInv, TypeOK, RestOK, ItemsOK, WorkStatus
<1>3. Grows
  BY <1>1, ConstantTypes DEF Grows, IInv, TypeOK
<1>4. RowsInv'
  <2>1. OldRow(NewProgram)'
    BY <1>2, <1>3, OldRowsStayOld, RecordTypes DEF IInv, ProgramInv, RowsInv, OldRow
  <2> QED
    BY <2>1 DEF IInv, ProgramInv, RowsInv, ItemsOK, Approved
<1>5. CallInv(c)'
  BY <1>4, EndedKnowsNothing
<1>6. ProgramIsAccounted'
  BY <1>1 DEF IInv, ProgramInv, ProgramIsAccounted, EscrowCoversChildren, CompletionIsRecorded
<1>7. LedgerCovers'
  BY LedgerStays
<1> QED
  BY <1>2, <1>3, <1>4, <1>5, <1>6, <1>7, InvFromStep

\* No transition leads out of COMPLETED.
LEMMA CompletedIsFinal ==
  \A p, status : MayTransition(p, status) => p.status # "COMPLETED"
BY DEF MayTransition, Transitions

LEMMA TransitionStep ==
  ASSUME IsFiniteSet(Call), IInv, RestOK', NEW c \in Call, NEW new \in Program,
         UNCHANGED <<plans, approval, verdicts, reserved, reservation, lineage, child,
                     completion>>,
         new.revision = call[c].seen.revision + 1, new.status # "COMPLETED",
         TransitionOrThrow(c, new)
  PROVE  IInv'
<1>1. CASE MayTransition(call[c].seen, new.status)
  <2>1. program' = new /\ Return(c)
    BY <1>1 DEF TransitionOrThrow
  <2>2. program.revision = call[c].seen.revision /\ call[c].seen.status # "COMPLETED"
    BY <1>1, CompletedIsFinal DEF MayTransition
  <2>3. /\ call' \in [Call -> CallState] /\ ItemsOK(work')
        /\ \A j \in Call \ {c} : call'[j] = call[j]
        /\ call'[c].pc \in {"idle", "done"}
        /\ call'[c].seen = NewProgram /\ call'[c].item[2] <= plans
    BY <2>1, CallEnds
  <2> QED
    BY <2>1, <2>2, <2>3, RowStep
<1>2. CASE ~MayTransition(call[c].seen, new.status)
  BY <1>2, EndStep DEF TransitionOrThrow, RowsStay
<1> QED
  BY <1>1, <1>2

\* The row a transition writes.
LEMMA UpdatedType ==
  ASSUME NEW p \in Program, NEW status \in ProgramState
  PROVE  /\ Updated(p, status) \in Program
         /\ Updated(p, status).status = status
         /\ Updated(p, status).revision = p.revision + 1
         /\ Updated(p, status).tried = p.tried
         /\ Updated(p, status).plan = p.plan
         /\ [Updated(p, status) EXCEPT !.tried = @ + 1] \in Program
         /\ [Updated(p, status) EXCEPT !.tried = @ + 1].revision = p.revision + 1
         /\ [Updated(p, status) EXCEPT !.tried = @ + 1].status = status
<1>1. p.revision + 1 \in Nat /\ p.tried + 1 \in Nat
  BY DEF Program
<1> QED
  BY <1>1 DEF Updated, Program

\* A transition after which the call goes on, with the row it has written or, when the
\* answer of the database is lost, without it.
LEMMA TransitionGoesOn ==
  ASSUME IsFiniteSet(Call), IInv, RestOK', NEW c \in Call,
         UNCHANGED <<plans, approval, verdicts, reserved, reservation, lineage, child,
                     completion>>,
         NEW status, NEW pc,
         \/ status = "DECOMPOSING" /\ pc = "model"
         \/ status = "VALIDATING" /\ pc = "await"
         \/ status = "VERIFYING" /\ pc = "prove" /\ plans # 0
         \/ status = "VERIFYING" /\ pc = "reread" /\ plans # 0,
         \/ TransitionAndGoTo(c, status, pc)
         \/ /\ MayTransition(call[c].seen, status) /\ pc = "reread"
            /\ program' = Updated(call[c].seen, status)
            /\ GoTo(c, pc)
  PROVE  IInv'
<1>1. CASE ~MayTransition(call[c].seen, status)
  BY <1>1, EndStep DEF TransitionAndGoTo, RowsStay
<1>2. CASE MayTransition(call[c].seen, status)
  <2> DEFINE new == Updated(call[c].seen, status)
             a   == [call[c] EXCEPT !.pc = pc, !.seen = new]
             b   == [call[c] EXCEPT !.pc = pc]
  <2>1. status \in ProgramState \ {"COMPLETED"} /\ pc \in {"model", "await", "prove", "reread"}
    BY DEF ProgramState
  <2>2. /\ new \in Program /\ new.status = status
        /\ new.revision = call[c].seen.revision + 1
    BY <2>1, UpdatedType, CallTypes DEF IInv
  <2> HIDE DEF new
  <2>3. program' = new /\ work' = work
    BY <1>2 DEF new, TransitionAndGoTo, GoTo
  <2>4. pc \in PC /\ call[c] \in CallState
    BY <2>1, CallTypes DEF PC, IInv
  <2>5. /\ a \in CallState /\ a.pc = pc /\ a.item = call[c].item /\ a.seen = new
        /\ b \in CallState /\ b.pc = pc /\ b.item = call[c].item /\ b.seen = call[c].seen
    BY <2>2, <2>4 DEF CallState
  <2>6. /\ call' \in [Call -> CallState]
        /\ \A j \in Call \ {c} : call'[j] = call[j]
        /\ call'[c].pc = pc /\ call'[c].item = call[c].item
        /\ call'[c].seen = new \/ (call'[c].seen = call[c].seen /\ pc = "reread")
    <3>1. call \in [Call -> CallState]
      BY CallTypes DEF IInv
    <3>2. CASE call' = [call EXCEPT ![c] = a]
      BY <2>5, <3>1, <3>2
    <3>3. CASE call' = [call EXCEPT ![c] = b] /\ pc = "reread"
      BY <2>5, <3>1, <3>3
    <3>4. \/ call' = [call EXCEPT ![c] = a]
          \/ call' = [call EXCEPT ![c] = b] /\ pc = "reread"
      BY <1>2, <2>3, <3>1 DEF TransitionAndGoTo, GoTo, new
    <3> QED
      BY <3>2, <3>3, <3>4
  <2>7. program = call[c].seen /\ call[c].seen.status # "COMPLETED"
    BY <1>2, CompletedIsFinal DEF MayTransition, IInv, ProgramInv, CallInv, OldRow
  <2>8. CallInv(c)'
    <3>1. call'[c].item[2] <= plans'
      BY <2>6 DEF IInv, ProgramInv, CallInv
    <3>2. new.revision \in Nat /\ call[c].seen.revision \in Nat
      BY <2>2, CallTypes DEF Program, IInv
    <3>4. OldRow(call[c].seen)'
      BY <2>2, <2>3, <2>6, <3>2 DEF OldRow
    <3> HIDE DEF a, b
    <3>5. pc = "model" => call'[c].seen.status = "DECOMPOSING"
      BY <2>2, <2>6
    <3>6. pc \in {"prove", "reread"} => plans' # 0
      OBVIOUS
    <3> QED
      BY <2>1, <2>6, <3>1, <3>4, <3>5, <3>6 DEF CallInv, OldRow
  <2>9. ItemsOK(work')
    BY <2>3 DEF IInv, TypeOK, ProgramInv, RowsInv, ItemsOK, WorkStatus
  <2> QED
    BY <2>1, <2>2, <2>3, <2>6, <2>7, <2>8, <2>9, RowStep
<1> QED
  BY <1>1, <1>2
LEMMA RestStays ==
  ASSUME IInv, UNCHANGED <<issued, store, known, faults>>
  PROVE  RestOK'
BY DEF IInv, TypeOK, RestOK

\* What a call begins with.
LEMMA Beginning ==
  ASSUME IInv, NEW pc \in PC
  PROVE  /\ [Idle EXCEPT !.pc = pc] \in CallState
         /\ [Idle EXCEPT !.pc = pc].pc = pc /\ [Idle EXCEPT !.pc = pc].seen = NewProgram
         /\ [Idle EXCEPT !.seen = program, !.pc = pc] \in CallState
         /\ [Idle EXCEPT !.seen = program, !.pc = pc].pc = pc
         /\ [Idle EXCEPT !.seen = program, !.pc = pc].seen = program
         /\ [Idle EXCEPT !.pc = pc, !.seen = program] = [Idle EXCEPT !.seen = program, !.pc = pc]
<1>1. Idle \in CallState /\ program \in Program /\ Idle.seen = NewProgram
  BY RecordTypes DEF IInv, TypeOK
<1> QED
  BY <1>1 DEF CallState

LEMMA BeginningWithPlan ==
  ASSUME IInv, NEW pc \in PC, NEW v \in 0 .. MaxPlans
  PROVE  LET l == [Idle EXCEPT !.pc = pc, !.plan = v]
         IN  l \in CallState /\ l.pc = pc /\ l.seen = NewProgram /\ l.plan = v
<1>1. Idle \in CallState /\ Idle.seen = NewProgram
  BY RecordTypes
<1> QED
  BY <1>1 DEF CallState

\* A work item that may be dispatched is bound to a plan there is.
LEMMA ItemsAreBound ==
  ASSUME IInv, NEW i \in Item, work[i] = "ELIGIBLE"
  PROVE  /\ i[2] <= plans /\ i[2] \in Nat
         /\ i[1] # "DECOMPOSE" => plans \in Plan /\ plans # 0
<1>1. i[2] <= plans /\ i[2] \in Nat
  BY ItemPlans DEF IInv, ProgramInv, RowsInv
<1> QED
  BY <1>1, ItemPlans, ConstantTypes DEF IInv, TypeOK, Plan

\* The program's row, when it is read, is not old.
LEMMA FreshRow ==
  ASSUME IInv, program' = program
  PROVE  /\ program.revision \in Nat /\ OldRow(program)
         /\ OldRow(NewProgram)' /\ OldRow(NewProgram)
BY DEF IInv, TypeOK, Program, ProgramInv, RowsInv, OldRow

(***************************************************************************)
(* Planning                                                                *)
(***************************************************************************)

LEMMA PlanningKeeps ==
  ASSUME IsFiniteSet(Call), IInv, NEW c \in Call, PlanningStep(c)
  PROVE  IInv'
<1>1. RestOK' /\ UNCHANGED <<approval, verdicts, reserved, reservation, lineage, child, completion>>
  <2>1. UNCHANGED <<issued, store, known, faults>>
    BY DEF PlanningStep, StartDecompose, BeginDecomposition, ProposeInvalid, ProposeValid,
           SavePlan, AdoptPlan, StartValidate, BeginValidation, AwaitApproval, approvalVars
  <2> QED
    BY <2>1, RestStays DEF PlanningStep, StartDecompose, BeginDecomposition, ProposeInvalid,
       ProposeValid, SavePlan, AdoptPlan, StartValidate, BeginValidation, AwaitApproval,
       approvalVars, budgetVars, childVars
<1>2. /\ call[c].seen \in Program /\ call[c] \in CallState /\ call \in [Call -> CallState]
      /\ CallInv(c)
  BY CallTypes DEF IInv, ProgramInv
<1>3. CASE StartDecompose(c)
  <2>1. PICK i \in Item :
          /\ Dispatched(c, "DECOMPOSE", i)
          /\ CASE program.status \in {"ADMITTED", "VALIDATING"} ->
                    Enter(c, i, [Idle EXCEPT !.pc = "begin", !.seen = program])
               [] program.status = "DECOMPOSING" ->
                    Enter(c, i, [Idle EXCEPT !.pc = "model", !.seen = program])
               [] OTHER -> Refuse(i)
    BY <1>3 DEF StartDecompose
  <2>2. RowsStay /\ work[i] = "ELIGIBLE"
    BY <1>1, <1>3, <2>1 DEF StartDecompose, RowsStay, Dispatched
  <2>3. CASE Refuse(i)
    BY <1>1, <2>2, <2>3, DispatchStep DEF Refuse, WorkStatus
  <2>4. ASSUME NEW pc \in {"begin", "model"},
               Enter(c, i, [Idle EXCEPT !.pc = pc, !.seen = program]),
               pc = "model" => program.status = "DECOMPOSING"
        PROVE  IInv'
    <3> DEFINE l == [Idle EXCEPT !.pc = pc, !.seen = program]
    <3>1. l \in CallState /\ l.pc = pc /\ l.seen = program /\ i[2] <= plans
      <4>1. pc \in PC
        BY DEF PC
      <4> QED
        BY <2>2, <4>1, Beginning, ItemsAreBound
    <3> HIDE DEF l
    <3>2. call'[c] = [l EXCEPT !.item = i]
      BY <1>2, <2>4 DEF Enter, l
    <3>3. call'[c].pc = pc /\ call'[c].seen = program /\ call'[c].item = i
      BY <3>1, <3>2 DEF CallState
    <3>4. CallInv(c)'
      BY <2>2, <2>4, <3>1, <3>3, FreshRow DEF CallInv, OldRow, RowsStay
    <3> QED
      BY <1>1, <2>2, <2>4, <3>1, <3>4, DispatchStep DEF l
  <2> QED
    BY <2>1, <2>3, <2>4
<1>4. CASE BeginDecomposition(c)
  BY <1>1, <1>4, TransitionGoesOn DEF BeginDecomposition
<1>5. CASE ProposeInvalid(c)
  <2> DEFINE seen    == call[c].seen
             blocked == Updated(seen, "BLOCKED")
             tried   == [Updated(seen, "BLOCKED") EXCEPT !.tried = @ + 1]
             again   == [Updated(seen, seen.status) EXCEPT !.tried = @ + 1]
  <2>1. seen.status = "DECOMPOSING" /\ plans' = plans
    BY <1>2, <1>5 DEF ProposeInvalid, CallInv
  <2>2. /\ {"BLOCKED", "DECOMPOSING"} \subseteq ProgramState
        /\ blocked \in Program /\ blocked.revision = seen.revision + 1 /\ blocked.status = "BLOCKED"
        /\ tried \in Program /\ tried.revision = seen.revision + 1 /\ tried.status = "BLOCKED"
        /\ again \in Program /\ again.revision = seen.revision + 1
        /\ again.status = "DECOMPOSING"
    <3>1. {"BLOCKED", "DECOMPOSING"} \subseteq ProgramState
      BY DEF ProgramState
    <3> QED
      BY <1>2, <2>1, <3>1, UpdatedType
  <2> HIDE DEF blocked, tried, again
  <2>3. CASE TransitionOrThrow(c, blocked)
    BY <1>1, <2>1, <2>2, <2>3, TransitionStep
  <2>4. CASE TransitionOrThrow(c, tried)
    BY <1>1, <2>1, <2>2, <2>4, TransitionStep
  <2>5. CASE program.revision = seen.revision /\ program' = again /\ Return(c)
    BY <1>1, <2>1, <2>2, <2>5, CallEnds, RowStep
  <2>6. CASE UNCHANGED program /\ Throw(c)
    BY <1>1, <2>1, <2>6, EndStep DEF RowsStay
  <2> QED
    BY <1>5, <2>3, <2>4, <2>5, <2>6 DEF ProposeInvalid, blocked, tried, again
<1>6. CASE ProposeValid(c)
  <2> DEFINE l == [call[c] EXCEPT !.pc = "insert", !.plan = call[c].seen.plan + 1]
  <2>1. call[c].seen.plan + 1 \in Plan /\ call[c].seen.plan + 1 \in 0 .. MaxPlans
    BY <1>6, CallTypes, ConstantTypes DEF ProposeValid, IInv, Plan
  <2>2. /\ l \in CallState /\ l.pc = "insert" /\ l.plan \in Plan
        /\ l.seen = call[c].seen /\ l.item = call[c].item
    BY <1>2, <2>1 DEF CallState, PC
  <2>3. call' = [call EXCEPT ![c] = l] /\ work' = work
    BY <1>2, <1>6 DEF ProposeValid
  <2>4. RowsStay
    BY <1>1, <1>6 DEF ProposeValid, RowsStay
  <2> HIDE DEF l
  <2>5. CallInv(c)'
    BY <1>2, <2>2, <2>3, <2>4 DEF CallInv, OldRow, RowsStay
  <2> QED
    BY <1>1, <2>2, <2>3, <2>4, <2>5, GoStep
<1>7. CASE StartValidate(c)
  <2> DEFINE pc == IF program.status = "DECOMPOSED" THEN "validate" ELSE "await"
             l  == [Idle EXCEPT !.seen = program, !.pc = pc]
  <2>1. PICK i \in Item : Dispatched(c, "VALIDATE", i) /\ Enter(c, i, l)
    BY <1>7 DEF StartValidate
  <2>2. RowsStay /\ work[i] = "ELIGIBLE"
    BY <1>1, <1>7, <2>1 DEF StartValidate, RowsStay, Dispatched
  <2>3. l \in CallState /\ l.pc \in {"validate", "await"} /\ l.seen = program /\ i[2] <= plans
    <3>1. pc \in PC /\ pc \in {"validate", "await"}
      BY DEF PC
    <3> HIDE DEF pc
    <3> QED
      BY <2>2, <3>1, Beginning, ItemsAreBound
  <2> HIDE DEF l
  <2>4. call'[c] = [l EXCEPT !.item = i]
    BY <1>2, <2>1 DEF Enter
  <2>5. call'[c].pc \in {"validate", "await"} /\ call'[c].seen = program /\ call'[c].item = i
    BY <2>3, <2>4 DEF CallState
  <2>6. CallInv(c)'
    BY <2>2, <2>3, <2>5, FreshRow DEF CallInv, OldRow, RowsStay
  <2> QED
    BY <1>1, <2>1, <2>2, <2>3, <2>6, DispatchStep
<1>8. CASE BeginValidation(c)
  BY <1>1, <1>8, TransitionGoesOn DEF BeginValidation
<1>9. CASE AwaitApproval(c)
  <2> DEFINE new == Updated(call[c].seen, "AWAITING_MATERIALIZATION_APPROVAL")
  <2>1. /\ new \in Program /\ new.revision = call[c].seen.revision + 1
        /\ new.status = "AWAITING_MATERIALIZATION_APPROVAL"
    <3>1. "AWAITING_MATERIALIZATION_APPROVAL" \in ProgramState
      BY DEF ProgramState
    <3> QED
      BY <1>2, <3>1, UpdatedType
  <2> HIDE DEF new
  <2>2. CASE TransitionOrThrow(c, new)
    BY <1>1, <1>9, <2>1, <2>2, TransitionStep DEF AwaitApproval
  <2>3. CASE Throw(c) /\ UNCHANGED program
    BY <1>1, <1>9, <2>3, EndStep DEF AwaitApproval, RowsStay
  <2> QED
    BY <1>9, <2>2, <2>3 DEF AwaitApproval, new
<1>10. CASE AdoptPlan(c)
  <2> DEFINE new == [Updated(call[c].seen, "DECOMPOSED")
                       EXCEPT !.plan = call[c].plan, !.tried = @ + 1]
  <2>1. /\ new \in Program /\ new.revision = call[c].seen.revision + 1
        /\ new.status = "DECOMPOSED"
    <3> DEFINE u == Updated(call[c].seen, "DECOMPOSED")
    <3>1. "DECOMPOSED" \in ProgramState
      BY DEF ProgramState
    <3>2. u \in Program /\ u.revision = call[c].seen.revision + 1 /\ u.status = "DECOMPOSED"
      BY <1>2, <3>1, UpdatedType
    <3>3. call[c].plan \in 0 .. MaxPlans /\ u.tried + 1 \in Nat
      BY <3>2, CallTypes DEF IInv, Program
    <3> HIDE DEF u
    <3>4. new = [u EXCEPT !.plan = call[c].plan, !.tried = u.tried + 1]
      BY DEF u
    <3> HIDE DEF new
    <3> QED
      BY <3>2, <3>3, <3>4 DEF Program
  <2> HIDE DEF new
  <2> QED
    BY <1>1, <1>10, <2>1, TransitionStep DEF AdoptPlan, new
<1>11. CASE SavePlan(c)
  <2>1. CASE call[c].plan > plans
    <3> DEFINE l == [call[c] EXCEPT !.pc = "adopt"]
    <3>1. l \in CallState /\ l.pc = "adopt" /\ l.seen = call[c].seen
          /\ l.item = call[c].item /\ l.plan = call[c].plan
      BY <1>2 DEF CallState, PC
    <3>2. /\ call' = [call EXCEPT ![c] = l] /\ work' = work /\ plans' = call[c].plan
          /\ UNCHANGED program
      BY <1>2, <1>11, <2>1 DEF SavePlan, GoTo
    <3> HIDE DEF l
    <3>3. call[c].plan \in Plan /\ plans' \in 0 .. MaxPlans /\ plans \in 0 .. MaxPlans
      BY <1>2, <1>11, <3>2, CallTypes DEF SavePlan, CallInv, IInv, TypeOK
    <3>4. /\ call' \in [Call -> CallState] /\ call'[c] = l
          /\ \A j \in Call \ {c} : call'[j] = call[j]
      BY <1>2, <3>1, <3>2
    <3>5. TypeOK'
      BY <1>1, <3>2, <3>3, <3>4 DEF IInv, TypeOK, RestOK
    <3>6. Grows
      BY <1>1, <2>1, <3>2, <3>3, ConstantTypes DEF Grows
    <3>7. \A i \in Item \cup {NoItem} : i[2] <= plans => i[2] <= plans'
      BY <2>1, <3>2, <3>3, ItemPlans, ConstantTypes
    <3>8. RowsInv'
      BY <1>1, <3>2, <3>7 DEF IInv, ProgramInv, RowsInv, OldRow, Approved
    <3>9. CallInv(c)'
      BY <1>2, <3>1, <3>2, <3>3, <3>4, <3>7, CallTypes DEF CallInv, OldRow, IInv
    <3>10. ProgramIsAccounted'
      BY <1>1, <3>2 DEF IInv, ProgramInv, ProgramIsAccounted, EscrowCoversChildren,
                        CompletionIsRecorded
    <3>11. LedgerCovers'
      BY <1>1, <3>1, <3>4, LedgerStays
    <3> QED
      BY <3>4, <3>5, <3>6, <3>8, <3>9, <3>10, <3>11, InvFromStep
  <2>2. CASE ~(call[c].plan > plans)
    BY <1>1, <1>11, <2>2, EndStep DEF SavePlan, RowsStay
  <2> QED
    BY <2>1, <2>2
<1> QED
  BY <1>3, <1>4, <1>5, <1>6, <1>7, <1>8, <1>9, <1>10, <1>11 DEF PlanningStep
(***************************************************************************)
(* The approval                                                            *)
(***************************************************************************)

\* An approval is written, and an APPROVED one with the decision that approves it.
LEMMA ApprovalWritten ==
  ASSUME IsFiniteSet(Call), IInv, RestOK', NEW c \in Call,
         UNCHANGED <<program, plans, reserved, reservation, lineage, child, completion>>,
         approval' \in [Plan -> Approval],
         verdicts \subseteq verdicts', verdicts' \subseteq Plan \X {"APPROVE", "REJECT"},
         \A v \in Plan : approval'[v].status = "APPROVED" => <<v, "APPROVE">> \in verdicts',
         call' \in [Call -> CallState], ItemsOK(work'),
         \A j \in Call \ {c} : call'[j] = call[j],
         call'[c].pc # "reserve",
         \/ call'[c].pc \in {"idle", "done"} /\ call'[c].seen = NewProgram
                                             /\ call'[c].item[2] <= plans
         \/ CallInv(c)'
  PROVE  IInv'
<1>1. TypeOK'
  BY DEF IInv, TypeOK, RestOK, ItemsOK, WorkStatus
<1>2. Grows
  BY ConstantTypes DEF Grows, IInv, TypeOK
<1>3. RowsInv'
  BY DEF IInv, ProgramInv, RowsInv, ItemsOK, OldRow, Approved
<1>4. CallInv(c)'
  BY <1>3, EndedKnowsNothing
<1>5. ProgramIsAccounted'
  BY DEF IInv, ProgramInv, ProgramIsAccounted, EscrowCoversChildren, CompletionIsRecorded
<1>6. LedgerCovers'
  BY LedgerStays
<1> QED
  BY <1>1, <1>2, <1>3, <1>4, <1>5, <1>6, InvFromStep

LEMMA ApprovalKeeps ==
  ASSUME IsFiniteSet(Call), IInv, NEW c \in Call, ApprovalStep(c)
  PROVE  IInv'
<1>1. faults' = faults /\ UNCHANGED <<plans, reserved, reservation, lineage, child, completion>>
  BY DEF ApprovalStep, StartRoute, FindPending, SaveApproval, PutNonce, StartDecide, SaveExpired,
         CheckApprover, RecordDecision, OpenMaterialization, budgetVars, childVars
<1>2. /\ call[c].seen \in Program /\ call[c] \in CallState /\ call \in [Call -> CallState]
      /\ call[c].approval \in Approval /\ call[c].plan \in 0 .. MaxPlans
      /\ CallInv(c) /\ approval \in [Plan -> Approval]
  BY CallTypes DEF IInv, ProgramInv, TypeOK
<1>3. CASE StartRoute(c)
  <2>1. PICK i \in Item :
          /\ Dispatched(c, "ROUTE", i)
          /\ \/ Enter(c, i, [Idle EXCEPT !.pc = "pending", !.plan = plans])
             \/ Refuse(i)
    BY <1>3 DEF StartRoute
  <2>2. RowsStay /\ RestOK' /\ work[i] = "ELIGIBLE" /\ i[1] # "DECOMPOSE"
    BY <1>1, <1>3, <2>1, RestStays DEF StartRoute, RowsStay, Dispatched, approvalVars
  <2>3. CASE Refuse(i)
    BY <2>2, <2>3, DispatchStep DEF Refuse, WorkStatus
  <2>4. CASE Enter(c, i, [Idle EXCEPT !.pc = "pending", !.plan = plans])
    <3> DEFINE l == [Idle EXCEPT !.pc = "pending", !.plan = plans]
    <3>1. /\ l \in CallState /\ l.pc = "pending" /\ l.seen = NewProgram /\ l.plan = plans
          /\ plans \in Plan /\ i[2] <= plans
      <4>1. "pending" \in PC /\ plans \in 0 .. MaxPlans
        BY DEF PC, IInv, TypeOK
      <4>2. l \in CallState /\ l.pc = "pending" /\ l.seen = NewProgram /\ l.plan = plans
        BY <4>1, BeginningWithPlan
      <4>3. plans \in Plan /\ i[2] <= plans
        BY <2>2, ItemsAreBound
      <4> QED
        BY <4>2, <4>3
    <3> HIDE DEF l
    <3>2. call'[c] = [l EXCEPT !.item = i]
      BY <1>2, <2>4 DEF Enter, l
    <3>3. /\ call'[c].pc = "pending" /\ call'[c].seen = NewProgram /\ call'[c].item = i
          /\ call'[c].plan \in Plan
      BY <3>1, <3>2 DEF CallState
    <3>4. CallInv(c)'
      BY <2>2, <3>1, <3>3, FreshRow DEF CallInv, OldRow, RowsStay
    <3> QED
      BY <2>2, <2>4, <3>1, <3>4, DispatchStep DEF l
  <2> QED
    BY <2>1, <2>3, <2>4
<1>4. CASE FindPending(c)
  <2>1. RowsStay /\ RestOK'
    BY <1>1, <1>4, RestStays DEF FindPending, RowsStay, approvalVars
  <2>2. CASE Return(c)
    BY <2>1, <2>2, EndStep
  <2>3. CASE GoTo(c, "issue")
    <3> DEFINE l == [call[c] EXCEPT !.pc = "issue"]
    <3>1. /\ l \in CallState /\ l.pc = "issue" /\ l.seen = call[c].seen
          /\ l.item = call[c].item /\ l.plan = call[c].plan
      BY <1>2 DEF CallState, PC
    <3>2. call' = [call EXCEPT ![c] = l] /\ work' = work
      BY <1>2, <2>3 DEF GoTo
    <3> HIDE DEF l
    <3>3. CallInv(c)'
      BY <1>2, <1>4, <2>1, <3>1, <3>2 DEF FindPending, CallInv, OldRow, RowsStay
    <3> QED
      BY <2>1, <3>1, <3>2, <3>3, GoStep
  <2> QED
    BY <1>4, <2>2, <2>3 DEF FindPending
<1>5. CASE SaveApproval(c)
  <2> DEFINE new == [status |-> "PENDING", issue |-> issued + 1]
             l   == [call[c] EXCEPT !.pc = "put", !.approval = new]
  <2>1. /\ issued + 1 \in 0 .. MaxIssues /\ issued + 1 # 0
        /\ issued' = issued + 1 /\ call[c].plan \in Plan
    BY <1>2, <1>5, ConstantTypes DEF SaveApproval, IInv, TypeOK, CallInv
  <2>2. new \in Approval /\ new.status # "APPROVED" /\ new.issue # 0
    BY <2>1 DEF Approval
  <2> HIDE DEF new
  <2>3. /\ l \in CallState /\ l.pc = "put" /\ l.seen = call[c].seen /\ l.approval = new
        /\ l.item = call[c].item /\ l.plan = call[c].plan
    BY <1>2, <2>2 DEF CallState, PC
  <2>4. /\ approval' = [approval EXCEPT ![call[c].plan] = new]
        /\ UNCHANGED <<program, verdicts, work, store, known>>
        /\ call' = [call EXCEPT ![c] = l]
    BY <1>2, <1>5, <2>1 DEF SaveApproval, new
  <2> HIDE DEF l
  <2>5. RestOK'
    BY <1>1, <2>1, <2>4 DEF RestOK, IInv, TypeOK
  <2>6. /\ approval' \in [Plan -> Approval]
        /\ \A v \in Plan : approval'[v].status = "APPROVED" => <<v, "APPROVE">> \in verdicts'
    BY <1>2, <2>2, <2>4 DEF IInv, ProgramInv, RowsInv, Approved
  <2>7. /\ call' \in [Call -> CallState] /\ call'[c] = l
        /\ \A j \in Call \ {c} : call'[j] = call[j]
    BY <1>2, <2>3, <2>4
  <2>8. CallInv(c)'
    BY <1>1, <1>2, <2>1, <2>2, <2>3, <2>4, <2>7 DEF CallInv, OldRow
  <2>9. verdicts' \subseteq Plan \X {"APPROVE", "REJECT"} /\ ItemsOK(work')
    BY <2>4 DEF IInv, TypeOK, ProgramInv, RowsInv, ItemsOK, WorkStatus
  <2> QED
    BY <1>1, <2>3, <2>4, <2>5, <2>6, <2>7, <2>8, <2>9, ApprovalWritten
<1>6. CASE PutNonce(c)
  <2>1. call[c].approval.issue \in 1 .. MaxIssues
    BY <1>2, <1>6, ConstantTypes DEF PutNonce, CallInv, Approval
  <2>2. /\ store' \in [Call -> [Plan -> 0 .. MaxIssues]]
        /\ known' \subseteq 1 .. MaxIssues
        /\ issued' = issued /\ RowsStay /\ Return(c)
    <3>1. store \in [Call -> [Plan -> 0 .. MaxIssues]] /\ known \subseteq 1 .. MaxIssues
      BY DEF IInv, TypeOK
    <3>2. call[c].approval.issue \in 0 .. MaxIssues
      BY <2>1, ConstantTypes
    <3>3. [store[c] EXCEPT ![call[c].plan] = call[c].approval.issue] \in [Plan -> 0 .. MaxIssues]
      BY <3>1, <3>2
    <3>4. store' \in [Call -> [Plan -> 0 .. MaxIssues]]
      BY <1>6, <3>1, <3>3 DEF PutNonce
    <3> QED
      BY <1>1, <1>6, <2>1, <3>1, <3>4 DEF PutNonce, RowsStay
  <2>3. RestOK'
    BY <1>1, <2>2 DEF RestOK, IInv, TypeOK
  <2> QED
    BY <2>2, <2>3, EndStep
<1>7. CASE StartDecide(c)
  <2>1. PICK v \in Plan, d \in {"NONE", "APPROVE", "REJECT"} :
          call' = [call EXCEPT ![c] =
                     [Idle EXCEPT !.plan = v, !.approval = approval[v], !.decision = d,
                                  !.pc = IF d = "NONE" THEN "expire" ELSE "approver"]]
    BY <1>7 DEF StartDecide
  <2> DEFINE pc == IF d = "NONE" THEN "expire" ELSE "approver"
             l  == [Idle EXCEPT !.plan = v, !.approval = approval[v], !.decision = d, !.pc = pc]
  <2>2. RowsStay /\ RestOK' /\ work' = work
    BY <1>1, <1>7, RestStays DEF StartDecide, RowsStay, approvalVars
  <2>3. pc \in PC /\ v \in 0 .. MaxPlans /\ approval[v] \in Approval
    BY <1>2, ConstantTypes DEF PC, Plan
  <2>4. /\ l \in CallState /\ l.plan = v /\ l.decision = d /\ l.pc = pc
        /\ l.seen = NewProgram /\ l.item = NoItem
    BY <2>3, RecordTypes DEF CallState
  <2> HIDE DEF l
  <2>5. call'[c] = l
    BY <1>2, <2>1 DEF l
  <2>6. NoItem[2] <= plans
    BY ItemPlans, ConstantTypes DEF IInv, TypeOK
  <2>7. CallInv(c)'
    <3>1. /\ call'[c].pc \in {"expire", "approver"} /\ call'[c].seen = NewProgram
          /\ call'[c].item[2] <= plans' /\ call'[c].plan \in Plan
          /\ call'[c].pc = "approver" => call'[c].decision # "NONE"
      BY <2>2, <2>4, <2>5, <2>6 DEF RowsStay
    <3>2. OldRow(NewProgram)'
      BY <2>2, FreshRow DEF RowsStay
    <3> QED
      BY <3>1, <3>2 DEF CallInv, OldRow
  <2>8. call' = [call EXCEPT ![c] = l] /\ l.pc # "reserve"
    BY <2>1, <2>4 DEF l
  <2> QED
    BY <2>2, <2>4, <2>7, <2>8, GoStep
<1>8. ASSUME NEW status \in {"EXPIRED", "APPROVED", "REJECTED"}, SaveStatus(c, status),
             call[c].plan \in Plan
      PROVE  /\ approval' \in [Plan -> Approval]
             /\ \A v \in Plan : /\ v # call[c].plan => approval'[v] = approval[v]
                                /\ v = call[c].plan => approval'[v].status = status
  <2> DEFINE new == [call[c].approval EXCEPT !.status = status]
  <2>1. new \in Approval /\ new.status = status
    BY <1>2 DEF Approval
  <2>2. approval' = [approval EXCEPT ![call[c].plan] = new]
    BY <1>8 DEF SaveStatus
  <2> HIDE DEF new
  <2> QED
    BY <1>2, <1>8, <2>1, <2>2
<1>9. CASE SaveExpired(c)
  <2>1. call[c].plan \in Plan
    BY <1>2, <1>9 DEF SaveExpired, CallInv
  <2>2. /\ SaveStatus(c, "EXPIRED") /\ Throw(c)
        /\ UNCHANGED <<program, issued, store, known, verdicts>>
    BY <1>9 DEF SaveExpired
  <2>3. RestOK'
    BY <1>1, <2>2, RestStays
  <2>4. /\ approval' \in [Plan -> Approval]
        /\ \A v \in Plan : approval'[v].status = "APPROVED" => <<v, "APPROVE">> \in verdicts'
    BY <1>8, <2>1, <2>2 DEF IInv, ProgramInv, RowsInv, Approved
  <2>5. verdicts' \subseteq Plan \X {"APPROVE", "REJECT"}
    BY <2>2 DEF IInv, TypeOK
  <2> QED
    BY <1>1, <2>2, <2>3, <2>4, <2>5, CallEnds, ApprovalWritten
<1>10. CASE CheckApprover(c)
  <2> DEFINE l == [call[c] EXCEPT !.pc = "record", !.seen = program]
  <2>1. RowsStay /\ RestOK'
    BY <1>1, <1>10, RestStays DEF CheckApprover, RowsStay, approvalVars
  <2>2. CASE Throw(c)
    BY <2>1, <2>2, EndStep
  <2>3. CASE call' = [call EXCEPT ![c] = l] /\ work' = work
    <3>1. /\ l \in CallState /\ l.pc = "record" /\ l.seen = program
          /\ l.item = call[c].item /\ l.plan = call[c].plan /\ l.decision = call[c].decision
      BY <1>2 DEF CallState, PC, IInv, TypeOK
    <3> HIDE DEF l
    <3>2. call'[c] = l
      BY <1>2, <2>3
    <3>3. CallInv(c)'
      BY <1>2, <1>10, <2>1, <3>1, <3>2, FreshRow DEF CheckApprover, CallInv, OldRow, RowsStay
    <3> QED
      BY <2>1, <2>3, <3>1, <3>3, GoStep
  <2> QED
    BY <1>2, <1>10, <2>2, <2>3 DEF CheckApprover
<1>11. CASE RecordDecision(c)
  <2> DEFINE status == IF call[c].decision = "APPROVE" THEN "APPROVED" ELSE "REJECTED"
             l      == [Idle EXCEPT !.pc = "open", !.seen = call[c].seen]
  <2>1. call[c].plan \in Plan /\ call[c].decision \in {"APPROVE", "REJECT"}
    BY <1>2, <1>11, CallTypes DEF RecordDecision, CallInv, IInv
  <2>2. /\ SaveStatus(c, status) /\ status \in {"APPROVED", "REJECTED"}
        /\ verdicts' = verdicts \cup {<<call[c].plan, call[c].decision>>}
        /\ UNCHANGED <<program, issued, store, known>>
        /\ \/ call' = [call EXCEPT ![c] = l] /\ work' = work
           \/ Return(c)
    BY <1>11 DEF RecordDecision
  <2>3. RestOK'
    BY <1>1, <2>2, RestStays
  <2>4. /\ approval' \in [Plan -> Approval]
        /\ \A v \in Plan : /\ v # call[c].plan => approval'[v] = approval[v]
                           /\ v = call[c].plan => approval'[v].status = status
    BY <1>8, <2>1, <2>2
  <2>5. /\ verdicts \subseteq verdicts'
        /\ \A v \in Plan : approval'[v].status = "APPROVED" => <<v, "APPROVE">> \in verdicts'
    BY <2>1, <2>2, <2>4 DEF IInv, ProgramInv, RowsInv, Approved
  <2>6. verdicts' \subseteq Plan \X {"APPROVE", "REJECT"}
    BY <2>1, <2>2 DEF IInv, TypeOK
  <2>7. CASE Return(c)
    BY <1>1, <2>2, <2>3, <2>4, <2>5, <2>6, <2>7, CallEnds, ApprovalWritten
  <2>8. CASE call' = [call EXCEPT ![c] = l] /\ work' = work
    <3>1. l \in CallState /\ l.pc = "open" /\ l.seen = call[c].seen /\ l.item = NoItem
      BY <1>2, RecordTypes DEF CallState, PC
    <3> HIDE DEF l
    <3>2. /\ call' \in [Call -> CallState] /\ call'[c] = l
          /\ \A j \in Call \ {c} : call'[j] = call[j]
      BY <1>2, <2>8, <3>1
    <3>3. ItemsOK(work') /\ NoItem[2] <= plans
      BY <2>8, ItemPlans, ConstantTypes DEF IInv, TypeOK, ProgramInv, RowsInv, ItemsOK, WorkStatus
    <3>4. CallInv(c)'
      BY <1>1, <1>2, <2>2, <3>1, <3>2, <3>3 DEF CallInv, OldRow
    <3> QED
      BY <1>1, <2>2, <2>3, <2>4, <2>5, <2>6, <3>1, <3>2, <3>3, <3>4, ApprovalWritten
  <2> QED
    BY <2>2, <2>7, <2>8
<1>12. CASE OpenMaterialization(c)
  <2> DEFINE new == Updated(call[c].seen, "MATERIALIZING")
  <2>1. new \in Program /\ new.revision = call[c].seen.revision + 1 /\ new.status = "MATERIALIZING"
    <3>1. "MATERIALIZING" \in ProgramState
      BY DEF ProgramState
    <3> QED
      BY <1>2, <3>1, UpdatedType
  <2>2. RestOK' /\ UNCHANGED <<approval, verdicts>>
    BY <1>1, <1>12, RestStays DEF OpenMaterialization, approvalVars
  <2> HIDE DEF new
  <2>3. TransitionOrThrow(c, new)
    BY <1>12 DEF OpenMaterialization, new
  <2> QED
    BY <1>1, <2>1, <2>2, <2>3, TransitionStep
<1> QED
  BY <1>3, <1>4, <1>5, <1>6, <1>7, <1>9, <1>10, <1>11, <1>12 DEF ApprovalStep
(***************************************************************************)
(* Materialization                                                         *)
(***************************************************************************)

\* A call that goes on keeps what it has.
LEMMA GoToFields ==
  ASSUME IInv, NEW c \in Call, NEW pc \in PC, GoTo(c, pc)
  PROVE  /\ call' \in [Call -> CallState] /\ work' = work /\ ItemsOK(work')
         /\ \A j \in Call \ {c} : call'[j] = call[j]
         /\ call'[c].pc = pc /\ call'[c].item = call[c].item /\ call'[c].seen = call[c].seen
         /\ call'[c].plan = call[c].plan /\ call'[c].node = call[c].node
         /\ call'[c].read = call[c].read /\ call'[c].outcome = call[c].outcome
<1> DEFINE l == [call[c] EXCEPT !.pc = pc]
<1>1. /\ l \in CallState /\ l.pc = pc /\ l.item = call[c].item /\ l.seen = call[c].seen
      /\ l.plan = call[c].plan /\ l.node = call[c].node
      /\ l.read = call[c].read /\ l.outcome = call[c].outcome
  BY CallTypes DEF IInv, CallState
<1>2. call' = [call EXCEPT ![c] = l] /\ work' = work
  BY CallTypes DEF GoTo, IInv
<1> HIDE DEF l
<1>3. ItemsOK(work')
  BY <1>2 DEF IInv, TypeOK, ProgramInv, RowsInv, ItemsOK, WorkStatus
<1> QED
  BY <1>1, <1>2, <1>3, CallTypes DEF IInv

\* Reading the rows, node by node.
LEMMA MaterializationReads ==
  ASSUME IsFiniteSet(Call), IInv, NEW c \in Call,
         \/ StartMaterialize(c) \/ CheckApproved(c) \/ NextNode(c) \/ FindReservation(c)
         \/ ReadLedger(c)
  PROVE  IInv'
<1>1. RowsStay /\ RestOK'
  <2>1. RowsStay /\ UNCHANGED <<issued, store, known, faults>>
    BY DEF StartMaterialize, CheckApproved, NextNode, FindReservation, ReadLedger, RowsStay,
           approvalVars, budgetVars, childVars
  <2> QED
    BY <2>1, RestStays
<1>2. /\ call[c].seen \in Program /\ call[c] \in CallState /\ call \in [Call -> CallState]
      /\ call[c].plan \in 0 .. MaxPlans /\ call[c].node \in 0 .. Nodes + 1
      /\ CallInv(c) /\ call[c].item[2] <= plans
  BY CallTypes DEF IInv, ProgramInv, CallInv
<1>4. CASE StartMaterialize(c)
  <2> DEFINE l == [Idle EXCEPT !.pc = "approved"]
  <2>1. PICK i \in Item : Dispatched(c, "MATERIALIZE", i) /\ (Enter(c, i, l) \/ Refuse(i))
    BY <1>4 DEF StartMaterialize
  <2>2. work[i] = "ELIGIBLE" /\ i[1] # "DECOMPOSE"
    BY <2>1 DEF Dispatched
  <2>3. CASE Refuse(i)
    BY <1>1, <2>2, <2>3, DispatchStep DEF Refuse, WorkStatus
  <2>4. CASE Enter(c, i, l)
    <3>1. l \in CallState /\ l.pc = "approved" /\ l.seen = NewProgram
      <4>1. "approved" \in PC
        BY DEF PC
      <4> QED
        BY <4>1, Beginning
    <3>2. plans # 0 /\ i[2] <= plans
      BY <2>2, ItemsAreBound
    <3> HIDE DEF l
    <3>3. call'[c] = [l EXCEPT !.item = i]
      BY <1>2, <2>4 DEF Enter
    <3>4. call'[c].pc = "approved" /\ call'[c].seen = NewProgram /\ call'[c].item = i
      BY <3>1, <3>3 DEF CallState
    <3>5. CallInv(c)'
      BY <1>1, <3>2, <3>4, FreshRow DEF CallInv, OldRow, RowsStay
    <3> QED
      BY <1>1, <2>2, <2>4, <3>1, <3>5, DispatchStep
  <2> QED
    BY <2>1, <2>3, <2>4
<1>5. CASE CheckApproved(c)
  <2> DEFINE l == [call[c] EXCEPT !.pc = "node", !.plan = plans, !.node = 1]
  <2>1. CASE Throw(c)
    BY <1>1, <2>1, EndStep
  <2>2. CASE /\ approval[plans].status = "APPROVED"
             /\ call' = [call EXCEPT ![c].pc = "node", ![c].plan = plans, ![c].node = 1]
             /\ UNCHANGED work
    <3>1. plans \in Plan /\ plans \in 0 .. MaxPlans /\ 1 \in 0 .. Nodes + 1
      BY <1>2, <1>5, ConstantTypes DEF CheckApproved, CallInv, IInv, TypeOK, Plan
    <3>2. Approved(plans)
      BY <2>2, <3>1 DEF IInv, ProgramInv, RowsInv
    <3>3. /\ l \in CallState /\ l.pc = "node" /\ l.seen = call[c].seen /\ l.item = call[c].item
          /\ l.plan = plans /\ l.node = 1
      BY <1>2, <3>1 DEF CallState, PC
    <3>4. call' = [call EXCEPT ![c] = l] /\ work' = work
      BY <1>2, <2>2
    <3> HIDE DEF l
    <3>5. call'[c] = l
      BY <1>2, <3>4
    <3>6. CallInv(c)'
      BY <1>1, <1>2, <3>1, <3>2, <3>3, <3>5 DEF CallInv, OldRow, RowsStay, Approved
    <3> QED
      BY <1>1, <3>3, <3>4, <3>6, GoStep
  <2> QED
    BY <1>5, <2>1, <2>2 DEF CheckApproved
<1>6. CASE NextNode(c)
  <2>1. call[c].plan \in Plan /\ Approved(call[c].plan) /\ call[c].node # 0
    BY <1>2, <1>6 DEF NextNode, CallInv
  <2>2. CASE Return(c)
    BY <1>1, <2>2, EndStep
  <2>3. CASE call' = [call EXCEPT ![c].pc = "activate", ![c].seen = program] /\ work' = work
    <3> DEFINE l == [call[c] EXCEPT !.pc = "activate", !.seen = program]
    <3>1. l \in CallState /\ l.pc = "activate" /\ l.seen = program /\ l.item = call[c].item
      BY <1>2 DEF CallState, PC, IInv, TypeOK
    <3>2. call' = [call EXCEPT ![c] = l]
      BY <1>2, <2>3
    <3> HIDE DEF l
    <3>3. call'[c] = l
      BY <1>2, <3>2
    <3>4. CallInv(c)'
      BY <1>1, <1>2, <3>1, <3>3, FreshRow DEF CallInv, OldRow, RowsStay
    <3> QED
      BY <1>1, <2>3, <3>1, <3>2, <3>4, GoStep
  <2>4. CASE /\ call[c].node <= Nodes /\ work' = work
             /\ call' = [call EXCEPT ![c].node = @ + 1, ![c].linked = @ \cup {call[c].node}]
    <3> DEFINE l == [call[c] EXCEPT !.node = @ + 1, !.linked = @ \cup {call[c].node}]
    <3>1. /\ call[c].node + 1 \in 0 .. Nodes + 1 /\ call[c].node + 1 # 0
          /\ call[c].linked \cup {call[c].node} \in SUBSET Node
      BY <1>2, <2>1, <2>4, CallTypes, ConstantTypes DEF IInv, Node
    <3>2. /\ l \in CallState /\ l.pc = call[c].pc /\ l.seen = call[c].seen
          /\ l.item = call[c].item /\ l.plan = call[c].plan /\ l.node # 0
      BY <1>2, <3>1 DEF CallState
    <3>3. call' = [call EXCEPT ![c] = l]
      BY <1>2, <2>4
    <3> HIDE DEF l
    <3>4. call'[c] = l /\ call[c].pc = "node"
      BY <1>2, <1>6, <3>3 DEF NextNode
    <3>5. CallInv(c)'
      BY <1>1, <1>2, <2>1, <3>2, <3>4 DEF CallInv, OldRow, RowsStay, Approved
    <3> QED
      BY <1>1, <2>4, <3>2, <3>3, <3>4, <3>5, GoStep
  <2>5. CASE call[c].node <= Nodes /\ GoTo(c, "reservation")
    <3>1. call[c].node \in Node /\ "reservation" \in PC
      BY <1>2, <2>1, <2>5, ConstantTypes DEF Node, PC
    <3>2. CallInv(c)'
      BY <1>1, <1>2, <2>1, <2>5, <3>1, GoToFields DEF CallInv, OldRow, RowsStay, Approved
    <3> QED
      BY <1>1, <2>5, <3>1, <3>2, GoToFields, QuietStep
  <2>6. call[c].node > Nodes \/ call[c].node <= Nodes
    BY <1>2, ConstantTypes
  <2> QED
    BY <1>6, <2>2, <2>3, <2>4, <2>5, <2>6 DEF NextNode
<1>7. CASE FindReservation(c)
  <2>1. /\ call[c].plan \in Plan /\ Approved(call[c].plan)
        /\ call[c].node # 0 /\ call[c].node \in Node
    BY <1>2, <1>7 DEF FindReservation, CallInv
  <2>2. PICK pc \in {"admit", "ledger"} :
          GoTo(c, pc) /\ (pc = "admit" => SlotOf(c) \in reservation)
    BY <1>7 DEF FindReservation
  <2>3. pc \in PC
    BY DEF PC
  <2>4. SlotOf(c)' = SlotOf(c)
    BY <2>2, <2>3, GoToFields DEF SlotOf
  <2>5. CallInv(c)'
    BY <1>1, <1>2, <2>1, <2>2, <2>3, <2>4, GoToFields
    DEF CallInv, OldRow, RowsStay, Approved
  <2> QED
    BY <1>1, <2>2, <2>3, <2>5, GoToFields, QuietStep
<1>8. CASE ReadLedger(c)
  <2> DEFINE l == [call[c] EXCEPT !.pc = "cas", !.read = reserved]
  <2>1. /\ call[c].plan \in Plan /\ Approved(call[c].plan)
        /\ call[c].node # 0 /\ call[c].node \in Node
    BY <1>2, <1>8 DEF ReadLedger, CallInv
  <2>2. CASE Throw(c)
    BY <1>1, <2>2, EndStep
  <2>3. CASE /\ reserved < Ceiling /\ work' = work
             /\ call' = [call EXCEPT ![c].pc = "cas", ![c].read = reserved]
    <3>1. /\ l \in CallState /\ l.pc = "cas" /\ l.seen = call[c].seen /\ l.item = call[c].item
          /\ l.plan = call[c].plan /\ l.node = call[c].node /\ l.read = reserved
      BY <1>2 DEF CallState, PC, IInv, TypeOK
    <3>2. call' = [call EXCEPT ![c] = l]
      BY <1>2, <2>3
    <3> HIDE DEF l
    <3>3. call'[c] = l
      BY <1>2, <3>2
    <3>4. CallInv(c)'
      BY <1>1, <1>2, <2>1, <2>3, <3>1, <3>3 DEF CallInv, OldRow, RowsStay, Approved
    <3> QED
      BY <1>1, <2>3, <3>1, <3>2, <3>4, GoStep
  <2> QED
    BY <1>8, <2>2, <2>3 DEF ReadLedger
<1> QED
  BY <1>4, <1>5, <1>6, <1>7, <1>8
\* The ledger is written under the revision that was read, below the ceiling; the unit
\* it takes stands for the reservation that follows.
LEMMA ReserveOnLedgerKeeps ==
  ASSUME IsFiniteSet(Call), IInv, NEW c \in Call, ReserveOnLedger(c)
  PROVE  IInv'
<1>1. RestOK' /\ UNCHANGED <<program, plans, approval, verdicts, reservation, lineage, child, completion>>
  BY RestStays DEF ReserveOnLedger, approvalVars, childVars
<1>2. /\ call[c] \in CallState /\ call \in [Call -> CallState] /\ CallInv(c)
      /\ call[c].pc = "cas" /\ call[c].read \in 0 .. Ceiling /\ reserved \in Nat
      /\ reserved \in 0 .. Ceiling
  BY CallTypes, ConstantTypes DEF IInv, ProgramInv, ReserveOnLedger, TypeOK
<1>3. CASE Throw(c) /\ reserved' = reserved
  BY <1>1, <1>3, EndStep DEF RowsStay
<1>4. CASE /\ reserved = call[c].read /\ reserved' = call[c].read + 1 /\ work' = work
           /\ call' = [call EXCEPT ![c].pc = "reserve", ![c].read = 0]
  <2> DEFINE l == [call[c] EXCEPT !.pc = "reserve", !.read = 0]
             S == {j \in Call : call[j].pc = "reserve"}
             T == {j \in Call : call'[j].pc = "reserve"}
  <2>1. /\ l \in CallState /\ l.pc = "reserve" /\ l.seen = call[c].seen
        /\ l.item = call[c].item /\ l.plan = call[c].plan /\ l.node = call[c].node
    <3>1. 0 \in 0 .. Ceiling /\ "reserve" \in PC
      BY ConstantTypes DEF PC
    <3> QED
      BY <1>2, <3>1 DEF CallState
  <2>2. call' = [call EXCEPT ![c] = l]
    BY <1>2, <1>4
  <2> HIDE DEF l
  <2>3. /\ call' \in [Call -> CallState] /\ call'[c] = l
        /\ \A j \in Call \ {c} : call'[j] = call[j]
    BY <1>2, <2>1, <2>2
  <2>4. reserved' = reserved + 1 /\ reserved' \in 0 .. Ceiling
    BY <1>2, <1>4, ConstantTypes DEF CallInv
  <2>5. TypeOK'
    BY <1>1, <1>4, <2>3, <2>4 DEF IInv, TypeOK, RestOK
  <2>6. Grows
    BY <1>1, ConstantTypes DEF Grows, IInv, TypeOK
  <2>7. CallInv(c)'
    BY <1>1, <1>2, <2>1, <2>3 DEF CallInv, OldRow, Approved
  <2>8. RowsInv'
    BY <1>1, <1>4 DEF IInv, ProgramInv, RowsInv, OldRow, Approved
  <2>9. T = S \cup {c} /\ c \notin S
    BY <1>2, <2>1, <2>3
  <2>10. /\ Cardinality(T) = Cardinality(S) + 1 /\ Cardinality(S) \in Nat
    <3>1. IsFiniteSet(S)
      BY FS_Subset
    <3> HIDE DEF S, T
    <3> QED
      BY <2>9, <3>1, FS_AddElement, FS_CardinalityType
  <2>11. Cardinality(reservation) + Cardinality(S) <= reserved
    BY DEF IInv, ProgramInv, LedgerCovers
  <2>12. Cardinality(reservation) + Cardinality(T) <= reserved'
    BY <1>2, <2>4, <2>10, <2>11, SlotsAreFinite DEF IInv
  <2>13. LedgerCovers'
    BY <1>1, <2>12 DEF LedgerCovers
  <2>14. ProgramIsAccounted'
    <3>1. Cardinality(reservation) <= reserved' /\ reserved' <= Ceiling
      BY <1>2, <2>4, <2>10, <2>11, SlotsAreFinite, ConstantTypes DEF IInv
    <3> QED
      BY <1>1, <3>1 DEF IInv, ProgramInv, ProgramIsAccounted, EscrowCoversChildren,
                        CompletionIsRecorded
  <2> QED
    BY <2>3, <2>5, <2>6, <2>7, <2>8, <2>13, <2>14, InvFromStep
<1> QED
  BY <1>3, <1>4 DEF ReserveOnLedger

LEMMA SaveReservationKeeps ==
  ASSUME IsFiniteSet(Call), IInv, NEW c \in Call, SaveReservation(c)
  PROVE  IInv'
<1>1. RestOK' /\ UNCHANGED <<program, plans, approval, verdicts, reserved, lineage, child, completion>>
  BY RestStays DEF SaveReservation, approvalVars, childVars
<1>2. /\ CallInv(c) /\ call[c].pc = "reserve"
      /\ call[c].plan \in Plan /\ Approved(call[c].plan) /\ call[c].node # 0 /\ call[c].node \in Node
  BY DEF IInv, ProgramInv, SaveReservation, CallInv
<1>3. SlotOf(c) \in Slot /\ reservation' = reservation \cup {SlotOf(c)}
  BY <1>2 DEF SlotOf, Slot, SaveReservation
<1>4. "admit" \in PC /\ GoTo(c, "admit")
  BY DEF SaveReservation, PC
<1>5. /\ call' \in [Call -> CallState] /\ work' = work
      /\ \A j \in Call \ {c} : call'[j] = call[j]
      /\ call'[c].pc = "admit" /\ call'[c].item = call[c].item /\ call'[c].seen = call[c].seen
      /\ call'[c].plan = call[c].plan /\ call'[c].node = call[c].node
  BY <1>4, GoToFields
<1>6. TypeOK'
  BY <1>1, <1>3, <1>5 DEF IInv, TypeOK, RestOK
<1>7. Grows
  BY <1>1, <1>3, ConstantTypes DEF Grows, IInv, TypeOK
<1>8. CallInv(c)'
  <2>1. SlotOf(c)' = SlotOf(c)
    BY <1>5 DEF SlotOf
  <2> QED
    BY <1>1, <1>2, <1>3, <1>5, <2>1 DEF CallInv, OldRow, Approved
<1>9. RowsInv'
  BY <1>1, <1>5 DEF IInv, ProgramInv, RowsInv, OldRow, Approved
<1> DEFINE S == {j \in Call : call[j].pc = "reserve"}
           T == {j \in Call : call'[j].pc = "reserve"}
<1>10. Cardinality(S) = Cardinality(T) + 1 /\ Cardinality(T) \in Nat
  <2>1. IsFiniteSet(T) /\ S = T \cup {c} /\ c \notin T
    BY <1>2, <1>5, FS_Subset
  <2> HIDE DEF S, T
  <2> QED
    BY <2>1, FS_AddElement, FS_CardinalityType
<1>11. /\ Cardinality(reservation') <= Cardinality(reservation) + 1
       /\ Cardinality(reservation) \in Nat /\ Cardinality(reservation') \in Nat
  <2>1. IsFiniteSet(reservation) /\ Cardinality(reservation) \in Nat
    BY SlotsAreFinite DEF IInv
  <2>2. \/ Cardinality(reservation') = Cardinality(reservation)
        \/ Cardinality(reservation') = Cardinality(reservation) + 1
    BY <1>3, <2>1, FS_AddElement
  <2> QED
    BY <2>1, <2>2
<1>12. Cardinality(reservation) + Cardinality(S) <= reserved /\ reserved \in Nat
  BY ConstantTypes DEF IInv, ProgramInv, LedgerCovers, TypeOK
<1>13. /\ Cardinality(reservation') + Cardinality(T) <= reserved
       /\ Cardinality(reservation') <= reserved
  BY <1>10, <1>11, <1>12
<1>14. LedgerCovers'
  BY <1>1, <1>13 DEF LedgerCovers
<1>15. ProgramIsAccounted'
  BY <1>1, <1>3, <1>13 DEF IInv, ProgramInv, ProgramIsAccounted, EscrowCoversChildren,
     CompletionIsRecorded
<1> QED
  BY <1>5, <1>6, <1>7, <1>8, <1>9, <1>14, <1>15, InvFromStep

\* A child is admitted for a slot that is reserved, and stays what it became.
LEMMA ChildStep ==
  ASSUME IsFiniteSet(Call), IInv, TypeOK', NEW c \in Call,
         UNCHANGED <<program, plans, approval, verdicts, reserved, reservation, completion, work>>,
         \A s \in Slot : \/ child'[s] = child[s]
                         \/ s \in reservation /\ child[s] # "COMPLETED",
         \A j \in Call \ {c} : call'[j] = call[j],
         call'[c] = call[c] \/ (call'[c].pc # "reserve" /\ CallInv(c)')
  PROVE  IInv'
<1>1. Grows
  BY ConstantTypes DEF Grows, IInv, TypeOK
<1>2. CallInv(c)'
  BY <1>1, OthersKeep DEF IInv, ProgramInv
<1>3. RowsInv'
  BY DEF IInv, ProgramInv, RowsInv, OldRow, Approved
<1>4. ProgramIsAccounted'
  <2>1. EscrowCoversChildren'
    BY DEF IInv, ProgramInv, ProgramIsAccounted, EscrowCoversChildren
  <2>2. CompletionIsRecorded'
    <3>1. completion # 0 => \A n \in Node : <<completion, n>> \in Slot
      BY ConstantTypes DEF IInv, TypeOK, Slot, Plan
    <3> QED
      BY <1>1, <3>1 DEF IInv, ProgramInv, ProgramIsAccounted, CompletionIsRecorded, Grows
  <2> QED
    BY <2>1, <2>2 DEF ProgramIsAccounted
<1>5. LedgerCovers'
  BY LedgerStays
<1> QED
  BY <1>1, <1>2, <1>3, <1>4, <1>5, InvFromStep

LEMMA AdmissionKeeps ==
  ASSUME IsFiniteSet(Call), IInv, NEW c \in Call, AdmitChild(c) \/ SaveLineage(c)
  PROVE  IInv'
<1>1. /\ RestOK'
      /\ UNCHANGED <<program, plans, approval, verdicts, reserved, reservation, completion, work>>
  BY RestStays DEF AdmitChild, SaveLineage, approvalVars, budgetVars
<1>2. /\ call[c] \in CallState /\ call \in [Call -> CallState] /\ CallInv(c)
      /\ call[c].plan \in Plan /\ Approved(call[c].plan) /\ call[c].node # 0 /\ call[c].node \in Node
      /\ SlotOf(c) \in reservation /\ SlotOf(c) \in Slot
  BY CallTypes DEF IInv, ProgramInv, CallInv, AdmitChild, SaveLineage, SlotOf, Slot
<1>3. CASE AdmitChild(c)
  <2>1. PICK o \in {"LINKED", "FAILED"} :
          call' = [call EXCEPT ![c].pc = "link", ![c].outcome = o]
    BY <1>3 DEF AdmitChild
  <2> DEFINE l == [call[c] EXCEPT !.pc = "link", !.outcome = o]
  <2>2. /\ l \in CallState /\ l.pc = "link" /\ l.seen = call[c].seen
        /\ l.item = call[c].item /\ l.plan = call[c].plan /\ l.node = call[c].node
    BY <1>2 DEF CallState, PC
  <2>3. call' = [call EXCEPT ![c] = l]
    BY <1>2, <2>1
  <2> HIDE DEF l
  <2>4. /\ call' \in [Call -> CallState] /\ call'[c] = l
        /\ \A j \in Call \ {c} : call'[j] = call[j]
    BY <1>2, <2>2, <2>3
  <2>5. /\ child' \in [Slot -> {"NONE", "ADMITTED", "COMPLETED"}]
        /\ \A s \in Slot : \/ child'[s] = child[s]
                           \/ s \in reservation /\ child[s] # "COMPLETED"
    BY <1>2, <1>3 DEF AdmitChild, IInv, TypeOK
  <2>6. TypeOK'
    BY <1>1, <1>3, <2>4, <2>5 DEF AdmitChild, IInv, TypeOK, RestOK
  <2>7. CallInv(c)'
    BY <1>1, <1>2, <2>2, <2>4 DEF CallInv, OldRow, Approved, SlotOf
  <2> QED
    BY <1>1, <2>2, <2>4, <2>5, <2>6, <2>7, ChildStep
<1>4. CASE SaveLineage(c)
  <2> DEFINE linked == IF call[c].outcome = "LINKED" THEN call[c].linked \cup {call[c].node}
                       ELSE call[c].linked
             l == [call[c] EXCEPT !.pc = "node", !.node = @ + 1, !.outcome = "NONE",
                                  !.linked = linked]
  <2>1. /\ linked \in SUBSET Node /\ call[c].node + 1 \in 0 .. Nodes + 1 /\ call[c].node + 1 # 0
    BY <1>2, CallTypes, ConstantTypes DEF IInv, Node
  <2> HIDE DEF linked
  <2>2. /\ l \in CallState /\ l.pc = "node" /\ l.seen = call[c].seen
        /\ l.item = call[c].item /\ l.plan = call[c].plan /\ l.node # 0
    BY <1>2, <2>1 DEF CallState, PC
  <2>3. call' = [call EXCEPT ![c] = l]
    BY <1>2, <1>4 DEF SaveLineage, linked
  <2> HIDE DEF l
  <2>4. /\ call' \in [Call -> CallState] /\ call'[c] = l
        /\ \A j \in Call \ {c} : call'[j] = call[j]
    BY <1>2, <2>2, <2>3
  <2>5. child' = child /\ lineage' \in [Slot -> {"NONE", "LINKED", "FAILED"}]
    BY <1>4, CallTypes DEF SaveLineage, IInv, TypeOK
  <2>6. TypeOK'
    BY <1>1, <2>4, <2>5 DEF IInv, TypeOK, RestOK
  <2>7. CallInv(c)'
    BY <1>1, <1>2, <2>2, <2>4 DEF CallInv, OldRow, Approved
  <2> QED
    BY <1>1, <2>2, <2>4, <2>5, <2>6, <2>7, ChildStep
<1> QED
  BY <1>3, <1>4(***************************************************************************)
(* Verification                                                            *)
(***************************************************************************)

\* The program is completed on the plan that was proved, once.
LEMMA CompleteKeeps ==
  ASSUME IsFiniteSet(Call), IInv, NEW c \in Call, Complete(c)
  PROVE  IInv'
<1>1. RestOK' /\ UNCHANGED <<plans, approval, verdicts, reserved, reservation, lineage, child>>
  BY RestStays DEF Complete, approvalVars, budgetVars, childVars
<1>2. /\ call[c].plan \in Plan /\ call[c].plan \in 0 .. MaxPlans /\ call[c].plan # 0
      /\ \A n \in Node : child[<<call[c].plan, n>>] = "COMPLETED"
  BY CallTypes, ConstantTypes DEF IInv, ProgramInv, Complete, CallInv, Plan
<1>3. CASE UNCHANGED <<program, completion>> /\ (Return(c) \/ Throw(c))
  BY <1>1, <1>3, EndStep DEF RowsStay
<1>4. CASE program.status = "COMPLETED"
  <2>1. completion # 0
    BY <1>4 DEF IInv, ProgramInv, ProgramIsAccounted, CompletionIsRecorded
  <2>2. ~MayTransition(program, "COMPLETED")
    BY <1>4, CompletedIsFinal
  <2>3. /\ completion' = (IF completion = 0 THEN call[c].plan ELSE completion)
        /\ UNCHANGED program /\ Return(c)
    BY <1>4, <2>2 DEF Complete
  <2> QED
    BY <1>3, <2>1, <2>3
<1>5. CASE /\ program.status # "COMPLETED" /\ MayTransition(program, "COMPLETED")
           /\ completion' = (IF completion = 0 THEN call[c].plan ELSE completion)
           /\ program' = Updated(program, "COMPLETED")
           /\ Return(c)
  <2>1. completion' = call[c].plan
    BY <1>5 DEF IInv, ProgramInv, ProgramIsAccounted, CompletionIsRecorded
  <2>2. /\ program' \in Program /\ program'.status = "COMPLETED"
        /\ program'.revision = program.revision + 1 /\ program.revision \in Nat
    <3>1. "COMPLETED" \in ProgramState /\ program \in Program
      BY DEF ProgramState, IInv, TypeOK
    <3> QED
      BY <1>5, <3>1, UpdatedType DEF Program
  <2>3. /\ call' \in [Call -> CallState] /\ ItemsOK(work')
        /\ \A j \in Call \ {c} : call'[j] = call[j]
        /\ call'[c].pc \in {"idle", "done"}
        /\ call'[c].seen = NewProgram /\ call'[c].item[2] <= plans
    BY <1>5, CallEnds
  <2>4. TypeOK'
    BY <1>1, <1>2, <2>1, <2>2, <2>3 DEF IInv, TypeOK, RestOK, ItemsOK, WorkStatus
  <2>5. Grows
    BY <1>1, <2>2, ConstantTypes DEF Grows, IInv, TypeOK
  <2>6. RowsInv'
    <3>1. OldRow(NewProgram)'
      BY <2>4, <2>5, OldRowsStayOld, RecordTypes DEF IInv, ProgramInv, RowsInv, OldRow
    <3> QED
      BY <1>1, <2>3, <3>1 DEF IInv, ProgramInv, RowsInv, ItemsOK, Approved
  <2>7. CallInv(c)'
    BY <1>1, <2>3, <2>6, EndedKnowsNothing
  <2>8. ProgramIsAccounted'
    BY <1>1, <1>2, <2>1, <2>2
    DEF IInv, ProgramInv, ProgramIsAccounted, EscrowCoversChildren, CompletionIsRecorded
  <2>9. LedgerCovers'
    BY <1>1, <2>3, LedgerStays
  <2> QED
    BY <2>3, <2>4, <2>5, <2>6, <2>7, <2>8, <2>9, InvFromStep
<1> QED
  BY <1>3, <1>4, <1>5 DEF Complete

LEMMA VerificationKeeps ==
  ASSUME IsFiniteSet(Call), IInv, NEW c \in Call, VerificationStep(c) \/ Activate(c)
  PROVE  IInv'
<1>1. /\ Complete(c) \/ UNCHANGED completion
      /\ UNCHANGED <<plans, approval, issued, store, known, verdicts, reserved, reservation, lineage, child>>
      /\ BeginVerification(c) \/ faults' = faults
  BY DEF VerificationStep, StartVerify, BeginVerification, ReadAgain, Prove, Escalate, Complete,
         Activate, approvalVars, budgetVars, childVars
<1>2. /\ call[c].seen \in Program /\ call[c] \in CallState /\ call \in [Call -> CallState]
      /\ CallInv(c) /\ plans \in 0 .. MaxPlans
  BY CallTypes DEF IInv, ProgramInv, TypeOK
<1>3. CASE Complete(c)
  BY <1>3, CompleteKeeps
<1>4. CASE StartVerify(c)
  <2> DEFINE pc == IF program.status = "ACTIVE" THEN "verifying" ELSE "prove"
             l  == [Idle EXCEPT !.seen = program, !.pc = pc]
  <2>1. PICK i \in Item :
          /\ Dispatched(c, "VERIFY", i)
          /\ \/ work' = [work EXCEPT ![i] = "SUCCEEDED"] /\ call' = call
             \/ Enter(c, i, l)
    BY <1>4 DEF StartVerify
  <2>2. RowsStay /\ RestOK' /\ work[i] = "ELIGIBLE" /\ i[1] # "DECOMPOSE"
    BY <1>1, <1>4, <2>1, RestStays DEF StartVerify, RowsStay, Dispatched
  <2>3. CASE work' = [work EXCEPT ![i] = "SUCCEEDED"] /\ call' = call
    BY <2>2, <2>3, DispatchStep DEF WorkStatus
  <2>4. CASE Enter(c, i, l)
    <3>1. l \in CallState /\ l.pc \in {"verifying", "prove"} /\ l.seen = program
      <4>1. pc \in PC /\ pc \in {"verifying", "prove"}
        BY DEF PC
      <4> HIDE DEF pc
      <4> QED
        BY <4>1, Beginning
    <3>2. i[2] <= plans /\ plans # 0
      BY <2>2, ItemsAreBound
    <3> HIDE DEF l
    <3>3. call'[c] = [l EXCEPT !.item = i]
      BY <1>2, <2>4 DEF Enter
    <3>4. call'[c].pc \in {"verifying", "prove"} /\ call'[c].seen = program /\ call'[c].item = i
      BY <3>1, <3>3 DEF CallState
    <3>5. CallInv(c)'
      BY <2>2, <3>2, <3>4, FreshRow DEF CallInv, OldRow, RowsStay
    <3> QED
      BY <2>2, <2>4, <3>1, <3>5, DispatchStep
  <2> QED
    BY <2>1, <2>3, <2>4
<1>5. CASE BeginVerification(c)
  <2>1. plans # 0 /\ completion' = completion
    BY <1>2, <1>5 DEF BeginVerification, CallInv
  <2>2. RestOK'
    BY <1>1, <1>5, ConstantTypes DEF BeginVerification, TransitionAndGoTo, RestOK, IInv, TypeOK
  <2>3. CASE TransitionAndGoTo(c, "VERIFYING", "prove")
    BY <1>1, <2>1, <2>2, <2>3, TransitionGoesOn
  <2>4. CASE /\ MayTransition(call[c].seen, "VERIFYING")
             /\ program' = Updated(call[c].seen, "VERIFYING")
             /\ GoTo(c, "reread")
    BY <1>1, <2>1, <2>2, <2>4, TransitionGoesOn
  <2>5. CASE GoTo(c, "reread") /\ UNCHANGED program
    <3>1. "reread" \in PC /\ RowsStay
      BY <1>1, <2>1, <2>5 DEF PC, RowsStay
    <3>2. CallInv(c)'
      BY <1>2, <2>1, <2>5, <3>1, GoToFields DEF CallInv, OldRow, RowsStay
    <3> QED
      BY <2>2, <2>5, <3>1, <3>2, GoToFields, QuietStep
  <2> QED
    BY <1>5, <2>3, <2>4, <2>5 DEF BeginVerification
<1>6. CASE ReadAgain(c)
  <2>1. RowsStay /\ RestOK' /\ plans # 0
    BY <1>1, <1>2, <1>6, RestStays DEF ReadAgain, RowsStay, CallInv
  <2>2. CASE Return(c) \/ Throw(c)
    BY <2>1, <2>2, EndStep
  <2>3. CASE call' = [call EXCEPT ![c].pc = "prove", ![c].seen = program] /\ work' = work
    <3> DEFINE l == [call[c] EXCEPT !.pc = "prove", !.seen = program]
    <3>1. l \in CallState /\ l.pc = "prove" /\ l.seen = program /\ l.item = call[c].item
      BY <1>2 DEF CallState, PC, IInv, TypeOK
    <3>2. call' = [call EXCEPT ![c] = l]
      BY <1>2, <2>3
    <3> HIDE DEF l
    <3>3. call'[c] = l
      BY <1>2, <3>2
    <3>4. CallInv(c)'
      BY <1>2, <2>1, <3>1, <3>3, FreshRow DEF CallInv, OldRow, RowsStay
    <3> QED
      BY <2>1, <2>3, <3>1, <3>2, <3>4, GoStep
  <2> QED
    BY <1>6, <2>2, <2>3 DEF ReadAgain
<1>7. CASE Prove(c)
  <2> DEFINE pc == IF \A n \in Node : ProvedBy(<<plans, n>>) THEN "complete" ELSE "escalate"
             l  == [call[c] EXCEPT !.plan = plans, !.pc = pc]
  <2>1. RowsStay /\ RestOK' /\ plans \in Plan /\ work' = work
    BY <1>1, <1>2, <1>7, RestStays, ConstantTypes DEF Prove, RowsStay, CallInv, Plan
  <2>2. /\ pc \in PC /\ pc \in {"complete", "escalate"}
        /\ pc = "complete" => \A n \in Node : child[<<plans, n>>] = "COMPLETED"
    BY DEF PC, ProvedBy
  <2>3. call' = [call EXCEPT ![c] = l]
    BY <1>2, <1>7 DEF Prove
  <2> HIDE DEF pc
  <2>4. /\ l \in CallState /\ l.pc = pc /\ l.seen = call[c].seen /\ l.item = call[c].item
        /\ l.plan = plans
    BY <1>2, <2>2 DEF CallState
  <2> HIDE DEF l
  <2>5. call'[c] = l
    BY <1>2, <2>3
  <2>6. CallInv(c)'
    BY <1>2, <2>1, <2>2, <2>4, <2>5 DEF CallInv, OldRow, RowsStay
  <2> QED
    BY <2>1, <2>2, <2>3, <2>4, <2>6, GoStep
<1>8. ASSUME NEW status \in {"ACTIVE", "ESCALATED"}, UNCHANGED <<completion, faults>>,
             TransitionOrThrow(c, Updated(call[c].seen, status))
      PROVE  IInv'
  <2> DEFINE new == Updated(call[c].seen, status)
  <2>1. new \in Program /\ new.revision = call[c].seen.revision + 1 /\ new.status = status
    <3>1. status \in ProgramState
      BY DEF ProgramState
    <3> QED
      BY <1>2, <3>1, UpdatedType
  <2>2. RestOK' /\ TransitionOrThrow(c, new) /\ status # "COMPLETED"
    BY <1>1, <1>8, RestStays
  <2> HIDE DEF new
  <2> QED
    BY <1>1, <1>8, <2>1, <2>2, TransitionStep
<1>9. CASE Escalate(c)
  BY <1>8, <1>9 DEF Escalate
<1>10. CASE Activate(c)
  BY <1>8, <1>10 DEF Activate
<1> QED
  BY <1>3, <1>4, <1>5, <1>6, <1>7, <1>9, <1>10 DEF VerificationStep

(***************************************************************************)
(* The environment                                                         *)
(***************************************************************************)

\* No call moves.
LEMMA StillStep ==
  ASSUME IInv, RowsStay, RestOK', ItemsOK(work'), call' = call
  PROVE  IInv'
<1>1. TypeOK'
  BY DEF IInv, TypeOK, RowsStay, RestOK, ItemsOK, WorkStatus
<1>2. Grows
  BY ConstantTypes DEF Grows, RowsStay, IInv, TypeOK
<1>3. \A c \in Call : CallInv(c)'
  BY <1>1, <1>2, OthersKeep DEF IInv, ProgramInv
<1>4. RowsInv'
  BY DEF IInv, ProgramInv, RowsStay, RowsInv, ItemsOK, OldRow, Approved
<1>5. ProgramIsAccounted' /\ LedgerCovers'
  BY DEF IInv, ProgramInv, RowsStay, ProgramIsAccounted, EscrowCoversChildren,
         CompletionIsRecorded, LedgerCovers
<1> QED
  BY <1>1, <1>3, <1>4, <1>5 DEF IInv, ProgramInv

\* What is discovered is bound to the latest plan, or to none.
LEMMA DiscoverKeeps ==
  ASSUME IInv, Discover
  PROVE  IInv'
<1>1. PICK i \in Candidates : work' = [work EXCEPT ![i] = "ELIGIBLE"]
  BY DEF Discover
<1>2. i[2] \in {0, plans}
  BY DEF Candidates
<1>3. RowsStay /\ RestOK' /\ call' = call
  BY RestStays DEF Discover, RowsStay, approvalVars, budgetVars, childVars
<1>4. plans \in Nat /\ work \in [Item -> WorkStatus] /\ "ELIGIBLE" \in WorkStatus
  BY ConstantTypes DEF IInv, TypeOK, WorkStatus
<1>5. work' \in [Item -> WorkStatus] /\ i[2] <= plans
  <2>1. work' \in [Item -> WorkStatus]
    BY <1>1, <1>4
  <2>2. i[2] <= plans
    BY <1>2, <1>4
  <2> QED
    BY <2>1, <2>2
<1>6. \A j \in Item : work'[j] = work[j] \/ j = i
  BY <1>1, <1>4
<1>7. \A j \in Item : work[j] # "NONE" => j[2] <= plans
  BY DEF IInv, ProgramInv, RowsInv
<1>8. ItemsOK(work')
  BY <1>5, <1>6, <1>7 DEF ItemsOK
<1> QED
  BY <1>3, <1>8, StillStep

LEMMA CompleteChildKeeps ==
  ASSUME IInv, NEW s \in Slot, CompleteChild(s)
  PROVE  IInv'
<1>1. /\ UNCHANGED <<program, plans, approval, issued, store, known, verdicts, reserved,
                     reservation, lineage, completion, work, call, faults>>
      /\ child[s] = "ADMITTED" /\ child' = [child EXCEPT ![s] = "COMPLETED"]
  BY DEF CompleteChild, approvalVars, budgetVars
<1>2. /\ child' \in [Slot -> {"NONE", "ADMITTED", "COMPLETED"}]
      /\ \A t \in Slot : child'[t] = child[t] \/ (t = s /\ child'[t] = "COMPLETED")
  BY <1>1 DEF IInv, TypeOK
<1>3. TypeOK'
  BY <1>1, <1>2 DEF IInv, TypeOK
<1>4. Grows
  BY <1>1, <1>2, ConstantTypes DEF Grows, IInv, TypeOK
<1>5. \A c \in Call : CallInv(c)'
  BY <1>1, <1>3, <1>4, OthersKeep DEF IInv, ProgramInv
<1>6. RowsInv' /\ LedgerCovers'
  BY <1>1 DEF IInv, ProgramInv, RowsInv, OldRow, Approved, LedgerCovers
<1>7. EscrowCoversChildren'
  BY <1>1, <1>2 DEF IInv, ProgramInv, ProgramIsAccounted, EscrowCoversChildren
<1>8. CompletionIsRecorded'
  <2>1. completion # 0 => \A n \in Node : <<completion, n>> \in Slot
    BY ConstantTypes DEF IInv, TypeOK, Slot, Plan
  <2> QED
    BY <1>1, <1>2, <2>1 DEF IInv, ProgramInv, ProgramIsAccounted, CompletionIsRecorded
<1> QED
  BY <1>3, <1>5, <1>6, <1>7, <1>8 DEF IInv, ProgramInv, ProgramIsAccounted

LEMMA InterruptionKeeps ==
  ASSUME IsFiniteSet(Call), IInv, NEW c \in Call, Settle(c) \/ Fault(c) \/ Crash(c)
  PROVE  IInv'
<1>1. RowsStay
  BY DEF Settle, Fault, Crash, RowsStay, approvalVars, budgetVars, childVars
<1>2. /\ issued' = issued /\ known' = known
      /\ store' = store \/ Crash(c)
      /\ faults' \in 0 .. MaxFaults
  BY ConstantTypes DEF Settle, Fault, Crash, approvalVars, IInv, TypeOK
<1>3. store' \in [Call -> [Plan -> 0 .. MaxIssues]]
  <2>1. store \in [Call -> [Plan -> 0 .. MaxIssues]]
    BY DEF IInv, TypeOK
  <2>2. [v \in Plan |-> 0] \in [Plan -> 0 .. MaxIssues]
    BY ConstantTypes
  <2>3. Crash(c) => store' = [store EXCEPT ![c] = [v \in Plan |-> 0]]
    BY DEF Crash
  <2> QED
    BY <1>2, <2>1, <2>2, <2>3
<1>4. RestOK'
  BY <1>2, <1>3 DEF IInv, TypeOK, RestOK
<1>5. CASE Finish(c, "SUCCEEDED") \/ ThrowDatabaseError(c)
  BY <1>1, <1>4, <1>5, EndStep
<1>6. CASE call[c].pc = "verifying" /\ GoTo(c, "reread")
  <2>1. CallInv(c) /\ plans # 0 /\ "reread" \in PC
    BY <1>6 DEF IInv, ProgramInv, CallInv, PC
  <2>2. CallInv(c)'
    BY <1>1, <1>6, <2>1, GoToFields DEF CallInv, OldRow, RowsStay
  <2> QED
    BY <1>1, <1>4, <1>6, <2>1, <2>2, GoToFields, QuietStep
<1>7. CASE call' = [call EXCEPT ![c] = Idle] /\ work' = work
  <2>1. /\ NoItem[2] <= plans' /\ RowsInv'
    BY <1>1, <1>7, ItemPlans, ConstantTypes
    DEF IInv, TypeOK, ProgramInv, RowsInv, RowsStay, OldRow, Approved
  <2>2. call'[c] = Idle
    BY <1>7, CallTypes DEF IInv
  <2>3. CallInv(c)'
    BY <2>1, <2>2, RecordTypes, EndedKnowsNothing
  <2> QED
    BY <1>1, <1>4, <1>7, <2>3, RecordTypes, GoStep
<1> QED
  BY <1>5, <1>6, <1>7 DEF Settle, Fault, Crash(***************************************************************************)
(* The theorems                                                            *)
(***************************************************************************)

LEMMA InitHolds ==
  ASSUME IsFiniteSet(Call), Init
  PROVE  IInv
<1>1. TypeOK
  <2>1. /\ 0 \in 0 .. MaxPlans /\ 0 \in 0 .. MaxIssues /\ 0 \in 0 .. Ceiling
        /\ 0 \in 0 .. MaxFaults
    BY ConstantTypes
  <2>2. {} \subseteq Slot /\ {} \subseteq 1 .. MaxIssues /\ {} \subseteq Plan \X {"APPROVE", "REJECT"}
    OBVIOUS
  <2> QED
    BY <2>1, <2>2, RecordTypes DEF Init, TypeOK
<1>2. Cardinality(reservation) = 0
  BY FS_EmptySet DEF Init
<1>3. Cardinality({c \in Call : call[c].pc = "reserve"}) = 0
  <2> DEFINE S == {c \in Call : call[c].pc = "reserve"}
  <2>1. S = {}
    BY RecordTypes DEF Init
  <2> HIDE DEF S
  <2>2. Cardinality(S) = 0
    BY <2>1, FS_EmptySet
  <2> QED
    BY <2>2 DEF S
<1>4. LedgerCovers
  BY <1>2, <1>3 DEF LedgerCovers, Init
<1>5. ProgramIsAccounted
  BY <1>2, ConstantTypes
  DEF Init, NewProgram, ProgramIsAccounted, EscrowCoversChildren, CompletionIsRecorded
<1>6. RowsInv
  BY RecordTypes DEF Init, RowsInv, OldRow, NoApproval
<1>7. \A c \in Call : CallInv(c)
  BY RecordTypes, ItemPlans DEF Init, CallInv, OldRow
<1> QED
  BY <1>1, <1>4, <1>5, <1>6, <1>7 DEF IInv, ProgramInv

LEMMA StepHolds ==
  ASSUME IsFiniteSet(Call), IInv, [Next]_vars
  PROVE  IInv'
<1>1. CASE Discover
  BY <1>1, DiscoverKeeps
<1>2. ASSUME NEW c \in Call, PlanningStep(c)
      PROVE  IInv'
  BY <1>2, PlanningKeeps
<1>3. ASSUME NEW c \in Call, ApprovalStep(c)
      PROVE  IInv'
  BY <1>3, ApprovalKeeps
<1>4. ASSUME NEW c \in Call, MaterializationStep(c)
      PROVE  IInv'
  BY <1>4, MaterializationReads, ReserveOnLedgerKeeps, SaveReservationKeeps, AdmissionKeeps,
     VerificationKeeps DEF MaterializationStep
<1>5. ASSUME NEW c \in Call, VerificationStep(c)
      PROVE  IInv'
  BY <1>5, VerificationKeeps
<1>6. ASSUME NEW c \in Call, Settle(c) \/ Fault(c) \/ Crash(c)
      PROVE  IInv'
  BY <1>6, InterruptionKeeps
<1>7. ASSUME NEW s \in Slot, CompleteChild(s)
      PROVE  IInv'
  BY <1>7, CompleteChildKeeps
<1>8. CASE UNCHANGED vars
  <2>1. RowsStay /\ call' = call /\ work' = work /\ UNCHANGED <<issued, store, known, faults>>
    BY <1>8 DEF vars, approvalVars, budgetVars, childVars, RowsStay
  <2>2. ItemsOK(work')
    BY <2>1 DEF IInv, TypeOK, ProgramInv, RowsInv, ItemsOK, WorkStatus
  <2> QED
    BY <2>1, <2>2, RestStays, StillStep
<1> QED
  BY <1>1, <1>2, <1>3, <1>4, <1>5, <1>6, <1>7, <1>8 DEF Next

\* What the calls of a program hold and know stays true of its rows (programs/service.ts).
THEOREM ProgramInvariant ==
  ASSUME IsFiniteSet(Call)
  PROVE  Spec => []IInv
<1>1. Init => IInv
  BY InitHolds
<1>2. IInv /\ [Next]_vars => IInv'
  BY StepHolds
<1> QED
  BY <1>1, <1>2, PTL DEF Spec

\* Every row, item and call of a program has its type.
THEOREM ProgramTypes ==
  ASSUME IsFiniteSet(Call)
  PROVE  Spec => []TypeOK
<1>1. IInv => TypeOK
  BY DEF IInv
<1> QED
  BY <1>1, ProgramInvariant, PTL

\* Concurrent materializers cannot over-allocate, every admitted child is reserved, and
\* a program is COMPLETED exactly when its record is there, on a plan whose children are
\* all COMPLETED (materializeNext, verify).
THEOREM ProgramAccounts ==
  ASSUME IsFiniteSet(Call)
  PROVE  Spec => []ProgramIsAccounted
<1>1. IInv => ProgramIsAccounted
  BY DEF IInv, ProgramInv
<1> QED
  BY <1>1, ProgramInvariant, PTL

(***************************************************************************)
(* The program is an authorization gate                                    *)
(***************************************************************************)

LEMMA GateInit ==
  ASSUME Init
  PROVE  Gate!Init
<1>1. {v \in Plan : v = completion} = {}
  BY ConstantTypes DEF Init, Plan
<1>2. {s \in Slot : child[s] # "NONE"} = {} /\ {s \in Slot : child[s] = "COMPLETED"} = {}
  BY DEF Init
<1>3. {v \in Plan : <<v, "APPROVE">> \in verdicts} = {}
  BY DEF Init
<1> QED
  BY <1>1, <1>2, <1>3 DEF Gate!Init

LEMMA GateStutters ==
  ASSUME UNCHANGED <<verdicts, child, completion>>
  PROVE  UNCHANGED Gate!vars
BY DEF Gate!vars

\* A decision to approve grants the plan; any other leaves the gate as it was.
LEMMA RecordDecisionGrants ==
  ASSUME IInv, NEW c \in Call, RecordDecision(c)
  PROVE  [Gate!Next]_(Gate!vars)
<1>0. PICK v \in Plan : v = call[c].plan
  BY DEF IInv, ProgramInv, CallInv, RecordDecision
<1>1. UNCHANGED <<child, completion>>
      /\ verdicts' = verdicts \cup {<<v, call[c].decision>>}
  BY <1>0 DEF RecordDecision, childVars
<1>2. CASE call[c].decision = "APPROVE"
  <2>1. {w \in Plan : <<w, "APPROVE">> \in verdicts'}
          = {w \in Plan : <<w, "APPROVE">> \in verdicts} \cup {v}
    BY <1>1, <1>2
  <2>2. Gate!Grant(v)
    BY <1>1, <2>1 DEF Gate!Grant
  <2> QED
    BY <2>2 DEF Gate!Next
<1>3. CASE call[c].decision # "APPROVE"
  <2>1. {w \in Plan : <<w, "APPROVE">> \in verdicts'}
          = {w \in Plan : <<w, "APPROVE">> \in verdicts}
    BY <1>1, <1>3
  <2> QED
    BY <1>1, <2>1 DEF Gate!vars
<1> QED
  BY <1>2, <1>3

\* A child is admitted under a plan that was approved.
LEMMA AdmitChildAdmits ==
  ASSUME IInv, NEW c \in Call, AdmitChild(c)
  PROVE  [Gate!Next]_(Gate!vars)
<1>0. PICK s \in Slot : s = SlotOf(c)
  BY DEF IInv, ProgramInv, CallInv, AdmitChild, SlotOf, Slot
<1>1. s[1] \in Plan /\ Approved(s[1]) /\ UNCHANGED <<verdicts, completion>>
  BY <1>0 DEF IInv, ProgramInv, CallInv, AdmitChild, SlotOf, Slot, approvalVars
<1>2. CASE child' = child
  BY <1>1, <1>2, GateStutters
<1>3. CASE child[s] = "NONE" /\ child' = [child EXCEPT ![s] = "ADMITTED"]
  <2>1. \A t \in Slot : child'[t] = IF t = s THEN "ADMITTED" ELSE child[t]
    BY <1>3 DEF IInv, TypeOK
  <2>2. /\ {t \in Slot : child'[t] # "NONE"} = {t \in Slot : child[t] # "NONE"} \cup {s}
        /\ {t \in Slot : child'[t] = "COMPLETED"} = {t \in Slot : child[t] = "COMPLETED"}
    BY <1>1, <1>3, <2>1
  <2>3. s \notin {t \in Slot : child[t] # "NONE"}
        /\ s[1] \in {v \in Plan : <<v, "APPROVE">> \in verdicts}
    BY <1>1, <1>3 DEF Approved
  <2>4. Gate!Admit(s)
    BY <1>1, <2>2, <2>3 DEF Gate!Admit
  <2> QED
    BY <2>4 DEF Gate!Next
<1> QED
  BY <1>0, <1>2, <1>3 DEF AdmitChild

\* Only a child that was admitted is completed.
LEMMA CompleteChildProves ==
  ASSUME IInv, NEW s \in Slot, CompleteChild(s)
  PROVE  [Gate!Next]_(Gate!vars)
<1>1. /\ child[s] = "ADMITTED" /\ UNCHANGED <<verdicts, completion>>
      /\ \A t \in Slot : child'[t] = IF t = s THEN "COMPLETED" ELSE child[t]
  BY DEF CompleteChild, approvalVars, IInv, TypeOK
<1>2. /\ {t \in Slot : child'[t] # "NONE"} = {t \in Slot : child[t] # "NONE"}
      /\ {t \in Slot : child'[t] = "COMPLETED"} = {t \in Slot : child[t] = "COMPLETED"} \cup {s}
      /\ s \in {t \in Slot : child[t] # "NONE"}
  BY <1>1
<1>3. Gate!Prove(s)
  BY <1>1, <1>2 DEF Gate!Prove
<1> QED
  BY <1>3 DEF Gate!Next

\* The program is completed once, on a plan all of whose children are completed.
LEMMA CompleteFinishes ==
  ASSUME IInv, NEW c \in Call, Complete(c)
  PROVE  [Gate!Next]_(Gate!vars)
<1>0. PICK v \in Plan : v = call[c].plan
  BY DEF IInv, ProgramInv, CallInv, Complete
<1>1. /\ v # 0 /\ UNCHANGED <<verdicts, child>>
      /\ \A n \in Node : child[<<v, n>>] = "COMPLETED"
  BY <1>0, ConstantTypes DEF IInv, ProgramInv, CallInv, Complete, Plan, approvalVars, childVars
<1>2. CASE completion' = completion
  BY <1>1, <1>2, GateStutters
<1>3. CASE completion = 0 /\ completion' = v
  <2>1. {w \in Plan : w = completion} = {} /\ {w \in Plan : w = completion'} = {v}
    BY <1>1, <1>3, ConstantTypes DEF Plan
  <2>2. {e \in Slot : e[1] = v} \subseteq {t \in Slot : child[t] = "COMPLETED"}
    BY <1>1 DEF Slot
  <2>3. Gate!Finish(v)
    BY <1>1, <2>1, <2>2 DEF Gate!Finish, Gate!PartsOf
  <2> QED
    BY <2>3 DEF Gate!Next
<1>4. completion' = completion \/ (completion = 0 /\ completion' = v)
  <2>1. MayTransition(program, "COMPLETED") => program.status # "COMPLETED"
    BY CompletedIsFinal
  <2> QED
    BY <1>0, <2>1 DEF Complete
<1> QED
  BY <1>2, <1>3, <1>4

LEMMA GateSimulates ==
  ASSUME IInv, [Next]_vars
  PROVE  [Gate!Next]_(Gate!vars)
<1>1. CASE UNCHANGED <<verdicts, child, completion>>
  BY <1>1, GateStutters
<1>2. ASSUME NEW c \in Call,
             \/ PlanningStep(c) \/ (ApprovalStep(c) /\ ~RecordDecision(c))
             \/ (MaterializationStep(c) /\ ~AdmitChild(c))
             \/ (VerificationStep(c) /\ ~Complete(c))
             \/ Settle(c) \/ Fault(c) \/ Crash(c)
      PROVE  UNCHANGED <<verdicts, child, completion>>
  <2>1. CASE PlanningStep(c)
    BY <2>1 DEF PlanningStep, StartDecompose, BeginDecomposition, ProposeInvalid, ProposeValid,
       SavePlan, AdoptPlan, StartValidate, BeginValidation, AwaitApproval, approvalVars, childVars
  <2>2. CASE ApprovalStep(c) /\ ~RecordDecision(c)
    BY <2>2 DEF ApprovalStep, StartRoute, FindPending, SaveApproval, PutNonce, StartDecide,
       SaveExpired, CheckApprover, OpenMaterialization, approvalVars, childVars
  <2>3. CASE MaterializationStep(c) /\ ~AdmitChild(c)
    BY <2>3 DEF MaterializationStep, StartMaterialize, CheckApproved, NextNode, FindReservation,
       ReadLedger, ReserveOnLedger, SaveReservation, SaveLineage, Activate, approvalVars, childVars
  <2>4. CASE VerificationStep(c) /\ ~Complete(c)
    BY <2>4 DEF VerificationStep, StartVerify, BeginVerification, ReadAgain, Prove, Escalate,
       approvalVars, childVars
  <2>5. CASE Settle(c) \/ Fault(c) \/ Crash(c)
    BY <2>5 DEF Settle, Fault, Crash, approvalVars, childVars
  <2> QED
    BY <1>2, <2>1, <2>2, <2>3, <2>4, <2>5
<1>3. CASE Discover \/ UNCHANGED vars
  BY <1>1, <1>3 DEF Discover, vars, approvalVars, childVars
<1>4. ASSUME NEW c \in Call, RecordDecision(c) \/ AdmitChild(c) \/ Complete(c)
      PROVE  [Gate!Next]_(Gate!vars)
  BY <1>4, RecordDecisionGrants, AdmitChildAdmits, CompleteFinishes
<1>5. ASSUME NEW s \in Slot, CompleteChild(s)
      PROVE  [Gate!Next]_(Gate!vars)
  BY <1>5, CompleteChildProves
<1> QED
  BY <1>1, <1>2, <1>3, <1>4, <1>5 DEF Next

\* No child without a human's approval of its plan, none twice, and no completion that
\* is not proved: the program is an authorization gate.
THEOREM ProgramImplementsGate ==
  ASSUME IsFiniteSet(Call)
  PROVE  Spec => ImplementsGate
<1>1. Init => Gate!Init
  BY GateInit
<1>2. IInv /\ [Next]_vars => [Gate!Next]_(Gate!vars)
  BY GateSimulates
<1> QED
  BY <1>1, <1>2, ProgramInvariant, PTL DEF Spec, ImplementsGate, Gate!Spec
=============================================================================
