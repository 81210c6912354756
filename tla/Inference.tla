----------------------------- MODULE Inference ------------------------------
(***************************************************************************)
(* The usage ledger of one run's model calls, in one of its four forms:    *)
(* planning, validation (one protocol), verification and learning.         *)
(*                                                                         *)
(*   check:    the reservation fits into the budget                        *)
(*   reserve:  planning and validation check once more, under an advisory  *)
(*             lock; the others only INSERT                                *)
(*   dispatch: DISPATCH_STARTED (learning does without)                    *)
(*   invoke:   the provider fails before dispatch, fails, or answers, with *)
(*             or without saying what it used                              *)
(*   settle:   actual use, the whole reservation, or nothing; in planning  *)
(*             only of a record that is open, and a use above its          *)
(*             reservation is flagged and blocks the run                   *)
(*   recover:  a process that starts marks every dispatched call of        *)
(*             planning and validation AMBIGUOUS, by reading its document  *)
(*             and writing it back                                         *)
(***************************************************************************)
EXTENDS Naturals, FiniteSets

CONSTANTS Call,             \* concurrent calls, each in a process of its own
          MaximumLlmCalls, MaximumTotalTokens,
          Reservation,      \* tokens that one call reserves
          Overrun,          \* how far a provider may exceed that
          MaxRecords,       \* bound: model calls
          MaxFaults         \* bound: statements that fail, answers lost, crashes

VARIABLES kind,     \* whose ledger it is
          ledger,   \* sequence-numbered documents
          used,     \* ghost: tokens each call has cost at the provider
          reopened, \* ghost: settled records that recovery wrote back as open
          call,     \* local state of the concurrent calls
          faults

vars == <<kind, ledger, used, reopened, call, faults>>

Record == 1 .. MaxRecords
Tokens == 0 .. Reservation + Overrun

Kind == {"planning", "verification", "learning"}

Document ==
  [status: {"NONE", "OPEN", "SETTLED", "RELEASED"}, total: Tokens, violation: BOOLEAN,
   durability:
      {"RESERVED", "DISPATCH_STARTED", "SETTLED", "AMBIGUOUS", "FAILED_PRE_DISPATCH"}]

NoDocument ==
  [status |-> "NONE", total |-> 0, violation |-> FALSE, durability |-> "RESERVED"]

\* How a call charges its record: nothing, the reservation, or what was used.
Charge == [by: {"NONE", "RESERVATION"}, tokens: {0}] \cup [by: {"ACTUAL"}, tokens: Tokens]
Releasing == [by |-> "NONE", tokens |-> 0]
Reserving == [by |-> "RESERVATION", tokens |-> 0]
Actual(n) == [by |-> "ACTUAL", tokens |-> n]

CallState ==
  [pc: {"idle", "reserve", "dispatch", "invoke", "settle", "catch", "read", "mark"},
   record: 0 .. MaxRecords, charge: Charge, seen: Document]

Idle == [pc |-> "idle", record |-> 0, charge |-> Releasing, seen |-> NoDocument]

Init ==
  /\ kind \in Kind
  /\ ledger = [r \in Record |-> NoDocument]
  /\ used = [r \in Record |-> 0]
  /\ reopened = {}
  /\ call = [c \in Call |-> Idle]
  /\ faults = 0

At(c, pc) == call[c].pc = pc
GoTo(c, pc) == call' = [call EXCEPT ![c].pc = pc]
Return(c) == call' = [call EXCEPT ![c] = Idle]
GoCharge(c, pc, charge) == call' = [call EXCEPT ![c] = [@ EXCEPT !.pc = pc, !.charge = charge]]

Fault == faults < MaxFaults /\ faults' = faults + 1
-----------------------------------------------------------------------------
(* What the ledger adds up to                                               *)

With(statuses) == {r \in Record : ledger[r].status \in statuses}

\* What a record stands for: its reservation while it is open, then its charge.
Cost(r) == CASE ledger[r].status = "OPEN" -> Reservation
             [] ledger[r].status = "SETTLED" -> ledger[r].total
             [] OTHER -> 0

\* ... added up: a pair of record and number for each token.
CostOf(records) ==
  Cardinality({p \in records \X (1 .. Reservation + Overrun) : p[2] <= Cost(p[1])})

\* Mutant: what is reserved by calls that are under way does not count.
Remaining_Completed == MaximumTotalTokens - CostOf(With({"SETTLED"}))

\* aggregatePlanningUsage; verification counts calls once they are settled, and
\* learning does not subtract what is reserved.
Counted == With(IF kind = "verification" THEN {"SETTLED"} ELSE {"OPEN", "SETTLED"})
Remaining ==
  MaximumTotalTokens - CostOf(With(IF kind = "learning" THEN {"SETTLED"} ELSE {"OPEN", "SETTLED"}))

CanReserve ==
  /\ \A r \in Record : ~ledger[r].violation
  /\ Cardinality(Counted) < MaximumLlmCalls
  /\ Reservation <= Remaining
-----------------------------------------------------------------------------
(* One model call                                                           *)

\* assertCanReserve
Check(c) ==
  /\ At(c, "idle")
  /\ CanReserve
  /\ GoTo(c, "reserve")
  /\ UNCHANGED <<kind, ledger, used, reopened, faults>>

\* reserve.  The answer of the INSERT may be lost: the record stays.
Reserve(c) ==
  \E r \in With({"NONE"}) :
    /\ At(c, "reserve")
    /\ \A s \in With({"NONE"}) : r <= s
    /\ kind = "planning" => CanReserve
    /\ ledger' = [ledger EXCEPT ![r].status = "OPEN"]
    /\ \/ /\ call' = [call EXCEPT ![c] =
                         [@ EXCEPT !.pc = IF kind = "learning" THEN "invoke" ELSE "dispatch",
                                   !.record = r]]
          /\ UNCHANGED faults
       \/ Fault /\ Return(c)
    /\ UNCHANGED <<kind, used, reopened>>

\* The budget is gone by now, or the statement fails.
FailToReserve(c) ==
  /\ At(c, "reserve")
  /\ \/ kind = "planning" /\ ~CanReserve /\ UNCHANGED faults
     \/ Fault
  /\ Return(c)
  /\ UNCHANGED <<kind, ledger, used, reopened>>

MarkDispatched(c) ==
  /\ At(c, "dispatch")
  /\ \/ /\ ledger' = [ledger EXCEPT ![call[c].record].durability = "DISPATCH_STARTED"]
        /\ GoTo(c, "invoke")
        /\ UNCHANGED faults
     \/ Fault /\ GoCharge(c, "catch", Reserving) /\ UNCHANGED ledger
  /\ UNCHANGED <<kind, used, reopened>>

\* What each service makes of an answer that does not say what was used.
Unreported(c) ==
  IF kind = "learning" THEN GoCharge(c, "settle", Actual(0)) ELSE GoCharge(c, "settle", Reserving)

\* What it makes of an error that is none of PreDispatchError.
Failed(c) == IF kind = "learning" THEN Return(c) ELSE GoCharge(c, "catch", Reserving)

\* The model answers; a planning error, too, may say what was used.
Invoke(c) ==
  /\ At(c, "invoke")
  /\ \E n \in Tokens \ {0} :
       /\ used' = [used EXCEPT ![call[c].record] = n]
       /\ \/ GoCharge(c, "settle", Actual(n))
          \/ Unreported(c)
          \/ Failed(c)
          \/ kind = "planning" /\ GoCharge(c, "catch", Actual(n))
  /\ UNCHANGED <<kind, ledger, reopened, faults>>

\* Mutant: a failed call is released, whether or not it was dispatched.
FailBeforeDispatch_Any(c) ==
  /\ At(c, "invoke")
  /\ \E n \in Tokens : used' = [used EXCEPT ![call[c].record] = n]
  /\ GoCharge(c, "catch", Releasing)
  /\ UNCHANGED <<kind, ledger, reopened, faults>>

FailBeforeDispatch(c) ==
  /\ At(c, "invoke")
  /\ GoCharge(c, "catch", Releasing)
  /\ UNCHANGED <<kind, ledger, used, reopened, faults>>
-----------------------------------------------------------------------------
(* Settlement                                                               *)

Settled(d, charge) ==
  IF charge.by = "NONE"
  THEN [d EXCEPT !.status = "RELEASED", !.durability = "FAILED_PRE_DISPATCH"]
  ELSE [d EXCEPT !.status = "SETTLED",
                 !.total = IF charge.by = "ACTUAL" THEN charge.tokens ELSE Reservation,
                 !.durability = IF kind = "verification" /\ charge.by = "RESERVATION"
                                THEN "AMBIGUOUS" ELSE "SETTLED",
                 !.violation = @ \/ (kind = "planning" /\ charge.by = "ACTUAL"
                                                       /\ charge.tokens > Reservation)]

\* Only planning and validation look at what they settle.
Settleable(r) == kind = "planning" => ledger[r].status = "OPEN"

\* What follows a settlement that throws: the catch block charges the reservation,
\* a second failure ends the call.
Throw(c) ==
  IF At(c, "settle") /\ kind # "learning" THEN GoCharge(c, "catch", Reserving) ELSE Return(c)

\* settle, release, chargeAmbiguous
Settle(c) ==
  LET r == call[c].record IN
  /\ call[c].pc \in {"settle", "catch"}
  /\ Settleable(r)
  /\ ledger' = [ledger EXCEPT ![r] = Settled(@, call[c].charge)]
  /\ \/ Return(c) /\ UNCHANGED faults
     \/ Fault /\ Throw(c)
  /\ UNCHANGED <<kind, used, reopened>>

FailToSettle(c) ==
  /\ call[c].pc \in {"settle", "catch"}
  /\ \/ ~Settleable(call[c].record) /\ UNCHANGED faults
     \/ Fault
  /\ Throw(c)
  /\ UNCHANGED <<kind, ledger, used, reopened>>
-----------------------------------------------------------------------------
(* Restarts                                                                 *)

Crash(c) ==
  /\ ~At(c, "idle")
  /\ Fault
  /\ Return(c)
  /\ UNCHANGED <<kind, ledger, used, reopened>>

\* recover: a process that starts lists what is DISPATCH_STARTED, its own calls and
\* those of the others; then, for each, markAmbiguous reads and writes.
Recover(c, r) ==
  /\ At(c, "idle")
  /\ kind = "planning"
  /\ ledger[r].durability = "DISPATCH_STARTED"
  /\ call' = [call EXCEPT ![c] = [@ EXCEPT !.pc = "read", !.record = r]]
  /\ UNCHANGED <<kind, ledger, used, reopened, faults>>

ReadAmbiguous(c) ==
  /\ At(c, "read")
  /\ call' = [call EXCEPT ![c] = [@ EXCEPT !.pc = "mark", !.seen = ledger[call[c].record]]]
  /\ UNCHANGED <<kind, ledger, used, reopened, faults>>

MarkAmbiguous(c) ==
  /\ At(c, "mark")
  /\ ledger' = [ledger EXCEPT ![call[c].record] =
                  [call[c].seen EXCEPT !.durability = "AMBIGUOUS"]]
  /\ reopened' = reopened \cup {r \in {call[c].record} : ledger[r].status # call[c].seen.status}
  /\ Return(c)
  /\ UNCHANGED <<kind, used, faults>>

Next ==
  \E c \in Call :
    \/ Check(c) \/ Reserve(c) \/ FailToReserve(c) \/ MarkDispatched(c)
    \/ Invoke(c) \/ FailBeforeDispatch(c) \/ Settle(c) \/ FailToSettle(c)
    \/ (\E r \in Record : Recover(c, r)) \/ ReadAmbiguous(c) \/ MarkAmbiguous(c)
    \/ Crash(c)

Spec == Init /\ [][Next]_vars
-----------------------------------------------------------------------------
TypeOK ==
  /\ kind \in Kind
  /\ ledger \in [Record -> Document]
  /\ used \in [Record -> Tokens]
  /\ reopened \subseteq Record
  /\ call \in [Call -> CallState]
  /\ faults \in 0 .. MaxFaults

\* "treat as AMBIGUOUS and charge reservation conservatively": what a provider was asked
\* for costs the run at least its reservation or what was used of it, whoever fails or
\* restarts; learning alone charges nothing for an answer without figures.
DispatchedIsCharged ==
  \A r \in Record : used[r] > 0 =>
    /\ ledger[r].status # "RELEASED"
    /\ kind # "learning" => Cost(r) >= IF used[r] < Reservation THEN used[r] ELSE Reservation

Overran == {r \in Record : ledger[r].status = "SETTLED" /\ ledger[r].total > Reservation}

\* The aggregate of planning and validation is within the budget, except for calls that
\* used more than they had reserved, and for the given others.
Within(others) ==
  kind = "planning" =>
    /\ Cardinality(Counted) <= MaximumLlmCalls + Cardinality(others)
    /\ CostOf(Record) <= MaximumTotalTokens + Overrun * Cardinality(Overran)
                                            + Reservation * Cardinality(others)

\* PlanningUsageLedger: reservations are atomic, so that planners beside each other never
\* exceed the budget by more than the calls that recovery has reopened.
InferenceIsAccounted == DispatchedIsCharged /\ Within(reopened)

\* "so concurrent planners cannot oversubscribe maximumTotalTokens".
BudgetIsKept == Within({})
=============================================================================
