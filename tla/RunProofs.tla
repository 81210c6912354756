----------------------------- MODULE RunProofs ------------------------------
(***************************************************************************)
(* Proofs about the rest of what becomes of a run, for any callers, runs,  *)
(* budgets and bounds: its model calls are accounted for, its recovery is  *)
(* governed, and whatever part of it a behaviour shows, its tables hold    *)
(* what their columns allow.  The invariants are InferenceInv, of the      *)
(* usage ledger, and RecoveryInv, of the case and its runs.                *)
(***************************************************************************)
EXTENDS PhaseProofs, FiniteSetTheorems

(***************************************************************************)
(* Inference                                                               *)
(***************************************************************************)

\* The call has a record of its own; it looks at one that was dispatched.
Owns(c) == call[c].pc \in {"dispatch", "invoke", "settle", "catch"}
Asks(c) == call[c].pc \in {"dispatch", "invoke"}
Marks(c) == call[c].pc \in {"read", "mark"}

\* What was used is charged, as far as it was reserved.
Covers(n, r) == IF used[r] < Reservation THEN n >= used[r] ELSE n >= Reservation

\* A record that nobody has reserved is empty; one that was asked for is charged.
EntryOf(r) ==
  /\ ledger[r].status = "NONE" => ledger[r] = I!NoDocument /\ used[r] = 0
  /\ used[r] > 0 => /\ ledger[r].status # "RELEASED"
                    /\ kind # "learning" => Covers(I!Cost(r), r)

\* What a call may rely on of its record, and how it may charge it.
OwnerInv(c) ==
  Owns(c) =>
    /\ call[c].record # 0 /\ ledger[call[c].record].status # "NONE"
    /\ Asks(c) => ledger[call[c].record].status = "OPEN" /\ used[call[c].record] = 0
    /\ ~Asks(c) =>
         /\ call[c].charge.by = "NONE" => call[c].pc = "catch" /\ used[call[c].record] = 0
         /\ call[c].charge.by = "ACTUAL" /\ kind # "learning" => call[c].charge.tokens = used[call[c].record]

\* What recovery has read of a record it may still write back; and unless another
\* recovery has reopened the record, nothing but its settlement has happened since.
MarkerInv(c) ==
  Marks(c) =>
    /\ kind = "planning" /\ call[c].record # 0 /\ ledger[call[c].record].status # "NONE"
    /\ call[c].pc = "mark" =>
         /\ call[c].seen.status # "NONE"
         /\ call[c].seen.status = "RELEASED" => used[call[c].record] = 0
         /\ call[c].seen.status = "SETTLED" => Covers(call[c].seen.total, call[c].record)
         /\ call[c].record \notin reopened =>
              /\ call[c].seen.status = "RELEASED" => ledger[call[c].record].status = "RELEASED"
              /\ call[c].seen.status = "SETTLED" => /\ ledger[call[c].record].status = "SETTLED"
                                                    /\ ledger[call[c].record].total = call[c].seen.total

\* A record has one call; while that has no answer, the record was open whenever it was read.
Apart(c, d) ==
  call[c].record = call[d].record =>
    /\ Owns(c) /\ Owns(d) => c = d
    /\ call[c].pc = "mark" /\ Asks(d) => call[c].seen.status = "OPEN"

\* The budget, without what was reopened and what exceeded its reservation.
Reserved ==
  {p \in (I!Record \ reopened) \X (1 .. Reservation) : p[2] <= I!Cost(p[1])}
BudgetInv ==
  kind = "planning" =>
    /\ Cardinality(I!Counted \ reopened) <= MaximumLlmCalls
    /\ Cardinality(Reserved) <= MaximumTotalTokens

InferenceInv ==
  /\ I!TypeOK
  /\ \A r \in I!Record : EntryOf(r)
  /\ \A c \in Caller : OwnerInv(c) /\ MarkerInv(c)
  /\ \A c, d \in Caller : Apart(c, d)
  /\ BudgetInv
-----------------------------------------------------------------------------
\* Inference counts with the operator that the lemmas of FiniteSetTheorems are about.
LEMMA SameCardinality == \A S : I!Cardinality(S) = Cardinality(S)
BY DEF I!Cardinality, Cardinality

LEMMA LedgerRows ==
  ASSUME InferenceInv, NEW r \in I!Record
  PROVE /\ ledger[r] \in I!Document /\ used[r] \in I!Tokens /\ used[r] \in Nat
        /\ ledger[r].status \in {"NONE", "OPEN", "SETTLED", "RELEASED"}
        /\ ledger[r].total \in I!Tokens /\ ledger[r].total \in Nat
        /\ I!Cost(r) \in I!Tokens /\ I!Cost(r) \in Nat
BY RunAssumption, SMTT(30) DEF InferenceInv, I!TypeOK, I!Document, I!Tokens, I!Cost

LEMMA CallRows ==
  ASSUME InferenceInv, NEW c \in Caller
  PROVE /\ call[c] \in I!CallState /\ call[c].record \in 0 .. MaxRecords
        /\ call[c].charge \in I!Charge /\ call[c].seen \in I!Document
        /\ call[c].record # 0 => call[c].record \in I!Record
BY RunAssumption, SMTT(30) DEF InferenceInv, I!TypeOK, I!CallState, I!Record

LedgerGrows ==
  \A r \in I!Record :
    /\ ledger[r].status # "NONE" => ledger'[r].status # "NONE"
    /\ kind = "planning" /\ r \notin reopened' =>
         /\ r \notin reopened
         /\ ledger[r].status = "SETTLED" => /\ ledger'[r].status = "SETTLED"
                                            /\ ledger'[r].total = ledger[r].total
         /\ ledger[r].status = "RELEASED" => ledger'[r].status = "RELEASED"

Undisturbed(d) ==
  /\ Owns(d) => used'[call[d].record] = used[call[d].record]
  /\ Asks(d) => ledger'[call[d].record].status = "OPEN"
  /\ call[d].pc = "mark" /\ call[d].seen.status # "OPEN" =>
       used'[call[d].record] = used[call[d].record]

LEMMA OthersHold ==
  ASSUME InferenceInv, kind' = kind, NEW d \in Caller, call'[d] = call[d],
         LedgerGrows, Undisturbed(d)
  PROVE OwnerInv(d)' /\ MarkerInv(d)'
<1>1. /\ OwnerInv(d) /\ MarkerInv(d) BY DEF InferenceInv
<1>2. call[d].record # 0 => call[d].record \in I!Record BY CallRows
<1>3. OwnerInv(d)'
  BY <1>1, <1>2 DEF OwnerInv, Owns, Asks, LedgerGrows, Undisturbed
<1>4. MarkerInv(d)'
  <2>1. SUFFICES ASSUME Marks(d)
        PROVE /\ kind = "planning" /\ call[d].record # 0
              /\ ledger'[call[d].record].status # "NONE"
              /\ call[d].pc = "mark" =>
                   /\ call[d].seen.status # "NONE"
                   /\ call[d].seen.status = "RELEASED" => used'[call[d].record] = 0
                   /\ call[d].seen.status = "SETTLED" => Covers(call[d].seen.total, call[d].record)'
                   /\ call[d].record \notin reopened' =>
                        /\ call[d].seen.status = "RELEASED" =>
                             ledger'[call[d].record].status = "RELEASED"
                        /\ call[d].seen.status = "SETTLED" =>
                             /\ ledger'[call[d].record].status = "SETTLED"
                             /\ ledger'[call[d].record].total = call[d].seen.total
    BY DEF MarkerInv, Marks, Covers
  <2>2. /\ kind = "planning" /\ call[d].record # 0 /\ call[d].record \in I!Record
        /\ ledger'[call[d].record].status # "NONE"
    BY <2>1, <1>1, <1>2 DEF MarkerInv, LedgerGrows
  <2>3. ASSUME call[d].pc = "mark"
        PROVE /\ call[d].seen.status # "NONE"
              /\ call[d].seen.status = "RELEASED" => used'[call[d].record] = 0
              /\ call[d].seen.status = "SETTLED" => Covers(call[d].seen.total, call[d].record)'
    BY <2>1, <2>3, <1>1 DEF MarkerInv, Undisturbed, Covers
  <2>4. ASSUME call[d].pc = "mark", call[d].record \notin reopened'
        PROVE /\ call[d].seen.status = "RELEASED" =>
                   ledger'[call[d].record].status = "RELEASED"
              /\ call[d].seen.status = "SETTLED" =>
                   /\ ledger'[call[d].record].status = "SETTLED"
                   /\ ledger'[call[d].record].total = call[d].seen.total
    BY <2>1, <2>2, <2>4, <1>1 DEF MarkerInv, LedgerGrows
  <2> QED BY <2>2, <2>3, <2>4
<1> QED BY <1>3, <1>4

KeepsApart(c) ==
  /\ Owns(c)' => \/ ledger[call'[c].record].status = "NONE"
                 \/ /\ Owns(c) /\ call'[c].record = call[c].record
                    /\ Asks(c)' => Asks(c)
  /\ call'[c].pc = "mark" => /\ call'[c].seen = ledger[call'[c].record]

LEMMA ApartHolds ==
  ASSUME InferenceInv, NEW c \in Caller, NEW d \in Caller, call'[d] = call[d], c # d,
         KeepsApart(c)
  PROVE Apart(c, d)' /\ Apart(d, c)'
<1>1. /\ OwnerInv(d) /\ MarkerInv(d) /\ Apart(c, d) /\ Apart(d, c) BY DEF InferenceInv
<1>2. SUFFICES ASSUME call'[c].record = call'[d].record
      PROVE /\ ~(Owns(c)' /\ Owns(d)')
            /\ call'[c].pc = "mark" /\ Asks(d)' => call'[c].seen.status = "OPEN"
            /\ call'[d].pc = "mark" /\ Asks(c)' => call'[d].seen.status = "OPEN"
  BY DEF Apart
<1>3. (Owns(d)' <=> Owns(d)) /\ (Asks(d)' <=> Asks(d)) BY DEF Owns, Asks
<1>4. ~(Owns(c)' /\ Owns(d)')
  BY <1>1, <1>2, <1>3 DEF Apart, OwnerInv, KeepsApart
<1>5. call'[c].pc = "mark" /\ Asks(d)' => call'[c].seen.status = "OPEN"
  BY <1>1, <1>2, <1>3 DEF OwnerInv, KeepsApart, Owns, Asks
<1>6. call'[d].pc = "mark" /\ Asks(c)' => call'[d].seen.status = "OPEN"
  <2>1. SUFFICES ASSUME call[d].pc = "mark", Asks(c)' PROVE call[d].seen.status = "OPEN"
    OBVIOUS
  <2>2. Owns(c)' BY <2>1 DEF Owns, Asks
  <2>3. Marks(d) BY <2>1 DEF Marks
  <2>4. ledger[call[d].record].status # "NONE" BY <2>3, <1>1 DEF MarkerInv
  <2>5. call'[c].record = call[d].record BY <1>2
  <2>6. call[c].record = call[d].record /\ Asks(c)
    BY <2>1, <2>2, <2>4, <2>5 DEF KeepsApart
  <2> QED BY <2>1, <2>6, <1>1 DEF Apart
<1> QED BY <1>4, <1>5, <1>6

LEMMA ApartFromItself ==
  ASSUME NEW c PROVE Apart(c, c)'
BY DEF Apart, Asks

BudgetShrinks ==
  \A r \in I!Record \ reopened' :
    /\ r \notin reopened
    /\ ledger'[r].status \in {"OPEN", "SETTLED"} => ledger[r].status \in {"OPEN", "SETTLED"}
    /\ \A n \in 1 .. Reservation : n <= I!Cost(r)' => n <= I!Cost(r)

LEMMA CountedIsFinite ==
  /\ IsFiniteSet(I!Record) /\ IsFiniteSet(I!Counted) /\ IsFiniteSet(Reserved)
  /\ Cardinality(I!Counted) \in Nat /\ Cardinality(Reserved) \in Nat
<1>1. IsFiniteSet(I!Record) /\ IsFiniteSet(1 .. Reservation)
  BY FS_Interval, RunAssumption DEF I!Record
<1>2. I!Counted \subseteq I!Record BY DEF I!Counted, I!With
<1>3. IsFiniteSet(I!Record \X (1 .. Reservation)) BY <1>1, FS_Product
<1>4. Reserved \subseteq I!Record \X (1 .. Reservation) BY DEF Reserved
<1>5. IsFiniteSet(I!Counted) BY <1>1, <1>2, FS_Subset
<1>6. IsFiniteSet(Reserved) BY <1>3, <1>4, FS_Subset
<1> QED BY <1>1, <1>5, <1>6, FS_CardinalityType

LEMMA BudgetHolds ==
  ASSUME InferenceInv, kind' = kind, kind = "planning" => BudgetShrinks
  PROVE BudgetInv'
<1>1. SUFFICES ASSUME kind = "planning"
      PROVE /\ Cardinality(I!Counted' \ reopened') <= MaximumLlmCalls
            /\ Cardinality(Reserved') <= MaximumTotalTokens
  BY DEF BudgetInv
<1>2. /\ Cardinality(I!Counted \ reopened) <= MaximumLlmCalls
      /\ Cardinality(Reserved) <= MaximumTotalTokens
  BY <1>1 DEF InferenceInv, BudgetInv
<1>3. I!Counted' \ reopened' \subseteq I!Counted \ reopened
  BY <1>1 DEF BudgetShrinks, I!Counted, I!With
<1>4. Reserved' \subseteq Reserved
  <2>1. SUFFICES ASSUME NEW p \in (I!Record \ reopened') \X (1 .. Reservation),
                        p[2] <= I!Cost(p[1])'
        PROVE p \in (I!Record \ reopened) \X (1 .. Reservation) /\ p[2] <= I!Cost(p[1])
    BY DEF Reserved, I!Record
  <2>2. p[1] \in I!Record \ reopened' /\ p[2] \in 1 .. Reservation /\ p = <<p[1], p[2]>>
    BY <2>1
  <2>3. p[1] \notin reopened /\ p[2] <= I!Cost(p[1]) BY <1>1, <2>1, <2>2 DEF BudgetShrinks
  <2> QED BY <2>2, <2>3
<1>5. IsFiniteSet(I!Counted \ reopened) BY CountedIsFinite, FS_Subset, I!Counted \ reopened \subseteq I!Counted
<1>6. /\ Cardinality(I!Counted' \ reopened') <= Cardinality(I!Counted \ reopened)
      /\ IsFiniteSet(I!Counted' \ reopened')
  BY <1>3, <1>5, FS_Subset
<1>7. Cardinality(Reserved') <= Cardinality(Reserved) /\ IsFiniteSet(Reserved')
  BY <1>4, CountedIsFinite, FS_Subset
<1>8. /\ Cardinality(I!Counted' \ reopened') \in Nat /\ Cardinality(I!Counted \ reopened) \in Nat
      /\ Cardinality(Reserved') \in Nat /\ Cardinality(Reserved) \in Nat
  BY <1>5, <1>6, <1>7, CountedIsFinite, FS_CardinalityType
<1> QED BY <1>2, <1>6, <1>7, <1>8, RunAssumption

\* Only c moves; its own record and the others' are as they should be.
LEMMA InferenceStep ==
  ASSUME InferenceInv, I!TypeOK', kind' = kind, NEW c \in Caller,
         \A d \in Caller \ {c} : call'[d] = call[d],
         LedgerGrows, \A d \in Caller \ {c} : Undisturbed(d), KeepsApart(c),
         \A r \in I!Record : EntryOf(r)', OwnerInv(c)', MarkerInv(c)', BudgetInv'
  PROVE InferenceInv'
<1>1. \A d \in Caller \ {c} : OwnerInv(d)' /\ MarkerInv(d)'
  <2> TAKE d \in Caller \ {c}
  <2>1. d \in Caller /\ call'[d] = call[d] /\ Undisturbed(d) OBVIOUS
  <2> QED BY <2>1, OthersHold
<1>2. \A d \in Caller : OwnerInv(d)' /\ MarkerInv(d)' BY <1>1
<1>3. \A d \in Caller \ {c} : Apart(c, d)' /\ Apart(d, c)'
  <2> TAKE d \in Caller \ {c}
  <2>1. d \in Caller /\ call'[d] = call[d] /\ c # d OBVIOUS
  <2> QED BY <2>1, ApartHolds
<1>4. \A d, e \in Caller \ {c} : Apart(d, e)'
  <2> TAKE d, e \in Caller \ {c}
  <2>1. Apart(d, e) /\ call'[d] = call[d] /\ call'[e] = call[e] BY DEF InferenceInv
  <2> QED BY <2>1 DEF Apart, Owns, Asks
<1>5. Apart(c, c)' BY ApartFromItself
<1>6. \A d, e \in Caller : Apart(d, e)' BY <1>3, <1>4, <1>5
<1>7. \A r \in I!Record : EntryOf(r)' OBVIOUS
<1>8. I!Record' = I!Record BY DEF I!Record
<1> HIDE DEF EntryOf, OwnerInv, MarkerInv, Apart
<1> QED BY <1>2, <1>6, <1>7, <1>8 DEF InferenceInv

\* A call that moves without touching the ledger.
LEMMA CallStep ==
  ASSUME InferenceInv, NEW c \in Caller, NEW k \in I!CallState,
         call' = [call EXCEPT ![c] = k], UNCHANGED <<kind, ledger, used, reopened>>,
         faults' \in 0 .. MaxFaults,
         KeepsApart(c), OwnerInv(c)', MarkerInv(c)'
  PROVE InferenceInv'
<1>1. I!TypeOK'
  BY DEF InferenceInv, I!TypeOK
<1>2. \A d \in Caller \ {c} : call'[d] = call[d] BY DEF InferenceInv, I!TypeOK
<1>3. LedgerGrows BY DEF LedgerGrows
<1>4. \A d \in Caller \ {c} : Undisturbed(d)
  <2> TAKE d \in Caller \ {c}
  <2>1. OwnerInv(d) BY DEF InferenceInv
  <2> QED BY <2>1 DEF Undisturbed, OwnerInv, Owns, Asks
<1>5. \A r \in I!Record : EntryOf(r)'
  BY DEF InferenceInv, EntryOf, Covers, I!Cost
<1>6. BudgetShrinks BY DEF BudgetShrinks, I!Cost
<1>7. BudgetInv' BY <1>6, BudgetHolds
<1> HIDE DEF EntryOf, OwnerInv, MarkerInv, BudgetInv, Undisturbed, KeepsApart, LedgerGrows
<1> QED BY <1>1, <1>2, <1>3, <1>4, <1>5, <1>7, InferenceStep

LEMMA FaultTyped ==
  ASSUME InferenceInv, UNCHANGED faults \/ I!Fault
  PROVE faults' \in 0 .. MaxFaults
BY RunAssumption DEF InferenceInv, I!TypeOK, I!Fault

LEMMA IdleFacts ==
  /\ I!Idle \in I!CallState /\ I!Idle.pc = "idle" /\ I!NoDocument \in I!Document
  /\ I!Releasing \in I!Charge /\ I!Reserving \in I!Charge
  /\ I!Releasing.by = "NONE" /\ I!Reserving.by = "RESERVATION"
BY RunAssumption, SMTT(30)
DEF I!Idle, I!CallState, I!NoDocument, I!Document, I!Releasing, I!Reserving, I!Charge, I!Tokens

LEMMA CallAtRest ==
  ASSUME NEW c, call'[c].pc \in {"idle", "reserve"}
  PROVE KeepsApart(c) /\ OwnerInv(c)' /\ MarkerInv(c)'
BY DEF KeepsApart, OwnerInv, MarkerInv, Owns, Asks, Marks

LEMMA CheckHolds ==
  ASSUME InferenceInv, NEW c \in Caller, I!Check(c) PROVE InferenceInv'
<1> DEFINE k == [call[c] EXCEPT !.pc = "reserve"]
<1>1. call' = [call EXCEPT ![c] = k] /\ UNCHANGED <<kind, ledger, used, reopened, faults>>
  BY DEF I!Check, I!GoTo
<1>2. k \in I!CallState /\ k.pc = "reserve" BY CallRows DEF I!CallState
<1>3. call'[c] = k BY <1>1 DEF InferenceInv, I!TypeOK
<1>4. faults' \in 0 .. MaxFaults BY <1>1, FaultTyped
<1> HIDE DEF k
<1>5. KeepsApart(c) /\ OwnerInv(c)' /\ MarkerInv(c)' BY <1>2, <1>3, CallAtRest
<1> QED BY <1>1, <1>2, <1>4, <1>5, CallStep

LEMMA ReturnHolds ==
  ASSUME InferenceInv, NEW c \in Caller, I!Return(c), UNCHANGED faults \/ I!Fault,
         UNCHANGED <<kind, ledger, used, reopened>>
  PROVE InferenceInv'
<1>1. call' = [call EXCEPT ![c] = I!Idle] BY DEF I!Return
<1>2. I!Idle \in I!CallState /\ I!Idle.pc = "idle" BY IdleFacts
<1>3. call'[c].pc = "idle" BY <1>1, <1>2 DEF InferenceInv, I!TypeOK
<1>4. faults' \in 0 .. MaxFaults BY FaultTyped
<1>5. KeepsApart(c) /\ OwnerInv(c)' /\ MarkerInv(c)' BY <1>3, CallAtRest
<1> QED BY <1>1, <1>2, <1>4, <1>5, CallStep

LEMMA FailToReserveHolds ==
  ASSUME InferenceInv, NEW c \in Caller, I!FailToReserve(c) PROVE InferenceInv'
BY ReturnHolds DEF I!FailToReserve

LEMMA CrashHolds ==
  ASSUME InferenceInv, NEW c \in Caller, I!Crash(c) PROVE InferenceInv'
BY ReturnHolds DEF I!Crash

\* A call that goes on with its record, to charge it.
LEMMA ChargeHolds ==
  ASSUME InferenceInv, NEW c \in Caller, Owns(c), UNCHANGED faults \/ I!Fault,
         NEW charge \in I!Charge, I!GoCharge(c, "catch", charge),
         charge = I!Reserving \/ (charge = I!Releasing /\ Asks(c)),
         UNCHANGED <<kind, ledger, used, reopened>>
  PROVE InferenceInv'
<1>0. PICK k : /\ call' = [call EXCEPT ![c] = k] /\ k = [call[c] EXCEPT !.pc = "catch", !.charge = charge]
  BY DEF I!GoCharge
<1>1. /\ k \in I!CallState /\ k.pc = "catch" /\ k.record = call[c].record /\ k.charge = charge
  BY <1>0, CallRows DEF I!CallState
<1>2. call'[c] = k BY <1>0 DEF InferenceInv, I!TypeOK
<1>3. faults' \in 0 .. MaxFaults BY FaultTyped
<1>4. OwnerInv(c) BY DEF InferenceInv
<1>5. /\ Owns(c)' /\ ~Asks(c)' /\ ~Marks(c)' BY <1>1, <1>2 DEF Owns, Asks, Marks
<1>6. KeepsApart(c) BY <1>1, <1>2, <1>5 DEF KeepsApart
<1>7. MarkerInv(c)' BY <1>5 DEF MarkerInv
<1>8. /\ charge.by = "NONE" => used[call[c].record] = 0
      /\ charge.by # "ACTUAL"
  BY <1>4, IdleFacts DEF OwnerInv
<1>9. OwnerInv(c)'
  BY <1>1, <1>2, <1>4, <1>5, <1>8 DEF OwnerInv
<1> QED BY <1>0, <1>1, <1>3, <1>6, <1>7, <1>9, CallStep

LEMMA FailBeforeDispatchHolds ==
  ASSUME InferenceInv, NEW c \in Caller, I!FailBeforeDispatch(c) PROVE InferenceInv'
<1>1. Owns(c) /\ Asks(c) BY DEF I!FailBeforeDispatch, I!At, Owns, Asks
<1> QED BY <1>1, ChargeHolds, IdleFacts DEF I!FailBeforeDispatch

LEMMA ThrowHolds ==
  ASSUME InferenceInv, NEW c \in Caller, Owns(c), I!Throw(c), UNCHANGED faults \/ I!Fault,
         UNCHANGED <<kind, ledger, used, reopened>>
  PROVE InferenceInv'
BY ReturnHolds, ChargeHolds, IdleFacts DEF I!Throw

LEMMA FailToSettleHolds ==
  ASSUME InferenceInv, NEW c \in Caller, I!FailToSettle(c) PROVE InferenceInv'
<1>1. Owns(c) BY DEF I!FailToSettle, Owns
<1> QED BY <1>1, ThrowHolds DEF I!FailToSettle

LEMMA RecoverHolds ==
  ASSUME InferenceInv, NEW c \in Caller, NEW r \in I!Record, I!Recover(c, r)
  PROVE InferenceInv'
<1>0. PICK k : /\ call' = [call EXCEPT ![c] = k] /\ k = [call[c] EXCEPT !.pc = "read", !.record = r]
  BY DEF I!Recover
<1>1. /\ k \in I!CallState /\ k.pc = "read" /\ k.record = r
  <2>1. r \in 0 .. MaxRecords BY RunAssumption DEF I!Record
  <2>2. call[c] \in I!CallState BY CallRows
  <2> QED BY <1>0, <2>1, <2>2 DEF I!CallState
<1>2. call'[c] = k BY <1>0 DEF InferenceInv, I!TypeOK
<1>3. faults' \in 0 .. MaxFaults /\ UNCHANGED <<kind, ledger, used, reopened>>
  BY FaultTyped DEF I!Recover
<1>4. ledger[r].status # "NONE"
  <2>1. EntryOf(r) BY DEF InferenceInv
  <2>2. I!NoDocument.durability # "DISPATCH_STARTED" BY DEF I!NoDocument
  <2> QED BY <2>1, <2>2 DEF EntryOf, I!Recover
<1>5. r # 0 /\ kind = "planning" BY RunAssumption DEF I!Record, I!Recover
<1>6. KeepsApart(c) /\ OwnerInv(c)' BY <1>1, <1>2 DEF KeepsApart, OwnerInv, Owns, Asks
<1>7. MarkerInv(c)' BY <1>1, <1>2, <1>3, <1>4, <1>5 DEF MarkerInv, Marks
<1> QED BY <1>0, <1>1, <1>3, <1>6, <1>7, CallStep

LEMMA ReadAmbiguousHolds ==
  ASSUME InferenceInv, NEW c \in Caller, I!ReadAmbiguous(c)
  PROVE InferenceInv'
<1> DEFINE r == call[c].record
<1>0. PICK k : /\ call' = [call EXCEPT ![c] = k] /\ k = [call[c] EXCEPT !.pc = "mark", !.seen = ledger[r]]
  BY DEF I!ReadAmbiguous
<1>a. MarkerInv(c) /\ Marks(c) BY DEF InferenceInv, Marks, I!ReadAmbiguous, I!At
<1>b. r # 0 /\ r \in I!Record /\ kind = "planning" /\ ledger[r].status # "NONE"
  BY <1>a, CallRows DEF MarkerInv
<1>1. /\ k \in I!CallState /\ k.pc = "mark" /\ k.record = r /\ k.seen = ledger[r]
  BY <1>0, <1>b, CallRows, LedgerRows DEF I!CallState
<1>2. call'[c] = k BY <1>0 DEF InferenceInv, I!TypeOK
<1>3. faults' \in 0 .. MaxFaults /\ UNCHANGED <<kind, ledger, used, reopened>>
  BY FaultTyped DEF I!ReadAmbiguous
<1>4. KeepsApart(c) /\ OwnerInv(c)' BY <1>1, <1>2 DEF KeepsApart, OwnerInv, Owns, Asks
<1>5. /\ ledger[r].status = "RELEASED" => used[r] = 0
      /\ ledger[r].status = "SETTLED" => Covers(ledger[r].total, r)
  <2>1. EntryOf(r) /\ used[r] \in Nat /\ ledger[r].total \in Nat BY <1>b, LedgerRows DEF InferenceInv
  <2>2. CASE used[r] = 0 BY <2>1, <2>2, RunAssumption DEF Covers
  <2>3. CASE used[r] > 0 BY <1>b, <2>1, <2>3 DEF EntryOf, I!Cost
  <2> QED BY <2>1, <2>2, <2>3
<1>6. MarkerInv(c)' BY <1>1, <1>2, <1>3, <1>b, <1>5 DEF MarkerInv, Marks, Covers
<1> QED BY <1>0, <1>1, <1>3, <1>4, <1>6, CallStep

LEMMA EntriesKept ==
  ASSUME InferenceInv, kind' = kind, NEW x \in I!Record,
         \A r \in I!Record \ {x} : ledger'[r] = ledger[r] /\ used'[r] = used[r],
         EntryOf(x)'
  PROVE \A r \in I!Record : EntryOf(r)'
<1> TAKE r \in I!Record
<1>1. CASE r = x BY <1>1
<1>2. CASE r # x
  <2>1. EntryOf(r) /\ ledger'[r] = ledger[r] /\ used'[r] = used[r] BY <1>2 DEF InferenceInv
  <2>2. I!Cost(r)' = I!Cost(r) BY <2>1 DEF I!Cost
  <2> QED BY <2>1, <2>2 DEF EntryOf, Covers
<1> QED BY <1>1, <1>2

\* A reservation keeps the budget: what is reserved grows by at most what was left.
LEMMA ReservationFits ==
  ASSUME InferenceInv, UNCHANGED <<kind, reopened>>, NEW x \in I!Record,
         kind = "planning" => I!CanReserve,
         \A r \in I!Record \ {x} : ledger'[r] = ledger[r]
  PROVE BudgetInv'
<1>1. SUFFICES ASSUME kind = "planning"
      PROVE /\ Cardinality(I!Counted' \ reopened) <= MaximumLlmCalls
            /\ Cardinality(Reserved') <= MaximumTotalTokens
  BY DEF BudgetInv
<1> DEFINE all == {p \in I!With({"OPEN", "SETTLED"}) \X (1 .. Reservation + Overrun) : p[2] <= I!Cost(p[1])}
           mine == {x} \X (1 .. Reservation)
<1>2. /\ Cardinality(I!Counted) < MaximumLlmCalls
      /\ Reservation <= MaximumTotalTokens - Cardinality(all)
  BY <1>1, SameCardinality DEF I!CanReserve, I!Remaining, I!CostOf
<1>3. I!Counted' \ reopened \subseteq I!Counted \cup {x}
  BY <1>1 DEF I!Counted, I!With
<1>4. /\ IsFiniteSet(I!Counted \cup {x})
      /\ Cardinality(I!Counted \cup {x}) <= Cardinality(I!Counted) + 1
  <2>1. CASE x \in I!Counted
    <3>1. I!Counted \cup {x} = I!Counted BY <2>1
    <3> QED BY <3>1, CountedIsFinite
  <2>2. CASE x \notin I!Counted
    <3>1. Cardinality(I!Counted \cup {x}) = Cardinality(I!Counted) + 1 /\ IsFiniteSet(I!Counted \cup {x})
      BY <2>2, CountedIsFinite, FS_AddElement
    <3> QED BY <3>1, CountedIsFinite
  <2> QED BY <2>1, <2>2
<1>5. Reserved' \subseteq all \cup mine
  <2>1. SUFFICES ASSUME NEW p \in (I!Record \ reopened) \X (1 .. Reservation),
                        p[2] <= I!Cost(p[1])', p[1] # x
        PROVE p \in all
    <3>1. \A p \in Reserved' :
            /\ p \in (I!Record \ reopened) \X (1 .. Reservation) /\ p[2] <= I!Cost(p[1])'
            /\ p[1] = x => p \in mine
      BY DEF Reserved, I!Record
    <3> QED BY <3>1, <2>1
  <2>2. /\ p[1] \in I!Record /\ p[2] \in 1 .. Reservation /\ p = <<p[1], p[2]>>
    BY <2>1
  <2>3. ledger'[p[1]] = ledger[p[1]] BY <2>1, <2>2
  <2>4. p[2] <= I!Cost(p[1]) BY <2>1, <2>3 DEF I!Cost
  <2>5. p[1] \in I!With({"OPEN", "SETTLED"})
    BY <2>2, <2>4, LedgerRows DEF I!With, I!Cost
  <2>6. p[2] \in 1 .. Reservation + Overrun BY <2>2, RunAssumption
  <2> QED BY <2>2, <2>4, <2>5, <2>6
<1>6. IsFiniteSet(all) /\ Cardinality(all) \in Nat
  <2>1. IsFiniteSet(1 .. Reservation + Overrun) BY FS_Interval, RunAssumption
  <2>2. I!With({"OPEN", "SETTLED"}) \subseteq I!Record BY DEF I!With
  <2>3. IsFiniteSet(I!With({"OPEN", "SETTLED"})) BY <2>2, CountedIsFinite, FS_Subset
  <2>4. IsFiniteSet(I!With({"OPEN", "SETTLED"}) \X (1 .. Reservation + Overrun)) BY <2>1, <2>3, FS_Product
  <2>5. all \subseteq I!With({"OPEN", "SETTLED"}) \X (1 .. Reservation + Overrun) OBVIOUS
  <2> QED BY <2>4, <2>5, FS_Subset, FS_CardinalityType
<1>7. IsFiniteSet(mine) /\ Cardinality(mine) = Reservation
  <2>1. /\ IsFiniteSet(1 .. Reservation) /\ Cardinality(1 .. Reservation) = Reservation
    BY FS_Interval, RunAssumption
  <2>2. IsFiniteSet({x}) /\ Cardinality({x}) = 1 BY FS_Singleton
  <2> QED BY <2>1, <2>2, FS_Product, RunAssumption
<1>8. /\ IsFiniteSet(all \cup mine)
      /\ Cardinality(all \cup mine) <= Cardinality(all) + Reservation
  <2>1. Cardinality(all \cap mine) \in Nat
    BY <1>6, FS_Subset, FS_CardinalityType, all \cap mine \subseteq all
  <2> HIDE DEF all, mine
  <2>2. /\ IsFiniteSet(all \cup mine)
        /\ Cardinality(all \cup mine) = Cardinality(all) + Cardinality(mine) - Cardinality(all \cap mine)
    BY <1>6, <1>7, FS_Union
  <2> QED BY <2>1, <2>2, <1>6, <1>7, RunAssumption
<1> HIDE DEF all, mine
<1>9. Cardinality(I!Counted' \ reopened) <= Cardinality(I!Counted \cup {x})
  BY <1>3, <1>4, FS_Subset
<1>10. Cardinality(Reserved') <= Cardinality(all \cup mine) BY <1>5, <1>8, FS_Subset
<1>11. /\ Cardinality(I!Counted' \ reopened) \in Nat /\ Cardinality(Reserved') \in Nat
       /\ Cardinality(I!Counted \cup {x}) \in Nat /\ Cardinality(all \cup mine) \in Nat
  BY <1>3, <1>4, <1>5, <1>8, FS_Subset, FS_CardinalityType
<1> QED BY <1>2, <1>4, <1>6, <1>8, <1>9, <1>10, <1>11, CountedIsFinite, RunAssumption

LEMMA ReserveHolds ==
  ASSUME InferenceInv, NEW c \in Caller, I!Reserve(c) PROVE InferenceInv'
<1>1. PICK x \in I!With({"NONE"}) :
        /\ kind = "planning" => I!CanReserve
        /\ ledger' = [ledger EXCEPT ![x].status = "OPEN"]
        /\ \/ /\ call' = [call EXCEPT ![c] =
                         [@ EXCEPT !.pc = IF kind = "learning" THEN "invoke" ELSE "dispatch",
                                   !.record = x]]
              /\ UNCHANGED faults
           \/ I!Fault /\ I!Return(c)
        /\ UNCHANGED <<kind, used, reopened>>
  BY DEF I!Reserve
<1>2. x \in I!Record /\ ledger[x].status = "NONE" /\ x # 0 /\ x \in 0 .. MaxRecords
  BY RunAssumption DEF I!With, I!Record
<1>3. PICK k : /\ call' = [call EXCEPT ![c] = k]
               /\ \/ k = I!Idle
                  \/ k = [call[c] EXCEPT !.pc = IF kind = "learning" THEN "invoke" ELSE "dispatch",
                                         !.record = x]
  BY <1>1 DEF I!Return
<1>4. /\ k \in I!CallState
      /\ \/ k.pc = "idle"
         \/ k.pc \in {"invoke", "dispatch"} /\ k.record = x
  <2>1. CASE k = I!Idle BY <2>1, IdleFacts
  <2>2. CASE k = [call[c] EXCEPT !.pc = IF kind = "learning" THEN "invoke" ELSE "dispatch",
                                 !.record = x]
    <3>1. call[c] \in I!CallState BY CallRows
    <3> QED BY <2>2, <3>1, <1>2 DEF I!CallState
  <2> QED BY <1>3, <2>1, <2>2
<1>5. call'[c] = k /\ \A d \in Caller \ {c} : call'[d] = call[d]
  BY <1>3 DEF InferenceInv, I!TypeOK
<1>6. /\ ledger'[x].status = "OPEN" /\ ledger'[x] \in I!Document
      /\ \A r \in I!Record \ {x} : ledger'[r] = ledger[r]
      /\ ledger' \in [I!Record -> I!Document]
  <2>1. ledger[x] \in I!Document BY <1>2, LedgerRows
  <2>2. [ledger[x] EXCEPT !.status = "OPEN"] \in I!Document BY <2>1 DEF I!Document
  <2>3. ledger \in [I!Record -> I!Document] BY DEF InferenceInv, I!TypeOK
  <2>4. ledger' = [ledger EXCEPT ![x] = [ledger[x] EXCEPT !.status = "OPEN"]] BY <1>1
  <2>5. [ledger[x] EXCEPT !.status = "OPEN"].status = "OPEN" BY <2>1 DEF I!Document
  <2> QED BY <1>2, <2>2, <2>3, <2>4, <2>5
<1>7. used[x] = 0
  <2>1. EntryOf(x) BY <1>2 DEF InferenceInv
  <2> QED BY <1>2, <2>1 DEF EntryOf
<1>8. I!TypeOK'
  <2>1. faults' \in 0 .. MaxFaults BY <1>1, FaultTyped
  <2>2. call' \in [Caller -> I!CallState] BY <1>3, <1>4 DEF InferenceInv, I!TypeOK
  <2> QED BY <1>1, <1>6, <2>1, <2>2 DEF InferenceInv, I!TypeOK
<1>9. LedgerGrows
  <2> SUFFICES ASSUME NEW r \in I!Record
      PROVE /\ ledger[r].status # "NONE" => ledger'[r] = ledger[r]
            /\ reopened' = reopened
    BY DEF LedgerGrows
  <2> QED BY <1>1, <1>2, <1>6
<1>10. \A d \in Caller \ {c} : Undisturbed(d)
  <2> TAKE d \in Caller \ {c}
  <2>1. OwnerInv(d) BY DEF InferenceInv
  <2>2. call[d].record # 0 => call[d].record \in I!Record BY CallRows
  <2> QED BY <1>1, <1>2, <1>6, <2>1, <2>2 DEF Undisturbed, OwnerInv, Owns, Asks
<1>11. KeepsApart(c) BY <1>2, <1>4, <1>5 DEF KeepsApart, Owns
<1>12. EntryOf(x)' BY <1>1, <1>6, <1>7 DEF EntryOf
<1>13. \A r \in I!Record : EntryOf(r)' BY <1>1, <1>2, <1>6, <1>12, EntriesKept
<1>14. OwnerInv(c)' BY <1>1, <1>2, <1>4, <1>5, <1>6, <1>7 DEF OwnerInv, Owns, Asks
<1>15. MarkerInv(c)' BY <1>4, <1>5 DEF MarkerInv, Marks
<1>16. BudgetInv' BY <1>1, <1>2, <1>6, ReservationFits
<1> HIDE DEF EntryOf, OwnerInv, MarkerInv, BudgetInv, Undisturbed, KeepsApart, LedgerGrows
<1> QED BY <1>1, <1>5, <1>8, <1>9, <1>10, <1>11, <1>13, <1>14, <1>15, <1>16, InferenceStep

\* A call that writes the row of one record.
WritesRow(c, k, x, D) ==
  /\ k \in I!CallState /\ x \in I!Record /\ D \in I!Document
  /\ call' = [call EXCEPT ![c] = k] /\ ledger' = [ledger EXCEPT ![x] = D]
  /\ kind' = kind /\ used' = used /\ reopened' \subseteq reopened \cup {x}
  /\ UNCHANGED faults \/ I!Fault

LEMMA RowStep ==
  ASSUME InferenceInv, NEW c \in Caller, NEW k, NEW x, NEW D, WritesRow(c, k, x, D)
  PROVE /\ call'[c] = k /\ \A d \in Caller \ {c} : call'[d] = call[d]
        /\ ledger'[x] = D /\ \A r \in I!Record \ {x} : ledger'[r] = ledger[r]
        /\ I!TypeOK'
<1>1. faults' \in 0 .. MaxFaults BY FaultTyped DEF WritesRow
<1>2. call \in [Caller -> I!CallState] /\ ledger \in [I!Record -> I!Document]
      /\ kind \in I!Kind /\ used \in [I!Record -> I!Tokens] /\ reopened \subseteq I!Record
  BY DEF InferenceInv, I!TypeOK
<1>3. call' \in [Caller -> I!CallState] /\ ledger' \in [I!Record -> I!Document]
      /\ reopened' \subseteq I!Record
  BY <1>2 DEF WritesRow
<1> QED BY <1>1, <1>2, <1>3 DEF I!TypeOK, WritesRow

LEMMA MarkDispatchedHolds ==
  ASSUME InferenceInv, NEW c \in Caller, I!MarkDispatched(c) PROVE InferenceInv'
<1> PICK x : x = call[c].record OBVIOUS
<1>0. Owns(c) /\ Asks(c) /\ OwnerInv(c) BY DEF I!MarkDispatched, I!At, Owns, Asks, InferenceInv
<1>1. /\ x \in I!Record /\ ledger[x].status = "OPEN" /\ used[x] = 0
      /\ ledger[x] \in I!Document /\ call[c] \in I!CallState
  BY <1>0, CallRows, LedgerRows DEF OwnerInv
<1>2. CASE I!Fault /\ I!GoCharge(c, "catch", I!Reserving) /\ UNCHANGED ledger
  BY <1>0, <1>2, ChargeHolds, IdleFacts DEF I!MarkDispatched
<1>3. CASE /\ ledger' = [ledger EXCEPT ![x].durability = "DISPATCH_STARTED"]
           /\ I!GoTo(c, "invoke")
           /\ UNCHANGED faults
  <2>1. PICK k : call' = [call EXCEPT ![c] = k] /\ k = [call[c] EXCEPT !.pc = "invoke"]
    BY <1>3 DEF I!GoTo
  <2>2. k \in I!CallState /\ k.pc = "invoke" /\ k.record = x
    BY <2>1, <1>1 DEF I!CallState
  <2>3. PICK D : ledger' = [ledger EXCEPT ![x] = D] /\ D = [ledger[x] EXCEPT !.durability = "DISPATCH_STARTED"]
    BY <1>3
  <2>4. D \in I!Document /\ D.status = "OPEN" /\ D.total = ledger[x].total
    BY <2>3, <1>1 DEF I!Document
  <2>5. UNCHANGED <<kind, used, reopened>> BY DEF I!MarkDispatched
  <2>a. reopened' \subseteq reopened \cup {x} /\ (UNCHANGED faults \/ I!Fault) BY <1>3, <2>5
  <2>b. call' = [call EXCEPT ![c] = k] /\ k \in I!CallState BY <2>1, <2>2
  <2>c. ledger' = [ledger EXCEPT ![x] = D] /\ D \in I!Document /\ x \in I!Record BY <1>1, <2>3, <2>4
  <2>d. UNCHANGED <<kind, used>> BY <2>5
  <2>e. WritesRow(c, k, x, D) BY <2>a, <2>b, <2>c, <2>d DEF WritesRow
  <2>6. /\ call'[c] = k /\ \A d \in Caller \ {c} : call'[d] = call[d]
        /\ ledger'[x] = D /\ \A r \in I!Record \ {x} : ledger'[r] = ledger[r]
        /\ I!TypeOK'
    BY <2>e, RowStep
  <2>7. \A r \in I!Record : ledger'[r].status = ledger[r].status /\ ledger'[r].total = ledger[r].total
    BY <1>1, <2>4, <2>6
  <2>8. LedgerGrows BY <2>5, <2>7 DEF LedgerGrows
  <2>9. \A d \in Caller \ {c} : Undisturbed(d)
    <3> TAKE d \in Caller \ {c}
    <3>1. OwnerInv(d) BY DEF InferenceInv
    <3>2. call[d].record # 0 => call[d].record \in I!Record BY CallRows
    <3> QED BY <2>5, <2>7, <3>1, <3>2 DEF Undisturbed, OwnerInv, Owns, Asks
  <2>10. KeepsApart(c) BY <1>0, <2>2, <2>6 DEF KeepsApart, Owns, Asks
  <2>11. \A r \in I!Record : I!Cost(r)' = I!Cost(r) BY <2>7 DEF I!Cost
  <2>12. EntryOf(x)'
    BY <1>1, <2>4, <2>5, <2>6 DEF EntryOf
  <2>13. \A r \in I!Record : EntryOf(r)' BY <1>1, <2>5, <2>6, <2>12, EntriesKept
  <2>14. OwnerInv(c)' BY <1>0, <1>1, <2>2, <2>4, <2>5, <2>6 DEF OwnerInv, Owns, Asks
  <2>15. MarkerInv(c)' BY <2>2, <2>6 DEF MarkerInv, Marks
  <2>16. BudgetShrinks BY <2>5, <2>7, <2>11 DEF BudgetShrinks
  <2>17. BudgetInv' BY <2>5, <2>16, BudgetHolds
  <2> HIDE DEF EntryOf, OwnerInv, MarkerInv, BudgetInv, Undisturbed, KeepsApart, LedgerGrows
  <2> QED BY <2>5, <2>6, <2>8, <2>9, <2>10, <2>13, <2>14, <2>15, <2>17, InferenceStep
<1> QED BY <1>2, <1>3 DEF I!MarkDispatched

LEMMA InvokeHolds ==
  ASSUME InferenceInv, NEW c \in Caller, I!Invoke(c) PROVE InferenceInv'
<1> PICK x : x = call[c].record OBVIOUS
<1>0. Owns(c) /\ Asks(c) /\ OwnerInv(c) BY DEF I!Invoke, I!At, Owns, Asks, InferenceInv
<1>1. /\ x \in I!Record /\ ledger[x].status = "OPEN" /\ used[x] = 0 /\ x # 0
      /\ ledger[x] \in I!Document /\ call[c] \in I!CallState
  BY <1>0, CallRows, LedgerRows DEF OwnerInv
<1>2. PICK n \in I!Tokens \ {0} :
        /\ used' = [used EXCEPT ![x] = n]
        /\ \/ I!GoCharge(c, "settle", I!Actual(n))
           \/ I!Unreported(c)
           \/ I!Failed(c)
           \/ kind = "planning" /\ I!GoCharge(c, "catch", I!Actual(n))
  BY DEF I!Invoke
<1>3. UNCHANGED <<kind, ledger, reopened, faults>> BY DEF I!Invoke
<1>4. n \in Nat /\ n > 0 BY RunAssumption DEF I!Tokens
<1>5. PICK k : /\ call' = [call EXCEPT ![c] = k]
               /\ \/ k = I!Idle
                  \/ \E pc \in {"settle", "catch"}, m \in {I!Actual(n), I!Actual(0), I!Reserving} :
                       /\ k = [call[c] EXCEPT !.pc = pc, !.charge = m]
                       /\ m = I!Actual(0) => kind = "learning" \/ n = 0
  <2>1. CASE I!GoCharge(c, "settle", I!Actual(n)) \/ I!GoCharge(c, "catch", I!Actual(n))
    <3>1. I!Actual(n) = I!Actual(0) => n = 0 BY DEF I!Actual
    <3> QED BY <2>1, <3>1 DEF I!GoCharge
  <2>2. CASE I!Unreported(c)
    <3>1. I!Reserving # I!Actual(0) BY DEF I!Actual, I!Reserving
    <3> QED BY <2>2, <3>1 DEF I!Unreported, I!GoCharge
  <2>3. CASE I!Failed(c)
    <3>1. I!Reserving # I!Actual(0) BY DEF I!Actual, I!Reserving
    <3> QED BY <2>3, <3>1 DEF I!Failed, I!Return, I!GoCharge
  <2> QED BY <1>2, <2>1, <2>2, <2>3
<1>6. /\ I!Actual(n) \in I!Charge /\ I!Actual(0) \in I!Charge /\ I!Reserving \in I!Charge
      /\ I!Actual(n).tokens = n /\ I!Actual(n).by = "ACTUAL" /\ I!Actual(0).by = "ACTUAL"
  BY <1>2, RunAssumption, SMTT(30) DEF I!Actual, I!Charge, I!Reserving, I!Tokens
<1>7. /\ k \in I!CallState
      /\ \/ k.pc = "idle"
         \/ /\ k.pc \in {"settle", "catch"} /\ k.record = x
            /\ k.charge.by # "NONE"
            /\ k.charge.by = "ACTUAL" /\ kind # "learning" => k.charge.tokens = n
  <2>1. CASE k = I!Idle BY <2>1, IdleFacts
  <2>2. ASSUME NEW pc \in {"settle", "catch"}, NEW m \in {I!Actual(n), I!Actual(0), I!Reserving},
               k = [call[c] EXCEPT !.pc = pc, !.charge = m],
               m = I!Actual(0) => kind = "learning" \/ n = 0
        PROVE /\ k \in I!CallState
              /\ k.pc \in {"settle", "catch"} /\ k.record = x
              /\ k.charge.by # "NONE"
              /\ k.charge.by = "ACTUAL" /\ kind # "learning" => k.charge.tokens = n
    <3>1. m \in I!Charge BY <1>6
    <3>2. /\ k \in I!CallState /\ k.pc = pc /\ k.record = x /\ k.charge = m
      BY <1>1, <2>2, <3>1 DEF I!CallState
    <3>3. m.by # "NONE" /\ (m.by = "ACTUAL" /\ kind # "learning" => m.tokens = n)
      BY <1>4, <1>6, <2>2, IdleFacts
    <3> QED BY <3>2, <3>3
  <2> QED BY <1>5, <2>1, <2>2
<1>8. /\ call'[c] = k /\ \A d \in Caller \ {c} : call'[d] = call[d]
      /\ used'[x] = n /\ \A r \in I!Record \ {x} : used'[r] = used[r]
  BY <1>1, <1>2, <1>5 DEF InferenceInv, I!TypeOK
<1>9. I!TypeOK' BY <1>2, <1>3, <1>5, <1>7 DEF InferenceInv, I!TypeOK
<1>10. LedgerGrows BY <1>3 DEF LedgerGrows
<1>11. \A d \in Caller \ {c} : Undisturbed(d)
  <2> TAKE d \in Caller \ {c}
  <2>1. OwnerInv(d) /\ Apart(c, d) /\ Apart(d, c) /\ MarkerInv(d) BY DEF InferenceInv
  <2>2. call[d].record # 0 => call[d].record \in I!Record BY CallRows
  <2>3. call[d].record = x => ~Owns(d) /\ (call[d].pc = "mark" => call[d].seen.status = "OPEN")
    BY <1>0, <2>1 DEF Apart
  <2>4. Owns(d) => call[d].record # 0 /\ call[d].record # x BY <2>1, <2>3 DEF OwnerInv
  <2>5. Asks(d) => Owns(d) /\ ledger[call[d].record].status = "OPEN" BY <2>1 DEF OwnerInv, Owns, Asks
  <2>6. call[d].pc = "mark" => call[d].record # 0 BY <2>1 DEF MarkerInv, Marks
  <2> QED BY <1>3, <1>8, <2>2, <2>3, <2>4, <2>5, <2>6 DEF Undisturbed
<1>12. KeepsApart(c) BY <1>0, <1>7, <1>8 DEF KeepsApart, Owns, Asks
<1>13. EntryOf(x)'
  <2>1. I!Cost(x)' = Reservation BY <1>1, <1>3 DEF I!Cost
  <2> QED BY <1>1, <1>3, <1>4, <1>8, <2>1, RunAssumption DEF EntryOf, Covers
<1>14. \A r \in I!Record : EntryOf(r)' BY <1>1, <1>3, <1>8, <1>13, EntriesKept
<1>15. OwnerInv(c)' BY <1>1, <1>3, <1>7, <1>8 DEF OwnerInv, Owns, Asks
<1>16. MarkerInv(c)' BY <1>7, <1>8 DEF MarkerInv, Marks
<1>17. BudgetShrinks BY <1>3 DEF BudgetShrinks, I!Cost
<1>18. BudgetInv' BY <1>3, <1>17, BudgetHolds
<1> HIDE DEF EntryOf, OwnerInv, MarkerInv, BudgetInv, Undisturbed, KeepsApart, LedgerGrows
<1> QED BY <1>3, <1>8, <1>9, <1>10, <1>11, <1>12, <1>14, <1>15, <1>16, <1>18, InferenceStep

LEMMA SettledDocument ==
  ASSUME InferenceInv, NEW d \in I!Document, NEW charge \in I!Charge
  PROVE /\ I!Settled(d, charge) \in I!Document
        /\ charge.by = "NONE" => I!Settled(d, charge).status = "RELEASED"
        /\ charge.by # "NONE" =>
             /\ I!Settled(d, charge).status = "SETTLED"
             /\ I!Settled(d, charge).total =
                  IF charge.by = "ACTUAL" THEN charge.tokens ELSE Reservation
<1>1. CASE charge.by = "NONE"
  BY <1>1 DEF I!Settled, I!Document
<1>2. CASE charge.by # "NONE"
  <2> DEFINE n == IF charge.by = "ACTUAL" THEN charge.tokens ELSE Reservation
             h == IF kind = "verification" /\ charge.by = "RESERVATION" THEN "AMBIGUOUS" ELSE "SETTLED"
             v == d.violation \/ (kind = "planning" /\ charge.by = "ACTUAL"
                                                    /\ charge.tokens > Reservation)
  <2>1. I!Settled(d, charge) =
          [d EXCEPT !.status = "SETTLED", !.total = n, !.durability = h, !.violation = v]
    BY <1>2 DEF I!Settled
  <2>2. n \in I!Tokens BY RunAssumption DEF I!Charge, I!Tokens
  <2>3. h \in {"AMBIGUOUS", "SETTLED"} OBVIOUS
  <2>4. v \in BOOLEAN BY DEF I!Document
  <2>5. n = IF charge.by = "ACTUAL" THEN charge.tokens ELSE Reservation OBVIOUS
  <2> HIDE DEF n, h, v
  <2>6. /\ [d EXCEPT !.status = "SETTLED", !.total = n, !.durability = h, !.violation = v] \in I!Document
        /\ [d EXCEPT !.status = "SETTLED", !.total = n, !.durability = h, !.violation = v].status = "SETTLED"
        /\ [d EXCEPT !.status = "SETTLED", !.total = n, !.durability = h, !.violation = v].total = n
    BY <2>2, <2>3, <2>4 DEF I!Document
  <2> QED BY <1>2, <2>1, <2>5, <2>6
<1> QED BY <1>1, <1>2

LEMMA SettleHolds ==
  ASSUME InferenceInv, NEW c \in Caller, I!Settle(c) PROVE InferenceInv'
<1> PICK x : x = call[c].record OBVIOUS
<1> PICK charge : charge = call[c].charge OBVIOUS
<1>0. Owns(c) /\ ~Asks(c) /\ OwnerInv(c) BY DEF I!Settle, Owns, Asks, InferenceInv
<1>1. /\ x \in I!Record /\ ledger[x].status # "NONE" /\ x # 0
      /\ ledger[x] \in I!Document /\ call[c] \in I!CallState /\ charge \in I!Charge
      /\ charge.by = "NONE" => used[x] = 0
      /\ charge.by = "ACTUAL" /\ kind # "learning" => charge.tokens = used[x]
  BY <1>0, CallRows, LedgerRows DEF OwnerInv
<1>2. /\ UNCHANGED <<kind, used, reopened>> /\ (UNCHANGED faults \/ I!Fault)
      /\ kind = "planning" => ledger[x].status = "OPEN"
      /\ I!Return(c) \/ I!Throw(c)
  BY DEF I!Settle, I!Settleable
<1>3. PICK D : ledger' = [ledger EXCEPT ![x] = D] /\ D = I!Settled(ledger[x], charge)
  BY DEF I!Settle
<1>4. /\ D \in I!Document
      /\ charge.by = "NONE" => D.status = "RELEASED"
      /\ charge.by # "NONE" => /\ D.status = "SETTLED"
                               /\ D.total = IF charge.by = "ACTUAL" THEN charge.tokens ELSE Reservation
  BY <1>1, <1>3, SettledDocument
<1>5. PICK k : /\ call' = [call EXCEPT ![c] = k]
               /\ \/ k = I!Idle
                  \/ k = [call[c] EXCEPT !.pc = "catch", !.charge = I!Reserving]
  BY <1>2 DEF I!Return, I!Throw, I!GoCharge
<1>6. /\ k \in I!CallState
      /\ \/ k.pc = "idle"
         \/ k.pc = "catch" /\ k.record = x /\ k.charge.by = "RESERVATION"
  <2>1. CASE k = I!Idle BY <2>1, IdleFacts
  <2>2. CASE k = [call[c] EXCEPT !.pc = "catch", !.charge = I!Reserving]
    <3>1. /\ k \in I!CallState /\ k.pc = "catch" /\ k.record = x /\ k.charge = I!Reserving
      BY <1>1, <2>2, IdleFacts DEF I!CallState
    <3> QED BY <3>1, IdleFacts
  <2> QED BY <1>5, <2>1, <2>2
<1>7. WritesRow(c, k, x, D) BY <1>1, <1>2, <1>3, <1>4, <1>5, <1>6 DEF WritesRow
<1>8. /\ call'[c] = k /\ \A d \in Caller \ {c} : call'[d] = call[d]
      /\ ledger'[x] = D /\ \A r \in I!Record \ {x} : ledger'[r] = ledger[r]
      /\ I!TypeOK'
  BY <1>7, RowStep
<1>9. LedgerGrows
  <2> SUFFICES ASSUME NEW r \in I!Record
      PROVE /\ ledger[r].status # "NONE" => ledger'[r].status # "NONE"
            /\ kind = "planning" /\ ledger[r].status \in {"SETTLED", "RELEASED"} => ledger'[r] = ledger[r]
            /\ reopened' = reopened
    BY DEF LedgerGrows
  <2> QED BY <1>2, <1>4, <1>8
<1>10. \A d \in Caller \ {c} : Undisturbed(d)
  <2> TAKE d \in Caller \ {c}
  <2>1. OwnerInv(d) /\ Apart(c, d) BY DEF InferenceInv
  <2>2. call[d].record # 0 => call[d].record \in I!Record BY CallRows
  <2>3. Owns(d) => call[d].record \in I!Record \ {x}
    BY <1>0, <2>1, <2>2 DEF Apart, OwnerInv
  <2>4. Asks(d) => Owns(d) /\ ledger[call[d].record].status = "OPEN" BY <2>1 DEF OwnerInv, Owns, Asks
  <2> QED BY <1>2, <1>8, <2>3, <2>4 DEF Undisturbed
<1>11. KeepsApart(c) BY <1>0, <1>6, <1>8 DEF KeepsApart, Owns, Asks
<1>12. EntryOf(x)'
  <2>1. D.status \in {"RELEASED", "SETTLED"} BY <1>4
  <2>2. CASE used[x] = 0 BY <1>2, <1>8, <2>1, <2>2 DEF EntryOf
  <2>3. CASE used[x] # 0
    <3>1. D.status = "SETTLED" BY <1>1, <1>4, <2>3
    <3>2. I!Cost(x)' = D.total BY <1>8, <3>1 DEF I!Cost
    <3>3. kind # "learning" => D.total = used[x] \/ D.total = Reservation
      BY <1>1, <1>4, <2>3
    <3>4. used[x] \in Nat BY <1>1, LedgerRows
    <3>5. kind # "learning" => Covers(I!Cost(x), x)'
      BY <1>2, <3>2, <3>3, <3>4, RunAssumption DEF Covers
    <3> QED BY <1>2, <1>8, <3>1, <3>5 DEF EntryOf
  <2> QED BY <2>2, <2>3
<1>13. \A r \in I!Record : EntryOf(r)' BY <1>1, <1>2, <1>8, <1>12, EntriesKept
<1>14. OwnerInv(c)' BY <1>1, <1>4, <1>6, <1>8 DEF OwnerInv, Owns, Asks
<1>15. MarkerInv(c)' BY <1>6, <1>8 DEF MarkerInv, Marks
<1>16. kind = "planning" => BudgetShrinks
  <2> SUFFICES ASSUME kind = "planning", NEW r \in I!Record \ reopened'
      PROVE /\ r \notin reopened
            /\ ledger'[r].status \in {"OPEN", "SETTLED"} => ledger[r].status \in {"OPEN", "SETTLED"}
            /\ \A n \in 1 .. Reservation : n <= I!Cost(r)' => n <= I!Cost(r)
    BY DEF BudgetShrinks
  <2>1. CASE r = x
    <3>1. ledger[x].status = "OPEN" /\ I!Cost(x) = Reservation BY <1>2 DEF I!Cost
    <3>2. \A n \in 1 .. Reservation : n <= I!Cost(x) BY <3>1, RunAssumption
    <3> QED BY <1>2, <2>1, <3>1, <3>2
  <2>2. CASE r # x BY <1>2, <1>8, <2>2 DEF I!Cost
  <2> QED BY <2>1, <2>2
<1>17. BudgetInv' BY <1>2, <1>16, BudgetHolds
<1> HIDE DEF EntryOf, OwnerInv, MarkerInv, BudgetInv, Undisturbed, KeepsApart, LedgerGrows
<1> QED BY <1>2, <1>8, <1>9, <1>10, <1>11, <1>13, <1>14, <1>15, <1>17, InferenceStep

LEMMA MarkAmbiguousHolds ==
  ASSUME InferenceInv, NEW c \in Caller, I!MarkAmbiguous(c) PROVE InferenceInv'
<1> PICK x : x = call[c].record OBVIOUS
<1> PICK seen : seen = call[c].seen OBVIOUS
<1>0. Marks(c) /\ ~Owns(c) /\ MarkerInv(c) /\ call[c].pc = "mark"
  BY DEF I!MarkAmbiguous, I!At, Marks, Owns, InferenceInv
<1>1. /\ x \in I!Record /\ ledger[x].status # "NONE" /\ x # 0 /\ kind = "planning"
      /\ ledger[x] \in I!Document /\ seen \in I!Document
      /\ seen.status # "NONE"
      /\ seen.status = "RELEASED" => used[x] = 0
      /\ seen.status = "SETTLED" => Covers(seen.total, x)
      /\ x \notin reopened =>
           /\ seen.status = "RELEASED" => ledger[x].status = "RELEASED"
           /\ seen.status = "SETTLED" => /\ ledger[x].status = "SETTLED"
                                         /\ ledger[x].total = seen.total
  BY <1>0, CallRows, LedgerRows DEF MarkerInv
<1>2. /\ UNCHANGED <<kind, used, faults>> /\ reopened \subseteq reopened'
      /\ reopened' \subseteq reopened \cup {x}
      /\ ledger[x].status # seen.status => x \in reopened'
      /\ call' = [call EXCEPT ![c] = I!Idle]
  BY DEF I!MarkAmbiguous, I!Return
<1>3. PICK D : ledger' = [ledger EXCEPT ![x] = D] /\ D = [seen EXCEPT !.durability = "AMBIGUOUS"]
  BY DEF I!MarkAmbiguous
<1>4. D \in I!Document /\ D.status = seen.status /\ D.total = seen.total
  BY <1>1, <1>3 DEF I!Document
<1>5. PICK k : k = I!Idle OBVIOUS
<1>6. k \in I!CallState /\ k.pc = "idle" BY <1>5, IdleFacts
<1>7. WritesRow(c, k, x, D) BY <1>1, <1>2, <1>3, <1>4, <1>5, <1>6 DEF WritesRow
<1>8. /\ call'[c] = k /\ \A d \in Caller \ {c} : call'[d] = call[d]
      /\ ledger'[x] = D /\ \A r \in I!Record \ {x} : ledger'[r] = ledger[r]
      /\ I!TypeOK'
  BY <1>7, RowStep
<1>s. x \notin reopened' => /\ x \notin reopened /\ ledger[x].status = seen.status
                            /\ ledger[x].status = "SETTLED" => ledger[x].total = seen.total
  BY <1>1, <1>2
<1>9. LedgerGrows
  <2> SUFFICES ASSUME NEW r \in I!Record
      PROVE /\ ledger[r].status # "NONE" => ledger'[r].status # "NONE"
            /\ r \notin reopened' =>
                 /\ r \notin reopened
                 /\ ledger[r].status = "SETTLED" => /\ ledger'[r].status = "SETTLED"
                                                    /\ ledger'[r].total = ledger[r].total
                 /\ ledger[r].status = "RELEASED" => ledger'[r].status = "RELEASED"
    BY DEF LedgerGrows
  <2>1. CASE r = x BY <1>1, <1>4, <1>8, <1>s, <2>1
  <2>2. CASE r # x BY <1>2, <1>8, <2>2
  <2> QED BY <2>1, <2>2
<1>10. \A d \in Caller \ {c} : Undisturbed(d)
  <2> TAKE d \in Caller \ {c}
  <2>1. OwnerInv(d) /\ Apart(c, d) BY DEF InferenceInv
  <2>2. call[d].record # 0 => call[d].record \in I!Record BY CallRows
  <2>3. Asks(d) => /\ call[d].record \in I!Record /\ ledger[call[d].record].status = "OPEN"
                   /\ call[d].record = x => seen.status = "OPEN"
    BY <1>0, <2>1, <2>2 DEF Apart, OwnerInv, Owns, Asks
  <2> QED BY <1>2, <1>4, <1>8, <2>3 DEF Undisturbed
<1>11. KeepsApart(c) BY <1>6, <1>8 DEF KeepsApart, Owns
<1>12. EntryOf(x)'
  <2>1. D.status = "OPEN" => I!Cost(x)' = Reservation BY <1>8 DEF I!Cost
  <2>2. D.status = "SETTLED" => I!Cost(x)' = seen.total BY <1>4, <1>8 DEF I!Cost
  <2>3. D.status \in {"OPEN", "SETTLED", "RELEASED"} BY <1>1, <1>4 DEF I!Document
  <2>4. used[x] \in Nat BY <1>1, LedgerRows
  <2>5. D.status = "OPEN" => Covers(I!Cost(x), x)'
    BY <1>2, <2>1, <2>4, RunAssumption DEF Covers
  <2>6. D.status = "SETTLED" => Covers(I!Cost(x), x)'
    BY <1>1, <1>2, <1>4, <2>2 DEF Covers
  <2> QED BY <1>1, <1>2, <1>4, <1>8, <2>3, <2>4, <2>5, <2>6 DEF EntryOf
<1>13. \A r \in I!Record : EntryOf(r)' BY <1>1, <1>2, <1>8, <1>12, EntriesKept
<1>14. OwnerInv(c)' /\ MarkerInv(c)' BY <1>6, <1>8, CallAtRest
<1>16. BudgetShrinks
  <2> SUFFICES ASSUME NEW r \in I!Record \ reopened'
      PROVE /\ r \notin reopened
            /\ ledger'[r].status \in {"OPEN", "SETTLED"} => ledger[r].status \in {"OPEN", "SETTLED"}
            /\ I!Cost(r)' = I!Cost(r)
    BY DEF BudgetShrinks
  <2>1. CASE r = x BY <1>4, <1>8, <1>s, <2>1 DEF I!Cost
  <2>2. CASE r # x BY <1>2, <1>8, <2>2 DEF I!Cost
  <2> QED BY <2>1, <2>2
<1>17. BudgetInv' BY <1>2, <1>16, BudgetHolds
<1> HIDE DEF EntryOf, OwnerInv, MarkerInv, BudgetInv, Undisturbed, KeepsApart, LedgerGrows
<1> QED BY <1>2, <1>8, <1>9, <1>10, <1>11, <1>13, <1>14, <1>17, InferenceStep

LEMMA InferenceGoesOn ==
  ASSUME InferenceInv, I!Next PROVE InferenceInv'
BY CheckHolds, ReserveHolds, FailToReserveHolds, MarkDispatchedHolds, InvokeHolds,
   FailBeforeDispatchHolds, SettleHolds, FailToSettleHolds, RecoverHolds, ReadAmbiguousHolds,
   MarkAmbiguousHolds, CrashHolds
DEF I!Next

LEMMA InferenceBegins ==
  ASSUME I!Init PROVE InferenceInv
<1>0. I!Idle \in I!CallState /\ I!NoDocument \in I!Document BY IdleFacts
<1>1. I!TypeOK
  BY <1>0, RunAssumption DEF I!Init, I!TypeOK, I!Tokens
<1>2. I!NoDocument.status = "NONE" /\ I!NoDocument.total = 0 BY DEF I!NoDocument
<1>3. \A r \in I!Record : ledger[r] = I!NoDocument /\ used[r] = 0 /\ I!Cost(r) = 0
  BY <1>2 DEF I!Init, I!Cost
<1>4. \A c \in Caller : call[c].pc = "idle" BY IdleFacts DEF I!Init
<1>5. \A r \in I!Record : EntryOf(r) BY <1>3 DEF EntryOf
<1>6. \A c \in Caller : OwnerInv(c) /\ MarkerInv(c)
  BY <1>4 DEF OwnerInv, MarkerInv, Owns, Marks
<1>7. \A c, d \in Caller : Apart(c, d) BY <1>4 DEF Apart, Owns
<1>8. I!Counted = {} BY <1>2, <1>3 DEF I!Counted, I!With
<1>9. Reserved = {}
  <2>1. SUFFICES ASSUME NEW p \in (I!Record \ reopened) \X (1 .. Reservation), p[2] <= I!Cost(p[1])
        PROVE FALSE
    BY DEF Reserved
  <2>2. p[1] \in I!Record /\ p[2] \in 1 .. Reservation BY <2>1
  <2> QED BY <1>3, <2>1, <2>2, RunAssumption
<1>10. BudgetInv
  BY <1>8, <1>9, FS_EmptySet, RunAssumption, {} \ reopened = {} DEF BudgetInv
<1> HIDE DEF EntryOf, OwnerInv, MarkerInv, BudgetInv, Apart
<1> QED BY <1>1, <1>5, <1>6, <1>7, <1>10 DEF InferenceInv

LEMMA InferenceRests ==
  ASSUME InferenceInv, UNCHANGED <<callVars, inferenceOnly>> PROVE InferenceInv'
<1>1. I!TypeOK' BY DEF InferenceInv, I!TypeOK, callVars, inferenceOnly
<1>2. \A r \in I!Record : EntryOf(r)'
  BY DEF InferenceInv, EntryOf, Covers, I!Cost, callVars, inferenceOnly
<1>3. \A c \in Caller : OwnerInv(c)' /\ MarkerInv(c)'
  <2> TAKE c \in Caller
  <2>1. OwnerInv(c) /\ MarkerInv(c) BY DEF InferenceInv
  <2> QED BY <2>1 DEF OwnerInv, MarkerInv, Owns, Asks, Marks, Covers, callVars, inferenceOnly
<1>4. \A c, d \in Caller : Apart(c, d)'
  BY DEF InferenceInv, Apart, Owns, Asks, callVars, inferenceOnly
<1>5. BudgetInv'
  <2>1. kind' = kind BY DEF inferenceOnly
  <2>2. BudgetShrinks BY DEF BudgetShrinks, I!Cost, inferenceOnly
  <2> QED BY <2>1, <2>2, BudgetHolds
<1> HIDE DEF EntryOf, OwnerInv, MarkerInv, BudgetInv, Apart
<1> QED BY <1>1, <1>2, <1>3, <1>4, <1>5 DEF InferenceInv

\* What a record of planning may have cost beyond the budget: the reservation when it was
\* reopened, the overrun when it exceeded that.
LEMMA CostsAreBounded ==
  ASSUME InferenceInv, kind = "planning"
  PROVE I!CostOf(I!Record) <= MaximumTotalTokens + Overrun * Cardinality(I!Overran)
                                                 + Reservation * Cardinality(reopened)
<1> DEFINE all == {p \in I!Record \X (1 .. Reservation + Overrun) : p[2] <= I!Cost(p[1])}
           back == reopened \X (1 .. Reservation)
           over == I!Overran \X (Reservation + 1 .. Reservation + Overrun)
<1>1. I!CostOf(I!Record) = Cardinality(all) BY SameCardinality DEF I!CostOf
<1>2. Cardinality(Reserved) <= MaximumTotalTokens BY DEF InferenceInv, BudgetInv
<1>3. all \subseteq (Reserved \cup back) \cup over
  <2>1. SUFFICES ASSUME NEW p \in I!Record \X (1 .. Reservation + Overrun), p[2] <= I!Cost(p[1]),
                        p \notin back, p \notin over
        PROVE p \in Reserved
    OBVIOUS
  <2>2. p[1] \in I!Record /\ p[2] \in 1 .. Reservation + Overrun /\ p = <<p[1], p[2]>> BY <2>1
  <2>3. p[2] \in 1 .. Reservation
    <3>1. SUFFICES ASSUME p[2] > Reservation PROVE FALSE BY <2>2, RunAssumption
    <3>2. p[2] \in Reservation + 1 .. Reservation + Overrun BY <2>2, <3>1, RunAssumption
    <3>3. I!Cost(p[1]) > Reservation /\ I!Cost(p[1]) # 0
      BY <2>1, <2>2, <3>1, LedgerRows, RunAssumption
    <3>4. ledger[p[1]].status = "SETTLED" /\ ledger[p[1]].total > Reservation
      BY <3>3, RunAssumption DEF I!Cost
    <3>5. p[1] \in I!Overran BY <2>2, <3>4 DEF I!Overran
    <3> QED BY <2>1, <2>2, <3>2, <3>5
  <2>4. p[1] \notin reopened BY <2>1, <2>2, <2>3
  <2> QED BY <2>1, <2>2, <2>3, <2>4 DEF Reserved
<1>4. /\ IsFiniteSet(back) /\ Cardinality(back) = Reservation * Cardinality(reopened)
      /\ Cardinality(reopened) \in Nat
  <2>1. IsFiniteSet(1 .. Reservation) /\ Cardinality(1 .. Reservation) = Reservation
    BY FS_Interval, RunAssumption
  <2>2. IsFiniteSet(reopened) /\ Cardinality(reopened) \in Nat
    BY CountedIsFinite, FS_Subset, FS_CardinalityType DEF InferenceInv, I!TypeOK
  <2>3. IsFiniteSet(back) /\ Cardinality(back) = Cardinality(reopened) * Cardinality(1 .. Reservation)
    BY <2>1, <2>2, FS_Product
  <2> HIDE DEF back
  <2> QED BY <2>1, <2>2, <2>3, RunAssumption
<1>5. /\ IsFiniteSet(over) /\ Cardinality(over) = Overrun * Cardinality(I!Overran)
      /\ Cardinality(I!Overran) \in Nat
  <2>1. /\ IsFiniteSet(Reservation + 1 .. Reservation + Overrun)
        /\ Cardinality(Reservation + 1 .. Reservation + Overrun) = Overrun
    BY FS_Interval, RunAssumption
  <2>2. IsFiniteSet(I!Overran) /\ Cardinality(I!Overran) \in Nat
    BY CountedIsFinite, FS_Subset, FS_CardinalityType, I!Overran \subseteq I!Record DEF I!Overran
  <2>3. /\ IsFiniteSet(over)
        /\ Cardinality(over) = Cardinality(I!Overran) * Cardinality(Reservation + 1 .. Reservation + Overrun)
    BY <2>1, <2>2, FS_Product
  <2> HIDE DEF over
  <2> QED BY <2>1, <2>2, <2>3, RunAssumption
<1> HIDE DEF all, back, over
<1>6. /\ IsFiniteSet(Reserved \cup back)
      /\ Cardinality(Reserved \cup back) <= Cardinality(Reserved) + Cardinality(back)
  <2>1. Cardinality(Reserved \cap back) \in Nat
    BY CountedIsFinite, FS_Subset, FS_CardinalityType, Reserved \cap back \subseteq Reserved
  <2>2. /\ IsFiniteSet(Reserved \cup back)
        /\ Cardinality(Reserved \cup back)
             = Cardinality(Reserved) + Cardinality(back) - Cardinality(Reserved \cap back)
    BY <1>4, CountedIsFinite, FS_Union
  <2>3. Cardinality(back) \in Nat BY <1>4, FS_CardinalityType
  <2> QED BY <2>1, <2>2, <2>3, CountedIsFinite
<1>7. /\ IsFiniteSet((Reserved \cup back) \cup over)
      /\ Cardinality((Reserved \cup back) \cup over) <= Cardinality(Reserved \cup back) + Cardinality(over)
  <2>1. Cardinality((Reserved \cup back) \cap over) \in Nat
    BY <1>6, FS_Subset, FS_CardinalityType, (Reserved \cup back) \cap over \subseteq Reserved \cup back
  <2>2. /\ IsFiniteSet((Reserved \cup back) \cup over)
        /\ Cardinality((Reserved \cup back) \cup over)
             = Cardinality(Reserved \cup back) + Cardinality(over)
               - Cardinality((Reserved \cup back) \cap over)
    BY <1>5, <1>6, FS_Union
  <2>3. Cardinality(over) \in Nat /\ Cardinality(Reserved \cup back) \in Nat
    BY <1>5, <1>6, FS_CardinalityType
  <2> QED BY <2>1, <2>2, <2>3
<1>8. Cardinality(all) <= Cardinality((Reserved \cup back) \cup over) /\ IsFiniteSet(all)
  BY <1>3, <1>7, FS_Subset
<1>9. /\ Cardinality(all) \in Nat /\ Cardinality(Reserved \cup back) \in Nat
      /\ Cardinality((Reserved \cup back) \cup over) \in Nat
      /\ Cardinality(back) \in Nat /\ Cardinality(over) \in Nat
  BY <1>4, <1>5, <1>6, <1>7, <1>8, FS_CardinalityType
<1>10. Cardinality(all) <= MaximumTotalTokens + Cardinality(over) + Cardinality(back)
  BY <1>2, <1>6, <1>7, <1>8, <1>9, CountedIsFinite, RunAssumption
<1>11. I!Cardinality(I!Overran) = Cardinality(I!Overran) BY SameCardinality
<1> QED BY <1>1, <1>4, <1>5, <1>10

LEMMA CallsAreBounded ==
  ASSUME InferenceInv, kind = "planning"
  PROVE Cardinality(I!Counted) <= MaximumLlmCalls + Cardinality(reopened)
<1>1. Cardinality(I!Counted \ reopened) <= MaximumLlmCalls BY DEF InferenceInv, BudgetInv
<1>2. IsFiniteSet(reopened) /\ Cardinality(reopened) \in Nat
  BY CountedIsFinite, FS_Subset, FS_CardinalityType DEF InferenceInv, I!TypeOK
<1>3. IsFiniteSet(I!Counted \ reopened) /\ Cardinality(I!Counted \ reopened) \in Nat
  BY CountedIsFinite, FS_Subset, FS_CardinalityType, I!Counted \ reopened \subseteq I!Counted
<1> DEFINE rest == I!Counted \ reopened
<1> HIDE DEF rest
<1>4. /\ IsFiniteSet(rest \cup reopened)
      /\ Cardinality(rest \cup reopened) = Cardinality(rest) + Cardinality(reopened) - Cardinality(rest \cap reopened)
  BY <1>2, <1>3, FS_Union DEF rest
<1>5. Cardinality(rest \cap reopened) \in Nat
  BY <1>2, FS_Subset, FS_CardinalityType, rest \cap reopened \subseteq reopened
<1>6. I!Counted \subseteq rest \cup reopened BY DEF rest
<1>7. Cardinality(I!Counted) <= Cardinality(rest \cup reopened) BY <1>4, <1>6, FS_Subset
<1>8. Cardinality(rest) <= MaximumLlmCalls /\ Cardinality(rest) \in Nat BY <1>1, <1>3 DEF rest
<1> QED BY <1>2, <1>4, <1>5, <1>7, <1>8, CountedIsFinite, RunAssumption

LEMMA InferenceInvAccounts ==
  ASSUME InferenceInv PROVE I!InferenceIsAccounted
<1>1. I!DispatchedIsCharged
  <2>1. SUFFICES ASSUME NEW r \in I!Record, used[r] > 0
        PROVE /\ ledger[r].status # "RELEASED"
              /\ kind # "learning" => I!Cost(r) >= IF used[r] < Reservation THEN used[r] ELSE Reservation
    BY DEF I!DispatchedIsCharged
  <2>2. EntryOf(r) BY DEF InferenceInv
  <2> QED BY <2>1, <2>2 DEF EntryOf, Covers
<1>2. I!Within(reopened)
  BY SameCardinality, CostsAreBounded, CallsAreBounded DEF I!Within
<1> QED BY <1>1, <1>2 DEF I!InferenceIsAccounted

-----------------------------------------------------------------------------
(***************************************************************************)
(* Recovery                                                                *)
(***************************************************************************)

\* What the case says of itself.
CaseInv ==
  /\ lead.status = "NONE" => lead = R!NoCase
  /\ lead.status = "IN_ORCHESTRATION" => lead.run # 0
  /\ lead.status = "SUPPRESSED" => "DO_NOT_CONTACT" \in timeline
  /\ optedOut => lead.status = "SUPPRESSED"

\* Runs are made one after the other; the case is bound to the latest.
Made(r) == runs[r].state # "NONE"

RunInv(r) ==
  /\ ~Made(r) => runs[r] = R!NoRun
  /\ runs[r].version <= r
  /\ runs[r].step > 0 => runs[r].state \in {"EXECUTING", "HALTED"}
  /\ lead.run = 0 => (Made(r) => r = 1)
  /\ lead.run # 0 => (Made(r) <=> r <= lead.run)

BindingInv ==
  /\ lead.run = 0 => lead.version = 1 /\ replacements = {}
  /\ lead.run # 0 => runs[lead.run].version = lead.version

\* What can still come of a run, or has.
Live(r) == runs[r].state \notin {"NONE", "REJECTED", "SUPERSEDED"}

\* What the lineage records happened before the run of today was made.
EdgeInv(e) ==
  /\ e.predecessor < lead.run /\ e.successor <= lead.run /\ e.version <= lead.version

\* Messages beside the attempts on record: one that is being sent, or one whose run is halted.
SentInv ==
  /\ sent <= contacts + 1 /\ sent <= MaxAttempts
  /\ sent > contacts => (\E c \in Caller : call[c].pc = "persist") \/ \E r \in R!Run : runs[r].state = "HALTED"

\* What a call has read of the case is the case, while nobody has saved it.
CaseCall(c) ==
  /\ call[c].pc = "insert" =>
       /\ call[c].seen = [R!NoCase EXCEPT !.status = "OPEN"]
       /\ call[c].current => lead = R!NoCase
  /\ call[c].pc \in {"admit", "save"} =>
       /\ call[c].seen.version = 1
       /\ \/ call[c].seen.run = 0 /\ call[c].seen.status = "READY_FOR_ORCHESTRATION" /\ call[c].pc = "save"
          \/ call[c].seen.run = 1 /\ call[c].seen.status = "IN_ORCHESTRATION"
             /\ (call[c].pc = "save" => Made(1))
       /\ call[c].current => lead.run = 0 /\ lead.status \notin {"NONE", "SUPPRESSED"}
  /\ call[c].pc \in {"read", "evaluate", "refresh"} => lead.status # "NONE"
  /\ call[c].pc = "evaluate" =>
       call[c].seen.status # "NONE" /\ (call[c].current => call[c].seen = lead)
  /\ call[c].pc = "refresh" =>
       /\ call[c].seen.status \in {"ENGAGED", "SUPPRESSED"}
       /\ call[c].seen.status = "SUPPRESSED" => "DO_NOT_CONTACT" \in timeline
       /\ call[c].current => /\ call[c].seen.run = lead.run /\ call[c].seen.version = lead.version
                             /\ lead.status \notin {"NONE", "SUPPRESSED"}
  /\ call[c].pc \in {"replace", "reissue"} =>
       /\ call[c].seen.status = "IN_ORCHESTRATION"
       /\ call[c].current => call[c].seen = lead
  /\ call[c].pc = "replace" =>
       /\ call[c].class \in R!EvidenceClass
       /\ call[c].current => runs[lead.run].attempt < R!MaxRunAttempt /\ R!Unconsumed(call[c].class)
  /\ call[c].pc = "reissue" => (call[c].current => runs[lead.run].state = "REJECTED")

\* What an outreach step may rely on: its run goes on with it alone.
OutreachCall(c) ==
  /\ call[c].pc = "idle" => call[c] = R!Idle
  /\ call[c].pc \in {"insert", "admit", "save", "replace", "reissue"} => call[c].run = 0
  /\ call[c].pc \in {"policy", "send", "persist"} => call[c].run # 0
  /\ call[c].run # 0 => runs[call[c].run].state = "EXECUTING"
  /\ call[c].pc = "send" => sent = contacts /\ contacts < MaxAttempts
  /\ call[c].pc = "persist" => sent = contacts + 1

\* One call at a time acts for a run.
Alone == \A c, d \in Caller : call[c].run # 0 /\ call[d].run # 0 => c = d

RecoveryInv ==
  /\ R!TypeOK
  /\ CaseInv
  /\ BindingInv
  /\ \A r \in R!Run : RunInv(r)
  /\ R!OneLiveRun
  /\ R!LineageIsAChain
  /\ \A e \in replacements : EdgeInv(e)
  /\ SentInv
  /\ \A c \in Caller : CaseCall(c) /\ OutreachCall(c)
  /\ Alone
-----------------------------------------------------------------------------
(* The calls, the case and its runs                                         *)

LEMMA RecoveryTypes ==
  ASSUME R!TypeOK, NEW c \in Caller
  PROVE  /\ call[c] \in R!CallState
         /\ call[c].pc \in {"idle", "insert", "admit", "save", "list", "read", "evaluate", "replace",
                            "reissue", "refresh", "policy", "send", "persist"}
         /\ call[c].seen \in R!Case /\ call[c].current \in BOOLEAN /\ call[c].run \in 0 .. MaxRuns
         /\ call[c].class \in R!EvidenceClass \cup {"NONE"} /\ call[c].tries \in 0 .. 2
         /\ call[c].seen.run \in 0 .. MaxRuns /\ call[c].seen.version \in 1 .. MaxRuns
<1>1. call[c] \in R!CallState
  BY DEF R!TypeOK
<1>2. call[c].seen \in R!Case
  BY <1>1 DEF R!CallState
<1> QED BY <1>1, <1>2 DEF R!CallState, R!Case

LEMMA RunRowTypes ==
  ASSUME R!TypeOK, NEW r \in R!Run
  PROVE  /\ runs[r] \in R!RunRecord
         /\ runs[r].version \in 1 .. MaxRuns /\ runs[r].attempt \in 1 .. 3 /\ runs[r].step \in 0 .. Steps
         /\ runs[r].plan \in BOOLEAN
         /\ runs[r].state \in {"NONE", "ADMITTED", "PLANNING", "VALIDATING", "EXECUTING", "HALTED",
                               "REJECTED", "SUPERSEDED"}
         /\ r \in 1 .. MaxRuns
  BY DEF R!TypeOK, R!RunRecord, R!Run, R!MaxRunAttempt

LEMMA CaseTypes ==
  ASSUME R!TypeOK
  PROVE  /\ lead \in R!Case /\ lead.run \in 0 .. MaxRuns /\ lead.version \in 1 .. MaxRuns
         /\ lead.status \in {"NONE", "OPEN", "READY_FOR_ORCHESTRATION", "IN_ORCHESTRATION",
                             "ENGAGED", "SUPPRESSED"}
         /\ sent \in Nat /\ contacts \in Nat /\ contacts <= sent
<1>1. sent \in Nat /\ contacts \in 0 .. sent
  BY DEF R!TypeOK
<1> QED BY <1>1 DEF R!TypeOK, R!Case

LEMMA Beginnings ==
  /\ R!NoCase \in R!Case /\ R!NoCase.status = "NONE" /\ R!NoCase.run = 0 /\ R!NoCase.version = 1
  /\ [R!NoCase EXCEPT !.status = "OPEN"] \in R!Case
  /\ [R!NoCase EXCEPT !.status = "OPEN"].run = 0 /\ [R!NoCase EXCEPT !.status = "OPEN"].version = 1
  /\ [R!NoCase EXCEPT !.status = "OPEN"].status = "OPEN"
  /\ R!Idle \in R!CallState /\ R!Idle.pc = "idle" /\ R!Idle.run = 0 /\ R!Idle.seen = R!NoCase
  /\ R!NoRun \in R!RunRecord /\ R!NoRun.state = "NONE" /\ R!NoRun.version = 1 /\ R!NoRun.step = 0
<1>1. 1 \in 1 .. MaxRuns /\ 0 \in 0 .. MaxRuns
  BY RunAssumption
<1>2. R!NoCase \in R!Case /\ [R!NoCase EXCEPT !.status = "OPEN"] \in R!Case
  BY <1>1 DEF R!NoCase, R!Case
<1>3. R!Idle \in R!CallState
  <2> DEFINE at == [pc |-> "idle", seen |-> R!NoCase, current |-> TRUE, run |-> 0, class |-> "NONE",
                    tries |-> 0]
  <2>1. at \in R!CallState
    BY <1>1, <1>2 DEF R!CallState
  <2> QED BY <2>1 DEF R!Idle
<1>4. R!NoRun \in R!RunRecord
  <2>1. R!Admitted(1, 1) \in R!RunRecord
    BY <1>1, RunAssumption DEF R!RunRecord, R!Admitted, R!MaxRunAttempt
  <2> QED BY <2>1 DEF R!NoRun, R!RunRecord
<1> QED BY <1>2, <1>3, <1>4 DEF R!NoCase, R!Idle, R!NoRun, R!Admitted

\* What becomes of runs while the case keeps its own: each goes on, or stops for good.
Moved ==
  \A r \in R!Run :
    /\ runs'[r] \in R!RunRecord
    /\ runs'[r].version = runs[r].version /\ runs'[r].attempt = runs[r].attempt
    /\ runs[r].state \in {"NONE", "REJECTED", "SUPERSEDED", "HALTED"} =>
         runs'[r].state = runs[r].state /\ runs'[r].step = runs[r].step
    /\ runs[r].state = "NONE" => runs'[r] = runs[r]
    /\ runs[r].state # "NONE" => runs'[r].state # "NONE"
    /\ runs'[r].step > 0 => runs'[r].state \in {"EXECUTING", "HALTED"}

LEMMA MovedRuns ==
  ASSUME RecoveryInv, Moved, runs' \in [R!Run -> R!RunRecord], UNCHANGED <<lead, replacements>>
  PROVE  /\ BindingInv'
         /\ \A r \in R!Run : RunInv(r)'
         /\ R!OneLiveRun'
         /\ R!LineageIsAChain'
         /\ \A e \in replacements' : EdgeInv(e)'
<1>0. R!TypeOK /\ BindingInv /\ R!OneLiveRun /\ R!LineageIsAChain /\ \A r \in R!Run : RunInv(r)
  BY DEF RecoveryInv
<1>1. \A r \in R!Run : Made(r)' <=> Made(r)
  BY DEF Moved, Made
<1>2. \A r \in R!Run : /\ runs'[r].version = runs[r].version /\ runs'[r].attempt = runs[r].attempt
                       /\ runs[r].state \in {"REJECTED", "SUPERSEDED"} => runs'[r].state = runs[r].state
  BY DEF Moved
<1>3. lead.run # 0 => lead.run \in R!Run
  BY <1>0, CaseTypes DEF R!Run
<1>4. BindingInv'
  BY <1>0, <1>2, <1>3 DEF BindingInv
<1>5. ASSUME NEW r \in R!Run PROVE RunInv(r)'
  <2>1. ~Made(r) => runs'[r] = runs[r]
    BY DEF Moved, Made
  <2>2. runs'[r].step > 0 => runs'[r].state \in {"EXECUTING", "HALTED"}
    BY DEF Moved
  <2> QED BY <1>0, <1>1, <1>2, <2>1, <2>2 DEF RunInv
<1>6. R!OneLiveRun'
  <2> SUFFICES ASSUME NEW r \in R!Run,
                      runs'[r].state \notin {"NONE", "REJECTED", "SUPERSEDED"} \/ runs'[r].step > 0
               PROVE  /\ lead.run \in {0, r}
                      /\ \A s \in R!Run \ {r} : runs'[s].state \in {"NONE", "REJECTED", "SUPERSEDED"}
    BY DEF R!OneLiveRun
  <2>1. runs[r].state \notin {"NONE", "REJECTED", "SUPERSEDED"}
    BY DEF Moved
  <2>2. /\ lead.run \in {0, r}
        /\ \A s \in R!Run \ {r} : runs[s].state \in {"NONE", "REJECTED", "SUPERSEDED"}
    BY <1>0, <2>1 DEF R!OneLiveRun
  <2> QED BY <2>2 DEF Moved
<1>7. R!LineageIsAChain'
  <2>1. \A e \in replacements : e.predecessor \in R!Run /\ e.successor \in R!Run
    BY <1>0 DEF R!TypeOK
  <2>2. \A e \in replacements :
           /\ runs'[e.successor].version = e.version
           /\ e.kind = "REPLACED" =>
                /\ runs'[e.predecessor].version = e.version
                /\ runs'[e.successor].attempt = runs'[e.predecessor].attempt + 1
                /\ runs'[e.predecessor].state = "SUPERSEDED"
           /\ e.kind = "REISSUED" =>
                /\ runs'[e.predecessor].version = e.version - 1
                /\ runs'[e.predecessor].state = "REJECTED"
    BY <1>0, <1>2, <2>1 DEF R!LineageIsAChain
  <2>3. lead.run # 0 =>
          \A r \in R!Run : runs'[r].state # "NONE" =>
            (r = lead.run) = (\A e \in replacements : e.predecessor # r)
    BY <1>0, <1>1 DEF R!LineageIsAChain, Made
  <2>4. \A d, e \in replacements :
          \/ d = e
          \/ /\ d.predecessor # e.predecessor /\ d.successor # e.successor
             /\ d.class = e.class /\ d.version = e.version => d.kind # e.kind
    BY <1>0 DEF R!LineageIsAChain
  <2> QED BY <2>2, <2>3, <2>4 DEF R!LineageIsAChain
<1> QED BY <1>4, <1>5, <1>6, <1>7 DEF RecoveryInv, EdgeInv

\* What a call has read of the case stays so while nobody saves the case.
LEMMA WaitingCase ==
  ASSUME R!TypeOK, CaseInv, Moved, UNCHANGED <<lead, replacements>>,
         timeline \subseteq timeline', NEW c \in Caller, CaseCall(c), call'[c] = call[c]
  PROVE  CaseCall(c)'
<1>1. Made(1) => Made(1)'
  BY RunAssumption DEF Moved, Made, R!Run
<1>2. lead.run # 0 => lead.run \in R!Run
  BY CaseTypes DEF R!Run
<1>3. lead.run # 0 => /\ runs'[lead.run].attempt = runs[lead.run].attempt
                      /\ runs[lead.run].state = "REJECTED" => runs'[lead.run].state = "REJECTED"
  BY <1>2 DEF Moved
<1>4. \A k : R!Unconsumed(k)' <=> R!Unconsumed(k)
  BY DEF R!Unconsumed, R!Replacements
<1>5. call[c].pc \in {"replace", "reissue"} /\ call[c].current => lead.run # 0
  BY DEF CaseCall, CaseInv
<1> QED BY <1>1, <1>3, <1>4, <1>5 DEF CaseCall

\* An outreach that waits keeps its run and what it has sent.
LEMMA WaitingOutreach ==
  ASSUME NEW c \in Caller, OutreachCall(c), call'[c] = call[c],
         call[c].run # 0 => runs'[call[c].run].state = "EXECUTING" /\ UNCHANGED <<sent, contacts>>
  PROVE  OutreachCall(c)'
<1>1. call[c].pc \in {"send", "persist"} => UNCHANGED <<sent, contacts>>
  BY DEF OutreachCall
<1> QED BY <1>1 DEF OutreachCall

\* A step of the calls in movers, or of a run, that does not save the case.
LEMMA RecoveryStep ==
  ASSUME RecoveryInv, NEW movers \in SUBSET Caller,
         call' \in [Caller -> R!CallState], runs' \in [R!Run -> R!RunRecord], Moved,
         UNCHANGED <<lead, optedOut, replacements>>,
         timeline \subseteq timeline', timeline' \subseteq R!LeadEvent,
         faults' \in 0 .. MaxFaults, sent' \in Nat, contacts' \in 0 .. sent', SentInv',
         \A d \in Caller \ movers :
           /\ call'[d] = call[d]
           /\ call[d].run # 0 => runs'[call[d].run].state = "EXECUTING" /\ UNCHANGED <<sent, contacts>>,
         \A c \in movers :
           /\ CaseCall(c)' /\ OutreachCall(c)'
           /\ call'[c].run # 0 => \A d \in Caller \ {c} : call'[d].run = 0
  PROVE  RecoveryInv'
<1>0. /\ R!TypeOK /\ CaseInv /\ Alone /\ \A c \in Caller : CaseCall(c) /\ OutreachCall(c)
  BY DEF RecoveryInv
<1>1. R!TypeOK'
  BY <1>0 DEF R!TypeOK
<1>2. CaseInv'
  BY <1>0 DEF CaseInv
<1>3. /\ BindingInv' /\ R!OneLiveRun' /\ R!LineageIsAChain'
      /\ \A r \in R!Run : RunInv(r)'
      /\ \A e \in replacements' : EdgeInv(e)'
  BY MovedRuns
<1>4. ASSUME NEW c \in Caller PROVE CaseCall(c)' /\ OutreachCall(c)'
  <2>1. CASE c \in movers
    BY <2>1
  <2>2. CASE c \notin movers
    BY <1>0, <2>2, WaitingCase, WaitingOutreach
  <2> QED BY <2>1, <2>2
<1>5. Alone'
  <2> SUFFICES ASSUME NEW c \in Caller, NEW d \in Caller, call'[c].run # 0, call'[d].run # 0
               PROVE  c = d
    BY DEF Alone
  <2>1. CASE c \in movers \/ d \in movers
    BY <2>1
  <2>2. CASE c \notin movers /\ d \notin movers
    BY <1>0, <2>2 DEF Alone
  <2> QED BY <2>1, <2>2
<1> QED BY <1>1, <1>2, <1>3, <1>4, <1>5 DEF RecoveryInv

\* A step of one call that leaves the runs and what was sent.
LEMMA CaseAtRest ==
  ASSUME RecoveryInv, NEW c \in Caller, NEW k \in R!CallState, call' = [call EXCEPT ![c] = k],
         UNCHANGED <<lead, optedOut, replacements, runs, contacts, sent>>,
         timeline \subseteq timeline', timeline' \subseteq R!LeadEvent, faults' \in 0 .. MaxFaults,
         k.run \in {0, call[c].run}, call[c].pc = "persist" => k.pc = "persist",
         CaseCall(c)', OutreachCall(c)'
  PROVE  RecoveryInv'
<1>0. R!TypeOK /\ SentInv /\ Alone /\ \A d \in Caller : OutreachCall(d)
  BY DEF RecoveryInv
<1>1. call \in [Caller -> R!CallState]
  BY <1>0 DEF R!TypeOK
<1>2. /\ call' \in [Caller -> R!CallState] /\ call'[c] = k
      /\ \A d \in Caller \ {c} : call'[d] = call[d]
  BY <1>1
<1>3. Moved /\ runs' \in [R!Run -> R!RunRecord]
  <2>1. \A r \in R!Run : RunInv(r)
    BY DEF RecoveryInv
  <2> QED BY <1>0, <2>1 DEF Moved, R!TypeOK, RunInv
<1>4. SentInv'
  <2>1. ASSUME NEW d \in Caller, call[d].pc = "persist" PROVE call'[d].pc = "persist"
    BY <1>2, <2>1
  <2> QED BY <1>0, <2>1 DEF SentInv
<1>5. \A d \in Caller \ {c} : /\ call'[d] = call[d]
                              /\ call[d].run # 0 => /\ runs'[call[d].run].state = "EXECUTING"
                                                    /\ UNCHANGED <<sent, contacts>>
  BY <1>0, <1>2 DEF OutreachCall
<1>6. call'[c].run # 0 => \A d \in Caller \ {c} : call'[d].run = 0
  BY <1>0, <1>2 DEF Alone
<1>7. sent' \in Nat /\ contacts' \in 0 .. sent'
  BY <1>0 DEF R!TypeOK
<1>8. PICK movers \in SUBSET Caller : movers = {c}
  OBVIOUS
<1>9. /\ \A d \in Caller \ movers :
           /\ call'[d] = call[d]
           /\ call[d].run # 0 => runs'[call[d].run].state = "EXECUTING" /\ UNCHANGED <<sent, contacts>>
      /\ \A e \in movers :
           /\ CaseCall(e)' /\ OutreachCall(e)'
           /\ call'[e].run # 0 => \A d \in Caller \ {e} : call'[d].run = 0
  BY <1>5, <1>6, <1>8
<1> QED BY <1>2, <1>3, <1>4, <1>7, <1>9, RecoveryStep

\* A call that returns.
LEMMA Returned ==
  ASSUME NEW c \in Caller, call'[c] = R!Idle
  PROVE  CaseCall(c)' /\ OutreachCall(c)'
  BY Beginnings DEF CaseCall, OutreachCall

LEMMA QuietReturn ==
  ASSUME RecoveryInv, NEW c \in Caller, R!Return(c), call[c].pc # "persist",
         UNCHANGED <<lead, optedOut, replacements, runs, timeline, contacts, sent, faults>>
  PROVE  RecoveryInv'
<1>0. R!TypeOK
  BY DEF RecoveryInv
<1>1. call'[c] = R!Idle
  BY <1>0 DEF R!TypeOK, R!Return
<1>2. timeline' \subseteq R!LeadEvent /\ faults' \in 0 .. MaxFaults
  BY <1>0 DEF R!TypeOK
<1> QED BY <1>1, <1>2, Returned, Beginnings, CaseAtRest DEF R!Return

\* A call that has read the case, and one that goes on with what it has.
LEMMA Carried ==
  ASSUME R!TypeOK, NEW c \in Caller, NEW seen \in R!Case,
         NEW pc \in {"insert", "admit", "save", "evaluate", "replace", "reissue"}, R!Carry(c, pc, seen)
  PROVE  \E k \in R!CallState :
           /\ call' = [call EXCEPT ![c] = k] /\ call'[c] = k
           /\ k.pc = pc /\ k.seen = seen /\ k.current = TRUE /\ k.run = call[c].run
<1>1. call \in [Caller -> R!CallState] /\ call[c] \in R!CallState
  BY DEF R!TypeOK
<1> DEFINE k == [call[c] EXCEPT !.pc = pc, !.seen = seen, !.current = TRUE]
<1>2. k \in R!CallState
  BY <1>1 DEF R!CallState
<1>3. k.pc = pc /\ k.seen = seen /\ k.current = TRUE /\ k.run = call[c].run
  BY <1>1 DEF R!CallState
<1>4. call' = [call EXCEPT ![c] = k]
  BY DEF R!Carry
<1> QED BY <1>1, <1>2, <1>3, <1>4

LEMMA WentTo ==
  ASSUME R!TypeOK, NEW c \in Caller,
         NEW pc \in {"save", "list", "read", "send", "persist"}, R!GoTo(c, pc)
  PROVE  \E k \in R!CallState :
           /\ call' = [call EXCEPT ![c] = k] /\ call'[c] = k
           /\ k.pc = pc /\ k.seen = call[c].seen /\ k.current = call[c].current
           /\ k.run = call[c].run
<1>1. call \in [Caller -> R!CallState] /\ call[c] \in R!CallState
  BY DEF R!TypeOK
<1> DEFINE k == [call[c] EXCEPT !.pc = pc]
<1>2. k \in R!CallState
  BY <1>1 DEF R!CallState
<1>3. k.pc = pc /\ k.seen = call[c].seen /\ k.current = call[c].current /\ k.run = call[c].run
  BY <1>1 DEF R!CallState
<1>4. call' = [call EXCEPT ![c] = k]
  BY DEF R!GoTo
<1> QED BY <1>1, <1>2, <1>3, <1>4

-----------------------------------------------------------------------------
(* The steps that only read                                                 *)

LEMMA DetectKeeps ==
  ASSUME RecoveryInv, NEW c \in Caller, R!Detect(c)
  PROVE  RecoveryInv'
<1>0. R!TypeOK /\ CaseInv /\ OutreachCall(c)
  BY DEF RecoveryInv
<1>1. PICK seen : seen = [R!NoCase EXCEPT !.status = "OPEN"]
  OBVIOUS
<1>2. seen \in R!Case /\ lead = R!NoCase
  BY <1>1, Beginnings DEF R!Detect
<1>3. PICK k \in R!CallState :
        /\ call' = [call EXCEPT ![c] = k] /\ call'[c] = k
        /\ k.pc = "insert" /\ k.seen = seen /\ k.current = TRUE /\ k.run = call[c].run
  <2>1. R!Carry(c, "insert", seen)
    BY <1>1 DEF R!Detect
  <2>2. R!TypeOK /\ seen \in R!Case
    BY <1>0, <1>2
  <2> QED BY <2>1, <2>2, Carried
<1>4. call[c].pc = "idle" /\ k.run = 0
  BY <1>0, <1>3, Beginnings DEF R!Detect, R!At, OutreachCall
<1>5. UNCHANGED <<lead, optedOut, replacements, runs, timeline, contacts, sent, faults>>
  BY DEF R!Detect, R!caseVars, R!outreachVars
<1>6. CaseCall(c)' /\ OutreachCall(c)'
  BY <1>1, <1>2, <1>3, <1>4, <1>5 DEF CaseCall, OutreachCall
<1> QED BY <1>0, <1>3, <1>4, <1>5, <1>6, CaseAtRest DEF R!TypeOK

LEMMA PreviewKeeps ==
  ASSUME RecoveryInv, NEW c \in Caller, R!Preview(c)
  PROVE  RecoveryInv'
<1>0. R!TypeOK /\ BindingInv /\ OutreachCall(c)
  BY DEF RecoveryInv
<1>1. PICK seen : seen = [lead EXCEPT !.status = "READY_FOR_ORCHESTRATION"]
  OBVIOUS
<1>2. /\ seen \in R!Case /\ seen.run = 0 /\ seen.version = 1
      /\ seen.status = "READY_FOR_ORCHESTRATION"
      /\ lead.run = 0 /\ lead.status \notin {"NONE", "SUPPRESSED"}
  BY <1>0, <1>1, CaseTypes DEF R!Preview, R!Case, BindingInv
<1>3. PICK k \in R!CallState :
        /\ call' = [call EXCEPT ![c] = k] /\ call'[c] = k
        /\ k.pc = "save" /\ k.seen = seen /\ k.current = TRUE /\ k.run = call[c].run
  <2>1. R!Carry(c, "save", seen)
    BY <1>1 DEF R!Preview
  <2>2. R!TypeOK /\ seen \in R!Case
    BY <1>0, <1>2
  <2> QED BY <2>1, <2>2, Carried
<1>4. call[c].pc = "idle" /\ k.run = 0
  BY <1>0, <1>3, Beginnings DEF R!Preview, R!At, OutreachCall
<1>5. UNCHANGED <<lead, optedOut, replacements, runs, timeline, contacts, sent, faults>>
  BY DEF R!Preview, R!caseVars, R!outreachVars
<1>6. CaseCall(c)' /\ OutreachCall(c)'
  BY <1>2, <1>3, <1>4, <1>5 DEF CaseCall, OutreachCall
<1> QED BY <1>0, <1>3, <1>4, <1>5, <1>6, CaseAtRest DEF R!TypeOK

LEMMA PrepareKeeps ==
  ASSUME RecoveryInv, NEW c \in Caller, R!Prepare(c)
  PROVE  RecoveryInv'
<1>0. R!TypeOK /\ BindingInv /\ OutreachCall(c)
  BY DEF RecoveryInv
<1>1. PICK seen : seen = [lead EXCEPT !.status = "IN_ORCHESTRATION", !.run = 1]
  OBVIOUS
<1>2. /\ seen \in R!Case /\ seen.run = 1 /\ seen.version = 1
      /\ seen.status = "IN_ORCHESTRATION"
      /\ lead.run = 0 /\ lead.status \notin {"NONE", "SUPPRESSED"}
  <2>1. lead \in R!Case /\ 1 \in 0 .. MaxRuns
    BY <1>0, CaseTypes, RunAssumption
  <2>2. lead.run = 0 /\ lead.version = 1 /\ lead.status \notin {"NONE", "SUPPRESSED"}
    BY <1>0 DEF R!Prepare, BindingInv
  <2> QED BY <1>1, <2>1, <2>2 DEF R!Case
<1>3. PICK k \in R!CallState :
        /\ call' = [call EXCEPT ![c] = k] /\ call'[c] = k
        /\ k.pc = "admit" /\ k.seen = seen /\ k.current = TRUE /\ k.run = call[c].run
  <2>1. R!Carry(c, "admit", seen)
    BY <1>1 DEF R!Prepare
  <2>2. R!TypeOK /\ seen \in R!Case
    BY <1>0, <1>2
  <2> QED BY <2>1, <2>2, Carried
<1>4. call[c].pc = "idle" /\ k.run = 0
  BY <1>0, <1>3, Beginnings DEF R!Prepare, R!At, OutreachCall
<1>5. UNCHANGED <<lead, optedOut, replacements, runs, timeline, contacts, sent, faults>>
  BY DEF R!Prepare, R!caseVars, R!outreachVars
<1>6. CaseCall(c)' /\ OutreachCall(c)'
  BY <1>2, <1>3, <1>4, <1>5 DEF CaseCall, OutreachCall
<1> QED BY <1>0, <1>3, <1>4, <1>5, <1>6, CaseAtRest DEF R!TypeOK

LEMMA AppendKeeps ==
  ASSUME RecoveryInv, NEW c \in Caller, NEW e \in R!LeadEvent, R!Append(c, e)
  PROVE  RecoveryInv'
<1>0. R!TypeOK /\ OutreachCall(c)
  BY DEF RecoveryInv
<1>1. PICK k \in R!CallState :
        /\ call' = [call EXCEPT ![c] = k] /\ call'[c] = k
        /\ k.pc = "list" /\ k.run = call[c].run
  BY <1>0, WentTo DEF R!Append
<1>2. call[c].pc = "idle" /\ k.run = 0
  BY <1>0, <1>1, Beginnings DEF R!Append, R!At, OutreachCall
<1>3. /\ UNCHANGED <<lead, optedOut, replacements, runs, contacts, sent, faults>>
      /\ timeline' = timeline \cup {e}
  BY DEF R!Append, R!caseVars
<1>4. CaseCall(c)' /\ OutreachCall(c)'
  BY <1>1, <1>2 DEF CaseCall, OutreachCall
<1>5. timeline \subseteq timeline' /\ timeline' \subseteq R!LeadEvent /\ faults' \in 0 .. MaxFaults
  BY <1>0, <1>3 DEF R!TypeOK
<1> QED BY <1>1, <1>2, <1>3, <1>4, <1>5, CaseAtRest

LEMMA ListOpenKeeps ==
  ASSUME RecoveryInv, NEW c \in Caller, R!ListOpen(c)
  PROVE  RecoveryInv'
<1>0. R!TypeOK /\ OutreachCall(c)
  BY DEF RecoveryInv
<1>1. UNCHANGED <<lead, optedOut, replacements, runs, timeline, contacts, sent, faults>>
  BY DEF R!ListOpen, R!caseVars, R!outreachVars
<1>2. CASE lead.status \in {"NONE", "SUPPRESSED"}
  BY <1>1, <1>2, QuietReturn DEF R!ListOpen, R!At
<1>3. CASE lead.status \notin {"NONE", "SUPPRESSED"}
  <2>1. PICK k \in R!CallState :
          /\ call' = [call EXCEPT ![c] = k] /\ call'[c] = k
          /\ k.pc = "read" /\ k.run = call[c].run
    <3>1. R!GoTo(c, "read")
      BY <1>3 DEF R!ListOpen
    <3> QED BY <1>0, <3>1, WentTo
  <2>2. CaseCall(c)' /\ OutreachCall(c)' /\ call[c].pc = "list"
    BY <1>0, <1>1, <1>3, <2>1 DEF CaseCall, OutreachCall, R!ListOpen, R!At
  <2> QED BY <1>0, <1>1, <2>1, <2>2, CaseAtRest DEF R!TypeOK
<1> QED BY <1>2, <1>3

LEMMA CheckPolicyKeeps ==
  ASSUME RecoveryInv, NEW c \in Caller, R!At(c, "policy"), R!Eligible, R!GoTo(c, "send"),
         UNCHANGED <<lead, optedOut, replacements, runs, timeline, contacts, sent, faults>>
  PROVE  RecoveryInv'
<1>0. R!TypeOK /\ OutreachCall(c) /\ SentInv /\ Alone /\ R!OneLiveRun
      /\ \A d \in Caller : OutreachCall(d)
  BY DEF RecoveryInv
<1>1. PICK k \in R!CallState :
        /\ call' = [call EXCEPT ![c] = k] /\ call'[c] = k
        /\ k.pc = "send" /\ k.run = call[c].run
  BY <1>0, WentTo
<1>2. call[c].run # 0 /\ call[c].run \in R!Run /\ runs[call[c].run].state = "EXECUTING"
  BY <1>0, RecoveryTypes DEF OutreachCall, R!At, R!Run
<1>3. sent = contacts
  <2>1. ASSUME NEW d \in Caller, call[d].pc = "persist" PROVE FALSE
    <3>1. call[d].run # 0
      BY <1>0, <2>1 DEF OutreachCall
    <3> QED BY <1>0, <1>2, <2>1, <3>1 DEF Alone, R!At
  <2>2. ASSUME NEW r \in R!Run, runs[r].state = "HALTED" PROVE FALSE
    BY <1>0, <1>2, <2>2 DEF R!OneLiveRun
  <2>3. ~(sent > contacts)
    BY <1>0, <2>1, <2>2 DEF SentInv
  <2> QED BY <1>0, <2>3, CaseTypes
<1>4. contacts < MaxAttempts
  BY DEF R!Eligible
<1>5. CaseCall(c)' /\ OutreachCall(c)'
  BY <1>1, <1>2, <1>3, <1>4 DEF CaseCall, OutreachCall
<1> QED BY <1>0, <1>1, <1>5, CaseAtRest DEF R!TypeOK, R!At

LEMMA RefreshKeeps ==
  ASSUME RecoveryInv, NEW c \in Caller, R!Refresh(c)
  PROVE  RecoveryInv'
<1>0. R!TypeOK /\ CaseCall(c) /\ OutreachCall(c)
  BY DEF RecoveryInv
<1>1. UNCHANGED <<lead, optedOut, replacements, runs, timeline, contacts, sent, faults>>
  BY DEF R!Refresh, R!caseVars, R!outreachVars
<1>2. PICK k \in R!CallState :
        /\ call' = [call EXCEPT ![c] = k] /\ call'[c] = k
        /\ k.pc = "evaluate" /\ k.seen = lead /\ k.current = TRUE /\ k.run = call[c].run
  <2>1. R!Carry(c, "evaluate", lead) /\ lead \in R!Case
    BY <1>0, CaseTypes DEF R!Refresh
  <2> QED BY <1>0, <2>1, Carried
<1>3. call[c].pc = "read"
  BY DEF R!Refresh, R!At
<1>4. OutreachCall(c)'
  BY <1>0, <1>1, <1>2, <1>3 DEF OutreachCall
<1>5. lead.status # "NONE"
  BY <1>0, <1>3 DEF CaseCall
<1>6. CaseCall(c)'
  BY <1>1, <1>2, <1>5 DEF CaseCall
<1> QED BY <1>0, <1>1, <1>2, <1>3, <1>4, <1>6, CaseAtRest DEF R!TypeOK

LEMMA EvaluateKeeps ==
  ASSUME RecoveryInv, NEW c \in Caller, R!Evaluate(c)
  PROVE  RecoveryInv'
<1>0. R!TypeOK /\ CaseInv /\ OutreachCall(c) /\ CaseCall(c)
  BY DEF RecoveryInv
<1>1. UNCHANGED <<lead, optedOut, replacements, runs, timeline, contacts, sent, faults>>
  BY DEF R!Evaluate, R!caseVars, R!outreachVars
<1>2. CASE R!Return(c)
  BY <1>1, <1>2, QuietReturn DEF R!Evaluate, R!At
<1>3. CASE ~R!Return(c)
  <2>0. PICK status : status = R!Outcome(call[c].seen.status)
    OBVIOUS
  <2> DEFINE k == [call[c] EXCEPT !.pc = "refresh", !.seen = [@ EXCEPT !.status = status]]
  <2>1. /\ status # call[c].seen.status /\ call[c].pc = "evaluate"
        /\ call' = [call EXCEPT ![c] = [@ EXCEPT !.pc = "refresh", !.seen.status = status]]
    BY <1>3, <2>0 DEF R!Evaluate, R!At
  <2>2. /\ call \in [Caller -> R!CallState] /\ call[c] \in R!CallState /\ call[c].seen \in R!Case
        /\ call[c].current \in BOOLEAN
    BY <1>0, RecoveryTypes DEF R!TypeOK
  <2>3. /\ status \in {"ENGAGED", "SUPPRESSED"}
        /\ status = "SUPPRESSED" => "DO_NOT_CONTACT" \in timeline
        /\ call[c].seen.status = "SUPPRESSED" => "DO_NOT_CONTACT" \notin timeline
    BY <2>0, <2>1 DEF R!Outcome
  <2>4. PICK seen \in R!Case :
           /\ seen = [call[c].seen EXCEPT !.status = status]
           /\ seen.status = status /\ seen.run = call[c].seen.run /\ seen.version = call[c].seen.version
    <3>1. /\ call[c].seen \in R!Case
          /\ status \in {"NONE", "OPEN", "READY_FOR_ORCHESTRATION", "IN_ORCHESTRATION", "ENGAGED",
                         "SUPPRESSED"}
      BY <2>2, <2>3
    <3>2. [call[c].seen EXCEPT !.status = status] \in R!Case
      BY <3>1 DEF R!Case
    <3>3. /\ [call[c].seen EXCEPT !.status = status].status = status
          /\ [call[c].seen EXCEPT !.status = status].run = call[c].seen.run
          /\ [call[c].seen EXCEPT !.status = status].version = call[c].seen.version
      BY <3>1 DEF R!Case
    <3> QED BY <3>2, <3>3
  <2>5. /\ k \in R!CallState /\ k.pc = "refresh" /\ k.seen = seen
        /\ k.current = call[c].current /\ k.run = call[c].run
    BY <2>2, <2>4 DEF R!CallState
  <2>6. call' = [call EXCEPT ![c] = k]
    BY <2>1
  <2> HIDE DEF k
  <2>7. call'[c] = k
    BY <2>2, <2>6
  <2>8. OutreachCall(c)'
    BY <1>0, <1>1, <2>1, <2>5, <2>7 DEF OutreachCall
  <2>9. call[c].current => call[c].seen = lead /\ lead.status \notin {"NONE", "SUPPRESSED"}
    BY <1>0, <2>1, <2>3 DEF CaseCall, CaseInv
  <2>10. CaseCall(c)'
    BY <1>0, <1>1, <2>1, <2>3, <2>4, <2>5, <2>7, <2>9 DEF CaseCall
  <2> QED BY <1>0, <1>1, <2>1, <2>5, <2>6, <2>8, <2>10, CaseAtRest DEF R!TypeOK
<1> QED BY <1>2, <1>3

LEMMA TryAgainKeeps ==
  ASSUME RecoveryInv, NEW c \in Caller, R!At(c, "refresh"), call[c].tries < 2,
         call' = [call EXCEPT ![c] = [@ EXCEPT !.pc = "read", !.tries = call[c].tries + 1]],
         UNCHANGED <<lead, optedOut, replacements, runs, timeline, contacts, sent, faults>>
  PROVE  RecoveryInv'
<1>0. R!TypeOK /\ OutreachCall(c) /\ CaseCall(c)
  BY DEF RecoveryInv
<1> DEFINE k == [call[c] EXCEPT !.pc = "read", !.tries = @ + 1]
<1>1. call \in [Caller -> R!CallState] /\ call[c] \in R!CallState /\ call[c].tries + 1 \in 0 .. 2
  BY <1>0, RecoveryTypes DEF R!TypeOK
<1>2. k \in R!CallState /\ k.pc = "read" /\ k.run = call[c].run
  BY <1>1 DEF R!CallState
<1>3. call' = [call EXCEPT ![c] = k]
  OBVIOUS
<1> HIDE DEF k
<1>4. call'[c] = k
  BY <1>1, <1>3
<1>5. CaseCall(c)' /\ OutreachCall(c)'
  BY <1>0, <1>2, <1>4 DEF CaseCall, OutreachCall, R!At
<1> QED BY <1>0, <1>2, <1>3, <1>5, CaseAtRest DEF R!TypeOK, R!At

LEMMA ProveDefectKeeps ==
  ASSUME RecoveryInv, NEW c \in Caller, R!ProveDefect(c)
  PROVE  RecoveryInv'
<1>0. R!TypeOK /\ CaseInv /\ OutreachCall(c)
  BY DEF RecoveryInv
<1>1. /\ UNCHANGED <<lead, optedOut, replacements, runs, timeline, contacts, sent, faults>>
      /\ call[c].pc = "idle" /\ lead.status = "IN_ORCHESTRATION"
      /\ runs[lead.run].attempt < R!MaxRunAttempt
      /\ runs[lead.run].fence \in R!EvidenceClass /\ R!Unconsumed(runs[lead.run].fence)
  BY DEF R!ProveDefect, R!caseVars, R!outreachVars, R!At
<1>2. PICK class \in R!EvidenceClass : class = runs[lead.run].fence
  BY <1>1
<1> DEFINE k == [call[c] EXCEPT !.pc = "replace", !.seen = lead, !.current = TRUE, !.class = class]
<1>3. call \in [Caller -> R!CallState] /\ call[c] \in R!CallState /\ lead \in R!Case
  BY <1>0, RecoveryTypes, CaseTypes DEF R!TypeOK
<1>4. /\ k \in R!CallState /\ k.pc = "replace" /\ k.run = call[c].run /\ k.seen = lead
      /\ k.current = TRUE /\ k.class = class
  BY <1>3 DEF R!CallState
<1>5. call' = [call EXCEPT ![c] = k]
  BY <1>2 DEF R!ProveDefect
<1> HIDE DEF k
<1>6. call'[c] = k /\ call[c].run = 0
  BY <1>0, <1>1, <1>3, <1>5, Beginnings DEF OutreachCall
<1>7. R!Unconsumed(class)'
  BY <1>1, <1>2 DEF R!Unconsumed, R!Replacements
<1>8. CaseCall(c)' /\ OutreachCall(c)'
  BY <1>1, <1>4, <1>6, <1>7 DEF CaseCall, OutreachCall
<1> QED BY <1>0, <1>1, <1>4, <1>5, <1>8, CaseAtRest DEF R!TypeOK

LEMMA ProveRejectionKeeps ==
  ASSUME RecoveryInv, NEW c \in Caller, R!ProveRejection(c)
  PROVE  RecoveryInv'
<1>0. R!TypeOK /\ OutreachCall(c)
  BY DEF RecoveryInv
<1>1. /\ UNCHANGED <<lead, optedOut, replacements, runs, timeline, contacts, sent, faults>>
      /\ call[c].pc = "idle" /\ lead.status = "IN_ORCHESTRATION"
      /\ runs[lead.run].state = "REJECTED"
  BY DEF R!ProveRejection, R!caseVars, R!outreachVars, R!At
<1>2. PICK k \in R!CallState :
        /\ call' = [call EXCEPT ![c] = k] /\ call'[c] = k
        /\ k.pc = "reissue" /\ k.seen = lead /\ k.current = TRUE /\ k.run = call[c].run
  <2>1. R!Carry(c, "reissue", lead) /\ lead \in R!Case
    BY <1>0, CaseTypes DEF R!ProveRejection
  <2> QED BY <1>0, <2>1, Carried
<1>3. call[c].run = 0
  BY <1>0, <1>1, Beginnings DEF OutreachCall
<1>4. CaseCall(c)' /\ OutreachCall(c)'
  BY <1>1, <1>2, <1>3 DEF CaseCall, OutreachCall
<1> QED BY <1>0, <1>1, <1>2, <1>4, CaseAtRest DEF R!TypeOK

-----------------------------------------------------------------------------
(* The steps of runs                                                        *)

\* A run that goes on: nothing that is over begins again.
GoesOn(old, new) ==
  /\ new \in R!RunRecord
  /\ new.version = old.version /\ new.attempt = old.attempt
  /\ old.state \notin {"NONE"} /\ new.state # "NONE"
  /\ old.state \in {"REJECTED", "SUPERSEDED", "HALTED"} => new.state = old.state /\ new.step = old.step
  /\ new.step > 0 => new.state \in {"EXECUTING", "HALTED"}

LEMMA OneRunMoves ==
  ASSUME R!TypeOK, \A s \in R!Run : RunInv(s), NEW r \in R!Run, NEW new,
         GoesOn(runs[r], new), runs' = [runs EXCEPT ![r] = new]
  PROVE  /\ Moved /\ runs' \in [R!Run -> R!RunRecord] /\ runs'[r] = new
         /\ \A s \in R!Run \ {r} : runs'[s] = runs[s]
<1>1. runs \in [R!Run -> R!RunRecord]
  BY DEF R!TypeOK
<1>2. /\ runs' \in [R!Run -> R!RunRecord] /\ runs'[r] = new
      /\ \A s \in R!Run \ {r} : runs'[s] = runs[s]
  BY <1>1 DEF GoesOn
<1>3. Moved
  <2> SUFFICES ASSUME NEW s \in R!Run
               PROVE  /\ runs'[s] \in R!RunRecord
                      /\ runs'[s].version = runs[s].version /\ runs'[s].attempt = runs[s].attempt
                      /\ runs[s].state \in {"NONE", "REJECTED", "SUPERSEDED", "HALTED"} =>
                           runs'[s].state = runs[s].state /\ runs'[s].step = runs[s].step
                      /\ runs[s].state = "NONE" => runs'[s] = runs[s]
                      /\ runs[s].state # "NONE" => runs'[s].state # "NONE"
                      /\ runs'[s].step > 0 => runs'[s].state \in {"EXECUTING", "HALTED"}
    BY DEF Moved
  <2>1. CASE s = r
    BY <1>2, <2>1 DEF GoesOn
  <2>2. CASE s # r
    BY <1>1, <1>2, <2>2 DEF RunInv
  <2> QED BY <2>1, <2>2
<1> QED BY <1>2, <1>3

\* A step of a run that no call takes.
LEMMA RunStep ==
  ASSUME RecoveryInv, NEW r \in R!Run, NEW new, GoesOn(runs[r], new),
         runs' = [runs EXCEPT ![r] = new], runs[r].state \in {"EXECUTING", "HALTED"} => new.state = runs[r].state,
         UNCHANGED <<lead, optedOut, replacements, call, timeline, contacts, sent, faults>>
  PROVE  RecoveryInv'
<1>0. R!TypeOK /\ SentInv /\ (\A s \in R!Run : RunInv(s)) /\ \A d \in Caller : OutreachCall(d)
  BY DEF RecoveryInv
<1>1. /\ Moved /\ runs' \in [R!Run -> R!RunRecord] /\ runs'[r] = new
      /\ \A s \in R!Run \ {r} : runs'[s] = runs[s]
  BY <1>0, OneRunMoves
<1>2. \A s \in R!Run : runs[s].state \in {"EXECUTING", "HALTED"} => runs'[s].state = runs[s].state
  BY <1>1
<1>3. SentInv'
  BY <1>0, <1>2 DEF SentInv
<1>4. \A d \in Caller : call[d].run # 0 => runs'[call[d].run].state = "EXECUTING"
  BY <1>0, <1>2, RecoveryTypes DEF OutreachCall, R!Run
<1>5. PICK movers \in SUBSET Caller : movers = {}
  OBVIOUS
<1>6. /\ \A d \in Caller \ movers :
           /\ call'[d] = call[d]
           /\ call[d].run # 0 => runs'[call[d].run].state = "EXECUTING" /\ UNCHANGED <<sent, contacts>>
      /\ \A e \in movers :
           /\ CaseCall(e)' /\ OutreachCall(e)'
           /\ call'[e].run # 0 => \A d \in Caller \ {e} : call'[d].run = 0
  BY <1>4, <1>5
<1>7. /\ call' \in [Caller -> R!CallState] /\ sent' \in Nat /\ contacts' \in 0 .. sent'
      /\ timeline \subseteq timeline' /\ timeline' \subseteq R!LeadEvent /\ faults' \in 0 .. MaxFaults
  BY <1>0 DEF R!TypeOK
<1> QED BY <1>1, <1>3, <1>6, <1>7, RecoveryStep

LEMMA PlanKeeps ==
  ASSUME RecoveryInv, NEW r \in R!Run, R!Plan(r)
  PROVE  RecoveryInv'
<1>0. R!TypeOK /\ RunInv(r)
  BY DEF RecoveryInv
<1> DEFINE new == [runs[r] EXCEPT !.state = "PLANNING", !.fence = "PLANNING"]
<1>1. runs[r] \in R!RunRecord /\ runs[r].state \in {"ADMITTED", "PLANNING"}
  BY <1>0, RunRowTypes DEF R!Plan
<1>2. /\ new \in R!RunRecord /\ new.state = "PLANNING" /\ new.version = runs[r].version
      /\ new.attempt = runs[r].attempt /\ new.step = runs[r].step
  BY <1>1 DEF R!RunRecord
<1>3. GoesOn(runs[r], new)
  BY <1>0, <1>1, <1>2 DEF GoesOn, RunInv
<1>4. runs' = [runs EXCEPT ![r] = new]
  BY DEF R!Plan
<1> HIDE DEF new
<1>5. UNCHANGED <<lead, optedOut, replacements, call, timeline, contacts, sent, faults>>
  BY DEF R!Plan, R!caseVars, R!outreachVars
<1> QED BY <1>1, <1>3, <1>4, <1>5, RunStep

LEMMA PlanningFailsKeeps ==
  ASSUME RecoveryInv, NEW r \in R!Run, R!PlanningFails(r)
  PROVE  RecoveryInv'
<1>0. R!TypeOK /\ RunInv(r)
  BY DEF RecoveryInv
<1>1. PICK why \in R!EvidenceClass : runs' = [runs EXCEPT ![r].fence = why]
  BY DEF R!PlanningFails
<1> DEFINE new == [runs[r] EXCEPT !.fence = why]
<1>2. runs[r] \in R!RunRecord /\ runs[r].fence = "PLANNING"
  BY <1>0, RunRowTypes DEF R!PlanningFails
<1>3. /\ new \in R!RunRecord /\ new.state = runs[r].state /\ new.version = runs[r].version
      /\ new.attempt = runs[r].attempt /\ new.step = runs[r].step
  BY <1>2 DEF R!RunRecord
<1>4. runs[r].state # "NONE"
  BY <1>0, <1>2 DEF RunInv, Made, R!NoRun, R!Admitted
<1>5. GoesOn(runs[r], new)
  BY <1>0, <1>3, <1>4 DEF GoesOn, RunInv
<1>6. runs' = [runs EXCEPT ![r] = new]
  BY <1>1
<1>7. new.state = runs[r].state
  BY <1>3
<1> HIDE DEF new
<1>8. UNCHANGED <<lead, optedOut, replacements, call, timeline, contacts, sent, faults>>
  BY DEF R!PlanningFails, R!caseVars, R!outreachVars
<1> QED BY <1>5, <1>6, <1>7, <1>8, RunStep

LEMMA SavePlanKeeps ==
  ASSUME RecoveryInv, NEW r \in R!Run, R!SavePlan(r)
  PROVE  RecoveryInv'
<1>0. R!TypeOK /\ RunInv(r)
  BY DEF RecoveryInv
<1> DEFINE new == [runs[r] EXCEPT !.plan = TRUE]
<1>2. runs[r] \in R!RunRecord /\ runs[r].fence = "PLANNING"
  BY <1>0, RunRowTypes DEF R!SavePlan
<1>3. /\ new \in R!RunRecord /\ new.state = runs[r].state /\ new.version = runs[r].version
      /\ new.attempt = runs[r].attempt /\ new.step = runs[r].step
  BY <1>2 DEF R!RunRecord
<1>4. runs[r].state # "NONE"
  BY <1>0, <1>2 DEF RunInv, Made, R!NoRun, R!Admitted
<1>5. GoesOn(runs[r], new)
  BY <1>0, <1>3, <1>4 DEF GoesOn, RunInv
<1>6. runs' = [runs EXCEPT ![r] = new]
  BY DEF R!SavePlan
<1>7. new.state = runs[r].state
  BY <1>3
<1> HIDE DEF new
<1>8. UNCHANGED <<lead, optedOut, replacements, call, timeline, contacts, sent, faults>>
  BY DEF R!SavePlan, R!caseVars, R!outreachVars
<1> QED BY <1>5, <1>6, <1>7, <1>8, RunStep

\* A run that has planned is validated; one that is validated is decided.
LEMMA StateMoves ==
  ASSUME RecoveryInv, NEW r \in R!Run, NEW to \in {"VALIDATING", "EXECUTING", "REJECTED"},
         runs[r].state \in {"PLANNING", "VALIDATING"}, runs' = [runs EXCEPT ![r].state = to],
         UNCHANGED <<lead, optedOut, replacements, call, timeline, contacts, sent, faults>>
  PROVE  RecoveryInv'
<1>0. R!TypeOK /\ RunInv(r)
  BY DEF RecoveryInv
<1> DEFINE new == [runs[r] EXCEPT !.state = to]
<1>1. runs[r] \in R!RunRecord /\ ~(runs[r].step > 0)
  BY <1>0, RunRowTypes DEF RunInv
<1>2. /\ new \in R!RunRecord /\ new.state = to /\ new.version = runs[r].version
      /\ new.attempt = runs[r].attempt /\ new.step = runs[r].step
  BY <1>1 DEF R!RunRecord
<1>3. GoesOn(runs[r], new)
  BY <1>1, <1>2 DEF GoesOn
<1>4. runs' = [runs EXCEPT ![r] = new]
  OBVIOUS
<1> HIDE DEF new
<1> QED BY <1>3, <1>4, RunStep

LEMMA EndPlanningKeeps ==
  ASSUME RecoveryInv, NEW r \in R!Run, R!EndPlanning(r)
  PROVE  RecoveryInv'
  BY StateMoves DEF R!EndPlanning, R!caseVars, R!outreachVars

LEMMA DecideKeeps ==
  ASSUME RecoveryInv, NEW r \in R!Run, R!Decide(r)
  PROVE  RecoveryInv'
<1>1. PICK to \in {"EXECUTING", "REJECTED"} : runs' = [runs EXCEPT ![r].state = to]
  BY DEF R!Decide
<1> QED BY <1>1, StateMoves DEF R!Decide, R!caseVars, R!outreachVars

-----------------------------------------------------------------------------
(* Outreach                                                                 *)

\* An outreach step that ends badly is the last one of its run.
LEMMA HaltKeeps ==
  ASSUME RecoveryInv, NEW c \in Caller, R!Return(c), R!Halt(c), faults' \in 0 .. MaxFaults,
         UNCHANGED <<lead, optedOut, replacements, timeline, contacts, sent>>
  PROVE  RecoveryInv'
<1>0. /\ R!TypeOK /\ SentInv /\ Alone /\ OutreachCall(c)
      /\ (\A s \in R!Run : RunInv(s)) /\ \A d \in Caller : OutreachCall(d)
  BY DEF RecoveryInv
<1>1. /\ call \in [Caller -> R!CallState] /\ call' = [call EXCEPT ![c] = R!Idle]
      /\ timeline' \subseteq R!LeadEvent
  BY <1>0 DEF R!TypeOK, R!Return
<1>2. /\ call' \in [Caller -> R!CallState] /\ call'[c] = R!Idle
      /\ \A d \in Caller \ {c} : call'[d] = call[d]
  BY <1>1, Beginnings
<1>3. CaseCall(c)' /\ OutreachCall(c)'
  BY <1>2, Returned
<1>4. CASE call[c].run = 0
  <2>1. runs' = runs /\ call[c].pc # "persist"
    BY <1>0, <1>4 DEF R!Halt, OutreachCall
  <2> QED BY <1>1, <1>3, <2>1, Beginnings, CaseAtRest
<1>5. CASE call[c].run # 0
  <2>1. PICK r \in R!Run : r = call[c].run
    BY <1>0, <1>5, RecoveryTypes DEF R!Run
  <2>2. runs[r] \in R!RunRecord /\ runs[r].state = "EXECUTING"
    BY <1>0, <1>5, <2>1, RunRowTypes DEF OutreachCall
  <2> DEFINE new == [runs[r] EXCEPT !.state = "HALTED"]
  <2>3. /\ new \in R!RunRecord /\ new.state = "HALTED" /\ new.version = runs[r].version
        /\ new.attempt = runs[r].attempt
    BY <2>2 DEF R!RunRecord
  <2>4. GoesOn(runs[r], new)
    BY <2>2, <2>3 DEF GoesOn
  <2>5. runs' = [runs EXCEPT ![r] = new]
    BY <1>5, <2>1 DEF R!Halt
  <2> HIDE DEF new
  <2>6. Moved /\ runs' \in [R!Run -> R!RunRecord] /\ runs'[r] = new
    BY <1>0, <2>4, <2>5, OneRunMoves
  <2>7. SentInv'
    BY <1>0, <2>3, <2>6 DEF SentInv
  <2>8. PICK movers \in SUBSET Caller : movers = {c}
    OBVIOUS
  <2>9. \A d \in Caller \ movers : call'[d] = call[d] /\ call[d].run = 0
    BY <1>0, <1>2, <1>5, <2>8 DEF Alone
  <2>10. \A e \in movers : CaseCall(e)' /\ OutreachCall(e)' /\ call'[e].run = 0
    BY <1>2, <1>3, <2>8, Beginnings
  <2>11. sent' \in Nat /\ contacts' \in 0 .. sent'
    BY <1>0 DEF R!TypeOK
  <2> QED BY <1>1, <1>2, <2>6, <2>7, <2>9, <2>10, <2>11, RecoveryStep
<1> QED BY <1>4, <1>5

LEMMA PolicyKeeps ==
  ASSUME RecoveryInv, NEW c \in Caller, R!CheckPolicy(c)
  PROVE  RecoveryInv'
<1>1. UNCHANGED <<lead, optedOut, replacements, timeline, contacts, sent, faults>> /\ R!At(c, "policy")
  BY DEF R!CheckPolicy, R!caseVars, R!outreachVars
<1>2. faults' \in 0 .. MaxFaults
  BY <1>1 DEF RecoveryInv, R!TypeOK
<1>3. CASE R!Eligible /\ R!GoTo(c, "send") /\ UNCHANGED runs
  BY <1>1, <1>3, CheckPolicyKeeps
<1>4. CASE ~R!Eligible /\ R!Return(c) /\ R!Halt(c)
  BY <1>1, <1>2, <1>4, HaltKeeps
<1> QED BY <1>3, <1>4 DEF R!CheckPolicy

LEMMA CrashKeeps ==
  ASSUME RecoveryInv, NEW c \in Caller, R!Crash(c)
  PROVE  RecoveryInv'
<1>1. faults \in 0 .. MaxFaults
  BY DEF RecoveryInv, R!TypeOK
<1>2. faults' \in 0 .. MaxFaults
  BY <1>1, RunAssumption DEF R!Crash
<1> QED BY <1>2, HaltKeeps DEF R!Crash, R!caseVars, R!outreachVars

LEMMA SendKeeps ==
  ASSUME RecoveryInv, NEW c \in Caller, R!Send(c)
  PROVE  RecoveryInv'
<1>0. /\ R!TypeOK /\ SentInv /\ Alone /\ OutreachCall(c)
      /\ (\A s \in R!Run : RunInv(s)) /\ \A d \in Caller : OutreachCall(d)
  BY DEF RecoveryInv
<1>1. UNCHANGED <<lead, optedOut, replacements, timeline, contacts, faults>> /\ call[c].pc = "send"
  BY DEF R!Send, R!caseVars, R!At
<1>2. timeline' \subseteq R!LeadEvent /\ faults' \in 0 .. MaxFaults
  BY <1>0, <1>1 DEF R!TypeOK
<1>3. CASE R!Return(c) /\ R!Halt(c) /\ UNCHANGED sent
  BY <1>1, <1>2, <1>3, HaltKeeps
<1>4. CASE sent' = sent + 1 /\ R!GoTo(c, "persist") /\ UNCHANGED runs
  <2>1. PICK k \in R!CallState :
          /\ call' = [call EXCEPT ![c] = k] /\ call'[c] = k
          /\ k.pc = "persist" /\ k.run = call[c].run
    BY <1>0, <1>4, WentTo
  <2>2. /\ call \in [Caller -> R!CallState] /\ runs' \in [R!Run -> R!RunRecord]
        /\ sent \in Nat /\ contacts \in 0 .. sent
    BY <1>0, <1>4 DEF R!TypeOK
  <2>3. call' \in [Caller -> R!CallState] /\ \A d \in Caller \ {c} : call'[d] = call[d]
    BY <2>1, <2>2
  <2>4. sent = contacts /\ contacts < MaxAttempts /\ call[c].run # 0
    BY <1>0, <1>1 DEF OutreachCall
  <2>5. sent' \in Nat /\ contacts' \in 0 .. sent' /\ sent' = contacts' + 1 /\ sent' <= MaxAttempts
    BY <1>1, <1>4, <2>2, <2>4, RunAssumption
  <2>6. SentInv'
    BY <2>1, <2>5 DEF SentInv
  <2>7. Moved
    BY <1>0, <1>4, <2>2 DEF Moved, RunInv
  <2>8. OutreachCall(c)' /\ CaseCall(c)'
    BY <1>0, <1>1, <1>4, <2>1, <2>4, <2>5 DEF OutreachCall, CaseCall
  <2>9. PICK movers \in SUBSET Caller : movers = {c}
    OBVIOUS
  <2>10. \A d \in Caller \ movers : call'[d] = call[d] /\ call[d].run = 0
    BY <1>0, <2>3, <2>4, <2>9 DEF Alone
  <2>11. \A e \in movers : /\ CaseCall(e)' /\ OutreachCall(e)'
                           /\ \A d \in Caller \ {e} : call'[d].run = 0
    BY <2>3, <2>8, <2>9, <2>10
  <2> QED BY <1>1, <1>2, <2>2, <2>3, <2>5, <2>6, <2>7, <2>10, <2>11, RecoveryStep
<1> QED BY <1>3, <1>4 DEF R!Send

LEMMA PersistKeeps ==
  ASSUME RecoveryInv, NEW c \in Caller, R!Persist(c)
  PROVE  RecoveryInv'
<1>0. /\ R!TypeOK /\ SentInv /\ Alone /\ OutreachCall(c)
      /\ (\A s \in R!Run : RunInv(s)) /\ \A d \in Caller : OutreachCall(d)
  BY DEF RecoveryInv
<1>1. /\ UNCHANGED <<lead, optedOut, replacements, runs, timeline, sent, faults>>
      /\ call[c].pc = "persist" /\ contacts' = contacts + 1
  BY DEF R!Persist, R!caseVars, R!At
<1>2. timeline' \subseteq R!LeadEvent /\ faults' \in 0 .. MaxFaults
  BY <1>0, <1>1 DEF R!TypeOK
<1>3. PICK k \in R!CallState :
        /\ call' = [call EXCEPT ![c] = k] /\ call'[c] = k
        /\ k.pc = "list" /\ k.run = call[c].run
  <2>1. R!GoTo(c, "list")
    BY DEF R!Persist
  <2> QED BY <1>0, <2>1, WentTo
<1>4. /\ call \in [Caller -> R!CallState] /\ runs' \in [R!Run -> R!RunRecord]
      /\ sent \in Nat /\ contacts \in 0 .. sent
  BY <1>0, <1>1 DEF R!TypeOK
<1>5. call' \in [Caller -> R!CallState] /\ \A d \in Caller \ {c} : call'[d] = call[d]
  BY <1>3, <1>4
<1>6. sent = contacts + 1 /\ call[c].run # 0
  BY <1>0, <1>1 DEF OutreachCall
<1>7. sent' \in Nat /\ contacts' \in 0 .. sent' /\ sent' = contacts' /\ sent' <= MaxAttempts
  BY <1>0, <1>1, <1>4, <1>6 DEF SentInv
<1>8. SentInv'
  BY <1>4, <1>7, <1>1 DEF SentInv
<1>9. Moved
  BY <1>0, <1>1, <1>4 DEF Moved, RunInv
<1>10. OutreachCall(c)' /\ CaseCall(c)'
  BY <1>0, <1>1, <1>3 DEF OutreachCall, CaseCall
<1>11. PICK movers \in SUBSET Caller : movers = {c}
  OBVIOUS
<1>12. \A d \in Caller \ movers : call'[d] = call[d] /\ call[d].run = 0
  BY <1>0, <1>5, <1>6, <1>11 DEF Alone
<1>13. \A e \in movers : /\ CaseCall(e)' /\ OutreachCall(e)'
                         /\ \A d \in Caller \ {e} : call'[d].run = 0
  BY <1>5, <1>10, <1>11, <1>12
<1> QED BY <1>1, <1>2, <1>4, <1>5, <1>7, <1>8, <1>9, <1>12, <1>13, RecoveryStep

\* Beside a run that is executing, no other run is acted for.
LEMMA NobodyActs ==
  ASSUME RecoveryInv, NEW r \in R!Run, runs[r].state = "EXECUTING",
         \A d \in Caller : call[d].run # r
  PROVE  /\ \A d \in Caller : call[d].run = 0 /\ call[d].pc # "persist"
         /\ \A s \in R!Run : runs[s].state # "HALTED"
         /\ sent <= contacts
<1>0. R!TypeOK /\ R!OneLiveRun /\ SentInv /\ \A d \in Caller : OutreachCall(d)
  BY DEF RecoveryInv
<1>1. \A s \in R!Run \ {r} : runs[s].state \in {"NONE", "REJECTED", "SUPERSEDED"}
  BY <1>0 DEF R!OneLiveRun
<1>2. ASSUME NEW d \in Caller PROVE call[d].run = 0 /\ call[d].pc # "persist"
  <2>1. call[d].run \in 0 .. MaxRuns /\ (call[d].run # 0 => runs[call[d].run].state = "EXECUTING")
    BY <1>0, RecoveryTypes DEF OutreachCall
  <2>2. call[d].run # 0 => call[d].run \in R!Run \ {r}
    BY <2>1 DEF R!Run
  <2> QED BY <1>0, <1>1, <2>1, <2>2 DEF OutreachCall
<1>3. \A s \in R!Run : runs[s].state # "HALTED"
  BY <1>1
<1>4. sent <= contacts
  BY <1>0, <1>2, <1>3, CaseTypes DEF SentInv
<1> QED BY <1>2, <1>3, <1>4

LEMMA StartStepKeeps ==
  ASSUME RecoveryInv, NEW c \in Caller, NEW r \in R!Run, R!StartStep(c, r)
  PROVE  RecoveryInv'
<1>0. R!TypeOK /\ SentInv /\ OutreachCall(c) /\ \A s \in R!Run : RunInv(s)
  BY DEF RecoveryInv
<1>1. /\ UNCHANGED <<lead, optedOut, replacements, timeline, contacts, sent, faults>>
      /\ call[c].pc = "idle" /\ runs[r].state = "EXECUTING" /\ runs[r].step < Steps
      /\ \A d \in Caller : call[d].run # r
  BY DEF R!StartStep, R!caseVars, R!outreachVars, R!At
<1>2. /\ \A d \in Caller : call[d].run = 0 /\ call[d].pc # "persist"
      /\ \A s \in R!Run : runs[s].state # "HALTED"
      /\ sent <= contacts
  BY <1>1, NobodyActs
<1>3. /\ timeline' \subseteq R!LeadEvent /\ faults' \in 0 .. MaxFaults
      /\ sent' \in Nat /\ contacts' \in 0 .. sent'
      /\ call \in [Caller -> R!CallState] /\ call[c] \in R!CallState
      /\ sent \in Nat /\ contacts \in 0 .. sent
  BY <1>0, <1>1 DEF R!TypeOK
<1>4. SentInv'
  BY <1>0, <1>1, <1>2, <1>3 DEF SentInv
<1>5. runs[r] \in R!RunRecord /\ runs[r].step \in 0 .. Steps
  BY <1>0, RunRowTypes
<1>6. CASE lead.status \notin {"NONE", "SUPPRESSED"}
  <2> DEFINE new == [runs[r] EXCEPT !.step = @ + 1]
             k == [call[c] EXCEPT !.pc = "policy", !.run = r]
  <2>1. runs[r].step + 1 \in 0 .. Steps
    BY <1>1, <1>5, RunAssumption
  <2>2. /\ new \in R!RunRecord /\ new.state = "EXECUTING" /\ new.version = runs[r].version
        /\ new.attempt = runs[r].attempt
    BY <1>1, <1>5, <2>1 DEF R!RunRecord
  <2>3. GoesOn(runs[r], new)
    BY <1>1, <2>2 DEF GoesOn
  <2>4. runs' = [runs EXCEPT ![r] = new] /\ call' = [call EXCEPT ![c] = k]
    BY <1>6 DEF R!StartStep
  <2>5. k \in R!CallState /\ k.pc = "policy" /\ k.run = r
    <3>1. r \in 0 .. MaxRuns
      BY DEF R!Run
    <3> QED BY <1>3, <3>1 DEF R!CallState
  <2> HIDE DEF new, k
  <2>6. Moved /\ runs' \in [R!Run -> R!RunRecord] /\ runs'[r] = new
    BY <1>0, <2>3, <2>4, OneRunMoves
  <2>7. /\ call' \in [Caller -> R!CallState] /\ call'[c] = k
        /\ \A d \in Caller \ {c} : call'[d] = call[d]
    BY <1>3, <2>4, <2>5
  <2>8. CaseCall(c)' /\ OutreachCall(c)'
    BY <2>2, <2>5, <2>6, <2>7 DEF CaseCall, OutreachCall, R!Run
  <2>9. PICK movers \in SUBSET Caller : movers = {c}
    OBVIOUS
  <2>10. \A d \in Caller \ movers : call'[d] = call[d] /\ call[d].run = 0
    BY <1>2, <2>7, <2>9
  <2>11. \A e \in movers : /\ CaseCall(e)' /\ OutreachCall(e)'
                           /\ \A d \in Caller \ {e} : call'[d].run = 0
    BY <1>2, <2>7, <2>8, <2>9
  <2> QED BY <1>1, <1>3, <1>4, <2>6, <2>7, <2>10, <2>11, RecoveryStep
<1>7. CASE lead.status \in {"NONE", "SUPPRESSED"}
  <2> DEFINE new == [runs[r] EXCEPT !.state = "HALTED"]
  <2>1. /\ new \in R!RunRecord /\ new.state = "HALTED" /\ new.version = runs[r].version
        /\ new.attempt = runs[r].attempt
    BY <1>5 DEF R!RunRecord
  <2>2. GoesOn(runs[r], new)
    BY <1>1, <2>1 DEF GoesOn
  <2>3. runs' = [runs EXCEPT ![r] = new] /\ call' = call
    BY <1>7 DEF R!StartStep
  <2> HIDE DEF new
  <2>4. Moved /\ runs' \in [R!Run -> R!RunRecord]
    BY <1>0, <2>2, <2>3, OneRunMoves
  <2>5. call' \in [Caller -> R!CallState]
    BY <1>3, <2>3
  <2>6. PICK movers \in SUBSET Caller : movers = {}
    OBVIOUS
  <2>7. \A d \in Caller \ movers : call'[d] = call[d] /\ call[d].run = 0
    BY <1>2, <2>3
  <2>8. \A e \in movers : /\ CaseCall(e)' /\ OutreachCall(e)'
                          /\ \A d \in Caller \ {e} : call'[d].run = 0
    BY <2>6
  <2> QED BY <1>1, <1>3, <1>4, <2>4, <2>5, <2>7, <2>8, RecoveryStep
<1> QED BY <1>6, <1>7

-----------------------------------------------------------------------------
(* The first run                                                            *)

LEMMA AdmittedRun ==
  ASSUME NEW version \in 1 .. MaxRuns, NEW attempt \in 1 .. 3
  PROVE  \E first \in R!RunRecord :
           /\ first = R!Admitted(version, attempt)
           /\ first.state = "ADMITTED" /\ first.version = version /\ first.attempt = attempt
           /\ first.step = 0
<1> DEFINE first == [state |-> "ADMITTED", version |-> version, attempt |-> attempt, fence |-> "NONE",
                     plan |-> FALSE, step |-> 0]
<1>1. 0 \in 0 .. Steps
  BY RunAssumption
<1>2. first \in R!RunRecord
  BY <1>1 DEF R!RunRecord, R!MaxRunAttempt
<1>3. first = R!Admitted(version, attempt)
  BY DEF R!Admitted
<1> QED BY <1>2, <1>3

LEMMA AdmitKeeps ==
  ASSUME RecoveryInv, NEW c \in Caller, R!Admit(c)
  PROVE  RecoveryInv'
<1>0. /\ R!TypeOK /\ CaseInv /\ BindingInv /\ R!OneLiveRun /\ SentInv /\ CaseCall(c) /\ OutreachCall(c)
      /\ (\A s \in R!Run : RunInv(s)) /\ \A d \in Caller : CaseCall(d) /\ OutreachCall(d)
  BY DEF RecoveryInv
<1>1. /\ UNCHANGED <<lead, optedOut, replacements, timeline, contacts, sent, faults>>
      /\ call[c].pc = "admit"
  BY DEF R!Admit, R!caseVars, R!outreachVars, R!At
<1>2. PICK k \in R!CallState :
        /\ call' = [call EXCEPT ![c] = k] /\ call'[c] = k
        /\ k.pc = "save" /\ k.seen = call[c].seen /\ k.current = call[c].current
        /\ k.run = call[c].run
  <2>1. R!GoTo(c, "save")
    BY DEF R!Admit
  <2> QED BY <1>0, <2>1, WentTo
<1>3. call[c].run = 0 /\ OutreachCall(c)'
  BY <1>0, <1>1, <1>2 DEF OutreachCall
<1>4. 1 \in R!Run /\ runs \in [R!Run -> R!RunRecord]
  BY <1>0, RunAssumption DEF R!Run, R!TypeOK
<1>5. timeline' \subseteq R!LeadEvent /\ faults' \in 0 .. MaxFaults
  BY <1>0, <1>1 DEF R!TypeOK
<1>6. CASE Made(1)
  <2>1. runs' = runs
    BY <1>6 DEF R!Admit, Made
  <2>2. Made(1)'
    BY <1>6, <2>1 DEF Made
  <2>3. CaseCall(c)'
    BY <1>0, <1>1, <1>2, <2>2 DEF CaseCall
  <2> QED BY <1>1, <1>2, <1>3, <1>5, <2>1, <2>3, CaseAtRest
<1>7. CASE ~Made(1)
  <2>1. PICK first \in R!RunRecord :
          /\ runs' = [runs EXCEPT ![1] = first]
          /\ first.state = "ADMITTED" /\ first.version = 1 /\ first.step = 0
    <3>1. runs' = [runs EXCEPT ![1] = R!Admitted(1, 1)]
      BY <1>7 DEF R!Admit, Made
    <3>2. 1 \in 1 .. MaxRuns /\ 1 \in 1 .. 3
      BY RunAssumption
    <3> QED BY <3>1, <3>2, AdmittedRun
  <2>2. /\ runs'[1] = first /\ runs' \in [R!Run -> R!RunRecord]
        /\ \A s \in R!Run \ {1} : runs'[s] = runs[s]
    BY <1>4, <2>1
  <2>3. lead.run = 0
    BY <1>0, <1>4, <1>7, CaseTypes DEF RunInv
  <2>4. \A s \in R!Run : runs[s].state = "NONE" /\ runs[s].step = 0
    <3>1. \A s \in R!Run : ~Made(s)
      BY <1>0, <1>7, <2>3 DEF RunInv
    <3> QED BY <1>0, <3>1, Beginnings DEF RunInv
  <2>5. replacements = {} /\ lead.version = 1 /\ lead.status # "IN_ORCHESTRATION"
    BY <1>0, <2>3 DEF BindingInv, CaseInv
  <2>6. \A d \in Caller : call[d].run = 0 /\ call[d].pc # "persist"
    <3>1. \A d \in Caller : call[d].run = 0
      BY <1>0, <2>4, RecoveryTypes DEF OutreachCall, R!Run
    <3> QED BY <1>0, <3>1 DEF OutreachCall
  <2>7. /\ call' \in [Caller -> R!CallState]
        /\ \A d \in Caller \ {c} : call'[d] = call[d]
    BY <1>0, <1>2 DEF R!TypeOK
  <2>8. R!TypeOK'
    BY <1>0, <1>1, <2>2, <2>7 DEF R!TypeOK
  <2>9. CaseInv' /\ BindingInv'
    BY <1>0, <1>1, <2>3, <2>5 DEF CaseInv, BindingInv
  <2>10. ASSUME NEW s \in R!Run PROVE RunInv(s)'
    <3>1. CASE s = 1
      BY <1>1, <2>1, <2>2, <2>3, <3>1 DEF RunInv, Made
    <3>2. CASE s # 1
      BY <1>0, <1>1, <2>2, <2>3, <3>2 DEF RunInv, Made
    <3> QED BY <3>1, <3>2
  <2>11. R!OneLiveRun'
    BY <1>1, <2>2, <2>3, <2>4 DEF R!OneLiveRun
  <2>12. R!LineageIsAChain' /\ \A e \in replacements' : EdgeInv(e)'
    BY <1>1, <2>3, <2>5 DEF R!LineageIsAChain, EdgeInv
  <2>13. SentInv'
    <3>1. \A s \in R!Run : runs[s].state # "HALTED"
      BY <2>4
    <3>2. ~(sent > contacts)
      BY <1>0, <2>6, <3>1 DEF SentInv
    <3> QED BY <1>0, <1>1, <3>2 DEF SentInv
  <2>14. Made(1)'
    BY <2>1, <2>2 DEF Made
  <2>15. ASSUME NEW d \in Caller PROVE CaseCall(d)' /\ OutreachCall(d)'
    <3>1. CASE d = c
      <4>1. CaseCall(c)'
        BY <1>0, <1>1, <1>2, <2>14 DEF CaseCall
      <4> QED BY <1>3, <3>1, <4>1
    <3>2. CASE d # c
      <4>1. call'[d] = call[d]
        BY <2>7, <3>2
      <4>2. OutreachCall(d)'
        BY <1>0, <1>1, <2>6, <4>1 DEF OutreachCall
      <4>3. call[d].pc \in {"replace", "reissue"} => ~call[d].current
        BY <1>0, <2>5 DEF CaseCall
      <4>4. CaseCall(d)'
        BY <1>0, <1>1, <2>14, <4>1, <4>3 DEF CaseCall
      <4> QED BY <4>2, <4>4
    <3> QED BY <3>1, <3>2
  <2>16. Alone'
    <3>1. \A d \in Caller : call'[d].run = 0
      BY <1>2, <1>3, <2>6, <2>7
    <3> QED BY <3>1 DEF Alone
  <2> QED BY <2>8, <2>9, <2>10, <2>11, <2>12, <2>13, <2>15, <2>16 DEF RecoveryInv
<1> QED BY <1>6, <1>7

-----------------------------------------------------------------------------
(* The steps that save the case                                             *)

\* Whoever has read the case before it is saved has read an older one.
LEMMA SavedCalls ==
  ASSUME R!TypeOK, NEW c \in Caller, NEW row \in R!Case, R!SaveCase(c, row)
  PROVE  /\ call' \in [Caller -> R!CallState] /\ call'[c] = R!Idle
         /\ \A d \in Caller \ {c} :
              /\ call'[d].pc = call[d].pc /\ call'[d].seen = call[d].seen
              /\ call'[d].run = call[d].run /\ call'[d].class = call[d].class
              /\ call[d].seen # R!NoCase => call'[d].current = FALSE
              /\ call[d] = R!Idle => call'[d] = R!Idle
<1> DEFINE left(d) == [call[d] EXCEPT !.current = call[d].seen = R!NoCase]
<1>1. call' = [d \in Caller |-> IF d = c THEN R!Idle ELSE left(d)]
  BY DEF R!SaveCase
<1>2. ASSUME NEW d \in Caller \ {c}
      PROVE  /\ left(d) \in R!CallState
             /\ left(d).pc = call[d].pc /\ left(d).seen = call[d].seen
             /\ left(d).run = call[d].run /\ left(d).class = call[d].class
             /\ call[d].seen # R!NoCase => left(d).current = FALSE
             /\ call[d] = R!Idle => left(d) = R!Idle
  <2>1. call[d] \in R!CallState
    BY RecoveryTypes
  <2>2. PICK current \in BOOLEAN : current = (call[d].seen = R!NoCase)
    OBVIOUS
  <2>3. left(d) = [call[d] EXCEPT !.current = current]
    BY <2>2
  <2>4. /\ left(d) \in R!CallState
        /\ left(d).pc = call[d].pc /\ left(d).seen = call[d].seen
        /\ left(d).run = call[d].run /\ left(d).class = call[d].class
        /\ left(d).current = current
    BY <2>1, <2>3 DEF R!CallState
  <2>5. ASSUME call[d] = R!Idle PROVE left(d) = R!Idle
    <3>1. current = TRUE
      BY <2>2, <2>5, Beginnings
    <3>2. left(d) = [R!Idle EXCEPT !.current = TRUE]
      BY <2>3, <2>5, <3>1
    <3>3. R!Idle \in R!CallState /\ R!Idle.current = TRUE
      BY Beginnings DEF R!Idle
    <3>4. [R!Idle EXCEPT !.current = TRUE] = R!Idle
      BY <3>3 DEF R!CallState
    <3> QED BY <3>2, <3>4
  <2> QED BY <2>2, <2>4, <2>5
<1> HIDE DEF left
<1>3. call'[c] = R!Idle /\ \A d \in Caller \ {c} : call'[d] = left(d)
  BY <1>1
<1>4. call' \in [Caller -> R!CallState]
  BY <1>1, <1>2, Beginnings
<1> QED BY <1>2, <1>3, <1>4

\* A step that saves the case: what the runs and the lineage owe to the new row is left to show.
LEMMA SavedStep ==
  ASSUME RecoveryInv, NEW c \in Caller, NEW row \in R!Case, R!SaveCase(c, row),
         row.status # "NONE", row.status = "IN_ORCHESTRATION" => row.run # 0,
         row.status = "SUPPRESSED" => "DO_NOT_CONTACT" \in timeline, lead.status # "SUPPRESSED",
         UNCHANGED <<timeline, contacts, sent, faults>>, call[c].pc # "persist",
         runs' \in [R!Run -> R!RunRecord], Made(1) => Made(1)',
         \A r \in R!Run : runs[r].state \in {"EXECUTING", "HALTED"} => runs'[r].state = runs[r].state,
         replacements' \subseteq [kind: {"REPLACED", "REISSUED"}, predecessor: R!Run, successor: R!Run,
                                  version: 1 .. MaxRuns, class: R!EvidenceClass \cup {"NONE"}],
         BindingInv', \A r \in R!Run : RunInv(r)', R!OneLiveRun', R!LineageIsAChain',
         \A e \in replacements' : EdgeInv(e)'
  PROVE  RecoveryInv'
<1>0. /\ R!TypeOK /\ CaseInv /\ SentInv /\ Alone
      /\ \A d \in Caller : CaseCall(d) /\ OutreachCall(d)
  BY DEF RecoveryInv
<1>1. lead' = row /\ optedOut' = (optedOut \/ row.status = "SUPPRESSED")
  BY DEF R!SaveCase
<1>2. /\ call' \in [Caller -> R!CallState] /\ call'[c] = R!Idle
      /\ \A d \in Caller \ {c} :
           /\ call'[d].pc = call[d].pc /\ call'[d].seen = call[d].seen
           /\ call'[d].run = call[d].run /\ call'[d].class = call[d].class
           /\ call[d].seen # R!NoCase => call'[d].current = FALSE
           /\ call[d] = R!Idle => call'[d] = R!Idle
  BY <1>0, SavedCalls
<1>3. R!TypeOK'
  <2>1. optedOut' \in BOOLEAN /\ lead' \in R!Case
    BY <1>0, <1>1 DEF R!TypeOK
  <2> QED BY <1>0, <1>2, <2>1 DEF R!TypeOK
<1>4. CaseInv'
  BY <1>0, <1>1 DEF CaseInv
<1>5. SentInv'
  <2>1. ASSUME NEW d \in Caller, call[d].pc = "persist" PROVE call'[d].pc = "persist"
    BY <1>2, <2>1
  <2> QED BY <1>0, <2>1 DEF SentInv
<1>6. ASSUME NEW d \in Caller PROVE CaseCall(d)' /\ OutreachCall(d)'
  <2>1. CASE d = c
    BY <1>2, <2>1, Returned
  <2>2. CASE d # c
    <3>1. /\ call'[d].pc = call[d].pc /\ call'[d].seen = call[d].seen
          /\ call'[d].run = call[d].run /\ call'[d].class = call[d].class
          /\ call[d] = R!Idle => call'[d] = R!Idle
      BY <1>2, <2>2
    <3>2. call[d].run # 0 => runs'[call[d].run].state = "EXECUTING"
      BY <1>0, RecoveryTypes DEF OutreachCall, R!Run
    <3>3. OutreachCall(d)'
      BY <1>0, <3>1, <3>2 DEF OutreachCall
    <3>4. call[d].pc \in {"insert", "admit", "save", "evaluate", "refresh", "replace", "reissue"} =>
            call'[d].current = FALSE
      <4>1. call[d].pc \in {"insert", "admit", "save", "evaluate", "refresh", "replace", "reissue"} =>
              call[d].seen.status # "NONE"
        BY <1>0, Beginnings DEF CaseCall
      <4> QED BY <1>2, <2>2, <4>1, Beginnings
    <3>5. CaseCall(d)'
      BY <1>0, <1>1, <3>1, <3>4 DEF CaseCall
    <3> QED BY <3>3, <3>5
  <2> QED BY <2>1, <2>2
<1>7. Alone'
  <2>1. \A d \in Caller : call'[d].run \in {0, call[d].run}
    BY <1>2, Beginnings
  <2> QED BY <1>0, <2>1 DEF Alone
<1> QED BY <1>3, <1>4, <1>5, <1>6, <1>7 DEF RecoveryInv

\* The case keeps its run, and its objective.
LEMMA SavedStatus ==
  ASSUME RecoveryInv, NEW c \in Caller, NEW row \in R!Case, R!SaveCase(c, row),
         row.run = lead.run, row.version = lead.version,
         row.status # "NONE", row.status = "IN_ORCHESTRATION" => row.run # 0,
         row.status = "SUPPRESSED" => "DO_NOT_CONTACT" \in timeline, lead.status # "SUPPRESSED",
         UNCHANGED <<runs, replacements, timeline, contacts, sent, faults>>, call[c].pc # "persist"
  PROVE  RecoveryInv'
<1>0. /\ R!TypeOK /\ BindingInv /\ R!OneLiveRun /\ R!LineageIsAChain
      /\ (\A r \in R!Run : RunInv(r)) /\ \A e \in replacements : EdgeInv(e)
  BY DEF RecoveryInv
<1>1. lead'.run = lead.run /\ lead'.version = lead.version
  BY DEF R!SaveCase
<1>2. BindingInv' /\ (\A r \in R!Run : RunInv(r)') /\ \A e \in replacements' : EdgeInv(e)'
  BY <1>0, <1>1 DEF BindingInv, RunInv, EdgeInv, Made
<1>3. R!OneLiveRun' /\ R!LineageIsAChain'
  BY <1>0, <1>1 DEF R!OneLiveRun, R!LineageIsAChain
<1>4. /\ runs' \in [R!Run -> R!RunRecord]
      /\ replacements' \subseteq [kind: {"REPLACED", "REISSUED"}, predecessor: R!Run, successor: R!Run,
                                  version: 1 .. MaxRuns, class: R!EvidenceClass \cup {"NONE"}]
  BY <1>0 DEF R!TypeOK
<1>5. Made(1) => Made(1)'
  BY DEF Made
<1> QED BY <1>2, <1>3, <1>4, <1>5, SavedStep

\* The case gets its first run.
LEMMA FirstBinding ==
  ASSUME RecoveryInv, NEW c \in Caller, NEW row \in R!Case, R!SaveCase(c, row),
         lead.run = 0, Made(1), row.run = 1, row.version = 1, row.status = "IN_ORCHESTRATION",
         lead.status # "SUPPRESSED",
         UNCHANGED <<runs, replacements, timeline, contacts, sent, faults>>, call[c].pc # "persist"
  PROVE  RecoveryInv'
<1>0. R!TypeOK /\ BindingInv /\ \A r \in R!Run : RunInv(r)
  BY DEF RecoveryInv
<1>1. lead'.run = 1 /\ lead'.version = 1 /\ replacements = {}
  BY <1>0 DEF R!SaveCase, BindingInv
<1>2. \A r \in R!Run : Made(r) <=> r = 1
  BY <1>0 DEF RunInv
<1>3. 1 \in R!Run /\ runs[1].version \in 1 .. MaxRuns
  BY <1>0, RunRowTypes, RunAssumption DEF R!Run
<1>4. runs[1].version = 1
  BY <1>0, <1>3 DEF RunInv
<1>5. BindingInv'
  BY <1>1, <1>4 DEF BindingInv
<1>6. ASSUME NEW r \in R!Run PROVE RunInv(r)'
  <2>1. r \in Nat /\ r >= 1
    BY RunAssumption DEF R!Run
  <2> QED BY <1>0, <1>1, <1>2, <2>1 DEF RunInv, Made
<1>7. R!OneLiveRun'
  <2>1. \A r \in R!Run : runs[r].state = "NONE" => ~(runs[r].step > 0)
    BY <1>0 DEF RunInv
  <2>2. \A r \in R!Run : r # 1 => runs[r].state = "NONE"
    BY <1>2 DEF Made
  <2> QED BY <1>1, <2>1, <2>2 DEF R!OneLiveRun
<1>8. R!LineageIsAChain' /\ \A e \in replacements' : EdgeInv(e)'
  BY <1>1, <1>2 DEF R!LineageIsAChain, EdgeInv, Made
<1>9. /\ runs' \in [R!Run -> R!RunRecord]
      /\ replacements' \subseteq [kind: {"REPLACED", "REISSUED"}, predecessor: R!Run, successor: R!Run,
                                  version: 1 .. MaxRuns, class: R!EvidenceClass \cup {"NONE"}]
  BY <1>0 DEF R!TypeOK
<1>10. Made(1)'
  BY DEF Made
<1> QED BY <1>5, <1>6, <1>7, <1>8, <1>9, <1>10, SavedStep

LEMMA SaveKeeps ==
  ASSUME RecoveryInv, NEW c \in Caller, R!Save(c)
  PROVE  RecoveryInv'
<1>0. R!TypeOK /\ CaseInv /\ BindingInv /\ CaseCall(c) /\ call[c].seen \in R!Case
  BY RecoveryTypes DEF RecoveryInv
<1>1. /\ UNCHANGED <<runs, replacements, timeline, contacts, sent, faults>>
      /\ call[c].pc \in {"insert", "save"}
  BY DEF R!Save, R!outreachVars
<1>2. CASE R!Return(c) /\ UNCHANGED <<lead, optedOut>>
  BY <1>1, <1>2, QuietReturn
<1>3. CASE R!Current(c) /\ R!SaveCase(c, call[c].seen)
  <2>1. PICK row \in R!Case : row = call[c].seen
    BY <1>0
  <2>2. R!SaveCase(c, row) /\ call[c].current /\ call[c].pc # "persist"
    BY <1>1, <1>3, <2>1 DEF R!Current
  <2>3. CASE call[c].pc = "insert"
    <3>1. lead = R!NoCase /\ row = [R!NoCase EXCEPT !.status = "OPEN"]
      BY <1>0, <2>1, <2>2, <2>3 DEF CaseCall
    <3>2. /\ row.run = lead.run /\ row.version = lead.version /\ row.status = "OPEN"
          /\ lead.status = "NONE"
      BY <3>1, Beginnings
    <3> QED BY <1>1, <2>2, <3>2, SavedStatus
  <2>4. CASE call[c].pc = "save"
    <3>1. /\ lead.run = 0 /\ lead.status \notin {"NONE", "SUPPRESSED"} /\ row.version = 1
          /\ \/ row.run = 0 /\ row.status = "READY_FOR_ORCHESTRATION"
             \/ row.run = 1 /\ row.status = "IN_ORCHESTRATION" /\ Made(1)
      BY <1>0, <2>1, <2>2, <2>4 DEF CaseCall
    <3>2. lead.version = 1
      BY <1>0, <3>1 DEF BindingInv
    <3>3. CASE row.run = 0 /\ row.status = "READY_FOR_ORCHESTRATION"
      BY <1>1, <2>2, <3>1, <3>2, <3>3, SavedStatus
    <3>4. CASE row.run = 1 /\ row.status = "IN_ORCHESTRATION" /\ Made(1)
      BY <1>1, <2>2, <3>1, <3>4, FirstBinding
    <3> QED BY <3>1, <3>3, <3>4
  <2> QED BY <1>1, <2>3, <2>4
<1> QED BY <1>2, <1>3 DEF R!Save, R!caseVars

LEMMA SaveOutcomeKeeps ==
  ASSUME RecoveryInv, NEW c \in Caller, R!SaveOutcome(c)
  PROVE  RecoveryInv'
<1>0. R!TypeOK /\ CaseInv /\ CaseCall(c) /\ call[c].seen \in R!Case
  BY RecoveryTypes DEF RecoveryInv
<1>1. UNCHANGED <<replacements, timeline, contacts, sent, faults>> /\ R!At(c, "refresh")
  BY DEF R!SaveOutcome, R!outreachVars
<1>2. CASE R!Current(c) /\ R!SaveCase(c, call[c].seen) /\ UNCHANGED runs
  <2>1. PICK row \in R!Case : row = call[c].seen
    BY <1>0
  <2>2. R!SaveCase(c, row) /\ call[c].current /\ call[c].pc = "refresh"
    BY <1>1, <1>2, <2>1 DEF R!Current, R!At
  <2>3. /\ row.run = lead.run /\ row.version = lead.version
        /\ row.status \in {"ENGAGED", "SUPPRESSED"}
        /\ row.status = "SUPPRESSED" => "DO_NOT_CONTACT" \in timeline
        /\ lead.status # "SUPPRESSED"
    BY <1>0, <2>1, <2>2 DEF CaseCall
  <2> QED BY <1>1, <1>2, <2>2, <2>3, SavedStatus
<1>3. CASE /\ call[c].tries < 2
           /\ call' = [call EXCEPT ![c] = [@ EXCEPT !.pc = "read", !.tries = call[c].tries + 1]]
           /\ UNCHANGED <<lead, optedOut, runs>>
  BY <1>1, <1>3, TryAgainKeeps
<1>4. CASE R!Return(c) /\ R!Halt(c) /\ UNCHANGED <<lead, optedOut>>
  <2>1. faults' \in 0 .. MaxFaults
    BY <1>0, <1>1 DEF R!TypeOK
  <2> QED BY <1>1, <1>4, <2>1, HaltKeeps
<1> QED BY <1>2, <1>3, <1>4 DEF R!SaveOutcome, R!caseVars

-----------------------------------------------------------------------------
(* The run that takes the place of another                                  *)

\* The next run is the one after the case's own.
LEMMA FreshRun ==
  ASSUME RecoveryInv, lead.run # 0, NEW r \in R!Run, r \in R!Fresh
  PROVE  /\ r = lead.run + 1 /\ lead.run \in R!Run /\ lead.run \in Nat
         /\ runs[r].state = "NONE" /\ runs[lead.run].version = lead.version
         /\ lead.version <= lead.run
<1>0. R!TypeOK /\ BindingInv /\ \A s \in R!Run : RunInv(s)
  BY DEF RecoveryInv
<1>1. \A s \in R!Run : Made(s) <=> s <= lead.run
  BY <1>0 DEF RunInv
<1>2. lead.run \in 1 .. MaxRuns /\ lead.run \in R!Run /\ r \in 1 .. MaxRuns
  BY <1>0, CaseTypes DEF R!Run
<1>3. runs[r].state = "NONE" /\ r > lead.run
  BY <1>1, <1>2, RunAssumption DEF R!Fresh, Made
<1>4. lead.run + 1 \in R!Run
  BY <1>2, <1>3, RunAssumption DEF R!Run
<1>5. runs[lead.run + 1].state = "NONE"
  BY <1>1, <1>2, <1>4, RunAssumption DEF Made
<1>6. r <= lead.run + 1
  BY <1>4, <1>5 DEF R!Fresh
<1>7. r = lead.run + 1
  BY <1>2, <1>3, <1>6, RunAssumption
<1>8. runs[lead.run].version = lead.version /\ lead.version <= lead.run
  BY <1>0, <1>2 DEF BindingInv, RunInv
<1> QED BY <1>2, <1>3, <1>7, <1>8, RunAssumption

\* The edge of the lineage from one run to the next.
Edge == [kind: {"REPLACED", "REISSUED"}, predecessor: R!Run, successor: R!Run,
         version: 1 .. MaxRuns, class: R!EvidenceClass \cup {"NONE"}]

Succession(c, row, r, first, last, e) ==
  /\ R!SaveCase(c, row) /\ call[c].pc # "persist"
  /\ lead.status = "IN_ORCHESTRATION" /\ runs[lead.run].state \in {"PLANNING", "REJECTED"}
  /\ r \in R!Fresh
  /\ runs' = [runs EXCEPT ![lead.run] = last, ![r] = first]
  /\ first.state = "ADMITTED" /\ first.step = 0
  /\ last.version = runs[lead.run].version /\ last.attempt = runs[lead.run].attempt
  /\ last.step = runs[lead.run].step
  /\ e.predecessor = lead.run /\ e.successor = r /\ e.version = first.version
  /\ row.run = r /\ row.version = first.version /\ row.status = "IN_ORCHESTRATION"
  /\ \/ /\ e.kind = "REPLACED" /\ last.state = "SUPERSEDED" /\ first.version = lead.version
        /\ first.attempt = last.attempt + 1 /\ R!Unconsumed(e.class)
     \/ e.kind = "REISSUED" /\ last.state = "REJECTED" /\ first.version = lead.version + 1
  /\ replacements' = replacements \cup {e}
  /\ UNCHANGED <<timeline, contacts, sent, faults>>

LEMMA Succeeds ==
  ASSUME RecoveryInv, NEW c \in Caller, NEW row \in R!Case, NEW r \in R!Run,
         NEW first \in R!RunRecord, NEW last \in R!RunRecord, NEW e \in Edge,
         Succession(c, row, r, first, last, e)
  PROVE  RecoveryInv'
<1> USE DEF Succession, Edge
<1>0. /\ R!TypeOK /\ CaseInv /\ BindingInv /\ R!OneLiveRun /\ R!LineageIsAChain
      /\ (\A s \in R!Run : RunInv(s)) /\ \A d \in replacements : EdgeInv(d)
  BY DEF RecoveryInv
<1>1. PICK p \in R!Run : p = lead.run /\ lead.run # 0
  BY <1>0, CaseTypes DEF CaseInv, R!Run
<1>2. r = p + 1 /\ p \in 1 .. MaxRuns /\ r # p /\ runs[r].state = "NONE" /\ runs[p].version = lead.version
      /\ lead.version <= p
  <2>1. r = lead.run + 1 /\ runs[r].state = "NONE" /\ runs[lead.run].version = lead.version
        /\ lead.version <= lead.run
    BY <1>1, FreshRun
  <2>2. p \in 1 .. MaxRuns
    BY DEF R!Run
  <2> QED BY <1>1, <2>1, <2>2, RunAssumption
<1>3. runs \in [R!Run -> R!RunRecord]
  BY <1>0 DEF R!TypeOK
<1>4. /\ runs' \in [R!Run -> R!RunRecord] /\ runs'[r] = first /\ runs'[p] = last
      /\ \A s \in R!Run \ {p, r} : runs'[s] = runs[s]
  BY <1>1, <1>2, <1>3
<1>5. lead'.run = r /\ lead'.version = first.version /\ lead'.run # 0
  BY <1>2, RunAssumption DEF R!SaveCase
<1>6. \A s \in R!Run : Made(s) <=> s <= p
  BY <1>0, <1>1 DEF RunInv
<1>7. \A s \in R!Run : Made(s)' <=> s <= r
  <2>1. \A s \in R!Run \ {p, r} : Made(s)' <=> Made(s)
    BY <1>4 DEF Made
  <2>2. Made(r)' /\ Made(p)'
    BY <1>4 DEF Made
  <2>3. \A s \in R!Run \ {r} : s <= p <=> s <= r
    BY <1>2, RunAssumption DEF R!Run
  <2> QED BY <1>2, <1>6, <2>1, <2>2, <2>3, RunAssumption DEF R!Run
<1>8. ASSUME NEW s \in R!Run \ {p, r}
      PROVE  runs[s].state \in {"NONE", "REJECTED", "SUPERSEDED"} /\ ~(runs[s].step > 0)
  BY <1>0, <1>1 DEF R!OneLiveRun, RunInv
<1>9. ~(runs[p].step > 0)
  BY <1>0, <1>1 DEF RunInv
<1>10. BindingInv'
  BY <1>4, <1>5 DEF BindingInv
<1>11. ASSUME NEW s \in R!Run PROVE RunInv(s)'
  <2>1. CASE s = r
    <3>1. first.version <= r
      BY <1>2, CaseTypes, <1>0, RunAssumption
    <3> QED BY <1>4, <1>5, <1>7, <2>1, <3>1 DEF RunInv, Made
  <2>2. CASE s = p
    <3>1. runs[p].version <= p
      BY <1>0 DEF RunInv
    <3> QED BY <1>1, <1>2, <1>4, <1>5, <1>7, <1>9, <2>2, <3>1 DEF RunInv, Made
  <2>3. CASE s \notin {p, r}
    BY <1>0, <1>4, <1>5, <1>7, <2>3 DEF RunInv, Made
  <2> QED BY <2>1, <2>2, <2>3
<1>12. R!OneLiveRun'
  <2>1. \A s \in R!Run \ {r} : runs'[s].state \in {"NONE", "REJECTED", "SUPERSEDED"}
                               /\ ~(runs'[s].step > 0)
    BY <1>1, <1>4, <1>8, <1>9
  <2> QED BY <1>5, <2>1 DEF R!OneLiveRun
<1>13. ASSUME NEW d \in replacements
       PROVE  /\ d.predecessor \in R!Run /\ d.successor \in R!Run /\ d.predecessor < p /\ d.successor <= p
              /\ d.version <= lead.version /\ d.version \in Nat
  <2>1. d.predecessor \in R!Run /\ d.successor \in R!Run /\ d.version \in 1 .. MaxRuns
    BY <1>0 DEF R!TypeOK
  <2> QED BY <1>0, <1>1, <2>1 DEF EdgeInv
<1>14. ASSUME NEW d \in replacements
       PROVE  /\ d.predecessor \in R!Run \ {p, r} /\ d.successor \in R!Run \ {r}
              /\ runs'[d.predecessor] = runs[d.predecessor]
              /\ runs'[d.successor].version = runs[d.successor].version
              /\ runs'[d.successor].attempt = runs[d.successor].attempt
  <2>1. d.predecessor \in R!Run \ {p, r} /\ d.successor \in R!Run \ {r}
    BY <1>2, <1>13 DEF R!Run
  <2>2. d.successor = p \/ d.successor \in R!Run \ {p, r}
    BY <2>1
  <2> QED BY <1>1, <1>4, <2>1, <2>2
<1>15. R!LineageIsAChain'
  <2>1. ASSUME NEW d \in replacements
        PROVE  /\ d.predecessor # e.predecessor /\ d.successor # e.successor
               /\ d.class = e.class /\ d.version = e.version => d.kind # e.kind
    <3>1. d.predecessor # e.predecessor /\ d.successor # e.successor
      BY <1>1, <1>14
    <3>2. e.kind = "REPLACED" /\ d.kind = "REPLACED" /\ d.version = e.version => d.class # e.class
      BY DEF R!Unconsumed, R!Replacements
    <3>3. e.kind = "REISSUED" => d.version # e.version
      BY <1>0, <1>13, CaseTypes
    <3> QED BY <3>1, <3>2, <3>3
  <2>2. \A d, f \in replacements' :
          \/ d = f
          \/ /\ d.predecessor # f.predecessor /\ d.successor # f.successor
             /\ d.class = f.class /\ d.version = f.version => d.kind # f.kind
    <3>1. \A d, f \in replacements :
            \/ d = f
            \/ /\ d.predecessor # f.predecessor /\ d.successor # f.successor
               /\ d.class = f.class /\ d.version = f.version => d.kind # f.kind
      BY <1>0 DEF R!LineageIsAChain
    <3> QED BY <2>1, <3>1
  <2>3. ASSUME NEW d \in replacements'
        PROVE  /\ runs'[d.successor].version = d.version
               /\ d.kind = "REPLACED" =>
                    /\ runs'[d.predecessor].version = d.version
                    /\ runs'[d.successor].attempt = runs'[d.predecessor].attempt + 1
                    /\ runs'[d.predecessor].state = "SUPERSEDED"
               /\ d.kind = "REISSUED" =>
                    /\ runs'[d.predecessor].version = d.version - 1
                    /\ runs'[d.predecessor].state = "REJECTED"
    <3>1. CASE d \in replacements
      <4>1. /\ runs[d.successor].version = d.version
            /\ d.kind = "REPLACED" =>
                 /\ runs[d.predecessor].version = d.version
                 /\ runs[d.successor].attempt = runs[d.predecessor].attempt + 1
                 /\ runs[d.predecessor].state = "SUPERSEDED"
            /\ d.kind = "REISSUED" =>
                 /\ runs[d.predecessor].version = d.version - 1
                 /\ runs[d.predecessor].state = "REJECTED"
        BY <1>0, <3>1 DEF R!LineageIsAChain
      <4>2. /\ runs'[d.predecessor] = runs[d.predecessor]
            /\ runs'[d.successor].version = runs[d.successor].version
            /\ runs'[d.successor].attempt = runs[d.successor].attempt
        BY <1>14, <3>1
      <4> QED BY <4>1, <4>2
    <3>2. CASE d = e
      <4>1. /\ runs'[e.successor] = first /\ runs'[e.predecessor] = last
            /\ last.version = lead.version
        BY <1>1, <1>2, <1>4
      <4>2. e.kind = "REISSUED" => last.version = e.version - 1 /\ last.state = "REJECTED"
        BY <1>0, <4>1, CaseTypes
      <4>3. e.kind = "REPLACED" => /\ last.version = e.version /\ first.attempt = last.attempt + 1
                                   /\ last.state = "SUPERSEDED"
        BY <4>1
      <4> QED BY <3>2, <4>1, <4>2, <4>3
    <3> QED BY <3>1, <3>2
  <2>4. ASSUME NEW s \in R!Run, runs'[s].state # "NONE"
        PROVE  (s = lead'.run) = (\A d \in replacements' : d.predecessor # s)
    <3>1. s <= r
      BY <1>7, <2>4 DEF Made
    <3>2. CASE s = r
      <4>1. \A d \in replacements : d.predecessor # s
        BY <1>14, <3>2
      <4>2. e.predecessor # s
        BY <1>1, <1>2, <3>2
      <4>3. \A d \in replacements' : d.predecessor # s
        BY <4>1, <4>2
      <4> QED BY <1>5, <3>2, <4>3
    <3>3. CASE s = p
      BY <1>1, <1>2, <1>5, <3>3
    <3>4. CASE s \notin {p, r}
      <4>1. runs[s].state # "NONE"
        BY <1>4, <2>4, <3>4
      <4>2. \E d \in replacements : d.predecessor = s
        BY <1>0, <1>1, <3>4, <4>1 DEF R!LineageIsAChain
      <4> QED BY <1>5, <3>4, <4>2
    <3> QED BY <3>2, <3>3, <3>4
  <2> QED BY <2>2, <2>3, <2>4 DEF R!LineageIsAChain
<1>16. ASSUME NEW d \in replacements' PROVE EdgeInv(d)'
  <2>1. first.version \in Nat /\ lead.version <= first.version
    <3>1. lead.version \in Nat /\ first.version \in {lead.version, lead.version + 1}
      BY <1>0, CaseTypes
    <3> QED BY <3>1
  <2>2. CASE d \in replacements
    <3>1. d.predecessor \in Nat /\ d.successor \in Nat
      BY <1>13, <2>2, RunAssumption DEF R!Run
    <3>2. d.predecessor < r /\ d.successor <= r /\ d.version <= first.version
      BY <1>0, <1>2, <1>13, <2>1, <2>2, <3>1, CaseTypes
    <3> QED BY <1>5, <3>2 DEF EdgeInv
  <2>3. CASE d = e
    BY <1>1, <1>2, <1>5, <2>1, <2>3, RunAssumption DEF EdgeInv
  <2> QED BY <2>2, <2>3
<1>17. \A s \in R!Run : runs[s].state \in {"EXECUTING", "HALTED"} => runs'[s].state = runs[s].state
  BY <1>1, <1>2, <1>4
<1>18. Made(1) => Made(1)'
  BY <1>2, <1>7, RunAssumption DEF R!Run
<1>19. replacements' \subseteq [kind: {"REPLACED", "REISSUED"}, predecessor: R!Run, successor: R!Run,
                                version: 1 .. MaxRuns, class: R!EvidenceClass \cup {"NONE"}]
  BY <1>0 DEF R!TypeOK
<1>20. row.run # 0
  BY <1>5 DEF R!SaveCase
<1> QED BY <1>4, <1>10, <1>11, <1>12, <1>15, <1>16, <1>17, <1>18, <1>19, <1>20, SavedStep

LEMMA ReplaceKeeps ==
  ASSUME RecoveryInv, NEW c \in Caller, R!Replace(c)
  PROVE  RecoveryInv'
<1>0. /\ R!TypeOK /\ CaseInv /\ CaseCall(c) /\ lead \in R!Case /\ lead.version \in 1 .. MaxRuns
  BY CaseTypes DEF RecoveryInv
<1>1. UNCHANGED <<timeline, contacts, sent, faults>> /\ call[c].pc = "replace"
  BY DEF R!Replace, R!outreachVars, R!At
<1>2. CASE R!Return(c) /\ UNCHANGED <<lead, optedOut, runs, replacements>>
  BY <1>1, <1>2, QuietReturn
<1>3. CASE R!StillPlanning(call[c].seen.run) /\ R!Current(c)
  <2>1. /\ call[c].seen = lead /\ lead.status = "IN_ORCHESTRATION" /\ lead.run # 0
        /\ runs[lead.run].state = "PLANNING" /\ runs[lead.run].attempt < 3
        /\ R!Unconsumed(call[c].class) /\ call[c].class \in R!EvidenceClass
    BY <1>0, <1>1, <1>3 DEF CaseCall, CaseInv, R!Current, R!StillPlanning, R!MaxRunAttempt
  <2>2. PICK r \in R!Fresh :
          /\ runs' = [runs EXCEPT ![lead.run].state = "SUPERSEDED",
                                  ![r] = R!Admitted(lead.version, runs[lead.run].attempt + 1)]
          /\ replacements' = replacements \cup
               {[kind |-> "REPLACED", predecessor |-> lead.run, successor |-> r,
                 version |-> lead.version, class |-> call[c].class]}
          /\ R!Rebind(c, r, lead.version)
    BY <1>3, <2>1 DEF R!Replace
  <2>3. r \in R!Run /\ lead.run \in R!Run
    BY <2>1, <2>2, FreshRun DEF R!Fresh
  <2>4. runs[lead.run] \in R!RunRecord /\ runs[lead.run].attempt + 1 \in 1 .. 3
    BY <1>0, <2>1, <2>3, RunRowTypes
  <2>5. PICK first \in R!RunRecord :
          /\ first = R!Admitted(lead.version, runs[lead.run].attempt + 1)
          /\ first.state = "ADMITTED" /\ first.version = lead.version
          /\ first.attempt = runs[lead.run].attempt + 1 /\ first.step = 0
    BY <1>0, <2>4, AdmittedRun
  <2>6. PICK last \in R!RunRecord :
          /\ last = [runs[lead.run] EXCEPT !.state = "SUPERSEDED"]
          /\ last.state = "SUPERSEDED" /\ last.version = runs[lead.run].version
          /\ last.attempt = runs[lead.run].attempt /\ last.step = runs[lead.run].step
    <3> DEFINE last == [runs[lead.run] EXCEPT !.state = "SUPERSEDED"]
    <3>1. /\ last \in R!RunRecord
          /\ last.state = "SUPERSEDED" /\ last.version = runs[lead.run].version
          /\ last.attempt = runs[lead.run].attempt /\ last.step = runs[lead.run].step
      BY <2>4 DEF R!RunRecord
    <3> QED BY <3>1
  <2>7. runs' = [runs EXCEPT ![lead.run] = last, ![r] = first]
    BY <2>2, <2>5, <2>6
  <2>8. PICK e \in Edge :
          /\ e.kind = "REPLACED" /\ e.predecessor = lead.run /\ e.successor = r
          /\ e.version = lead.version /\ e.class = call[c].class
          /\ replacements' = replacements \cup {e}
    BY <1>0, <2>1, <2>2, <2>3 DEF Edge
  <2>9. PICK row \in R!Case :
          /\ R!SaveCase(c, row)
          /\ row.run = r /\ row.version = lead.version /\ row.status = "IN_ORCHESTRATION"
    <3>1. PICK row : row = [lead EXCEPT !.run = r, !.version = lead.version]
      OBVIOUS
    <3>2. R!SaveCase(c, row)
      BY <2>1, <2>2, <3>1 DEF R!Rebind
    <3>3. r \in 0 .. MaxRuns
      BY <2>3 DEF R!Run
    <3>4. row \in R!Case /\ row.run = r /\ row.version = lead.version /\ row.status = lead.status
      BY <1>0, <3>1, <3>3 DEF R!Case
    <3> QED BY <2>1, <3>2, <3>4
  <2>10. /\ e.kind = "REPLACED" /\ last.state = "SUPERSEDED" /\ first.version = lead.version
         /\ first.attempt = last.attempt + 1 /\ R!Unconsumed(e.class)
    BY <2>1, <2>5, <2>6, <2>8
  <2>11. /\ e.version = first.version /\ row.version = first.version /\ call[c].pc # "persist"
         /\ runs[lead.run].state \in {"PLANNING", "REJECTED"}
    BY <1>1, <2>1, <2>5, <2>8, <2>9
  <2>12. Succession(c, row, r, first, last, e)
    BY <1>1, <2>1, <2>5, <2>6, <2>7, <2>8, <2>9, <2>10, <2>11 DEF Succession
  <2>13. r \in R!Run /\ row \in R!Case /\ first \in R!RunRecord /\ last \in R!RunRecord /\ e \in Edge
    BY <2>3, <2>5, <2>6, <2>8, <2>9
  <2> QED BY <2>12, <2>13, Succeeds
<1> QED BY <1>1, <1>2, <1>3 DEF R!Replace, R!caseVars

LEMMA ReissueKeeps ==
  ASSUME RecoveryInv, NEW c \in Caller, R!Reissue(c)
  PROVE  RecoveryInv'
<1>0. /\ R!TypeOK /\ CaseInv /\ CaseCall(c) /\ lead \in R!Case /\ lead.version \in 1 .. MaxRuns
  BY CaseTypes DEF RecoveryInv
<1>1. UNCHANGED <<timeline, contacts, sent, faults>> /\ call[c].pc = "reissue"
  BY DEF R!Reissue, R!outreachVars, R!At
<1>2. CASE R!Return(c) /\ UNCHANGED <<lead, optedOut, runs, replacements>>
  BY <1>1, <1>2, QuietReturn
<1>3. CASE R!Current(c)
  <2>1. /\ call[c].seen = lead /\ lead.status = "IN_ORCHESTRATION" /\ lead.run # 0
        /\ runs[lead.run].state = "REJECTED"
    BY <1>0, <1>1, <1>3 DEF CaseCall, CaseInv, R!Current
  <2>2. PICK r \in R!Fresh :
          /\ runs' = [runs EXCEPT ![r] = R!Admitted(lead.version + 1, 1)]
          /\ replacements' = replacements \cup
               {[kind |-> "REISSUED", predecessor |-> lead.run, successor |-> r,
                 version |-> lead.version + 1, class |-> "NONE"]}
          /\ R!Rebind(c, r, lead.version + 1)
    BY <1>3, <2>1 DEF R!Reissue
  <2>3. /\ r \in R!Run /\ lead.run \in R!Run /\ r = lead.run + 1 /\ lead.version <= lead.run
    BY <2>1, <2>2, FreshRun DEF R!Fresh
  <2>4. lead.version + 1 \in 1 .. MaxRuns /\ 1 \in 1 .. 3
    BY <1>0, <2>3, RunAssumption DEF R!Run
  <2>5. PICK first \in R!RunRecord :
          /\ first = R!Admitted(lead.version + 1, 1)
          /\ first.state = "ADMITTED" /\ first.version = lead.version + 1 /\ first.step = 0
    BY <2>4, AdmittedRun
  <2>6. PICK last \in R!RunRecord : last = runs[lead.run] /\ last.state = "REJECTED"
    BY <1>0, <2>1, <2>3, RunRowTypes
  <2>7. runs' = [runs EXCEPT ![lead.run] = last, ![r] = first]
    BY <1>0, <2>2, <2>3, <2>5, <2>6 DEF R!TypeOK
  <2>8. PICK e \in Edge :
          /\ e.kind = "REISSUED" /\ e.predecessor = lead.run /\ e.successor = r
          /\ e.version = lead.version + 1
          /\ replacements' = replacements \cup {e}
    BY <2>2, <2>3, <2>4 DEF Edge
  <2>9. PICK row \in R!Case :
          /\ R!SaveCase(c, row)
          /\ row.run = r /\ row.version = lead.version + 1 /\ row.status = "IN_ORCHESTRATION"
    <3>1. PICK row : row = [lead EXCEPT !.run = r, !.version = lead.version + 1]
      OBVIOUS
    <3>2. R!SaveCase(c, row)
      BY <2>1, <2>2, <3>1 DEF R!Rebind
    <3>3. r \in 0 .. MaxRuns
      BY <2>3 DEF R!Run
    <3>4. row \in R!Case /\ row.run = r /\ row.version = lead.version + 1 /\ row.status = lead.status
      BY <1>0, <2>4, <3>1, <3>3 DEF R!Case
    <3> QED BY <2>1, <3>2, <3>4
  <2>10. e.kind = "REISSUED" /\ last.state = "REJECTED" /\ first.version = lead.version + 1
    BY <2>5, <2>6, <2>8
  <2>11. /\ e.version = first.version /\ row.version = first.version /\ call[c].pc # "persist"
         /\ runs[lead.run].state \in {"PLANNING", "REJECTED"}
         /\ last.version = runs[lead.run].version /\ last.attempt = runs[lead.run].attempt
         /\ last.step = runs[lead.run].step
    BY <1>1, <2>1, <2>5, <2>6, <2>8, <2>9
  <2>12. Succession(c, row, r, first, last, e)
    BY <1>1, <2>1, <2>5, <2>6, <2>7, <2>8, <2>9, <2>10, <2>11 DEF Succession
  <2>13. r \in R!Run /\ row \in R!Case /\ first \in R!RunRecord /\ last \in R!RunRecord /\ e \in Edge
    BY <2>3, <2>5, <2>6, <2>8, <2>9
  <2> QED BY <2>12, <2>13, Succeeds
<1> QED BY <1>1, <1>2, <1>3 DEF R!Reissue, R!caseVars
-----------------------------------------------------------------------------
(* Every step                                                               *)

LEMMA RecoveryBegins ==
  ASSUME R!Init
  PROVE  RecoveryInv
<1>1. /\ lead = R!NoCase /\ runs = [r \in R!Run |-> R!NoRun] /\ replacements = {} /\ timeline = {}
      /\ contacts = 0 /\ sent = 0 /\ optedOut = FALSE /\ faults = 0
      /\ call = [c \in Caller |-> R!Idle]
  BY DEF R!Init
<1>2. /\ call \in [Caller -> R!CallState] /\ \A c \in Caller : call[c] = R!Idle
      /\ runs \in [R!Run -> R!RunRecord] /\ \A r \in R!Run : runs[r] = R!NoRun
  BY <1>1, Beginnings
<1>3. R!TypeOK
  <2>1. 0 \in 0 .. MaxFaults /\ 0 \in 0 .. 0 /\ 0 \in Nat
    BY RunAssumption
  <2>2. lead \in R!Case /\ contacts \in 0 .. sent /\ sent \in Nat /\ faults \in 0 .. MaxFaults
        /\ optedOut \in BOOLEAN
    BY <1>1, <2>1, Beginnings
  <2>3. replacements = {} /\ timeline = {}
    BY <1>1
  <2> QED BY <1>2, <2>2, <2>3 DEF R!TypeOK
<1>4. CaseInv /\ BindingInv
  BY <1>1, Beginnings DEF CaseInv, BindingInv
<1>5. \A r \in R!Run : ~Made(r) /\ ~(runs[r].step > 0)
  BY <1>2, Beginnings DEF Made
<1>6. ASSUME NEW r \in R!Run PROVE RunInv(r)
  <2>1. r >= 1 /\ runs[r].version = 1
    BY <1>2, Beginnings DEF R!Run
  <2> QED BY <1>1, <1>2, <1>5, <2>1, Beginnings DEF RunInv
<1>7. R!OneLiveRun /\ R!LineageIsAChain
  BY <1>1, <1>5, Beginnings DEF R!OneLiveRun, R!LineageIsAChain, Made
<1>8. SentInv
  BY <1>1, RunAssumption DEF SentInv
<1>9. \A c \in Caller : CaseCall(c) /\ OutreachCall(c)
  BY <1>2, Beginnings DEF CaseCall, OutreachCall
<1>10. Alone
  BY <1>2, Beginnings DEF Alone
<1> QED BY <1>1, <1>3, <1>4, <1>6, <1>7, <1>8, <1>9, <1>10 DEF RecoveryInv

LEMMA RecoveryGoesOn ==
  ASSUME RecoveryInv, R!Next
  PROVE  RecoveryInv'
<1>1. ASSUME NEW c \in Caller,
             \/ R!Detect(c) \/ R!Preview(c) \/ R!Prepare(c) \/ R!Admit(c) \/ R!Save(c)
             \/ (\E e \in R!LeadEvent : R!Append(c, e)) \/ R!ListOpen(c) \/ R!Refresh(c)
             \/ R!Evaluate(c) \/ R!SaveOutcome(c)
      PROVE  RecoveryInv'
  BY <1>1, DetectKeeps, PreviewKeeps, PrepareKeeps, AdmitKeeps, SaveKeeps, AppendKeeps, ListOpenKeeps,
     RefreshKeeps, EvaluateKeeps, SaveOutcomeKeeps
<1>2. ASSUME NEW c \in Caller,
             \/ R!ProveDefect(c) \/ R!Replace(c) \/ R!ProveRejection(c) \/ R!Reissue(c)
             \/ (\E r \in R!Run : R!StartStep(c, r)) \/ R!CheckPolicy(c) \/ R!Send(c) \/ R!Persist(c)
             \/ R!Crash(c)
      PROVE  RecoveryInv'
  BY <1>2, ProveDefectKeeps, ReplaceKeeps, ProveRejectionKeeps, ReissueKeeps, StartStepKeeps,
     PolicyKeeps, SendKeeps, PersistKeeps, CrashKeeps
<1>3. ASSUME NEW r \in R!Run,
             R!Plan(r) \/ R!PlanningFails(r) \/ R!SavePlan(r) \/ R!EndPlanning(r) \/ R!Decide(r)
      PROVE  RecoveryInv'
  BY <1>3, PlanKeeps, PlanningFailsKeeps, SavePlanKeeps, EndPlanningKeeps, DecideKeeps
<1> QED BY <1>1, <1>2, <1>3 DEF R!Next

\* A step that leaves every table of the recovery.
LEMMA RecoveryRests ==
  ASSUME RecoveryInv, UNCHANGED <<callVars, recoveryOnly>>
  PROVE  RecoveryInv'
<1>1. UNCHANGED <<call, faults, lead, runs, replacements, timeline, contacts, sent, optedOut>>
  BY DEF callVars, recoveryOnly
<1>2. PICK movers \in SUBSET Caller : movers = {}
  OBVIOUS
<1>3. /\ R!TypeOK /\ SentInv /\ (\A r \in R!Run : RunInv(r)) /\ \A d \in Caller : OutreachCall(d)
  BY DEF RecoveryInv
<1>4. Moved
  BY <1>1, <1>3 DEF Moved, RunInv, R!TypeOK
<1>5. SentInv'
  BY <1>1, <1>3 DEF SentInv
<1>6. /\ call' \in [Caller -> R!CallState] /\ runs' \in [R!Run -> R!RunRecord]
      /\ timeline' \subseteq R!LeadEvent /\ faults' \in 0 .. MaxFaults /\ sent' \in Nat
      /\ contacts' \in 0 .. sent'
  BY <1>1, <1>3 DEF R!TypeOK
<1>7. \A d \in Caller \ movers :
           /\ call'[d] = call[d]
           /\ call[d].run # 0 => runs'[call[d].run].state = "EXECUTING" /\ UNCHANGED <<sent, contacts>>
  BY <1>1, <1>3 DEF OutreachCall
<1>8. \A e \in movers : /\ CaseCall(e)' /\ OutreachCall(e)'
                        /\ call'[e].run # 0 => \A d \in Caller \ {e} : call'[d].run = 0
  BY <1>2
<1> QED BY <1>1, <1>4, <1>5, <1>6, <1>7, <1>8, RecoveryStep

\* What replacements, preparations, plans, messages and answers beside each other find and
\* leave in the case, its runs and its lineage.
THEOREM RecoveryInvariant == RunSpec => [](part = "recovery" => RecoveryInv)
<1> DEFINE Inv == part = "recovery" => RecoveryInv
<1>1. RunInit => Inv
  BY RecoveryBegins DEF RunInit
<1>2. Inv /\ [RunNext]_runVars => Inv'
  <2>1. ASSUME Inv, part = "recovery", R!Next, UNCHANGED part PROVE Inv'
    BY <2>1, RecoveryGoesOn
  <2>2. ASSUME Inv, part # "recovery", UNCHANGED part PROVE Inv'
    BY <2>2
  <2>3. ASSUME Inv, part = "recovery", UNCHANGED runVars PROVE Inv'
    BY <2>3, RecoveryRests DEF runVars
  <2>4. RunNext => UNCHANGED part /\ (part = "recovery" => R!Next)
    BY DEF RunNext
  <2>5. UNCHANGED runVars => UNCHANGED part
    BY DEF runVars
  <2> QED BY <2>1, <2>2, <2>3, <2>4, <2>5
<1> QED BY <1>1, <1>2, PTL DEF RunSpec

\* revenue-recovery/service.ts: whatever replaces, prepares, plans, sends and answers beside
\* each other, one run of the case is live, the lineage is a chain that ends in it, no more
\* messages are sent than may be, and a suppressed case stays suppressed.
THEOREM RecoveryGoverned == RunSpec => []RecoveryIsGoverned
<1>1. RecoveryInv => R!RecoveryIsGoverned
  BY DEF RecoveryInv, SentInv, CaseInv, R!OutreachIsBounded, R!RecoveryIsGoverned
<1>2. (part = "recovery" => RecoveryInv) => RecoveryIsGoverned
  BY <1>1 DEF RecoveryIsGoverned
<1> QED BY <1>2, RecoveryInvariant, PTL

-----------------------------------------------------------------------------
(***************************************************************************)
(* The parts of a run                                                      *)
(***************************************************************************)

\* What the calls of planners, verifiers and learners beside each other, and the processes
\* that start in between, find and leave in the usage ledger.
THEOREM InferenceInvariant == RunSpec => [](part = "inference" => InferenceInv)
<1> DEFINE Inv == part = "inference" => InferenceInv
<1>1. RunInit => Inv
  BY InferenceBegins DEF RunInit
<1>2. Inv /\ [RunNext]_runVars => Inv'
  <2>1. ASSUME Inv, part = "inference", I!Next, UNCHANGED part PROVE Inv'
    BY <2>1, InferenceGoesOn
  <2>2. ASSUME Inv, part # "inference", UNCHANGED part PROVE Inv'
    BY <2>2
  <2>3. ASSUME Inv, part = "inference", UNCHANGED runVars PROVE Inv'
    BY <2>3, InferenceRests DEF runVars
  <2>4. RunNext => UNCHANGED part /\ (part = "inference" => I!Next)
    BY DEF RunNext
  <2>5. UNCHANGED runVars => UNCHANGED part
    BY DEF runVars
  <2> QED BY <2>1, <2>2, <2>3, <2>4, <2>5
<1> QED BY <1>1, <1>2, PTL DEF RunSpec

\* planning/service.ts invokeModel, PlanningUsageLedger: what a provider was asked for costs
\* the run its reservation or what was used of it, whoever fails or restarts, and planners
\* beside each other exceed the budget by no more than what recovery has reopened and what
\* single calls used beyond their reservation.
THEOREM InferencesAreAccounted == RunSpec => []InferenceIsAccounted
<1>1. (part = "inference" => InferenceInv) => InferenceIsAccounted
  BY InferenceInvAccounts DEF InferenceIsAccounted
<1> QED BY <1>1, InferenceInvariant, PTL

\* A run is shown in one of its parts, for good.
LEMMA PartsOfRuns == RunSpec => [](part \in {"phase", "execution", "inference", "recovery"})
<1>1. RunInit => part \in {"phase", "execution", "inference", "recovery"}
  BY DEF RunInit
<1>2. part \in {"phase", "execution", "inference", "recovery"} /\ [RunNext]_runVars
        => (part \in {"phase", "execution", "inference", "recovery"})'
  BY DEF RunNext, runVars
<1> QED BY <1>1, <1>2, PTL DEF RunSpec

\* Every table and every call of every part holds what its columns and its code allow.
THEOREM RunTypes == RunSpec => []TypesOK
<1> DEFINE Parts == part \in {"phase", "execution", "inference", "recovery"}
           Execution == part = "execution" => ExecutionIInv
           Inference == part = "inference" => InferenceInv
           Recovery == part = "recovery" => RecoveryInv
<1>1. Parts /\ TypeOK /\ Execution /\ Inference /\ Recovery => TypesOK
  BY DEF TypesOK, ExecutionIInv, ExecutionInv, InferenceInv, RecoveryInv
<1> QED
  BY <1>1, PartsOfRuns, RunsKeepThePhases, TypeCorrect, ExecutionInvariant, InferenceInvariant,
     RecoveryInvariant, PTL
=============================================================================
