---------------------------- MODULE PhaseProofs -----------------------------
(***************************************************************************)
(* Proofs about the phases of a run.  First PhaseFence, the fence and the  *)
(* lease that each of them goes through: for every set of requests and     *)
(* instances, every assignment of the one to the other and every number of *)
(* grants.  Then Execution, two such phases with what they do inside: for  *)
(* any calls and plans and all bounds, the steps of a run are actuated     *)
(* once and in order, its result tells what happened to them, and its      *)
(* completion is atomic.                                                   *)
(***************************************************************************)
EXTENDS MCRun, SequenceTheorems, TLAPS

(***************************************************************************)
(* Operators of LeaseStore                                                 *)
(***************************************************************************)

\* A lease that is taken over is a row again, held under a token nobody had.
LEMMA AcquiredType ==
  ASSUME NEW l \in LeaseRow, NEW o \in Owner
  PROVE  /\ Acquired(l, o) \in LeaseRow
         /\ Acquired(l, o).token = l.token + 1
         /\ Acquired(l, o).owner = o
         /\ Acquired(l, o).status = "HELD"
  BY DEF Acquired, LeaseRow, LeaseStatus

\* Expiry changes nothing else about the row.
LEMMA ExpiredType ==
  ASSUME NEW l \in LeaseRow
  PROVE  /\ Expired(l) \in LeaseRow
         /\ Expired(l).token = l.token
         /\ Expired(l).owner = l.owner
         /\ Expired(l).status = l.status
         /\ ExpiredGrant(l) \in Nat
         /\ ExpiredGrant(l) <= l.token
<1>1. /\ Expired(l) \in LeaseRow
      /\ Expired(l).token = l.token
      /\ Expired(l).owner = l.owner
      /\ Expired(l).status = l.status
  BY DEF Expired, LeaseRow
<1>2. /\ ExpiredGrant(l) \in Nat
      /\ ExpiredGrant(l) <= l.token
  <2>1. l.token \in Nat
    BY DEF LeaseRow
  <2>2. CASE l.expired
    BY <2>1, <2>2 DEF ExpiredGrant
  <2>3. CASE ~l.expired
    BY <2>1, <2>3 DEF ExpiredGrant
  <2> QED
    BY <2>2, <2>3
<1> QED
  BY <1>1, <1>2

(***************************************************************************)
(* Types                                                                   *)
(***************************************************************************)

\* What a mark... and a reconcile... write is a fence row.
LEMMA FenceTypes ==
  ASSUME TypeOK, NEW r \in Request
  PROVE  /\ StartedFence(r) \in FenceRow
         /\ AdoptedFence(r) \in FenceRow
         /\ [fence EXCEPT !.status = request[r].outcome] \in FenceRow
  BY PhaseFenceAssumption
  DEF TypeOK, StartedFence, AdoptedFence, FenceRow, FenceStatus, OwnerToken,
      Call, LeaseRow

\* The records after a token are again a set of tokens, and not empty.
LEMMA RecordsAfterType ==
  ASSUME records \in SUBSET Nat, NEW t \in Nat
  PROVE  /\ RecordsAfter(t) \in SUBSET Nat
         /\ RecordsAfter(t) # {}
  BY DEF RecordsAfter

\* Every state of the specification has its type.
THEOREM TypeCorrect == Spec => []TypeOK
<1>1. Init => TypeOK
  BY PhaseFenceAssumption
  DEF Init, TypeOK, NoLease, LeaseRow, LeaseStatus, NoFence, FenceRow, FenceStatus,
      OwnerToken, RunState, Idle, Call, PC
<1>2. TypeOK /\ [Next]_vars => TypeOK'
  <2> SUFFICES ASSUME TypeOK, [Next]_vars PROVE TypeOK'
    OBVIOUS
  <2>1. CASE UNCHANGED vars
    BY <2>1 DEF vars, TypeOK
  <2>2. CASE ExpireLease
    BY <2>2, ExpiredType DEF ExpireLease, TypeOK
  <2>3. ASSUME NEW r \in Request, RequestStep(r) PROVE TypeOK'
    <3> DEFINE Same == UNCHANGED <<phase, lease, fence, records, run>>
    <3> USE DEF Call, PC
    <3>1. Idle \in Call
      BY DEF Idle
    <3>2. ASSUME NEW pc \in PC, GoTo(r, pc) PROVE request' \in [Request -> Call]
      BY <3>2 DEF GoTo, TypeOK
    <3>3. ASSUME Leave(r) PROVE request' \in [Request -> Call]
      BY <3>1, <3>3 DEF Leave, TypeOK
    <3>4. CASE Arrive(r)
      BY <3>2, <3>4 DEF Arrive, TypeOK
    <3>5. CASE ReconcileRead(r)
      <4>1. CASE fence.status = "DONE"
        BY <3>3, <3>5, <4>1 DEF ReconcileRead, TypeOK
      <4>2. CASE fence.status # "DONE"
        <5>1. fence.attempt \in Nat
          BY DEF TypeOK, FenceRow
        <5>2. request' \in [Request -> Call]
          BY <3>5, <4>2, <5>1 DEF ReconcileRead, TypeOK
        <5> QED
          BY <3>5, <5>2 DEF ReconcileRead, TypeOK
      <4> QED
        BY <4>1, <4>2
    <3>6. CASE ReconcileWrite(r)
      BY <3>3, <3>6, FenceTypes DEF ReconcileWrite, TypeOK
    <3>7. CASE Replay(r)
      BY <3>3, <3>7 DEF Replay, TypeOK
    <3>8. CASE BeginRead(r)
      <4>1. fence.attempt \in Nat /\ ExpiredGrant(lease) \in Nat
        BY ExpiredType DEF TypeOK, FenceRow
      <4>2. request' \in [Request -> Call]
        BY <3>8, <4>1 DEF BeginRead, TypeOK
      <4> QED
        BY <3>8, <4>2 DEF BeginRead, TypeOK
    <3>9. CASE BeginGranted(r)
      <4>1. home[r] \in Owner
        BY PhaseFenceAssumption
      <4>2. lease.token + 1 \in Nat
        BY DEF TypeOK, LeaseRow
      <4>3. request' \in [Request -> Call]
        BY <3>1, <3>9, <4>2 DEF BeginGranted, TypeOK, Idle
      <4> QED
        BY <3>9, <4>1, <4>3, AcquiredType, FenceTypes DEF BeginGranted, TypeOK
    <3>10. CASE BeginRefused(r)
      BY <3>3, <3>10 DEF BeginRefused, TypeOK
    <3>11. CASE CommitRun(r)
      BY <3>2, <3>11 DEF CommitRun, TypeOK, RunState
    <3>12. CASE Store(r)
      <4>1. request[r].token \in Nat
        BY DEF TypeOK
      <4>2. PICK o \in OutcomesWithRecord :
              request' = [request EXCEPT ![r] = [@ EXCEPT !.pc = "assert", !.outcome = o]]
        BY <3>12 DEF Store
      <4>3. o \in {"DONE", "FAILED"}
        BY DEF OutcomesWithRecord
      <4>4. request' \in [Request -> Call]
        BY <4>2, <4>3 DEF TypeOK
      <4>5. records' \in SUBSET Nat
        BY <3>12, <4>1, RecordsAfterType DEF Store, TypeOK
      <4> QED
        BY <3>12, <4>4, <4>5 DEF Store, TypeOK
    <3>13. CASE WorkFails(r)
      BY <3>13 DEF WorkFails, TypeOK
    <3>14. CASE AssertWritable(r)
      BY <3>2, <3>3, <3>14 DEF AssertWritable, TypeOK
    <3>15. CASE ConfirmInProgress(r)
      BY <3>2, <3>3, <3>15 DEF ConfirmInProgress, TypeOK
    <3>16. CASE Update(r)
      BY <3>3, <3>16, FenceTypes DEF Update, TypeOK
    <3>17. CASE Crash(r)
      BY <3>3, <3>17 DEF Crash, TypeOK
    <3> QED
      BY <2>3, <3>4, <3>5, <3>6, <3>7, <3>8, <3>9, <3>10, <3>11, <3>12, <3>13,
         <3>14, <3>15, <3>16, <3>17 DEF RequestStep
  <2> QED
    BY <2>1, <2>2, <2>3 DEF Next
<1> QED
  BY <1>1, <1>2, PTL DEF Spec

(***************************************************************************)
(* Fencing                                                                 *)
(***************************************************************************)

\* A step that moves one request without granting it a token, and leaves lease
\* and owner of the fence alone, keeps FenceInv.
LEMMA FenceInvQuietStep ==
  ASSUME TypeOK, FenceInv, NEW r \in Request, NEW c \in Call,
         request' = [request EXCEPT ![r] = c],
         c.pc \in {"working", "committed", "assert", "confirm", "update"}
           => Inside(r) /\ c.token = request[r].token,
         lease'.token = lease.token, lease'.owner = lease.owner,
         fence'.owner = fence.owner \/ fence'.owner.token = 0
  PROVE  FenceInv'
<1>1. FenceFollowsLease'
  BY DEF FenceInv, FenceFollowsLease
<1>2. \A s \in Request : Inside(s)' => Inside(s) /\ request'[s].token = request[s].token
  BY DEF Inside, TypeOK
<1>3. TokensAreExclusive'
  BY <1>2 DEF FenceInv, TokensAreExclusive
<1>4. HeldTokensWereIssued'
  BY <1>2 DEF FenceInv, HeldTokensWereIssued
<1> QED
  BY <1>1, <1>3, <1>4 DEF FenceInv

\* A step that grants r nothing moves r alone, and r is inside afterwards only
\* if it was before, with the same token.
LEMMA QuietCall ==
  ASSUME TypeOK, NEW r \in Request, RequestStep(r), ~BeginGranted(r)
  PROVE  /\ request' = [request EXCEPT ![r] = request'[r]]
         /\ \A s \in Request : Inside(s)' => Inside(s) /\ request'[s].token = request[s].token
<1>1. request' = [request EXCEPT ![r] = request'[r]]
  BY DEF RequestStep, Arrive, ReconcileRead, ReconcileWrite, Replay, BeginRead,
         BeginRefused, CommitRun, Store, WorkFails, AssertWritable,
         ConfirmInProgress, Update, Crash, GoTo, Leave, TypeOK
<1>2. request'[r].pc \in {"working", "committed", "assert", "confirm", "update"}
        => Inside(r) /\ request'[r].token = request[r].token
  <2>1. CASE Arrive(r) \/ ReconcileRead(r) \/ BeginRead(r)
    <3>1. ASSUME Arrive(r) PROVE request'[r].pc \in {"ready", "reconcile"}
      BY <3>1 DEF Arrive, GoTo, TypeOK
    <3>2. ASSUME ReconcileRead(r) PROVE request'[r].pc \in {"adopt", "idle"}
      <4>1. CASE fence.status = "DONE"
        BY <3>2, <4>1 DEF ReconcileRead, Leave, Idle, TypeOK
      <4>2. CASE fence.status # "DONE"
        <5>1. request'[r] = [request[r] EXCEPT !.pc = "adopt",
                                               !.seenAttempt = fence.attempt]
          BY <3>2, <4>2 DEF ReconcileRead, TypeOK
        <5>2. request[r] \in Call
          BY DEF TypeOK
        <5> QED
          BY <5>1, <5>2 DEF Call
      <4> QED
        BY <4>1, <4>2
    <3>3. ASSUME BeginRead(r) PROVE request'[r].pc = "begun"
      BY <3>3 DEF BeginRead, TypeOK, Call
    <3> QED
      BY <2>1, <3>1, <3>2, <3>3
  <2>2. CASE ReconcileWrite(r) \/ Replay(r) \/ BeginRefused(r) \/ Update(r) \/ Crash(r)
    BY <2>2 DEF ReconcileWrite, Replay, BeginRefused, Update, Crash, Leave, Idle, TypeOK
  <2>3. CASE CommitRun(r) \/ WorkFails(r)
    <3>1. ASSUME CommitRun(r) PROVE Inside(r) /\ request'[r].token = request[r].token
      BY <3>1 DEF CommitRun, GoTo, Inside, TypeOK, Call
    <3>2. ASSUME WorkFails(r) PROVE Inside(r) /\ request'[r].token = request[r].token
      BY <3>2 DEF WorkFails, Inside, TypeOK, Call
    <3> QED
      BY <2>3, <3>1, <3>2
  <2>4. CASE Store(r)
    BY <2>4 DEF Store, ReadyToStore, Inside, TypeOK, Call
  <2>5. CASE AssertWritable(r) \/ ConfirmInProgress(r)
    BY <2>5 DEF AssertWritable, ConfirmInProgress, GoTo, Leave, Idle, Inside, TypeOK, Call
  <2> QED
    BY <2>1, <2>2, <2>3, <2>4, <2>5 DEF RequestStep
<1> QED
  BY <1>1, <1>2 DEF Inside, TypeOK

\* begin hands out a token that is larger than all the others.
LEMMA FenceInvGrant ==
  ASSUME TypeOK, FenceInv, NEW r \in Request, BeginGranted(r)
  PROVE  FenceInv'
<1> DEFINE n == lease.token + 1
<1>1. lease.token \in Nat /\ home[r] \in Owner /\ lease \in LeaseRow
  BY PhaseFenceAssumption DEF TypeOK, LeaseRow
<1>2. lease'.token = n /\ lease'.owner = home[r]
  BY <1>1, AcquiredType DEF BeginGranted
<1>3. fence'.owner.token = n /\ fence'.owner.instance = home[r]
  BY DEF BeginGranted, StartedFence
<1>4. FenceFollowsLease'
  BY <1>2, <1>3 DEF FenceFollowsLease
<1>5. request'[r].token = n
  BY DEF BeginGranted, TypeOK, Idle
<1>6. \A s \in Request \ {r} : request'[s] = request[s]
  BY DEF BeginGranted, TypeOK
<1>7. \A s \in Request \ {r} : Inside(s)' => request'[s].token \in 1 .. lease.token
  BY <1>6 DEF FenceInv, HeldTokensWereIssued, Inside
<1>8. TokensAreExclusive'
  <2> SUFFICES ASSUME NEW s \in Request, NEW t \in Request,
                      Inside(s)', Inside(t)', s # t
               PROVE  request'[s].token # request'[t].token
    BY DEF TokensAreExclusive
  <2>1. CASE s = r
    BY <2>1, <1>1, <1>5, <1>7
  <2>2. CASE t = r
    BY <2>2, <1>1, <1>5, <1>7
  <2>3. CASE s # r /\ t # r
    BY <2>3, <1>6 DEF FenceInv, TokensAreExclusive, Inside
  <2> QED
    BY <2>1, <2>2, <2>3
<1>9. HeldTokensWereIssued'
  <2> SUFFICES ASSUME NEW s \in Request, Inside(s)'
               PROVE  /\ request'[s].token \in 1 .. n
                      /\ request'[s].token = n => home[s] = home[r]
    BY <1>2 DEF HeldTokensWereIssued
  <2>1. CASE s = r
    BY <2>1, <1>1, <1>5
  <2>2. CASE s # r
    BY <2>2, <1>1, <1>7
  <2> QED
    BY <2>1, <2>2
<1> QED
  BY <1>4, <1>8, <1>9 DEF FenceInv

LEMMA FenceInvStep == TypeOK /\ TypeOK' /\ FenceInv /\ [Next]_vars => FenceInv'
<1> SUFFICES ASSUME TypeOK, TypeOK', FenceInv, [Next]_vars PROVE FenceInv'
  OBVIOUS
<1>1. CASE UNCHANGED vars
  BY <1>1 DEF vars, FenceInv, FenceFollowsLease, TokensAreExclusive,
              HeldTokensWereIssued, Inside
<1>2. CASE ExpireLease
  <2>1. lease'.token = lease.token /\ lease'.owner = lease.owner
    BY <1>2, ExpiredType DEF ExpireLease, TypeOK
  <2> QED
    BY <1>2, <2>1 DEF ExpireLease, FenceInv, FenceFollowsLease, TokensAreExclusive,
                      HeldTokensWereIssued, Inside
<1>3. ASSUME NEW r \in Request, RequestStep(r), ~BeginGranted(r) PROVE FenceInv'
  <2>1. request'[r] \in Call
    BY DEF TypeOK
  <2>2. /\ request' = [request EXCEPT ![r] = request'[r]]
        /\ request'[r].pc \in {"working", "committed", "assert", "confirm", "update"}
             => Inside(r) /\ request'[r].token = request[r].token
    BY <1>3, QuietCall DEF Inside
  <2>4. UNCHANGED lease
    BY <1>3 DEF RequestStep, Arrive, ReconcileRead, ReconcileWrite, Replay, BeginRead,
                BeginRefused, CommitRun, Store, WorkFails, AssertWritable,
                ConfirmInProgress, Update, Crash
  <2>5. fence'.owner = fence.owner \/ fence'.owner.token = 0
    <3>1. CASE ReconcileWrite(r)
      BY <3>1 DEF ReconcileWrite, AdoptedFence
    <3>2. CASE Update(r)
      BY <3>2 DEF Update, TypeOK, FenceRow
    <3>3. CASE ~ReconcileWrite(r) /\ ~Update(r)
      BY <1>3, <3>3 DEF RequestStep, Arrive, ReconcileRead, Replay, BeginRead, BeginRefused,
                CommitRun, Store, WorkFails, AssertWritable, ConfirmInProgress, Crash
    <3> QED
      BY <3>1, <3>2, <3>3
  <2> QED
    BY <2>1, <2>2, <2>4, <2>5, FenceInvQuietStep
<1> QED
  BY <1>1, <1>2, <1>3, FenceInvGrant DEF Next

\* The fence row follows the lease, and the tokens that requests hold are
\* pairwise different and were issued.
THEOREM FenceInvariant == Spec => []FenceInv
<1>1. Init => FenceInv
  BY DEF Init, NoLease, NoFence, Idle, FenceInv, FenceFollowsLease, TokensAreExclusive,
         HeldTokensWereIssued, Inside
<1> QED
  BY <1>1, FenceInvStep, TypeCorrect, PTL DEF Spec

\* The two parts of the inductive invariant that say what the fence is for.
THEOREM FenceFollowsLeaseAlways == Spec => []FenceFollowsLease
<1>1. FenceInv => FenceFollowsLease
  BY DEF FenceInv
<1> QED
  BY <1>1, FenceInvariant, PTL

THEOREM TokensAreExclusiveAlways == Spec => []TokensAreExclusive
<1>1. FenceInv => TokensAreExclusive
  BY DEF FenceInv
<1> QED
  BY <1>1, FenceInvariant, PTL

\* Whatever happened between its three statements, a mark... that changes the
\* fence was called by the owner of the lease with the newest token: the owner
\* token in the WHERE clause alone suffices, the check before it does not.
THEOREM StaleOwnersNeverSettle == Spec => NoStaleSettlement
<1>1. ASSUME TypeOK, FenceInv, NEW r \in Request, Update(r), fence' # fence
      PROVE  request[r].token = lease.token /\ home[r] = lease.owner
  <2>1. fence.owner = MyOwnerToken(r)
    BY <1>1 DEF Update, OwnsFence
  <2>2. Inside(r)
    BY <1>1 DEF Update, Inside
  <2>3. request[r].token \in 1 .. lease.token /\ lease.token \in Nat
    BY <1>1, <2>2 DEF FenceInv, HeldTokensWereIssued, TypeOK, LeaseRow
  <2>4. fence.owner.token = request[r].token /\ fence.owner.instance = home[r]
    BY <2>1 DEF MyOwnerToken
  <2> QED
    BY <1>1, <2>3, <2>4 DEF FenceInv, FenceFollowsLease
<1>2. TypeOK /\ FenceInv /\ [Next]_vars
        => [\A r \in Request : Update(r) /\ fence' # fence
              => request[r].token = lease.token /\ home[r] = lease.owner]_vars
  BY <1>1
<1> QED
  BY <1>2, TypeCorrect, FenceInvariant, PTL DEF Spec, NoStaleSettlement

\* A begin that is granted beside the request that holds the fence finds its lease
\* expired or is of the same process, and takes the fence from it.
THEOREM HoldersAreDisplacedByTheirOwn == Spec => HolderIsDisplacedByItsOwn
<1> DEFINE HeldInv == lease.token > 0 => lease.status = "HELD"
<1>1. Init => HeldInv
  BY DEF Init, NoLease
<1>2. TypeOK /\ HeldInv /\ [Next]_vars => HeldInv'
  <2> SUFFICES ASSUME TypeOK, HeldInv, [Next]_vars PROVE HeldInv'
    OBVIOUS
  <2>1. CASE ExpireLease
    BY <2>1, ExpiredType DEF ExpireLease, LiveHeld, TypeOK
  <2>2. ASSUME NEW r \in Request, BeginGranted(r) PROVE HeldInv'
    <3>1. home[r] \in Owner
      BY PhaseFenceAssumption
    <3> QED
      BY <2>2, <3>1, AcquiredType DEF BeginGranted, TypeOK
  <2>3. CASE UNCHANGED lease
    BY <2>3
  <2> QED
    BY <2>1, <2>2, <2>3 DEF Next, RequestStep, Arrive, ReconcileRead, ReconcileWrite,
        Replay, BeginRead, BeginRefused, CommitRun, Store, WorkFails, AssertWritable,
        ConfirmInProgress, Update, Crash, vars
<1>3. ASSUME TypeOK, FenceInv, HeldInv, NEW r \in Request, NEW s \in Request,
             BeginGranted(r), Inside(s), request[s].token = fence.owner.token
      PROVE  /\ lease.expired \/ home[r] = home[s]
             /\ request[s].token # fence'.owner.token
  <2>1. request[s].token \in 1 .. lease.token /\ lease.token \in Nat
    BY <1>3 DEF FenceInv, HeldTokensWereIssued, TypeOK, LeaseRow
  <2>2. request[s].token = lease.token
    BY <1>3, <2>1 DEF FenceInv, FenceFollowsLease
  <2>3. home[s] = lease.owner /\ lease.status = "HELD"
    BY <1>3, <2>1, <2>2 DEF FenceInv, HeldTokensWereIssued
  <2>4. lease.expired \/ home[r] = home[s]
    BY <1>3, <2>3 DEF BeginGranted, MayBegin, CanAcquire
  <2>5. fence'.owner.token = lease.token + 1
    BY <1>3 DEF BeginGranted, StartedFence
  <2> QED
    BY <2>1, <2>2, <2>4, <2>5
<1>4. TypeOK /\ FenceInv /\ HeldInv /\ [Next]_vars
        => [\A r, s \in Request :
              BeginGranted(r) /\ Inside(s) /\ request[s].token = fence.owner.token
                => /\ lease.expired \/ home[r] = home[s]
                   /\ request[s].token # fence'.owner.token]_vars
  BY <1>3
<1> QED
  BY <1>1, <1>2, <1>4, TypeCorrect, FenceInvariant, PTL DEF Spec, HolderIsDisplacedByItsOwn

(***************************************************************************)
(* The record behind a terminal fence                                      *)
(***************************************************************************)

LEMMA RecordInvStep == TypeOK /\ RecordInv /\ [Next]_vars => RecordInv'
<1> SUFFICES ASSUME TypeOK, RecordInv, [Next]_vars PROVE RecordInv'
  OBVIOUS
<1> USE DEF RecordInv
<1>1. CASE UNCHANGED vars
  BY <1>1 DEF vars, DoneFenceHasRecord, Declares
<1>2. CASE ExpireLease
  BY <1>2 DEF ExpireLease, DoneFenceHasRecord, Declares
<1>3. ASSUME NEW r \in Request, RequestStep(r) PROVE RecordInv'
  <2>1. \A s \in Request \ {r} : request'[s] = request[s]
    BY <1>3 DEF RequestStep, Arrive, ReconcileRead, ReconcileWrite, Replay, BeginRead,
        BeginGranted, BeginRefused, CommitRun, Store, WorkFails, AssertWritable,
        ConfirmInProgress, Update, Crash, GoTo, Leave, TypeOK
  <2>2. records # {} => records' # {}
    <3>1. request[r].token \in Nat
      BY DEF TypeOK, Call
    <3> QED
      BY <1>3, <3>1, RecordsAfterType
      DEF RequestStep, Arrive, ReconcileRead, ReconcileWrite, Replay, BeginRead,
          BeginGranted, BeginRefused, CommitRun, Store, WorkFails, AssertWritable,
          ConfirmInProgress, Update, Crash, TypeOK
  <2>3. Declares(r)' => records' # {}
    <3>1. CASE Arrive(r)
      <4>1. request'[r].pc \in {"ready", "reconcile"}
        BY <3>1 DEF Arrive, GoTo, TypeOK
      <4>2. request'[r].pc = "reconcile" => records # {}
        BY <3>1 DEF Arrive, GoTo, TypeOK
      <4> QED
        BY <4>1, <4>2, <2>2 DEF Declares
    <3>2. CASE ReconcileRead(r)
      <4>1. Declares(r)
        BY <3>2 DEF ReconcileRead, Declares
      <4>2. UNCHANGED records
        BY <3>2 DEF ReconcileRead
      <4> QED
        BY <4>1, <4>2
    <3>3. CASE BeginRead(r)
      BY <3>3 DEF BeginRead, Declares, TypeOK, Call
    <3>4. CASE BeginGranted(r) \/ CommitRun(r)
      <4>1. request'[r].pc \in {"working", "committed"}
        <5>1. ASSUME BeginGranted(r) PROVE request'[r].pc = "working"
          BY <5>1 DEF BeginGranted, TypeOK, Idle
        <5>2. ASSUME CommitRun(r) PROVE request'[r].pc = "committed"
          BY <5>2 DEF CommitRun, GoTo, TypeOK, Call
        <5> QED
          BY <3>4, <5>1, <5>2
      <4> QED
        BY <4>1 DEF Declares
    <3>5. CASE Store(r)
      <4>1. request[r].token \in Nat
        BY DEF TypeOK, Call
      <4> QED
        BY <3>5, <4>1, RecordsAfterType DEF Store, TypeOK
    <3>6. CASE WorkFails(r)
      BY <3>6 DEF WorkFails, Declares, TypeOK, Call
    <3>7. CASE AssertWritable(r) \/ ConfirmInProgress(r)
      <4>1. \/ request'[r].pc = "idle"
            \/ /\ request'[r].pc \in {"confirm", "update"}
               /\ request[r].pc \in {"assert", "confirm"}
               /\ request'[r].outcome = request[r].outcome
        <5>1. CASE Leave(r)
          BY <5>1 DEF Leave, Idle, TypeOK
        <5>2. CASE AssertWritable(r) /\ GoTo(r, "confirm")
          BY <5>2 DEF AssertWritable, GoTo, TypeOK, Call
        <5>3. CASE ConfirmInProgress(r) /\ GoTo(r, "update")
          BY <5>3 DEF ConfirmInProgress, GoTo, TypeOK, Call
        <5> QED
          BY <3>7, <5>1, <5>2, <5>3 DEF AssertWritable, ConfirmInProgress
      <4> QED
        BY <4>1, <2>2 DEF Declares
    <3>8. CASE ReconcileWrite(r) \/ Replay(r) \/ BeginRefused(r) \/ Update(r) \/ Crash(r)
      <4>1. request'[r] = Idle
        BY <3>8 DEF ReconcileWrite, Replay, BeginRefused, Update, Crash, Leave, TypeOK
      <4> QED
        BY <4>1 DEF Declares, Idle
    <3> QED
      BY <1>3, <3>1, <3>2, <3>3, <3>4, <3>5, <3>6, <3>7, <3>8 DEF RequestStep
  <2>4. \A s \in Request : Declares(s)' => records' # {}
    <3>1. \A s \in Request \ {r} : Declares(s)' => Declares(s)
      BY <2>1 DEF Declares
    <3> QED
      BY <2>2, <2>3, <3>1
  <2>5. DoneFenceHasRecord'
    <3>1. CASE ReconcileWrite(r)
      BY <3>1, <2>2 DEF ReconcileWrite, Declares, DoneFenceHasRecord
    <3>2. CASE BeginGranted(r)
      BY <3>2 DEF BeginGranted, StartedFence, DoneFenceHasRecord
    <3>3. CASE Update(r)
      <4>1. CASE OwnsFence(r) /\ request[r].outcome = "DONE"
        BY <3>3, <4>1, <2>2 DEF Update, Declares, DoneFenceHasRecord
      <4>2. CASE OwnsFence(r) /\ request[r].outcome # "DONE"
        BY <3>3, <4>2 DEF Update, DoneFenceHasRecord, TypeOK, FenceRow
      <4>3. CASE ~OwnsFence(r)
        BY <3>3, <4>3, <2>2 DEF Update, DoneFenceHasRecord
      <4> QED
        BY <4>1, <4>2, <4>3
    <3>4. CASE UNCHANGED fence
      BY <3>4, <2>2 DEF DoneFenceHasRecord
    <3> QED
      BY <1>3, <3>1, <3>2, <3>3, <3>4
      DEF RequestStep, Arrive, ReconcileRead, Replay, BeginRead, BeginRefused, CommitRun,
          Store, WorkFails, AssertWritable, ConfirmInProgress, Crash
  <2> QED
    BY <2>4, <2>5
<1> QED
  BY <1>1, <1>2, <1>3 DEF Next

\* No service ever replays a terminal fence that has no record behind it.
THEOREM DoneFencesHaveRecords == Spec => []DoneFenceHasRecord
<1>1. Init => RecordInv
  BY DEF Init, NoFence, Idle, RecordInv, DoneFenceHasRecord, Declares
<1>2. RecordInv => DoneFenceHasRecord
  BY DEF RecordInv
<1> QED
  BY <1>1, <1>2, RecordInvStep, TypeCorrect, PTL DEF Spec

(***************************************************************************)
(* The verdict a replay is answered with                                   *)
(***************************************************************************)

\* What a step of one request does to the rows, as far as verdicts are
\* concerned: who becomes the mover of the run, who stores, and who declares.
LEMMA VerdictEffects ==
  ASSUME TypeOK, NEW r \in Request, RequestStep(r)
  PROVE  /\ phase' = phase
         /\ \A s \in Request \ {r} : request'[s] = request[s]
         /\ records' = records \/ Store(r)
         /\ run' = run \/ CommitRun(r)
         /\ Stored(r)' => /\ Stored(r) \/ Store(r)
                          /\ request'[r].token = request[r].token
         /\ request'[r].pc = "committed" => CommitRun(r)
         /\ request'[r].pc \in {"reconcile", "adopt"}
              => Reconciles \/ request[r].pc = "reconcile"
         /\ fence'.status = "DONE" =>
              \/ fence' = fence
              \/ ReconcileWrite(r)
              \/ Update(r) /\ OwnsFence(r) /\ Stored(r) /\ fence'.owner = fence.owner
<1>1. phase' = phase
  BY DEF RequestStep, Arrive, ReconcileRead, ReconcileWrite, Replay, BeginRead, BeginGranted,
         BeginRefused, CommitRun, Store, WorkFails, AssertWritable, ConfirmInProgress,
         Update, Crash
<1>2. \A s \in Request \ {r} : request'[s] = request[s]
  BY DEF RequestStep, Arrive, ReconcileRead, ReconcileWrite, Replay, BeginRead, BeginGranted,
         BeginRefused, CommitRun, Store, WorkFails, AssertWritable, ConfirmInProgress,
         Update, Crash, GoTo, Leave, TypeOK
<1>3. records' = records \/ Store(r)
  BY DEF RequestStep, Arrive, ReconcileRead, ReconcileWrite, Replay, BeginRead, BeginGranted,
         BeginRefused, CommitRun, WorkFails, AssertWritable, ConfirmInProgress,
         Update, Crash
<1>4. run' = run \/ CommitRun(r)
  BY DEF RequestStep, Arrive, ReconcileRead, ReconcileWrite, Replay, BeginRead, BeginGranted,
         BeginRefused, Store, WorkFails, AssertWritable, ConfirmInProgress,
         Update, Crash
<1>5. /\ Stored(r)' => /\ Stored(r) \/ Store(r)
                       /\ request'[r].token = request[r].token
      /\ request'[r].pc = "committed" => CommitRun(r)
      /\ request'[r].pc \in {"reconcile", "adopt"}
           => Reconciles \/ request[r].pc = "reconcile"
  <2>1. CASE Leave(r)
    BY <2>1 DEF Leave, Idle, Stored, TypeOK
  <2>2. CASE Arrive(r)
    BY <2>2 DEF Arrive, GoTo, Stored, TypeOK, Call
  <2>3. CASE ReconcileRead(r) \/ BeginRead(r)
    BY <2>1, <2>3 DEF ReconcileRead, BeginRead, Stored, TypeOK, Call
  <2>4. CASE BeginGranted(r)
    BY <2>4 DEF BeginGranted, Idle, Stored, TypeOK, Call
  <2>5. CASE CommitRun(r)
    BY <2>5 DEF CommitRun, GoTo, Stored, TypeOK, Call
  <2>6. CASE Store(r)
    <3>1. PICK o \in OutcomesWithRecord :
            request' = [request EXCEPT ![r] = [@ EXCEPT !.pc = "assert", !.outcome = o]]
      BY <2>6 DEF Store
    <3>2. request'[r] = [request[r] EXCEPT !.pc = "assert", !.outcome = o]
      BY <3>1 DEF TypeOK
    <3> QED
      BY <2>6, <3>2 DEF Stored, TypeOK, Call
  <2>7. CASE WorkFails(r)
    BY <2>7 DEF WorkFails, Stored, TypeOK, Call
  <2>8. CASE AssertWritable(r) /\ GoTo(r, "confirm")
    BY <2>8 DEF AssertWritable, GoTo, Stored, TypeOK, Call
  <2>9. CASE ConfirmInProgress(r) /\ GoTo(r, "update")
    BY <2>9 DEF ConfirmInProgress, GoTo, Stored, TypeOK, Call
  <2> QED
    BY <2>1, <2>2, <2>3, <2>4, <2>5, <2>6, <2>7, <2>8, <2>9
    DEF RequestStep, ReconcileWrite, Replay, BeginRefused, AssertWritable,
        ConfirmInProgress, Update, Crash
<1>6. ASSUME fence'.status = "DONE"
      PROVE  \/ fence' = fence
             \/ ReconcileWrite(r)
             \/ Update(r) /\ OwnsFence(r) /\ Stored(r) /\ fence'.owner = fence.owner
  <2>1. CASE BeginGranted(r)
    BY <1>6, <2>1 DEF BeginGranted, StartedFence
  <2>2. CASE Update(r) /\ OwnsFence(r)
    BY <1>6, <2>2 DEF Update, Stored, TypeOK, FenceRow
  <2> QED
    BY <2>1, <2>2
    DEF RequestStep, Arrive, ReconcileRead, Replay, BeginRead, BeginRefused, CommitRun,
        Store, WorkFails, AssertWritable, ConfirmInProgress, Update, Crash
<1> QED
  BY <1>1, <1>2, <1>3, <1>4, <1>5, <1>6

LEMMA VerdictInvStep == TypeOK /\ VerdictInv /\ [Next]_vars => VerdictInv'
<1> SUFFICES ASSUME TypeOK, VerdictInv, [Next]_vars PROVE VerdictInv'
  OBVIOUS
<1>1. CASE UNCHANGED <<phase, fence, records, run, request>>
  BY <1>1 DEF VerdictInv, ReplayIsTheVerdict, StoredRecordsStay, OnlyTheMoverStores, Stored,
              MovesRun, Reconciles
<1>2. ASSUME NEW r \in Request, RequestStep(r) PROVE VerdictInv'
  <2> USE <1>2, VerdictEffects
  <2>1. /\ MovesRun' = MovesRun /\ Reconciles' = Reconciles
        /\ ~(MovesRun /\ Reconciles) /\ ~(phase = "validation" /\ (MovesRun \/ Reconciles))
    BY DEF MovesRun, Reconciles
  <2>2. /\ CommitRun(r) => /\ run' \in {"CLOSED", "CONTAINED_RECORDED"}
                           /\ run' = "CLOSED" => run = "OPEN"
                           /\ request'[r].pc = "committed"
                           /\ fence' = fence
        /\ run' \in {"OPEN", "CLOSED"} => run \in {"OPEN", "CLOSED"}
    BY DEF CommitRun, GoTo, TypeOK, RunState, Call
  <2>3. /\ Store(r) /\ MovesRun => /\ request[r].pc = "committed"
                                   /\ records' = {request[r].token}
        /\ Store(r) /\ phase = "validation" => records' = records \cup {request[r].token}
        /\ Store(r) => fence' = fence /\ run' = run
    BY DEF Store, ReadyToStore, RecordsAfter, MovesRun
  <2>4. ReconcileWrite(r) => Reconciles
    BY DEF ReconcileWrite, VerdictInv
  <2>5. \A s \in Request \ {r} : Stored(s)' => Stored(s)
    BY DEF Stored
  <2>6. StoredRecordsStay'
    <3> SUFFICES ASSUME phase = "validation" \/ (MovesRun /\ run' \in {"OPEN", "CLOSED"}),
                        NEW s \in Request, Stored(s)'
                 PROVE  request'[s].token \in records'
      BY <2>1 DEF StoredRecordsStay
    <3>1. CASE ~Store(r)
      BY <3>1, <2>1, <2>2, <2>5 DEF VerdictInv, StoredRecordsStay
    <3>2. CASE Store(r) /\ s = r
      BY <3>2, <2>3
    <3>3. CASE Store(r) /\ s # r /\ phase = "validation"
      BY <3>3, <2>3, <2>5 DEF VerdictInv, StoredRecordsStay
    <3>4. CASE Store(r) /\ s # r /\ MovesRun
      <4>1. Stored(s) /\ request[r].pc = "committed"
        BY <3>4, <2>3, <2>5
      <4>2. run \in {"OPEN", "CLOSED"}
        BY <3>4, <2>2, <2>1
      <4> QED
        BY <3>4, <4>1, <4>2 DEF VerdictInv, OnlyTheMoverStores
    <3> QED
      BY <3>1, <3>2, <3>3, <3>4
  <2>7. OnlyTheMoverStores'
    <3>1. ASSUME MovesRun, run' = "OPEN"
          PROVE  /\ fence'.status # "DONE"
                 /\ \A s \in Request : ~Stored(s)' /\ request'[s].pc # "committed"
      <4>1. run = "OPEN" /\ ~CommitRun(r)
        BY <3>1, <2>2
      <4>2. ~Store(r)
        BY <3>1, <4>1, <2>3 DEF VerdictInv, OnlyTheMoverStores
      <4> QED
        BY <3>1, <4>1, <4>2, <2>1, <2>4, <2>5 DEF VerdictInv, OnlyTheMoverStores
    <3>2. ASSUME MovesRun, run' = "CLOSED", NEW p \in Request, NEW q \in Request,
                 request'[p].pc = "committed"
          PROVE  /\ fence'.status # "DONE"
                 /\ ~Stored(q)'
                 /\ request'[q].pc = "committed" => q = p
      <4>1. CASE CommitRun(r)
        <5>1. run = "OPEN" /\ fence' = fence /\ request'[r].pc = "committed"
          BY <3>2, <4>1, <2>2
        <5>2. fence.status # "DONE" /\ \A s \in Request : ~Stored(s) /\ request[s].pc # "committed"
          BY <3>2, <5>1 DEF VerdictInv, OnlyTheMoverStores
        <5>3. \A s \in Request : request'[s].pc = "committed" => s = r
          BY <5>2
        <5>4. ~Stored(r)'
          BY <5>1 DEF Stored
        <5> QED
          BY <3>2, <5>1, <5>2, <5>3, <5>4, <2>5
      <4>2. CASE ~CommitRun(r)
        <5>1. run = "CLOSED" /\ p # r /\ request[p].pc = "committed"
          BY <3>2, <4>2
        <5>2. /\ fence.status # "DONE"
              /\ \A s \in Request : ~Stored(s) /\ (request[s].pc = "committed" => s = p)
          BY <3>2, <5>1 DEF VerdictInv, OnlyTheMoverStores
        <5>3. ~Store(r)
          BY <3>2, <5>1, <5>2, <2>3
        <5>4. fence'.status # "DONE"
          BY <3>2, <5>2, <2>1, <2>4
        <5> QED
          BY <4>2, <5>2, <5>3, <5>4, <2>5
      <4> QED
        BY <4>1, <4>2
    <3> QED
      BY <3>1, <3>2, <2>1 DEF OnlyTheMoverStores
  <2>8. ReplayIsTheVerdict'
    <3> SUFFICES ASSUME fence'.status = "DONE",
                        phase = "validation" \/ MovesRun, run' \in {"OPEN", "CLOSED"}
                 PROVE  fence'.owner.token \in records'
      BY DEF ReplayIsTheVerdict, MovesRun
    <3>1. CASE fence' = fence
      <4>1. fence.owner.token \in records
        BY <3>1, <2>2 DEF VerdictInv, ReplayIsTheVerdict, MovesRun
      <4>2. ~(Store(r) /\ MovesRun)
        BY <3>1, <2>2, <2>3 DEF VerdictInv, OnlyTheMoverStores
      <4> QED
        BY <3>1, <4>1, <4>2, <2>3
    <3>2. CASE Update(r) /\ OwnsFence(r) /\ Stored(r) /\ fence'.owner = fence.owner
      <4>1. fence'.owner.token = request[r].token
        BY <3>2 DEF OwnsFence, MyOwnerToken
      <4>2. request[r].token \in records
        BY <3>2, <2>2 DEF VerdictInv, StoredRecordsStay
      <4>3. records' = records
        BY <3>2 DEF Update
      <4> QED
        BY <4>1, <4>2, <4>3
    <3> QED
      BY <3>1, <3>2, <2>1, <2>4
  <2>9. \A s \in Request : request'[s].pc \in {"reconcile", "adopt"} => Reconciles'
    BY <2>1 DEF VerdictInv
  <2> QED
    BY <2>6, <2>7, <2>8, <2>9 DEF VerdictInv
<1> QED
  BY <1>1, <1>2 DEF Next, ExpireLease, vars

\* Whoever replays a terminal fence of validation, execution or verification
\* finds the record of the very attempt the fence names, unless the run was
\* contained.
THEOREM ReplaysAreTheVerdict == Spec => []ReplayIsTheVerdict
<1>1. Init => VerdictInv
  BY DEF Init, NoFence, Idle, VerdictInv, ReplayIsTheVerdict, StoredRecordsStay,
         OnlyTheMoverStores, Stored
<1>2. VerdictInv => ReplayIsTheVerdict
  BY DEF VerdictInv
<1> QED
  BY <1>1, <1>2, VerdictInvStep, TypeCorrect, PTL DEF Spec

(***************************************************************************)
(* The coordinator implements FencingContract                              *)
(***************************************************************************)

LEMMA UnsettledStep ==
  TypeOK /\ TypeOK' /\ FenceInv /\ HoldersAreUnsettled /\ [Next]_vars
    => HoldersAreUnsettled'
<1> SUFFICES ASSUME TypeOK, TypeOK', FenceInv, HoldersAreUnsettled, [Next]_vars,
                    NEW s \in Request, Inside(s)', OwnsFence(s)'
             PROVE  fence'.status = "IN_PROGRESS"
  BY DEF HoldersAreUnsettled
<1>1. CASE UNCHANGED <<fence, request>>
  BY <1>1 DEF HoldersAreUnsettled, Inside, OwnsFence, MyOwnerToken
<1>2. ASSUME NEW r \in Request, BeginGranted(r) PROVE fence'.status = "IN_PROGRESS"
  BY <1>2 DEF BeginGranted, StartedFence
<1>3. ASSUME NEW r \in Request, RequestStep(r), ~BeginGranted(r)
      PROVE  fence'.status = "IN_PROGRESS"
  <2>1. Inside(s) /\ request'[s].token = request[s].token
    BY <1>3, QuietCall
  <2>2. request[s].token \in 1 .. lease.token /\ lease.token \in Nat
    BY <2>1 DEF FenceInv, HeldTokensWereIssued, TypeOK, LeaseRow
  <2>3. CASE ReconcileWrite(r)
    <3>1. fence'.owner.token = 0
      BY <2>3 DEF ReconcileWrite, AdoptedFence
    <3>2. fence'.owner.token = request'[s].token
      BY DEF OwnsFence, MyOwnerToken
    <3> QED
      BY <2>1, <2>2, <3>1, <3>2
  <2>4. CASE Update(r)
    <3>1. s # r
      BY <2>4 DEF Update, Leave, Idle, Inside, TypeOK
    <3>2. fence'.owner = fence.owner
      BY <2>4 DEF Update, TypeOK, FenceRow
    <3>3. OwnsFence(s)
      BY <2>1, <3>2 DEF OwnsFence, MyOwnerToken
    <3>4. Inside(r)
      BY <2>4 DEF Update, Inside
    <3>5. ~OwnsFence(r)
      BY <2>1, <3>1, <3>3, <3>4 DEF OwnsFence, MyOwnerToken, FenceInv, TokensAreExclusive
    <3> QED
      BY <2>1, <2>4, <3>3, <3>5 DEF Update, HoldersAreUnsettled
  <2>5. CASE UNCHANGED fence
    <3>1. OwnsFence(s)
      BY <2>1, <2>5 DEF OwnsFence, MyOwnerToken
    <3> QED
      BY <2>1, <2>5, <3>1 DEF HoldersAreUnsettled
  <2> QED
    BY <1>3, <2>3, <2>4, <2>5
    DEF RequestStep, Arrive, ReconcileRead, Replay, BeginRead, BeginRefused, CommitRun,
        Store, WorkFails, AssertWritable, ConfirmInProgress, Crash
<1> QED
  BY <1>1, <1>2, <1>3 DEF Next, ExpireLease, vars

\* A step of the coordinator is a grant, a settlement or an adoption of the
\* contract, or changes nothing the contract speaks of.
LEMMA ContractStep ==
  TypeOK /\ FenceInv /\ HoldersAreUnsettled /\ [Next]_vars
    => [Contract!Next]_(Contract!vars)
<1> SUFFICES ASSUME TypeOK, FenceInv, HoldersAreUnsettled, [Next]_vars
             PROVE  [Contract!Next]_(Contract!vars)
  OBVIOUS
<1> USE DEF Contract!vars
<1>1. CASE UNCHANGED <<lease, fence>>
  BY <1>1
<1>2. CASE ExpireLease
  BY <1>2, ExpiredType DEF ExpireLease, TypeOK
<1>3. ASSUME NEW r \in Request, ReconcileWrite(r) PROVE Contract!Next
  BY <1>3 DEF ReconcileWrite, AdoptedFence, Contract!Next, Contract!Adopt
<1>4. ASSUME NEW r \in Request, BeginGranted(r) PROVE Contract!Next
  <2>1. home[r] \in Owner /\ lease \in LeaseRow
    BY PhaseFenceAssumption DEF TypeOK
  <2>2. lease'.token = lease.token + 1 /\ lease'.owner = home[r]
    BY <1>4, <2>1, AcquiredType DEF BeginGranted
  <2>3. fence'.status = "IN_PROGRESS"
    BY <1>4 DEF BeginGranted, StartedFence
  <2>4. Contract!Grant(home[r])
    BY <2>2, <2>3 DEF Contract!Grant, Contract!Open
  <2> QED
    BY <2>1, <2>4 DEF Contract!Next
<1>5. ASSUME NEW r \in Request, Update(r), OwnsFence(r) PROVE Contract!Next
  <2> DEFINE o == request[r].outcome
  <2>1. o \in {"DONE", "FAILED"} /\ fence' = [fence EXCEPT !.status = o]
    BY <1>5 DEF Update, TypeOK, Call
  <2>2. fence'.status = o /\ fence'.owner = fence.owner
    BY <2>1 DEF TypeOK, FenceRow
  <2>3. Inside(r) /\ fence.owner.token = request[r].token
    BY <1>5 DEF Update, OwnsFence, MyOwnerToken, Inside
  <2>8. fence.status = "IN_PROGRESS"
    BY <1>5, <2>3 DEF HoldersAreUnsettled
  <2>4. request[r].token \in 1 .. lease.token /\ lease.token \in Nat
    BY <2>3 DEF FenceInv, HeldTokensWereIssued, TypeOK, LeaseRow
  <2>5. fence.owner.token = lease.token /\ lease.token > 0
    BY <2>3, <2>4 DEF FenceInv, FenceFollowsLease
  <2>6. UNCHANGED lease
    BY <1>5 DEF Update
  <2>7. Contract!Settle(o)
    BY <2>1, <2>2, <2>5, <2>6, <2>8 DEF Contract!Settle, Contract!Open
  <2> QED
    BY <2>1, <2>7 DEF Contract!Next
<1> QED
  BY <1>1, <1>2, <1>3, <1>4, <1>5
  DEF Next, RequestStep, Arrive, ReconcileRead, Replay, BeginRead, BeginRefused, CommitRun,
      Store, WorkFails, AssertWritable, ConfirmInProgress, Update, Crash, vars

\* The abstract specification holds of the code's statements: what a phase's
\* fence records is always the verdict of its newest grant, or was adopted.
THEOREM CoordinatorImplementsContract == Spec => ImplementsContract
<1>1. Init => Contract!Init
  BY DEF Init, NoLease, NoFence, Contract!Init, Contract!Open
<1>2. Init => HoldersAreUnsettled
  BY DEF Init, Idle, HoldersAreUnsettled, Inside
<1> QED
  BY <1>1, <1>2, UnsettledStep, ContractStep, TypeCorrect, FenceInvariant, PTL
  DEF Spec, ImplementsContract, Contract!Spec

(***************************************************************************)
(* Attempts                                                                *)
(***************************************************************************)

\* A begin that would be granted has read the attempt it replaces, unless its own
\* process was let in meanwhile.
LEMMA AttemptInvStep ==
  TypeOK /\ HoldersAreUnsettled /\ AttemptInv /\ [Next]_vars => AttemptInv'
<1> SUFFICES ASSUME TypeOK, HoldersAreUnsettled, AttemptInv, [Next]_vars PROVE AttemptInv'
  OBVIOUS
<1> USE DEF AttemptInv
<1>0. /\ lease.token \in Nat /\ lease \in LeaseRow
      /\ \A r \in Request : request[r].expiredGrant \in Nat /\ home[r] \in Owner
  BY PhaseFenceAssumption DEF TypeOK, LeaseRow, Call
<1>1. CASE UNCHANGED <<lease, fence, request>>
  BY <1>1 DEF ReadsAreCurrent, MayBegin
<1>2. CASE ExpireLease
  <2>1. /\ lease'.token = lease.token /\ lease'.owner = lease.owner
        /\ lease'.status = lease.status /\ lease'.expired /\ ~lease.expired
        /\ lease.status = "HELD"
    BY <1>2, <1>0, ExpiredType DEF ExpireLease, LiveHeld, Expired, LeaseRow
  <2>2. ASSUME NEW r \in Request, request[r].pc = "begun", MayBegin(r)'
        PROVE  MayBegin(r)
    <3>1. request' = request
      BY <1>2 DEF ExpireLease
    <3>2. lease.token > 0
      BY <1>0, <1>2, <2>1 DEF ExpireLease, LiveHeld
    <3>3. request[r].expiredGrant # lease.token
      BY <2>1, <2>2, <3>2 DEF ReadsAreCurrent
    <3>4. lease'.owner = home[r]
      BY <2>1, <2>2, <3>1, <3>3 DEF MayBegin, CanAcquire
    <3> QED
      BY <2>1, <3>4 DEF MayBegin, CanAcquire
  <2>3. ReadsAreCurrent'
    BY <1>2, <2>1, <2>2 DEF ReadsAreCurrent, ExpireLease
  <2> QED
    BY <2>1, <2>3
<1>3. ASSUME NEW r \in Request, BeginGranted(r) PROVE AttemptInv'
  <2>1. /\ lease'.token = lease.token + 1 /\ lease'.owner = home[r]
        /\ lease'.status = "HELD" /\ ~lease'.expired
    BY <1>0, <1>3, AcquiredType DEF BeginGranted, Acquired
  <2>2. request'[r].pc = "working" /\ \A s \in Request \ {r} : request'[s] = request[s]
    BY <1>3 DEF BeginGranted, Idle, TypeOK
  <2>3. ASSUME NEW s \in Request, request'[s].pc = "begun"
        PROVE  /\ s # r /\ request'[s] = request[s]
               /\ request[s].expiredGrant < lease'.token
    BY <1>0, <2>1, <2>2, <2>3 DEF ReadsAreCurrent
  <2>4. ASSUME NEW s \in Request, request'[s].pc = "begun"
        PROVE  MayBegin(s)' => lease'.owner = home[s]
    BY <2>1, <2>3, <2>4, <1>0 DEF MayBegin, CanAcquire
  <2> QED
    BY <1>0, <2>1, <2>3, <2>4 DEF ReadsAreCurrent
<1>4. ASSUME NEW r \in Request, RequestStep(r), ~BeginGranted(r) PROVE AttemptInv'
  <2>1. lease' = lease
    BY <1>4 DEF RequestStep, Arrive, ReconcileRead, ReconcileWrite, Replay, BeginRead,
        BeginRefused, CommitRun, Store, WorkFails, AssertWritable, ConfirmInProgress,
        Update, Crash
  <2>2. \A s \in Request \ {r} : request'[s] = request[s]
    BY <1>4, VerdictEffects
  <2>3. request'[r].pc = "begun" => BeginRead(r)
    <3>1. CASE Leave(r)
      BY <3>1 DEF Leave, Idle, TypeOK
    <3>2. CASE \E pc \in {"ready", "reconcile", "committed", "confirm", "update"} : GoTo(r, pc)
      BY <3>2 DEF GoTo, TypeOK, Call
    <3>3. CASE ReconcileRead(r) \/ WorkFails(r)
      BY <3>1, <3>3 DEF ReconcileRead, WorkFails, TypeOK, Call
    <3>4. CASE Store(r)
      BY <3>4 DEF Store, TypeOK, Call
    <3> QED
      BY <1>4, <3>1, <3>2, <3>3, <3>4
      DEF RequestStep, Arrive, ReconcileWrite, Replay, BeginRefused, CommitRun,
          AssertWritable, ConfirmInProgress, Update, Crash
  <2>4. fence'.status = "DONE" \/ fence'.attempt = fence.attempt
    <3>1. CASE ReconcileWrite(r)
      BY <3>1 DEF ReconcileWrite, AdoptedFence
    <3>2. CASE Update(r)
      BY <3>2 DEF Update, TypeOK, FenceRow
    <3>3. CASE UNCHANGED fence
      BY <3>3
    <3> QED
      BY <1>4, <3>1, <3>2, <3>3
      DEF RequestStep, Arrive, ReconcileRead, Replay, BeginRead, BeginRefused, CommitRun,
          Store, WorkFails, AssertWritable, ConfirmInProgress, Crash
  <2>5. fence.status = "DONE" => fence'.status = "DONE"
    <3>1. CASE Update(r)
      <4>1. Inside(r)
        BY <3>1 DEF Update, Inside
      <4> QED
        BY <3>1, <4>1 DEF Update, HoldersAreUnsettled
    <3>2. CASE ReconcileWrite(r)
      BY <3>2 DEF ReconcileWrite, AdoptedFence
    <3>3. CASE UNCHANGED fence
      BY <3>3
    <3> QED
      BY <1>4, <3>1, <3>2, <3>3
      DEF RequestStep, Arrive, ReconcileRead, Replay, BeginRead, BeginRefused, CommitRun,
          Store, WorkFails, AssertWritable, ConfirmInProgress, Crash
  <2>6. ASSUME BeginRead(r)
        PROVE  /\ request'[r].expiredGrant = ExpiredGrant(lease)
               /\ request'[r].seenAttempt = fence.attempt
               /\ fence' = fence
    BY <2>6 DEF BeginRead, TypeOK, Call
  <2>7. ASSUME NEW s \in Request, request'[s].pc = "begun"
        PROVE  /\ request'[s].expiredGrant <= lease'.token
               /\ (lease'.token > 0 /\ request'[s].expiredGrant = lease'.token) => lease'.expired
               /\ MayBegin(s)' => \/ fence'.status = "DONE"
                                  \/ fence'.attempt = request'[s].seenAttempt
                                  \/ lease'.owner = home[s]
    <3>1. CASE s = r
      <4>1. ExpiredGrant(lease) <= lease.token
        BY <1>0, ExpiredType
      <4>2. (lease.token > 0 /\ ExpiredGrant(lease) = lease.token) => lease.expired
        BY <1>0 DEF ExpiredGrant
      <4> QED
        BY <2>1, <2>3, <2>6, <2>7, <3>1, <4>1, <4>2
    <3>2. CASE s # r
      <4>1. request'[s] = request[s] /\ (MayBegin(s)' => MayBegin(s))
        BY <2>1, <2>2, <3>2 DEF MayBegin
      <4> QED
        BY <2>1, <2>4, <2>5, <2>7, <4>1 DEF ReadsAreCurrent
    <3> QED
      BY <3>1, <3>2
  <2> QED
    BY <2>1, <2>7 DEF ReadsAreCurrent
<1> QED
  BY <1>1, <1>2, <1>3, <1>4 DEF Next, vars

\* A fence that is open or has failed is that of the newest grant: only a
\* reconciliation, which leaves it DONE, writes another token.
LEMMA OpenFenceOwnerStep ==
  ASSUME TypeOK, HoldersAreUnsettled, FenceInv, OpenFenceIsGranted, [Next]_vars
  PROVE  OpenFenceIsGranted'
<1>1. CASE UNCHANGED fence
  BY <1>1 DEF OpenFenceIsGranted
<1>2. ASSUME NEW r \in Request, BeginGranted(r) PROVE OpenFenceIsGranted'
  <2>1. fence'.owner.token = lease.token + 1 /\ lease.token \in Nat
    BY <1>2 DEF BeginGranted, StartedFence, TypeOK, LeaseRow
  <2> QED
    BY <2>1 DEF OpenFenceIsGranted
<1>3. ASSUME NEW r \in Request, ReconcileWrite(r) PROVE OpenFenceIsGranted'
  BY <1>3 DEF ReconcileWrite, AdoptedFence, OpenFenceIsGranted
<1>4. ASSUME NEW r \in Request, Update(r), ~UNCHANGED fence PROVE OpenFenceIsGranted'
  <2>1. OwnsFence(r) /\ Inside(r) /\ fence'.owner = fence.owner
    BY <1>4 DEF Update, Inside, TypeOK, FenceRow
  <2>2. fence.owner.token = request[r].token /\ request[r].token # 0
    BY <2>1 DEF OwnsFence, MyOwnerToken, FenceInv, HeldTokensWereIssued, TypeOK, LeaseRow
  <2> QED
    BY <2>1, <2>2 DEF OpenFenceIsGranted
<1> QED
  BY <1>1, <1>2, <1>3, <1>4
  DEF Next, RequestStep, Arrive, ReconcileRead, Replay, BeginRead, BeginRefused, CommitRun,
      Store, WorkFails, AssertWritable, ConfirmInProgress, Crash, ExpireLease, vars

\* A begin that takes the fence over from another process counts one up from the
\* attempt it replaces, however old its read of the fence is when it commits.
THEOREM TakeoversCountUp == Spec => TakeoverIncrementsAttempt
<1>1. Init => AttemptInv /\ HoldersAreUnsettled /\ OpenFenceIsGranted
  BY DEF Init, NoLease, NoFence, Idle, AttemptInv, ReadsAreCurrent, HoldersAreUnsettled, Inside,
         OpenFenceIsGranted
<1>2. ASSUME AttemptInv, FenceInv, OpenFenceIsGranted, NEW r \in Request, BeginGranted(r),
             fence.status \in {"FAILED", "IN_PROGRESS"}, fence.owner.instance # home[r]
      PROVE  fence'.attempt = fence.attempt + 1
  <2>1. lease.owner # home[r]
    BY <1>2 DEF FenceInv, FenceFollowsLease, OpenFenceIsGranted
  <2> QED
    BY <1>2, <2>1 DEF BeginGranted, StartedFence, AttemptInv, ReadsAreCurrent
<1>3. AttemptInv /\ FenceInv /\ OpenFenceIsGranted /\ [Next]_vars
        => [\A r \in Request :
              /\ BeginGranted(r)
              /\ fence.status \in {"FAILED", "IN_PROGRESS"}
              /\ fence.owner.instance # home[r]
              => fence'.attempt = fence.attempt + 1]_vars
  BY <1>2
<1> QED
  BY <1>1, <1>3, AttemptInvStep, UnsettledStep, OpenFenceOwnerStep, TypeCorrect, FenceInvariant, PTL
  DEF Spec, TakeoverIncrementsAttempt
-----------------------------------------------------------------------------
(***************************************************************************)
(* Execution                                                               *)
(***************************************************************************)

Step == E!Ordinary \cup E!Rollback

(***************************************************************************)
(* The invariant                                                           *)
(***************************************************************************)

Untouched(k) == step[k] = "ABSENT" /\ actuations[k] = 0
StepsClosed  == \A k \in Step : step[k] \notin {"RESERVED", "RUNNING"}

\* In the loop, or at what an execution does right after it.
Entered(c) == E!InLoop(c) \/ (call[c].phase = "execution" /\ call[c].pc \in {"store", "mark"})

\* The loop is behind the run.
Over == state # "APPROVED" /\ \A c \in Caller : ~E!InLoop(c)

InPipeline(c) == call[c].pc \in {"reserve", "running", "actuate", "complete", "settle", "fail"}

\* What a result of this status says of the steps and the run.
Tells(status) ==
  CASE status = "SUCCEEDED" -> \A i \in E!Ordinary : step[i] = "SUCCEEDED"
    [] status = "PARTIAL" -> /\ \E i \in Reversible : step[i] = "FAILED"
                             /\ \A k \in E!Rollback : step[k] = "SUCCEEDED"
    [] status = "CONTAINED" -> state = "CONTAINED"
    [] OTHER -> TRUE

Last(c) == [token |-> call[c].token, status |-> E!Concluded(c)]

Recorded(r) ==
  r = E!NoResult \/ (r.token # 0 /\ Tells(r.status) /\ \E i \in DOMAIN attempts : attempts[i] = r)

HasAttempt(token) == \E i \in DOMAIN attempts : attempts[i].token = token
Verified(token) ==
  \E i \in DOMAIN attempts :
    attempts[i].token = token /\ attempts[i].status \in {"SUCCEEDED", "PARTIAL"}

\* Which phase a call is in, what it holds, and what it has not done yet.
PhaseInv(c) ==
  /\ call[c].pc \in {"preflight", "attempt", "start"} \/ E!InLoop(c) =>
       call[c].phase = "execution" /\ call[c].token # 0
  /\ call[c].pc \in {"verifying", "assess", "record", "escalate"} => call[c].phase = "verification"
  /\ call[c].phase = "execution"
     /\ call[c].pc \in {"begin", "acquire", "preflight", "attempt", "start", "ledger"} =>
       call[c].failed = 0 /\ ~call[c].contained
  /\ call[c].pc = "start" \/ E!InLoop(c) => HasAttempt(call[c].token)

\* The steps before the one a call is at have SUCCEEDED, those behind it are untouched.
Position(c) ==
  LET k == call[c].key IN
  /\ k \in Step
  /\ k \in E!Ordinary =>
       /\ call[c].failed = 0
       /\ \A i \in E!Ordinary : (i < k => step[i] = "SUCCEEDED") /\ (k < i => Untouched(i))
       /\ \A i \in E!Rollback : Untouched(i)
  /\ k \in E!Rollback =>
       /\ call[c].failed \in Reversible /\ step[call[c].failed] = "FAILED"
       /\ \A i \in E!Rollback : (i < k => step[i] = "SUCCEEDED") /\ (k < i => Untouched(i))

LoopInv(c) ==
  /\ E!InLoop(c) /\ call[c].pc # "finish" => ~call[c].contained
  /\ call[c].pc = "ledger" => \A k \in Step : Untouched(k)
  /\ InPipeline(c) => Position(c)
  /\ call[c].pc = "reserve" => Untouched(call[c].key)
  /\ call[c].pc \in {"running", "actuate"} => actuations[call[c].key] = 0
  /\ call[c].pc = "settle" => step[call[c].key] = "SUCCEEDED"
  /\ call[c].pc = "fail" => call[c].key \in E!Ordinary
  /\ call[c].pc = "rollback" => /\ call[c].failed \in E!Ordinary /\ step[call[c].failed] = "FAILED"
                                /\ \A i \in E!Rollback : Untouched(i)

EndInv(c) ==
  /\ call[c].pc = "finish" => Tells(E!Concluded(c))
  /\ call[c].phase = "execution" =>
       /\ call[c].pc = "store" => memory[c].result = Last(c) /\ call[c].token # 0
       /\ call[c].pc = "mark" => result = Last(c) /\ call[c].token # 0

VerifyInv(c) ==
  call[c].phase = "verification" =>
    /\ Over /\ StepsClosed
    /\ call[c].verified # 0
    /\ ~call[c].contained => Verified(call[c].verified)
    /\ call[c].pc = "record" =>
         call[c].outcome # "NONE" /\ (call[c].contained => call[c].outcome # "VERIFIED_SUCCESS")
    /\ call[c].pc \in {"escalate", "store"} => call[c].outcome # "NONE"
    /\ call[c].pc = "mark" => verdict # "NONE"

CallInv(c) == PhaseInv(c) /\ LoopInv(c) /\ EndInv(c) /\ VerifyInv(c)

\* One call enters the loop, and it does so once.
EntryInv ==
  /\ \A c, d \in Caller : Entered(c) /\ Entered(d) => c = d
  /\ state = "APPROVED" => /\ \A c \in Caller : ~Entered(c)
                         /\ \A k \in Step : Untouched(k)

StepInv == (\A k \in Step : actuations[k] <= 1) /\ E!FailureStopsTheRest

\* Results are those of attempts, and come when the loop is over.
ResultInv ==
  /\ Recorded(result)
  /\ \A c \in Caller : Recorded(memory[c].result)
  /\ result # E!NoResult \/ (\E c \in Caller : memory[c].result # E!NoResult) => Over

FencesInv ==
  /\ fences["execution"].status \in {"COMPLETED", "CONTAINED"} =>
       /\ state # "APPROVED" /\ \A c \in Caller : ~Entered(c)
       /\ result.status = IF fences["execution"].status = "COMPLETED" THEN "SUCCEEDED" ELSE "CONTAINED"
  /\ fences["verification"].status = "DECIDED" => verdict # "NONE"

CompletionInv ==
  /\ (completed # 0) <=> (state = "COMPLETED")
  /\ (state = "COMPLETED") <=> (\E i \in DOMAIN outcomes : outcomes[i] = "VERIFIED_SUCCESS")
  /\ completed # 0 => Over /\ StepsClosed /\ Verified(completed)

LeaseInv == \A p \in E!Phase : leases[p].token \in E!Token

ExecutionInv ==
  /\ \A c \in Caller : CallInv(c)
  /\ EntryInv /\ StepInv /\ ResultInv /\ FencesInv /\ LeaseInv /\ CompletionInv

ExecutionIInv == E!TypeOK /\ ExecutionInv

(***************************************************************************)
(* What the constants and the types give                                   *)
(***************************************************************************)

LEMMA Constants ==
  /\ Steps \in Nat \ {0} /\ Compensating \in Nat /\ MaxTokens \in Nat /\ MaxFaults \in Nat
         /\ Step = 1 .. Steps + Compensating /\ E!Ordinary \cap E!Rollback = {}
         /\ Steps \in E!Ordinary /\ 1 \in E!Ordinary /\ 1 \in Step
         /\ E!Ordinary \subseteq Step /\ E!Rollback \subseteq Step /\ Reversible \subseteq E!Ordinary
         /\ (Reversible # {} => Steps + 1 \in E!Rollback)
         /\ Step \subseteq 0 .. Steps + Compensating /\ E!Ordinary \subseteq 0 .. Steps
BY RunAssumption DEF Step, E!Ordinary, E!Rollback

LEMMA RestTypes ==
  /\ E!Idle \in E!CallState /\ E!Idle.pc = "idle" /\ E!Idle.phase = "execution"
         /\ E!NoResult \in E!Result /\ E!NoResult.token = 0 /\ E!NoResult.status = "NONE"
         /\ E!Blank \in E!Memory /\ E!Blank.result = E!NoResult
BY Constants DEF E!Idle, E!CallState, E!PC, E!Phase, E!Token, E!RunState, E!Outcome, E!NoResult, E!Result, E!Blank, E!Memory

\* What a call works with.
LEMMA CallTypes ==
  ASSUME E!TypeOK, NEW c \in Caller
  PROVE  /\ call[c] \in E!CallState /\ call \in [Caller -> E!CallState]
         /\ call[c].pc \in E!PC /\ call[c].phase \in E!Phase
         /\ call[c].grant \in E!Token /\ call[c].token \in E!Token
         /\ call[c].key \in 0 .. Steps + Compensating /\ call[c].failed \in 0 .. Steps
         /\ call[c].contained \in BOOLEAN /\ call[c].run \in E!RunState /\ call[c].verified \in E!Token
         /\ call[c].outcome \in E!Outcome \cup {"NONE"}
         /\ memory[c] \in E!Memory /\ memory[c].result \in E!Result
         /\ memory[c].rollbacks \in 0 .. 1 /\ memory[c].verified \in BOOLEAN
BY DEF E!TypeOK, E!CallState, E!Memory

(***************************************************************************)
(* How a call goes on                                                      *)
(***************************************************************************)

\* Nothing but the place changes.
LEMMA Going ==
  ASSUME E!TypeOK, NEW c \in Caller, NEW p \in E!PC, E!Goto(c, p)
  PROVE  /\ call' \in [Caller -> E!CallState]
         /\ \A d \in Caller \ {c} : call'[d] = call[d]
         /\ call'[c].pc = p /\ call'[c].phase = call[c].phase /\ call'[c].token = call[c].token
         /\ call'[c].key = call[c].key /\ call'[c].failed = call[c].failed
         /\ call'[c].contained = call[c].contained /\ call'[c].run = call[c].run
         /\ call'[c].verified = call[c].verified /\ call'[c].outcome = call[c].outcome
BY CallTypes DEF E!Goto, E!CallState

LEMMA Leaving ==
  ASSUME E!TypeOK, NEW c \in Caller, E!Leave(c)
  PROVE  /\ call' \in [Caller -> E!CallState]
         /\ \A d \in Caller \ {c} : call'[d] = call[d]
         /\ call'[c] = E!Idle
         /\ CallInv(c)' /\ ~Entered(c)' /\ ~E!InLoop(c)'
<1>1. /\ call' \in [Caller -> E!CallState]
      /\ \A d \in Caller \ {c} : call'[d] = call[d]
      /\ call'[c] = E!Idle
  BY CallTypes, RestTypes DEF E!Leave
<1>2. call'[c].pc = "idle" /\ call'[c].phase = "execution"
  BY <1>1, RestTypes
<1> QED
  BY <1>1, <1>2 DEF CallInv, PhaseInv, LoopInv, EndInv, VerifyInv, InPipeline, Entered, E!InLoop

\* The catch block needs little.
LEMMA ToFailing ==
  ASSUME E!TypeOK, NEW c \in Caller, VerifyInv(c), call'[c].pc = "failing",
         call'[c].phase = call[c].phase, call'[c].verified = call[c].verified,
         call'[c].contained = call[c].contained,
         call[c].phase = "verification" =>
           Over' /\ StepsClosed' /\ (\A t \in E!Token : Verified(t) => Verified(t)')
  PROVE  CallInv(c)' /\ ~Entered(c)' /\ ~E!InLoop(c)'
<1>1. call[c].verified \in E!Token
  BY CallTypes
<1>2. VerifyInv(c)'
  BY <1>1 DEF VerifyInv, Verified
<1> QED
  BY <1>2 DEF CallInv, PhaseInv, LoopInv, EndInv, InPipeline, Entered, E!InLoop

\* A call that does what no other call can see, or that is the one in the loop.
LEMMA OthersKeep ==
  ASSUME ExecutionIInv, NEW c \in Caller,
         \A d \in Caller \ {c} : call'[d] = call[d] /\ memory'[d] = memory[d],
         E!InLoop(c)' => E!InLoop(c) \/ state = "APPROVED",
         state # "APPROVED" => state' # "APPROVED",
         state = "CONTAINED" => state' = "CONTAINED",
         \A t \in E!Token : HasAttempt(t) => HasAttempt(t)',
         Over => \A t \in E!Token : Verified(t) => Verified(t)',
         verdict # "NONE" => verdict' # "NONE",
         UNCHANGED E!stepVars \/ E!InLoop(c),
         result' = result \/ Entered(c)
  PROVE  (\A d \in Caller \ {c} : CallInv(d)') /\ (Over => Over') /\ (Over /\ StepsClosed => StepsClosed')
<1>1. Over => Over'
  BY DEF Over, E!InLoop
<1>2. Over /\ StepsClosed => StepsClosed'
  BY DEF Over, StepsClosed, E!stepVars
<1>3. ASSUME NEW d \in Caller \ {c} PROVE CallInv(d)'
  <2>1. call'[d] = call[d] /\ memory'[d] = memory[d] /\ CallInv(d) /\ E!TypeOK
    BY DEF ExecutionIInv, ExecutionInv
  <2>2. call[d].token \in E!Token /\ call[d].verified \in E!Token
    BY <2>1, CallTypes
  <2>3. E!InLoop(d)' <=> E!InLoop(d)
    BY <2>1 DEF E!InLoop
  <2>4. PhaseInv(d)'
    BY <2>1, <2>2, <2>3 DEF CallInv, PhaseInv, HasAttempt
  <2>5. Entered(c) => ~Entered(d)
    BY DEF ExecutionIInv, ExecutionInv, EntryInv
  <2>6. LoopInv(d)'
    <3>1. CASE E!InLoop(d)
      <4>1. UNCHANGED E!stepVars
        BY <3>1, <2>5 DEF Entered
      <4> QED
        BY <4>1, <2>1, <2>3 DEF CallInv, LoopInv, InPipeline, Position, Untouched, E!stepVars
    <3>2. CASE ~E!InLoop(d)
      BY <3>2, <2>1, <2>3 DEF LoopInv, E!InLoop, InPipeline
    <3> QED
      BY <3>1, <3>2
  <2>7. EndInv(d)'
    <3>1. CASE Entered(d)
      <4>1. result' = result /\ UNCHANGED E!stepVars
        BY <3>1, <2>5 DEF Entered
      <4>2. E!Concluded(d)' = E!Concluded(d) /\ Last(d)' = Last(d)
        BY <2>1 DEF E!Concluded, Last
      <4>3. Tells(E!Concluded(d)) => Tells(E!Concluded(d))'
        BY <4>1, <4>2 DEF Tells, E!stepVars
      <4> QED
        BY <4>1, <4>2, <4>3, <2>1 DEF CallInv, EndInv
    <3>2. CASE ~Entered(d)
      BY <3>2, <2>1 DEF EndInv, Entered, E!InLoop
    <3> QED
      BY <3>1, <3>2
  <2>8. VerifyInv(d)'
    BY <2>1, <2>2, <1>1, <1>2 DEF CallInv, VerifyInv, Verified
  <2> QED
    BY <2>4, <2>6, <2>7, <2>8 DEF CallInv
<1> QED
  BY <1>1, <1>2, <1>3

(***************************************************************************)
(* Steps that leave the rows of the run as they are                        *)
(***************************************************************************)

\* Attempts and outcomes, steps and the run stay; a process may keep a result
\* it has read, or lose what it kept; fences and leases move.
RowsStay(c) ==
  /\ UNCHANGED <<E!runVars, E!stepVars, E!proofVars>>
  /\ \A d \in Caller \ {c} : call'[d] = call[d] /\ memory'[d] = memory[d]
  /\ memory'[c].result \in {memory[c].result, result, E!NoResult}

LEMMA RowsStayTypes ==
  ASSUME E!TypeOK, NEW c \in Caller, RowsStay(c), call' \in [Caller -> E!CallState],
         leases' \in [E!Phase -> E!L!LeaseRow], fences' \in [E!Phase -> E!Fence],
         memory' \in [Caller -> E!Memory], faults' \in 0 .. MaxFaults
  PROVE  E!TypeOK'
BY DEF E!TypeOK, RowsStay, E!runVars, E!stepVars, E!proofVars

LEMMA QuietStep ==
  ASSUME ExecutionIInv, NEW c \in Caller, RowsStay(c), call' \in [Caller -> E!CallState],
         leases' \in [E!Phase -> E!L!LeaseRow], fences' \in [E!Phase -> E!Fence],
         memory' \in [Caller -> E!Memory], faults' \in 0 .. MaxFaults,
         CallInv(c)', E!InLoop(c)' => E!InLoop(c), Entered(c)' => Entered(c), FencesInv', LeaseInv'
  PROVE  ExecutionIInv'
<1>1. E!TypeOK' /\ E!TypeOK
  BY RowsStayTypes DEF ExecutionIInv
<1>2. /\ state' = state /\ attempts' = attempts /\ result' = result /\ step' = step
      /\ actuations' = actuations /\ outcomes' = outcomes /\ completed' = completed
      /\ verdict' = verdict
      /\ \A d \in Caller \ {c} : call'[d] = call[d] /\ memory'[d] = memory[d]
  BY DEF RowsStay, E!runVars, E!stepVars, E!proofVars
<1>3. \A t : (HasAttempt(t) <=> HasAttempt(t)') /\ (Verified(t) <=> Verified(t)')
  BY <1>2 DEF HasAttempt, Verified
<1>4. (\A d \in Caller \ {c} : CallInv(d)') /\ (Over => Over') /\ (Over /\ StepsClosed => StepsClosed')
  BY <1>2, <1>3, OthersKeep DEF E!stepVars
<1>5. \A d \in Caller : CallInv(d)'
  BY <1>4
<1>6. EntryInv'
  <2>1. \A d \in Caller : Entered(d)' => Entered(d)
    BY <1>2 DEF Entered, E!InLoop
  <2> QED
    BY <2>1, <1>2 DEF ExecutionIInv, ExecutionInv, EntryInv, Untouched
<1>7. StepInv'
  BY <1>2 DEF ExecutionIInv, ExecutionInv, StepInv, E!FailureStopsTheRest
<1>8. ResultInv'
  <2>1. Recorded(result)'
    BY <1>2 DEF ExecutionIInv, ExecutionInv, ResultInv, Recorded, Tells
  <2>2. ASSUME NEW d \in Caller PROVE Recorded(memory[d].result)'
    <3>1. memory'[d].result \in {memory[d].result, result, E!NoResult}
      BY <1>2 DEF RowsStay
    <3>2. Recorded(memory[d].result) /\ Recorded(result) /\ Recorded(E!NoResult)
      BY DEF ExecutionIInv, ExecutionInv, ResultInv, Recorded
    <3> QED
      BY <3>1, <3>2, <1>2 DEF Recorded, Tells
  <2>3. (result' # E!NoResult \/ (\E d \in Caller : memory'[d].result # E!NoResult)) => Over'
    BY <1>2, <1>4 DEF ExecutionIInv, ExecutionInv, ResultInv, RowsStay
  <2> QED
    BY <2>1, <2>2, <2>3 DEF ResultInv
<1>9. CompletionInv'
  <2>1. Verified(completed) => Verified(completed)'
    BY <1>2 DEF Verified
  <2> QED
    BY <2>1, <1>2, <1>4 DEF ExecutionIInv, ExecutionInv, CompletionInv
<1> QED
  BY <1>1, <1>5, <1>6, <1>7, <1>8, <1>9 DEF ExecutionIInv, ExecutionInv

\* No fence is settled, and no verdict is lost.
LEMMA FencesStay ==
  ASSUME ExecutionIInv, \A c \in Caller : Entered(c)' => Entered(c),
         result' = result, verdict' = verdict, state' = state,
         \A p \in E!Phase : \/ fences'[p].status = fences[p].status
                          \/ fences'[p].status \in {"IN_PROGRESS", "FAILED"}
  PROVE  FencesInv'
BY DEF ExecutionIInv, ExecutionInv, FencesInv, E!Phase

LEMMA RowsStayKeep ==
  ASSUME NEW c \in Caller, RowsStay(c), E!InLoop(c)' => E!InLoop(c)
  PROVE  /\ Over => Over'
         /\ StepsClosed => StepsClosed'
         /\ \A t : (HasAttempt(t) => HasAttempt(t)') /\ (Verified(t) => Verified(t)')
<1>1. /\ state' = state /\ attempts' = attempts /\ step' = step
      /\ \A d \in Caller \ {c} : call'[d] = call[d]
  BY DEF RowsStay, E!runVars, E!stepVars
<1> QED
  BY <1>1 DEF Over, E!InLoop, StepsClosed, HasAttempt, Verified

\* What a verification knows, it still knows at the next place.
LEMMA VerifyGoesOn ==
  ASSUME E!TypeOK, NEW c \in Caller, VerifyInv(c), call'[c].phase = call[c].phase,
         call'[c].verified = call[c].verified, call'[c].contained = call[c].contained,
         call'[c].pc \notin {"record", "escalate", "store", "mark"},
         Over => Over', StepsClosed => StepsClosed',
         \A t \in E!Token : Verified(t) => Verified(t)'
  PROVE  VerifyInv(c)'
<1>1. call[c].verified \in E!Token
  BY CallTypes
<1> QED
  BY <1>1 DEF VerifyInv, Verified

LEMMA BeginStep ==
  ASSUME ExecutionIInv, NEW c \in Caller, E!Begin(c)
  PROVE  ExecutionIInv'
<1> DEFINE g == E!L!ExpiredGrant(leases[call[c].phase])
<1>1. E!TypeOK /\ CallInv(c) /\ LeaseInv
  BY DEF ExecutionIInv, ExecutionInv
<1>2. /\ UNCHANGED <<E!runVars, E!stepVars, E!proofVars>> /\ memory' = memory /\ faults' = faults
      /\ leases' = leases /\ fences' = fences
  BY DEF E!Begin, E!fenceVars
<1>3. /\ leases' \in [E!Phase -> E!L!LeaseRow] /\ fences' \in [E!Phase -> E!Fence]
      /\ memory' \in [Caller -> E!Memory] /\ faults' \in 0 .. MaxFaults /\ LeaseInv'
  BY <1>1, <1>2 DEF E!TypeOK, LeaseInv
<1>4. ASSUME \A d \in Caller : Entered(d)' => Entered(d) PROVE FencesInv'
  BY <1>2, <1>4, FencesStay DEF E!runVars, E!proofVars
<1>5. CASE E!Leave(c)
  <2>1. RowsStay(c) /\ \A d \in Caller : Entered(d)' => Entered(d)
    BY <1>1, <1>2, <1>5, Leaving DEF RowsStay, Entered, E!InLoop
  <2> QED
    BY <1>1, <1>3, <1>4, <1>5, <2>1, Leaving, QuietStep
<1>6. CASE call' = [call EXCEPT ![c].pc = "acquire", ![c].grant = g]
  <2>1. g \in E!Token /\ "acquire" \in E!PC
    BY <1>1, Constants, CallTypes DEF LeaseInv, E!L!ExpiredGrant, E!Token, E!PC
  <2> HIDE DEF g
  <2>2. /\ call'[c] = [call[c] EXCEPT !.pc = "acquire", !.grant = g]
        /\ \A d \in Caller \ {c} : call'[d] = call[d]
    BY <1>1, <1>6, CallTypes
  <2>3. call' \in [Caller -> E!CallState]
    BY <1>1, <1>6, <2>1, CallTypes DEF E!CallState
  <2>4. /\ call'[c].pc = "acquire" /\ call'[c].phase = call[c].phase
        /\ call'[c].failed = call[c].failed /\ call'[c].contained = call[c].contained
        /\ call'[c].verified = call[c].verified
    BY <1>1, <2>2, CallTypes DEF E!CallState
  <2>5. RowsStay(c) /\ ~E!InLoop(c)' /\ \A d \in Caller : Entered(d)' => Entered(d)
    BY <1>2, <2>2, <2>4 DEF RowsStay, Entered, E!InLoop
  <2>6. VerifyInv(c)'
    BY <1>1, <2>4, <2>5, RowsStayKeep, VerifyGoesOn DEF CallInv
  <2>7. CallInv(c)'
    BY <1>1, <2>4, <2>6 DEF E!Begin, E!At, CallInv, PhaseInv, LoopInv, EndInv, InPipeline, E!InLoop
  <2> QED
    BY <1>3, <1>4, <2>3, <2>5, <2>7, QuietStep
<1> QED
  BY <1>5, <1>6 DEF E!Begin

\* A call goes on, and all rows stay.
LEMMA QuietGoto ==
  ASSUME ExecutionIInv, NEW c \in Caller, NEW p \in E!PC, E!Goto(c, p),
         UNCHANGED <<E!runVars, E!fenceVars, E!stepVars, E!proofVars, memory>>, faults' \in 0 .. MaxFaults,
         CallInv(c)', E!InLoop(c)' => E!InLoop(c), Entered(c)' => Entered(c)
  PROVE  ExecutionIInv'
<1>1. E!TypeOK /\ LeaseInv
  BY DEF ExecutionIInv, ExecutionInv
<1>2. call' \in [Caller -> E!CallState] /\ \A d \in Caller \ {c} : call'[d] = call[d]
  BY <1>1, Going
<1>3. RowsStay(c) /\ \A d \in Caller : Entered(d)' => Entered(d)
  BY <1>2 DEF RowsStay, Entered, E!InLoop
<1>4. /\ leases' \in [E!Phase -> E!L!LeaseRow] /\ fences' \in [E!Phase -> E!Fence]
      /\ memory' \in [Caller -> E!Memory] /\ LeaseInv'
  BY <1>1 DEF E!TypeOK, LeaseInv, E!fenceVars
<1>5. FencesInv'
  BY <1>3, FencesStay DEF E!runVars, E!proofVars, E!fenceVars
<1> QED
  BY <1>2, <1>3, <1>4, <1>5, QuietStep

\* A call gives up, and all rows stay.
LEMMA QuietFailing ==
  ASSUME ExecutionIInv, NEW c \in Caller, E!Goto(c, "failing"),
         UNCHANGED <<E!runVars, E!fenceVars, E!stepVars, E!proofVars, memory>>, faults' \in 0 .. MaxFaults
  PROVE  ExecutionIInv'
<1>1. E!TypeOK /\ CallInv(c) /\ "failing" \in E!PC
  BY DEF ExecutionIInv, ExecutionInv, E!PC
<1>2. /\ \A d \in Caller \ {c} : call'[d] = call[d]
      /\ call'[c].pc = "failing" /\ call'[c].phase = call[c].phase
      /\ call'[c].verified = call[c].verified /\ call'[c].contained = call[c].contained
  BY <1>1, Going
<1>3. RowsStay(c) /\ ~E!InLoop(c)'
  BY <1>2 DEF RowsStay, E!InLoop
<1>4. CallInv(c)' /\ ~Entered(c)' /\ ~E!InLoop(c)'
  BY <1>1, <1>2, <1>3, RowsStayKeep, ToFailing DEF CallInv, VerifyInv
<1> QED
  BY <1>1, <1>4, QuietGoto

LEMMA AcquireStep ==
  ASSUME ExecutionIInv, NEW c \in Caller, E!Acquire(c)
  PROVE  ExecutionIInv'
<1> DEFINE p == call[c].phase
<1>1. E!TypeOK /\ CallInv(c) /\ LeaseInv /\ p \in E!Phase
  BY CallTypes DEF ExecutionIInv, ExecutionInv
<1>2. UNCHANGED <<E!runVars, E!stepVars, E!proofVars>> /\ memory' = memory /\ faults' = faults
  BY DEF E!Acquire
<1>3. memory' \in [Caller -> E!Memory] /\ faults' \in 0 .. MaxFaults
  BY <1>1, <1>2 DEF E!TypeOK
<1>4. CASE E!Leave(c) /\ UNCHANGED E!fenceVars
  <2>1. RowsStay(c) /\ \A d \in Caller : Entered(d)' => Entered(d)
    BY <1>1, <1>2, <1>4, Leaving DEF RowsStay, Entered, E!InLoop
  <2>2. FencesInv' /\ LeaseInv' /\ leases' \in [E!Phase -> E!L!LeaseRow] /\ fences' \in [E!Phase -> E!Fence]
    BY <1>1, <1>2, <1>4, <2>1, FencesStay DEF E!runVars, E!proofVars, E!fenceVars, LeaseInv, E!TypeOK
  <2> QED
    BY <1>1, <1>3, <1>4, <2>1, <2>2, Leaving, QuietStep
<1>5. CASE /\ leases[p].token < MaxTokens
           /\ leases' = [leases EXCEPT ![p] = E!L!Acquired(@, c)]
           /\ fences' = [fences EXCEPT ![p] = [status |-> "IN_PROGRESS", token |-> leases'[p].token]]
           /\ call' = [call EXCEPT ![c].token = leases'[p].token,
                                   ![c].pc = IF p = "execution" THEN "preflight" ELSE "verifying"]
  <2> DEFINE t == leases[p].token + 1
             q == IF p = "execution" THEN "preflight" ELSE "verifying"
  <2>1. t \in E!Token /\ t # 0 /\ t \in Nat /\ q \in E!PC
    <3>1. leases[p].token \in 0 .. MaxTokens /\ leases[p].token < MaxTokens /\ MaxTokens \in Nat
      BY <1>1, <1>5, Constants DEF LeaseInv, E!Token
    <3>2. q \in E!PC
      BY DEF E!PC
    <3> HIDE DEF p, q
    <3> QED
      BY <3>1, <3>2 DEF E!Token
  <2>2. /\ leases' \in [E!Phase -> E!L!LeaseRow] /\ leases'[p].token = t /\ LeaseInv'
        /\ \A o \in E!Phase \ {p} : leases'[o] = leases[o]
    <3>1. leases' = [leases EXCEPT ![p] = [owner |-> c, token |-> t, status |-> "HELD", expired |-> FALSE]]
      BY <1>5 DEF E!L!Acquired
    <3> HIDE DEF t, p
    <3>2. /\ leases'[p] = [owner |-> c, token |-> t, status |-> "HELD", expired |-> FALSE]
          /\ \A o \in E!Phase \ {p} : leases'[o] = leases[o]
      BY <1>1, <3>1 DEF E!TypeOK
    <3>3. [owner |-> c, token |-> t, status |-> "HELD", expired |-> FALSE] \in E!L!LeaseRow
      BY <2>1 DEF E!L!LeaseRow, E!L!LeaseStatus
    <3> QED
      BY <1>1, <2>1, <3>1, <3>2, <3>3 DEF E!TypeOK, LeaseInv
  <2> HIDE DEF t, q
  <2>3. /\ fences' \in [E!Phase -> E!Fence] /\ fences'[p].status = "IN_PROGRESS"
        /\ \A o \in E!Phase \ {p} : fences'[o] = fences[o]
    <3>1. fences' = [fences EXCEPT ![p] = [status |-> "IN_PROGRESS", token |-> t]]
      BY <1>5, <2>2
    <3>2. [status |-> "IN_PROGRESS", token |-> t] \in E!Fence
      BY <2>1 DEF E!Fence
    <3> HIDE DEF p
    <3> QED
      BY <1>1, <3>1, <3>2 DEF E!TypeOK
  <2>4. call' = [call EXCEPT ![c] = [@ EXCEPT !.token = t, !.pc = q]]
    <3>1. call' = [call EXCEPT ![c] = [@ EXCEPT !.token = leases'[p].token, !.pc = q]]
      <4>1. call \in [Caller -> E!CallState]
        BY <1>1, CallTypes
      <4>2. call' = [call EXCEPT ![c].token = leases'[p].token, ![c].pc = q]
        BY <1>5 DEF q
      <4> HIDE DEF p
      <4> QED
        BY <4>1, <4>2 DEF E!CallState
    <3>2. leases'[p].token = t
      BY <2>2
    <3> HIDE DEF p
    <3> QED
      BY <3>1, <3>2
  <2>5. /\ call'[c] = [call[c] EXCEPT !.token = t, !.pc = q]
        /\ \A d \in Caller \ {c} : call'[d] = call[d]
    BY <1>1, <2>4, CallTypes
  <2>6. call' \in [Caller -> E!CallState]
    <3>1. [call[c] EXCEPT !.token = t, !.pc = q] \in E!CallState
      BY <1>1, <2>1, CallTypes DEF E!CallState
    <3> QED
      BY <1>1, <2>4, <3>1, CallTypes
  <2>7. /\ call'[c].pc = q /\ call'[c].phase = call[c].phase /\ call'[c].token = t
        /\ call'[c].failed = call[c].failed /\ call'[c].contained = call[c].contained
        /\ call'[c].verified = call[c].verified
    BY <1>1, <2>5, CallTypes DEF E!CallState
  <2>8. q = IF call[c].phase = "execution" THEN "preflight" ELSE "verifying"
    BY DEF q
  <2>9. RowsStay(c) /\ ~E!InLoop(c)' /\ \A d \in Caller : Entered(d)' => Entered(d)
    <3>1. \A d \in Caller \ {c} : call'[d] = call[d]
      BY <2>5
    <3>2. ~E!InLoop(c)' /\ ~Entered(c)'
      BY <2>7, <2>8 DEF E!InLoop, Entered
    <3> HIDE DEF p
    <3> QED
      BY <1>2, <3>1, <3>2 DEF RowsStay, Entered, E!InLoop
  <2>a. VerifyInv(c)'
    BY <1>1, <2>7, <2>8, <2>9, RowsStayKeep, VerifyGoesOn DEF CallInv
  <2>b. PhaseInv(c)'
    <3>1. call[c].phase \in {"execution", "verification"}
      BY <1>1 DEF E!Phase
    <3> QED
      BY <1>1, <2>1, <2>7, <2>8, <2>9, <3>1 DEF E!Acquire, E!At, CallInv, PhaseInv, E!InLoop
  <2>c. LoopInv(c)' /\ EndInv(c)'
    BY <2>7, <2>8 DEF LoopInv, EndInv, InPipeline, E!InLoop
  <2>d. FencesInv'
    BY <1>2, <2>3, <2>9, FencesStay DEF E!runVars, E!proofVars
  <2> QED
    BY <1>3, <2>2, <2>3, <2>6, <2>9, <2>a, <2>b, <2>c, <2>d, QuietStep DEF CallInv
<1> QED
  BY <1>4, <1>5 DEF E!Acquire

LEMMA MarkFailedStep ==
  ASSUME ExecutionIInv, NEW c \in Caller, E!MarkFailed(c)
  PROVE  ExecutionIInv'
<1> DEFINE p == call[c].phase
<1>1. E!TypeOK /\ LeaseInv /\ p \in E!Phase
  BY CallTypes DEF ExecutionIInv, ExecutionInv
<1>2. RowsStay(c) /\ \A d \in Caller : Entered(d)' => Entered(d)
  BY <1>1, Leaving DEF E!MarkFailed, RowsStay, Entered, E!InLoop
<1>3. /\ memory' \in [Caller -> E!Memory] /\ faults' \in 0 .. MaxFaults
      /\ leases' \in [E!Phase -> E!L!LeaseRow] /\ LeaseInv'
  BY <1>1 DEF E!MarkFailed, E!TypeOK, LeaseInv
<1>4. /\ fences' \in [E!Phase -> E!Fence]
      /\ \A o \in E!Phase : fences'[o].status = fences[o].status \/ fences'[o].status = "FAILED"
  <2>1. fences' = fences \/ fences' = [fences EXCEPT ![p] = [@ EXCEPT !.status = "FAILED"]]
    BY DEF E!MarkFailed
  <2>2. fences[p] \in E!Fence /\ [fences[p] EXCEPT !.status = "FAILED"] \in E!Fence
        /\ [fences[p] EXCEPT !.status = "FAILED"].status = "FAILED"
    BY <1>1 DEF E!TypeOK, E!Fence
  <2> HIDE DEF p
  <2> QED
    BY <1>1, <2>1, <2>2 DEF E!TypeOK
<1>5. FencesInv'
  BY <1>2, <1>4, FencesStay DEF RowsStay, E!runVars, E!proofVars
<1>6. E!Leave(c)
  BY DEF E!MarkFailed
<1> QED
  BY <1>1, <1>2, <1>3, <1>4, <1>5, <1>6, Leaving, QuietStep

LEMMA MarkStep ==
  ASSUME ExecutionIInv, NEW c \in Caller, E!Mark(c)
  PROVE  ExecutionIInv'
<1> DEFINE p == call[c].phase
<1>1. E!TypeOK /\ CallInv(c) /\ LeaseInv /\ p \in E!Phase /\ call[c].pc = "mark"
  BY CallTypes DEF ExecutionIInv, ExecutionInv, E!Mark, E!At
<1>2. CASE E!Goto(c, "failing") /\ UNCHANGED <<fences, memory>>
  BY <1>1, <1>2, QuietFailing DEF E!Mark, E!TypeOK, E!fenceVars
<1>3. CASE /\ fences' = [fences EXCEPT ![p].status = E!Settled(c)]
           /\ memory' = IF p = "execution" THEN memory ELSE [memory EXCEPT ![c].verified = TRUE]
           /\ E!Leave(c)
  <2>1. /\ memory' \in [Caller -> E!Memory] /\ memory'[c].result = memory[c].result
        /\ \A d \in Caller \ {c} : memory'[d] = memory[d]
    BY <1>1, <1>3 DEF E!TypeOK, E!Memory
  <2>2. RowsStay(c) /\ \A d \in Caller : Entered(d)' => Entered(d)
    BY <1>1, <1>3, <2>1, Leaving DEF E!Mark, RowsStay, Entered, E!InLoop
  <2>3. /\ faults' \in 0 .. MaxFaults /\ leases' \in [E!Phase -> E!L!LeaseRow] /\ LeaseInv'
    BY <1>1 DEF E!Mark, E!TypeOK, LeaseInv
  <2>4. /\ E!Settled(c) \in {"COMPLETED", "CONTAINED", "FAILED", "DECIDED"}
        /\ p = "execution" => E!Settled(c) # "DECIDED"
        /\ p = "verification" => E!Settled(c) = "DECIDED"
    BY DEF E!Settled
  <2>5. /\ fences' \in [E!Phase -> E!Fence] /\ fences'[p].status = E!Settled(c)
        /\ \A o \in E!Phase \ {p} : fences'[o] = fences[o]
    <3>1. [fences[p] EXCEPT !.status = E!Settled(c)] \in E!Fence
          /\ [fences[p] EXCEPT !.status = E!Settled(c)].status = E!Settled(c)
      BY <1>1, <2>4 DEF E!TypeOK, E!Fence, E!Closed
    <3> HIDE DEF p
    <3>2. /\ fences'[p] = [fences[p] EXCEPT !.status = E!Settled(c)]
          /\ \A o \in E!Phase \ {p} : fences'[o] = fences[o]
      BY <1>1, <1>3 DEF E!TypeOK
    <3> QED
      BY <1>1, <1>3, <3>1, <3>2 DEF E!TypeOK
  <2>6. FencesInv'
    <3>1. CASE p = "execution"
      <4>1. Entered(c) /\ result = Last(c)
        BY <1>1, <3>1 DEF Entered, CallInv, EndInv
      <4>2. \A d \in Caller : ~Entered(d)'
        BY <1>1, <1>3, <2>2, <4>1, Leaving DEF ExecutionIInv, ExecutionInv, EntryInv
      <4>3. state' # "APPROVED" /\ result' = result /\ verdict' = verdict
        BY <2>2, <4>1 DEF ExecutionIInv, ExecutionInv, EntryInv, RowsStay, E!runVars, E!proofVars
      <4>4. result.status = E!Concluded(c)
        BY <4>1 DEF Last
      <4>5. /\ E!Settled(c) = "COMPLETED" => E!Concluded(c) = "SUCCEEDED"
            /\ E!Settled(c) = "CONTAINED" => E!Concluded(c) = "CONTAINED"
        BY <3>1 DEF E!Settled, E!Concluded
      <4>6. fences'["execution"].status = E!Settled(c) /\ fences'["verification"] = fences["verification"]
        BY <2>5, <3>1 DEF E!Phase
      <4>7. fences["verification"].status = "DECIDED" => verdict # "NONE"
        BY DEF ExecutionIInv, ExecutionInv, FencesInv
      <4> QED
        BY <4>2, <4>3, <4>4, <4>5, <4>6, <4>7 DEF FencesInv
    <3>2. CASE p = "verification"
      <4>1. verdict # "NONE"
        BY <1>1, <3>2 DEF CallInv, VerifyInv
      <4>2. fences'["execution"] = fences["execution"]
        BY <2>5, <3>2 DEF E!Phase
      <4>3. state' = state /\ result' = result /\ verdict' = verdict
        BY <2>2 DEF RowsStay, E!runVars, E!proofVars
      <4> QED
        BY <2>2, <4>1, <4>2, <4>3 DEF ExecutionIInv, ExecutionInv, FencesInv
    <3> QED
      BY <1>1, <3>1, <3>2 DEF E!Phase
  <2> QED
    BY <1>1, <1>3, <2>1, <2>2, <2>3, <2>5, <2>6, Leaving, QuietStep
<1> QED
  BY <1>2, <1>3 DEF E!Mark

(***************************************************************************)
(* Calls that read and go on                                               *)
(***************************************************************************)

LEMMA ExecuteBegins ==
  ASSUME ExecutionIInv, NEW c \in Caller, E!Execute(c)
  PROVE  ExecutionIInv'
<1>1. E!TypeOK /\ LeaseInv
  BY DEF ExecutionIInv, ExecutionInv
<1>2. /\ call' \in [Caller -> E!CallState]
      /\ \A d \in Caller \ {c} : call'[d] = call[d]
      /\ call'[c] = [E!Idle EXCEPT !.pc = "begin"]
  <2>1. [E!Idle EXCEPT !.pc = "begin"] \in E!CallState
    BY RestTypes DEF E!CallState, E!PC
  <2> QED
    BY <1>1, <2>1, CallTypes DEF E!Execute
<1>3. /\ call'[c].pc = "begin" /\ call'[c].phase = "execution" /\ call'[c].failed = 0
      /\ call'[c].contained = FALSE
  BY <1>2 DEF E!Idle
<1>4. RowsStay(c) /\ ~E!InLoop(c)' /\ \A d \in Caller : Entered(d)' => Entered(d)
  BY <1>2, <1>3 DEF E!Execute, RowsStay, Entered, E!InLoop
<1>5. CallInv(c)'
  BY <1>3 DEF CallInv, PhaseInv, LoopInv, EndInv, VerifyInv, InPipeline, E!InLoop
<1>6. /\ leases' \in [E!Phase -> E!L!LeaseRow] /\ fences' \in [E!Phase -> E!Fence]
      /\ memory' \in [Caller -> E!Memory] /\ faults' \in 0 .. MaxFaults /\ LeaseInv'
  BY <1>1 DEF E!Execute, E!TypeOK, LeaseInv, E!fenceVars
<1>7. FencesInv'
  BY <1>4, FencesStay DEF E!Execute, E!runVars, E!proofVars, E!fenceVars
<1> QED
  BY <1>2, <1>4, <1>5, <1>6, <1>7, QuietStep

LEMMA PreflightStep ==
  ASSUME ExecutionIInv, NEW c \in Caller, E!Preflight(c)
  PROVE  ExecutionIInv'
<1>1. E!TypeOK /\ CallInv(c) /\ "attempt" \in E!PC /\ call[c].pc = "preflight" /\ faults' \in 0 .. MaxFaults
      /\ UNCHANGED <<E!runVars, E!fenceVars, E!stepVars, E!proofVars, memory>>
  BY DEF ExecutionIInv, ExecutionInv, E!PC, E!Preflight, E!At, E!TypeOK
<1>2. CASE E!Goto(c, "failing")
  BY <1>1, <1>2, QuietFailing
<1>3. CASE E!Goto(c, "attempt")
  <2>1. /\ call'[c].pc = "attempt" /\ call'[c].phase = call[c].phase
        /\ call'[c].token = call[c].token
        /\ call'[c].failed = call[c].failed /\ call'[c].contained = call[c].contained
    BY <1>1, <1>3, Going
  <2>2. CallInv(c)' /\ ~E!InLoop(c)' /\ ~Entered(c)'
    BY <1>1, <2>1 DEF CallInv, PhaseInv, LoopInv, EndInv, VerifyInv, InPipeline, E!InLoop, Entered
  <2> QED
    BY <1>1, <1>3, <2>2, QuietGoto
<1> QED
  BY <1>2, <1>3 DEF E!Preflight

\* Where the pipeline catches an error: at the containment, or at the failure of the step.
LEMMA CaughtWhere ==
  ASSUME E!TypeOK, NEW c \in Caller, CallInv(c), InPipeline(c)
  PROVE  /\ call[c].key \in Step /\ call[c].key \in Nat
         /\ E!Caught(c) \in E!PC /\ E!Caught(c) \in {"contain", "fail"}
         /\ E!Caught(c) = "fail" => call[c].key \in E!Ordinary
         /\ E!InLoop(c) /\ Entered(c) /\ call[c].phase = "execution"
<1>1. E!InLoop(c) /\ call[c].phase = "execution" /\ Position(c)
  BY DEF InPipeline, E!InLoop, CallInv, PhaseInv, LoopInv
<1>2. call[c].key \in Step /\ call[c].key \in Nat
  BY <1>1, Constants DEF Position
<1> QED
  BY <1>1, <1>2 DEF E!Caught, E!PC, Step, Entered

\* A place of the loop that only wants the loop to be held.
LEMMA ToContain ==
  ASSUME NEW c \in Caller, E!InLoop(c), CallInv(c), call[c].pc # "finish", call'[c].pc = "contain",
         call'[c].phase = call[c].phase, call'[c].contained = call[c].contained,
         call'[c].token = call[c].token,
         HasAttempt(call[c].token) => HasAttempt(call[c].token)'
  PROVE  CallInv(c)' /\ Entered(c)' /\ E!InLoop(c)'
BY DEF CallInv, PhaseInv, LoopInv, EndInv, VerifyInv, InPipeline, E!InLoop, Entered

LEMMA QuietCaught ==
  ASSUME ExecutionIInv, NEW c \in Caller, InPipeline(c), E!Goto(c, E!Caught(c)),
         UNCHANGED <<E!runVars, E!fenceVars, E!stepVars, E!proofVars, memory>>, faults' \in 0 .. MaxFaults
  PROVE  ExecutionIInv'
<1>1. E!TypeOK /\ CallInv(c)
  BY DEF ExecutionIInv, ExecutionInv
<1>2. E!Caught(c) \in E!PC /\ E!InLoop(c) /\ Entered(c) /\ call[c].phase = "execution"
  BY <1>1, CaughtWhere
<1>3. /\ call'[c].pc = E!Caught(c) /\ call'[c].phase = call[c].phase
      /\ call'[c].token = call[c].token /\ call'[c].key = call[c].key
      /\ call'[c].failed = call[c].failed /\ call'[c].contained = call[c].contained
  BY <1>1, <1>2, Going
<1>4. step' = step /\ actuations' = actuations /\ attempts' = attempts
  BY DEF E!stepVars, E!runVars
<1>5. CallInv(c)'
  <2>1. CASE E!Caught(c) = "contain"
    BY <1>1, <1>2, <1>3, <1>4, <2>1, ToContain DEF HasAttempt, InPipeline
  <2>2. CASE E!Caught(c) = "fail"
    <3>1. Position(c)' /\ call[c].key \in E!Ordinary
      BY <1>1, <1>3, <1>4, <2>2, CaughtWhere DEF CallInv, LoopInv, Position, Untouched
    <3> QED
      BY <1>1, <1>2, <1>3, <1>4, <2>2, <3>1
         DEF CallInv, PhaseInv, LoopInv, EndInv, VerifyInv, InPipeline, E!InLoop, HasAttempt
  <2> QED
    BY <1>1, <2>1, <2>2, CaughtWhere
<1> QED
  BY <1>1, <1>2, <1>5, QuietGoto

\* Place and step change.
GotoStep(c, p, k) == call' = [call EXCEPT ![c].pc = p, ![c].key = k]

LEMMA GoingTo ==
  ASSUME E!TypeOK, NEW c \in Caller, NEW p \in E!PC, NEW k \in 0 .. Steps + Compensating,
         GotoStep(c, p, k)
  PROVE  /\ call' \in [Caller -> E!CallState]
         /\ \A d \in Caller \ {c} : call'[d] = call[d]
         /\ call'[c].pc = p /\ call'[c].phase = call[c].phase /\ call'[c].token = call[c].token
         /\ call'[c].key = k /\ call'[c].failed = call[c].failed
         /\ call'[c].contained = call[c].contained
<1>1. call' = [call EXCEPT ![c] = [@ EXCEPT !.pc = p, !.key = k]]
  BY CallTypes DEF E!CallState, GotoStep
<1>2. /\ call'[c] = [call[c] EXCEPT !.pc = p, !.key = k]
      /\ \A d \in Caller \ {c} : call'[d] = call[d]
  BY <1>1, CallTypes
<1>3. [call[c] EXCEPT !.pc = p, !.key = k] \in E!CallState
  BY CallTypes DEF E!CallState
<1> QED
  BY <1>1, <1>2, <1>3, CallTypes DEF E!CallState

\* The pipeline begins with a step that is untouched.
LEMMA PipelineBegins ==
  ASSUME ExecutionIInv, NEW c \in Caller, NEW k \in Step, E!InLoop(c), call[c].pc # "finish",
         call' \in [Caller -> E!CallState], \A d \in Caller \ {c} : call'[d] = call[d],
         call'[c].pc = "reserve", call'[c].phase = call[c].phase, call'[c].token = call[c].token,
         call'[c].key = k, call'[c].contained = call[c].contained,
         UNCHANGED <<E!runVars, E!fenceVars, E!stepVars, E!proofVars, faults>>,
         memory' \in [Caller -> E!Memory], memory'[c].result = memory[c].result,
         \A d \in Caller \ {c} : memory'[d] = memory[d],
         Position(c)', Untouched(k)
  PROVE  ExecutionIInv'
<1>1. E!TypeOK /\ LeaseInv /\ CallInv(c)
  BY DEF ExecutionIInv, ExecutionInv
<1>2. RowsStay(c)
  BY DEF RowsStay
<1>3. CallInv(c)'
  BY <1>1 DEF CallInv, PhaseInv, LoopInv, EndInv, VerifyInv, InPipeline, E!InLoop, HasAttempt,
                    Untouched, E!runVars, E!stepVars
<1>4. \A d \in Caller : Entered(d)' => Entered(d)
  BY DEF Entered, E!InLoop
<1>5. /\ leases' \in [E!Phase -> E!L!LeaseRow] /\ fences' \in [E!Phase -> E!Fence]
      /\ faults' \in 0 .. MaxFaults /\ LeaseInv'
  BY <1>1 DEF E!TypeOK, LeaseInv, E!fenceVars
<1>6. FencesInv'
  BY <1>4, FencesStay DEF E!runVars, E!proofVars, E!fenceVars
<1> QED
  BY <1>2, <1>3, <1>4, <1>5, <1>6, QuietStep

LEMMA CreateLedgerStep ==
  ASSUME ExecutionIInv, NEW c \in Caller, E!CreateLedger(c)
  PROVE  ExecutionIInv'
<1>1. E!TypeOK /\ CallInv(c) /\ call[c].pc = "ledger" /\ E!InLoop(c) /\ 1 \in Step
  BY Constants DEF ExecutionIInv, ExecutionInv, E!CreateLedger, E!At, E!InLoop
<1>2. GotoStep(c, "reserve", 1)
  BY DEF E!CreateLedger, GotoStep
<1>3. /\ call' \in [Caller -> E!CallState] /\ \A d \in Caller \ {c} : call'[d] = call[d]
      /\ call'[c].pc = "reserve" /\ call'[c].phase = call[c].phase
      /\ call'[c].token = call[c].token /\ call'[c].key = 1
      /\ call'[c].failed = call[c].failed /\ call'[c].contained = call[c].contained
  <2>1. "reserve" \in E!PC /\ 1 \in 0 .. Steps + Compensating
    BY Constants DEF E!PC
  <2> QED
    BY <1>1, <1>2, <2>1, GoingTo
<1>4. call[c].failed = 0 /\ \A i \in Step : Untouched(i)
  BY <1>1 DEF CallInv, PhaseInv, LoopInv
<1>5. Position(c)'
  <2>1. \A i \in Step : Untouched(i)'
    BY <1>4 DEF E!CreateLedger, E!stepVars, Untouched
  <2>2. \A i \in E!Ordinary : ~(i < 1)
    BY Constants DEF E!Ordinary
  <2>3. 1 \notin E!Rollback
    BY Constants
  <2> QED
    BY <1>3, <1>4, <2>1, <2>2, <2>3, Constants DEF Position
<1> QED
  BY <1>1, <1>3, <1>4, <1>5, PipelineBegins DEF E!CreateLedger, E!TypeOK

LEMMA SettleStep ==
  ASSUME ExecutionIInv, NEW c \in Caller, E!Settle(c)
  PROVE  ExecutionIInv'
<1> DEFINE k == call[c].key
<1>1. /\ E!TypeOK /\ CallInv(c) /\ call[c].pc = "settle" /\ E!InLoop(c) /\ InPipeline(c) /\ Position(c)
      /\ step[k] = "SUCCEEDED" /\ ~call[c].contained
  BY DEF ExecutionIInv, ExecutionInv, E!Settle, E!At, E!InLoop, InPipeline, CallInv, LoopInv
<1>2. k \in Step /\ k \in Nat
  BY <1>1, CaughtWhere
<1>3. step' = step /\ actuations' = actuations /\ state' = state /\ attempts' = attempts
  BY DEF E!Settle, E!stepVars, E!runVars
<1>4. CASE E!Following(c) = 0
  <2>1. E!Goto(c, "finish") /\ "finish" \in E!PC
    BY <1>4 DEF E!Settle, E!Goto, E!PC
  <2>2. /\ call'[c].pc = "finish" /\ call'[c].phase = call[c].phase /\ call'[c].token = call[c].token
        /\ call'[c].failed = call[c].failed /\ call'[c].contained = call[c].contained
    BY <1>1, <2>1, Going
  <2>3. E!Concluded(c)' = E!Concluded(c)
    BY <2>2 DEF E!Concluded
  <2>4. k \in {Steps, Steps + Compensating}
    BY <1>2, <1>4, Constants DEF E!Following
  <2>5. Tells(E!Concluded(c))
    <3>1. CASE k \in E!Ordinary
      <4>1. k = Steps
        BY <2>4, <3>1, Constants DEF E!Ordinary
      <4>2. call[c].failed = 0 /\ \A i \in E!Ordinary : i < k => step[i] = "SUCCEEDED"
        BY <1>1, <3>1 DEF Position
      <4>3. \A i \in E!Ordinary : i < k \/ i = k
        BY <4>1, Constants DEF E!Ordinary
      <4>4. \A i \in E!Ordinary : step[i] = "SUCCEEDED"
        BY <1>1, <4>2, <4>3
      <4> QED
        BY <1>1, <4>2, <4>4 DEF Tells, E!Concluded
    <3>2. CASE k \in E!Rollback
      <4>1. k = Steps + Compensating
        BY <2>4, <3>2, Constants DEF E!Rollback
      <4>2. /\ call[c].failed \in Reversible /\ step[call[c].failed] = "FAILED"
            /\ \A i \in E!Rollback : i < k => step[i] = "SUCCEEDED"
        BY <1>1, <3>2 DEF Position
      <4>3. \A i \in E!Rollback : i < k \/ i = k
        BY <4>1, Constants DEF E!Rollback
      <4>4. \A i \in E!Rollback : step[i] = "SUCCEEDED"
        BY <1>1, <4>2, <4>3
      <4>5. call[c].failed # 0
        BY <4>2, Constants DEF E!Ordinary
      <4> QED
        BY <1>1, <4>2, <4>4, <4>5 DEF Tells, E!Concluded
    <3> QED
      BY <1>2, <3>1, <3>2 DEF Step
  <2>6. Tells(E!Concluded(c))'
    BY <1>3, <2>3, <2>5 DEF Tells
  <2>7. CallInv(c)' /\ Entered(c)'
    BY <1>1, <1>3, <2>2, <2>6
       DEF CallInv, PhaseInv, LoopInv, EndInv, VerifyInv, InPipeline, E!InLoop, HasAttempt, Entered
  <2> QED
    BY <1>1, <2>1, <2>7, QuietGoto DEF E!Settle, E!TypeOK, Entered
<1>5. CASE E!Following(c) # 0
  <2>1. k \notin {Steps, Steps + Compensating} /\ E!Following(c) = k + 1
    BY <1>5 DEF E!Following
  <2>2. /\ k + 1 \in Step /\ k + 1 \in 0 .. Steps + Compensating /\ k + 1 \in Nat
        /\ (k \in E!Ordinary => k + 1 \in E!Ordinary) /\ (k \in E!Rollback => k + 1 \in E!Rollback)
    BY <1>2, <2>1, Constants DEF E!Ordinary, E!Rollback
  <2> DEFINE n == k + 1
  <2>3. GotoStep(c, "reserve", n) /\ "reserve" \in E!PC
    BY <1>5, <2>1 DEF E!Settle, E!PC, GotoStep
  <2>4. n \in Step /\ n \in 0 .. Steps + Compensating /\ n \in Nat
        /\ (k \in E!Ordinary <=> n \in E!Ordinary) /\ (k \in E!Rollback <=> n \in E!Rollback)
        /\ \A i \in Step : i \in Nat /\ (i < n <=> i < k \/ i = k) /\ (n < i => k < i) /\ k < n
    BY <1>2, <2>2, Constants DEF Step
  <2> HIDE DEF n
  <2>5. /\ call' \in [Caller -> E!CallState] /\ \A d \in Caller \ {c} : call'[d] = call[d]
        /\ call'[c].pc = "reserve" /\ call'[c].phase = call[c].phase
        /\ call'[c].token = call[c].token /\ call'[c].key = n
        /\ call'[c].failed = call[c].failed /\ call'[c].contained = call[c].contained
    BY <1>1, <2>3, <2>4, GoingTo
  <2>6. Position(c)' /\ Untouched(n)
    <3>1. CASE k \in E!Ordinary
      <4>1. /\ call[c].failed = 0
            /\ \A i \in E!Ordinary : (i < k => step[i] = "SUCCEEDED") /\ (k < i => Untouched(i))
            /\ \A i \in E!Rollback : Untouched(i)
        BY <1>1, <3>1 DEF Position
      <4>2. /\ \A i \in E!Ordinary : (i < n => step[i] = "SUCCEEDED") /\ (n < i => Untouched(i))
            /\ Untouched(n)
        BY <1>1, <2>4, <3>1, <4>1, Constants
      <4>3. n \notin E!Rollback
        BY <2>4, <3>1, Constants
      <4> QED
        BY <1>3, <2>4, <2>5, <4>1, <4>2, <4>3 DEF Position, Untouched
    <3>2. CASE k \in E!Rollback
      <4>1. /\ call[c].failed \in Reversible /\ step[call[c].failed] = "FAILED"
            /\ \A i \in E!Rollback : (i < k => step[i] = "SUCCEEDED") /\ (k < i => Untouched(i))
        BY <1>1, <3>2 DEF Position
      <4>2. /\ \A i \in E!Rollback : (i < n => step[i] = "SUCCEEDED") /\ (n < i => Untouched(i))
            /\ Untouched(n)
        BY <1>1, <2>4, <3>2, <4>1, Constants
      <4>3. n \notin E!Ordinary
        BY <2>4, <3>2, Constants
      <4> QED
        BY <1>3, <2>4, <2>5, <4>1, <4>2, <4>3 DEF Position, Untouched
    <3> QED
      BY <1>2, <3>1, <3>2 DEF Step
  <2> QED
    BY <1>1, <2>4, <2>5, <2>6, PipelineBegins DEF E!Settle, E!TypeOK
<1> QED
  BY <1>4, <1>5

LEMMA BeginRollbackStep ==
  ASSUME ExecutionIInv, NEW c \in Caller, E!BeginRollback(c)
  PROVE  ExecutionIInv'
<1>1. /\ E!TypeOK /\ CallInv(c) /\ call[c].pc = "rollback" /\ E!InLoop(c)
      /\ call[c].failed \in E!Ordinary /\ step[call[c].failed] = "FAILED"
      /\ \A i \in E!Rollback : Untouched(i)
  BY DEF ExecutionIInv, ExecutionInv, E!BeginRollback, E!At, E!InLoop, CallInv, LoopInv
<1>2. CASE E!Goto(c, "contain") /\ UNCHANGED memory
  <2>1. /\ "contain" \in E!PC /\ call'[c].pc = "contain" /\ call'[c].phase = call[c].phase
        /\ call'[c].contained = call[c].contained /\ call'[c].token = call[c].token
    BY <1>1, <1>2, Going DEF E!PC
  <2>2. CallInv(c)' /\ Entered(c)' /\ E!InLoop(c)'
    BY <1>1, <2>1, ToContain DEF E!BeginRollback, E!runVars, HasAttempt
  <2> QED
    BY <1>1, <1>2, <2>1, <2>2, QuietGoto DEF E!BeginRollback, E!TypeOK, Entered
<1>3. CASE /\ call[c].failed \in Reversible
           /\ memory' = [memory EXCEPT ![c].rollbacks = 1]
           /\ call' = [call EXCEPT ![c].pc = "reserve", ![c].key = Steps + 1]
  <2> DEFINE n == Steps + 1
  <2>1. n \in E!Rollback /\ n \notin E!Ordinary /\ n \in Step /\ n \in 0 .. Steps + Compensating
        /\ "reserve" \in E!PC /\ \A i \in E!Rollback : ~(i < n)
    BY <1>3, Constants DEF E!PC, E!Rollback
  <2>2. GotoStep(c, "reserve", n)
    BY <1>3 DEF GotoStep
  <2> HIDE DEF n
  <2>3. /\ call' \in [Caller -> E!CallState] /\ \A d \in Caller \ {c} : call'[d] = call[d]
        /\ call'[c].pc = "reserve" /\ call'[c].phase = call[c].phase
        /\ call'[c].token = call[c].token /\ call'[c].key = n
        /\ call'[c].failed = call[c].failed /\ call'[c].contained = call[c].contained
    BY <1>1, <2>1, <2>2, GoingTo
  <2>4. /\ memory' \in [Caller -> E!Memory] /\ memory'[c].result = memory[c].result
        /\ \A d \in Caller \ {c} : memory'[d] = memory[d]
    <3>1. memory \in [Caller -> E!Memory] /\ memory' = [memory EXCEPT ![c] = [@ EXCEPT !.rollbacks = 1]]
      BY <1>1, <1>3 DEF E!TypeOK
    <3>2. memory[c] \in E!Memory /\ [memory[c] EXCEPT !.rollbacks = 1] \in E!Memory
          /\ [memory[c] EXCEPT !.rollbacks = 1].result = memory[c].result
      BY <3>1 DEF E!Memory
    <3> QED
      BY <3>1, <3>2
  <2>5. step' = step /\ actuations' = actuations
    BY DEF E!BeginRollback, E!stepVars
  <2>6. Position(c)' /\ Untouched(n)
    BY <1>1, <1>3, <2>1, <2>3, <2>5 DEF Position, Untouched
  <2> QED
    BY <1>1, <2>1, <2>3, <2>4, <2>6, PipelineBegins DEF E!BeginRollback
<1> QED
  BY <1>2, <1>3 DEF E!BeginRollback

LEMMA AssessStep ==
  ASSUME ExecutionIInv, NEW c \in Caller, E!Assess(c)
  PROVE  ExecutionIInv'
<1>1. /\ E!TypeOK /\ LeaseInv /\ CallInv(c) /\ call[c].pc = "assess" /\ call[c].phase = "verification"
      /\ state \in E!RunState
  BY DEF ExecutionIInv, ExecutionInv, E!Assess, E!At, CallInv, PhaseInv, E!TypeOK
<1>2. PICK o \in IF call[c].contained THEN {"CONTAINED"} ELSE {"VERIFIED_SUCCESS", "OTHER"} :
        call' = [call EXCEPT ![c].pc = "record", ![c].outcome = o, ![c].run = state]
  BY DEF E!Assess
<1>3. o \in E!Outcome /\ (call[c].contained => o # "VERIFIED_SUCCESS")
  BY DEF E!Outcome
<1>4. call' = [call EXCEPT ![c] = [@ EXCEPT !.pc = "record", !.outcome = o, !.run = state]]
  BY <1>1, <1>2, CallTypes DEF E!CallState
<1>5. /\ call'[c] = [call[c] EXCEPT !.pc = "record", !.outcome = o, !.run = state]
      /\ \A d \in Caller \ {c} : call'[d] = call[d]
  BY <1>1, <1>4, CallTypes
<1>6. call' \in [Caller -> E!CallState]
  <2> DEFINE l == [call[c] EXCEPT !.pc = "record", !.outcome = o, !.run = state]
  <2>1. l \in E!CallState
    <3>1. "record" \in E!PC
      BY DEF E!PC
    <3>2. call[c] \in E!CallState
      BY <1>1, CallTypes
    <3> QED
      BY <1>1, <1>3, <3>1, <3>2 DEF E!CallState
  <2>2. call' = [call EXCEPT ![c] = l] /\ call \in [Caller -> E!CallState]
    BY <1>1, <1>4, CallTypes
  <2> HIDE DEF l
  <2> QED
    BY <2>1, <2>2
<1>7. /\ call'[c].pc = "record" /\ call'[c].outcome = o /\ call'[c].phase = "verification"
      /\ call'[c].verified = call[c].verified /\ call'[c].contained = call[c].contained
  BY <1>1, <1>5, CallTypes DEF E!CallState
<1>8. RowsStay(c) /\ ~E!InLoop(c)' /\ \A d \in Caller : Entered(d)' => Entered(d)
  BY <1>5, <1>7 DEF E!Assess, RowsStay, Entered, E!InLoop
<1>9. CallInv(c)'
  <2>1. VerifyInv(c) /\ call[c].verified \in E!Token
    BY <1>1, CallTypes DEF CallInv
  <2>2. VerifyInv(c)'
    BY <1>1, <1>3, <1>7, <1>8, <2>1, RowsStayKeep DEF VerifyInv, Verified, E!Outcome
  <2> QED
    BY <1>7, <2>2 DEF CallInv, PhaseInv, LoopInv, EndInv, InPipeline, E!InLoop
<1>a. /\ leases' \in [E!Phase -> E!L!LeaseRow] /\ fences' \in [E!Phase -> E!Fence] /\ LeaseInv'
      /\ memory' \in [Caller -> E!Memory] /\ faults' \in 0 .. MaxFaults
  BY <1>1 DEF E!Assess, E!TypeOK, LeaseInv, E!fenceVars
<1>b. FencesInv'
  BY <1>8, FencesStay DEF E!Assess, E!runVars, E!proofVars, E!fenceVars
<1> QED
  BY <1>6, <1>8, <1>9, <1>a, <1>b, QuietStep

LEMMA VerifyBegins ==
  ASSUME ExecutionIInv, NEW c \in Caller, E!Verify(c)
  PROVE  ExecutionIInv'
<1> DEFINE r == E!ResultFor(c)
           b == state = "CONTAINED" \/ r.status = "CONTAINED"
           l == [E!Idle EXCEPT !.pc = "begin", !.phase = "verification", !.run = state,
                             !.verified = r.token, !.contained = b]
<1>1. E!TypeOK /\ LeaseInv /\ CallInv(c) /\ state \in E!RunState
  BY DEF ExecutionIInv, ExecutionInv, E!TypeOK
<1>2. /\ r \in E!Result /\ r.token \in E!Token /\ r \in {memory[c].result, result}
      /\ r # E!NoResult /\ Recorded(r)
      /\ Over /\ StepsClosed
  <2>1. r \in {memory[c].result, result} /\ r # E!NoResult
    BY DEF E!ResultFor, E!Verify, E!Verifiable
  <2>2. r \in E!Result
    BY <1>1, <2>1, CallTypes DEF E!TypeOK
  <2>3. Recorded(memory[c].result) /\ Recorded(result)
    BY DEF ExecutionIInv, ExecutionInv, ResultInv
  <2>4. Over
    BY <2>1 DEF ExecutionIInv, ExecutionInv, ResultInv
  <2>5. StepsClosed
    BY <1>1 DEF E!Verify, E!Verifiable, StepsClosed, E!TypeOK, Step
  <2> HIDE DEF r
  <2> QED
    BY <2>1, <2>2, <2>3, <2>4, <2>5 DEF E!Result
<1>3. r.token # 0 /\ (~b => Verified(r.token))
  <2> HIDE DEF r
  <2>1. r.token # 0 /\ \E i \in DOMAIN attempts : attempts[i] = r
    BY <1>2 DEF Recorded
  <2>2. PICK i \in DOMAIN attempts : attempts[i] = r
    BY <2>1
  <2>3. attempts[i] \in E!Attempt
    BY <1>1, <2>2 DEF E!TypeOK
  <2>4. r.status \in E!Status
    BY <1>2, <2>2, <2>3 DEF E!Attempt, E!Result, E!Status
  <2>5. ~b => r.status \in {"SUCCEEDED", "PARTIAL"}
    BY <2>4 DEF E!Status
  <2> QED
    BY <2>1, <2>2, <2>5 DEF Verified
<1> HIDE DEF r
<1>4. /\ l \in E!CallState /\ l.pc = "begin" /\ l.phase = "verification" /\ l.verified = r.token
      /\ l.contained = b
  <2>1. b \in BOOLEAN /\ "begin" \in E!PC /\ "verification" \in E!Phase
    BY DEF E!PC, E!Phase
  <2> HIDE DEF b
  <2> QED
    BY <1>1, <1>2, <2>1, RestTypes DEF E!CallState
<1>5. call' = [call EXCEPT ![c] = l]
  BY DEF E!Verify, r
<1> HIDE DEF l
<1>6. call' \in [Caller -> E!CallState] /\ call'[c] = l /\ \A d \in Caller \ {c} : call'[d] = call[d]
  BY <1>1, <1>4, <1>5, CallTypes
<1>7. /\ memory' \in [Caller -> E!Memory] /\ memory'[c].result = r
      /\ \A d \in Caller \ {c} : memory'[d] = memory[d]
  <2>1. memory \in [Caller -> E!Memory] /\ memory' = [memory EXCEPT ![c] = [@ EXCEPT !.result = r]]
    BY <1>1 DEF E!Verify, E!TypeOK, r
  <2>2. memory[c] \in E!Memory /\ [memory[c] EXCEPT !.result = r] \in E!Memory
        /\ [memory[c] EXCEPT !.result = r].result = r
    BY <1>2, <2>1 DEF E!Memory
  <2> QED
    BY <2>1, <2>2
<1>8. RowsStay(c) /\ ~E!InLoop(c)' /\ \A d \in Caller : Entered(d)' => Entered(d)
  BY <1>2, <1>4, <1>6, <1>7 DEF E!Verify, RowsStay, Entered, E!InLoop
<1>9. CallInv(c)'
  <2>1. Over' /\ StepsClosed' /\ (Verified(r.token) => \E i \in DOMAIN attempts' :
           attempts'[i].token = r.token /\ attempts'[i].status \in {"SUCCEEDED", "PARTIAL"})
    BY <1>2, <1>8, RowsStayKeep DEF RowsStay, E!runVars, Verified
  <2>2. VerifyInv(c)'
    BY <1>3, <1>4, <1>6, <2>1 DEF VerifyInv, Verified
  <2> QED
    BY <1>4, <1>6, <2>2 DEF CallInv, PhaseInv, LoopInv, EndInv, InPipeline, E!InLoop
<1>a. /\ leases' \in [E!Phase -> E!L!LeaseRow] /\ fences' \in [E!Phase -> E!Fence] /\ LeaseInv'
      /\ faults' \in 0 .. MaxFaults
  BY <1>1 DEF E!Verify, E!TypeOK, LeaseInv, E!fenceVars
<1>b. FencesInv'
  BY <1>8, FencesStay DEF E!Verify, E!runVars, E!proofVars, E!fenceVars
<1> QED
  BY <1>6, <1>7, <1>8, <1>9, <1>a, <1>b, QuietStep

LEMMA ReplayStep ==
  ASSUME ExecutionIInv, NEW c \in Caller, E!Replay(c)
  PROVE  ExecutionIInv'
<1>1. E!TypeOK /\ LeaseInv /\ CallInv(c) /\ call[c].pc = "idle" /\ call' = call
  BY DEF ExecutionIInv, ExecutionInv, E!Replay, E!At
<1>2. /\ memory' \in [Caller -> E!Memory] /\ memory'[c].result = result
      /\ \A d \in Caller \ {c} : memory'[d] = memory[d]
  <2>1. /\ memory \in [Caller -> E!Memory] /\ result \in E!Result
        /\ memory' = [memory EXCEPT ![c] = [@ EXCEPT !.result = result]]
    BY <1>1 DEF E!Replay, E!TypeOK
  <2>2. memory[c] \in E!Memory /\ [memory[c] EXCEPT !.result = result] \in E!Memory
        /\ [memory[c] EXCEPT !.result = result].result = result
    BY <2>1 DEF E!Memory
  <2> QED
    BY <2>1, <2>2
<1>3. RowsStay(c) /\ ~E!InLoop(c)' /\ \A d \in Caller : Entered(d)' => Entered(d)
  BY <1>1, <1>2 DEF E!Replay, RowsStay, Entered, E!InLoop
<1>4. CallInv(c)'
  <2>1. VerifyInv(c)'
    BY <1>1, <1>3, RowsStayKeep, VerifyGoesOn DEF CallInv
  <2> QED
    BY <1>1, <2>1 DEF CallInv, PhaseInv, LoopInv, EndInv, InPipeline, E!InLoop
<1>5. /\ call' \in [Caller -> E!CallState] /\ faults' \in 0 .. MaxFaults
      /\ leases' \in [E!Phase -> E!L!LeaseRow] /\ fences' \in [E!Phase -> E!Fence] /\ LeaseInv'
  BY <1>1 DEF E!Replay, E!TypeOK, LeaseInv, E!fenceVars
<1>6. FencesInv'
  BY <1>3, FencesStay DEF E!Replay, E!runVars, E!proofVars, E!fenceVars
<1> QED
  BY <1>2, <1>3, <1>4, <1>5, <1>6, QuietStep

(***************************************************************************)
(* What goes wrong                                                         *)
(***************************************************************************)

LEMMA QuietLeave ==
  ASSUME ExecutionIInv, NEW c \in Caller, E!Leave(c),
         UNCHANGED <<E!runVars, fences, E!stepVars, E!proofVars>>, faults' \in 0 .. MaxFaults,
         leases' \in [E!Phase -> E!L!LeaseRow], LeaseInv', memory' \in [Caller -> E!Memory],
         memory'[c].result \in {memory[c].result, E!NoResult},
         \A d \in Caller \ {c} : memory'[d] = memory[d]
  PROVE  ExecutionIInv'
<1>1. E!TypeOK
  BY DEF ExecutionIInv
<1>2. RowsStay(c) /\ \A d \in Caller : Entered(d)' => Entered(d)
  BY <1>1, Leaving DEF RowsStay, Entered, E!InLoop
<1>3. fences' \in [E!Phase -> E!Fence]
  BY <1>1 DEF E!TypeOK
<1>4. FencesInv'
  BY <1>2, FencesStay DEF E!runVars, E!proofVars
<1> QED
  BY <1>1, <1>2, <1>3, <1>4, Leaving, QuietStep

LEMMA ErrorStep ==
  ASSUME ExecutionIInv, NEW c \in Caller, E!Error(c)
  PROVE  ExecutionIInv'
<1>1. /\ E!TypeOK /\ LeaseInv /\ CallInv(c)
      /\ UNCHANGED <<E!runVars, E!fenceVars, E!stepVars, E!proofVars, memory>>
  BY DEF ExecutionIInv, ExecutionInv, E!Error
<1>2. faults' \in 0 .. MaxFaults
  BY <1>1, Constants DEF E!Error, E!TypeOK
<1>3. PICK pc \in E!Handlers(c) :
        call' = [call EXCEPT ![c] = IF pc = "idle" THEN E!Idle ELSE [@ EXCEPT !.pc = pc]]
  BY DEF E!Error
<1>4. CASE pc = "idle"
  <2>1. E!Leave(c)
    BY <1>3, <1>4 DEF E!Leave
  <2>2. /\ leases' \in [E!Phase -> E!L!LeaseRow] /\ LeaseInv' /\ memory' \in [Caller -> E!Memory]
        /\ fences' = fences /\ memory' = memory
    BY <1>1 DEF E!TypeOK, LeaseInv, E!fenceVars
  <2> QED
    BY <1>1, <1>2, <2>1, <2>2, QuietLeave
<1>5. CASE pc # "idle"
  <2>1. E!Goto(c, pc)
    BY <1>3, <1>5 DEF E!Goto
  <2>2. CASE pc = "failing"
    BY <1>1, <1>2, <2>1, <2>2, QuietFailing
  <2>3. CASE InPipeline(c) /\ pc = E!Caught(c)
    BY <1>1, <1>2, <2>1, <2>3, QuietCaught
  <2>4. CASE call[c].pc = "rollback" /\ pc = "contain"
    <3>1. E!InLoop(c) /\ "contain" \in E!PC
      BY <2>4 DEF E!InLoop, E!PC
    <3>2. /\ call'[c].pc = "contain" /\ call'[c].phase = call[c].phase
          /\ call'[c].contained = call[c].contained /\ call'[c].token = call[c].token
      BY <1>1, <2>1, <2>4, <3>1, Going
    <3>3. CallInv(c)' /\ Entered(c)' /\ E!InLoop(c)'
      BY <1>1, <2>4, <3>1, <3>2, ToContain DEF E!runVars, HasAttempt
    <3> QED
      BY <1>1, <1>2, <2>1, <2>4, <3>1, <3>3, QuietGoto DEF Entered
  <2>5. \/ pc = "failing" \/ (InPipeline(c) /\ pc = E!Caught(c))
        \/ (call[c].pc = "rollback" /\ pc = "contain")
    BY <1>3, <1>5 DEF E!Handlers, InPipeline
  <2> QED
    BY <2>2, <2>3, <2>4, <2>5
<1> QED
  BY <1>4, <1>5

LEMMA CrashStep ==
  ASSUME ExecutionIInv, NEW c \in Caller, E!Crash(c)
  PROVE  ExecutionIInv'
<1>1. E!TypeOK /\ LeaseInv
  BY DEF ExecutionIInv, ExecutionInv
<1>2. faults' \in 0 .. MaxFaults
  BY <1>1, Constants DEF E!Crash, E!TypeOK
<1>3. /\ memory' \in [Caller -> E!Memory] /\ memory'[c].result = E!NoResult
      /\ \A d \in Caller \ {c} : memory'[d] = memory[d]
  BY <1>1, RestTypes DEF E!Crash, E!TypeOK
<1>4. leases' \in [E!Phase -> E!L!LeaseRow] /\ LeaseInv'
  <2>1. ASSUME NEW p \in E!Phase
        PROVE  /\ [leases[p] EXCEPT !.owner = Nobody] \in E!L!LeaseRow
               /\ [leases[p] EXCEPT !.owner = Nobody].token = leases[p].token
               /\ leases[p] \in E!L!LeaseRow
    BY <1>1 DEF E!TypeOK, E!L!LeaseRow
  <2> QED
    BY <1>1, <2>1 DEF E!Crash, LeaseInv
<1> QED
  BY <1>2, <1>3, <1>4, QuietLeave DEF E!Crash

LEMMA TimePasses ==
  ASSUME ExecutionIInv,
         (\E p \in E!Phase : E!Expire(p)) \/ UNCHANGED E!vars
  PROVE  ExecutionIInv'
<1>1. /\ E!TypeOK /\ LeaseInv /\ (\A c \in Caller : CallInv(c)) /\ EntryInv /\ StepInv /\ ResultInv
      /\ FencesInv /\ CompletionInv
  BY DEF ExecutionIInv, ExecutionInv
<1>2. /\ state' = state /\ fences' = fences /\ attempts' = attempts /\ step' = step /\ result' = result
      /\ outcomes' = outcomes /\ completed' = completed /\ verdict' = verdict
      /\ memory' = memory /\ call' = call /\ actuations' = actuations /\ faults' = faults
  BY DEF E!Expire, E!vars, E!runVars, E!fenceVars, E!stepVars, E!proofVars
<1>3. leases' \in [E!Phase -> E!L!LeaseRow] /\ LeaseInv'
  <2>1. CASE \E p \in E!Phase : E!Expire(p)
    <3>1. PICK p \in E!Phase : leases' = [leases EXCEPT ![p] = E!L!Expired(@)]
      BY <2>1 DEF E!Expire
    <3>2. E!L!Expired(leases[p]) \in E!L!LeaseRow /\ E!L!Expired(leases[p]).token = leases[p].token
      BY <1>1 DEF E!TypeOK, E!L!Expired, E!L!LeaseRow
    <3> QED
      BY <1>1, <3>1, <3>2 DEF E!TypeOK, LeaseInv
  <2>2. CASE UNCHANGED E!vars
    BY <1>1, <2>2 DEF E!TypeOK, LeaseInv, E!vars, E!fenceVars
  <2> QED
    BY <2>1, <2>2
<1>4. E!TypeOK'
  BY <1>1, <1>2, <1>3 DEF E!TypeOK
<1>5. \A c \in Caller : CallInv(c)'
  BY <1>1, <1>2 DEF CallInv, PhaseInv, LoopInv, EndInv, VerifyInv, InPipeline, E!InLoop, HasAttempt,
       Untouched, Position, Tells, E!Concluded, Last, Over, StepsClosed, Verified
<1>6. EntryInv' /\ StepInv'
  BY <1>1, <1>2 DEF EntryInv, Entered, E!InLoop, Untouched, StepInv, E!FailureStopsTheRest
<1>7. ResultInv' /\ FencesInv'
  BY <1>1, <1>2 DEF ResultInv, Recorded, Tells, Over, E!InLoop, FencesInv, Entered
<1>8. CompletionInv'
  BY <1>1, <1>2 DEF CompletionInv, Over, E!InLoop, StepsClosed, Verified
<1> QED
  BY <1>3, <1>4, <1>5, <1>6, <1>7, <1>8 DEF ExecutionIInv, ExecutionInv

(***************************************************************************)
(* The steps of the plan                                                   *)
(***************************************************************************)

StepStatus == {"ABSENT", "RESERVED", "RUNNING", "SUCCEEDED", "FAILED"}

\* The call in the loop writes the row of a step, or acts on the world.
LEMMA LoopStep ==
  ASSUME ExecutionIInv, NEW c \in Caller, E!InLoop(c),
         call' \in [Caller -> E!CallState], \A d \in Caller \ {c} : call'[d] = call[d],
         step' \in [Step -> StepStatus], actuations' \in [Step -> Nat],
         UNCHANGED <<E!runVars, E!fenceVars, E!proofVars, memory, faults>>,
         CallInv(c)', StepInv'
  PROVE  ExecutionIInv'
<1>1. /\ E!TypeOK /\ LeaseInv /\ CallInv(c) /\ Entered(c) /\ ~Over /\ state # "APPROVED"
      /\ EntryInv /\ ResultInv /\ CompletionInv
  BY DEF ExecutionIInv, ExecutionInv, Entered, Over, EntryInv
<1>2. /\ state' = state /\ attempts' = attempts /\ result' = result /\ leases' = leases /\ fences' = fences
      /\ outcomes' = outcomes /\ completed' = completed /\ verdict' = verdict
      /\ memory' = memory /\ faults' = faults
  BY DEF E!runVars, E!fenceVars, E!proofVars
<1>3. E!TypeOK' /\ LeaseInv'
  BY <1>1, <1>2 DEF E!TypeOK, LeaseInv, Step, StepStatus
<1>4. \A t : (HasAttempt(t) => HasAttempt(t)') /\ (Verified(t) => Verified(t)')
  BY <1>2 DEF HasAttempt, Verified
<1>5. \A d \in Caller \ {c} : CallInv(d)'
  BY <1>2, <1>4, OthersKeep
<1>6. \A d \in Caller : Entered(d)' => Entered(d)
  BY <1>1 DEF Entered, E!InLoop
<1>7. EntryInv'
  BY <1>1, <1>2, <1>6 DEF EntryInv
<1>8. ResultInv'
  <2>1. result = E!NoResult /\ \A d \in Caller : memory[d].result = E!NoResult
    BY <1>1 DEF ResultInv
  <2> QED
    BY <1>2, <2>1 DEF ResultInv, Recorded
<1>9. FencesInv'
  BY <1>2, <1>6, FencesStay
<1>a. CompletionInv'
  BY <1>1, <1>2 DEF CompletionInv
<1> QED
  BY <1>3, <1>5, <1>7, <1>8, <1>9, <1>a DEF ExecutionIInv, ExecutionInv

\* The row of one step is written, which had not come to an end.
LEMMA StepWritten ==
  ASSUME E!TypeOK, StepInv, NEW k \in Step, NEW s \in StepStatus,
         step[k] \notin {"SUCCEEDED", "FAILED"} \/ s = step[k],
         step' = [step EXCEPT ![k] = s], actuations' = actuations
  PROVE  /\ StepInv'
         /\ step' \in [Step -> StepStatus] /\ actuations' \in [Step -> Nat]
         /\ step'[k] = s /\ (\A i \in Step \ {k} : step'[i] = step[i])
         /\ \A i \in Step : /\ step[i] = "SUCCEEDED" => step'[i] = "SUCCEEDED"
                            /\ step[i] = "FAILED" => step'[i] = "FAILED"
                            /\ i # k /\ Untouched(i) => Untouched(i)'
<1>1. step \in [Step -> StepStatus] /\ actuations \in [Step -> Nat]
  BY DEF E!TypeOK, Step, StepStatus
<1>2. /\ step' \in [Step -> StepStatus] /\ actuations' \in [Step -> Nat]
      /\ step'[k] = s /\ (\A i \in Step \ {k} : step'[i] = step[i])
  BY <1>1
<1>3. \A i \in Step : /\ step[i] = "SUCCEEDED" => step'[i] = "SUCCEEDED"
                      /\ step[i] = "FAILED" => step'[i] = "FAILED"
                      /\ i # k /\ Untouched(i) => Untouched(i)'
  BY <1>2 DEF Untouched
<1>4. StepInv'
  BY <1>3, Constants DEF StepInv, E!FailureStopsTheRest
<1> QED
  BY <1>2, <1>3, <1>4

\* Where the call is in the plan, after its step was written.
LEMMA PositionStays ==
  ASSUME E!TypeOK, NEW c \in Caller, Position(c),
         call'[c].key = call[c].key, call'[c].failed = call[c].failed,
         \A i \in Step : /\ step[i] = "SUCCEEDED" => step'[i] = "SUCCEEDED"
                         /\ step[i] = "FAILED" => step'[i] = "FAILED"
                         /\ i # call[c].key /\ Untouched(i) => Untouched(i)'
  PROVE  Position(c)'
<1> DEFINE k == call[c].key
<1>1. k \in Step
  BY DEF Position
<1>2. CASE k \in E!Ordinary
  <2>1. /\ call[c].failed = 0
        /\ \A i \in E!Ordinary : (i < k => step[i] = "SUCCEEDED") /\ (k < i => Untouched(i))
        /\ \A i \in E!Rollback : Untouched(i)
    BY <1>2 DEF Position
  <2>2. k \notin E!Rollback /\ \A i \in E!Ordinary : i \in Step /\ (k < i => i # k)
    BY <1>2, RunAssumption DEF Step, E!Ordinary, E!Rollback
  <2>3. \A i \in E!Ordinary : (i < k => step'[i] = "SUCCEEDED") /\ (k < i => Untouched(i)')
    BY <2>1, <2>2
  <2>4. \A i \in E!Rollback : Untouched(i)'
    BY <2>1, <2>2, Constants
  <2> QED
    BY <1>1, <2>1, <2>2, <2>3, <2>4 DEF Position
<1>3. CASE k \in E!Rollback
  <2>1. /\ call[c].failed \in Reversible /\ step[call[c].failed] = "FAILED"
        /\ \A i \in E!Rollback : (i < k => step[i] = "SUCCEEDED") /\ (k < i => Untouched(i))
    BY <1>3 DEF Position
  <2>2. /\ k \notin E!Ordinary /\ call[c].failed \in Step
        /\ \A i \in E!Rollback : i \in Step /\ (k < i => i # k)
    <3>1. call[c].failed \in Step
      BY <2>1, Constants
    <3>2. k \notin E!Ordinary /\ \A i \in E!Rollback : i \in Step /\ (k < i => i # k)
      BY <1>3, RunAssumption DEF Step, E!Ordinary, E!Rollback
    <3> QED
      BY <3>1, <3>2
  <2>3. \A i \in E!Rollback : (i < k => step'[i] = "SUCCEEDED") /\ (k < i => Untouched(i)')
    BY <2>1, <2>2
  <2>4. step'[call[c].failed] = "FAILED"
    BY <2>1, <2>2
  <2> QED
    BY <1>1, <2>1, <2>2, <2>3, <2>4 DEF Position
<1> QED
  BY <1>1, <1>2, <1>3 DEF Step

\* A call goes on in the loop, behind the write or act at its step.
LEMMA LoopGoesOn ==
  ASSUME ExecutionIInv, NEW c \in Caller, InPipeline(c), NEW p \in E!PC, E!Goto(c, p),
         step' \in [Step -> StepStatus], actuations' \in [Step -> Nat],
         \A i \in Step : /\ step[i] = "SUCCEEDED" => step'[i] = "SUCCEEDED"
                         /\ step[i] = "FAILED" => step'[i] = "FAILED"
                         /\ i # call[c].key /\ Untouched(i) => Untouched(i)',
         UNCHANGED <<E!runVars, E!fenceVars, E!proofVars, memory, faults>>, StepInv',
         \/ p \in {"running", "actuate"} /\ actuations'[call[c].key] = 0
         \/ p = "complete"
         \/ p = "settle" /\ step'[call[c].key] = "SUCCEEDED"
         \/ p = "fail" /\ call[c].key \in E!Ordinary
         \/ p = "contain"
  PROVE  ExecutionIInv'
<1>1. E!TypeOK /\ CallInv(c) /\ E!InLoop(c) /\ Position(c) /\ call[c].phase = "execution"
  BY CaughtWhere DEF ExecutionIInv, ExecutionInv, CallInv, LoopInv
<1>2. /\ call' \in [Caller -> E!CallState] /\ \A d \in Caller \ {c} : call'[d] = call[d]
      /\ call'[c].pc = p /\ call'[c].phase = call[c].phase /\ call'[c].token = call[c].token
      /\ call'[c].key = call[c].key /\ call'[c].failed = call[c].failed
      /\ call'[c].contained = call[c].contained
  BY <1>1, Going
<1>3. Position(c)'
  BY <1>1, <1>2, PositionStays
<1>4. PhaseInv(c)' /\ EndInv(c)' /\ VerifyInv(c)'
  BY <1>1, <1>2 DEF CallInv, PhaseInv, EndInv, VerifyInv, E!InLoop, HasAttempt, E!runVars
<1>5. ~call[c].contained
  BY <1>1 DEF CallInv, LoopInv, InPipeline
<1>6. LoopInv(c)'
  BY <1>2, <1>3, <1>5 DEF LoopInv, E!InLoop, InPipeline
<1> QED
  BY <1>1, <1>2, <1>4, <1>6, LoopStep DEF CallInv

LEMMA ReserveStep ==
  ASSUME ExecutionIInv, NEW c \in Caller, E!Reserve(c)
  PROVE  ExecutionIInv'
<1> DEFINE k == call[c].key
<1>1. /\ E!TypeOK /\ StepInv /\ CallInv(c) /\ call[c].pc = "reserve" /\ InPipeline(c)
      /\ step[k] = "ABSENT" /\ actuations[k] = 0
  BY DEF ExecutionIInv, ExecutionInv, E!Reserve, E!At, InPipeline, CallInv, LoopInv, Untouched
<1>2. k \in Step
  BY <1>1, CaughtWhere
<1>3. /\ step' = [step EXCEPT ![k] = "RESERVED"] /\ actuations' = actuations
      /\ E!Goto(c, "running") /\ "running" \in E!PC /\ "RESERVED" \in StepStatus
      /\ UNCHANGED <<E!runVars, E!fenceVars, E!proofVars, memory, faults>>
  BY <1>1 DEF E!Reserve, E!PC, StepStatus
<1> QED
  BY <1>1, <1>2, <1>3, StepWritten, LoopGoesOn

LEMMA MarkRunningStep ==
  ASSUME ExecutionIInv, NEW c \in Caller, E!MarkRunning(c)
  PROVE  ExecutionIInv'
<1> DEFINE k == call[c].key
           s == IF step[k] = "RESERVED" THEN "RUNNING" ELSE step[k]
           p == IF s = "RUNNING" THEN "actuate" ELSE E!Caught(c)
<1>1. /\ E!TypeOK /\ StepInv /\ CallInv(c) /\ call[c].pc = "running" /\ InPipeline(c)
      /\ actuations[k] = 0
  BY DEF ExecutionIInv, ExecutionInv, E!MarkRunning, E!At, InPipeline, CallInv, LoopInv
<1>2. /\ k \in Step /\ E!Caught(c) \in E!PC /\ E!Caught(c) \in {"contain", "fail"}
      /\ E!Caught(c) = "fail" => k \in E!Ordinary
  BY <1>1, CaughtWhere
<1>3. step \in [Step -> StepStatus]
  BY <1>1 DEF E!TypeOK, Step, StepStatus
<1>4. /\ s \in StepStatus /\ p \in E!PC /\ (s = step[k] \/ step[k] \notin {"SUCCEEDED", "FAILED"})
      /\ p = "actuate" \/ (p = "fail" /\ k \in E!Ordinary) \/ p = "contain"
  BY <1>2, <1>3 DEF StepStatus, E!PC
<1>5. step' = [step EXCEPT ![k] = s]
  BY DEF E!MarkRunning
<1>6. step'[k] = s
  BY <1>2, <1>3, <1>5
<1>7. /\ E!Goto(c, p) /\ actuations' = actuations
      /\ UNCHANGED <<E!runVars, E!fenceVars, E!proofVars, memory, faults>>
  BY <1>6 DEF E!MarkRunning
<1> HIDE DEF s, p
<1> QED
  BY <1>1, <1>2, <1>4, <1>5, <1>7, StepWritten, LoopGoesOn

LEMMA CompleteStep ==
  ASSUME ExecutionIInv, NEW c \in Caller, E!Complete(c)
  PROVE  ExecutionIInv'
<1> DEFINE k == call[c].key
           s == IF step[k] = "RUNNING" THEN "SUCCEEDED" ELSE step[k]
           p == IF step[k] = "RUNNING" THEN "settle" ELSE E!Caught(c)
<1>1. E!TypeOK /\ StepInv /\ CallInv(c) /\ call[c].pc = "complete" /\ InPipeline(c)
  BY DEF ExecutionIInv, ExecutionInv, E!Complete, E!At, InPipeline
<1>2. /\ k \in Step /\ E!Caught(c) \in E!PC /\ E!Caught(c) \in {"contain", "fail"}
      /\ E!Caught(c) = "fail" => k \in E!Ordinary
  BY <1>1, CaughtWhere
<1>3. step \in [Step -> StepStatus]
  BY <1>1 DEF E!TypeOK, Step, StepStatus
<1>4. /\ s \in StepStatus /\ p \in E!PC /\ (s = step[k] \/ step[k] \notin {"SUCCEEDED", "FAILED"})
      /\ (p = "settle" /\ s = "SUCCEEDED") \/ (p = "fail" /\ k \in E!Ordinary) \/ p = "contain"
  BY <1>2, <1>3 DEF StepStatus, E!PC
<1>5. /\ step' = [step EXCEPT ![k] = s] /\ E!Goto(c, p) /\ actuations' = actuations
      /\ UNCHANGED <<E!runVars, E!fenceVars, E!proofVars, memory, faults>>
  BY DEF E!Complete
<1> HIDE DEF s, p
<1> QED
  BY <1>1, <1>2, <1>4, <1>5, StepWritten, LoopGoesOn

LEMMA ActuateStep ==
  ASSUME ExecutionIInv, NEW c \in Caller, E!Actuate(c)
  PROVE  ExecutionIInv'
<1> DEFINE k == call[c].key
<1>1. /\ E!TypeOK /\ StepInv /\ CallInv(c) /\ call[c].pc = "actuate" /\ InPipeline(c) /\ Position(c)
      /\ actuations[k] = 0
  BY DEF ExecutionIInv, ExecutionInv, E!Actuate, E!At, InPipeline, CallInv, LoopInv
<1>2. /\ k \in Step /\ E!Caught(c) \in E!PC /\ E!Caught(c) \in {"contain", "fail"}
      /\ (E!Caught(c) = "fail" => k \in E!Ordinary) /\ "complete" \in E!PC
  BY <1>1, CaughtWhere DEF E!PC
<1>3. /\ actuations' = [actuations EXCEPT ![k] = @ + 1] /\ step' = step
      /\ UNCHANGED <<E!runVars, E!fenceVars, E!proofVars, memory, faults>>
  BY DEF E!Actuate
<1>4. /\ step \in [Step -> StepStatus] /\ actuations \in [Step -> Nat]
  BY <1>1 DEF E!TypeOK, Step, StepStatus
<1>5. /\ step' \in [Step -> StepStatus] /\ actuations' \in [Step -> Nat] /\ actuations'[k] = 1
      /\ \A i \in Step \ {k} : actuations'[i] = actuations[i]
  BY <1>1, <1>2, <1>3, <1>4
<1>6. \A i \in Step : i # k /\ Untouched(i) => Untouched(i)'
  BY <1>3, <1>5 DEF Untouched
<1>7. StepInv'
  <2>1. \A i \in Step : actuations'[i] <= 1
    BY <1>1, <1>5 DEF StepInv
  <2>2. ASSUME NEW i \in E!Ordinary, NEW j \in E!Ordinary, i < j, actuations'[j] > 0
        PROVE  step[i] = "SUCCEEDED"
    <3>1. CASE j = k
      BY <1>1, <2>2, <3>1 DEF Position
    <3>2. CASE j # k
      BY <1>1, <1>5, <2>2, <3>2, Constants DEF StepInv, E!FailureStopsTheRest
    <3> QED
      BY <3>1, <3>2
  <2>3. ASSUME NEW j \in E!Rollback, actuations'[j] > 0
        PROVE  /\ \E i \in Reversible : step[i] = "FAILED"
               /\ \A i \in E!Rollback : i < j => step[i] = "SUCCEEDED"
    <3>1. CASE j = k
      BY <1>1, <3>1 DEF Position
    <3>2. CASE j # k
      BY <1>1, <1>5, <2>3, <3>2, Constants DEF StepInv, E!FailureStopsTheRest
    <3> QED
      BY <3>1, <3>2
  <2> QED
    BY <1>3, <2>1, <2>2, <2>3 DEF StepInv, E!FailureStopsTheRest
<1>8. E!Goto(c, "complete") \/ E!Goto(c, E!Caught(c))
  BY DEF E!Actuate
<1> QED
  BY <1>1, <1>2, <1>3, <1>5, <1>6, <1>7, <1>8, LoopGoesOn

LEMMA FailStep ==
  ASSUME ExecutionIInv, NEW c \in Caller, E!Fail(c)
  PROVE  ExecutionIInv'
<1> DEFINE k == call[c].key
<1>1. /\ E!TypeOK /\ StepInv /\ CallInv(c) /\ call[c].pc = "fail" /\ InPipeline(c) /\ E!InLoop(c)
      /\ Position(c) /\ k \in E!Ordinary /\ ~call[c].contained /\ call[c].phase = "execution"
  BY DEF ExecutionIInv, ExecutionInv, E!Fail, E!At, InPipeline, E!InLoop, CallInv, LoopInv, PhaseInv
<1>2. UNCHANGED <<E!runVars, E!fenceVars, E!proofVars, memory, faults>> /\ actuations' = actuations
  BY DEF E!Fail
<1>3. CASE E!Goto(c, "failing") /\ UNCHANGED step
  BY <1>1, <1>2, <1>3, QuietFailing DEF E!TypeOK, E!stepVars
<1>4. CASE /\ step[k] \in {"ABSENT", "RESERVED", "RUNNING"}
           /\ step' = [step EXCEPT ![k] = "FAILED"]
           /\ call' = [call EXCEPT ![c].pc = "rollback", ![c].failed = k]
  <2>1. k \in Step /\ k \in 0 .. Steps /\ k # 0 /\ "FAILED" \in StepStatus /\ "rollback" \in E!PC
        /\ k \notin E!Rollback
    BY <1>1, Constants DEF StepStatus, E!PC, E!Ordinary
  <2> HIDE DEF k
  <2>2. /\ StepInv' /\ step' \in [Step -> StepStatus] /\ actuations' \in [Step -> Nat]
        /\ step'[k] = "FAILED"
        /\ \A i \in Step : i # k /\ Untouched(i) => Untouched(i)'
    <3>1. step[k] \notin {"SUCCEEDED", "FAILED"} /\ step' = [step EXCEPT ![k] = "FAILED"]
      BY <1>4
    <3> QED
      BY <1>1, <1>2, <2>1, <3>1, StepWritten
  <2>3. call' = [call EXCEPT ![c] = [@ EXCEPT !.pc = "rollback", !.failed = k]]
    BY <1>1, <1>4, CallTypes DEF E!CallState
  <2>4. /\ call'[c] = [call[c] EXCEPT !.pc = "rollback", !.failed = k]
        /\ \A d \in Caller \ {c} : call'[d] = call[d]
    BY <1>1, <2>3, CallTypes
  <2>5. call' \in [Caller -> E!CallState]
    <3>1. call[c] \in E!CallState /\ call \in [Caller -> E!CallState]
      BY <1>1, CallTypes
    <3>2. [call[c] EXCEPT !.pc = "rollback", !.failed = k] \in E!CallState
      BY <2>1, <3>1 DEF E!CallState
    <3> QED
      BY <2>3, <3>1, <3>2
  <2>6. /\ call'[c].pc = "rollback" /\ call'[c].phase = call[c].phase
        /\ call'[c].token = call[c].token /\ call'[c].failed = k
        /\ call'[c].contained = call[c].contained
    BY <1>1, <2>4, CallTypes DEF E!CallState
  <2>7. \A i \in E!Rollback : Untouched(i)'
    <3>1. \A i \in E!Rollback : Untouched(i) /\ i # k /\ i \in Step
      BY <1>1, <2>1, Constants DEF Position, k
    <3> QED
      BY <2>2, <3>1
  <2>8. LoopInv(c)'
    BY <1>1, <2>2, <2>6, <2>7 DEF LoopInv, E!InLoop, InPipeline
  <2>9. PhaseInv(c)' /\ EndInv(c)' /\ VerifyInv(c)'
    BY <1>1, <1>2, <2>6 DEF CallInv, PhaseInv, EndInv, VerifyInv, E!InLoop, HasAttempt, E!runVars
  <2> QED
    BY <1>1, <1>2, <2>2, <2>4, <2>5, <2>8, <2>9, LoopStep DEF CallInv
<1> QED
  BY <1>3, <1>4 DEF E!Fail

(***************************************************************************)
(* Attempts and the run                                                    *)
(***************************************************************************)

LEMMA AttemptsGrow ==
  ASSUME NEW T, NEW a, attempts \in Seq(T), a \in T, attempts' = Append(attempts, a)
  PROVE  /\ attempts' \in Seq(T)
         /\ \A i \in DOMAIN attempts : i \in DOMAIN attempts' /\ attempts'[i] = attempts[i]
         /\ \E i \in DOMAIN attempts' : attempts'[i] = a
<1>1. /\ attempts' \in Seq(T) /\ Len(attempts') = Len(attempts) + 1
      /\ \A i \in 1 .. Len(attempts) : attempts'[i] = attempts[i]
      /\ attempts'[Len(attempts) + 1] = a
  BY AppendProperties
<1>2. /\ Len(attempts) \in Nat /\ DOMAIN attempts = 1 .. Len(attempts)
      /\ DOMAIN attempts' = 1 .. Len(attempts')
  BY <1>1, LenProperties
<1> QED
  BY <1>1, <1>2

LEMMA SaveAttemptStep ==
  ASSUME ExecutionIInv, NEW c \in Caller, E!SaveAttempt(c)
  PROVE  ExecutionIInv'
<1> DEFINE a == [token |-> call[c].token, status |-> "IN_PROGRESS"]
<1>1. /\ E!TypeOK /\ LeaseInv /\ CallInv(c) /\ call[c].pc = "attempt"
      /\ EntryInv /\ StepInv /\ ResultInv /\ FencesInv /\ CompletionInv
  BY DEF ExecutionIInv, ExecutionInv, E!SaveAttempt, E!At
<1>2. a \in E!Attempt /\ a.token = call[c].token /\ attempts \in Seq(E!Attempt)
  BY <1>1, CallTypes DEF E!Attempt, E!TypeOK
<1>3. E!Goto(c, "start") /\ "start" \in E!PC /\ attempts' = Append(attempts, a)
  BY DEF E!SaveAttempt, E!PC
<1>4. /\ state' = state /\ result' = result /\ leases' = leases /\ fences' = fences /\ step' = step
      /\ actuations' = actuations /\ outcomes' = outcomes /\ completed' = completed
      /\ verdict' = verdict /\ memory' = memory /\ faults' = faults
  BY DEF E!SaveAttempt, E!fenceVars, E!stepVars, E!proofVars
<1> HIDE DEF a
<1>5. /\ attempts' \in Seq(E!Attempt)
      /\ \A i \in DOMAIN attempts : i \in DOMAIN attempts' /\ attempts'[i] = attempts[i]
      /\ \E i \in DOMAIN attempts' : attempts'[i] = a
  BY <1>2, <1>3, AttemptsGrow
<1>6. /\ call' \in [Caller -> E!CallState] /\ \A d \in Caller \ {c} : call'[d] = call[d]
      /\ call'[c].pc = "start" /\ call'[c].phase = call[c].phase /\ call'[c].token = call[c].token
      /\ call'[c].failed = call[c].failed /\ call'[c].contained = call[c].contained
  BY <1>1, <1>3, Going
<1>7. E!TypeOK'
  BY <1>1, <1>4, <1>5, <1>6 DEF E!TypeOK
<1>8. \A t : (HasAttempt(t) => HasAttempt(t)') /\ (Verified(t) => Verified(t)')
  BY <1>5 DEF HasAttempt, Verified
<1>9. ~E!InLoop(c)' /\ ~Entered(c)' /\ ~E!InLoop(c) /\ ~Entered(c)
  BY <1>1, <1>6 DEF E!InLoop, Entered
<1>a. (\A d \in Caller \ {c} : CallInv(d)') /\ (Over => Over') /\ (Over /\ StepsClosed => StepsClosed')
  BY <1>4, <1>6, <1>8, <1>9, OthersKeep DEF E!stepVars
<1>b. CallInv(c)'
  <2>1. HasAttempt(call[c].token)'
    BY <1>2, <1>5, <1>6 DEF HasAttempt
  <2> QED
    BY <1>1, <1>6, <1>9, <2>1
       DEF CallInv, PhaseInv, LoopInv, EndInv, VerifyInv, InPipeline, E!InLoop, HasAttempt
<1>c. \A d \in Caller : Entered(d)' <=> Entered(d)
  BY <1>6, <1>9 DEF Entered, E!InLoop
<1>d. EntryInv' /\ StepInv' /\ FencesInv' /\ LeaseInv'
  BY <1>1, <1>4, <1>c
     DEF EntryInv, Untouched, StepInv, E!FailureStopsTheRest, FencesInv, LeaseInv
<1>e. ResultInv'
  <2>1. \A r : Recorded(r) => Recorded(r)'
    BY <1>4, <1>5 DEF Recorded, Tells
  <2> QED
    BY <1>1, <1>4, <1>a, <2>1 DEF ResultInv, Recorded
<1>f. CompletionInv'
  BY <1>1, <1>4, <1>8, <1>a DEF CompletionInv
<1> QED
  BY <1>7, <1>a, <1>b, <1>d, <1>e, <1>f DEF ExecutionIInv, ExecutionInv

LEMMA StartStep ==
  ASSUME ExecutionIInv, NEW c \in Caller, E!Start(c)
  PROVE  ExecutionIInv'
<1>1. /\ E!TypeOK /\ LeaseInv /\ CallInv(c) /\ call[c].pc = "start"
      /\ EntryInv /\ StepInv /\ ResultInv /\ FencesInv /\ CompletionInv
  BY DEF ExecutionIInv, ExecutionInv, E!Start, E!At
<1>2. CASE UNCHANGED state /\ E!Goto(c, "failing")
  BY <1>1, <1>2, QuietFailing DEF E!Start, E!TypeOK, E!runVars
<1>3. CASE state = "APPROVED" /\ state' = "EXECUTING" /\ E!Goto(c, "ledger")
  <2>1. /\ attempts' = attempts /\ result' = result /\ leases' = leases /\ fences' = fences
        /\ step' = step /\ actuations' = actuations /\ outcomes' = outcomes
        /\ completed' = completed /\ verdict' = verdict /\ memory' = memory /\ faults' = faults
    BY DEF E!Start, E!fenceVars, E!stepVars, E!proofVars
  <2>2. "ledger" \in E!PC /\ "EXECUTING" \in E!RunState
    BY DEF E!PC, E!RunState
  <2>3. /\ call' \in [Caller -> E!CallState] /\ \A d \in Caller \ {c} : call'[d] = call[d]
        /\ call'[c].pc = "ledger" /\ call'[c].phase = call[c].phase
        /\ call'[c].token = call[c].token /\ call'[c].failed = call[c].failed
        /\ call'[c].contained = call[c].contained
    BY <1>1, <1>3, <2>2, Going
  <2>4. E!TypeOK'
    BY <1>1, <1>3, <2>1, <2>2, <2>3 DEF E!TypeOK
  <2>5. (\A d \in Caller : ~Entered(d)) /\ \A k \in Step : Untouched(k)
    BY <1>1, <1>3 DEF EntryInv
  <2>6. \A t : (HasAttempt(t) => HasAttempt(t)') /\ (Verified(t) => Verified(t)')
    BY <2>1 DEF HasAttempt, Verified
  <2>7. \A d \in Caller \ {c} : CallInv(d)'
    BY <1>3, <2>1, <2>3, <2>6, OthersKeep DEF E!stepVars
  <2>8. CallInv(c)'
    <3>1. \A k \in Step : Untouched(k)'
      BY <2>1, <2>5 DEF Untouched
    <3> QED
      BY <1>1, <2>1, <2>3, <3>1
         DEF CallInv, PhaseInv, LoopInv, EndInv, VerifyInv, InPipeline, E!InLoop, HasAttempt
  <2>9. EntryInv'
    <3>1. \A d \in Caller \ {c} : ~Entered(d)'
      BY <2>3, <2>5 DEF Entered, E!InLoop
    <3> QED
      BY <1>3, <3>1 DEF EntryInv
  <2>a. StepInv' /\ LeaseInv'
    BY <1>1, <2>1 DEF StepInv, E!FailureStopsTheRest, LeaseInv
  <2>b. ResultInv'
    <3>1. result = E!NoResult /\ \A d \in Caller : memory[d].result = E!NoResult
      BY <1>1, <1>3 DEF ResultInv, Over
    <3> QED
      BY <2>1, <3>1 DEF ResultInv, Recorded
  <2>c. FencesInv'
    BY <1>1, <1>3, <2>1 DEF FencesInv
  <2>d. CompletionInv'
    BY <1>1, <1>3, <2>1 DEF CompletionInv
  <2> QED
    BY <2>4, <2>7, <2>8, <2>9, <2>a, <2>b, <2>c, <2>d DEF ExecutionIInv, ExecutionInv
<1> QED
  BY <1>2, <1>3 DEF E!Start

LEMMA ContainStep ==
  ASSUME ExecutionIInv, NEW c \in Caller, E!Contain(c)
  PROVE  ExecutionIInv'
<1>1. /\ E!TypeOK /\ LeaseInv /\ CallInv(c) /\ call[c].pc = "contain" /\ E!InLoop(c) /\ Entered(c)
      /\ EntryInv /\ StepInv /\ ResultInv /\ FencesInv /\ CompletionInv
  BY DEF ExecutionIInv, ExecutionInv, E!Contain, E!At, E!InLoop, Entered
<1>2. CASE UNCHANGED state /\ E!Goto(c, "failing")
  BY <1>1, <1>2, QuietFailing DEF E!Contain, E!TypeOK, E!runVars
<1>3. CASE /\ state \in {"EXECUTING", "CONTAINED"} /\ state' = "CONTAINED"
           /\ call' = [call EXCEPT ![c].pc = "finish", ![c].contained = TRUE]
  <2>1. /\ attempts' = attempts /\ result' = result /\ leases' = leases /\ fences' = fences
        /\ step' = step /\ actuations' = actuations /\ outcomes' = outcomes
        /\ completed' = completed /\ verdict' = verdict /\ memory' = memory /\ faults' = faults
    BY DEF E!Contain, E!fenceVars, E!stepVars, E!proofVars
  <2>2. call' = [call EXCEPT ![c] = [@ EXCEPT !.pc = "finish", !.contained = TRUE]]
    BY <1>1, <1>3, CallTypes DEF E!CallState
  <2>3. [call[c] EXCEPT !.pc = "finish", !.contained = TRUE] \in E!CallState
    <3>1. "finish" \in E!PC
      BY DEF E!PC
    <3>2. call[c] \in E!CallState
      BY <1>1, CallTypes
    <3> QED
      BY <3>1, <3>2 DEF E!CallState
  <2>4. /\ call' \in [Caller -> E!CallState] /\ \A d \in Caller \ {c} : call'[d] = call[d]
        /\ call'[c] = [call[c] EXCEPT !.pc = "finish", !.contained = TRUE]
    <3>1. call \in [Caller -> E!CallState]
      BY <1>1, CallTypes
    <3> QED
      BY <2>2, <2>3, <3>1
  <2>5. /\ call'[c].pc = "finish" /\ call'[c].phase = call[c].phase
        /\ call'[c].token = call[c].token /\ call'[c].contained = TRUE
    BY <1>1, <2>4, CallTypes DEF E!CallState
  <2>6. E!TypeOK'
    BY <1>1, <1>3, <2>1, <2>4 DEF E!TypeOK, E!RunState
  <2>7. \A t : (HasAttempt(t) => HasAttempt(t)') /\ (Verified(t) => Verified(t)')
    BY <2>1 DEF HasAttempt, Verified
  <2>8. \A d \in Caller \ {c} : CallInv(d)'
    BY <1>1, <1>3, <2>1, <2>4, <2>7, OthersKeep DEF E!stepVars
  <2>9. CallInv(c)'
    <3>1. E!Concluded(c)' = "CONTAINED"
      BY <2>5 DEF E!Concluded
    <3>2. Tells(E!Concluded(c))'
      BY <1>3, <3>1 DEF Tells
    <3> QED
      BY <1>1, <2>1, <2>5, <3>2
         DEF CallInv, PhaseInv, LoopInv, EndInv, VerifyInv, InPipeline, E!InLoop, HasAttempt
  <2>a. \A d \in Caller : Entered(d)' <=> Entered(d)
    BY <1>1, <2>4, <2>5 DEF Entered, E!InLoop
  <2>b. EntryInv' /\ StepInv' /\ LeaseInv'
    BY <1>1, <1>3, <2>1, <2>a DEF EntryInv, StepInv, E!FailureStopsTheRest, LeaseInv
  <2>c. result = E!NoResult /\ (\A d \in Caller : memory[d].result = E!NoResult) /\ completed = 0
    BY <1>1 DEF ResultInv, Over, CompletionInv
  <2>d. ResultInv'
    BY <2>1, <2>c DEF ResultInv, Recorded
  <2>e. FencesInv'
    BY <1>1, <2>1 DEF FencesInv
  <2>f. CompletionInv'
    BY <1>1, <1>3, <2>1, <2>c DEF CompletionInv
  <2> QED
    BY <2>6, <2>8, <2>9, <2>b, <2>d, <2>e, <2>f DEF ExecutionIInv, ExecutionInv
<1> QED
  BY <1>2, <1>3 DEF E!Contain

\* The attempts of a lease get the result of the loop.
LEMMA AttemptsConclude ==
  ASSUME NEW T, NEW a \in T, attempts \in Seq(T),
         attempts' = [i \in DOMAIN attempts |->
                        IF attempts[i].token = a.token THEN a ELSE attempts[i]]
  PROVE  /\ attempts' \in Seq(T) /\ DOMAIN attempts' = DOMAIN attempts
         /\ \A i \in DOMAIN attempts :
              attempts'[i] = IF attempts[i].token = a.token THEN a ELSE attempts[i]
<1> DEFINE n == Len(attempts)
<1>1. n \in Nat /\ attempts \in [1 .. n -> T] /\ DOMAIN attempts = 1 .. n
  BY LenProperties
<1> HIDE DEF n
<1>2. attempts' \in [1 .. n -> T]
  BY <1>1
<1>3. attempts' \in Seq(T)
  BY <1>1, <1>2
<1> QED
  BY <1>1, <1>3

LEMMA FinishStep ==
  ASSUME ExecutionIInv, NEW c \in Caller, E!Finish(c)
  PROVE  ExecutionIInv'
<1> DEFINE a == Last(c)
<1>1. /\ E!TypeOK /\ LeaseInv /\ CallInv(c) /\ call[c].pc = "finish" /\ E!InLoop(c) /\ Entered(c)
      /\ EntryInv /\ StepInv /\ ResultInv /\ FencesInv /\ CompletionInv
  BY DEF ExecutionIInv, ExecutionInv, E!Finish, E!At, E!InLoop, Entered
<1>2. /\ a \in E!Attempt /\ a \in E!Result /\ a.token = call[c].token /\ a.status = E!Concluded(c)
      /\ attempts \in Seq(E!Attempt) /\ a.token # 0 /\ HasAttempt(a.token) /\ Tells(a.status)
      /\ call[c].phase = "execution"
  BY <1>1, CallTypes
     DEF Last, E!Attempt, E!Result, E!Status, E!Concluded, E!TypeOK, CallInv, PhaseInv, EndInv
<1>3. /\ attempts' = [i \in DOMAIN attempts |->
                        IF attempts[i].token = a.token THEN a ELSE attempts[i]]
      /\ memory' = [memory EXCEPT ![c].result = a]
      /\ E!Goto(c, "store") /\ "store" \in E!PC
  BY DEF E!Finish, E!PC, Last
<1>4. /\ state' = state /\ result' = result /\ leases' = leases /\ fences' = fences /\ step' = step
      /\ actuations' = actuations /\ outcomes' = outcomes /\ completed' = completed
      /\ verdict' = verdict /\ faults' = faults
  BY DEF E!Finish, E!fenceVars, E!stepVars, E!proofVars
<1>5. /\ call' \in [Caller -> E!CallState] /\ \A d \in Caller \ {c} : call'[d] = call[d]
      /\ call'[c].pc = "store" /\ call'[c].phase = "execution" /\ Last(c)' = a
      /\ call'[c].token = call[c].token
  <2>1. /\ call' \in [Caller -> E!CallState] /\ \A d \in Caller \ {c} : call'[d] = call[d]
        /\ call'[c].pc = "store" /\ call'[c].phase = "execution"
        /\ call'[c].token = call[c].token /\ call'[c].failed = call[c].failed
        /\ call'[c].contained = call[c].contained
    BY <1>1, <1>2, <1>3, Going
  <2> QED
    BY <2>1 DEF Last, E!Concluded
<1> HIDE DEF a
<1>6. /\ attempts' \in Seq(E!Attempt) /\ DOMAIN attempts' = DOMAIN attempts
      /\ \A i \in DOMAIN attempts :
           attempts'[i] = IF attempts[i].token = a.token THEN a ELSE attempts[i]
  BY <1>2, <1>3, AttemptsConclude
<1>7. /\ memory' \in [Caller -> E!Memory] /\ memory'[c].result = a
      /\ \A d \in Caller \ {c} : memory'[d] = memory[d]
  <2>1. memory \in [Caller -> E!Memory] /\ memory' = [memory EXCEPT ![c] = [@ EXCEPT !.result = a]]
    BY <1>1, <1>3 DEF E!TypeOK
  <2>2. memory[c] \in E!Memory /\ [memory[c] EXCEPT !.result = a] \in E!Memory
        /\ [memory[c] EXCEPT !.result = a].result = a
    BY <1>2, <2>1 DEF E!Memory
  <2> QED
    BY <2>1, <2>2
<1>8. E!TypeOK'
  BY <1>1, <1>4, <1>5, <1>6, <1>7 DEF E!TypeOK
<1>9. \A t : HasAttempt(t) => HasAttempt(t)'
  BY <1>6 DEF HasAttempt
<1>a. ~Over /\ ~E!InLoop(c)' /\ Entered(c)'
  BY <1>1, <1>5 DEF Over, E!InLoop, Entered
<1>b. \A d \in Caller \ {c} : CallInv(d)'
  BY <1>1, <1>4, <1>5, <1>7, <1>9, <1>a, OthersKeep DEF E!stepVars
<1>c. CallInv(c)'
  BY <1>2, <1>5, <1>7 DEF CallInv, PhaseInv, LoopInv, EndInv, VerifyInv, InPipeline, E!InLoop
<1>d. \A d \in Caller : Entered(d)' <=> Entered(d)
  BY <1>1, <1>5, <1>a DEF Entered, E!InLoop
<1>e. EntryInv' /\ StepInv' /\ FencesInv' /\ LeaseInv'
  BY <1>1, <1>4, <1>d
     DEF EntryInv, Untouched, StepInv, E!FailureStopsTheRest, FencesInv, LeaseInv
<1>f. ResultInv'
  <2>1. result = E!NoResult /\ (\A d \in Caller : memory[d].result = E!NoResult)
    BY <1>1, <1>a DEF ResultInv
  <2>2. Recorded(memory[c].result)'
    <3>1. \E i \in DOMAIN attempts' : attempts'[i] = a
      BY <1>2, <1>6 DEF HasAttempt
    <3>2. Tells(a.status) => (CASE a.status = "SUCCEEDED" -> \A i \in E!Ordinary : step'[i] = "SUCCEEDED"
                                [] a.status = "PARTIAL" ->
                                     /\ \E i \in Reversible : step'[i] = "FAILED"
                                     /\ \A k \in E!Rollback : step'[k] = "SUCCEEDED"
                                [] a.status = "CONTAINED" -> state' = "CONTAINED"
                                [] OTHER -> TRUE)
      BY <1>4 DEF Tells
    <3> QED
      BY <1>2, <1>7, <3>1, <3>2 DEF Recorded, Tells
  <2>3. \A d \in Caller \ {c} : ~E!InLoop(d)'
    BY <1>1, <1>5 DEF EntryInv, Entered, E!InLoop
  <2>4. Over'
    BY <1>1, <1>4, <1>a, <2>3 DEF Over, EntryInv
  <2> QED
    BY <1>4, <1>7, <2>1, <2>2, <2>4 DEF ResultInv, Recorded
<1>g. CompletionInv'
  BY <1>1, <1>4, <1>a DEF CompletionInv
<1> QED
  BY <1>8, <1>b, <1>c, <1>e, <1>f, <1>g DEF ExecutionIInv, ExecutionInv

LEMMA StoreStep ==
  ASSUME ExecutionIInv, NEW c \in Caller, E!Store(c)
  PROVE  ExecutionIInv'
<1>1. /\ E!TypeOK /\ LeaseInv /\ CallInv(c) /\ call[c].pc = "store" /\ ~E!InLoop(c)
      /\ EntryInv /\ StepInv /\ ResultInv /\ FencesInv /\ CompletionInv
  BY DEF ExecutionIInv, ExecutionInv, E!Store, E!At, E!InLoop
<1>2. /\ state' = state /\ attempts' = attempts /\ leases' = leases /\ fences' = fences /\ step' = step
      /\ actuations' = actuations /\ outcomes' = outcomes /\ completed' = completed
      /\ memory' = memory /\ faults' = faults
      /\ E!Goto(c, "mark") /\ "mark" \in E!PC
  BY DEF E!Store, E!fenceVars, E!stepVars, E!PC
<1>3. /\ call' \in [Caller -> E!CallState] /\ \A d \in Caller \ {c} : call'[d] = call[d]
      /\ call'[c].pc = "mark" /\ call'[c].phase = call[c].phase /\ call'[c].token = call[c].token
      /\ call'[c].failed = call[c].failed /\ call'[c].contained = call[c].contained
      /\ call'[c].verified = call[c].verified
  BY <1>1, <1>2, Going
<1>4. /\ ~E!InLoop(c)' /\ (Entered(c)' <=> Entered(c))
      /\ \A t : (HasAttempt(t) => HasAttempt(t)') /\ (Verified(t) => Verified(t)')
  BY <1>1, <1>2, <1>3 DEF E!InLoop, Entered, HasAttempt, Verified
<1>5. \A d \in Caller : Entered(d)' <=> Entered(d)
  BY <1>3, <1>4 DEF Entered, E!InLoop
<1>6. EntryInv' /\ StepInv' /\ LeaseInv'
  BY <1>1, <1>2, <1>5 DEF EntryInv, Untouched, StepInv, E!FailureStopsTheRest, LeaseInv
<1>7. ASSUME \/ result' = result
             \/ Entered(c)
                /\ result' = memory[c].result /\ result' # E!NoResult /\ Recorded(memory[c].result),
             result' \in E!Result, verdict' \in E!Outcome \cup {"NONE"},
             verdict # "NONE" => verdict' # "NONE", CallInv(c)'
      PROVE  ExecutionIInv'
  <2>1. E!TypeOK'
    BY <1>1, <1>2, <1>3, <1>7 DEF E!TypeOK
  <2>2. (\A d \in Caller \ {c} : CallInv(d)') /\ (Over => Over') /\ (Over /\ StepsClosed => StepsClosed')
    BY <1>2, <1>3, <1>4, <1>7, OthersKeep DEF E!stepVars
  <2>3. \A r : Recorded(r) => Recorded(r)'
    BY <1>2 DEF Recorded, Tells
  <2>4. Recorded(result)'
    <3>1. Recorded(result) /\ Recorded(memory[c].result)
      BY <1>1 DEF ResultInv
    <3>2. result' = result \/ result' = memory[c].result
      BY <1>7
    <3> QED
      BY <1>2, <3>1, <3>2 DEF Recorded, Tells
  <2>5. ResultInv'
    <3>1. \A d \in Caller : Recorded(memory[d].result)'
      BY <1>1, <1>2 DEF ResultInv, Recorded, Tells
    <3>2. (result' # E!NoResult \/ (\E d \in Caller : memory'[d].result # E!NoResult)) => Over'
      BY <1>1, <1>2, <1>7, <2>2 DEF ResultInv
    <3> QED
      BY <2>4, <3>1, <3>2 DEF ResultInv
  <2>6. FencesInv'
    BY <1>1, <1>2, <1>5, <1>7 DEF FencesInv
  <2>7. CompletionInv'
    BY <1>1, <1>2, <1>4, <2>2 DEF CompletionInv
  <2> QED
    BY <1>6, <1>7, <2>1, <2>2, <2>5, <2>6, <2>7 DEF ExecutionIInv, ExecutionInv
<1>8. CASE call[c].phase = "execution"
  <2>1. result' = memory[c].result /\ verdict' = verdict
    BY <1>8 DEF E!Store
  <2>2. memory[c].result = Last(c) /\ call[c].token # 0 /\ Entered(c)
    BY <1>1, <1>8 DEF CallInv, EndInv, Entered
  <2>3. Last(c)' = Last(c) /\ Last(c) # E!NoResult
    BY <1>3, <2>2 DEF Last, E!Concluded, E!NoResult
  <2>4. CallInv(c)'
    BY <1>3, <1>4, <1>8, <2>1, <2>2, <2>3
       DEF CallInv, PhaseInv, LoopInv, EndInv, VerifyInv, InPipeline
  <2>5. result' \in E!Result /\ verdict' \in E!Outcome \cup {"NONE"} /\ Recorded(memory[c].result)
    BY <1>1, <2>1, CallTypes DEF E!TypeOK, ResultInv
  <2> QED
    BY <1>7, <2>1, <2>2, <2>3, <2>4, <2>5
<1>9. CASE call[c].phase = "verification"
  <2>1. result' = result /\ verdict' = call[c].outcome /\ verdict' # "NONE" /\ result' \in E!Result
        /\ verdict' \in E!Outcome \cup {"NONE"}
    BY <1>1, <1>9, CallTypes DEF E!Store, CallInv, VerifyInv, E!TypeOK
  <2>2. Over /\ StepsClosed
    BY <1>1, <1>9 DEF CallInv, VerifyInv
  <2>3. Over' /\ StepsClosed'
    BY <1>2, <1>3, <1>4, <2>2 DEF Over, StepsClosed, E!InLoop
  <2>4. VerifyInv(c)'
    BY <1>1, <1>3, <1>4, <1>9, <2>1, <2>3 DEF CallInv, VerifyInv, Verified
  <2>5. CallInv(c)'
    BY <1>3, <1>4, <1>9, <2>4 DEF CallInv, PhaseInv, LoopInv, EndInv, InPipeline
  <2> QED
    BY <1>7, <2>1, <2>5
<1> QED
  BY <1>1, <1>8, <1>9, CallTypes DEF E!Phase

\* A verification moves the run, or appends an outcome.
LEMMA VerificationMoves ==
  ASSUME ExecutionIInv, NEW c \in Caller, call[c].phase = "verification", NEW q \in E!PC,
         E!Goto(c, q), q \in {"assess", "store", "escalate"},
         q \in {"store", "escalate"} => call[c].outcome # "NONE",
         UNCHANGED <<attempts, result, verdict, E!fenceVars, E!stepVars, memory, faults>>,
         state' = state \/ (state \in {"EXECUTING", "VERIFYING"} /\ state' \in E!RunState \ {"APPROVED"}),
         outcomes' \in Seq(E!Outcome),
         completed' = completed \/ (completed' = call[c].verified /\ ~call[c].contained),
         (completed' # 0) <=> (state' = "COMPLETED"),
         (state' = "COMPLETED") <=> (\E i \in DOMAIN outcomes' : outcomes'[i] = "VERIFIED_SUCCESS")
  PROVE  ExecutionIInv'
<1>1. /\ E!TypeOK /\ LeaseInv /\ CallInv(c)
      /\ EntryInv /\ StepInv /\ ResultInv /\ FencesInv /\ CompletionInv
  BY DEF ExecutionIInv, ExecutionInv
<1>2. /\ attempts' = attempts /\ leases' = leases /\ fences' = fences /\ step' = step
      /\ actuations' = actuations /\ verdict' = verdict /\ result' = result
      /\ memory' = memory /\ faults' = faults
  BY DEF E!fenceVars, E!stepVars
<1>3. /\ call' \in [Caller -> E!CallState] /\ \A d \in Caller \ {c} : call'[d] = call[d]
      /\ call'[c].pc = q /\ call'[c].phase = "verification"
      /\ call'[c].verified = call[c].verified /\ call'[c].contained = call[c].contained
      /\ call'[c].outcome = call[c].outcome
  BY <1>1, Going
<1>4. /\ VerifyInv(c) /\ Over /\ StepsClosed /\ call[c].verified # 0 /\ call[c].verified \in E!Token
      /\ ~call[c].contained => Verified(call[c].verified)
  BY <1>1, CallTypes DEF CallInv, VerifyInv
<1>5. ~E!InLoop(c)' /\ ~Entered(c)' /\ ~Entered(c)
  BY <1>3, <1>4 DEF Over, E!InLoop, Entered
<1>6. \A t : (HasAttempt(t) => HasAttempt(t)') /\ (Verified(t) => Verified(t)')
  BY <1>2 DEF HasAttempt, Verified
<1>7. E!TypeOK'
  BY <1>1, <1>2, <1>3, <1>4 DEF E!TypeOK
<1>8. (\A d \in Caller \ {c} : CallInv(d)') /\ Over' /\ StepsClosed'
  BY <1>2, <1>3, <1>4, <1>5, <1>6, OthersKeep DEF E!stepVars
<1>9. CallInv(c)'
  <2>1. VerifyInv(c)'
    BY <1>2, <1>3, <1>4, <1>8 DEF VerifyInv, Verified
  <2> QED
    BY <1>3, <1>5, <2>1 DEF CallInv, PhaseInv, LoopInv, EndInv, InPipeline
<1>a. \A d \in Caller : Entered(d)' <=> Entered(d)
  BY <1>3, <1>5 DEF Entered, E!InLoop
<1>b. EntryInv' /\ StepInv' /\ LeaseInv' /\ FencesInv'
  BY <1>1, <1>2, <1>4, <1>a
     DEF EntryInv, Over, StepInv, E!FailureStopsTheRest, LeaseInv, FencesInv
<1>c. ResultInv'
  <2>1. \A r : Recorded(r) => Recorded(r)'
    BY <1>2 DEF Recorded, Tells
  <2> QED
    BY <1>1, <1>2, <1>8, <2>1 DEF ResultInv, Recorded
<1>d. CompletionInv'
  <2>1. completed # 0 => Verified(completed)
    BY <1>1 DEF CompletionInv
  <2>2. completed' # 0 => Verified(completed')
    BY <1>4, <2>1
  <2>3. Verified(completed') => Verified(completed)'
    BY <1>2 DEF Verified
  <2> QED
    BY <1>8, <2>2, <2>3 DEF CompletionInv
<1> QED
  BY <1>7, <1>8, <1>9, <1>b, <1>c, <1>d DEF ExecutionIInv, ExecutionInv

LEMMA EnterVerifyingStep ==
  ASSUME ExecutionIInv, NEW c \in Caller, E!EnterVerifying(c)
  PROVE  ExecutionIInv'
<1>1. /\ E!TypeOK /\ CallInv(c) /\ call[c].pc = "verifying" /\ call[c].phase = "verification"
      /\ CompletionInv /\ "assess" \in E!PC
  BY DEF ExecutionIInv, ExecutionInv, E!EnterVerifying, E!At, CallInv, PhaseInv, E!PC
<1>2. CASE E!Goto(c, "failing") /\ state' = state
  BY <1>1, <1>2, QuietFailing DEF E!EnterVerifying, E!TypeOK, E!runVars
<1>3. CASE E!Goto(c, "assess") /\ (state' = state \/ (state = "EXECUTING" /\ state' = "VERIFYING"))
  <2>1. state' = state \/ (state \in {"EXECUTING", "VERIFYING"} /\ state' \in E!RunState \ {"APPROVED"})
    BY <1>3 DEF E!RunState
  <2>2. completed' = completed /\ outcomes' = outcomes /\ outcomes \in Seq(E!Outcome)
        /\ UNCHANGED <<attempts, result, verdict, E!fenceVars, E!stepVars, memory, faults>>
    BY <1>1 DEF E!EnterVerifying, E!proofVars, E!TypeOK
  <2>3. /\ (completed' # 0) <=> (state' = "COMPLETED")
        /\ (state' = "COMPLETED") <=> (\E i \in DOMAIN outcomes' : outcomes'[i] = "VERIFIED_SUCCESS")
    BY <1>1, <1>3, <2>2 DEF CompletionInv
  <2> QED
    BY <1>1, <1>3, <2>1, <2>2, <2>3, VerificationMoves
<1> QED
  BY <1>2, <1>3 DEF E!EnterVerifying

LEMMA EscalateStep ==
  ASSUME ExecutionIInv, NEW c \in Caller, E!Escalate(c)
  PROVE  ExecutionIInv'
<1>1. /\ E!TypeOK /\ CallInv(c) /\ call[c].pc = "escalate" /\ call[c].phase = "verification"
      /\ CompletionInv /\ "store" \in E!PC /\ call[c].outcome # "NONE"
  BY DEF ExecutionIInv, ExecutionInv, E!Escalate, E!At, CallInv, PhaseInv, VerifyInv, E!PC
<1>2. CASE E!Goto(c, "failing") /\ UNCHANGED state
  BY <1>1, <1>2, QuietFailing DEF E!Escalate, E!TypeOK, E!runVars
<1>3. CASE E!Goto(c, "store") /\ state = "VERIFYING" /\ state' = "ESCALATED"
  <2>1. state' = state \/ (state \in {"EXECUTING", "VERIFYING"} /\ state' \in E!RunState \ {"APPROVED"})
    BY <1>3 DEF E!RunState
  <2>2. completed' = completed /\ outcomes' = outcomes /\ outcomes \in Seq(E!Outcome)
        /\ UNCHANGED <<attempts, result, verdict, E!fenceVars, E!stepVars, memory, faults>>
    BY <1>1 DEF E!Escalate, E!proofVars, E!TypeOK
  <2>3. /\ (completed' # 0) <=> (state' = "COMPLETED")
        /\ (state' = "COMPLETED") <=> (\E i \in DOMAIN outcomes' : outcomes'[i] = "VERIFIED_SUCCESS")
    BY <1>1, <1>3, <2>2 DEF CompletionInv
  <2> QED
    BY <1>1, <1>3, <2>1, <2>2, <2>3, VerificationMoves
<1> QED
  BY <1>2, <1>3 DEF E!Escalate

LEMMA OutcomesGrow ==
  ASSUME NEW o \in E!Outcome, outcomes \in Seq(E!Outcome), outcomes' = Append(outcomes, o)
  PROVE  /\ outcomes' \in Seq(E!Outcome)
         /\ (\E i \in DOMAIN outcomes' : outcomes'[i] = "VERIFIED_SUCCESS")
              <=> (o = "VERIFIED_SUCCESS"
                   \/ \E i \in DOMAIN outcomes : outcomes[i] = "VERIFIED_SUCCESS")
<1>1. /\ outcomes' \in Seq(E!Outcome) /\ Len(outcomes') = Len(outcomes) + 1
      /\ \A i \in 1 .. Len(outcomes) : outcomes'[i] = outcomes[i]
      /\ outcomes'[Len(outcomes) + 1] = o
  BY AppendProperties
<1>2. /\ Len(outcomes) \in Nat /\ DOMAIN outcomes = 1 .. Len(outcomes)
      /\ DOMAIN outcomes' = 1 .. Len(outcomes')
  BY <1>1, LenProperties
<1> QED
  BY <1>1, <1>2

LEMMA RecordStep ==
  ASSUME ExecutionIInv, NEW c \in Caller, E!Record(c)
  PROVE  ExecutionIInv'
<1>1. /\ E!TypeOK /\ CallInv(c) /\ call[c].pc = "record" /\ call[c].phase = "verification"
      /\ CompletionInv /\ "store" \in E!PC /\ "escalate" \in E!PC /\ outcomes \in Seq(E!Outcome)
  BY DEF ExecutionIInv, ExecutionInv, E!Record, E!At, CallInv, PhaseInv, E!PC, E!TypeOK
<1>2. /\ call[c].outcome \in E!Outcome /\ call[c].outcome # "NONE" /\ call[c].verified # 0
      /\ call[c].contained => call[c].outcome # "VERIFIED_SUCCESS"
  BY <1>1, CallTypes DEF CallInv, VerifyInv
<1>3. UNCHANGED <<attempts, result, verdict, E!fenceVars, E!stepVars, memory, faults>>
  BY DEF E!Record
<1>4. CASE E!Goto(c, "failing") /\ UNCHANGED <<outcomes, completed, state>>
  BY <1>1, <1>3, <1>4, QuietFailing DEF E!TypeOK, E!runVars, E!proofVars
<1>5. CASE /\ call[c].outcome = "VERIFIED_SUCCESS" /\ state = "VERIFYING"
           /\ outcomes' = Append(outcomes, "VERIFIED_SUCCESS")
           /\ completed' = call[c].verified /\ state' = "COMPLETED" /\ E!Goto(c, "store")
  <2>1. /\ outcomes' \in Seq(E!Outcome)
        /\ \E i \in DOMAIN outcomes' : outcomes'[i] = "VERIFIED_SUCCESS"
    BY <1>1, <1>2, <1>5, OutcomesGrow
  <2>2. state \in {"EXECUTING", "VERIFYING"} /\ state' \in E!RunState \ {"APPROVED"}
    BY <1>5 DEF E!RunState
  <2>3. (completed' # 0) <=> (state' = "COMPLETED")
    BY <1>2, <1>5
  <2> QED
    BY <1>1, <1>2, <1>3, <1>5, <2>1, <2>2, <2>3, VerificationMoves
<1>6. CASE /\ call[c].outcome # "VERIFIED_SUCCESS"
           /\ outcomes' = Append(outcomes, call[c].outcome)
           /\ (E!Goto(c, "store") \/ E!Goto(c, "escalate")) /\ completed' = completed /\ state' = state
  <2>1. /\ outcomes' \in Seq(E!Outcome)
        /\ (\E i \in DOMAIN outcomes' : outcomes'[i] = "VERIFIED_SUCCESS")
             <=> (\E i \in DOMAIN outcomes : outcomes[i] = "VERIFIED_SUCCESS")
    BY <1>1, <1>2, <1>6, OutcomesGrow
  <2>2. /\ (completed' # 0) <=> (state' = "COMPLETED")
        /\ (state' = "COMPLETED") <=> (\E i \in DOMAIN outcomes' : outcomes'[i] = "VERIFIED_SUCCESS")
    BY <1>1, <1>6, <2>1 DEF CompletionInv
  <2> QED
    BY <1>1, <1>2, <1>3, <1>6, <2>1, <2>2, VerificationMoves
<1> QED
  BY <1>4, <1>5, <1>6 DEF E!Record

(***************************************************************************)
(* The theorems                                                            *)
(***************************************************************************)

LEMMA InitHolds ==
  ASSUME E!Init
  PROVE  ExecutionIInv
<1>1. /\ state = "APPROVED" /\ attempts = <<>> /\ result = E!NoResult /\ outcomes = <<>>
      /\ completed = 0 /\ verdict = "NONE" /\ faults = 0
      /\ step = [k \in Step |-> "ABSENT"] /\ actuations = [k \in Step |-> 0]
  BY DEF E!Init, Step
<1>2. /\ call = [c \in Caller |-> E!Idle]
      /\ \A c \in Caller : call[c].pc = "idle" /\ call[c].phase = "execution"
  BY RestTypes DEF E!Init
<1>3. /\ memory \in [Caller -> E!Memory] /\ \A c \in Caller : memory[c].result = E!NoResult
  <2>1. [E!Blank EXCEPT !.rollbacks = 1] \in E!Memory
        /\ [E!Blank EXCEPT !.rollbacks = 1].result = E!NoResult
    BY RestTypes DEF E!Memory
  <2>2. memory \in [Caller -> {E!Blank, [E!Blank EXCEPT !.rollbacks = 1]}]
    BY DEF E!Init
  <2> QED
    BY <2>1, <2>2, RestTypes
<1>4. /\ leases \in [E!Phase -> E!L!LeaseRow] /\ \A p \in E!Phase : leases[p].token = 0
  <2>1. E!L!NoLease \in E!L!LeaseRow /\ E!L!NoLease.token = 0
    BY DEF E!L!NoLease, E!L!LeaseRow, E!L!LeaseStatus
  <2> QED
    BY <2>1 DEF E!Init
<1>5. /\ fences \in [E!Phase -> E!Fence] /\ \A p \in E!Phase : fences[p].status = "ABSENT"
  <2>1. [status |-> "ABSENT", token |-> 0] \in E!Fence
    BY Constants DEF E!Fence, E!Token
  <2> QED
    BY <2>1 DEF E!Init
<1>6. E!TypeOK
  <2>1. attempts \in Seq(E!Attempt) /\ outcomes \in Seq(E!Outcome)
    BY <1>1, EmptySeq
  <2>2. /\ state \in E!RunState /\ result \in E!Result /\ completed \in E!Token
        /\ verdict \in E!Outcome \cup {"NONE"} /\ faults \in 0 .. MaxFaults
        /\ call \in [Caller -> E!CallState]
    BY <1>1, <1>2, RestTypes, Constants DEF E!RunState, E!Token
  <2>3. /\ step \in [E!Ordinary \cup E!Rollback ->
                       {"ABSENT", "RESERVED", "RUNNING", "SUCCEEDED", "FAILED"}]
        /\ actuations \in [E!Ordinary \cup E!Rollback -> Nat]
    BY <1>1 DEF Step
  <2> QED
    BY <1>3, <1>4, <1>5, <2>1, <2>2, <2>3 DEF E!TypeOK
<1>7. \A k \in Step : Untouched(k)
  BY <1>1 DEF Untouched
<1>8. \A c \in Caller : CallInv(c) /\ ~Entered(c)
  BY <1>2 DEF CallInv, PhaseInv, LoopInv, EndInv, VerifyInv, InPipeline, E!InLoop, Entered
<1>9. EntryInv /\ StepInv
  BY <1>1, <1>7, <1>8, Constants DEF EntryInv, StepInv, E!FailureStopsTheRest
<1>a. ResultInv /\ FencesInv /\ LeaseInv
  BY <1>1, <1>3, <1>4, <1>5, Constants
     DEF ResultInv, Recorded, FencesInv, LeaseInv, E!Phase, E!Token
<1>b. CompletionInv
  <2>1. DOMAIN outcomes = {}
    BY <1>1
  <2> QED
    BY <1>1, <2>1 DEF CompletionInv
<1> QED
  BY <1>6, <1>8, <1>9, <1>a, <1>b DEF ExecutionIInv, ExecutionInv

LEMMA NextHolds ==
  ASSUME ExecutionIInv, E!Next \/ UNCHANGED E!vars
  PROVE  ExecutionIInv'
<1>1. CASE (\E p \in E!Phase : E!Expire(p)) \/ UNCHANGED E!vars
  BY <1>1, TimePasses
<1>2. ASSUME NEW c \in Caller, E!ExecuteStep(c) PROVE ExecutionIInv'
  BY <1>2, ExecuteBegins, PreflightStep, SaveAttemptStep, StartStep, CreateLedgerStep,
     ReserveStep, MarkRunningStep, ActuateStep, CompleteStep, SettleStep, FailStep,
     BeginRollbackStep, ContainStep, FinishStep DEF E!ExecuteStep
<1>3. ASSUME NEW c \in Caller, E!VerifyStep(c) PROVE ExecutionIInv'
  BY <1>3, VerifyBegins, EnterVerifyingStep, AssessStep, RecordStep, EscalateStep DEF E!VerifyStep
<1>4. ASSUME NEW c \in Caller, E!FenceStep(c) PROVE ExecutionIInv'
  BY <1>4, BeginStep, AcquireStep, StoreStep, MarkStep, MarkFailedStep DEF E!FenceStep
<1>5. ASSUME NEW c \in Caller, E!Replay(c) \/ E!Error(c) \/ E!Crash(c) PROVE ExecutionIInv'
  BY <1>5, ReplayStep, ErrorStep, CrashStep
<1> QED
  BY <1>1, <1>2, <1>3, <1>4, <1>5 DEF E!Next

-----------------------------------------------------------------------------
(***************************************************************************)
(* The phases and the execution among the parts of a run                   *)
(***************************************************************************)

\* A step that belongs to another part leaves the tables of the phases alone: what holds of
\* every behaviour of PhaseFence holds of every run.
THEOREM RunsKeepThePhases == RunSpec => Spec
<1>1. RunInit => Init
  BY DEF RunInit, NoPhase
<1>2. [RunNext]_runVars => [Next]_vars
  BY DEF RunNext, runVars, vars
<1> QED BY <1>1, <1>2, PTL DEF RunSpec, Spec

\* What a step of an execution or a verification, whichever of two owners of the lease
\* takes it, finds and leaves in the ledger, the attempts, the result and the run.
THEOREM ExecutionInvariant == RunSpec => [](part = "execution" => ExecutionIInv)
<1> DEFINE Inv == part = "execution" => ExecutionIInv
<1>1. RunInit => Inv
  BY InitHolds DEF RunInit
<1>2. Inv /\ [RunNext]_runVars => Inv'
  <2>1. ASSUME Inv, part = "execution", E!Next, UNCHANGED part PROVE Inv'
    BY <2>1, NextHolds
  <2>2. ASSUME Inv, part # "execution", UNCHANGED part PROVE Inv'
    BY <2>2
  <2>3. ASSUME Inv, part = "execution", UNCHANGED runVars PROVE Inv'
    <3>1. UNCHANGED E!vars
      BY <2>3 DEF runVars, callVars, executionOnly, E!vars, E!runVars, E!fenceVars, E!stepVars,
                E!proofVars
    <3> QED BY <2>3, <3>1, NextHolds
  <2>4. RunNext => UNCHANGED part /\ (part = "execution" => E!Next)
    BY DEF RunNext
  <2>5. UNCHANGED runVars => UNCHANGED part
    BY DEF runVars
  <2> QED BY <2>1, <2>2, <2>3, <2>4, <2>5
<1> QED BY <1>1, <1>2, PTL DEF RunSpec

\* executeSteps: however calls hold, lose and take over the lease, one at most is in its
\* loop, no step is actuated twice, a step is actuated after all before it have SUCCEEDED,
\* and a compensating one after the failure of a step whose plan authorizes the rollback.
THEOREM StepsActOnceInOrder == RunSpec => []ActuatedOnceInOrder
<1>1. ExecutionIInv => E!ActuatedOnceInOrder
  BY DEF ExecutionIInv, ExecutionInv, EntryInv, Entered, StepInv, E!ActuatedOnceInOrder,
         E!ActuatedOnce, Step
<1>2. (part = "execution" => ExecutionIInv) => ActuatedOnceInOrder
  BY <1>1 DEF ActuatedOnceInOrder
<1> QED BY <1>2, ExecutionInvariant, PTL

\* What is recorded of a run that is executed: the stored result, the closed fences, and
\* the completion with the attempt that it is of.
LEMMA ExecutionRecorded ==
  ASSUME ExecutionIInv PROVE E!ResultTellsTheSteps /\ E!CompletionIsAtomic
<1>1. E!ResultTellsTheSteps
  <2>1. Recorded(result) /\ FencesInv
    BY DEF ExecutionIInv, ExecutionInv, ResultInv
  <2>2. Tells(result.status)
    BY <2>1, RestTypes DEF Recorded, Tells
  <2> QED
    BY <2>1, <2>2 DEF E!ResultTellsTheSteps, Tells, FencesInv
<1>2. E!CompletionIsAtomic
  <2>1. E!TypeOK /\ CompletionInv
    BY DEF ExecutionIInv, ExecutionInv
  <2>2. ASSUME completed # 0
        PROVE  /\ \A k \in DOMAIN step : step[k] \notin {"RESERVED", "RUNNING"}
               /\ \E i \in DOMAIN attempts : attempts[i] \in
                    [token : {completed}, status : {"SUCCEEDED", "PARTIAL"}]
    <3>1. StepsClosed /\ Verified(completed)
      BY <2>1, <2>2 DEF CompletionInv
    <3>2. PICK i \in DOMAIN attempts :
            attempts[i].token = completed /\ attempts[i].status \in {"SUCCEEDED", "PARTIAL"}
      BY <3>1 DEF Verified
    <3>3. attempts[i] \in E!Attempt
      BY <2>1, <3>2 DEF E!TypeOK
    <3>4. attempts[i] \in [token : {completed}, status : {"SUCCEEDED", "PARTIAL"}]
      BY <3>2, <3>3 DEF E!Attempt
    <3> QED
      BY <2>1, <3>1, <3>4 DEF StepsClosed, Step, E!TypeOK
  <2> QED
    BY <2>1, <2>2 DEF E!CompletionIsAtomic, CompletionInv
<1> QED BY <1>1, <1>2

\* finalizeResult, storeResult, recordCompletion: the stored ExecutionResult says what
\* happened to the steps, a fence that is closed has that result in the store, and
\* OutcomeVerification, CompletionRecord and COMPLETED come together, when no step of the run
\* is open, and of an attempt that has ended without containment.
THEOREM ExecutionsAreRecorded == RunSpec => []ExecutionIsRecorded
<1>1. (part = "execution" => ExecutionIInv) => ExecutionIsRecorded
  BY ExecutionRecorded DEF ExecutionIsRecorded
<1> QED BY <1>1, ExecutionInvariant, PTL
=============================================================================
