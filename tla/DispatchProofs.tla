--------------------------- MODULE DispatchProofs ---------------------------
(***************************************************************************)
(* Proofs about Scheduler, for any finite set of work items, any workers   *)
(* in any processes, and all limits and bounds; about Fairness, for every  *)
(* number of projects, every weight, every cap and every length of the     *)
(* backlog; and about the two beside each other.  Liveness is left to TLC. *)
(***************************************************************************)
EXTENDS MCDispatch, FiniteSetTheorems, SequenceTheorems, TLAPS

(***************************************************************************)
(* How claims are made: types                                              *)
(***************************************************************************)

\* What acquire, release and the clock make of a lease is a lease again; only
\* acquire makes one live, under a new token.
LEMMA LeaseTypes ==
  ASSUME NEW l \in LeaseRow, NEW o \in Owner, NEW t \in Nat
  PROVE  /\ Acquired(l, o) \in LeaseRow
         /\ Released(l, o, t) \in LeaseRow
         /\ Expired(l) \in LeaseRow
         /\ ExpiredGrant(l) \in Nat
         /\ Acquired(l, o).owner = o /\ Acquired(l, o).token = l.token + 1
         /\ Released(l, o, t).owner = l.owner /\ Released(l, o, t).token = l.token
         /\ LiveHeld(Released(l, o, t)) => LiveHeld(l)
         /\ Expired(l).owner = l.owner /\ Expired(l).token = l.token
         /\ ~LiveHeld(Expired(l))
<1>1. Acquired(l, o) \in LeaseRow
  BY DEF Acquired, LeaseRow, LeaseStatus
<1>2. /\ Released(l, o, t) \in LeaseRow
      /\ Released(l, o, t).owner = l.owner /\ Released(l, o, t).token = l.token
      /\ LiveHeld(Released(l, o, t)) => LiveHeld(l)
  BY DEF Released, LeaseRow, LeaseStatus, LiveHeld
<1>3. /\ Expired(l) \in LeaseRow
      /\ Expired(l).owner = l.owner /\ Expired(l).token = l.token
      /\ ~LiveHeld(Expired(l))
  BY DEF Expired, LeaseRow, LiveHeld
<1>4. ExpiredGrant(l) \in Nat
  <2>1. l.token \in Nat
    BY DEF LeaseRow
  <2> QED
    BY <2>1 DEF ExpiredGrant
<1> QED
  BY <1>1, <1>2, <1>3, <1>4 DEF Acquired

\* The rows that discovery, reconciliation, allocation and settlement write.
LEMMA ItemTypes ==
  ASSUME TypeOK, NEW x \in Work
  PROVE  /\ Discovered(x) \in WorkItem
         /\ item[x] \in WorkItem /\ lease[x] \in LeaseRow
         /\ \A k \in Worker : /\ ClaimedItem(k, x) \in WorkItem
                              /\ UnblockedItem(k, x) \in WorkItem
                              /\ SettledItem(k, item[x]) \in WorkItem
         /\ RequeuedItem(x) \in WorkItem
<1>1. item[x] \in WorkItem /\ lease[x] \in LeaseRow
  BY DEF TypeOK
<1>2. milestone[x] \in {"PENDING", "SATISFIED", "UNSATISFIABLE"}
  BY DEF TypeOK, Milestone
<1>3. Discovered(x) \in WorkItem
  BY <1>2 DEF Discovered, NoItem, WorkItem, WorkStatus, Terminal
<1>4. ASSUME NEW k \in Worker
      PROVE  /\ ClaimedItem(k, x) \in WorkItem
             /\ UnblockedItem(k, x) \in WorkItem
  <2>1. home[k] \in Owner /\ lease[x].token + 1 \in Nat
    BY <1>1, SchedulerAssumption DEF LeaseRow
  <2>2. item[x].revision + 1 \in Nat /\ item[x].attempt + 1 \in Nat
    BY <1>1 DEF WorkItem
  <2>3. ClaimedItem(k, x) \in WorkItem
    BY <1>1, <2>1, <2>2 DEF ClaimedItem, WorkItem, WorkStatus
  <2>4. UnblockedItem(k, x) \in WorkItem
    BY <1>1, <2>2 DEF UnblockedItem, WorkItem, WorkStatus
  <2> QED
    BY <2>3, <2>4
<1>5. ASSUME NEW k \in Worker
      PROVE  SettledItem(k, item[x]) \in WorkItem
  <2> DEFINE next  == [item[x] EXCEPT !.revision = @ + 1]
             freed == [next EXCEPT !.owner = NoOwner, !.token = 0]
  <2>1. worker[k].intent \in {"RUNNING", "SUCCEEDED", "FAILED", "RETRY", "CANCELLED"}
    BY DEF TypeOK, Loop, Intent
  <2>2. next \in WorkItem
    BY <1>1 DEF WorkItem
  <2>3. freed \in WorkItem
    BY <2>2 DEF WorkItem
  <2> HIDE DEF next, freed
  <2>4. \A s \in WorkStatus : [next EXCEPT !.status = s] \in WorkItem
    BY <2>2 DEF WorkItem
  <2>5. \A s \in WorkStatus : /\ [freed EXCEPT !.status = s] \in WorkItem
                              /\ [freed EXCEPT !.status = s, !.due = FALSE] \in WorkItem
    BY <2>3 DEF WorkItem
  <2>6. {"RUNNING", "ELIGIBLE", "FAILED", "SUCCEEDED", "CANCELLED"} \subseteq WorkStatus
    BY DEF WorkStatus, Terminal
  <2> USE DEF next, freed
  <2> QED
    BY <2>1, <2>4, <2>5, <2>6 DEF SettledItem
<1>6. RequeuedItem(x) \in WorkItem
  <2>1. item[x].revision + 1 \in Nat
    BY <1>1 DEF WorkItem
  <2> QED
    BY <1>1, <2>1 DEF RequeuedItem, WorkItem, WorkStatus
<1> QED
  BY <1>1, <1>3, <1>4, <1>5, <1>6

\* The items that are allocated, and what a worker keeps of them.
LEMMA SnapshotType ==
  ASSUME TypeOK, NEW late \in SUBSET Work
  PROVE  SnapshotOf(late) \in Loop
<1>1. \A x \in Work : item[x].revision \in Nat /\ ExpiredGrant(lease[x]) \in Nat
  <2> SUFFICES ASSUME NEW x \in Work
               PROVE  item[x].revision \in Nat /\ ExpiredGrant(lease[x]) \in Nat
    OBVIOUS
  <2>1. item[x] \in WorkItem /\ lease[x] \in LeaseRow
    BY DEF TypeOK
  <2>2. lease[x].token \in Nat
    BY <2>1 DEF LeaseRow
  <2> QED
    BY <2>1, <2>2 DEF WorkItem, ExpiredGrant
<1>2. Unblockable \in SUBSET Work
  BY DEF Unblockable
<1> QED
  BY <1>1, <1>2 DEF SnapshotOf, Idle, Nothing, Loop, PC, Intent

\* A worker that goes on to another statement, gives up, or settles.
LEMMA WorkerTypes ==
  ASSUME TypeOK, NEW k \in Worker
  PROVE  /\ \A pc \in PC : Goto(k, pc) => worker' \in [Worker -> Loop]
         /\ Leave(k) => worker' \in [Worker -> Loop]
         /\ \A i \in Intent : Settle(k, i) => worker' \in [Worker -> Loop]
<1>1. Idle \in Loop
  BY DEF Idle, Nothing, Loop, PC, Intent
<1>2. worker[k] \in Loop /\ "assert" \in PC
  BY DEF TypeOK, PC
<1>3. /\ \A pc \in PC : [worker[k] EXCEPT !.pc = pc] \in Loop
      /\ \A i \in Intent : [worker[k] EXCEPT !.pc = "assert", !.intent = i] \in Loop
  BY <1>2 DEF Loop
<1> QED
  BY <1>1, <1>3 DEF TypeOK, Goto, Leave, Settle

LEMMA TypeStep == TypeOK /\ [Next]_vars => TypeOK'
<1> SUFFICES ASSUME TypeOK, [Next]_vars PROVE TypeOK'
  OBVIOUS
<1>1. CASE UNCHANGED vars
  BY <1>1 DEF vars, TypeOK
<1>2. ASSUME NEW x \in Work,
             Discover(x) \/ BecomeDue(x) \/ ExpireLease(x) \/ ReachMilestone(x)
      PROVE  TypeOK'
  <2>1. CASE Discover(x)
    BY <2>1, ItemTypes DEF Discover, TypeOK
  <2>2. CASE BecomeDue(x)
    <3>1. [item[x] EXCEPT !.due = TRUE] \in WorkItem
      BY ItemTypes DEF WorkItem
    <3> QED
      BY <2>2, <3>1 DEF BecomeDue, TypeOK
  <2>3. CASE ExpireLease(x)
    <3>1. Expired(lease[x]) \in LeaseRow
      BY ItemTypes DEF Expired, LeaseRow
    <3> QED
      BY <2>3, <3>1 DEF ExpireLease, TypeOK
  <2>4. CASE ReachMilestone(x)
    BY <2>4 DEF ReachMilestone, TypeOK, Milestone
  <2> QED
    BY <1>2, <2>1, <2>2, <2>3, <2>4
<1>3. ASSUME NEW p \in Pausable, SetPause(p) PROVE TypeOK'
  BY <1>3, SchedulerAssumption DEF SetPause, TypeOK
<1>4. ASSUME NEW k \in Worker, WorkerStep(k) \/ LoseConnection(k) \/ Crash(k)
      PROVE  TypeOK'
  <2> DEFINE W == worker[k]
  <2>1. W \in Loop /\ home[k] \in Owner
    BY SchedulerAssumption DEF TypeOK
  <2>2. \A x \in Work : item[x].revision \in Nat /\ item[x].token \in Nat /\ lease[x].token \in Nat
    BY ItemTypes DEF WorkItem, LeaseRow
  <2>3. Idle \in Loop
    BY DEF Idle, Nothing, Loop, PC, Intent
  <2>4. \A intents \in SUBSET Intent :
          AfterFailedWrite(k, intents) => worker' \in [Worker -> Loop]
    <3>1. "release" \in PC
      BY DEF PC
    <3> QED
      BY <3>1, WorkerTypes DEF AfterFailedWrite
  <2>5. LostConnection(k) \in SUBSET Intent /\ {"FAILED"} \in SUBSET Intent
        /\ {"RETRY"} \in SUBSET Intent
    BY DEF LostConnection, Intent
  <2>6. CASE Restart(k)
    BY <2>6, WorkerTypes DEF Restart, TypeOK
  <2>7. CASE ReconcileList(k)
    <3>1. [W EXCEPT !.pc = "reconcile",
                    !.seen = [x \in Work |-> IF x \in ListExpiredClaimed
                                             THEN item[x].revision ELSE 0]] \in Loop
      BY <2>1, <2>2 DEF Loop, PC
    <3> QED
      BY <2>7, <3>1 DEF ReconcileList, TypeOK
  <2>8. ASSUME NEW x \in Work, ReconcileCheck(k, x) PROVE TypeOK'
    <3>1. /\ [W EXCEPT !.seen[x] = 0] \in Loop
          /\ [W EXCEPT !.pc = "requeue", !.work = x, !.revision = W.seen[x],
                       !.seen[x] = 0] \in Loop
      BY <2>1 DEF Loop, PC
    <3> QED
      BY <2>8, <3>1 DEF ReconcileCheck, TypeOK
  <2>9. CASE Requeue(k)
    <3>1. [W EXCEPT !.pc = "reconcile", !.work = NoWork, !.revision = 0] \in Loop
      BY <2>1 DEF Loop, PC
    <3>2. \A x \in Work : RequeuedItem(x) \in WorkItem
      BY ItemTypes
    <3>3. item' \in [Work -> WorkItem]
      BY <2>9, <3>2 DEF Requeue, TypeOK
    <3> QED
      BY <2>9, <3>1, <3>3 DEF Requeue, TypeOK
  <2>10. CASE Snapshot(k)
    <3>1. PICK late \in SUBSET ExpiredHeld : worker' = [worker EXCEPT ![k] = SnapshotOf(late)]
      BY <2>10 DEF Snapshot
    <3>2. SnapshotOf(late) \in Loop
      BY SnapshotType DEF ExpiredHeld
    <3> QED
      BY <2>10, <3>1, <3>2 DEF Snapshot, TypeOK
  <2>11. \A x \in Work : LeaseAfterTrying(k, x) \in LeaseRow
    BY <2>1, <2>2, ItemTypes, LeaseTypes DEF LeaseAfterTrying
  <2>12. ASSUME NEW x \in Work, Claim(k, x) PROVE TypeOK'
    <3>1. PICK tried \in SUBSET {y \in Seen(k) : ~CanClaim(k, y)} :
            lease' = [y \in Work |-> CASE y = x       -> Acquired(lease[y], home[k])
                                       [] y \in tried -> LeaseAfterTrying(k, y)
                                       [] OTHER       -> lease[y]]
      BY <2>12 DEF Claim
    <3>2. lease' \in [Work -> LeaseRow]
      BY <2>1, <2>11, <3>1, ItemTypes, LeaseTypes
    <3>3. item' \in [Work -> WorkItem]
      BY <2>12, ItemTypes DEF Claim
    <3>4. [Idle EXCEPT !.pc = "ready", !.work = x, !.revision = item[x].revision + 1,
                       !.token = lease[x].token + 1] \in Loop
      <4>1. item[x].revision + 1 \in Nat /\ lease[x].token + 1 \in Nat
        BY <2>2
      <4> QED
        BY <2>3, <4>1 DEF Loop, PC
    <3> QED
      BY <2>12, <3>2, <3>3, <3>4 DEF Claim, TypeOK
  <2>13. CASE ClaimNothing(k)
    <3>1. lease' \in [Work -> LeaseRow]
      BY <2>11, <2>13, ItemTypes DEF ClaimNothing
    <3>2. item' \in [Work -> WorkItem]
      BY <2>13, ItemTypes DEF ClaimNothing
    <3> QED
      BY <2>13, <3>1, <3>2, WorkerTypes DEF ClaimNothing, TypeOK
  <2>14. CASE CheckReady(k) \/ Invoke(k)
    <3>1. {"RUNNING", "CANCELLED", "SUCCEEDED", "FAILED", "RETRY"} \subseteq Intent
      BY DEF Intent
    <3>2. worker' \in [Worker -> Loop]
      BY <2>14, <3>1, WorkerTypes DEF CheckReady, Invoke
    <3> QED
      BY <2>14, <3>2 DEF CheckReady, Invoke, TypeOK
  <2>15. CASE AssertFence(k)
    <3>1. "update" \in PC
      BY DEF PC
    <3> QED
      BY <2>4, <2>5, <2>15, <3>1, WorkerTypes DEF AssertFence, TypeOK
  <2>16. CASE Update(k)
    <3>1. AfterWrite(k) => worker' \in [Worker -> Loop]
      <4>1. worker \in [Worker -> Loop] /\ W.revision + 1 \in Nat
        BY <2>1 DEF TypeOK, Loop
      <4>2. "release" \in PC
        BY DEF PC
      <4>3. CASE W.intent = "RUNNING"
        BY <4>1, <4>3 DEF AfterWrite, Loop, PC
      <4> QED
        BY <4>2, <4>3, WorkerTypes DEF AfterWrite
    <3>2. item' \in [Work -> WorkItem]
      BY <2>16, ItemTypes DEF Update, TypeOK
    <3> QED
      BY <2>4, <2>5, <2>16, <3>1, <3>2 DEF Update, TypeOK
  <2>17. CASE ReleaseLease(k)
    <3>1. \A x \in Work : Released(lease[x], home[k], W.token) \in LeaseRow
      BY <2>1, ItemTypes, LeaseTypes DEF Loop
    <3>2. lease' \in [Work -> LeaseRow]
      BY <2>17, <3>1 DEF ReleaseLease, TypeOK
    <3> QED
      BY <2>17, <3>2, WorkerTypes DEF ReleaseLease, TypeOK
  <2>18. CASE LoseConnection(k)
    BY <2>4, <2>5, <2>18 DEF LoseConnection, TypeOK
  <2>19. CASE Crash(k)
    <3>1. [Idle EXCEPT !.pc = "down"] \in Loop
      BY <2>3 DEF Loop, PC
    <3> QED
      BY <2>19, <3>1 DEF Crash, TypeOK
  <2> QED
    BY <1>4, <2>6, <2>7, <2>8, <2>9, <2>10, <2>12, <2>13, <2>14, <2>15, <2>16, <2>17, <2>18,
       <2>19 DEF WorkerStep
<1> QED
  BY <1>1, <1>2, <1>3, <1>4 DEF Next

\* Every state of the scheduler is well typed.
LEMMA TypeInit == Init => TypeOK
  BY SchedulerAssumption
  DEF Init, TypeOK, NoItem, WorkItem, WorkStatus, NoLease, LeaseRow, LeaseStatus, Milestone,
      Idle, Nothing, Loop, PC, Intent

THEOREM SchedulerTypes == Spec => []TypeOK
  BY TypeInit, TypeStep, PTL DEF Spec

(***************************************************************************)
(* Rows that stay, and rows that move on                                   *)
(***************************************************************************)

\* The row of x is as it was, and if it is claimed its lease belongs to the same
\* grant and has not come to life.
Stays(x) ==
  /\ item'[x].revision = item[x].revision
  /\ item'[x].status = item[x].status
  /\ item'[x].owner = item[x].owner /\ item'[x].token = item[x].token
  /\ item[x].status \in {"CLAIMED", "RUNNING"} =>
       /\ lease'[x].owner = lease[x].owner /\ lease'[x].token = lease[x].token
       /\ LiveHeld(lease'[x]) => LiveHeld(lease[x])

Moves(x) == item'[x].revision > item[x].revision

\* Fewer live claims leave as much room.
LEMMA LiveIsFinite ==
  ASSUME IsFiniteSet(Work), TypeOK
  PROVE  /\ Cardinality(Live) \in Nat
         /\ \A p : Cardinality(In(p, Live)) \in Nat
         /\ Live' \subseteq Live =>
              /\ Cardinality(Live') <= Cardinality(Live)
              /\ \A p : Cardinality(In(p, Live')) <= Cardinality(In(p, Live))
<1>1. Live \subseteq Work /\ IsFiniteSet(Live)
  BY FS_Subset DEF Live
<1>2. \A p : IsFiniteSet(In(p, Live))
  BY <1>1, FS_Subset DEF In
<1>3. ASSUME Live' \subseteq Live
      PROVE  /\ Cardinality(Live') <= Cardinality(Live)
             /\ \A p : Cardinality(In(p, Live')) <= Cardinality(In(p, Live))
  <2>1. \A p : In(p, Live') \subseteq In(p, Live)
    BY <1>3 DEF In
  <2> QED
    BY <1>1, <1>2, <1>3, <2>1, FS_Subset
<1> QED
  BY <1>1, <1>2, <1>3, FS_CardinalityType

\* What a worker knows survives the steps of the others: they move rows on, and
\* touch neither a row that is being worked on nor, while it holds the lock, one
\* that waits.
LEMMA OthersKeep ==
  ASSUME IsFiniteSet(Work), TypeOK, TypeOK', NEW j \in Worker, WorkerInv(j),
         worker'[j] = worker[j],
         \A x \in Work : Stays(x) \/ Moves(x),
         worker[j].pc = "invoke" => Stays(worker[j].work),
         worker[j].pc = "allocate" =>
           /\ lock' = lock
           /\ Live' \subseteq Live
           /\ \A x \in Work : item[x].status \in {"ELIGIBLE", "BLOCKED_DEPENDENCY"} => Stays(x)
  PROVE  WorkerInv(j)'
<1>1. /\ \A x \in Work : item[x].revision \in Nat /\ item'[x].revision \in Nat
      /\ worker[j].revision \in Nat /\ worker[j].seen \in [Work -> Nat]
      /\ worker[j].unblocked \subseteq Work
  BY DEF TypeOK, WorkItem, Loop
<1>2. ClaimIsHeld(j)'
  BY <1>1 DEF WorkerInv, ClaimIsHeld, Working, Matches, Stays, Moves
<1>3. ReadIsOld(j)'
  BY <1>1 DEF WorkerInv, ReadIsOld, Seen, Matches, Stays, Moves
<1>4. AllocationIsCurrent(j)'
  <2> SUFFICES ASSUME worker[j].pc = "allocate"
               PROVE  /\ lock' = j
                      /\ \A x \in worker[j].unblocked : item'[x].status = "BLOCKED_DEPENDENCY"
                      /\ \A x \in Seen(j) :
                           /\ item'[x].status \in {"ELIGIBLE", "BLOCKED_DEPENDENCY"}
                           /\ Cardinality(Live') < GlobalLimit
                           /\ Cardinality(In(projectOf[x], Live')) < ProjectLimit[projectOf[x]]
    BY DEF AllocationIsCurrent, Seen, In
  <2>1. \A x \in Seen(j) : /\ x \in Work
                           /\ item[x].status \in {"ELIGIBLE", "BLOCKED_DEPENDENCY"}
                           /\ Cardinality(Live) < GlobalLimit
                           /\ Cardinality(In(projectOf[x], Live)) < ProjectLimit[projectOf[x]]
    BY DEF WorkerInv, AllocationIsCurrent, Seen
  <2>2. \A x \in Work : ProjectLimit[projectOf[x]] \in Nat /\ GlobalLimit \in Nat
    BY SchedulerAssumption DEF Project
  <2>3. \A p : Cardinality(In(p, Live')) \in Nat
    BY LiveIsFinite, FS_Subset, FS_CardinalityType DEF Live, In
  <2>4. Cardinality(Live') \in Nat
    BY FS_Subset, FS_CardinalityType DEF Live
  <2>5. \A x \in worker[j].unblocked : item'[x].status = "BLOCKED_DEPENDENCY"
    BY <1>1 DEF WorkerInv, AllocationIsCurrent, Stays
  <2>6. lock' = j
    BY DEF WorkerInv, AllocationIsCurrent
  <2>7. \A x \in Seen(j) : item'[x].status \in {"ELIGIBLE", "BLOCKED_DEPENDENCY"}
    BY <2>1 DEF Stays
  <2>8. ASSUME NEW x \in Seen(j)
        PROVE  /\ Cardinality(Live') < GlobalLimit
               /\ Cardinality(In(projectOf[x], Live')) < ProjectLimit[projectOf[x]]
    BY <2>1, <2>2, <2>3, <2>4, LiveIsFinite
  <2> QED
    BY <2>5, <2>6, <2>7, <2>8
<1> QED
  BY <1>2, <1>3, <1>4 DEF WorkerInv

\* A step of k keeps the invariant if it moves only rows that nobody else works
\* on, and adds to what is live only with the lock and while there is room.  For
\* the steps of the environment, k is no worker.
LEMMA InvFromStep ==
  ASSUME IsFiniteSet(Work), TypeOK, TypeOK', SchedulerInv, NEW k,
         \A j \in Worker \ {k} : worker'[j] = worker[j],
         \A x \in Work : Stays(x) \/ Moves(x),
         \A x \in Work : Moves(x) /\ item'[x].status \in {"CLAIMED", "RUNNING"}
           => item'[x].owner = lease'[x].owner /\ item'[x].token = lease'[x].token,
         \A x \in Work : ~Stays(x) /\ item[x].status = "RUNNING"
           => k \in Worker /\ Holds(k) /\ worker[k].work = x,
         \A x \in Work : ~Stays(x) /\ item[x].status \in {"ELIGIBLE", "BLOCKED_DEPENDENCY"}
           => lock = k,
         lock' = lock \/ lock \in {k, NoWorker},
         Live' \subseteq Live \/ (lock = k /\ CapacityRespected'),
         k \in Worker => /\ WorkerInv(k)'
                         /\ Holds(k)' =>
                              \/ /\ Holds(k) /\ worker'[k].work = worker[k].work
                                 /\ Stays(worker[k].work)
                              \/ Moves(worker'[k].work)
  PROVE  SchedulerInv'
<1>1. ClaimFollowsLease'
  BY DEF SchedulerInv, ClaimFollowsLease, Stays
<1>2. ASSUME NEW j \in Worker, j # k PROVE WorkerInv(j)'
  <2>1. WorkerInv(j) /\ worker'[j] = worker[j]
    BY <1>2 DEF SchedulerInv
  <2>2. worker[j].pc = "invoke" => Stays(worker[j].work)
    <3>1. ASSUME worker[j].pc = "invoke", ~Stays(worker[j].work) PROVE FALSE
      <4>1. worker[j].work \in Work /\ Holds(j) /\ item[worker[j].work].status = "RUNNING"
        BY <2>1, <3>1 DEF WorkerInv, ClaimIsHeld, Working, Holds
      <4> QED
        BY <1>2, <3>1, <4>1 DEF SchedulerInv, ClaimsAreSingle
    <3> QED
      BY <3>1
  <2>3. ASSUME worker[j].pc = "allocate"
        PROVE  /\ lock' = lock
               /\ Live' \subseteq Live
               /\ \A x \in Work : item[x].status \in {"ELIGIBLE", "BLOCKED_DEPENDENCY"} => Stays(x)
    <3>1. lock = j
      BY <2>1, <2>3 DEF WorkerInv, AllocationIsCurrent
    <3>2. lock # k /\ lock # NoWorker
      BY <1>2, <3>1, SchedulerAssumption
    <3> QED
      BY <3>2
  <2> QED
    BY <2>1, <2>2, <2>3, OthersKeep
<1>3. ClaimsAreSingle'
  <2>1. ASSUME NEW j \in Worker, j # k, Holds(j)'
        PROVE  Holds(j) /\ ~Moves(worker[j].work) /\ worker'[j].work = worker[j].work
    <3>1. worker'[j] = worker[j] /\ ClaimIsHeld(j)
      BY <2>1 DEF SchedulerInv, WorkerInv
    <3>2. Working(j) /\ worker[j].work \in Work /\ worker[j].revision \in Nat
      BY <2>1, <3>1 DEF Holds, Working, ClaimIsHeld, TypeOK, Loop
    <3>3. /\ item'[worker[j].work].revision = worker[j].revision
          /\ worker[j].revision <= item[worker[j].work].revision
      BY <2>1, <3>1, <3>2 DEF Holds, Matches, ClaimIsHeld
    <3>4. item[worker[j].work].revision \in Nat
      BY <3>2 DEF TypeOK, WorkItem
    <3>5. ~Moves(worker[j].work)
      BY <3>2, <3>3, <3>4 DEF Moves
    <3>6. Matches(j)
      BY <3>2, <3>3, <3>5 DEF Matches, Stays
    <3> QED
      BY <3>1, <3>2, <3>5, <3>6 DEF Holds
  <2> SUFFICES ASSUME NEW i \in Worker, NEW j \in Worker, i # j,
                      Holds(i)', Holds(j)', worker'[i].work = worker'[j].work
               PROVE  FALSE
    BY DEF ClaimsAreSingle
  <2>2. CASE i # k /\ j # k
    BY <2>1, <2>2 DEF SchedulerInv, ClaimsAreSingle
  <2>3. CASE i = k
    BY <2>1, <2>3 DEF SchedulerInv, ClaimsAreSingle
  <2>4. CASE j = k
    BY <2>1, <2>4 DEF SchedulerInv, ClaimsAreSingle
  <2> QED
    BY <2>2, <2>3, <2>4
<1>4. CapacityRespected'
  <2>1. ASSUME Live' \subseteq Live PROVE CapacityRespected'
    <3>1. Cardinality(Live') \in Nat /\ \A p : Cardinality(In(p, Live')) \in Nat
      BY FS_Subset, FS_CardinalityType DEF Live, In
    <3>2. GlobalLimit \in Nat /\ \A p \in Project : ProjectLimit[p] \in Nat
      BY SchedulerAssumption
    <3>3. Cardinality(Live') <= GlobalLimit
      BY <2>1, <3>1, <3>2, LiveIsFinite DEF SchedulerInv, CapacityRespected
    <3>4. ASSUME NEW p \in Project PROVE Cardinality(In(p, Live')) <= ProjectLimit[p]
      BY <2>1, <3>1, <3>2, LiveIsFinite DEF SchedulerInv, CapacityRespected
    <3> QED
      BY <3>3, <3>4 DEF CapacityRespected, In
  <2> QED
    BY <2>1
<1> QED
  BY <1>1, <1>2, <1>3, <1>4 DEF SchedulerInv
LEMMA RowsStay ==
  ASSUME TypeOK, item' = item, lease' = lease
  PROVE  /\ \A x \in Work : Stays(x) /\ ~Moves(x)
         /\ Live' = Live
<1>1. \A x \in Work : item[x].revision \in Nat
  BY DEF TypeOK, WorkItem
<1> QED
  BY <1>1 DEF Stays, Moves, Live

\* A worker that goes on with its claim, to anything but the phase service, or is
\* done with it.
LEMMA ClaimGoesOn ==
  ASSUME TypeOK, SchedulerInv, NEW k \in Worker, item' = item,
         \/ worker'[k].pc \notin {"ready", "assert", "update", "invoke", "reconcile",
                                  "requeue", "allocate"}
         \/ /\ Working(k)
            /\ worker'[k].pc \in {"ready", "assert", "update"}
            /\ worker'[k].work = worker[k].work
            /\ worker'[k].revision = worker[k].revision
            /\ worker'[k].token = worker[k].token
  PROVE  /\ WorkerInv(k)'
         /\ Holds(k)' => Holds(k) /\ worker'[k].work = worker[k].work
<1>1. ClaimIsHeld(k)
  BY DEF SchedulerInv, WorkerInv
<1>2. ClaimIsHeld(k)'
  BY <1>1 DEF ClaimIsHeld, Working, Matches
<1>3. ReadIsOld(k)' /\ AllocationIsCurrent(k)'
  BY DEF ReadIsOld, AllocationIsCurrent
<1>4. Holds(k)' => Holds(k) /\ worker'[k].work = worker[k].work
  BY DEF Holds, Working, Matches
<1> QED
  BY <1>2, <1>3, <1>4 DEF WorkerInv

\* A step that writes no row.
LEMMA ReadsKeep ==
  ASSUME IsFiniteSet(Work), TypeOK, TypeOK', SchedulerInv, NEW k \in Worker,
         item' = item, lease' = lease,
         \A j \in Worker \ {k} : worker'[j] = worker[j],
         lock' = lock \/ lock \in {k, NoWorker},
         WorkerInv(k)',
         Holds(k)' => Holds(k) /\ worker'[k].work = worker[k].work
  PROVE  SchedulerInv'
<1>1. \A x \in Work : Stays(x) /\ ~Moves(x)
  BY RowsStay
<1>2. Live' \subseteq Live
  BY RowsStay
<1>3. Holds(k)' => Stays(worker[k].work)
  <2>1. Holds(k) => worker[k].work \in Work
    BY DEF SchedulerInv, WorkerInv, ClaimIsHeld, Holds
  <2> QED
    BY <1>1, <2>1
<1> QED
  BY <1>1, <1>2, <1>3, InvFromStep

(***************************************************************************)
(* The invariant, step by step                                             *)
(***************************************************************************)

LEMMA EnvironmentStep ==
  ASSUME IsFiniteSet(Work), TypeOK, TypeOK', SchedulerInv,
         \/ \E x \in Work : Discover(x) \/ BecomeDue(x) \/ ExpireLease(x) \/ ReachMilestone(x)
         \/ \E p \in Pausable : SetPause(p)
  PROVE  SchedulerInv'
<1>1. worker' = worker /\ lock' = lock
  BY DEF Discover, BecomeDue, ExpireLease, ReachMilestone, SetPause
<1>2. NoWorker \notin Worker
  BY SchedulerAssumption
<1>3. \A x \in Work : item[x] \in WorkItem /\ lease[x] \in LeaseRow
  BY ItemTypes
<1>4. ASSUME \A x \in Work : Stays(x) PROVE SchedulerInv'
  <2>1. Live' \subseteq Live
    BY <1>4 DEF Live, Stays
  <2>2. \A x \in Work : ~Moves(x)
    BY <1>3, <1>4 DEF Stays, Moves, WorkItem
  <2> QED
    BY <1>1, <1>2, <1>4, <2>1, <2>2, InvFromStep
<1>5. ASSUME NEW x \in Work, Discover(x) PROVE SchedulerInv'
  <2>1. item[x].status = "ABSENT" /\ item[x].revision = 0
    BY <1>5 DEF Discover, NoItem
  <2>2. /\ Discovered(x).revision = 1
        /\ Discovered(x).status \in {"ELIGIBLE", "BLOCKED_DEPENDENCY", "CANCELLED"}
    BY DEF Discovered, NoItem, TypeOK, Milestone
  <2>3. /\ item'[x] = Discovered(x)
        /\ \A y \in Work \ {x} : item'[y] = item[y]
        /\ lease' = lease
    BY <1>5 DEF Discover, TypeOK
  <2>4. Moves(x) /\ \A y \in Work \ {x} : Stays(y) /\ ~Moves(y)
    BY <1>3, <2>1, <2>2, <2>3 DEF Moves, Stays, WorkItem
  <2>5. Live' \subseteq Live
    BY <2>2, <2>3 DEF Live
  <2> QED
    BY <1>1, <1>2, <2>1, <2>2, <2>3, <2>4, <2>5, InvFromStep
<1>6. ASSUME NEW x \in Work, BecomeDue(x) PROVE SchedulerInv'
  <2>1. \A y \in Work : Stays(y)
    BY <1>3, <1>6 DEF BecomeDue, Stays, TypeOK, WorkItem
  <2> QED
    BY <1>4, <2>1
<1>7. ASSUME NEW x \in Work, ExpireLease(x) PROVE SchedulerInv'
  <2>1. \A y \in Work : Stays(y)
    BY <1>3, <1>7 DEF ExpireLease, Expired, Stays, TypeOK, LeaseRow, LiveHeld
  <2> QED
    BY <1>4, <2>1
<1>8. ASSUME item' = item, lease' = lease PROVE SchedulerInv'
  BY <1>4, <1>8 DEF Stays
<1> QED
  BY <1>5, <1>6, <1>7, <1>8 DEF ReachMilestone, SetPause
\* Going through the list of expired claims and dispatching a claim: steps that
\* write no row of an item.
LEMMA ReadingStep ==
  ASSUME IsFiniteSet(Work), TypeOK, TypeOK', SchedulerInv, NEW k \in Worker,
         \/ Restart(k) \/ Crash(k) \/ ReconcileList(k)
         \/ \E x \in Work : ReconcileCheck(k, x)
  PROVE  SchedulerInv'
<1>1. /\ worker \in [Worker -> Loop]
      /\ worker[k].seen \in [Work -> Nat]
      /\ \A x \in Work : item[x].revision \in Nat
  BY DEF TypeOK, Loop, WorkItem
<1>2. WorkerInv(k)
  BY DEF SchedulerInv
<1>3. CASE Restart(k) \/ Crash(k)
  <2>1. /\ item' = item /\ lease' = lease
        /\ lock' = lock \/ lock \in {k, NoWorker}
        /\ worker'[k].pc \in {"down", "idle"}
        /\ \A j \in Worker \ {k} : worker'[j] = worker[j]
    BY <1>1, <1>3 DEF Restart, Crash, Leave, Idle
  <2>2. WorkerInv(k)' /\ ~Holds(k)'
    BY <2>1 DEF WorkerInv, ClaimIsHeld, ReadIsOld, AllocationIsCurrent, Holds, Working
  <2> QED
    BY <2>1, <2>2, ReadsKeep
<1>4. CASE ReconcileList(k)
  <2>1. /\ worker'[k].pc = "reconcile"
        /\ worker'[k].seen = [x \in Work |-> IF x \in ListExpiredClaimed
                                             THEN item[x].revision ELSE 0]
        /\ \A j \in Worker \ {k} : worker'[j] = worker[j]
    BY <1>1, <1>4 DEF ReconcileList, Loop
  <2>2. item' = item /\ lease' = lease /\ lock' = lock
    BY <1>4 DEF ReconcileList
  <2>3. ReadIsOld(k)'
    BY <1>1, <2>1, <2>2 DEF ReadIsOld, Seen, ListExpiredClaimed
  <2>4. WorkerInv(k)' /\ ~Holds(k)'
    BY <2>1, <2>3 DEF WorkerInv, ClaimIsHeld, AllocationIsCurrent, Holds, Working
  <2> QED
    BY <2>1, <2>2, <2>4, ReadsKeep
<1>5. ASSUME NEW x \in Work, ReconcileCheck(k, x) PROVE SchedulerInv'
  <2>1. item' = item /\ lease' = lease /\ lock' = lock
    BY <1>5 DEF ReconcileCheck
  <2>2. /\ worker[k].pc = "reconcile" /\ x \in Seen(k)
        /\ \A j \in Worker \ {k} : worker'[j] = worker[j]
        /\ worker'[k] = IF LiveHeld(lease[x])
                        THEN [worker[k] EXCEPT !.seen[x] = 0]
                        ELSE [worker[k] EXCEPT !.pc = "requeue", !.work = x,
                                               !.revision = worker[k].seen[x], !.seen[x] = 0]
    BY <1>1, <1>5 DEF ReconcileCheck, Seen
  <2>3. /\ worker'[k].seen = [worker[k].seen EXCEPT ![x] = 0]
        /\ worker'[k].pc \in {"reconcile", "requeue"}
        /\ worker'[k].pc = "requeue" =>
             /\ worker'[k].work = x /\ worker'[k].revision = worker[k].seen[x]
             /\ ~LiveHeld(lease[x])
    BY <1>1, <2>2 DEF Loop
  <2>4. \A y \in Seen(k)' : y \in Seen(k) /\ worker'[k].seen[y] = worker[k].seen[y]
    BY <1>1, <2>3 DEF Seen
  <2>5. \A y \in Seen(k) : /\ worker[k].seen[y] <= item[y].revision
                           /\ worker[k].seen[y] = item[y].revision => item[y].status = "CLAIMED"
    BY <1>2, <2>2 DEF WorkerInv, ReadIsOld
  <2>6. ReadIsOld(k)'
    BY <2>1, <2>2, <2>3, <2>4, <2>5 DEF ReadIsOld, Matches
  <2>7. WorkerInv(k)' /\ ~Holds(k)'
    BY <2>3, <2>6 DEF WorkerInv, ClaimIsHeld, AllocationIsCurrent, Holds, Working
  <2> QED
    BY <2>1, <2>2, <2>7, ReadsKeep
<1> QED
  BY <1>3, <1>4, <1>5

LEMMA DispatchStep ==
  ASSUME IsFiniteSet(Work), TypeOK, TypeOK', SchedulerInv, NEW k \in Worker,
         \/ CheckReady(k) \/ Invoke(k) \/ AssertFence(k) \/ LoseConnection(k) \/ ReleaseLease(k)
  PROVE  SchedulerInv'
<1>1. worker \in [Worker -> Loop]
  BY DEF TypeOK
<1>2. item' = item /\ lock' = lock
  BY DEF CheckReady, Invoke, AssertFence, LoseConnection, ReleaseLease
<1>3. CASE ReleaseLease(k)
  <2>1. worker'[k].pc = "idle" /\ \A j \in Worker \ {k} : worker'[j] = worker[j]
    BY <1>1, <1>3 DEF ReleaseLease, Leave, Idle
  <2>2. WorkerInv(k)' /\ ~Holds(k)'
    BY <1>2, <2>1, ClaimGoesOn DEF Holds, Working
  <2>3. \A x \in Work : /\ lease'[x].owner = lease[x].owner /\ lease'[x].token = lease[x].token
                        /\ LiveHeld(lease'[x]) => LiveHeld(lease[x])
    BY <1>3, ItemTypes, LeaseTypes DEF ReleaseLease, TypeOK, Released, LeaseRow, LiveHeld
  <2>4. \A x \in Work : Stays(x) /\ ~Moves(x)
    <3>1. \A x \in Work : item[x].revision \in Nat
      BY DEF TypeOK, WorkItem
    <3> QED
      BY <1>2, <2>3, <3>1 DEF Stays, Moves
  <2>5. Live' \subseteq Live
    BY <1>2, <2>3 DEF Live
  <2> QED
    BY <1>2, <2>1, <2>2, <2>4, <2>5, InvFromStep
<1>4. CASE CheckReady(k) \/ Invoke(k) \/ AssertFence(k) \/ LoseConnection(k)
  <2>1. Working(k) /\ lease' = lease
    BY <1>4 DEF CheckReady, Invoke, AssertFence, LoseConnection, Working
  <2>2. \/ \E i \in Intent : Settle(k, i)
        \/ \E pc \in {"update", "release"} : Goto(k, pc)
    BY <1>4 DEF CheckReady, Invoke, AssertFence, LoseConnection, AfterFailedWrite,
                LostConnection, Intent
  <2>3. /\ worker'[k].pc \in {"assert", "update", "release"}
        /\ worker'[k].work = worker[k].work
        /\ worker'[k].revision = worker[k].revision
        /\ worker'[k].token = worker[k].token
        /\ \A j \in Worker \ {k} : worker'[j] = worker[j]
    <3>1. CASE \E i \in Intent : Settle(k, i)
      <4>1. PICK i \in Intent : worker' = [worker EXCEPT ![k] = [@ EXCEPT !.pc = "assert", !.intent = i]]
        BY <3>1 DEF Settle
      <4>2. /\ worker'[k] = [worker[k] EXCEPT !.pc = "assert", !.intent = i]
            /\ \A j \in Worker \ {k} : worker'[j] = worker[j]
        BY <1>1, <4>1
      <4> QED
        BY <1>1, <4>2 DEF Loop
    <3>2. CASE \E pc \in {"update", "release"} : Goto(k, pc)
      <4>1. PICK pc \in {"update", "release"} : worker' = [worker EXCEPT ![k].pc = pc]
        BY <3>2 DEF Goto
      <4>2. /\ worker'[k] = [worker[k] EXCEPT !.pc = pc]
            /\ \A j \in Worker \ {k} : worker'[j] = worker[j]
        BY <1>1, <4>1
      <4> QED
        BY <1>1, <4>2 DEF Loop
    <3> QED
      BY <2>2, <3>1, <3>2
  <2>4. /\ WorkerInv(k)'
        /\ Holds(k)' => Holds(k) /\ worker'[k].work = worker[k].work
    BY <1>2, <2>1, <2>3, ClaimGoesOn
  <2> QED
    BY <1>2, <2>1, <2>3, <2>4, ReadsKeep
<1> QED
  BY <1>3, <1>4
\* The snapshot of the allocation: what it has counted is at least what is live.
LEMMA SnapshotStep ==
  ASSUME IsFiniteSet(Work), TypeOK, TypeOK', SchedulerInv, NEW k \in Worker, Snapshot(k)
  PROVE  SchedulerInv'
<1>1. PICK late \in SUBSET ExpiredHeld : worker' = [worker EXCEPT ![k] = SnapshotOf(late)]
  BY DEF Snapshot
<1>2. /\ item' = item /\ lease' = lease /\ lock = NoWorker /\ lock' = k
      /\ worker'[k] = SnapshotOf(late)
      /\ \A j \in Worker \ {k} : worker'[j] = worker[j]
  BY <1>1 DEF Snapshot, TypeOK
<1>3. /\ worker'[k].pc = "allocate" /\ worker'[k].unblocked = Unblockable
      /\ \A x \in Work : worker'[k].seen[x] # 0 => x \in Candidate(late)
  BY <1>2 DEF SnapshotOf, Idle
<1>4. Live' = Live
  BY RowsStay, <1>2
<1>5. Live \subseteq Active(late) /\ IsFiniteSet(Active(late))
  BY FS_Subset DEF Live, Active
<1>6. ASSUME NEW x \in Candidate(late)
      PROVE  /\ item[x].status \in {"ELIGIBLE", "BLOCKED_DEPENDENCY"}
             /\ Cardinality(Live) < GlobalLimit
             /\ Cardinality(In(projectOf[x], Live)) < ProjectLimit[projectOf[x]]
  <2> DEFINE p == projectOf[x]
  <2>1. x \in Work /\ HasCapacity(p, late)
    BY DEF Candidate
  <2>2. GlobalLimit \in Nat /\ ProjectLimit[p] \in Nat
    BY <2>1, SchedulerAssumption DEF Project
  <2>3. /\ IsFiniteSet(In(p, Active(late)))
        /\ In(p, Live) \subseteq In(p, Active(late))
    BY <1>5, FS_Subset DEF In
  <2>4. /\ Cardinality(Live) <= Cardinality(Active(late))
        /\ Cardinality(Live) \in Nat /\ Cardinality(Active(late)) \in Nat
    BY <1>5, FS_Subset, FS_CardinalityType
  <2>5. /\ Cardinality(In(p, Live)) <= Cardinality(In(p, Active(late)))
        /\ Cardinality(In(p, Live)) \in Nat /\ Cardinality(In(p, Active(late))) \in Nat
    BY <2>3, FS_Subset, FS_CardinalityType
  <2>6. item[x].status \in {"ELIGIBLE", "BLOCKED_DEPENDENCY"}
    BY DEF Candidate, Unblockable
  <2> QED
    BY <2>1, <2>2, <2>4, <2>5, <2>6 DEF HasCapacity
<1>7. AllocationIsCurrent(k)'
  <2>1. \A x \in Seen(k)' : x \in Candidate(late)
    BY <1>3 DEF Seen
  <2>2. \A x \in Unblockable : item[x].status = "BLOCKED_DEPENDENCY"
    BY DEF Unblockable
  <2>3. \A p : In(p, Live)' = In(p, Live)
    BY <1>4 DEF In
  <2> QED
    BY <1>2, <1>3, <1>4, <1>6, <2>1, <2>2, <2>3 DEF AllocationIsCurrent
<1>8. WorkerInv(k)' /\ ~Holds(k)'
  BY <1>3, <1>7 DEF WorkerInv, ClaimIsHeld, ReadIsOld, Holds, Working
<1> QED
  BY <1>2, <1>8, ReadsKeep

\* An expired claim is taken back only while it is as it was listed.
LEMMA RequeueStep ==
  ASSUME IsFiniteSet(Work), TypeOK, TypeOK', SchedulerInv, NEW k \in Worker, Requeue(k)
  PROVE  /\ SchedulerInv'
         /\ item' # item => /\ item[worker[k].work].status = "CLAIMED"
                            /\ ~LiveHeld(lease[worker[k].work])
<1> DEFINE x == worker[k].work
<1>1. /\ worker[k].pc = "requeue" /\ WorkerInv(k)
      /\ lease' = lease /\ lock' = lock
  BY DEF Requeue, SchedulerInv
<1>2. /\ x \in Work
      /\ Matches(k) => item[x].status = "CLAIMED" /\ ~LiveHeld(lease[x])
  BY <1>1 DEF WorkerInv, ReadIsOld
<1>3. /\ worker'[k].pc = "reconcile" /\ worker'[k].seen = worker[k].seen
      /\ \A j \in Worker \ {k} : worker'[j] = worker[j]
  BY DEF Requeue, TypeOK, Loop
<1>4. /\ worker[k].seen \in [Work -> Nat]
      /\ \A y \in Work : item[y] \in WorkItem /\ item[y].revision \in Nat
  BY DEF TypeOK, Loop, WorkItem
<1>5. IF Matches(k)
      THEN /\ item'[x] = RequeuedItem(x)
           /\ \A y \in Work \ {x} : item'[y] = item[y]
      ELSE item' = item
  BY <1>2 DEF Requeue, Matches, TypeOK
<1>6. RequeuedItem(x).status = "ELIGIBLE" /\ RequeuedItem(x).revision = item[x].revision + 1
  BY <1>2, <1>4 DEF RequeuedItem, WorkItem
<1>7. \A y \in Work : \/ Stays(y) /\ ~Moves(y)
                      \/ /\ y = x /\ Matches(k) /\ Moves(y)
                         /\ item'[y].status = "ELIGIBLE"
  BY <1>1, <1>4, <1>5, <1>6 DEF Stays, Moves
<1>8. Live' \subseteq Live
  BY <1>1, <1>7 DEF Live, Stays
<1>9. WorkerInv(k)' /\ ~Holds(k)'
  <2>1. \A y \in Seen(k) : /\ worker[k].seen[y] <= item[y].revision
                           /\ worker[k].seen[y] = item[y].revision => item[y].status = "CLAIMED"
    BY <1>1 DEF WorkerInv, ReadIsOld
  <2>2. \A y \in Seen(k) : /\ worker[k].seen[y] \in Nat
                           /\ y \in Work /\ item'[y].revision \in Nat
    BY <1>4 DEF Seen, TypeOK, WorkItem
  <2>3. ReadIsOld(k)'
    BY <1>3, <1>4, <1>7, <2>1, <2>2 DEF ReadIsOld, Seen, Stays, Moves
  <2> QED
    BY <1>3, <2>3 DEF WorkerInv, ClaimIsHeld, AllocationIsCurrent, Holds, Working
<1>10. SchedulerInv'
  BY <1>1, <1>2, <1>3, <1>7, <1>8, <1>9, InvFromStep
<1> QED
  BY <1>2, <1>5, <1>10

\* A settling write is made by the worker whose claim the item is in.
LEMMA UpdateStep ==
  ASSUME IsFiniteSet(Work), TypeOK, TypeOK', SchedulerInv, NEW k \in Worker, Update(k)
  PROVE  /\ SchedulerInv'
         /\ item' # item => Holds(k)
<1> DEFINE x == worker[k].work
<1>1. /\ worker[k].pc = "update" /\ WorkerInv(k) /\ Working(k)
      /\ lease' = lease /\ lock' = lock
  BY DEF Update, SchedulerInv, Working
<1>2. /\ x \in Work
      /\ worker[k].revision <= item[x].revision
      /\ Matches(k) => /\ item[x].status \in {"CLAIMED", "RUNNING"}
                       /\ item[x].owner = home[k] /\ item[x].token = worker[k].token
  BY <1>1 DEF WorkerInv, ClaimIsHeld
<1>3. /\ worker \in [Worker -> Loop] /\ worker[k].revision \in Nat
      /\ worker[k].revision + 1 \in Nat
      /\ \A y \in Work : item[y] \in WorkItem /\ item[y].revision \in Nat
  BY DEF TypeOK, Loop, WorkItem
<1>4. \A intents \in SUBSET Intent : AfterFailedWrite(k, intents) =>
        /\ worker'[k].pc \in {"assert", "release"}
        /\ worker'[k].work = x
        /\ worker'[k].revision = worker[k].revision
        /\ worker'[k].token = worker[k].token
        /\ \A j \in Worker \ {k} : worker'[j] = worker[j]
  <2>1. ASSUME NEW i \in Intent, Settle(k, i)
        PROVE  /\ worker'[k] = [worker[k] EXCEPT !.pc = "assert", !.intent = i]
               /\ \A j \in Worker \ {k} : worker'[j] = worker[j]
    BY <1>3, <2>1 DEF Settle
  <2>2. ASSUME Goto(k, "release")
        PROVE  /\ worker'[k] = [worker[k] EXCEPT !.pc = "release"]
               /\ \A j \in Worker \ {k} : worker'[j] = worker[j]
    BY <1>3, <2>2 DEF Goto
  <2>3. worker[k] \in Loop
    BY <1>3
  <2> QED
    BY <2>1, <2>2, <2>3 DEF AfterFailedWrite, Loop
<1>5. LostConnection(k) \in SUBSET Intent /\ {"RETRY"} \in SUBSET Intent
  BY DEF LostConnection, Intent
<1>6. CASE ~Matches(k)
  <2>1. AfterFailedWrite(k, {"RETRY"}) /\ item' = item
    BY <1>6 DEF Update
  <2>2. /\ WorkerInv(k)'
        /\ Holds(k)' => Holds(k) /\ worker'[k].work = worker[k].work
    BY <1>1, <1>4, <1>5, <2>1, ClaimGoesOn
  <2> QED
    BY <1>1, <1>4, <1>5, <2>1, <2>2, ReadsKeep
<1>7. CASE Matches(k)
  <2>1. /\ item' = [item EXCEPT ![x] = SettledItem(k, item[x])]
        /\ AfterWrite(k) \/ AfterFailedWrite(k, LostConnection(k))
    BY <1>7 DEF Update
  <2>2. /\ item'[x] = SettledItem(k, item[x])
        /\ \A y \in Work \ {x} : item'[y] = item[y]
    BY <1>2, <2>1 DEF TypeOK
  <2>3. Holds(k)
    BY <1>1, <1>7 DEF Holds
  <2>4. SettledItem(k, item[x]).revision = item[x].revision + 1
    BY <1>2, <1>3 DEF SettledItem, WorkItem
  <2>5. /\ worker[k].intent = "RUNNING" =>
             /\ SettledItem(k, item[x]).status = "RUNNING"
             /\ SettledItem(k, item[x]).owner = item[x].owner
             /\ SettledItem(k, item[x]).token = item[x].token
        /\ worker[k].intent # "RUNNING" =>
             SettledItem(k, item[x]).status \in {"ELIGIBLE", "FAILED", "SUCCEEDED", "CANCELLED"}
    BY <1>2, <1>3 DEF SettledItem, WorkItem, TypeOK, Loop, Intent
  <2>6. Moves(x) /\ \A y \in Work \ {x} : Stays(y) /\ ~Moves(y)
    BY <1>1, <1>2, <1>3, <2>2, <2>4 DEF Moves, Stays
  <2>7. Live' \subseteq Live
    BY <1>1, <1>2, <1>7, <2>2, <2>5 DEF Live
  <2>8. item'[x].status \in {"CLAIMED", "RUNNING"} =>
          item'[x].owner = lease'[x].owner /\ item'[x].token = lease'[x].token
    BY <1>1, <1>2, <1>7, <2>2, <2>5 DEF SchedulerInv, ClaimFollowsLease
  <2>9. /\ \A j \in Worker \ {k} : worker'[j] = worker[j]
        /\ worker'[k].work = x
        /\ worker'[k].token = worker[k].token
        /\ \/ /\ worker'[k].pc \in {"assert", "release"}
              /\ worker'[k].revision = worker[k].revision
           \/ /\ worker'[k].pc = "invoke"
              /\ worker'[k].revision = worker[k].revision + 1
              /\ worker[k].intent = "RUNNING"
    <3>1. CASE AfterFailedWrite(k, LostConnection(k))
      BY <1>4, <1>5, <3>1
    <3>2. CASE AfterWrite(k)
      BY <1>3, <3>2 DEF AfterWrite, Goto, Loop
    <3> QED
      BY <2>1, <3>1, <3>2
  <2>10. WorkerInv(k)'
    <3>1. item'[x].revision = worker[k].revision + 1
      BY <1>7, <2>2, <2>4 DEF Matches
    <3>2. ClaimIsHeld(k)'
      BY <1>2, <1>3, <1>7, <2>2, <2>5, <2>9, <3>1 DEF ClaimIsHeld, Working, Matches
    <3> QED
      BY <2>9, <3>2 DEF WorkerInv, ReadIsOld, AllocationIsCurrent
  <2>11. /\ \A y \in Work : Stays(y) \/ Moves(y)
         /\ \A y \in Work : ~Stays(y) => y = x
         /\ \A y \in Work : Moves(y) => y = x
    BY <2>6
  <2>12. item[x].status \notin {"ELIGIBLE", "BLOCKED_DEPENDENCY"}
    BY <1>2, <1>7
  <2>13. SchedulerInv'
    BY <1>1, <2>3, <2>6, <2>7, <2>8, <2>9, <2>10, <2>11, <2>12, InvFromStep
  <2> QED
    BY <2>3, <2>13
<1> QED
  BY <1>6, <1>7
\* A claim is made by the holder of the lock, of an item that waits, while there is
\* room; candidates that could not be claimed at most have their lease renewed and
\* released.
LEMMA ClaimStep ==
  ASSUME IsFiniteSet(Work), TypeOK, TypeOK', SchedulerInv, NEW k \in Worker,
         \/ \E x \in Work : Claim(k, x)
         \/ ClaimNothing(k)
  PROVE  SchedulerInv'
<1>1. /\ worker[k].pc = "allocate" /\ WorkerInv(k)
      /\ \A j \in Worker \ {k} : worker'[j] = worker[j]
      /\ lock' = NoWorker
  BY DEF Claim, ClaimNothing, Leave, SchedulerInv, TypeOK
<1>2. /\ lock = k
      /\ \A x \in worker[k].unblocked : item[x].status = "BLOCKED_DEPENDENCY"
      /\ \A x \in Seen(k) :
           /\ x \in Work
           /\ item[x].status \in {"ELIGIBLE", "BLOCKED_DEPENDENCY"}
           /\ Cardinality(Live) < GlobalLimit
           /\ Cardinality(In(projectOf[x], Live)) < ProjectLimit[projectOf[x]]
  BY <1>1 DEF WorkerInv, AllocationIsCurrent, Seen
<1>3. /\ \A x \in Work : item[x] \in WorkItem /\ item[x].revision \in Nat
      /\ \A x \in Work : lease[x] \in LeaseRow
      /\ home[k] \in Owner
  BY SchedulerAssumption DEF TypeOK, WorkItem
\* A row the transaction does not claim: unblocked, or left alone.
<1>4. ASSUME NEW x \in Work, item'[x] = UnblockedItem(k, x),
             x \in Seen(k) \/ lease'[x] = lease[x]
      PROVE  /\ Stays(x) \/ Moves(x)
             /\ ~Stays(x) => item[x].status = "BLOCKED_DEPENDENCY"
             /\ Moves(x) => item'[x].status = "ELIGIBLE"
             /\ x \in Live' => x \in Live
  <2>1. CASE x \in worker[k].unblocked
    <3>1. /\ item'[x].status = "ELIGIBLE"
          /\ item'[x].revision = item[x].revision + 1
      BY <1>3, <1>4, <2>1 DEF UnblockedItem, WorkItem
    <3>2. Moves(x) /\ ~(x \in Live')
      BY <1>3, <3>1 DEF Moves, Live
    <3> QED
      BY <1>2, <2>1, <3>1, <3>2
  <2>2. CASE x \notin worker[k].unblocked
    <3>1. item'[x] = item[x]
      BY <1>4, <2>2 DEF UnblockedItem
    <3>2. item[x].status \in {"CLAIMED", "RUNNING"} => lease'[x] = lease[x]
      BY <1>2, <1>4
    <3>3. Stays(x) /\ ~Moves(x)
      BY <1>3, <3>1, <3>2 DEF Stays, Moves
    <3>4. x \in Live' => x \in Live
      BY <3>1, <3>2 DEF Live
    <3> QED
      BY <3>3, <3>4
  <2> QED
    BY <2>1, <2>2
<1>5. CASE ClaimNothing(k)
  <2>1. \A x \in Work : item'[x] = UnblockedItem(k, x) /\ (x \in Seen(k) \/ lease'[x] = lease[x])
    BY <1>5 DEF ClaimNothing
  <2>2. worker'[k].pc = "idle"
    BY <1>5 DEF ClaimNothing, Leave, TypeOK, Idle
  <2>3. WorkerInv(k)' /\ ~Holds(k)'
    BY <2>2 DEF WorkerInv, ClaimIsHeld, ReadIsOld, AllocationIsCurrent, Holds, Working
  <2>4. Live' \subseteq Live
    BY <1>4, <2>1 DEF Live
  <2> QED
    BY <1>1, <1>2, <1>4, <2>1, <2>3, <2>4, InvFromStep
<1>6. ASSUME NEW x \in Work, Claim(k, x) PROVE SchedulerInv'
  <2>1. x \in Seen(k)
    BY <1>6 DEF Claim
  <2>2. \A y \in Work \ {x} :
          item'[y] = UnblockedItem(k, y) /\ (y \in Seen(k) \/ lease'[y] = lease[y])
    BY <1>6 DEF Claim
  <2>3. /\ item'[x] = ClaimedItem(k, x)
        /\ lease'[x] = Acquired(lease[x], home[k])
        /\ worker'[k] = [Idle EXCEPT !.pc = "ready", !.work = x,
                                     !.revision = item[x].revision + 1,
                                     !.token = lease[x].token + 1]
    BY <1>6 DEF Claim, TypeOK
  <2>4. /\ item'[x].revision = item[x].revision + 1
        /\ item'[x].status = "CLAIMED"
        /\ item'[x].owner = home[k] /\ item'[x].token = lease[x].token + 1
    BY <1>3, <2>3 DEF ClaimedItem, WorkItem
  <2>5. lease'[x].owner = home[k] /\ lease'[x].token = lease[x].token + 1
    BY <1>3, <2>3 DEF Acquired, LeaseRow
  <2>6. /\ worker'[k].pc = "ready" /\ worker'[k].work = x
        /\ worker'[k].revision = item'[x].revision
        /\ worker'[k].token = lease[x].token + 1
    BY <2>3, <2>4 DEF Idle
  <2>7. Moves(x)
    BY <1>3, <2>4 DEF Moves
  <2>8. WorkerInv(k)'
    <3>1. item'[x].revision <= item'[x].revision
      BY DEF TypeOK, WorkItem
    <3>2. ClaimIsHeld(k)'
      BY <2>4, <2>6, <3>1 DEF ClaimIsHeld
    <3> QED
      BY <2>6, <3>2 DEF WorkerInv, ReadIsOld, AllocationIsCurrent
  <2>9. Live' \subseteq Live \cup {x}
    BY <1>4, <2>2 DEF Live
  <2>10. CapacityRespected'
    <3>1. IsFiniteSet(Live) /\ IsFiniteSet(Live \cup {x})
      BY FS_Subset, FS_AddElement DEF Live
    <3>2. /\ GlobalLimit \in Nat
          /\ \A p \in Project : ProjectLimit[p] \in Nat
      BY SchedulerAssumption
    <3>3. Cardinality(Live') <= GlobalLimit
      <4>1. /\ Cardinality(Live \cup {x}) <= Cardinality(Live) + 1
            /\ Cardinality(Live) \in Nat /\ Cardinality(Live \cup {x}) \in Nat
        BY <3>1, FS_AddElement, FS_CardinalityType
      <4>2. Cardinality(Live') <= Cardinality(Live \cup {x}) /\ Cardinality(Live') \in Nat
        BY <2>9, <3>1, FS_Subset, FS_CardinalityType
      <4> QED
        BY <1>2, <2>1, <3>2, <4>1, <4>2
    <3>4. ASSUME NEW p \in Project PROVE Cardinality(In(p, Live')) <= ProjectLimit[p]
      <4>1. IsFiniteSet(In(p, Live))
        BY <3>1, FS_Subset DEF In
      <4>2. Cardinality(In(p, Live)) <= ProjectLimit[p]
        BY <3>4 DEF SchedulerInv, CapacityRespected
      <4>3. CASE projectOf[x] # p
        <5>1. In(p, Live') \subseteq In(p, Live)
          BY <2>9, <4>3 DEF In
        <5> QED
          BY <3>2, <4>1, <4>2, <5>1, FS_Subset, FS_CardinalityType
      <4>4. CASE projectOf[x] = p
        <5>1. In(p, Live') \subseteq In(p, Live) \cup {x}
          BY <2>9 DEF In
        <5>2. /\ IsFiniteSet(In(p, Live) \cup {x})
              /\ Cardinality(In(p, Live) \cup {x}) <= Cardinality(In(p, Live)) + 1
              /\ Cardinality(In(p, Live)) \in Nat /\ Cardinality(In(p, Live) \cup {x}) \in Nat
          <6>1. /\ IsFiniteSet(In(p, Live) \cup {x})
                /\ \/ Cardinality(In(p, Live) \cup {x}) = Cardinality(In(p, Live))
                   \/ Cardinality(In(p, Live) \cup {x}) = Cardinality(In(p, Live)) + 1
            BY <4>1, FS_AddElement
          <6>2. Cardinality(In(p, Live)) \in Nat
            BY <4>1, FS_CardinalityType
          <6> QED
            BY <6>1, <6>2
        <5>3. /\ Cardinality(In(p, Live')) <= Cardinality(In(p, Live) \cup {x})
              /\ Cardinality(In(p, Live')) \in Nat
          BY <5>1, <5>2, FS_Subset, FS_CardinalityType
        <5>4. Cardinality(In(p, Live)) < ProjectLimit[p]
          BY <1>2, <2>1, <4>4
        <5> QED
          BY <3>2, <5>2, <5>3, <5>4
      <4> QED
        BY <4>3, <4>4
    <3> QED
      BY <3>3, <3>4 DEF CapacityRespected, In
  <2>11. \A y \in Work : Stays(y) \/ Moves(y)
    BY <1>4, <2>2, <2>7
  <2>12. \A y \in Work : Moves(y) /\ item'[y].status \in {"CLAIMED", "RUNNING"} =>
           item'[y].owner = lease'[y].owner /\ item'[y].token = lease'[y].token
    BY <1>4, <2>2, <2>4, <2>5
  <2>13. \A y \in Work : ~Stays(y) => item[y].status \in {"ELIGIBLE", "BLOCKED_DEPENDENCY"}
    BY <1>2, <1>4, <2>1, <2>2
  <2> QED
    BY <1>1, <1>2, <2>6, <2>7, <2>8, <2>10, <2>11, <2>12, <2>13, InvFromStep
<1> QED
  BY <1>5, <1>6

(***************************************************************************)
(* The theorems                                                            *)
(***************************************************************************)

LEMMA InvStep ==
  ASSUME IsFiniteSet(Work)
  PROVE  TypeOK /\ TypeOK' /\ SchedulerInv /\ [Next]_vars => SchedulerInv'
<1> SUFFICES ASSUME TypeOK, TypeOK', SchedulerInv, [Next]_vars PROVE SchedulerInv'
  OBVIOUS
<1>1. CASE UNCHANGED vars
  <2>1. item' = item /\ lease' = lease /\ lock' = lock /\ worker' = worker
    BY <1>1 DEF vars
  <2>2. (\A x \in Work : Stays(x) /\ ~Moves(x)) /\ Live' \subseteq Live
    BY <2>1, RowsStay
  <2> QED
    BY <2>1, <2>2, SchedulerAssumption, InvFromStep
<1>2. ASSUME NEW k \in Worker, WorkerStep(k) \/ LoseConnection(k) \/ Crash(k)
      PROVE  SchedulerInv'
  BY <1>2, ReadingStep, DispatchStep, SnapshotStep, RequeueStep, UpdateStep, ClaimStep
  DEF WorkerStep
<1> QED
  BY <1>1, <1>2, EnvironmentStep DEF Next

LEMMA InvInit ==
  ASSUME IsFiniteSet(Work), Init
  PROVE  SchedulerInv
<1>1. /\ \A x \in Work : item[x].status = "ABSENT"
      /\ \A k \in Worker : worker[k].pc = "idle"
  BY DEF Init, NoItem, Idle
<1>2. Live = {} /\ \A p : In(p, Live) = {}
  BY <1>1 DEF Live, In
<1>3. CapacityRespected
  BY <1>2, FS_EmptySet, SchedulerAssumption DEF CapacityRespected
<1>4. \A k \in Worker : WorkerInv(k) /\ ~Holds(k)
  BY <1>1 DEF WorkerInv, ClaimIsHeld, ReadIsOld, AllocationIsCurrent, Holds, Working
<1> QED
  BY <1>1, <1>3, <1>4 DEF SchedulerInv, ClaimFollowsLease, ClaimsAreSingle

THEOREM SchedulerInvariant ==
  ASSUME IsFiniteSet(Work)
  PROVE  Spec => []SchedulerInv
<1>1. Init => SchedulerInv
  BY InvInit
<1>2. TypeOK /\ TypeOK' /\ SchedulerInv /\ [Next]_vars => SchedulerInv'
  BY InvStep
<1> QED
  BY <1>1, <1>2, SchedulerTypes, PTL DEF Spec

\* "Per-project and global concurrency caps": live claims never exceed the capacity of
\* a project or of the platform, however many workers allocate, wait for the lock while
\* leases expire, and die.
THEOREM CapacityAlways ==
  ASSUME IsFiniteSet(Work)
  PROVE  Spec => []CapacityRespected
<1>1. SchedulerInv => CapacityRespected
  BY DEF SchedulerInv
<1> QED
  BY <1>1, SchedulerInvariant, PTL

\* For one item there is one claim, under one lease, worked on by one worker: the
\* revision a worker carries is the item's own only while the claim is still its.
THEOREM ClaimsAreExclusive ==
  ASSUME IsFiniteSet(Work)
  PROVE  Spec => []ClaimIsExclusive
<1>1. SchedulerInv => ClaimIsExclusive
  <2> SUFFICES ASSUME SchedulerInv PROVE OneInvocation
    BY DEF SchedulerInv, ClaimIsExclusive
  <2>1. \A k \in Worker : worker[k].pc = "invoke" => Holds(k)
    BY DEF SchedulerInv, WorkerInv, ClaimIsHeld, Holds, Working
  <2> QED
    BY <2>1 DEF SchedulerInv, ClaimsAreSingle, OneInvocation
<1> QED
  BY <1>1, SchedulerInvariant, PTL

\* "Stale fence tokens cannot settle work": whoever settles an item works on the claim
\* the item is in, only a claim that was not started under a lease that is not live is
\* taken from its owner, and a finished item stays as it is.
THEOREM SettlementIsOurs ==
  ASSUME IsFiniteSet(Work)
  PROVE  Spec => OnlyTheClaimSettles
<1> DEFINE Settles ==
      /\ \A x \in Work : item[x].status \in Terminal => item'[x] = item[x]
      /\ \A k \in Worker :
           LET x == worker[k].work IN
           /\ Update(k) /\ item' # item =>
                item[x].owner = home[k] /\ item[x].token = worker[k].token
           /\ Requeue(k) /\ item' # item =>
                item[x].status = "CLAIMED" /\ ~LiveHeld(lease[x])
<1>1. ASSUME TypeOK, TypeOK', SchedulerInv, [Next]_vars PROVE Settles
  <2>1. ASSUME NEW k \in Worker, Update(k), item' # item
        PROVE  /\ item[worker[k].work].owner = home[k]
               /\ item[worker[k].work].token = worker[k].token
               /\ worker[k].work \in Work
               /\ item[worker[k].work].status \in {"CLAIMED", "RUNNING"}
    <3>1. Holds(k)
      BY <1>1, <2>1, UpdateStep
    <3> QED
      BY <1>1, <3>1 DEF SchedulerInv, WorkerInv, ClaimIsHeld, Holds
  <2>2. ASSUME NEW k \in Worker, Requeue(k), item' # item
        PROVE  /\ item[worker[k].work].status = "CLAIMED"
               /\ ~LiveHeld(lease[worker[k].work])
    BY <1>1, <2>2, RequeueStep
  <2>3. ASSUME NEW x \in Work, item[x].status \in Terminal, item'[x] # item[x] PROVE FALSE
    <3>1. item \in [Work -> WorkItem] /\ item' \in [Work -> WorkItem] /\ item' # item
      BY <1>1, <2>3 DEF TypeOK
    <3>2. item[x].status \notin {"ABSENT", "BLOCKED_DEPENDENCY", "ELIGIBLE", "CLAIMED", "RUNNING"}
      BY <2>3 DEF Terminal
    <3>3. ~UNCHANGED vars
      BY <3>1 DEF vars
    <3>4. ~\E p \in Pausable : SetPause(p)
      BY <3>1 DEF SetPause
    <3>5. ASSUME NEW y \in Work, Discover(y) \/ BecomeDue(y) \/ ExpireLease(y) \/ ReachMilestone(y)
          PROVE  FALSE
      <4>1. CASE Discover(y)
        BY <2>3, <3>1, <3>2, <4>1 DEF Discover, NoItem
      <4>2. CASE BecomeDue(y)
        BY <2>3, <3>1, <3>2, <4>2 DEF BecomeDue
      <4> QED
        BY <3>1, <3>5, <4>1, <4>2 DEF ExpireLease, ReachMilestone
    <3>6. ASSUME NEW k \in Worker, WorkerStep(k) \/ LoseConnection(k) \/ Crash(k) PROVE FALSE
      <4>1. CASE Update(k)
        <5>1. x # worker[k].work
          BY <2>1, <3>1, <3>2, <4>1
        <5> QED
          BY <2>3, <3>1, <4>1, <5>1 DEF Update
      <4>2. CASE Requeue(k)
        <5>1. x # worker[k].work
          BY <2>2, <3>1, <3>2, <4>2
        <5> QED
          BY <2>3, <3>1, <4>2, <5>1 DEF Requeue
      <4>3. CASE ClaimNothing(k) \/ \E y \in Work : Claim(k, y)
        <5>1. /\ \A y \in worker[k].unblocked : item[y].status = "BLOCKED_DEPENDENCY"
              /\ \A y \in Seen(k) : item[y].status \in {"ELIGIBLE", "BLOCKED_DEPENDENCY"}
          BY <1>1, <4>3 DEF SchedulerInv, WorkerInv, AllocationIsCurrent, ClaimNothing, Claim
        <5>2. x \notin Seen(k) /\ UnblockedItem(k, x) = item[x]
          BY <3>2, <5>1 DEF UnblockedItem
        <5> QED
          BY <2>3, <4>3, <5>2 DEF ClaimNothing, Claim
      <4> QED
        BY <3>1, <3>6, <4>1, <4>2, <4>3
        DEF WorkerStep, Restart, ReconcileList, ReconcileCheck, Snapshot, CheckReady, Invoke,
            AssertFence, ReleaseLease, LoseConnection, Crash
    <3> QED
      BY <1>1, <3>3, <3>4, <3>5, <3>6 DEF Next
  <2> QED
    BY <2>1, <2>2, <2>3
<1>2. Spec => [][Settles]_vars
  BY <1>1, SchedulerTypes, SchedulerInvariant, PTL DEF Spec
<1> QED
  BY <1>2 DEF OnlyTheClaimSettles

(***************************************************************************)
(* How an item is chosen                                                   *)
(***************************************************************************)

\* Taking one item out leaves a sequence of the same kind.
LEMMA WithoutProperties ==
  ASSUME NEW S, NEW s \in Seq(S), NEW i \in 1 .. Len(s)
  PROVE  /\ C!Without(s, i) \in Seq(S)
         /\ Len(C!Without(s, i)) = Len(s) - 1
<1>1. Len(s) \in Nat /\ i \in Int /\ \A j \in 1 .. Len(s) : s[j] \in S
  BY LenProperties, ElementOfSeq
<1>2. SubSeq(s, 1, i - 1) \in Seq(S) /\ Len(SubSeq(s, 1, i - 1)) = i - 1
  BY <1>1, SubSeqProperties
<1>3. SubSeq(s, i + 1, Len(s)) \in Seq(S) /\ Len(SubSeq(s, i + 1, Len(s))) = Len(s) - i
  <2>1. \A j \in i + 1 .. Len(s) : s[j] \in S
    BY <1>1
  <2> QED
    BY <1>1, <2>1, SubSeqProperties
<1> DEFINE before == SubSeq(s, 1, i - 1)
           after == SubSeq(s, i + 1, Len(s))
<1>4. C!Without(s, i) = before \o after
  BY DEF C!Without
<1>5. before \in Seq(S) /\ after \in Seq(S) /\ Len(before) = i - 1 /\ Len(after) = Len(s) - i
  BY <1>2, <1>3
<1> HIDE DEF before, after
<1>6. before \o after \in Seq(S) /\ Len(before \o after) = i - 1 + (Len(s) - i)
  BY <1>1, <1>5, ConcatProperties
<1> QED
  BY <1>1, <1>4, <1>6

\* So does putting one in.
LEMMA InsertedProperties ==
  ASSUME NEW S, NEW s \in Seq(S), NEW i \in 1 .. Len(s) + 1, NEW x \in S
  PROVE  /\ C!Inserted(s, i, x) \in Seq(S)
         /\ Len(C!Inserted(s, i, x)) = Len(s) + 1
<1>1. Len(s) \in Nat /\ i \in Int /\ \A j \in 1 .. Len(s) : s[j] \in S
  BY LenProperties, ElementOfSeq
<1>2. SubSeq(s, 1, i - 1) \in Seq(S) /\ Len(SubSeq(s, 1, i - 1)) = i - 1
  BY <1>1, SubSeqProperties
<1>3. SubSeq(s, i, Len(s)) \in Seq(S) /\ Len(SubSeq(s, i, Len(s))) = Len(s) - i + 1
  BY <1>1, SubSeqProperties
<1>4. <<x>> \in Seq(S) /\ Len(<<x>>) = 1
  OBVIOUS
<1>5. /\ SubSeq(s, 1, i - 1) \o <<x>> \in Seq(S)
      /\ Len(SubSeq(s, 1, i - 1) \o <<x>>) = i
  BY <1>1, <1>2, <1>4, ConcatProperties
<1> DEFINE before == SubSeq(s, 1, i - 1) \o <<x>>
           after == SubSeq(s, i, Len(s))
<1>6. C!Inserted(s, i, x) = before \o after
  BY DEF C!Inserted
<1>7. before \in Seq(S) /\ after \in Seq(S) /\ Len(before) = i /\ Len(after) = Len(s) - i + 1
  BY <1>3, <1>5
<1> HIDE DEF before, after
<1>8. before \o after \in Seq(S) /\ Len(before \o after) = Len(before) + Len(after)
  BY <1>7, ConcatProperties
<1> QED
  BY <1>1, <1>6, <1>7, <1>8

\* What a claim pays in credit for one that it passes over.
Credit(p) == C!Quantum * weight[p]

\* The items of which BypassInv speaks well, when the deficits are d.
Sound(d) ==
  {x \in C!Item :
     /\ x.passed > 0 => (x.passed - 1) * Credit(x.project) < C!MaxDeficitBoost
     /\ d[x.project] < C!MaxDeficitBoost => x.passed * Credit(x.project) <= d[x.project]}

ChoiceInv ==
  /\ deficit \in [Contenders -> 0 .. C!MaxDeficitBoost]
  /\ backlog \in Seq(Sound(deficit)) /\ Len(backlog) <= MaxBacklog

LEMMA CreditType == \A p \in Contenders : Credit(p) \in Nat /\ Credit(p) >= C!Quantum
  BY FairnessAssumption DEF Credit, C!Quantum

\* An item that was passed over k times, by a project whose credit is c, while its deficit
\* rose to d and now to e.
LEMMA CountOfPasses ==
  ASSUME NEW k \in Nat, NEW c \in Nat, NEW d \in 0 .. 300, NEW e \in 0 .. 300, e >= d,
         d < 300 => k * c <= d
  PROVE  /\ e < 300 => k * c <= e
         /\ d < 300 => (k + 1 - 1) * c < 300
         /\ d < 300 /\ e < 300 /\ e = d + c => (k + 1) * c <= e
<1>1. k * c \in Nat /\ (k + 1) * c = k * c + c /\ (k + 1 - 1) * c = k * c
  OBVIOUS
<1> DEFINE m == k * c
           n == (k + 1) * c
<1>2. m \in Nat /\ n = m + c /\ (k + 1 - 1) * c = m /\ (d < 300 => m <= d)
  BY <1>1
<1> HIDE DEF m, n
<1>3. /\ e < 300 => m <= e
      /\ d < 300 => m < 300
      /\ d < 300 /\ e < 300 /\ e = d + c => n <= e
  BY <1>2
<1> QED
  BY <1>2, <1>3 DEF m, n

\* The credit that a project has got for being passed over is in its deficit, or the
\* deficit is at the cap.
LEMMA ChoiceInvMeans == ChoiceInv => C!TypeOK /\ C!BypassInv
<1> SUFFICES ASSUME ChoiceInv PROVE C!TypeOK /\ C!BypassInv
  OBVIOUS
<1>1. \A i \in 1 .. Len(backlog) : backlog[i] \in Sound(deficit)
  BY ElementOfSeq DEF ChoiceInv
<1>2. backlog \in Seq(C!Item)
  <2>1. Sound(deficit) \subseteq C!Item
    BY DEF Sound
  <2>2. /\ Len(backlog) \in Nat
        /\ backlog \in [1 .. Len(backlog) -> Sound(deficit)]
    BY LenProperties DEF ChoiceInv
  <2>3. backlog \in [1 .. Len(backlog) -> C!Item]
    BY <2>1, <2>2
  <2> QED
    BY <2>2, <2>3, SeqDef
<1>3. C!BypassInv
  BY <1>1 DEF Sound, Credit, C!BypassInv, C!BypassIsBounded, C!BypassIsCounted
<1> QED
  BY <1>2, <1>3 DEF ChoiceInv, C!TypeOK

\* Deficits stay within the cap, and no claim takes from one.
LEMMA ChargedProperties ==
  ASSUME ChoiceInv, NEW p \in Contenders, NEW q \in Contenders, NEW asked \in SUBSET Contenders
  PROVE  /\ C!Charged(p, q, asked) \in 0 .. C!MaxDeficitBoost
         /\ C!Charged(p, q, asked) >= deficit[p]
         /\ p \in asked /\ p # q /\ C!Contender(p) /\ C!Charged(p, q, asked) < C!MaxDeficitBoost
              => C!Charged(p, q, asked) = deficit[p] + Credit(p)
<1>1. Credit(p) \in Nat /\ Credit(p) >= C!Quantum /\ deficit[p] \in 0 .. C!MaxDeficitBoost
  BY CreditType DEF ChoiceInv
<1> QED
  BY <1>1, FairnessAssumption DEF C!Charged, C!Min, C!Quantum, C!MaxDeficitBoost, Credit

LEMMA UrgencyType == \A x \in C!Item : C!Urgency(x) \in Int
<1> SUFFICES ASSUME NEW x \in C!Item PROVE C!Urgency(x) \in Int
  OBVIOUS
<1>1. x.deadline \in Int /\ x.age \in Int /\ x.class \in DOMAIN C!PriorityRank
  BY DEF C!Item, C!NoDeadline, C!MaxAge
<1>2. C!PriorityRank[x.class] \in Int
  BY <1>1 DEF C!PriorityRank
<1>3. C!DeadlineBoost(x.deadline) \in Int
  <2>1. CASE x.deadline = C!NoDeadline
    BY <2>1 DEF C!DeadlineBoost
  <2>2. CASE x.deadline # C!NoDeadline
    BY <1>1, <2>2 DEF C!DeadlineBoost
  <2> QED
    BY <2>1, <2>2
<1> QED
  BY <1>1, <1>2, <1>3 DEF C!Urgency

\* Of two candidates the one that is chosen although the other is ahead of it has the
\* larger boost: the deficit of the other is below the cap, and it is not of its project.
LEMMA OnlyABoostPasses ==
  ASSUME ChoiceInv, NEW candidates \in SUBSET (1 .. Len(backlog)),
         NEW i \in candidates, NEW j \in candidates,
         C!Best(i, candidates), C!Ahead(j, i)
  PROVE  /\ deficit[backlog[j].project] < C!MaxDeficitBoost
         /\ backlog[j].project # backlog[i].project
<1>1. /\ backlog[i] \in C!Item /\ backlog[j] \in C!Item
      /\ i \in Nat /\ j \in Nat
  <2>1. Len(backlog) \in Nat
    BY LenProperties DEF ChoiceInv
  <2> QED
    BY <2>1, ElementOfSeq DEF ChoiceInv, Sound
<1> DEFINE ui == C!Urgency(backlog[i])
           uj == C!Urgency(backlog[j])
           di == deficit[backlog[i].project]
           dj == deficit[backlog[j].project]
<1>2. di \in 0 .. 300 /\ dj \in 0 .. 300
  BY <1>1 DEF ChoiceInv, C!Item, C!MaxDeficitBoost
<1>3. ui \in Int /\ uj \in Int
  BY <1>1, UrgencyType
<1>4. /\ C!Score(backlog[i]) = ui + C!Min(300, di)
      /\ C!Score(backlog[j]) = uj + C!Min(300, dj)
  BY DEF C!Score, C!MaxDeficitBoost
<1>5. \/ C!Score(backlog[j]) < C!Score(backlog[i])
      \/ C!Score(backlog[j]) = C!Score(backlog[i]) /\ i <= j
  BY DEF C!Best
<1>6. ui < uj \/ (ui = uj /\ j < i)
  BY DEF C!Ahead
<1>7. dj < di
  <2> HIDE DEF ui, uj, di, dj
  <2> QED
    BY <1>1, <1>2, <1>3, <1>4, <1>5, <1>6 DEF C!Min
<1>8. dj < 300
  <2> HIDE DEF di, dj
  <2> QED
    BY <1>2, <1>7
<1>9. backlog[j].project # backlog[i].project
  <2> SUFFICES ASSUME backlog[j].project = backlog[i].project PROVE FALSE
    OBVIOUS
  <2>1. dj = di
    OBVIOUS
  <2> HIDE DEF di, dj
  <2> QED
    BY <2>1, <1>2, <1>7
<1> QED
  BY <1>8, <1>9 DEF C!MaxDeficitBoost

\* Who is passed over has its credit.
LEMMA ClaimKeepsSound ==
  ASSUME ChoiceInv, NEW asked \in SUBSET Contenders,
         NEW candidates \in SUBSET (1 .. Len(backlog)), NEW i \in candidates,
         \A j \in candidates : backlog[j].project \in asked,
         C!Best(i, candidates),
         deficit' = [p \in Contenders |-> C!Charged(p, backlog[i].project, asked)],
         NEW j \in 1 .. Len(backlog)
  PROVE  C!PassedOver(i, candidates)[j] \in Sound(deficit')
<1> DEFINE x == backlog[j]
           p == x.project
           q == backlog[i].project
<1>1. /\ x \in Sound(deficit) /\ x \in C!Item /\ p \in Contenders /\ x.passed \in Nat
      /\ q \in Contenders
  BY ElementOfSeq DEF ChoiceInv, Sound, C!Item
<1>2. /\ deficit[p] \in 0 .. 300 /\ deficit'[p] \in 0 .. 300 /\ deficit'[p] >= deficit[p]
      /\ p \in asked /\ p # q /\ C!Contender(p) /\ deficit'[p] < 300
           => deficit'[p] = deficit[p] + Credit(p)
  BY <1>1, ChargedProperties DEF ChoiceInv, C!MaxDeficitBoost
<1>3. Credit(p) \in Nat
  BY <1>1, CreditType
<1>4. /\ x.passed > 0 => (x.passed - 1) * Credit(p) < 300
      /\ deficit[p] < 300 => x.passed * Credit(p) <= deficit[p]
  BY <1>1 DEF Sound, C!MaxDeficitBoost
<1>5. /\ deficit'[p] < 300 => x.passed * Credit(p) <= deficit'[p]
      /\ deficit[p] < 300 => (x.passed + 1 - 1) * Credit(p) < 300
      /\ deficit[p] < 300 /\ deficit'[p] < 300 /\ deficit'[p] = deficit[p] + Credit(p)
           => (x.passed + 1) * Credit(p) <= deficit'[p]
  <2> DEFINE k == x.passed
             d == deficit[p]
             e == deficit'[p]
             credit == Credit(p)
  <2>1. /\ k \in Nat /\ credit \in Nat /\ d \in 0 .. 300 /\ e \in 0 .. 300 /\ e >= d
        /\ d < 300 => k * credit <= d
    BY <1>1, <1>2, <1>3, <1>4
  <2> HIDE DEF k, d, e, credit
  <2>2. /\ e < 300 => k * credit <= e
        /\ d < 300 => (k + 1 - 1) * credit < 300
        /\ d < 300 /\ e < 300 /\ e = d + credit => (k + 1) * credit <= e
    BY <2>1, CountOfPasses
  <2> QED
    BY <2>2 DEF k, d, e, credit
<1>6. CASE j \in candidates /\ C!Ahead(j, i)
  <2> DEFINE y == [x EXCEPT !.passed = @ + 1]
  <2>1. C!PassedOver(i, candidates)[j] = y
    BY <1>6 DEF C!PassedOver
  <2>2. y \in C!Item /\ y.project = p /\ y.passed = x.passed + 1
    BY <1>1 DEF C!Item
  <2>3. deficit[p] < 300 /\ p # q
    BY <1>6, OnlyABoostPasses DEF C!MaxDeficitBoost
  <2>4. C!Contender(p)
    BY DEF C!Contender
  <2>5. deficit'[p] < 300 => deficit'[p] = deficit[p] + Credit(p)
    BY <1>2, <1>6, <2>3, <2>4
  <2>6. /\ (y.passed - 1) * Credit(y.project) < 300
        /\ deficit'[y.project] < 300 => y.passed * Credit(y.project) <= deficit'[y.project]
    <3>1. y.passed - 1 = x.passed + 1 - 1
      BY <1>1, <2>2
    <3> HIDE DEF y
    <3> QED
      BY <1>5, <2>2, <2>3, <2>5, <3>1
  <2> HIDE DEF y
  <2> QED
    BY <2>1, <2>2, <2>6 DEF Sound, C!MaxDeficitBoost
<1>7. CASE ~(j \in candidates /\ C!Ahead(j, i))
  <2>1. C!PassedOver(i, candidates)[j] = x
    BY <1>7 DEF C!PassedOver
  <2> QED
    BY <1>1, <1>4, <1>5, <2>1 DEF Sound, C!MaxDeficitBoost
<1> QED
  BY <1>6, <1>7

LEMMA ChoiceInit == C!Init => ChoiceInv
<1> SUFFICES ASSUME C!Init PROVE ChoiceInv
  OBVIOUS
<1>1. backlog \in Seq(Sound(deficit)) /\ Len(backlog) = 0
  BY EmptySeq DEF C!Init
<1> QED
  BY <1>1, FairnessAssumption DEF C!Init, ChoiceInv, C!MaxDeficitBoost

LEMMA ChoiceStep == ChoiceInv /\ [C!Next]_C!vars => ChoiceInv'
<1> SUFFICES ASSUME ChoiceInv, [C!Next]_C!vars PROVE ChoiceInv'
  OBVIOUS
<1>0. /\ Len(backlog) \in Nat /\ backlog \in Seq(Sound(deficit))
      /\ \A j \in 1 .. Len(backlog) : backlog[j] \in Sound(deficit)
  BY LenProperties, ElementOfSeq DEF ChoiceInv
<1>1. CASE C!Claim
  <2>1. PICK asked \in SUBSET Contenders, candidates \in SUBSET (1 .. Len(backlog)) :
          /\ \A j \in candidates : backlog[j].project \in asked
          /\ \E i \in candidates :
               /\ C!Best(i, candidates)
               /\ deficit' = [p \in Contenders |-> C!Charged(p, backlog[i].project, asked)]
               /\ backlog' = C!Without(C!PassedOver(i, candidates), i)
    BY <1>1 DEF C!Claim
  <2>2. PICK i \in candidates :
          /\ C!Best(i, candidates)
          /\ deficit' = [p \in Contenders |-> C!Charged(p, backlog[i].project, asked)]
          /\ backlog' = C!Without(C!PassedOver(i, candidates), i)
    BY <2>1
  <2>3. i \in 1 .. Len(backlog) /\ backlog[i].project \in Contenders
    BY <1>0, <2>1 DEF Sound, C!Item
  <2>4. deficit' \in [Contenders -> 0 .. C!MaxDeficitBoost]
    BY <2>2, <2>3, ChargedProperties
  <2>5. \A j \in 1 .. Len(backlog) : C!PassedOver(i, candidates)[j] \in Sound(deficit')
    BY <2>1, <2>2, ClaimKeepsSound
  <2>6. C!PassedOver(i, candidates) \in [1 .. Len(backlog) -> Sound(deficit')]
    BY <2>5 DEF C!PassedOver
  <2>7. /\ C!PassedOver(i, candidates) \in Seq(Sound(deficit'))
        /\ Len(C!PassedOver(i, candidates)) = Len(backlog)
    BY <1>0, <2>6, SeqDef, LenProperties
  <2>8. /\ backlog' \in Seq(Sound(deficit'))
        /\ Len(backlog') = Len(backlog) - 1
    BY <2>2, <2>3, <2>7, WithoutProperties
  <2> QED
    BY <1>0, <2>4, <2>8, FairnessAssumption DEF ChoiceInv
<1>2. CASE C!Arrive
  <2>1. PICK p \in Contenders, c \in Class, d \in Deadline, a1 \in 0 .. C!MaxAge,
             i \in 1 .. Len(backlog) + 1 :
          /\ Len(backlog) < MaxBacklog
          /\ backlog' = C!Inserted(backlog, i, [project |-> p, class |-> c, age |-> a1,
                                                deadline |-> d, passed |-> 0])
          /\ UNCHANGED deficit
    BY <1>2 DEF C!Arrive
  <2> DEFINE x == [project |-> p, class |-> c, age |-> a1, deadline |-> d, passed |-> 0]
  <2>2. x \in C!Item
    BY FairnessAssumption DEF C!Item, C!PriorityRank, C!NoDeadline
  <2>3. 0 * Credit(p) = 0 /\ deficit[p] \in 0 .. C!MaxDeficitBoost
    BY CreditType DEF ChoiceInv
  <2>4. x \in Sound(deficit)
    BY <2>2, <2>3 DEF Sound
  <2>5. backlog' \in Seq(Sound(deficit)) /\ Len(backlog') = Len(backlog) + 1
    BY <1>0, <2>1, <2>4, InsertedProperties
  <2> QED
    BY <1>0, <2>1, <2>5, FairnessAssumption DEF ChoiceInv
<1>3. CASE C!PassTime
  <2>1. ASSUME NEW j \in 1 .. Len(backlog) PROVE C!Older(backlog[j]) \in Sound(deficit)
    <3>1. backlog[j] \in C!Item
      BY <1>0 DEF Sound
    <3>2. /\ C!Min(C!MaxAge, backlog[j].age + Step) \in 0 .. C!MaxAge
          /\ backlog[j].deadline # C!NoDeadline => C!Max(0, backlog[j].deadline - Step) \in Nat
      <4> DEFINE age == backlog[j].age
                 left == backlog[j].deadline
      <4>1. age \in 0 .. 40 /\ (left \in Nat \/ left = -1) /\ Step \in Nat
        BY <3>1, FairnessAssumption DEF C!Item, C!MaxAge, C!NoDeadline
      <4> HIDE DEF age, left
      <4>2. C!Min(40, age + Step) \in 0 .. 40 /\ (left # -1 => C!Max(0, left - Step) \in Nat)
        BY <4>1 DEF C!Min, C!Max
      <4> QED
        BY <4>2 DEF age, left, C!MaxAge, C!NoDeadline
    <3>3. /\ C!Older(backlog[j]) \in C!Item
          /\ C!Older(backlog[j]).project = backlog[j].project
          /\ C!Older(backlog[j]).passed = backlog[j].passed
      BY <3>1, <3>2 DEF C!Older, C!Item
    <3> QED
      BY <1>0, <3>3 DEF Sound
  <2>2. backlog' \in [1 .. Len(backlog) -> Sound(deficit)]
    BY <1>3, <2>1 DEF C!PassTime
  <2>3. backlog' \in Seq(Sound(deficit)) /\ Len(backlog') = Len(backlog)
    BY <1>0, <2>2, SeqDef, LenProperties
  <2> QED
    BY <1>3, <2>3 DEF C!PassTime, ChoiceInv
<1>4. CASE UNCHANGED C!vars
  BY <1>4 DEF ChoiceInv, Sound, C!vars
<1> QED
  BY <1>1, <1>2, <1>3, <1>4 DEF C!Next

(***************************************************************************)
(* The two beside each other                                               *)
(***************************************************************************)

\* What claims do leaves the choice alone, and the choice leaves the claims alone.
LEMMA DispatchSteps ==
  ASSUME [DispatchNext]_dispatchVars
  PROVE  [Next]_vars /\ [C!Next]_C!vars
  BY DEF DispatchNext, dispatchVars, choiceVars, C!vars

LEMMA ChoiceAlways == DispatchSpec => []ChoiceInv
<1>1. DispatchInit => ChoiceInv
  BY ChoiceInit DEF DispatchInit
<1>2. ChoiceInv /\ [DispatchNext]_dispatchVars => ChoiceInv'
  BY DispatchSteps, ChoiceStep
<1> QED
  BY <1>1, <1>2, PTL DEF DispatchSpec

\* The rows of the scheduler, where its workers are, the deficits and the backlog are
\* well typed, whichever part a behaviour plays.
THEOREM DispatchTypes == DispatchSpec => []TypesOK
<1>1. DispatchInit => TypeOK
  BY TypeInit DEF DispatchInit
<1>2. TypeOK /\ [DispatchNext]_dispatchVars => TypeOK'
  BY DispatchSteps, TypeStep
<1>3. TypeOK /\ ChoiceInv => TypesOK
  BY ChoiceInvMeans DEF TypesOK
<1> QED
  BY <1>1, <1>2, <1>3, ChoiceAlways, PTL DEF DispatchSpec

\* However many projects there are, whatever their weights, their classes and deadlines,
\* and whatever pauses, limits, dependencies and workers make of the candidates: an item is
\* passed over by less urgent work no more often than its weight takes to reach the cap.
THEOREM BypassIsBoundedAlways == DispatchSpec => []BypassIsBounded
<1>1. ChoiceInv => BypassIsBounded
  BY ChoiceInvMeans DEF BypassIsBounded, C!BypassInv
<1> QED
  BY <1>1, ChoiceAlways, PTL
=============================================================================
