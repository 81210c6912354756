------------------------------ MODULE Scheduler ------------------------------
(***************************************************************************)
(* The portfolio scheduler: durable work items, and the workers of all     *)
(* processes that discover, claim, dispatch and settle them.               *)
(*                                                                         *)
(*     reconcile expired claims                                            *)
(*     -> one transaction under the fairness lock: snapshot, claim         *)
(*     -> readiness -> markRunning -> phase service -> markSucceeded or    *)
(*        markFailed -> release the lease                                  *)
(*                                                                         *)
(* Each worker runs this loop by itself and several may live in one        *)
(* process, under one owner id.  What the allocation transaction writes    *)
(* becomes visible when it commits.  Every settling write is two           *)
(* statements: assertWritable on the lease, then a compare-and-set on the  *)
(* revision of the item.  Which candidate scores best is left open here;   *)
(* Fairness models the score.                                              *)
(***************************************************************************)
EXTENDS LeaseStore, FiniteSets

CONSTANTS Worker, home,        \* the claim loops, and the process of each
          Work, projectOf,     \* work items
          Dependent,           \* those whose run has cross-run dependencies
          ProjectLimit,        \* maxConcurrency of scheduler_project_config
          GlobalLimit,         \* schedulerGlobalMaxConcurrency
          MaxAttempts,         \* maxAttempts of an item
          MaxClaims,           \* bound: claims of one item
          Pausable,            \* bound: projects that are ever paused
          NoWorker, NoWork

Project == {projectOf[x] : x \in Work}

ASSUME SchedulerAssumption ==
  /\ home \in [Worker -> Owner]
  /\ Dependent \subseteq Work
  /\ ProjectLimit \in [Project -> Nat \ {0}]
  /\ GlobalLimit \in Nat \ {0}
  /\ MaxAttempts \in Nat \ {0}
  /\ MaxClaims \in Nat
  /\ Pausable \subseteq Project
  /\ NoWorker \notin Worker
  /\ NoWork \notin Work

VARIABLES
  item,       \* the rows of scheduler_work_items
  lease,      \* the rows of coordinator_leases, one for each item
  lock,       \* who holds scheduler_fairness_lock
  milestone,  \* whether the item's dependencies are satisfied
  paused,     \* the projects that are paused, by themselves or globally
  worker      \* where each claim loop is

vars == <<item, lease, lock, milestone, paused, worker>>

Terminal   == {"SUCCEEDED", "FAILED", "CANCELLED"}
WorkStatus == {"ABSENT", "BLOCKED_DEPENDENCY", "ELIGIBLE", "CLAIMED", "RUNNING"}
                \cup Terminal

\* "due": eligible_at has come.
WorkItem == [status: WorkStatus, revision: Nat, attempt: Nat, due: BOOLEAN,
             owner: Owner \cup {NoOwner}, token: Nat]

NoItem == [status |-> "ABSENT", revision |-> 0, attempt |-> 0, due |-> FALSE,
           owner |-> NoOwner, token |-> 0]

PC == {"down", "idle", "reconcile", "requeue", "allocate", "ready", "assert",
       "update", "invoke", "release"}

\* What a settling write is for.  RETRY: markFailed of a retryable error.
Intent == {"RUNNING", "SUCCEEDED", "FAILED", "RETRY", "CANCELLED"}

\* "seen" holds revisions that were read (0: not in the list), "expired" the
\* grants the allocation transaction found expired, "unblocked" the items it
\* has moved to ELIGIBLE.
Loop == [pc: PC, seen: [Work -> Nat], expired: [Work -> Nat],
         unblocked: SUBSET Work, work: Work \cup {NoWork},
         revision: Nat, token: Nat, intent: Intent]

Nothing == [x \in Work |-> 0]

Idle == [pc |-> "idle", seen |-> Nothing, expired |-> Nothing,
         unblocked |-> {}, work |-> NoWork, revision |-> 0, token |-> 0,
         intent |-> "RUNNING"]

Milestone == {"PENDING", "SATISFIED", "UNSATISFIABLE"}

TypeOK ==
  /\ item \in [Work -> WorkItem]
  /\ lease \in [Work -> LeaseRow]
  /\ lock \in Worker \cup {NoWorker}
  /\ milestone \in [Work -> Milestone]
  /\ paused \in SUBSET Project
  /\ worker \in [Worker -> Loop]

Init ==
  /\ item = [x \in Work |-> NoItem]
  /\ lease = [x \in Work |-> NoLease]
  /\ lock = NoWorker
  /\ milestone = [x \in Work |-> IF x \in Dependent THEN "PENDING" ELSE "SATISFIED"]
  /\ paused = {}
  /\ worker = [k \in Worker |-> Idle]

Goto(k, pc) == worker' = [worker EXCEPT ![k].pc = pc]
Leave(k)    == worker' = [worker EXCEPT ![k] = Idle]

-----------------------------------------------------------------------------
(* discoverForRun: an item is created once per logical identity             *)

Discovered(x) ==
  [NoItem EXCEPT !.status = CASE milestone[x] = "SATISFIED"     -> "ELIGIBLE"
                              [] milestone[x] = "PENDING"       -> "BLOCKED_DEPENDENCY"
                              [] milestone[x] = "UNSATISFIABLE" -> "CANCELLED",
                 !.revision = 1, !.due = TRUE]

Discover(x) ==
  /\ item[x] = NoItem
  /\ item' = [item EXCEPT ![x] = Discovered(x)]
  /\ UNCHANGED <<lease, lock, milestone, paused, worker>>

-----------------------------------------------------------------------------
(* reconcileExpiredClaimedWork                                              *)

\* Mutant: only leases that have expired, not those that were released.
ListExpiredClaimed_NoReleased ==
  {x \in Work : item[x].status = "CLAIMED" /\ lease[x].expired}

ListExpiredClaimed ==
  {x \in Work : item[x].status = "CLAIMED" /\ ~LiveHeld(lease[x])}

ReconcileList(k) ==
  /\ worker[k].pc = "idle"
  /\ worker' = [worker EXCEPT ![k].pc = "reconcile",
                              ![k].seen = [x \in Work |->
                                IF x \in ListExpiredClaimed THEN item[x].revision ELSE 0]]
  /\ UNCHANGED <<item, lease, lock, milestone, paused>>

\* isLiveHeld: an item whose lease is live again is skipped.
ReconcileCheck(k, x) ==
  /\ worker[k].pc = "reconcile"
  /\ worker[k].seen[x] # 0
  /\ worker' = [worker EXCEPT ![k] =
       IF LiveHeld(lease[x])
       THEN [@ EXCEPT !.seen[x] = 0]
       ELSE [@ EXCEPT !.pc = "requeue", !.work = x, !.revision = worker[k].seen[x], !.seen[x] = 0]]
  /\ UNCHANGED <<item, lease, lock, milestone, paused>>

RequeuedItem(x) ==
  [item[x] EXCEPT !.status = "ELIGIBLE", !.revision = @ + 1, !.owner = NoOwner, !.token = 0]

Requeue(k) ==
  LET x == worker[k].work IN
  /\ worker[k].pc = "requeue"
  /\ item' = IF item[x].revision = worker[k].revision
             THEN [item EXCEPT ![x] = RequeuedItem(x)]
             ELSE item
  /\ worker' = [worker EXCEPT ![k] = [@ EXCEPT !.pc = "reconcile", !.work = NoWork, !.revision = 0]]
  /\ UNCHANGED <<lease, lock, milestone, paused>>

-----------------------------------------------------------------------------
(* selectAndClaimWork: one transaction under the fairness lock              *)

\* countActive...: claimed or running, with a lease that is live by NOW().  NOW()
\* is the start of the transaction, before it waited for the lock: the leases in
\* "late" have expired since.
Active(late) ==
  {x \in Work : /\ item[x].status \in {"CLAIMED", "RUNNING"}
                /\ LiveHeld(lease[x]) \/ x \in late}

In(p, S) == {x \in S : projectOf[x] = p}

HasCapacity(p, late) ==
  /\ Cardinality(Active(late)) < GlobalLimit
  /\ Cardinality(In(p, Active(late))) < ProjectLimit[p]

\* listSchedulableProjectSummaries
Contender(p) == \E x \in In(p, Work) : item[x].status = "ELIGIBLE" /\ item[x].due

\* BLOCKED_DEPENDENCY items are looked at only while their project contends.
Unblockable ==
  {x \in Work : /\ item[x].status = "BLOCKED_DEPENDENCY"
                /\ milestone[x] = "SATISFIED"
                /\ Contender(projectOf[x])
                /\ projectOf[x] \notin paused}

\* evaluateEligibility of what the snapshot lists.
Candidate(late) ==
  {x \in Work : /\ \/ item[x].status = "ELIGIBLE" /\ item[x].due
                   \/ x \in Unblockable
                /\ milestone[x] = "SATISFIED"
                /\ projectOf[x] \notin paused
                /\ HasCapacity(projectOf[x], late)}

SnapshotOf(late) ==
  LET seen == Candidate(late)
  IN  [Idle EXCEPT !.pc = "allocate", !.unblocked = Unblockable,
                   !.seen = [x \in Work |-> IF x \in seen THEN item[x].revision ELSE 0],
                   !.expired = [x \in Work |-> IF x \in seen \ late
                                               THEN ExpiredGrant(lease[x]) ELSE 0]]

ExpiredHeld == {x \in Work : lease[x].status = "HELD" /\ lease[x].expired}

\* Mutant: nobody waits for the lock.
Snapshot_NoLock(k) ==
  /\ worker[k].pc = "reconcile"
  /\ worker[k].seen = Nothing
  /\ lock' = k
  /\ \E late \in SUBSET ExpiredHeld : worker' = [worker EXCEPT ![k] = SnapshotOf(late)]
  /\ UNCHANGED <<item, lease, milestone, paused>>

\* buildSelectionSnapshot.  Its reads are one step: outside the lock the
\* counts only fall, and nobody but the holder of the lock writes an item that
\* is BLOCKED_DEPENDENCY or ELIGIBLE.
Snapshot(k) ==
  /\ worker[k].pc = "reconcile"
  /\ worker[k].seen = Nothing
  /\ lock = NoWorker
  /\ lock' = k
  /\ \E late \in SUBSET ExpiredHeld : worker' = [worker EXCEPT ![k] = SnapshotOf(late)]
  /\ UNCHANGED <<item, lease, milestone, paused>>

Seen(k) == {x \in Work : worker[k].seen[x] # 0}

GetsLease(k, x) == CanAcquire(lease[x], home[k], worker[k].expired[x])

\* An item that this transaction has unblocked is claimed with the revision
\* that was read before, and always conflicts.
ConflictsOn(k, x) == x \in worker[k].unblocked \/ item[x].revision # worker[k].seen[x]

CanClaim(k, x) == GetsLease(k, x) /\ ~ConflictsOn(k, x)

\* The items after the unblocking writes of the snapshot.
UnblockedItem(k, x) ==
  IF x \in worker[k].unblocked
  THEN [item[x] EXCEPT !.status = "ELIGIBLE", !.revision = @ + 1, !.due = TRUE]
  ELSE item[x]

\* A lease acquired for a claim that conflicts is released again.
LeaseAfterTrying(k, x) ==
  IF GetsLease(k, x)
  THEN Released(Acquired(lease[x], home[k]), home[k], lease[x].token + 1)
  ELSE lease[x]

ClaimedItem(k, x) ==
  [item[x] EXCEPT !.status = "CLAIMED", !.revision = @ + 1, !.attempt = @ + 1,
                  !.owner = home[k], !.token = lease[x].token + 1]

\* COMMIT with a claim on x; the candidates in "tried" scored better and could
\* not be claimed.
Claim(k, x) ==
  /\ worker[k].pc = "allocate"
  /\ x \in Seen(k) /\ CanClaim(k, x)
  /\ item[x].attempt < MaxClaims
  /\ \E tried \in SUBSET {y \in Seen(k) : ~CanClaim(k, y)} :
       lease' = [y \in Work |-> CASE y = x       -> Acquired(lease[y], home[k])
                                  [] y \in tried -> LeaseAfterTrying(k, y)
                                  [] OTHER       -> lease[y]]
  /\ item' = [y \in Work |-> IF y = x THEN ClaimedItem(k, y) ELSE UnblockedItem(k, y)]
  /\ lock' = NoWorker
  /\ worker' = [worker EXCEPT ![k] =
       [Idle EXCEPT !.pc = "ready", !.work = x, !.revision = item[x].revision + 1,
                    !.token = lease[x].token + 1]]
  /\ UNCHANGED <<milestone, paused>>

\* COMMIT without a claim: no candidate, or none that could be claimed.
ClaimNothing(k) ==
  /\ worker[k].pc = "allocate"
  /\ \A x \in Seen(k) : ~CanClaim(k, x) \/ item[x].attempt = MaxClaims
  /\ lease' = [x \in Work |-> IF x \in Seen(k) /\ ~CanClaim(k, x)
                              THEN LeaseAfterTrying(k, x) ELSE lease[x]]
  /\ item' = [x \in Work |-> UnblockedItem(k, x)]
  /\ lock' = NoWorker
  /\ Leave(k)
  /\ UNCHANGED <<milestone, paused>>

-----------------------------------------------------------------------------
(* dispatch: readiness, markRunning, the phase service, markSucceeded or    *)
(* markFailed                                                               *)

Settle(k, intent) == worker' = [worker EXCEPT ![k] = [@ EXCEPT !.pc = "assert", !.intent = intent]]

\* assertDispatchReady: on drift the item is cancelled (markStale).
CheckReady(k) ==
  /\ worker[k].pc = "ready"
  /\ \E intent \in {"RUNNING", "CANCELLED"} : Settle(k, intent)
  /\ UNCHANGED <<item, lease, lock, milestone, paused>>

\* invoke: the phase service returns or throws.
Invoke(k) ==
  /\ worker[k].pc = "invoke"
  /\ \E intent \in {"SUCCEEDED", "FAILED", "RETRY"} : Settle(k, intent)
  /\ UNCHANGED <<item, lease, lock, milestone, paused>>

\* What dispatch does when a write throws: markSucceeded is inside the try
\* block, so its own failure is reported with markFailed; any other write ends
\* the dispatch.
AfterFailedWrite(k, intents) ==
  IF worker[k].intent = "SUCCEEDED"
  THEN \E intent \in intents : Settle(k, intent)
  ELSE Goto(k, "release")

\* A lost connection is DATABASE_UNAVAILABLE, which is retryable, or
\* DATABASE_TRANSACTION_FAILED.  assertFence turns either into the
\* STALE_SCHEDULER_FENCE of a lost lease, which is not.
LostConnection(k) == IF worker[k].pc = "update" THEN {"FAILED", "RETRY"} ELSE {"FAILED"}

AssertFence(k) ==
  /\ worker[k].pc = "assert"
  /\ IF Writable(lease[worker[k].work], home[k], worker[k].token)
     THEN Goto(k, "update")
     ELSE AfterFailedWrite(k, {"FAILED"})
  /\ UNCHANGED <<item, lease, lock, milestone, paused>>

SettledItem(k, i) ==
  LET next  == [i EXCEPT !.revision = @ + 1]
      freed == [next EXCEPT !.owner = NoOwner, !.token = 0]
  IN  CASE worker[k].intent = "RUNNING" -> [next EXCEPT !.status = "RUNNING"]
        [] worker[k].intent = "RETRY" ->
             IF i.attempt < MaxAttempts
             THEN [freed EXCEPT !.status = "ELIGIBLE", !.due = FALSE]
             ELSE [freed EXCEPT !.status = "FAILED"]
        [] OTHER -> [freed EXCEPT !.status = worker[k].intent]

\* Mutant: the item is written without the compare-and-set.
Matches_NoCas(k) == TRUE

Matches(k) == item[worker[k].work].revision = worker[k].revision

AfterWrite(k) ==
  IF worker[k].intent = "RUNNING"
  THEN worker' = [worker EXCEPT ![k].pc = "invoke", ![k].revision = @ + 1]
  ELSE Goto(k, "release")

\* updateCas: SCHEDULER_CAS_CONFLICT is retryable.  The connection may be lost
\* when the write has reached the database already.
Update(k) ==
  /\ worker[k].pc = "update"
  /\ IF Matches(k)
     THEN /\ item' = [item EXCEPT ![worker[k].work] = SettledItem(k, item[worker[k].work])]
          /\ AfterWrite(k) \/ AfterFailedWrite(k, LostConnection(k))
     ELSE /\ AfterFailedWrite(k, {"RETRY"})
          /\ UNCHANGED item
  /\ UNCHANGED <<lease, lock, milestone, paused>>

\* The connection is lost before anything was written.
LoseConnection(k) ==
  /\ worker[k].pc \in {"ready", "assert", "update"}
  /\ AfterFailedWrite(k, LostConnection(k))
  /\ UNCHANGED <<item, lease, lock, milestone, paused>>

\* finally { release }
ReleaseLease(k) ==
  LET x == worker[k].work IN
  /\ worker[k].pc = "release"
  /\ lease' = [lease EXCEPT ![x] = Released(@, home[k], worker[k].token)]
  /\ Leave(k)
  /\ UNCHANGED <<item, lock, milestone, paused>>

-----------------------------------------------------------------------------
(* The environment                                                          *)

BecomeDue(x) ==
  /\ item[x].status = "ELIGIBLE"
  /\ ~item[x].due
  /\ item' = [item EXCEPT ![x].due = TRUE]
  /\ UNCHANGED <<lease, lock, milestone, paused, worker>>

ExpireLease(x) ==
  /\ LiveHeld(lease[x])
  /\ lease' = [lease EXCEPT ![x] = Expired(@)]
  /\ UNCHANGED <<item, lock, milestone, paused, worker>>

\* The prerequisite run reaches the milestone, or can no longer keep it.
ReachMilestone(x) ==
  /\ x \in Dependent
  /\ \/ milestone[x] = "PENDING" /\ milestone' = [milestone EXCEPT ![x] = "SATISFIED"]
     \/ milestone[x] # "UNSATISFIABLE" /\ milestone' = [milestone EXCEPT ![x] = "UNSATISFIABLE"]
  /\ UNCHANGED <<item, lease, lock, paused, worker>>

\* setPause
SetPause(p) ==
  /\ paused' = IF p \in paused THEN paused \ {p} ELSE paused \cup {p}
  /\ UNCHANGED <<item, lease, lock, milestone, worker>>

\* The worker's process dies: an open transaction is rolled back, and its lock
\* is gone with it.
Crash(k) ==
  /\ worker[k].pc \notin {"down", "idle"}
  /\ lock' = IF lock = k THEN NoWorker ELSE lock
  /\ worker' = [worker EXCEPT ![k] = [Idle EXCEPT !.pc = "down"]]
  /\ UNCHANGED <<item, lease, milestone, paused>>

Restart(k) ==
  /\ worker[k].pc = "down"
  /\ Leave(k)
  /\ UNCHANGED <<item, lease, lock, milestone, paused>>

WorkerStep(k) ==
  \/ Restart(k)
  \/ ReconcileList(k)
  \/ \E x \in Work : ReconcileCheck(k, x)
  \/ Requeue(k)
  \/ Snapshot(k)
  \/ \E x \in Work : Claim(k, x)
  \/ ClaimNothing(k)
  \/ CheckReady(k)
  \/ Invoke(k)
  \/ AssertFence(k)
  \/ Update(k)
  \/ ReleaseLease(k)

Next ==
  \/ \E k \in Worker : WorkerStep(k) \/ LoseConnection(k) \/ Crash(k)
  \/ \E x \in Work : Discover(x) \/ BecomeDue(x) \/ ExpireLease(x) \/ ReachMilestone(x)
  \/ \E p \in Pausable : SetPause(p)

\* Workers poll for ever and are restarted when they die; leases expire.
Fairness ==
  /\ \A k \in Worker : WF_vars(WorkerStep(k))
  /\ \A x \in Work : WF_vars(ExpireLease(x))

Spec == Init /\ [][Next]_vars /\ Fairness
-----------------------------------------------------------------------------
(* Safety                                                                   *)

Live == {x \in Work : item[x].status \in {"CLAIMED", "RUNNING"} /\ LiveHeld(lease[x])}

\* "Per-project and global concurrency caps": live claims never exceed the
\* capacity, although each allocation decides on counts it has read.
CapacityRespected ==
  /\ Cardinality(Live) <= GlobalLimit
  /\ \A p \in Project : Cardinality(In(p, Live)) <= ProjectLimit[p]

\* A claim and the lease it was made under stay together: while an item is
\* claimed, nobody else is granted its lease.
ClaimFollowsLease ==
  \A x \in Work : item[x].status \in {"CLAIMED", "RUNNING"} =>
    item[x].owner = lease[x].owner /\ item[x].token = lease[x].token

\* A phase service is never invoked for one item by two workers at a time,
\* however leases expire and expired claims are taken back.
OneInvocation ==
  \A j, k \in Worker :
    worker[j].pc = "invoke" /\ worker[k].pc = "invoke" /\ worker[j].work = worker[k].work
      => j = k

\* "Stale fence tokens cannot settle work": for one item there is one claim, under one
\* lease, worked on by one worker.
ClaimIsExclusive == ClaimFollowsLease /\ OneInvocation

\* "Stale fence tokens cannot settle work" and "Expired CLAIMED is reconciled to
\* ELIGIBLE; expired RUNNING is not auto-requeued": whoever settles an item is
\* working on the claim the item is in; only a claim that was never started, under
\* a lease that is not live, is taken from its owner; and a finished item stays as
\* it is, whoever has seen it earlier.
OnlyTheClaimSettles ==
  [][/\ \A x \in Work : item[x].status \in Terminal => item'[x] = item[x]
     /\ \A k \in Worker :
          LET x == worker[k].work IN
          /\ Update(k) /\ item' # item =>
               item[x].owner = home[k] /\ item[x].token = worker[k].token
          /\ Requeue(k) /\ item' # item =>
               item[x].status = "CLAIMED" /\ ~LiveHeld(lease[x])]_vars

-----------------------------------------------------------------------------
(* What makes them inductive: what a worker has read is not ahead of the    *)
(* rows, and as long as a row has the revision that was read, it is as it   *)
(* was read                                                                 *)

Working(k) == worker[k].pc \in {"ready", "assert", "update", "invoke"}

\* The claim the worker works on is the one the item is in.
Holds(k) == Working(k) /\ Matches(k)

ClaimsAreSingle ==
  \A j, k \in Worker : Holds(j) /\ Holds(k) /\ worker[j].work = worker[k].work => j = k

ClaimIsHeld(k) ==
  LET i == item[worker[k].work] IN
  Working(k) =>
    /\ worker[k].work \in Work
    /\ worker[k].revision <= i.revision
    /\ Matches(k) => /\ i.status \in {"CLAIMED", "RUNNING"}
                     /\ i.owner = home[k] /\ i.token = worker[k].token
    /\ worker[k].pc = "invoke" => Matches(k) /\ i.status = "RUNNING"

ReadIsOld(k) ==
  /\ worker[k].pc \in {"reconcile", "requeue"} =>
       \A x \in Seen(k) :
         /\ worker[k].seen[x] <= item[x].revision
         /\ worker[k].seen[x] = item[x].revision => item[x].status = "CLAIMED"
  /\ worker[k].pc = "requeue" =>
       LET x == worker[k].work IN
       /\ x \in Work
       /\ worker[k].revision <= item[x].revision
       /\ Matches(k) => item[x].status = "CLAIMED" /\ ~LiveHeld(lease[x])

\* Nobody but the holder of the lock adds to what is live or touches what waits.
AllocationIsCurrent(k) ==
  worker[k].pc = "allocate" =>
    /\ lock = k
    /\ \A x \in worker[k].unblocked : item[x].status = "BLOCKED_DEPENDENCY"
    /\ \A x \in Seen(k) :
         /\ item[x].status \in {"ELIGIBLE", "BLOCKED_DEPENDENCY"}
         /\ Cardinality(Live) < GlobalLimit
         /\ Cardinality(In(projectOf[x], Live)) < ProjectLimit[projectOf[x]]

WorkerInv(k) == ClaimIsHeld(k) /\ ReadIsOld(k) /\ AllocationIsCurrent(k)

SchedulerInv ==
  /\ ClaimFollowsLease
  /\ ClaimsAreSingle
  /\ CapacityRespected
  /\ \A k \in Worker : WorkerInv(k)

-----------------------------------------------------------------------------
(* Liveness                                                                 *)

CrashesStop == <>[](\A k \in Worker : worker[k].pc # "down")

\* A claim whose owner died before the dispatch, or gave up on it, does not
\* keep the item for ever.
ClaimsDoNotStick ==
  CrashesStop =>
    \A x \in Work : (item[x].status = "CLAIMED") ~> (item[x].status # "CLAIMED")
=============================================================================
