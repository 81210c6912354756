----------------------------- MODULE PhaseFence -----------------------------
(***************************************************************************)
(* The fence of one phase of one run: the rows coordinator_leases and      *)
(* coordinator_fences that share a coordination key, and the phase service *)
(* that goes through them.  The six PostgreSQL coordinators are instances  *)
(* of one protocol,                                                        *)
(*                                                                         *)
(*     begin -> (work, persist the phase's record) -> mark...              *)
(*                                                                         *)
(* and differ in what "phase" selects below.  A request is one call of the *)
(* phase's service; home says which process (instance id) serves it.  The  *)
(* statements of begin are one transaction: what it READS is a step of its *)
(* own, what it writes becomes visible at once when it commits.  The three *)
(* statements of a mark... are not a transaction and are three steps.      *)
(*                                                                         *)
(* A crash of a process is a Crash of each request it serves.              *)
(***************************************************************************)
EXTENDS LeaseStore

CONSTANTS Request,   \* concurrent calls of the phase's service for the run
          home,      \* the instance that serves each request
          Phases,    \* the coordinators to consider
          MaxToken   \* bound: begins that are granted

AllPhases == {"ingestion", "planning", "validation",
              "execution", "verification", "learning"}

ASSUME PhaseFenceAssumption ==
  /\ home \in [Request -> Owner]
  /\ Phases \subseteq AllPhases
  /\ MaxToken \in Nat

VARIABLES
  phase,    \* which coordinator this is; never changes
  lease,    \* the row of coordinator_leases
  fence,    \* the row of coordinator_fences
  records,  \* the phase's records in the database, by the token that wrote them
  run,      \* whether the run has left the state the phase starts from
  request   \* where each call is

vars == <<phase, lease, fence, records, run, request>>

\* The status column.  DONE is VERIFIED, PLANNED, DECIDED, COMPLETED (or
\* CONTAINED) and PROCESSED.  Every caller passes retryable: true to
\* markFailed, so a FAILED fence may always be begun again.
FenceStatus == {"NOT_STARTED", "IN_PROGRESS", "DONE", "FAILED"}

\* makeOwnerToken: `${instanceId}:${fenceToken}`; reconcile... writes token 0.
OwnerToken == [instance: Owner \cup {NoOwner}, token: Nat]

FenceRow == [status: FenceStatus, attempt: Nat, owner: OwnerToken]

NoFence == [status |-> "NOT_STARTED", attempt |-> 0,
            owner |-> [instance |-> NoOwner, token |-> 0]]

\* CLOSED: EXECUTING for execute, COMPLETED or ESCALATED for verify.  A run
\* that is CONTAINED is verified in place and only gets an outcome record.
RunState == {"OPEN", "CLOSED", "CONTAINED", "CONTAINED_RECORDED"}

Answered == {"CLOSED", "CONTAINED_RECORDED"}

PC == {"idle", "ready", "begun", "working", "committed", "assert", "confirm",
       "update", "reconcile", "adopt"}

\* What a call keeps in its local variables across awaits.
Call == [pc: PC, token: Nat, seenAttempt: Nat, expiredGrant: Nat,
         outcome: {"DONE", "FAILED"}]

Idle == [pc |-> "idle", token |-> 0, seenAttempt |-> 0, expiredGrant |-> 0,
         outcome |-> "DONE"]

TypeOK ==
  /\ phase \in Phases
  /\ lease \in LeaseRow
  /\ fence \in FenceRow
  /\ records \in SUBSET Nat
  /\ run \in RunState
  /\ request \in [Request -> Call]

Init ==
  /\ phase \in Phases
  /\ lease = NoLease
  /\ fence = NoFence
  /\ records = {}
  /\ run \in {"OPEN"} \cup (IF phase = "verification" THEN {"CONTAINED"} ELSE {})
  /\ request = [r \in Request |-> Idle]

-----------------------------------------------------------------------------
(* What differs between the phases                                          *)

\* ingest and plan look for the phase's record first and adopt it.
Reconciles == phase \in {"ingestion", "planning"}

\* execute and verify move the run before they store their result, and a run
\* that has moved is answered from what is stored.
MovesRun == phase \in {"execution", "verification"}

\* plans.save refuses a second plan of the same version.
RefusesSecondRecord == phase = "planning" /\ records # {}

\* contexts.save and the historical record keep the first; a ValidationDecision
\* is a document of its own; storeResult upserts the one document of the fence.
RecordsAfter(token) ==
  CASE phase \in {"ingestion", "planning", "learning"} /\ records # {} -> records
    [] phase = "validation" -> records \cup {token}
    [] OTHER -> {token}

\* markFailed may follow a stored result in execute (EXECUTION_FAILED).
OutcomesWithRecord == IF phase = "execution" THEN {"DONE", "FAILED"} ELSE {"DONE"}

GoTo(r, pc) == request' = [request EXCEPT ![r].pc = pc]
Leave(r)    == request' = [request EXCEPT ![r] = Idle]

MyOwnerToken(r) == [instance |-> home[r], token |-> request[r].token]

-----------------------------------------------------------------------------
(* The call arrives                                                         *)

\* Mutant: adopts without looking for the phase's record.
Arrive_AdoptsBlindly(r) ==
  /\ request[r].pc = "idle"
  /\ MovesRun => run \notin Answered
  /\ GoTo(r, IF Reconciles /\ fence.status = "IN_PROGRESS" THEN "reconcile" ELSE "ready")
  /\ UNCHANGED <<phase, lease, fence, records, run>>

Arrive(r) ==
  /\ request[r].pc = "idle"
  /\ MovesRun => run \notin Answered
  /\ GoTo(r, IF Reconciles /\ records # {} THEN "reconcile" ELSE "ready")
  /\ UNCHANGED <<phase, lease, fence, records, run>>

-----------------------------------------------------------------------------
(* reconcileVerified, reconcilePlanned: no lease, no transaction            *)

ReconcileRead(r) ==
  /\ request[r].pc = "reconcile"
  /\ IF fence.status = "DONE"
     THEN Leave(r)
     ELSE request' = [request EXCEPT ![r] =
                    [@ EXCEPT !.pc = "adopt", !.seenAttempt = fence.attempt]]
  /\ UNCHANGED <<phase, lease, fence, records, run>>

AdoptedFence(r) ==
  [status  |-> "DONE",
   attempt |-> IF request[r].seenAttempt = 0 THEN 1 ELSE request[r].seenAttempt,
   owner   |-> [instance |-> home[r], token |-> 0]]

ReconcileWrite(r) ==
  /\ request[r].pc = "adopt"
  /\ fence' = AdoptedFence(r)
  /\ Leave(r)
  /\ UNCHANGED <<phase, lease, records, run>>

-----------------------------------------------------------------------------
(* begin                                                                    *)

\* ALREADY_VERIFIED, ALREADY_PLANNED, ALREADY_DECIDED, ...: the caller is
\* answered from the phase's record.
Replay(r) ==
  /\ request[r].pc = "ready"
  /\ fence.status = "DONE"
  /\ Leave(r)
  /\ UNCHANGED <<phase, lease, fence, records, run>>

\* The transaction starts (this fixes NOW()) and reads the fence, unlocked.
BeginRead(r) ==
  /\ request[r].pc = "ready"
  /\ fence.status # "DONE"
  /\ request' = [request EXCEPT ![r] =
                   [@ EXCEPT !.pc = "begun",
                             !.seenAttempt = fence.attempt,
                             !.expiredGrant = ExpiredGrant(lease)]]
  /\ UNCHANGED <<phase, lease, fence, records, run>>

\* Mutant: expiry is judged when the lease is acquired (clock_timestamp()).
MayBegin_JudgedNow(r) == CanAcquire(lease, home[r], ExpiredGrant(lease))

MayBegin(r) == CanAcquire(lease, home[r], request[r].expiredGrant)

\* Mutant: the owner token is made before the lease is acquired.
StartedFence_EarlyToken(r) ==
  [status  |-> "IN_PROGRESS",
   attempt |-> request[r].seenAttempt + 1,
   owner   |-> [instance |-> home[r],
                token |-> IF lease.token = 0 THEN 1 ELSE lease.token]]

\* upsertFence: unconditional, and numbered from the attempt that was READ.
StartedFence(r) ==
  [status  |-> "IN_PROGRESS",
   attempt |-> request[r].seenAttempt + 1,
   owner   |-> [instance |-> home[r], token |-> lease.token + 1]]

BeginGranted(r) ==
  /\ request[r].pc = "begun"
  /\ lease.token < MaxToken
  /\ MayBegin(r)
  /\ lease' = Acquired(lease, home[r])
  /\ fence' = StartedFence(r)
  /\ request' = [request EXCEPT ![r] =
                   [Idle EXCEPT !.pc = "working", !.token = lease.token + 1]]
  /\ UNCHANGED <<phase, records, run>>

\* LEASE_ALREADY_HELD: ..._IN_PROGRESS to the caller.
BeginRefused(r) ==
  /\ request[r].pc = "begun"
  /\ ~MayBegin(r)
  /\ Leave(r)
  /\ UNCHANGED <<phase, lease, fence, records, run>>

-----------------------------------------------------------------------------
(* The work, and the phase's record                                         *)

\* Mutant: the run is moved without the compare-and-set.
CommitRun_NoCas(r) ==
  /\ request[r].pc = "working"
  /\ MovesRun
  /\ run' = IF run \in {"OPEN", "CLOSED"} THEN "CLOSED" ELSE "CONTAINED_RECORDED"
  /\ GoTo(r, "committed")
  /\ UNCHANGED <<phase, lease, fence, records>>

\* commitRunTransition: APPROVED -> EXECUTING before the steps run, VERIFYING
\* -> COMPLETED or ESCALATED with the outcome record.  A compare-and-set on
\* the run; a contained run gets its outcome record without one.
CommitRun(r) ==
  /\ request[r].pc = "working"
  /\ MovesRun
  /\ run # "CLOSED"
  /\ run' = IF run = "OPEN" THEN "CLOSED" ELSE "CONTAINED_RECORDED"
  /\ GoTo(r, "committed")
  /\ UNCHANGED <<phase, lease, fence, records>>

ReadyToStore(r) == request[r].pc = IF MovesRun THEN "committed" ELSE "working"

Store(r) ==
  /\ ReadyToStore(r)
  /\ ~RefusesSecondRecord
  /\ records' = RecordsAfter(request[r].token)
  /\ \E o \in OutcomesWithRecord :
       request' = [request EXCEPT ![r] = [@ EXCEPT !.pc = "assert", !.outcome = o]]
  /\ UNCHANGED <<phase, lease, fence, run>>

\* The catch block: an exception anywhere in the work (the run had moved, the
\* plan exists, the work itself failed) ends in markFailed.
WorkFails(r) ==
  /\ request[r].pc \in {"working", "committed"}
  /\ request' = [request EXCEPT ![r] = [@ EXCEPT !.pc = "assert", !.outcome = "FAILED"]]
  /\ UNCHANGED <<phase, lease, fence, records, run>>

-----------------------------------------------------------------------------
(* markVerified, markPlanned, markDecided, markCompleted, markFailed, ...:  *)
(* assertWritable; get; updateFenceByOwnerToken                             *)

AssertWritable(r) ==
  /\ request[r].pc = "assert"
  /\ IF Writable(lease, home[r], request[r].token)
     THEN GoTo(r, "confirm")
     ELSE Leave(r)
  /\ UNCHANGED <<phase, lease, fence, records, run>>

ConfirmInProgress(r) ==
  /\ request[r].pc = "confirm"
  /\ IF fence.status = "IN_PROGRESS" THEN GoTo(r, "update") ELSE Leave(r)
  /\ UNCHANGED <<phase, lease, fence, records, run>>

\* Mutant: UPDATE ... WHERE coordination_key = $1
OwnsFence_ByKey(r) == TRUE

\* UPDATE ... WHERE coordination_key = $1 AND owner_token = $2
OwnsFence(r) == fence.owner = MyOwnerToken(r)

Update(r) ==
  /\ request[r].pc = "update"
  /\ fence' = IF OwnsFence(r)
              THEN [fence EXCEPT !.status = request[r].outcome]
              ELSE fence
  /\ Leave(r)
  /\ UNCHANGED <<phase, lease, records, run>>

-----------------------------------------------------------------------------
(* The environment                                                          *)

ExpireLease ==
  /\ LiveHeld(lease)
  /\ lease' = Expired(lease)
  /\ UNCHANGED <<phase, fence, records, run, request>>

\* The process that serves the call dies, or its connection does.
Crash(r) ==
  /\ request[r].pc # "idle"
  /\ Leave(r)
  /\ UNCHANGED <<phase, lease, fence, records, run>>

RequestStep(r) ==
  \/ Arrive(r)
  \/ ReconcileRead(r)
  \/ ReconcileWrite(r)
  \/ Replay(r)
  \/ BeginRead(r)
  \/ BeginGranted(r)
  \/ BeginRefused(r)
  \/ CommitRun(r)
  \/ Store(r)
  \/ WorkFails(r)
  \/ AssertWritable(r)
  \/ ConfirmInProgress(r)
  \/ Update(r)
  \/ Crash(r)

Next == ExpireLease \/ \E r \in Request : RequestStep(r)

Spec == Init /\ [][Next]_vars

-----------------------------------------------------------------------------
(* Safety                                                                   *)

Inside(r) == request[r].pc \in {"working", "committed", "assert", "confirm", "update"}

\* The fence row belongs to the newest grant of the lease or, with token 0, to
\* a reconciliation: begin writes lease and fence in one transaction, and no
\* later write of an older grant can put its owner token back.
FenceFollowsLease ==
  /\ fence.owner.token \in {0, lease.token}
  /\ fence.owner.token # 0 => fence.owner.instance = lease.owner

\* No two requests ever hold the same owner token, also when one process
\* serves both and so is the owner of the lease on both accounts.
TokensAreExclusive ==
  \A r, s \in Request :
    Inside(r) /\ Inside(s) /\ r # s => request[r].token # request[s].token

\* What makes the two above inductive: a token that is held was issued, the
\* newest one to the owner of the lease.
HeldTokensWereIssued ==
  \A r \in Request :
    Inside(r) =>
      /\ request[r].token \in 1 .. lease.token
      /\ request[r].token = lease.token => home[r] = lease.owner

\* A request that still holds the fence's token has not met its verdict yet.
HoldersAreUnsettled ==
  \A r \in Request : Inside(r) /\ OwnsFence(r) => fence.status = "IN_PROGRESS"

FenceInv == FenceFollowsLease /\ TokensAreExclusive /\ HeldTokensWereIssued

\* "Fence is VERIFIED but no verified context exists", "Planning fence is
\* PLANNED but no plan record exists", "Execution fence is terminal but result
\* is missing": the errors the services raise when they replay a fence that
\* has no record are unreachable.
DoneFenceHasRecord == fence.status = "DONE" => records # {}

\* Its inductive form: whoever is about to declare the phase done has seen, or
\* written, a record.
Declares(r) ==
  \/ request[r].pc \in {"reconcile", "adopt"}
  \/ request[r].pc \in {"assert", "confirm", "update"} /\ request[r].outcome = "DONE"

RecordInv ==
  /\ DoneFenceHasRecord
  /\ \A r \in Request : Declares(r) => records # {}

\* Where the fence's own attempt is what a replay answers with (the stored
\* result of execution and, unless the run was contained, verification; the
\* decision a validation fence names), that attempt's record is there.  Not so for
\* a contained run, whose result a superseded attempt may overwrite.
ReplayIsTheVerdict ==
  /\ fence.status = "DONE"
  /\ phase \in {"validation", "execution", "verification"}
  /\ run \in {"OPEN", "CLOSED"}
  => fence.owner.token \in records

\* Its inductive form.  A request that is about to declare the phase done wrote
\* the record it declares, and where a run is moved first, a request that has
\* moved it and has not stored yet is the only one: nobody overwrites the record
\* of a verdict afterwards.
Stored(r) ==
  request[r].pc \in {"assert", "confirm", "update"} /\ request[r].outcome = "DONE"

StoredRecordsStay ==
  phase = "validation" \/ (MovesRun /\ run \in {"OPEN", "CLOSED"})
    => \A r \in Request : Stored(r) => request[r].token \in records

OnlyTheMoverStores ==
  MovesRun =>
    /\ run = "OPEN" =>
         /\ fence.status # "DONE"
         /\ \A r \in Request : ~Stored(r) /\ request[r].pc # "committed"
    /\ run = "CLOSED" =>
         \A r, s \in Request : request[r].pc = "committed" =>
           /\ fence.status # "DONE"
           /\ ~Stored(s)
           /\ request[s].pc = "committed" => s = r

VerdictInv ==
  /\ ReplayIsTheVerdict
  /\ StoredRecordsStay
  /\ OnlyTheMoverStores
  /\ \A r \in Request : request[r].pc \in {"reconcile", "adopt"} => Reconciles

\* The coordinator keeps the contract of FencingContract: its verdict is what
\* the fence row records since the last grant.
Contract == INSTANCE FencingContract
  WITH Holder   <- Owner,
       NoHolder <- NoOwner,
       epoch    <- lease.token,
       holder   <- lease.owner,
       verdict  <- IF fence.status \in {"DONE", "FAILED"}
                   THEN [by |-> fence.owner.token, outcome |-> fence.status]
                   ELSE [by |-> 0, outcome |-> "OPEN"]

ImplementsContract == Contract!Spec

\* "Previous owner must not complete terminal writes": a request whose grant
\* has been superseded never changes the fence, however its three statements
\* interleave with the expiry of its lease and the begin of a successor.
NoStaleSettlement ==
  [][\A r \in Request :
       Update(r) /\ fence' # fence
         => request[r].token = lease.token /\ home[r] = lease.owner]_vars

\* The attempt a begin writes was read before its lease was acquired.  One that takes
\* the fence over from another process still counts one up from the attempt it replaces:
\* whoever was let in since its read holds the lease, and a lease that was live at the
\* read is not taken for expired.  Two requests of one process may number theirs alike.
TakeoverIncrementsAttempt ==
  [][\A r \in Request :
       /\ BeginGranted(r)
       /\ fence.status \in {"FAILED", "IN_PROGRESS"}
       /\ fence.owner.instance # home[r]
       => fence'.attempt = fence.attempt + 1]_vars

\* What that rests on: a begin that would be let in has read the attempt that is still
\* there, or its own process took the lease since.
ReadsAreCurrent ==
  \A r \in Request : request[r].pc = "begun" =>
    /\ request[r].expiredGrant <= lease.token
    /\ (lease.token > 0 /\ request[r].expiredGrant = lease.token) => lease.expired
    /\ MayBegin(r) => \/ fence.status = "DONE"
                      \/ fence.attempt = request[r].seenAttempt
                      \/ lease.owner = home[r]

\* Only a reconciliation writes token 0, and leaves the fence DONE.
OpenFenceIsGranted == fence.status \in {"FAILED", "IN_PROGRESS"} => fence.owner.token # 0

AttemptInv == ReadsAreCurrent /\ (lease.token > 0 <=> lease.status = "HELD")

\* Who is let in while the request that holds the fence is at work: under a live lease
\* a request of the same process and no other (the upsert of leases.ts lets the owner of
\* a lease take it again).  Either way the one displaced has lost the fence: at most one
\* of them can settle the phase.
HolderIsDisplacedByItsOwn ==
  [][\A r, s \in Request :
       BeginGranted(r) /\ Inside(s) /\ request[s].token = fence.owner.token
         => /\ lease.expired \/ home[r] = home[s]
            /\ request[s].token # fence'.owner.token]_vars

\* "Concurrent begin while IN_PROGRESS fails closed as INGESTION_IN_PROGRESS"
\* (docs/architecture.md): nobody is let in while the request that holds the fence is at
\* work under a live lease.  Not so for a request of the same process.
ConcurrentBeginFailsClosed ==
  [][\A r, s \in Request :
       BeginGranted(r) /\ Inside(s) /\ request[s].token = fence.owner.token
         => lease.expired]_vars
=============================================================================
