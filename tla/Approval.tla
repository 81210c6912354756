------------------------------ MODULE Approval ------------------------------
(***************************************************************************)
(* Human authorization of one run: the approval requests that are issued   *)
(* for it, the transactional outbox that has them delivered, and the calls *)
(* that route, decide, expire and reissue them.                            *)
(*                                                                         *)
(*     route:    supersede pending ones; one transaction: request, secret, *)
(*               outbox message                                            *)
(*     dispatch: claim -> inbox -> deliver -> secret DELIVERED -> register,*)
(*               run AWAITING_APPROVAL -> inbox done -> message DELIVERED  *)
(*     decide:   consume the nonce -> one transaction: record, request, run*)
(*     reissue:  claim -> cancel the old request -> route a new one        *)
(*     expire:   request EXPIRED, run EXPIRED                              *)
(*                                                                         *)
(* The status of a request is read and written back by two statements      *)
(* without a lock (updateStatus), so each is a step of its own, inside of a*)
(* transaction too; the other writes of a transaction become visible when  *)
(* it commits.  Requests are numbered in the order of their creation.      *)
(***************************************************************************)
EXTENDS Integers, FiniteSets

CONSTANTS Caller,       \* concurrent calls of the services
          Dispatcher,   \* concurrent calls of dispatchOnce, one at a time each
          Limit,        \* the limit of dispatchOnce
          MaxRequests,  \* bound: approval requests of the run
          Decision,     \* bound: where a decision may take a request
          MaxBusy,      \* bound: operations under way, or cut off by a crash
          Nobody

Request == 1 .. MaxRequests

ASSUME ApprovalAssumption ==
  /\ Limit \in Nat \ {0}
  /\ MaxRequests \in Nat
  /\ MaxBusy \in Nat
  /\ Decision \subseteq {"APPROVED", "REJECTED", "MODIFICATION_REQUESTED"}
  /\ Nobody \notin Dispatcher

VARIABLES
  request,     \* the approval requests
  nonce,       \* the rows of nonce_state
  secret,      \* the rows of approval_delivery_secrets
  message,     \* the rows of transactional_outbox
  processed,   \* the requests whose inbox row is processed
  bound,       \* the requests that have an active binding
  mailed,      \* the requests whose nonce has reached a human
  record,      \* the authorization records
  claim,       \* the reissue claims, by the request to be replaced
  run,         \* state and recordRevision of the run
  caller,      \* where each call is
  dispatcher,  \* where each dispatcher is
  crashes      \* how many operations a crash has cut off

requestVars == <<request, nonce, secret>>
outboxVars  == <<message, processed, mailed>>
vars == <<requestVars, outboxVars, bound, record, claim, run, caller, dispatcher,
          crashes>>

Terminal == {"APPROVED", "REJECTED", "MODIFICATION_REQUESTED",
             "EXPIRED", "CANCELLED", "SUPERSEDED"}

\* "failed": deliveryFailureCode is APPROVAL_DELIVERY_FAILED.
ApprovalRequest == [status: {"ABSENT", "PENDING"} \cup Terminal,
                    failed: BOOLEAN, replaces: Request \cup {0}]

\* "OPEN": PENDING or LEASED.  Only claimBatch tells them apart, by the clock: a
\* retry may have fallen due, and a lease may have run out, by the time it looks.
\* "owner" is whose claim is the latest; it stands for owner and fence token, and
\* is forgotten when its owner is done with the message.
Message == [status: {"ABSENT", "OPEN", "DELIVERED"}, owner: Dispatcher \cup {Nobody}]

RunState == {"VALIDATING", "AWAITING_APPROVAL", "APPROVED", "REJECTED",
             "ESCALATED", "EXPIRED"}

\* Mutant: the run takes the status of the request.
RunAfter_Status(decision) == decision

\* Where a decision takes the run.
RunAfter(decision) == IF decision = "MODIFICATION_REQUESTED" THEN "ESCALATED" ELSE decision

Claim == [status: {"ABSENT", "IN_FLIGHT", "COMPLETE"}, replacement: Request \cup {0}]

Call == [pc: {"idle", "list", "loop", "write", "invalidate", "expireRun",
              "consume", "checkRun", "decide", "decided", "claim", "clear",
              "insert", "proceed", "readOld", "cancelOld", "findLive",
              "confirm", "complete", "fail"},
         kind: {"none", "route", "expire", "decide", "reissue"},
         target: Request \cup {0},   \* what is decided, or to be replaced
         todo: SUBSET Request,       \* what is still to supersede or expire
         failed: BOOLEAN,            \* the target had failed when it was read
         pending: BOOLEAN,           \* the target was PENDING when it was read
         revision: Nat,              \* of the run, when it was read
         decision: Decision \cup {"NONE"},
         made: Request \cup {0}]     \* the replacement

Idle == [pc |-> "idle", kind |-> "none", target |-> 0, todo |-> {},
         failed |-> FALSE, pending |-> FALSE, revision |-> 0,
         decision |-> "NONE", made |-> 0]

Dispatch == [pc: {"idle", "receive", "check", "reveal", "deliver", "secret", "cancel",
                  "cancelled", "inboxFailed", "register", "await", "inboxDone",
                  "markDelivered", "markFailed"},
             batch: SUBSET Request, current: Request \cup {0}, revision: Nat]

Free == [pc |-> "idle", batch |-> {}, current |-> 0, revision |-> 0]

TypeOK ==
  /\ request \in [Request -> ApprovalRequest]
  /\ nonce \in [Request -> {"ABSENT", "PENDING", "CONSUMED", "INVALIDATED"}]
  /\ secret \in [Request -> {"ABSENT", "PENDING", "DELIVERED", "INVALIDATED"}]
  /\ message \in [Request -> Message]
  /\ processed \in SUBSET Request
  /\ bound \in SUBSET Request
  /\ mailed \in SUBSET Request
  /\ record \in [Request -> {"ABSENT"} \cup Decision]
  /\ claim \in [Request -> Claim]
  /\ run \in [state: RunState, revision: Nat]
  /\ caller \in [Caller -> Call]
  /\ dispatcher \in [Dispatcher -> Dispatch]
  /\ crashes \in 0 .. MaxBusy

Init ==
  /\ request = [r \in Request |-> [status |-> "ABSENT", failed |-> FALSE, replaces |-> 0]]
  /\ nonce = [r \in Request |-> "ABSENT"]
  /\ secret = [r \in Request |-> "ABSENT"]
  /\ message = [r \in Request |-> [status |-> "ABSENT", owner |-> Nobody]]
  /\ processed = {}
  /\ bound = {}
  /\ mailed = {}
  /\ record = [r \in Request |-> "ABSENT"]
  /\ claim = [r \in Request |-> [status |-> "ABSENT", replacement |-> 0]]
  /\ run = [state |-> "VALIDATING", revision |-> 0]
  /\ caller = [c \in Caller |-> Idle]
  /\ dispatcher = [d \in Dispatcher |-> Free]
  /\ crashes = 0

MayStart ==
  Cardinality({c \in Caller : caller[c].pc # "idle"})
    + Cardinality({d \in Dispatcher : dispatcher[d].pc # "idle"})
    + crashes < MaxBusy

Goto(c, pc)   == caller' = [caller EXCEPT ![c].pc = pc]
Leave(c)      == caller' = [caller EXCEPT ![c] = Idle]
\* An exception: reissue has a catch block, which gives its claim back.
Throw(c)      == IF caller[c].kind = "reissue" THEN Goto(c, "fail") ELSE Leave(c)
Pending       == {r \in Request : request[r].status = "PENDING"}
Moved(state)  == [state |-> state, revision |-> run.revision + 1]
Invalidated(f, r) == [f EXCEPT ![r] = IF @ = "PENDING" THEN "INVALIDATED" ELSE @]

\* updateStatus refuses a status other than the terminal one it has read.
Refuses(r, status) == request[r].status \in Terminal \ {status}

-----------------------------------------------------------------------------
(* route, and the part of reissue that creates a request                    *)

\* requireReady: the run is VALIDATING.
Route(c) ==
  /\ caller[c].pc = "idle" /\ MayStart
  /\ run.state = "VALIDATING"
  /\ caller' = [caller EXCEPT ![c] = [Idle EXCEPT !.pc = "list", !.kind = "route"]]
  /\ UNCHANGED <<requestVars, outboxVars, bound, record, claim, run, dispatcher>>

\* The lineage of a retry: the newest request whose delivery failed.
PriorCancelled ==
  LET failed == {r \in Request : request[r].status = "CANCELLED" /\ request[r].failed}
  IN  IF failed = {} THEN 0 ELSE CHOOSE r \in failed : \A s \in failed : s <= r

\* supersedePendingForRun: which requests are PENDING.
ListPending(c) ==
  /\ caller[c].pc = "list"
  /\ caller' = [caller EXCEPT ![c] =
       [@ EXCEPT !.pc = "loop", !.todo = Pending,
                 !.target = IF caller[c].kind = "route" THEN PriorCancelled
                                                        ELSE caller[c].target]]
  /\ UNCHANGED <<requestVars, outboxVars, bound, record, claim, run, dispatcher>>

Status(c) == IF caller[c].kind = "expire" THEN "EXPIRED" ELSE "SUPERSEDED"
First(c)  == CHOOSE r \in caller[c].todo : \A s \in caller[c].todo : r <= s

ReadStatus(c) ==
  /\ caller[c].pc = "loop"
  /\ caller[c].todo # {}
  /\ IF Refuses(First(c), Status(c)) THEN Throw(c) ELSE Goto(c, "write")
  /\ UNCHANGED <<requestVars, outboxVars, bound, record, claim, run, dispatcher>>

\* The whole payload is written back: of what was read, only the status differs.
Overwritten(r, status, failed) ==
  [request EXCEPT ![r] = [@ EXCEPT !.status = status, !.failed = failed]]

WriteStatus(c) ==
  /\ caller[c].pc = "write"
  /\ request' = Overwritten(First(c), Status(c), FALSE)
  /\ Goto(c, "invalidate")
  /\ UNCHANGED <<nonce, secret, outboxVars, bound, record, claim, run, dispatcher>>

Done(c) == [caller[c] EXCEPT !.pc = "loop", !.todo = @ \ {First(c)}]

InvalidateNonce(c) ==
  /\ caller[c].pc = "invalidate"
  /\ nonce' = Invalidated(nonce, First(c))
  /\ bound' = bound \ {First(c)}
  /\ caller' = [caller EXCEPT ![c] = IF @.kind = "expire" THEN [@ EXCEPT !.pc = "expireRun"]
                                                          ELSE Done(c)]
  /\ UNCHANGED <<request, secret, outboxVars, record, claim, run, dispatcher>>

\* requests.save, deliverySecrets.storePending and outbox.enqueue.
Create(c) ==
  LET r == Cardinality({s \in Request : request[s].status # "ABSENT"}) + 1 IN
  /\ caller[c].pc = "loop" /\ caller[c].todo = {}
  /\ caller[c].kind \in {"route", "reissue"}
  /\ r \in Request
  /\ request' = [request EXCEPT ![r] = [status |-> "PENDING", failed |-> FALSE,
                                        replaces |-> caller[c].target]]
  /\ nonce' = [nonce EXCEPT ![r] = "PENDING"]
  /\ secret' = [secret EXCEPT ![r] = "PENDING"]
  /\ message' = [message EXCEPT ![r].status = "OPEN"]
  /\ caller' = [caller EXCEPT ![c] =
       IF @.kind = "route" THEN Idle ELSE [@ EXCEPT !.pc = "confirm", !.made = r]]
  /\ UNCHANGED <<processed, mailed, bound, record, claim, run, dispatcher>>

-----------------------------------------------------------------------------
(* expireDueRequests.  "now" comes with the call, so any pending request may *)
(* be due; a decision on a request that is late does the same.              *)

Expire(c) ==
  /\ caller[c].pc = "idle" /\ MayStart
  /\ \E due \in SUBSET Pending \ {{}} :
          caller' = [caller EXCEPT ![c] = [Idle EXCEPT !.pc = "loop", !.kind = "expire",
                                                       !.todo = due]]
  /\ UNCHANGED <<requestVars, outboxVars, bound, record, claim, run, dispatcher>>

\* A run that moves between the read and the compare-and-set makes it throw,
\* as if the call had crashed.
ExpireRun(c) ==
  /\ caller[c].pc = "expireRun"
  /\ run' = IF run.state = "AWAITING_APPROVAL" THEN Moved("EXPIRED") ELSE run
  /\ caller' = [caller EXCEPT ![c] = Done(c)]
  /\ UNCHANGED <<requestVars, outboxVars, bound, record, claim, dispatcher>>

SweepEnds(c) ==
  /\ caller[c].pc = "loop" /\ caller[c].todo = {}
  /\ caller[c].kind = "expire"
  /\ Leave(c)
  /\ UNCHANGED <<requestVars, outboxVars, bound, record, claim, run, dispatcher>>

-----------------------------------------------------------------------------
(* decide                                                                   *)

Decide(c, r) ==
  /\ caller[c].pc = "idle" /\ MayStart
  /\ r \in mailed
  /\ record[r] = "ABSENT"
  /\ r \in Pending
  /\ caller' = [caller EXCEPT ![c] = [Idle EXCEPT !.pc = "consume", !.kind = "decide",
                                                  !.target = r]]
  /\ UNCHANGED <<requestVars, outboxVars, bound, record, claim, run, dispatcher>>

\* Mutant: the nonce is consumed whatever its status.
ConsumeNonce_Again(c) ==
  /\ caller[c].pc = "consume"
  /\ nonce' = [nonce EXCEPT ![caller[c].target] = "CONSUMED"]
  /\ Goto(c, "checkRun")
  /\ UNCHANGED <<request, secret, outboxVars, bound, record, claim, run, dispatcher>>

\* beginDecision: UPDATE nonce_state ... WHERE status = 'PENDING'.
ConsumeNonce(c) ==
  /\ caller[c].pc = "consume"
  /\ IF nonce[caller[c].target] = "PENDING"
     THEN nonce' = [nonce EXCEPT ![caller[c].target] = "CONSUMED"] /\ Goto(c, "checkRun")
     ELSE Leave(c) /\ UNCHANGED nonce
  /\ UNCHANGED <<request, secret, outboxVars, bound, record, claim, run, dispatcher>>

\* The run is AWAITING_APPROVAL; the approver, the binding and the validation
\* are checked.  A failure leaves the nonce consumed.
CheckRun(c) ==
  /\ caller[c].pc = "checkRun"
  /\ IF run.state = "AWAITING_APPROVAL"
     THEN caller' = [caller EXCEPT ![c] = [@ EXCEPT !.pc = "decide", !.revision = run.revision]]
     ELSE Leave(c)
  /\ UNCHANGED <<requestVars, outboxVars, bound, record, claim, run, dispatcher>>

DecideRead(c) ==
  /\ caller[c].pc = "decide"
  /\ \E decision \in Decision :
       IF Refuses(caller[c].target, decision)
       THEN Leave(c)
       ELSE caller' = [caller EXCEPT ![c] = [@ EXCEPT !.pc = "decided", !.decision = decision]]
  /\ UNCHANGED <<requestVars, outboxVars, bound, record, claim, run, dispatcher>>

\* Mutant: the run is moved without the compare-and-set.
SameRun_NoCas(c) == TRUE

SameRun(c) == run.revision = caller[c].revision

\* COMMIT: the record, the request, the run and the bindings.
DecideCommit(c) ==
  LET r == caller[c].target IN
  /\ caller[c].pc = "decided"
  /\ IF SameRun(c)
     THEN /\ record' = [record EXCEPT ![r] = caller[c].decision]
          /\ request' = Overwritten(r, caller[c].decision, FALSE)
          /\ run' = Moved(RunAfter(caller[c].decision))
          /\ bound' = bound \ {r}
     ELSE UNCHANGED <<record, request, run, bound>>
  /\ Leave(c)
  /\ UNCHANGED <<nonce, secret, outboxVars, claim, dispatcher>>

-----------------------------------------------------------------------------
(* recoverUnreachableApprovalDelivery                                       *)

LiveReplacements(r) ==
  {s \in Pending : request[s].replaces = r
                   \/ claim[r] = [status |-> "COMPLETE", replacement |-> s]}

Reissue(c, r) ==
  /\ caller[c].pc = "idle" /\ MayStart
  /\ \/ r \in Pending
     \/ request[r].status = "CANCELLED" /\ request[r].failed
  /\ LiveReplacements(r) = {}
  /\ run.state = "AWAITING_APPROVAL"
  /\ record[r] = "ABSENT"
  /\ caller' = [caller EXCEPT ![c] = [Idle EXCEPT !.pc = "claim", !.kind = "reissue",
                                        !.target = r, !.pending = r \in Pending]]
  /\ UNCHANGED <<requestVars, outboxVars, bound, record, claim, run, dispatcher>>

InFlight == [status |-> "IN_FLIGHT", replacement |-> 0]

\* beginReissue: insert the claim; when there is one, wait for the replacement,
\* or clear it if that one is terminal.  A claim that stays IN_FLIGHT is an
\* error, outside of the block that gives claims back.
ClaimReissue(c) ==
  LET r == caller[c].target IN
  /\ caller[c].pc = "claim"
  /\ CASE claim[r].status = "ABSENT" ->
            claim' = [claim EXCEPT ![r] = InFlight] /\ Goto(c, "proceed")
       [] claim[r].status = "COMPLETE" /\ claim[r].replacement \notin Pending ->
            Goto(c, "clear") /\ UNCHANGED claim
       [] OTHER -> Leave(c) /\ UNCHANGED claim
  /\ UNCHANGED <<requestVars, outboxVars, bound, record, run, dispatcher>>

\* clearTerminalReissueClaim deletes whatever claim is there by now.
ClearClaim(c) ==
  /\ caller[c].pc = "clear"
  /\ claim' = [claim EXCEPT ![caller[c].target] = [status |-> "ABSENT", replacement |-> 0]]
  /\ Goto(c, "insert")
  /\ UNCHANGED <<requestVars, outboxVars, bound, record, run, dispatcher>>

InsertClaim(c) ==
  /\ caller[c].pc = "insert"
  /\ IF claim[caller[c].target].status = "ABSENT"
     THEN claim' = [claim EXCEPT ![caller[c].target] = InFlight] /\ Goto(c, "proceed")
     ELSE Leave(c) /\ UNCHANGED claim
  /\ UNCHANGED <<requestVars, outboxVars, bound, record, run, dispatcher>>

\* From here on, whether the old request must be cancelled is what was read.
Proceed(c) ==
  /\ caller[c].pc = "proceed"
  /\ IF run.state = "AWAITING_APPROVAL"
     THEN Goto(c, IF caller[c].pending THEN "readOld" ELSE "findLive")
     ELSE Throw(c)
  /\ UNCHANGED <<requestVars, outboxVars, bound, record, claim, run, dispatcher>>

ReadOld(c) ==
  LET r == caller[c].target IN
  /\ caller[c].pc = "readOld"
  /\ IF Refuses(r, "CANCELLED")
     THEN Throw(c)
     ELSE caller' = [caller EXCEPT ![c] = [@ EXCEPT !.pc = "cancelOld",
                                                    !.failed = request[r].failed]]
  /\ UNCHANGED <<requestVars, outboxVars, bound, record, claim, run, dispatcher>>

\* invalidateUnreachablePendingRequest: nonce, secret and request.
CancelOld(c) ==
  LET r == caller[c].target IN
  /\ caller[c].pc = "cancelOld"
  /\ nonce' = Invalidated(nonce, r)
  /\ secret' = Invalidated(secret, r)
  /\ request' = Overwritten(r, "CANCELLED", caller[c].failed)
  /\ bound' = bound \ {r}
  /\ Goto(c, "findLive")
  /\ UNCHANGED <<outboxVars, record, claim, run, dispatcher>>

\* Somebody else's replacement is adopted; any other pending request is an error.
FindLive(c) ==
  LET live == LiveReplacements(caller[c].target) IN
  /\ caller[c].pc = "findLive"
  /\ IF live # {}
     THEN \E s \in live :
            caller' = [caller EXCEPT ![c] = [@ EXCEPT !.pc = "complete", !.made = s]]
     ELSE IF Pending # {} THEN Throw(c) ELSE Goto(c, "list")
  /\ UNCHANGED <<requestVars, outboxVars, bound, record, claim, run, dispatcher>>

\* After the replacement was dispatched, by this call or by others.
Confirm(c) ==
  /\ caller[c].pc = "confirm"
  /\ IF run.state = "AWAITING_APPROVAL" /\ caller[c].made \in Pending
     THEN Goto(c, "complete")
     ELSE Throw(c)
  /\ UNCHANGED <<requestVars, outboxVars, bound, record, claim, run, dispatcher>>

\* completeReissue updates the claim, if it is still there.
CompleteReissue(c) ==
  LET r == caller[c].target IN
  /\ caller[c].pc = "complete"
  /\ claim' = IF claim[r].status = "ABSENT" THEN claim
              ELSE [claim EXCEPT ![r] = [status |-> "COMPLETE", replacement |-> caller[c].made]]
  /\ Leave(c)
  /\ UNCHANGED <<requestVars, outboxVars, bound, record, run, dispatcher>>

FailReissue(c) ==
  LET r == caller[c].target IN
  /\ caller[c].pc = "fail"
  /\ claim' = IF claim[r] = InFlight
              THEN [claim EXCEPT ![r] = [status |-> "ABSENT", replacement |-> 0]] ELSE claim
  /\ Leave(c)
  /\ UNCHANGED <<requestVars, outboxVars, bound, record, run, dispatcher>>

-----------------------------------------------------------------------------
(* dispatchOnce and consume                                                 *)

Step(d, pc) == dispatcher' = [dispatcher EXCEPT ![d].pc = pc]

Claimable == {r \in Request : message[r].status = "OPEN"}

\* FOR UPDATE SKIP LOCKED LIMIT: some of what may be claimed.
ClaimBatch(d) ==
  /\ dispatcher[d].pc = "idle" /\ MayStart
  /\ \E batch \in SUBSET Claimable :
       /\ Cardinality(batch) \in 1 .. Limit
       /\ message' = [r \in Request |->
            IF r \in batch THEN [status |-> "OPEN", owner |-> d] ELSE message[r]]
       /\ dispatcher' = [dispatcher EXCEPT ![d] = [Free EXCEPT !.pc = "receive", !.batch = batch]]
  /\ UNCHANGED <<requestVars, processed, mailed, bound, record, claim, run, caller>>

\* inbox.receive: a message that was processed is acknowledged again.
Receive(d) ==
  /\ dispatcher[d].pc = "receive"
  /\ \E r \in dispatcher[d].batch :
       dispatcher' = [dispatcher EXCEPT ![d] =
         [@ EXCEPT !.current = r, !.batch = dispatcher[d].batch \ {r},
                   !.pc = IF r \in processed THEN "markDelivered" ELSE "check"]]
  /\ UNCHANGED <<requestVars, outboxVars, bound, record, claim, run, caller>>

CheckPending(d) ==
  /\ dispatcher[d].pc = "check"
  /\ Step(d, IF dispatcher[d].current \in Pending THEN "reveal" ELSE "markDelivered")
  /\ UNCHANGED <<requestVars, outboxVars, bound, record, claim, run, caller>>

\* revealPending: no secret, no delivery, and the message is tried again.
Reveal(d) ==
  /\ dispatcher[d].pc = "reveal"
  /\ Step(d, IF secret[dispatcher[d].current] = "PENDING" THEN "deliver" ELSE "markFailed")
  /\ UNCHANGED <<requestVars, outboxVars, bound, record, claim, run, caller>>

\* Mutant: the exception is swallowed.
Deliver_Swallows(d) ==
  /\ dispatcher[d].pc = "deliver"
  /\ mailed' \in {mailed, mailed \cup {dispatcher[d].current}}
  /\ Step(d, "secret")
  /\ UNCHANGED <<requestVars, message, processed, bound, record, claim, run, caller>>

\* deliverApprovalRequest: what throws may have been delivered nevertheless.
Deliver(d) ==
  /\ dispatcher[d].pc = "deliver"
  /\ \/ mailed' = mailed \cup {dispatcher[d].current} /\ Step(d, "secret")
     \/ mailed' \in {mailed, mailed \cup {dispatcher[d].current}} /\ Step(d, "cancel")
  /\ UNCHANGED <<requestVars, message, processed, bound, record, claim, run, caller>>

\* deliverySecrets.markDelivered throws when the secret is not PENDING any more.
MarkSecret(d) ==
  LET r == dispatcher[d].current IN
  /\ dispatcher[d].pc = "secret"
  /\ IF secret[r] = "PENDING"
     THEN secret' = [secret EXCEPT ![r] = "DELIVERED"] /\ Step(d, "register")
     ELSE UNCHANGED secret /\ Step(d, "cancel")
  /\ UNCHANGED <<request, nonce, outboxVars, bound, record, claim, run, caller>>

\* The catch block: the request is CANCELLED, unless it has ended otherwise.
CancelRead(d) ==
  /\ dispatcher[d].pc = "cancel"
  /\ Step(d, IF Refuses(dispatcher[d].current, "CANCELLED") THEN "markFailed" ELSE "cancelled")
  /\ UNCHANGED <<requestVars, outboxVars, bound, record, claim, run, caller>>

CancelCommit(d) ==
  LET r == dispatcher[d].current IN
  /\ dispatcher[d].pc = "cancelled"
  /\ request' = Overwritten(r, "CANCELLED", TRUE)
  /\ nonce' = Invalidated(nonce, r)
  /\ secret' = Invalidated(secret, r)
  /\ bound' = bound \ {r}
  /\ Step(d, "inboxFailed")
  /\ UNCHANGED <<outboxVars, record, claim, run, caller>>

CompleteInbox(d) ==
  /\ dispatcher[d].pc \in {"inboxFailed", "inboxDone"}
  /\ processed' = processed \cup {dispatcher[d].current}
  /\ Step(d, IF dispatcher[d].pc = "inboxDone" THEN "markDelivered" ELSE "markFailed")
  /\ UNCHANGED <<requestVars, message, mailed, bound, record, claim, run, caller>>

\* registerPending, and the run's transition, which is legal from VALIDATING and
\* from ESCALATED.
Register(d) ==
  LET r == dispatcher[d].current IN
  /\ dispatcher[d].pc = "register"
  /\ IF r \notin Pending
     THEN Step(d, "inboxDone") /\ UNCHANGED bound
     ELSE IF run.state = "AWAITING_APPROVAL"
     THEN Step(d, "inboxDone") /\ bound' = bound \cup {r}
     ELSE IF run.state \in {"VALIDATING", "ESCALATED"}
     THEN /\ dispatcher' = [dispatcher EXCEPT ![d] = [@ EXCEPT !.pc = "await",
                                                              !.revision = run.revision]]
          /\ UNCHANGED bound
     ELSE Step(d, "markFailed") /\ UNCHANGED bound
  /\ UNCHANGED <<requestVars, outboxVars, record, claim, run, caller>>

\* Mutant: the run is moved without the compare-and-set.
SameRunAs_NoCas(d) == TRUE

SameRunAs(d) == run.revision = dispatcher[d].revision

\* Mutant: whoever has moved the run is taken to have registered the request.
AwaitApproval_IgnoresConflict(d) ==
  /\ dispatcher[d].pc = "await"
  /\ IF SameRunAs(d)
     THEN run' = Moved("AWAITING_APPROVAL") /\ bound' = bound \cup {dispatcher[d].current}
     ELSE UNCHANGED <<run, bound>>
  /\ Step(d, "inboxDone")
  /\ UNCHANGED <<requestVars, outboxVars, record, claim, caller>>

AwaitApproval(d) ==
  /\ dispatcher[d].pc = "await"
  /\ IF SameRunAs(d)
     THEN /\ run' = Moved("AWAITING_APPROVAL")
          /\ bound' = bound \cup {dispatcher[d].current}
          /\ Step(d, "inboxDone")
     ELSE Step(d, "markFailed") /\ UNCHANGED <<run, bound>>
  /\ UNCHANGED <<requestVars, outboxVars, record, claim, caller>>

Next1(d) == dispatcher' = [dispatcher EXCEPT ![d] =
              [Free EXCEPT !.batch = dispatcher[d].batch,
                           !.pc = IF dispatcher[d].batch = {} THEN "idle" ELSE "receive"]]

\* markDelivered and markFailed: UPDATE ... WHERE lease_owner_id AND fence_token.
\* When the first finds no row it throws, and the second finds none either.
Acknowledge(d) ==
  LET r == dispatcher[d].current IN
  /\ dispatcher[d].pc \in {"markDelivered", "markFailed"}
  /\ message' =
       IF message[r].owner # d THEN message
       ELSE [message EXCEPT ![r] = [status |-> IF dispatcher[d].pc = "markDelivered"
                                               THEN "DELIVERED" ELSE "OPEN",
                                    owner |-> Nobody]]
  /\ Next1(d)
  /\ UNCHANGED <<requestVars, processed, mailed, bound, record, claim, run, caller>>

-----------------------------------------------------------------------------
(* The environment                                                          *)

\* The process dies.
CrashCall(c) ==
  /\ caller[c].pc # "idle"
  /\ Leave(c)
  /\ UNCHANGED <<requestVars, outboxVars, bound, record, claim, run, dispatcher>>

CrashDispatcher(d) ==
  /\ dispatcher[d].pc # "idle"
  /\ dispatcher' = [dispatcher EXCEPT ![d] = Free]
  /\ UNCHANGED <<requestVars, outboxVars, bound, record, claim, run, caller>>

Crash ==
  /\ crashes' = crashes + 1
  /\ (\E c \in Caller : CrashCall(c)) \/ (\E d \in Dispatcher : CrashDispatcher(d))

CallStep(c) ==
  \/ Route(c) \/ ListPending(c) \/ ReadStatus(c) \/ WriteStatus(c)
  \/ InvalidateNonce(c) \/ Create(c)
  \/ Expire(c) \/ ExpireRun(c) \/ SweepEnds(c)
  \/ ConsumeNonce(c) \/ CheckRun(c) \/ DecideRead(c) \/ DecideCommit(c)
  \/ ClaimReissue(c) \/ ClearClaim(c) \/ InsertClaim(c) \/ Proceed(c)
  \/ ReadOld(c) \/ CancelOld(c) \/ FindLive(c) \/ Confirm(c)
  \/ CompleteReissue(c) \/ FailReissue(c)
  \/ \E r \in Request : Decide(c, r) \/ Reissue(c, r)

DispatcherStep(d) ==
  \/ ClaimBatch(d) \/ Receive(d) \/ CheckPending(d) \/ Reveal(d) \/ Deliver(d)
  \/ MarkSecret(d) \/ CancelRead(d) \/ CancelCommit(d) \/ CompleteInbox(d)
  \/ Register(d) \/ AwaitApproval(d) \/ Acknowledge(d)

Next ==
  \/ \E c \in Caller : CallStep(c) /\ UNCHANGED crashes
  \/ \E d \in Dispatcher : DispatcherStep(d) /\ UNCHANGED crashes
  \/ Crash

Spec == Init /\ [][Next]_vars

-----------------------------------------------------------------------------
(* Safety                                                                   *)

\* The run is approved by one decision and by no other, however many requests
\* two racing calls of route have made: the transaction of decide moves the run
\* with the revision that was read before it.
OneAuthorization ==
  /\ \A r, s \in Request : record[r] = "APPROVED" /\ record[s] = "APPROVED" => r = s
  /\ run.state = "APPROVED" <=> \E r \in Request : record[r] = "APPROVED"

\* The nonce of a request lets one call of decide through, and no record is
\* written without it (beginDecision's compare-and-set on nonce_state).  "OLD NONCE
\* != VALID AFTER REISSUE": what a request replaces can not be decided any more,
\* whether a retry of route or a reissue has made the replacement.
NonceDecidesOnce ==
  /\ \A r \in Request : record[r] # "ABSENT" => nonce[r] = "CONSUMED"
  /\ \A c, d \in Caller :
       /\ caller[c].pc \in {"checkRun", "decide", "decided"}
       /\ caller[d].pc \in {"checkRun", "decide", "decided"}
       /\ caller[c].target = caller[d].target
       => c = d
  /\ \A r \in Request : request[r].replaces # 0 => nonce[request[r].replaces] # "PENDING"

\* authorization/service.ts decide: one decision is made on a run, and one on a request.
DecisionIsSingle == OneAuthorization /\ NonceDecidesOnce

\* The outbox forgets about a pending request only when it is registered: its
\* binding is there for decide to find, and the run did become AWAITING_APPROVAL.
AcknowledgedMeansRegistered ==
  \A r \in Request : message[r].status = "DELIVERED" /\ r \in Pending => r \in bound

\* A run waits for approval only after a human was sent the nonce of a request:
\* delivery comes before registration, and a failed one never leads to it.
AwaitingWasDelivered ==
  [][run.state # "AWAITING_APPROVAL" /\ run'.state = "AWAITING_APPROVAL"
     => \E r \in bound' \cap mailed : secret[r] = "DELIVERED"]_vars

\* What was decided or has expired stays so, though a dispatcher with an old view
\* of the run, a sweep or a second decision may be about to move it.
DecidedRunIsFinal ==
  [][run.state \in {"APPROVED", "REJECTED", "EXPIRED"} => UNCHANGED run]_vars

-----------------------------------------------------------------------------
(* What makes them inductive: what a call or a dispatcher has seen of a     *)
(* request stays true of it, and the revision it has of the run is the      *)
(* run's own only while the run is in the state that was read               *)

Filled == {r \in Request : request[r].status # "ABSENT"}

\* The message may be forgotten.
Settled(r) == r \in Filled /\ (r \in Pending => r \in bound)

RequestInv ==
  /\ \E k \in 0 .. MaxRequests : Filled = 1 .. k
  /\ \A r \in Request :
       /\ r \notin Filled => nonce[r] = "ABSENT" /\ message[r].status = "ABSENT"
       /\ request[r].status = "CANCELLED" => nonce[r] # "PENDING"
       /\ request[r].replaces # 0 =>
            request[r].replaces \in Filled /\ nonce[request[r].replaces] # "PENDING"
       /\ record[r] # "ABSENT" => nonce[r] = "CONSUMED"
       /\ r \in processed => Settled(r)
       /\ message[r].status = "DELIVERED" => Settled(r)

Deciding == {"checkRun", "decide", "decided"}

CallInv(c) ==
  LET at == caller[c].pc
      r  == caller[c].target
  IN  /\ caller[c].todo \subseteq Filled
      /\ r # 0 => r \in Filled
      /\ at \in {"write", "invalidate"} => caller[c].todo # {}
      /\ at = "invalidate" => First(c) \notin Pending
      /\ at \in {"consume", "claim", "clear", "insert", "proceed", "readOld", "cancelOld"}
                 \cup Deciding => r # 0
      /\ at \in Deciding => nonce[r] = "CONSUMED"
      /\ at \in {"decide", "decided"} =>
           /\ caller[c].revision <= run.revision
           /\ SameRun(c) => run.state = "AWAITING_APPROVAL"
      /\ at = "decided" => caller[c].decision # "NONE"
      /\ at \in {"list", "loop", "write", "invalidate", "expireRun", "findLive"} /\ r # 0 =>
           nonce[r] # "PENDING"
      /\ at \in {"claim", "clear", "insert", "proceed"} /\ r # 0 /\ ~caller[c].pending =>
           nonce[r] # "PENDING"

DispatcherInv(d) ==
  LET at == dispatcher[d].pc
      r  == dispatcher[d].current
  IN  /\ dispatcher[d].batch \subseteq Filled
      /\ at \notin {"idle", "receive"} => r \in Filled
      /\ at \in {"inboxDone", "inboxFailed", "markDelivered"} => Settled(r)
      /\ at \in {"secret", "register", "await"} => r \in mailed
      /\ at \in {"register", "await"} => secret[r] = "DELIVERED"
      /\ at = "await" =>
           /\ dispatcher[d].revision <= run.revision
           /\ SameRunAs(d) => run.state \in {"VALIDATING", "ESCALATED"}

BusyIsBounded ==
  Cardinality({c \in Caller : caller[c].pc # "idle"})
    + Cardinality({d \in Dispatcher : dispatcher[d].pc # "idle"})
    + crashes <= MaxBusy

ApprovalInv ==
  /\ DecisionIsSingle
  /\ RequestInv
  /\ \A c \in Caller : CallInv(c)
  /\ \A d \in Dispatcher : DispatcherInv(d)
  /\ BusyIsBounded

=============================================================================
