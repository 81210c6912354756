--------------------------- MODULE ApprovalProofs ---------------------------
(***************************************************************************)
(* Proofs about Approval, for any finite number of calls and dispatchers   *)
(* and all bounds: types, that one decision is made on a run and one on a  *)
(* request, that what the outbox forgets is registered, and that a run     *)
(* waits and ends as it should.                                            *)
(***************************************************************************)
EXTENDS Approval, FiniteSetTheorems, WellFoundedInduction, TLAPS

IInv == TypeOK /\ ApprovalInv

(***************************************************************************)
(* Values                                                                  *)
(***************************************************************************)

LEMMA Least ==
  ASSUME NEW S \in SUBSET Nat, S # {}
  PROVE  \E m \in S : \A k \in S : m <= k
<1> DEFINE R == OpToRel(<, Nat)
<1>1. IsWellFoundedOn(R, Nat)
  BY NatLessThanWellFounded
<1>2. \A x, y \in Nat : <<x, y>> \in R <=> x < y
  BY DEF OpToRel
<1> HIDE DEF R
<1>3. PICK x \in S : \A y \in S : ~(<<y, x>> \in R)
  BY <1>1, WFMin
<1>4. x \in Nat /\ \A y \in S : y \in Nat /\ ~(y < x)
  BY <1>2, <1>3
<1>5. \A y \in S : x <= y
  BY <1>4
<1> QED
  BY <1>5

LEMMA Greatest ==
  ASSUME NEW n \in Nat, NEW S \in SUBSET (0 .. n), S # {}
  PROVE  \E m \in S : \A k \in S : k <= m
<1> DEFINE T == {k \in Nat : \A s \in S : s <= k}
<1>1. n \in T
  OBVIOUS
<1>2. PICK m \in T : \A k \in T : m <= k
  <2>1. T \in SUBSET Nat /\ T # {}
    BY <1>1
  <2> HIDE DEF T
  <2> QED
    BY <2>1, Least
<1>3. m \in S
  <2> SUFFICES ASSUME m \notin S PROVE FALSE
    OBVIOUS
  <2>1. PICK s \in S : TRUE
    OBVIOUS
  <2>2. s \in Nat /\ s < m
    BY <2>1
  <2>3. m - 1 \in T
    BY <2>2
  <2> QED
    BY <1>2, <2>3
<1> QED
  BY <1>3

LEMMA ConstantTypes == MaxRequests \in Nat /\ MaxBusy \in Nat /\ Limit \in Nat /\ Nobody \notin Dispatcher
                       /\ Decision \subseteq {"APPROVED", "REJECTED", "MODIFICATION_REQUESTED"}
BY ApprovalAssumption

\* The request that comes first, of those that are left.
LEMMA FirstIsOneOfThem ==
  ASSUME TypeOK, NEW c \in Caller, caller[c].todo # {}
  PROVE  First(c) \in caller[c].todo /\ First(c) \in Request
<1>1. caller[c].todo \in SUBSET Request
  BY DEF TypeOK, Call
<1>2. caller[c].todo \in SUBSET Nat
  BY <1>1, ConstantTypes DEF Request
<1>3. \E m \in caller[c].todo : \A k \in caller[c].todo : m <= k
  BY <1>2, Least
<1> QED
  BY <1>1, <1>3 DEF First

\* What a new request retries was cancelled.
LEMMA PriorIsCancelled ==
  ASSUME TypeOK
  PROVE  \/ PriorCancelled = 0
         \/ PriorCancelled \in Request /\ request[PriorCancelled].status = "CANCELLED"
<1> DEFINE S == {r \in Request : request[r].status = "CANCELLED" /\ request[r].failed}
<1>1. CASE S = {}
  BY <1>1 DEF PriorCancelled
<1>2. CASE S # {}
  <2>1. S \in SUBSET (0 .. MaxRequests)
    BY ConstantTypes DEF Request
  <2> HIDE DEF S
  <2>2. \E m \in S : \A k \in S : k <= m
    BY <1>2, <2>1, Greatest, ConstantTypes
  <2>3. (CHOOSE r \in S : \A s \in S : s <= r) \in S
    BY <2>2
  <2>4. PriorCancelled = CHOOSE r \in S : \A s \in S : s <= r
    BY <1>2 DEF PriorCancelled, S
  <2>5. PriorCancelled \in S
    BY <2>3, <2>4
  <2> QED
    BY <2>5 DEF S
<1> QED
  BY <1>1, <1>2

LEMMA RestTypes ==
  /\ Idle \in Call /\ Idle.pc = "idle" /\ Idle.todo = {} /\ Idle.target = 0 /\ Idle.kind = "none"
  /\ Free \in Dispatch /\ Free.pc = "idle" /\ Free.batch = {} /\ Free.current = 0
BY ConstantTypes DEF Idle, Call, Free, Dispatch

\* What a call and a dispatcher work with.
LEMMA CallTypes ==
  ASSUME TypeOK, NEW c \in Caller
  PROVE  /\ caller[c] \in Call /\ caller \in [Caller -> Call]
         /\ caller[c].target \in Request \cup {0} /\ caller[c].todo \subseteq Request
         /\ caller[c].failed \in BOOLEAN /\ caller[c].pending \in BOOLEAN
         /\ caller[c].revision \in Nat /\ caller[c].decision \in Decision \cup {"NONE"}
         /\ caller[c].made \in Request \cup {0}
BY DEF TypeOK, Call

LEMMA DispatcherTypes ==
  ASSUME TypeOK, NEW d \in Dispatcher
  PROVE  /\ dispatcher[d] \in Dispatch /\ dispatcher \in [Dispatcher -> Dispatch]
         /\ dispatcher[d].batch \subseteq Request
         /\ dispatcher[d].current \in Request \cup {0}
         /\ dispatcher[d].revision \in Nat
BY DEF TypeOK, Dispatch

LEMMA RequestNumbers == 0 \notin Request /\ Request \subseteq Nat
BY ConstantTypes DEF Request

(***************************************************************************)
(* Steps that keep what calls and dispatchers have seen                    *)
(***************************************************************************)

Keeps ==
  /\ \A r \in Filled :
       /\ r \in Filled'
       /\ r \notin Pending => r \notin Pending'
       /\ Settled(r) => Settled(r)'
       /\ nonce[r] # "PENDING" => nonce'[r] = nonce[r]
       /\ secret[r] = "DELIVERED" => secret'[r] = "DELIVERED"
       /\ r \in mailed => r \in mailed'
  /\ run' = run \/ run'.revision > run.revision

\* All rows but the reissue claims.
RowsStay == UNCHANGED <<request, nonce, secret, message, processed, bound, mailed, record, run>>

LEMMA StayingKeeps ==
  ASSUME RowsStay
  PROVE  Keeps /\ Filled' = Filled /\ Pending' = Pending
         /\ (RequestInv => RequestInv') /\ (OneAuthorization => OneAuthorization')
BY DEF RowsStay, Keeps, Filled, Pending, Settled, RequestInv, OneAuthorization

LEMMA CallKeeps ==
  ASSUME TypeOK, TypeOK', Keeps, NEW c \in Caller, CallInv(c), caller'[c] = caller[c]
  PROVE  CallInv(c)'
<1> DEFINE r == caller[c].target
<1>1. caller[c].todo \subseteq Filled'
  BY DEF CallInv, Keeps
<1>2. r # 0 => r \in Filled /\ r \in Filled'
  BY DEF CallInv, Keeps
<1>3. caller[c].pc = "invalidate" => First(c)' \notin Pending'
  <2>1. First(c)' = First(c)
    BY DEF First
  <2> SUFFICES ASSUME caller[c].pc = "invalidate" PROVE First(c) \notin Pending'
    BY <2>1
  <2>2. First(c) \in Filled /\ First(c) \notin Pending
    BY FirstIsOneOfThem DEF CallInv
  <2> QED
    BY <2>2 DEF Keeps
<1>4. r # 0 /\ nonce[r] # "PENDING" => nonce'[r] = nonce[r]
  BY <1>2 DEF Keeps
<1>5. caller[c].pc \in {"decide", "decided"} =>
        /\ caller[c].revision <= run'.revision
        /\ run'.revision = caller[c].revision => run'.state = "AWAITING_APPROVAL"
  <2>1. caller[c].revision \in Nat /\ run.revision \in Nat /\ run'.revision \in Nat
    BY CallTypes DEF TypeOK
  <2> QED
    BY <2>1 DEF CallInv, SameRun, Keeps
<1> HIDE DEF r
<1> QED
  BY <1>1, <1>2, <1>3, <1>4, <1>5 DEF CallInv, SameRun, Deciding, r

LEMMA DispatcherKeeps ==
  ASSUME TypeOK, TypeOK', Keeps, NEW d \in Dispatcher, DispatcherInv(d),
         dispatcher'[d] = dispatcher[d]
  PROVE  DispatcherInv(d)'
<1> DEFINE r == dispatcher[d].current
<1>1. dispatcher[d].batch \subseteq Filled'
  BY DEF DispatcherInv, Keeps
<1>2. dispatcher[d].pc \notin {"idle", "receive"} => r \in Filled /\ r \in Filled'
  BY DEF DispatcherInv, Keeps
<1>3. r \in Filled =>
        /\ Settled(r) => Settled(r)'
        /\ r \in mailed => r \in mailed'
        /\ secret[r] = "DELIVERED" => secret'[r] = "DELIVERED"
  BY DEF Keeps
<1>4. dispatcher[d].pc = "await" =>
        /\ dispatcher[d].revision <= run'.revision
        /\ run'.revision = dispatcher[d].revision => run'.state \in {"VALIDATING", "ESCALATED"}
  <2>1. dispatcher[d].revision \in Nat /\ run.revision \in Nat /\ run'.revision \in Nat
    BY DispatcherTypes DEF TypeOK
  <2> QED
    BY <2>1 DEF DispatcherInv, SameRunAs, Keeps
<1>5. dispatcher[d].pc \in {"inboxDone", "inboxFailed", "markDelivered"} => Settled(r)'
  BY <1>2, <1>3 DEF DispatcherInv
<1>6. /\ dispatcher[d].pc \in {"secret", "register", "await"} => r \in mailed'
      /\ dispatcher[d].pc \in {"register", "await"} => secret'[r] = "DELIVERED"
  BY <1>2, <1>3 DEF DispatcherInv
<1>7. dispatcher[d].pc \in {"inboxDone", "inboxFailed", "markDelivered"} => Settled(dispatcher[d].current)'
  BY <1>5 DEF Settled
<1> QED
  BY <1>1, <1>2, <1>4, <1>6, <1>7 DEF DispatcherInv, SameRunAs, Settled

(***************************************************************************)
(* The ways a step ends                                                    *)
(***************************************************************************)

BusyCallers     == {c \in Caller : caller[c].pc # "idle"}
BusyDispatchers == {d \in Dispatcher : dispatcher[d].pc # "idle"}

\* One more only when it may start.
LEMMA CallersStayBounded ==
  ASSUME IsFiniteSet(Caller), IsFiniteSet(Dispatcher), TypeOK, TypeOK', BusyIsBounded,
         NEW c \in Caller, \A j \in Caller \ {c} : caller'[j] = caller[j],
         dispatcher' = dispatcher, crashes' = crashes,
         caller[c].pc # "idle" \/ MayStart
  PROVE  BusyIsBounded'
<1> DEFINE S == BusyCallers
           T == BusyCallers'
           U == BusyDispatchers
<1>1. IsFiniteSet(S) /\ IsFiniteSet(T) /\ IsFiniteSet(U)
  BY FS_Subset DEF BusyCallers, BusyDispatchers
<1>2. Cardinality(S) \in Nat /\ Cardinality(T) \in Nat /\ Cardinality(U) \in Nat
  BY <1>1, FS_CardinalityType
<1>3. crashes \in Nat /\ MaxBusy \in Nat
  BY ConstantTypes DEF TypeOK
<1>4. CASE caller[c].pc # "idle"
  <2>1. T \subseteq S
    BY <1>4 DEF BusyCallers
  <2>2. Cardinality(T) <= Cardinality(S)
    BY <1>1, <2>1, FS_Subset
  <2>3. Cardinality(S) + Cardinality(U) + crashes <= MaxBusy
    BY DEF BusyIsBounded, BusyCallers, BusyDispatchers
  <2>4. Cardinality(T) + Cardinality(U) + crashes <= MaxBusy
    BY <1>2, <1>3, <2>2, <2>3
  <2> QED
    BY <2>4 DEF BusyIsBounded, BusyCallers, BusyDispatchers
<1>5. CASE MayStart
  <2>1. T \subseteq S \cup {c}
    BY DEF BusyCallers
  <2>2. IsFiniteSet(S \cup {c}) /\ Cardinality(S \cup {c}) <= Cardinality(S) + 1
        /\ Cardinality(S \cup {c}) \in Nat
    <3>1. /\ IsFiniteSet(S \cup {c})
          /\ \/ Cardinality(S \cup {c}) = Cardinality(S)
             \/ Cardinality(S \cup {c}) = Cardinality(S) + 1
      BY <1>1, FS_AddElement
    <3> HIDE DEF S
    <3> QED
      BY <1>2, <3>1
  <2>3. Cardinality(T) <= Cardinality(S) + 1
    <3>1. Cardinality(T) <= Cardinality(S \cup {c})
      BY <2>1, <2>2, FS_Subset
    <3> QED
      BY <1>2, <2>2, <3>1
  <2>4. Cardinality(S) + Cardinality(U) + crashes < MaxBusy
    BY <1>5 DEF MayStart, BusyCallers, BusyDispatchers
  <2>5. Cardinality(T) + Cardinality(U) + crashes <= MaxBusy
    BY <1>2, <1>3, <2>3, <2>4
  <2> QED
    BY <2>5 DEF BusyIsBounded, BusyCallers, BusyDispatchers
<1> QED
  BY <1>4, <1>5

LEMMA DispatchersStayBounded ==
  ASSUME IsFiniteSet(Caller), IsFiniteSet(Dispatcher), TypeOK, TypeOK', BusyIsBounded,
         NEW d \in Dispatcher, \A j \in Dispatcher \ {d} : dispatcher'[j] = dispatcher[j],
         caller' = caller, crashes' = crashes,
         dispatcher[d].pc # "idle" \/ MayStart
  PROVE  BusyIsBounded'
<1> DEFINE S == BusyDispatchers
           T == BusyDispatchers'
           U == BusyCallers
<1>1. IsFiniteSet(S) /\ IsFiniteSet(T) /\ IsFiniteSet(U)
  BY FS_Subset DEF BusyCallers, BusyDispatchers
<1>2. Cardinality(S) \in Nat /\ Cardinality(T) \in Nat /\ Cardinality(U) \in Nat
  BY <1>1, FS_CardinalityType
<1>3. crashes \in Nat /\ MaxBusy \in Nat
  BY ConstantTypes DEF TypeOK
<1>4. CASE dispatcher[d].pc # "idle"
  <2>1. T \subseteq S
    BY <1>4 DEF BusyDispatchers
  <2>2. Cardinality(T) <= Cardinality(S)
    BY <1>1, <2>1, FS_Subset
  <2>3. Cardinality(U) + Cardinality(S) + crashes <= MaxBusy
    BY DEF BusyIsBounded, BusyCallers, BusyDispatchers
  <2>4. Cardinality(U) + Cardinality(T) + crashes <= MaxBusy
    BY <1>2, <1>3, <2>2, <2>3
  <2> QED
    BY <2>4 DEF BusyIsBounded, BusyCallers, BusyDispatchers
<1>5. CASE MayStart
  <2>1. T \subseteq S \cup {d}
    BY DEF BusyDispatchers
  <2>2. IsFiniteSet(S \cup {d}) /\ Cardinality(S \cup {d}) <= Cardinality(S) + 1
        /\ Cardinality(S \cup {d}) \in Nat
    <3>1. /\ IsFiniteSet(S \cup {d})
          /\ \/ Cardinality(S \cup {d}) = Cardinality(S)
             \/ Cardinality(S \cup {d}) = Cardinality(S) + 1
      BY <1>1, FS_AddElement
    <3> HIDE DEF S
    <3> QED
      BY <1>2, <3>1
  <2>3. Cardinality(T) <= Cardinality(S) + 1
    <3>1. Cardinality(T) <= Cardinality(S \cup {d})
      BY <2>1, <2>2, FS_Subset
    <3> QED
      BY <1>2, <2>2, <3>1
  <2>4. Cardinality(U) + Cardinality(S) + crashes < MaxBusy
    BY <1>5 DEF MayStart, BusyCallers, BusyDispatchers
  <2>5. Cardinality(U) + Cardinality(T) + crashes <= MaxBusy
    BY <1>2, <1>3, <2>3, <2>4
  <2> QED
    BY <2>5 DEF BusyIsBounded, BusyCallers, BusyDispatchers
<1> QED
  BY <1>4, <1>5

\* A call goes on, with l.  It begins to decide on a request when it takes its nonce.
LEMMA CallMoves ==
  ASSUME IsFiniteSet(Caller), IsFiniteSet(Dispatcher), IInv, TypeOK', Keeps,
         RequestInv', OneAuthorization', NEW c \in Caller, NEW l \in Call,
         caller' = [caller EXCEPT ![c] = l], dispatcher' = dispatcher, crashes' = crashes,
         l = Idle \/ CallInv(c)',
         caller[c].pc # "idle" \/ MayStart,
         l.pc \in Deciding => \/ caller[c].pc \in Deciding /\ caller[c].target = l.target
                              \/ nonce[l.target] = "PENDING"
  PROVE  IInv'
<1>1. /\ caller'[c] = l
      /\ \A j \in Caller \ {c} : caller'[j] = caller[j]
  BY CallTypes DEF IInv
<1>2. \A j \in Caller : CallInv(j)'
  <2>1. \A j \in Caller \ {c} : CallInv(j)'
    BY <1>1, CallKeeps DEF IInv, ApprovalInv
  <2>2. l = Idle => CallInv(c)'
    BY <1>1, RestTypes DEF CallInv, Deciding
  <2> QED
    BY <2>1, <2>2
<1>3. \A d \in Dispatcher : DispatcherInv(d)'
  BY DispatcherKeeps DEF IInv, ApprovalInv
<1>4. BusyIsBounded'
  BY <1>1, CallersStayBounded DEF IInv, ApprovalInv
<1>5. NonceDecidesOnce'
  <2>1. ASSUME NEW j \in Caller, NEW k \in Caller, caller'[j].pc \in Deciding,
               caller'[k].pc \in Deciding, caller'[j].target = caller'[k].target
        PROVE  j = k
    <3>1. \A i \in Caller : caller[i].pc \in Deciding => nonce[caller[i].target] = "CONSUMED"
      BY DEF IInv, ApprovalInv, CallInv
    <3>2. \A i, n \in Caller :
            caller[i].pc \in Deciding /\ caller[n].pc \in Deciding
            /\ caller[i].target = caller[n].target => i = n
      BY DEF IInv, ApprovalInv, DecisionIsSingle, NonceDecidesOnce, Deciding
    <3> QED
      BY <1>1, <2>1, <3>1, <3>2
  <2> QED
    BY <2>1 DEF RequestInv, NonceDecidesOnce, Deciding
<1> QED
  BY <1>2, <1>3, <1>4, <1>5 DEF IInv, ApprovalInv, DecisionIsSingle

\* A call that writes no row but its claim.
LEMMA CallReads ==
  ASSUME IsFiniteSet(Caller), IsFiniteSet(Dispatcher), IInv, RowsStay,
         claim' \in [Request -> Claim], NEW c \in Caller, NEW l \in Call,
         caller' = [caller EXCEPT ![c] = l], dispatcher' = dispatcher, crashes' = crashes,
         l = Idle \/ CallInv(c)',
         caller[c].pc # "idle" \/ MayStart,
         l.pc \in Deciding => caller[c].pc \in Deciding /\ caller[c].target = l.target
  PROVE  IInv'
<1>1. TypeOK'
  BY DEF IInv, TypeOK, RowsStay
<1>2. Keeps /\ RequestInv' /\ OneAuthorization'
  BY StayingKeeps DEF IInv, ApprovalInv, DecisionIsSingle
<1> QED
  BY <1>1, <1>2, CallMoves

LEMMA DispatcherMoves ==
  ASSUME IsFiniteSet(Caller), IsFiniteSet(Dispatcher), IInv, TypeOK', Keeps,
         RequestInv', OneAuthorization', NEW d \in Dispatcher, NEW l \in Dispatch,
         dispatcher' = [dispatcher EXCEPT ![d] = l], caller' = caller, crashes' = crashes,
         DispatcherInv(d)',
         dispatcher[d].pc # "idle" \/ MayStart
  PROVE  IInv'
<1>1. \A j \in Dispatcher \ {d} : dispatcher'[j] = dispatcher[j]
  BY DispatcherTypes DEF IInv
<1>2. \A j \in Dispatcher : DispatcherInv(j)'
  BY <1>1, DispatcherKeeps DEF IInv, ApprovalInv
<1>3. \A c \in Caller : CallInv(c)'
  BY CallKeeps DEF IInv, ApprovalInv
<1>4. BusyIsBounded'
  BY <1>1, DispatchersStayBounded DEF IInv, ApprovalInv
<1>5. NonceDecidesOnce'
  BY DEF IInv, ApprovalInv, DecisionIsSingle, RequestInv, NonceDecidesOnce
<1> QED
  BY <1>2, <1>3, <1>4, <1>5 DEF IInv, ApprovalInv, DecisionIsSingle

\* A dispatcher that only reads.
LEMMA DispatcherReads ==
  ASSUME IsFiniteSet(Caller), IsFiniteSet(Dispatcher), IInv, RowsStay, claim' = claim,
         NEW d \in Dispatcher, NEW l \in Dispatch,
         dispatcher' = [dispatcher EXCEPT ![d] = l], caller' = caller, crashes' = crashes,
         DispatcherInv(d)', dispatcher[d].pc # "idle"
  PROVE  IInv'
<1>1. TypeOK'
  BY DEF IInv, TypeOK, RowsStay
<1>2. Keeps /\ RequestInv' /\ OneAuthorization'
  BY StayingKeeps DEF IInv, ApprovalInv, DecisionIsSingle
<1> QED
  BY <1>1, <1>2, DispatcherMoves

(***************************************************************************)
(* Calls that read, and the reissue claims                                 *)
(***************************************************************************)

\* Pending requests are there.
LEMMA PendingAreFilled == Pending \subseteq Filled
BY DEF Pending, Filled

LEMMA LeaveReads ==
  ASSUME IsFiniteSet(Caller), IsFiniteSet(Dispatcher), IInv, RowsStay,
         claim' \in [Request -> Claim], dispatcher' = dispatcher, crashes' = crashes,
         NEW c \in Caller, caller[c].pc # "idle", Leave(c)
  PROVE  IInv'
<1>1. Idle.pc \notin Deciding /\ Idle \in Call
  BY RestTypes DEF Deciding
<1> QED
  BY <1>1, CallReads DEF Leave

Plain == {"write", "fail", "proceed", "clear", "insert", "readOld", "findLive", "list", "complete"}

\* A call goes on with what it has.
LEMMA GotoReads ==
  ASSUME IsFiniteSet(Caller), IsFiniteSet(Dispatcher), IInv, RowsStay,
         claim' \in [Request -> Claim], dispatcher' = dispatcher, crashes' = crashes,
         NEW c \in Caller, caller[c].pc # "idle", NEW pc \in Plain, Goto(c, pc),
         pc = "write" => caller[c].todo # {},
         pc \in {"clear", "insert", "proceed", "readOld"} => caller[c].target # 0,
         pc \in {"list", "write", "findLive"} /\ caller[c].target # 0 =>
           nonce[caller[c].target] # "PENDING",
         pc \in {"clear", "insert", "proceed"} /\ caller[c].target # 0 /\ ~caller[c].pending =>
           nonce[caller[c].target] # "PENDING"
  PROVE  IInv'
<1> DEFINE l == [caller[c] EXCEPT !.pc = pc]
<1>1. /\ l \in Call /\ l.pc = pc /\ l.target = caller[c].target /\ l.todo = caller[c].todo
      /\ l.pending = caller[c].pending
  BY CallTypes DEF IInv, Call, Plain
<1>2. caller' = [caller EXCEPT ![c] = l]
  BY CallTypes DEF Goto, IInv
<1>3. l.pc \notin Deciding
  BY <1>1 DEF Deciding, Plain
<1> HIDE DEF l
<1>4. caller'[c] = l
  BY <1>2, CallTypes DEF IInv
<1>5. CallInv(c)'
  <2>1. l.todo \subseteq Filled' /\ (l.target # 0 => l.target \in Filled')
    BY <1>1, StayingKeeps DEF IInv, ApprovalInv, CallInv
  <2> QED
    BY <1>1, <1>3, <1>4, <2>1 DEF CallInv, Plain, Deciding, RowsStay
<1> QED
  BY <1>1, <1>2, <1>3, <1>5, CallReads

LEMMA ThrowReads ==
  ASSUME IsFiniteSet(Caller), IsFiniteSet(Dispatcher), IInv, RowsStay,
         claim' \in [Request -> Claim], dispatcher' = dispatcher, crashes' = crashes,
         NEW c \in Caller, caller[c].pc # "idle", Throw(c)
  PROVE  IInv'
<1>1. "fail" \in Plain
  BY DEF Plain
<1>2. CASE Leave(c)
  BY <1>2, LeaveReads
<1>3. CASE Goto(c, "fail")
  BY <1>1, <1>3, GotoReads
<1> QED
  BY <1>2, <1>3 DEF Throw

LEMMA RouteAndSweepRead ==
  ASSUME IsFiniteSet(Caller), IsFiniteSet(Dispatcher), IInv, crashes' = crashes, NEW c \in Caller,
         Route(c) \/ ListPending(c) \/ ReadStatus(c) \/ Expire(c) \/ SweepEnds(c)
  PROVE  IInv'
<1>1. RowsStay /\ claim' \in [Request -> Claim] /\ dispatcher' = dispatcher
  BY DEF Route, ListPending, ReadStatus, Expire, SweepEnds, RowsStay, requestVars, outboxVars,
         IInv, TypeOK
<1>2. CallInv(c) /\ caller[c] \in Call /\ caller \in [Caller -> Call]
  BY CallTypes DEF IInv, ApprovalInv
<1>3. CASE Route(c)
  <2> DEFINE l == [Idle EXCEPT !.pc = "list", !.kind = "route"]
  <2>1. l \in Call /\ l.pc = "list" /\ l.todo = {} /\ l.target = 0
    BY RestTypes DEF Call
  <2>2. caller' = [caller EXCEPT ![c] = l] /\ MayStart
    BY <1>3 DEF Route
  <2> HIDE DEF l
  <2>3. caller'[c] = l
    BY <1>2, <2>2
  <2>4. CallInv(c)'
    BY <2>1, <2>3 DEF CallInv, Deciding
  <2> QED
    BY <1>1, <2>1, <2>2, <2>4, CallReads DEF Deciding
<1>4. CASE ListPending(c)
  <2> DEFINE target == IF caller[c].kind = "route" THEN PriorCancelled ELSE caller[c].target
             l      == [caller[c] EXCEPT !.pc = "loop", !.todo = Pending, !.target = target]
  <2>1. target \in Request \cup {0}
    BY <1>2, CallTypes, PriorIsCancelled DEF IInv
  <2>2. target # 0 => target \in Filled /\ nonce[target] # "PENDING"
    <3>1. CASE caller[c].kind = "route"
      BY <3>1, PriorIsCancelled DEF Filled, IInv, ApprovalInv, RequestInv
    <3>2. CASE caller[c].kind # "route"
      BY <1>2, <1>4, <3>2 DEF CallInv, ListPending
    <3> QED
      BY <3>1, <3>2
  <2> HIDE DEF target
  <2>3. l \in Call /\ l.pc = "loop" /\ l.todo = Pending /\ l.target = target
    BY <1>2, <2>1 DEF Call, Pending
  <2>4. caller' = [caller EXCEPT ![c] = l]
    BY <1>2, <1>4 DEF ListPending, target
  <2> HIDE DEF l
  <2>5. caller'[c] = l
    BY <1>2, <2>4
  <2>6. CallInv(c)'
    BY <1>1, <2>2, <2>3, <2>5, PendingAreFilled, StayingKeeps DEF CallInv, Deciding, RowsStay
  <2> QED
    BY <1>1, <1>4, <2>3, <2>4, <2>6, CallReads DEF Deciding, ListPending
<1>5. CASE ReadStatus(c)
  <2>1. "write" \in Plain /\ caller[c].todo # {} /\ caller[c].pc = "loop"
    BY <1>5 DEF Plain, ReadStatus
  <2>2. caller[c].target # 0 => nonce[caller[c].target] # "PENDING"
    BY <1>2, <2>1 DEF CallInv
  <2>3. CASE Throw(c)
    BY <1>1, <2>1, <2>3, ThrowReads
  <2>4. CASE Goto(c, "write")
    BY <1>1, <2>1, <2>2, <2>4, GotoReads
  <2> QED
    BY <1>5, <2>3, <2>4 DEF ReadStatus
<1>6. CASE Expire(c)
  <2>1. PICK due \in SUBSET Pending :
          caller' = [caller EXCEPT ![c] = [Idle EXCEPT !.pc = "loop", !.kind = "expire", !.todo = due]]
    BY <1>6 DEF Expire
  <2> DEFINE l == [Idle EXCEPT !.pc = "loop", !.kind = "expire", !.todo = due]
  <2>2. l \in Call /\ l.pc = "loop" /\ l.todo = due /\ l.target = 0
    BY RestTypes DEF Call, Pending
  <2>3. caller' = [caller EXCEPT ![c] = l] /\ MayStart
    BY <1>6, <2>1 DEF Expire
  <2> HIDE DEF l
  <2>4. caller'[c] = l
    BY <1>2, <2>3
  <2>5. CallInv(c)'
    BY <1>1, <2>2, <2>4, PendingAreFilled, StayingKeeps DEF CallInv, Deciding
  <2> QED
    BY <1>1, <2>2, <2>3, <2>5, CallReads DEF Deciding
<1>7. CASE SweepEnds(c)
  BY <1>1, <1>7, LeaveReads DEF SweepEnds
<1> QED
  BY <1>3, <1>4, <1>5, <1>6, <1>7

LEMMA DecideReads ==
  ASSUME IsFiniteSet(Caller), IsFiniteSet(Dispatcher), IInv, crashes' = crashes, NEW c \in Caller,
         CheckRun(c) \/ DecideRead(c) \/ \E r \in Request : Decide(c, r)
  PROVE  IInv'
<1>1. RowsStay /\ claim' \in [Request -> Claim] /\ dispatcher' = dispatcher
  BY DEF CheckRun, DecideRead, Decide, RowsStay, requestVars, outboxVars, IInv, TypeOK
<1>2. CallInv(c) /\ caller[c] \in Call /\ caller \in [Caller -> Call]
  BY CallTypes DEF IInv, ApprovalInv
<1>3. CASE CheckRun(c)
  <2>1. CASE Leave(c)
    BY <1>1, <1>3, <2>1, LeaveReads DEF CheckRun
  <2>2. CASE /\ run.state = "AWAITING_APPROVAL"
             /\ caller' = [caller EXCEPT ![c] = [@ EXCEPT !.pc = "decide", !.revision = run.revision]]
    <3> DEFINE l == [caller[c] EXCEPT !.pc = "decide", !.revision = run.revision]
    <3>1. run.revision \in Nat
      BY DEF IInv, TypeOK
    <3>2. /\ l \in Call /\ l.pc = "decide" /\ l.todo = caller[c].todo
          /\ l.target = caller[c].target /\ l.revision = run.revision
      BY <1>2, <3>1 DEF Call
    <3>3. caller' = [caller EXCEPT ![c] = l]
      BY <1>2, <2>2
    <3> HIDE DEF l
    <3>4. caller'[c] = l
      BY <1>2, <3>3
    <3>5. CallInv(c)'
      BY <1>1, <1>2, <1>3, <2>2, <3>1, <3>2, <3>4, StayingKeeps
      DEF CheckRun, CallInv, Deciding, SameRun, RowsStay
    <3> QED
      BY <1>1, <1>3, <3>2, <3>3, <3>5, CallReads DEF CheckRun, Deciding
  <2> QED
    BY <1>3, <2>1, <2>2 DEF CheckRun
<1>4. CASE DecideRead(c)
  <2>1. CASE Leave(c)
    BY <1>1, <1>4, <2>1, LeaveReads DEF DecideRead
  <2>2. ASSUME NEW decision \in Decision,
               caller' = [caller EXCEPT ![c] = [@ EXCEPT !.pc = "decided", !.decision = decision]]
        PROVE  IInv'
    <3> DEFINE l == [caller[c] EXCEPT !.pc = "decided", !.decision = decision]
    <3>1. decision # "NONE"
      BY ConstantTypes
    <3>2. /\ l \in Call /\ l.pc = "decided" /\ l.todo = caller[c].todo
          /\ l.target = caller[c].target /\ l.revision = caller[c].revision
          /\ l.decision = decision
      BY <1>2 DEF Call
    <3>3. caller' = [caller EXCEPT ![c] = l]
      BY <1>2, <2>2
    <3> HIDE DEF l
    <3>4. caller'[c] = l
      BY <1>2, <3>3
    <3>5. CallInv(c)'
      BY <1>1, <1>2, <1>4, <3>1, <3>2, <3>4, StayingKeeps
      DEF DecideRead, CallInv, Deciding, SameRun, RowsStay
    <3> QED
      BY <1>1, <1>4, <3>2, <3>3, <3>5, CallReads DEF DecideRead, Deciding
  <2> QED
    BY <1>4, <2>1, <2>2 DEF DecideRead
<1>5. ASSUME NEW r \in Request, Decide(c, r)
      PROVE  IInv'
  <2> DEFINE l == [Idle EXCEPT !.pc = "consume", !.kind = "decide", !.target = r]
  <2>1. l \in Call /\ l.pc = "consume" /\ l.todo = {} /\ l.target = r
    BY RestTypes DEF Call
  <2>2. caller' = [caller EXCEPT ![c] = l] /\ MayStart /\ r \in Filled /\ r # 0
    BY <1>5, PendingAreFilled, RequestNumbers DEF Decide
  <2> HIDE DEF l
  <2>3. caller'[c] = l
    BY <1>2, <2>2
  <2>4. CallInv(c)'
    BY <1>1, <2>1, <2>2, <2>3, StayingKeeps DEF CallInv, Deciding
  <2> QED
    BY <1>1, <2>1, <2>2, <2>4, CallReads DEF Deciding
<1> QED
  BY <1>3, <1>4, <1>5

LEMMA ReissueReads ==
  ASSUME IsFiniteSet(Caller), IsFiniteSet(Dispatcher), IInv, crashes' = crashes, NEW c \in Caller,
         \/ ClaimReissue(c) \/ ClearClaim(c) \/ InsertClaim(c) \/ Proceed(c) \/ ReadOld(c)
         \/ FindLive(c) \/ Confirm(c) \/ CompleteReissue(c) \/ FailReissue(c)
         \/ \E r \in Request : Reissue(c, r)
  PROVE  IInv'
<1>1. RowsStay /\ dispatcher' = dispatcher
  BY DEF ClaimReissue, ClearClaim, InsertClaim, Proceed, ReadOld, FindLive, Confirm,
         CompleteReissue, FailReissue, Reissue, RowsStay, requestVars, outboxVars
<1>2. CallInv(c) /\ caller[c] \in Call /\ caller \in [Caller -> Call]
      /\ caller[c].made \in Request \cup {0}
  BY CallTypes DEF IInv, ApprovalInv
<1>3. claim' \in [Request -> Claim]
  <2>1. /\ claim \in [Request -> Claim] /\ InFlight \in Claim
        /\ [status |-> "ABSENT", replacement |-> 0] \in Claim
        /\ [status |-> "COMPLETE", replacement |-> caller[c].made] \in Claim
    BY <1>2 DEF IInv, TypeOK, InFlight, Claim
  <2> QED
    BY <2>1 DEF ClaimReissue, ClearClaim, InsertClaim, Proceed, ReadOld, FindLive, Confirm,
                CompleteReissue, FailReissue, Reissue
<1>4. Plain = Plain \cup {"write", "fail", "proceed", "clear", "insert", "readOld", "findLive",
                          "list", "complete"}
  BY DEF Plain
<1>5. CASE ClaimReissue(c)
  <2>1. caller[c].pc = "claim" /\ (Goto(c, "proceed") \/ Goto(c, "clear") \/ Leave(c))
    BY <1>5 DEF ClaimReissue
  <2>2. /\ caller[c].target # 0
        /\ ~caller[c].pending => nonce[caller[c].target] # "PENDING"
    BY <1>2, <2>1 DEF CallInv
  <2> QED
    BY <1>1, <1>3, <1>4, <2>1, <2>2, GotoReads, LeaveReads
<1>6. CASE ClearClaim(c)
  <2>1. caller[c].pc = "clear" /\ Goto(c, "insert")
    BY <1>6 DEF ClearClaim
  <2>2. /\ caller[c].target # 0
        /\ ~caller[c].pending => nonce[caller[c].target] # "PENDING"
    BY <1>2, <2>1 DEF CallInv
  <2> QED
    BY <1>1, <1>3, <1>4, <2>1, <2>2, GotoReads
<1>7. CASE InsertClaim(c)
  <2>1. caller[c].pc = "insert" /\ (Goto(c, "proceed") \/ Leave(c))
    BY <1>7 DEF InsertClaim
  <2>2. /\ caller[c].target # 0
        /\ ~caller[c].pending => nonce[caller[c].target] # "PENDING"
    BY <1>2, <2>1 DEF CallInv
  <2> QED
    BY <1>1, <1>3, <1>4, <2>1, <2>2, GotoReads, LeaveReads
<1>8. CASE Proceed(c)
  <2>1. /\ caller[c].pc = "proceed"
        /\ \/ caller[c].pending /\ Goto(c, "readOld")
           \/ ~caller[c].pending /\ Goto(c, "findLive")
           \/ Throw(c)
    BY <1>8 DEF Proceed
  <2>2. /\ caller[c].target # 0
        /\ ~caller[c].pending => nonce[caller[c].target] # "PENDING"
    BY <1>2, <2>1 DEF CallInv
  <2> QED
    BY <1>1, <1>3, <1>4, <2>1, <2>2, GotoReads, ThrowReads
<1>9. CASE ReadOld(c)
  <2>1. CASE Throw(c)
    BY <1>1, <1>3, <1>9, <2>1, ThrowReads DEF ReadOld
  <2>2. CASE /\ ~Refuses(caller[c].target, "CANCELLED")
             /\ caller' = [caller EXCEPT ![c] =
                             [@ EXCEPT !.pc = "cancelOld", !.failed = request[caller[c].target].failed]]
    <3>1. caller[c].target = 0 \/ request[caller[c].target].failed \in BOOLEAN
      BY <1>2, CallTypes DEF IInv, TypeOK, ApprovalRequest
    <3> DEFINE l == [caller[c] EXCEPT !.pc = "cancelOld", !.failed = request[caller[c].target].failed]
    <3>2. caller[c].target # 0
      BY <1>2, <1>9 DEF ReadOld, CallInv
    <3>3. /\ l \in Call /\ l.pc = "cancelOld" /\ l.todo = caller[c].todo
          /\ l.target = caller[c].target
      BY <1>2, <3>1, <3>2 DEF Call
    <3>4. caller' = [caller EXCEPT ![c] = l]
      BY <1>2, <2>2
    <3> HIDE DEF l
    <3>5. caller'[c] = l
      BY <1>2, <3>4
    <3>6. CallInv(c)'
      BY <1>1, <1>2, <3>2, <3>3, <3>5, StayingKeeps DEF CallInv, Deciding
    <3> QED
      BY <1>1, <1>3, <1>9, <3>3, <3>4, <3>6, CallReads DEF ReadOld, Deciding
  <2> QED
    BY <1>9, <2>1, <2>2 DEF ReadOld
<1>10. CASE FindLive(c)
  <2>1. caller[c].pc = "findLive"
    BY <1>10 DEF FindLive
  <2>2. caller[c].target # 0 => nonce[caller[c].target] # "PENDING"
    BY <1>2, <2>1 DEF CallInv
  <2>3. CASE Throw(c) \/ Goto(c, "list")
    BY <1>1, <1>3, <1>4, <2>1, <2>2, <2>3, GotoReads, ThrowReads
  <2>4. ASSUME NEW s \in LiveReplacements(caller[c].target),
               caller' = [caller EXCEPT ![c] = [@ EXCEPT !.pc = "complete", !.made = s]]
        PROVE  IInv'
    <3> DEFINE l == [caller[c] EXCEPT !.pc = "complete", !.made = s]
    <3>1. s \in Request
      BY DEF LiveReplacements, Pending
    <3>2. l \in Call /\ l.pc = "complete" /\ l.todo = caller[c].todo /\ l.target = caller[c].target
      BY <1>2, <3>1 DEF Call
    <3>3. caller' = [caller EXCEPT ![c] = l]
      BY <1>2, <2>4
    <3> HIDE DEF l
    <3>4. caller'[c] = l
      BY <1>2, <3>3
    <3>5. CallInv(c)'
      BY <1>1, <1>2, <3>2, <3>4, StayingKeeps DEF CallInv, Deciding
    <3> QED
      BY <1>1, <1>3, <2>1, <3>2, <3>3, <3>5, CallReads DEF Deciding
  <2> QED
    BY <1>10, <2>3, <2>4 DEF FindLive
<1>11. CASE Confirm(c)
  <2>1. caller[c].pc = "confirm" /\ (Goto(c, "complete") \/ Throw(c))
    BY <1>11 DEF Confirm
  <2> QED
    BY <1>1, <1>3, <1>4, <2>1, GotoReads, ThrowReads
<1>12. CASE CompleteReissue(c) \/ FailReissue(c)
  <2>1. caller[c].pc # "idle" /\ Leave(c)
    BY <1>12 DEF CompleteReissue, FailReissue
  <2> QED
    BY <1>1, <1>3, <2>1, LeaveReads
<1>13. ASSUME NEW r \in Request, Reissue(c, r)
       PROVE  IInv'
  <2> DEFINE l == [Idle EXCEPT !.pc = "claim", !.kind = "reissue", !.target = r,
                               !.pending = r \in Pending]
  <2>1. (r \in Pending) \in BOOLEAN
    OBVIOUS
  <2>2. /\ l \in Call /\ l.pc = "claim" /\ l.todo = {} /\ l.target = r
        /\ l.pending = (r \in Pending)
    BY <2>1, RestTypes DEF Call
  <2>3. caller' = [caller EXCEPT ![c] = l] /\ MayStart
    BY <1>13 DEF Reissue
  <2>4. /\ r \in Pending \/ request[r].status = "CANCELLED"
        /\ r \in Filled /\ r # 0
    BY <1>13, PendingAreFilled, RequestNumbers DEF Reissue, Filled
  <2>5. r \notin Pending => nonce[r] # "PENDING"
    BY <2>4 DEF IInv, ApprovalInv, RequestInv
  <2> HIDE DEF l
  <2>6. caller'[c] = l
    BY <1>2, <2>3
  <2>7. CallInv(c)'
    BY <1>1, <2>2, <2>4, <2>5, <2>6, StayingKeeps DEF CallInv, Deciding, RowsStay
  <2> QED
    BY <1>1, <1>3, <2>2, <2>3, <2>7, CallReads DEF Deciding
<1> QED
  BY <1>5, <1>6, <1>7, <1>8, <1>9, <1>10, <1>11, <1>12, <1>13
(***************************************************************************)
(* Calls that write                                                        *)
(***************************************************************************)

\* updateStatus changes the status of one request, and makes none.
LEMMA OverwritesOne ==
  ASSUME TypeOK, NEW r \in Filled, NEW status \in Terminal, NEW failed \in BOOLEAN,
         request' = Overwritten(r, status, failed)
  PROVE  /\ request' \in [Request -> ApprovalRequest]
         /\ request'[r].status = status
         /\ \A s \in Request : request'[s].replaces = request[s].replaces
         /\ \A s \in Request \ {r} : request'[s] = request[s]
         /\ Filled' = Filled
         /\ Pending' = Pending \ {r}
<1>1. r \in Request /\ request \in [Request -> ApprovalRequest] /\ request[r] \in ApprovalRequest
  BY DEF Filled, TypeOK
<1> DEFINE q == [request[r] EXCEPT !.status = status, !.failed = failed]
<1>2. q \in ApprovalRequest /\ q.status = status /\ q.replaces = request[r].replaces
  BY <1>1 DEF ApprovalRequest
<1>3. request' = [request EXCEPT ![r] = q]
  BY <1>1 DEF Overwritten
<1> HIDE DEF q
<1>4. /\ request' \in [Request -> ApprovalRequest]
      /\ request'[r] = q
      /\ \A s \in Request \ {r} : request'[s] = request[s]
  BY <1>1, <1>2, <1>3
<1>5. status # "ABSENT" /\ status # "PENDING" /\ request[r].status # "ABSENT"
  BY DEF Terminal, Filled
<1>6. Filled' = Filled
  BY <1>2, <1>4, <1>5 DEF Filled
<1>7. Pending' = Pending \ {r}
  BY <1>2, <1>4, <1>5 DEF Pending
<1> QED
  BY <1>2, <1>4, <1>6, <1>7

\* What is terminal in another way than CANCELLED says nothing about a nonce.
LEMMA OverwritingKeeps ==
  ASSUME TypeOK, RequestInv, NEW r \in Filled, NEW status \in Terminal, NEW failed \in BOOLEAN,
         request' = Overwritten(r, status, failed),
         \A s \in Request : nonce[s] # "PENDING" => nonce'[s] = nonce[s],
         \A s \in Request : nonce[s] = "ABSENT" <=> nonce'[s] = "ABSENT",
         status = "CANCELLED" => nonce'[r] # "PENDING",
         \A s \in Request : secret[s] = "DELIVERED" => secret'[s] = "DELIVERED",
         bound' = bound \/ bound' = bound \ {r},
         UNCHANGED <<message, processed, mailed>>,
         run' = run \/ run'.revision > run.revision,
         \A s \in Request : record'[s] # "ABSENT" => nonce'[s] = "CONSUMED"
  PROVE  Keeps /\ RequestInv'
<1>1. /\ request'[r].status = status
      /\ \A s \in Request : request'[s].replaces = request[s].replaces
      /\ \A s \in Request \ {r} : request'[s] = request[s]
      /\ Filled' = Filled /\ Pending' = Pending \ {r}
      /\ r \in Request /\ Filled \subseteq Request
  BY OverwritesOne DEF Filled
<1>2. \A s \in Filled : Settled(s) => Settled(s)'
  BY <1>1 DEF Settled
<1>3. Keeps
  BY <1>1, <1>2 DEF Keeps
<1>4. ASSUME NEW s \in Request
      PROVE  /\ s \notin Filled' => nonce'[s] = "ABSENT" /\ message'[s].status = "ABSENT"
             /\ request'[s].status = "CANCELLED" => nonce'[s] # "PENDING"
             /\ request'[s].replaces # 0 =>
                  request'[s].replaces \in Filled' /\ nonce'[request'[s].replaces] # "PENDING"
             /\ s \in processed' => Settled(s)'
             /\ message'[s].status = "DELIVERED" => Settled(s)'
  <2>1. s \notin Filled' => nonce'[s] = "ABSENT" /\ message'[s].status = "ABSENT"
    BY <1>1 DEF RequestInv
  <2>2. request'[s].status = "CANCELLED" => nonce'[s] # "PENDING"
    <3>1. CASE s = r
      BY <1>1, <3>1
    <3>2. CASE s # r
      BY <1>1, <3>2 DEF RequestInv
    <3> QED
      BY <3>1, <3>2
  <2>3. request'[s].replaces # 0 =>
          request'[s].replaces \in Filled' /\ nonce'[request'[s].replaces] # "PENDING"
    BY <1>1 DEF RequestInv
  <2>4. (s \in processed' => Settled(s)') /\ (message'[s].status = "DELIVERED" => Settled(s)')
    <3>1. (s \in processed => Settled(s)) /\ (message[s].status = "DELIVERED" => Settled(s))
      BY DEF RequestInv
    <3>2. Settled(s) => Settled(s)'
      BY <1>2 DEF Settled
    <3> QED
      BY <3>1, <3>2
  <2> QED
    BY <2>1, <2>2, <2>3, <2>4
<1>5. \E k \in 0 .. MaxRequests : Filled' = 1 .. k
  BY <1>1 DEF RequestInv
<1> QED
  BY <1>3, <1>4, <1>5 DEF RequestInv
\* A step that writes no request.
LEMMA WritingAroundKeeps ==
  ASSUME TypeOK, RequestInv, request' = request,
         \A s \in Request : nonce[s] # "PENDING" => nonce'[s] = nonce[s],
         \A s \in Request : secret[s] = "DELIVERED" => secret'[s] = "DELIVERED",
         \A s \in Pending : s \in bound => s \in bound',
         \A s \in Request : s \notin Filled => message'[s].status = "ABSENT",
         \A s \in Request : message'[s].status = "DELIVERED" => Settled(s),
         \A s \in processed' : s \in Filled /\ Settled(s),
         mailed \subseteq mailed',
         run' = run \/ run'.revision > run.revision,
         record' = record
  PROVE  Keeps /\ RequestInv'
<1>1. Filled' = Filled /\ Pending' = Pending /\ Filled \subseteq Request
  BY DEF Filled, Pending
<1>2. \A s \in Filled : Settled(s) => Settled(s)'
  BY <1>1 DEF Settled
<1>3. Keeps
  BY <1>1, <1>2 DEF Keeps
<1>4. ASSUME NEW s \in Request
      PROVE  /\ s \notin Filled' => nonce'[s] = "ABSENT" /\ message'[s].status = "ABSENT"
             /\ request'[s].status = "CANCELLED" => nonce'[s] # "PENDING"
             /\ request'[s].replaces # 0 =>
                  request'[s].replaces \in Filled' /\ nonce'[request'[s].replaces] # "PENDING"
             /\ record'[s] # "ABSENT" => nonce'[s] = "CONSUMED"
             /\ s \in processed' => Settled(s)'
             /\ message'[s].status = "DELIVERED" => Settled(s)'
  <2>1. /\ s \notin Filled' => nonce'[s] = "ABSENT" /\ message'[s].status = "ABSENT"
        /\ request'[s].status = "CANCELLED" => nonce'[s] # "PENDING"
        /\ record'[s] # "ABSENT" => nonce'[s] = "CONSUMED"
    BY <1>1 DEF RequestInv
  <2>2. request'[s].replaces # 0 =>
          request'[s].replaces \in Filled' /\ nonce'[request'[s].replaces] # "PENDING"
    BY <1>1 DEF RequestInv
  <2>3. (s \in processed' => Settled(s)') /\ (message'[s].status = "DELIVERED" => Settled(s)')
    <3>1. Settled(s) => Settled(s)'
      BY <1>2 DEF Settled
    <3> QED
      BY <3>1
  <2> QED
    BY <2>1, <2>2, <2>3
<1>5. \E k \in 0 .. MaxRequests : Filled' = 1 .. k
  BY <1>1 DEF RequestInv
<1> QED
  BY <1>3, <1>4, <1>5 DEF RequestInv

\* What is known of the messages and of the inbox.
LEMMA RowsAreSettled ==
  ASSUME RequestInv
  PROVE  /\ \A s \in Request : s \notin Filled => message[s].status = "ABSENT"
         /\ \A s \in Request : message[s].status = "DELIVERED" => Settled(s)
         /\ \A s \in Request : s \in processed => s \in Filled /\ Settled(s)
BY DEF RequestInv, Settled

LEMMA NonceTypes ==
  ASSUME TypeOK, NEW r \in Request
  PROVE  /\ Invalidated(nonce, r) \in [Request -> {"ABSENT", "PENDING", "CONSUMED", "INVALIDATED"}]
         /\ Invalidated(secret, r) \in [Request -> {"ABSENT", "PENDING", "DELIVERED", "INVALIDATED"}]
         /\ \A s \in Request : nonce[s] # "PENDING" => Invalidated(nonce, r)[s] = nonce[s]
         /\ \A s \in Request : nonce[s] = "ABSENT" <=> Invalidated(nonce, r)[s] = "ABSENT"
         /\ \A s \in Request : secret[s] = "DELIVERED" => Invalidated(secret, r)[s] = "DELIVERED"
         /\ Invalidated(nonce, r)[r] # "PENDING"
<1>1. /\ nonce \in [Request -> {"ABSENT", "PENDING", "CONSUMED", "INVALIDATED"}]
      /\ secret \in [Request -> {"ABSENT", "PENDING", "DELIVERED", "INVALIDATED"}]
  BY DEF TypeOK
<1> QED
  BY <1>1 DEF Invalidated

\* The run's revision only grows.
LEMMA MovedTypes ==
  ASSUME TypeOK, NEW state \in RunState
  PROVE  /\ Moved(state) \in [state: RunState, revision: Nat]
         /\ Moved(state).state = state
         /\ Moved(state).revision > run.revision
<1>1. run.revision \in Nat
  BY DEF TypeOK
<1>2. run.revision + 1 \in Nat /\ run.revision + 1 > run.revision
  BY <1>1
<1> QED
  BY <1>2 DEF Moved

LEMMA WriteStatusStep ==
  ASSUME IsFiniteSet(Caller), IsFiniteSet(Dispatcher), IInv, crashes' = crashes, NEW c \in Caller,
         WriteStatus(c)
  PROVE  IInv'
<1> DEFINE r == First(c)
           l == [caller[c] EXCEPT !.pc = "invalidate"]
<1>1. CallInv(c) /\ caller[c] \in Call /\ caller \in [Caller -> Call] /\ caller[c].pc = "write"
  BY CallTypes DEF IInv, ApprovalInv, WriteStatus
<1>2. caller[c].todo # {} /\ r \in caller[c].todo /\ r \in Filled /\ r \in Request
  BY <1>1, FirstIsOneOfThem DEF CallInv, IInv
<1>3. /\ request' = Overwritten(r, Status(c), FALSE)
      /\ UNCHANGED <<nonce, secret, message, processed, mailed, bound, record, claim, run, dispatcher>>
  BY DEF WriteStatus, outboxVars
<1>4. Status(c) \in Terminal /\ Status(c) # "CANCELLED"
  BY DEF Status, Terminal
<1>5. l \in Call /\ l.pc = "invalidate" /\ l.todo = caller[c].todo /\ l.target = caller[c].target
  BY <1>1 DEF Call
<1>6. caller' = [caller EXCEPT ![c] = l]
  BY <1>1 DEF WriteStatus, Goto
<1> HIDE DEF l, r
<1>7. /\ request' \in [Request -> ApprovalRequest]
      /\ Filled' = Filled /\ Pending' = Pending \ {r}
  BY <1>2, <1>3, <1>4, OverwritesOne DEF IInv
<1>8. TypeOK'
  BY <1>3, <1>5, <1>6, <1>7 DEF IInv, TypeOK
<1>9. Keeps /\ RequestInv'
  <2>1. TypeOK /\ RequestInv /\ \A s \in Request : record[s] # "ABSENT" => nonce[s] = "CONSUMED"
    BY DEF IInv, ApprovalInv, RequestInv
  <2> QED
    BY <1>2, <1>3, <1>4, <2>1, OverwritingKeeps
<1>10. OneAuthorization'
  BY <1>3 DEF IInv, ApprovalInv, DecisionIsSingle, OneAuthorization
<1>11. caller'[c] = l
  BY <1>1, <1>6
<1>12. First(c)' = r
  BY <1>5, <1>11 DEF First, r
<1>13. CallInv(c)'
  BY <1>1, <1>2, <1>3, <1>5, <1>7, <1>11, <1>12 DEF CallInv, Deciding
<1> QED
  BY <1>1, <1>3, <1>5, <1>6, <1>8, <1>9, <1>10, <1>13, CallMoves DEF Deciding
LEMMA DoneTypes ==
  ASSUME TypeOK, NEW c \in Caller
  PROVE  /\ Done(c) \in Call /\ Done(c).pc = "loop" /\ Done(c).target = caller[c].target
         /\ Done(c).todo \subseteq caller[c].todo
<1>1. caller[c] \in Call
  BY CallTypes
<1> QED
  BY <1>1 DEF Done, Call

LEMMA InvalidateNonceStep ==
  ASSUME IsFiniteSet(Caller), IsFiniteSet(Dispatcher), IInv, crashes' = crashes, NEW c \in Caller,
         InvalidateNonce(c)
  PROVE  IInv'
<1> DEFINE r == First(c)
           l == IF caller[c].kind = "expire" THEN [caller[c] EXCEPT !.pc = "expireRun"] ELSE Done(c)
<1>1. CallInv(c) /\ caller[c] \in Call /\ caller \in [Caller -> Call] /\ caller[c].pc = "invalidate"
      /\ TypeOK /\ RequestInv
  BY CallTypes DEF IInv, ApprovalInv, InvalidateNonce
<1>2. caller[c].todo # {} /\ r \in caller[c].todo /\ r \in Filled /\ r \in Request
      /\ r \notin Pending
  BY <1>1, FirstIsOneOfThem DEF CallInv
<1>3. /\ nonce' = Invalidated(nonce, r) /\ bound' = bound \ {r}
      /\ UNCHANGED <<request, secret, message, processed, mailed, record, claim, run, dispatcher>>
  BY DEF InvalidateNonce, outboxVars
<1>4. /\ l \in Call /\ l.pc \in {"expireRun", "loop"} /\ l.todo \subseteq caller[c].todo
      /\ l.target = caller[c].target
  <2>1. [caller[c] EXCEPT !.pc = "expireRun"] \in Call
    BY <1>1 DEF Call
  <2> QED
    BY <1>1, <2>1, DoneTypes
<1>5. caller' = [caller EXCEPT ![c] = l]
  BY <1>1 DEF InvalidateNonce
<1> HIDE DEF l, r
<1>6. TypeOK'
  <2>1. nonce' \in [Request -> {"ABSENT", "PENDING", "CONSUMED", "INVALIDATED"}]
    BY <1>1, <1>2, <1>3, NonceTypes
  <2> QED
    BY <1>1, <1>3, <1>4, <1>5, <2>1 DEF TypeOK
<1>7. Keeps /\ RequestInv'
  <2>1. \A s \in Request : nonce[s] # "PENDING" => nonce'[s] = nonce[s]
    BY <1>1, <1>2, <1>3, NonceTypes
  <2>2. processed \subseteq Request
    BY <1>1 DEF TypeOK
  <2> QED
    BY <1>1, <1>2, <1>3, <2>1, <2>2, RowsAreSettled, WritingAroundKeeps
<1>8. OneAuthorization'
  BY <1>3 DEF IInv, ApprovalInv, DecisionIsSingle, OneAuthorization
<1>9. caller'[c] = l
  BY <1>1, <1>5
<1>10. CallInv(c)'
  <2>1. caller[c].target # 0 => /\ caller[c].target \in Filled'
                                /\ nonce'[caller[c].target] # "PENDING"
    BY <1>1, <1>7 DEF CallInv, Keeps
  <2>2. caller[c].todo \subseteq Filled'
    BY <1>1, <1>7 DEF CallInv, Keeps
  <2> QED
    BY <1>4, <1>9, <2>1, <2>2 DEF CallInv, Deciding
<1> QED
  BY <1>1, <1>3, <1>4, <1>5, <1>6, <1>7, <1>8, <1>10, CallMoves DEF Deciding

LEMMA ExpireRunStep ==
  ASSUME IsFiniteSet(Caller), IsFiniteSet(Dispatcher), IInv, crashes' = crashes, NEW c \in Caller,
         ExpireRun(c)
  PROVE  IInv'
<1> DEFINE l == Done(c)
<1>1. CallInv(c) /\ caller[c] \in Call /\ caller \in [Caller -> Call] /\ caller[c].pc = "expireRun"
      /\ TypeOK /\ RequestInv /\ OneAuthorization
  BY CallTypes DEF IInv, ApprovalInv, DecisionIsSingle, ExpireRun
<1>2. /\ UNCHANGED <<request, nonce, secret, message, processed, mailed, bound, record, claim, dispatcher>>
      /\ \/ run' = run
         \/ run.state = "AWAITING_APPROVAL" /\ run' = Moved("EXPIRED")
      /\ caller' = [caller EXCEPT ![c] = l]
  BY DEF ExpireRun, outboxVars, requestVars
<1>3. l \in Call /\ l.pc = "loop" /\ l.todo \subseteq caller[c].todo /\ l.target = caller[c].target
  BY <1>1, DoneTypes
<1> HIDE DEF l
<1>4. /\ run' \in [state: RunState, revision: Nat]
      /\ run' = run \/ run'.revision > run.revision
      /\ run' = run \/ (run'.state = "EXPIRED" /\ run.state = "AWAITING_APPROVAL")
  <2>1. "EXPIRED" \in RunState /\ run \in [state: RunState, revision: Nat]
    BY <1>1 DEF RunState, TypeOK
  <2>2. /\ Moved("EXPIRED") \in [state: RunState, revision: Nat]
        /\ Moved("EXPIRED").state = "EXPIRED"
        /\ Moved("EXPIRED").revision > run.revision
    BY <1>1, <2>1, MovedTypes
  <2> QED
    BY <1>2, <2>1, <2>2
<1>5. TypeOK'
  BY <1>1, <1>2, <1>3, <1>4 DEF TypeOK
<1>6. Keeps /\ RequestInv'
  <2>1. processed \subseteq Request
    BY <1>1 DEF TypeOK
  <2> QED
    BY <1>1, <1>2, <1>4, <2>1, RowsAreSettled, WritingAroundKeeps
<1>7. OneAuthorization'
  BY <1>1, <1>2, <1>4 DEF OneAuthorization
<1>8. caller'[c] = l
  BY <1>1, <1>2
<1>9. CallInv(c)'
  <2>1. caller[c].target # 0 => /\ caller[c].target \in Filled'
                                /\ nonce'[caller[c].target] # "PENDING"
    BY <1>1, <1>6 DEF CallInv, Keeps
  <2>2. caller[c].todo \subseteq Filled'
    BY <1>1, <1>6 DEF CallInv, Keeps
  <2> QED
    BY <1>3, <1>8, <2>1, <2>2 DEF CallInv, Deciding
<1> QED
  BY <1>1, <1>2, <1>3, <1>5, <1>6, <1>7, <1>9, CallMoves DEF Deciding

\* One call takes the nonce, and none that is deciding has it yet.
LEMMA ConsumeNonceStep ==
  ASSUME IsFiniteSet(Caller), IsFiniteSet(Dispatcher), IInv, crashes' = crashes, NEW c \in Caller,
         ConsumeNonce(c)
  PROVE  IInv'
<1> DEFINE r == caller[c].target
           l == [caller[c] EXCEPT !.pc = "checkRun"]
<1>1. CallInv(c) /\ caller[c] \in Call /\ caller \in [Caller -> Call] /\ caller[c].pc = "consume"
      /\ TypeOK /\ RequestInv
  BY CallTypes DEF IInv, ApprovalInv, ConsumeNonce
<1>2. r # 0 /\ r \in Filled /\ r \in Request
  BY <1>1, CallTypes DEF CallInv
<1>3. UNCHANGED <<request, secret, message, processed, mailed, bound, record, claim, run, dispatcher>>
  BY DEF ConsumeNonce, outboxVars
<1>4. CASE nonce[r] # "PENDING"
  <2>1. Leave(c) /\ nonce' = nonce
    BY <1>4 DEF ConsumeNonce
  <2>2. RowsStay /\ claim' \in [Request -> Claim]
    BY <1>1, <1>3, <2>1 DEF RowsStay, TypeOK
  <2> QED
    BY <1>1, <1>3, <2>1, <2>2, LeaveReads
<1>5. CASE nonce[r] = "PENDING"
  <2>1. nonce' = [nonce EXCEPT ![r] = "CONSUMED"] /\ caller' = [caller EXCEPT ![c] = l]
    BY <1>1, <1>5 DEF ConsumeNonce, Goto
  <2>2. /\ l \in Call /\ l.pc = "checkRun" /\ l.todo = caller[c].todo /\ l.target = r
    BY <1>1 DEF Call
  <2> HIDE DEF l, r
  <2>3. /\ nonce' \in [Request -> {"ABSENT", "PENDING", "CONSUMED", "INVALIDATED"}]
        /\ nonce'[r] = "CONSUMED"
        /\ \A s \in Request : nonce[s] # "PENDING" => nonce'[s] = nonce[s]
    BY <1>1, <1>2, <1>5, <2>1 DEF TypeOK
  <2>4. TypeOK'
    BY <1>1, <1>3, <2>1, <2>2, <2>3 DEF TypeOK
  <2>5. Keeps /\ RequestInv'
    <3>1. processed \subseteq Request
      BY <1>1 DEF TypeOK
    <3> QED
      BY <1>1, <1>3, <2>3, <3>1, RowsAreSettled, WritingAroundKeeps
  <2>6. OneAuthorization'
    BY <1>3 DEF IInv, ApprovalInv, DecisionIsSingle, OneAuthorization
  <2>7. caller'[c] = l
    BY <1>1, <2>1
  <2>8. CallInv(c)'
    <3>1. r \in Filled' /\ caller[c].todo \subseteq Filled'
      BY <1>1, <1>2, <2>5 DEF CallInv, Keeps
    <3> QED
      BY <1>2, <2>2, <2>3, <2>7, <3>1 DEF CallInv, Deciding
  <2> QED
    BY <1>1, <1>3, <1>5, <2>1, <2>2, <2>4, <2>5, <2>6, <2>8, CallMoves
<1> QED
  BY <1>4, <1>5
\* The next number is free, and nothing is known of it.
LEMMA CreateStep ==
  ASSUME IsFiniteSet(Caller), IsFiniteSet(Dispatcher), IInv, crashes' = crashes, NEW c \in Caller,
         Create(c)
  PROVE  IInv'
<1>1. CallInv(c) /\ caller[c] \in Call /\ caller \in [Caller -> Call] /\ caller[c].pc = "loop"
      /\ caller[c].todo = {} /\ TypeOK /\ RequestInv
  BY CallTypes DEF IInv, ApprovalInv, Create
<1>2. PICK k \in 0 .. MaxRequests : Filled = 1 .. k
  BY <1>1 DEF RequestInv
<1> DEFINE r == k + 1
           t == caller[c].target
           q == [status |-> "PENDING", failed |-> FALSE, replaces |-> t]
           m == [message[r] EXCEPT !.status = "OPEN"]
           l == IF caller[c].kind = "route" THEN Idle
                ELSE [caller[c] EXCEPT !.pc = "confirm", !.made = r]
<1>3. k \in Nat /\ r \in Nat /\ Cardinality(Filled) = k
  <2>1. k \in Nat /\ 1 \in Int /\ k \in Int
    BY <1>2, ConstantTypes
  <2>2. Cardinality(1 .. k) = IF 1 > k THEN 0 ELSE k - 1 + 1
    BY <2>1, FS_Interval
  <2> QED
    BY <1>2, <2>1, <2>2
<1>4. /\ r \in Request /\ request' = [request EXCEPT ![r] = q]
      /\ nonce' = [nonce EXCEPT ![r] = "PENDING"]
      /\ secret' = [secret EXCEPT ![r] = "PENDING"]
      /\ message' = [message EXCEPT ![r].status = "OPEN"]
      /\ caller' = [caller EXCEPT ![c] = l]
      /\ UNCHANGED <<processed, mailed, bound, record, claim, run, dispatcher>>
  <2>1. Filled = {s \in Request : request[s].status # "ABSENT"}
    BY DEF Filled
  <2>2. Cardinality({s \in Request : request[s].status # "ABSENT"}) + 1 = r
    BY <1>3, <2>1
  <2> QED
    BY <1>1, <2>2 DEF Create
<1>5. r \notin Filled /\ r \in Request /\ Filled \cup {r} = 1 .. r /\ r \in 0 .. MaxRequests
  BY <1>2, <1>3, <1>4 DEF Request
<1>6. t \in Request \cup {0} /\ q \in ApprovalRequest /\ q.status = "PENDING" /\ q.replaces = t
  BY <1>1, CallTypes DEF ApprovalRequest
<1>7. message' = [message EXCEPT ![r] = m] /\ m \in Message /\ m.status = "OPEN"
  BY <1>1, <1>4 DEF TypeOK, Message
<1>8. /\ l \in Call /\ l.pc \notin Deciding
      /\ l = Idle \/ (l.pc = "confirm" /\ l.todo = {} /\ l.target = t)
  BY <1>1, <1>4, RestTypes DEF Call, Deciding
<1> HIDE DEF r, q, m, l
<1>9. /\ request' \in [Request -> ApprovalRequest] /\ request'[r] = q
      /\ \A s \in Request \ {r} : /\ request'[s] = request[s] /\ nonce'[s] = nonce[s]
                                  /\ secret'[s] = secret[s] /\ message'[s] = message[s]
      /\ nonce'[r] = "PENDING" /\ message'[r] = m
  BY <1>1, <1>4, <1>6, <1>7 DEF TypeOK
<1>10. Filled' = Filled \cup {r} /\ Pending' = Pending \cup {r} /\ Filled \subseteq Request
  BY <1>5, <1>6, <1>9 DEF Filled, Pending
<1>11. TypeOK'
  <2>1. /\ nonce' \in [Request -> {"ABSENT", "PENDING", "CONSUMED", "INVALIDATED"}]
        /\ secret' \in [Request -> {"ABSENT", "PENDING", "DELIVERED", "INVALIDATED"}]
        /\ message' \in [Request -> Message]
        /\ caller' \in [Caller -> Call]
    BY <1>1, <1>4, <1>7, <1>8 DEF TypeOK
  <2> QED
    BY <1>1, <1>4, <1>9, <2>1 DEF TypeOK
<1>12. \A s \in Filled : s \in Request \ {r}
  BY <1>5, <1>10
<1>13. \A s \in Filled : Settled(s) <=> Settled(s)'
  BY <1>4, <1>10, <1>12 DEF Settled
<1>14. Keeps
  BY <1>4, <1>9, <1>10, <1>12, <1>13 DEF Keeps
<1>15. ASSUME NEW s \in Request
       PROVE  /\ s \notin Filled' => nonce'[s] = "ABSENT" /\ message'[s].status = "ABSENT"
              /\ request'[s].status = "CANCELLED" => nonce'[s] # "PENDING"
              /\ request'[s].replaces # 0 =>
                   request'[s].replaces \in Filled' /\ nonce'[request'[s].replaces] # "PENDING"
              /\ record'[s] # "ABSENT" => nonce'[s] = "CONSUMED"
              /\ s \in processed' => Settled(s)'
              /\ message'[s].status = "DELIVERED" => Settled(s)'
  <2>1. CASE s = r
    <3>1. t # 0 => t \in Filled /\ nonce[t] # "PENDING"
      BY <1>1 DEF CallInv
    <3>2. t # 0 => t \in Filled' /\ nonce'[t] # "PENDING"
      BY <1>9, <1>10, <1>12, <3>1
    <3>3. nonce[r] = "ABSENT" /\ record[r] = "ABSENT" /\ r \notin processed
      BY <1>1, <1>5 DEF RequestInv, Settled
    <3> QED
      BY <1>4, <1>6, <1>7, <1>9, <1>10, <2>1, <3>2, <3>3
  <2>2. CASE s # r
    <3>1. s \notin Filled' => nonce'[s] = "ABSENT" /\ message'[s].status = "ABSENT"
      BY <1>1, <1>9, <1>10, <2>2 DEF RequestInv
    <3>2. /\ request'[s].status = "CANCELLED" => nonce'[s] # "PENDING"
          /\ record'[s] # "ABSENT" => nonce'[s] = "CONSUMED"
      BY <1>1, <1>4, <1>9, <2>2 DEF RequestInv
    <3>3. request'[s].replaces # 0 =>
            request'[s].replaces \in Filled' /\ nonce'[request'[s].replaces] # "PENDING"
      <4>1. request[s].replaces # 0 =>
              request[s].replaces \in Filled /\ nonce[request[s].replaces] # "PENDING"
        BY <1>1 DEF RequestInv
      <4> QED
        BY <1>9, <1>10, <1>12, <2>2, <4>1
    <3>4. (s \in processed' => Settled(s)') /\ (message'[s].status = "DELIVERED" => Settled(s)')
      <4>1. (s \in processed => Settled(s)) /\ (message[s].status = "DELIVERED" => Settled(s))
        BY <1>1 DEF RequestInv
      <4>2. Settled(s) => Settled(s)'
        BY <1>13 DEF Settled
      <4> QED
        BY <1>4, <1>9, <2>2, <4>1, <4>2
    <3> QED
      BY <3>1, <3>2, <3>3, <3>4
  <2> QED
    BY <2>1, <2>2
<1>16. RequestInv'
  <2>1. \E n \in 0 .. MaxRequests : Filled' = 1 .. n
    BY <1>5, <1>10
  <2> QED
    BY <1>15, <2>1 DEF RequestInv
<1>17. OneAuthorization'
  BY <1>4 DEF IInv, ApprovalInv, DecisionIsSingle, OneAuthorization
<1>18. caller'[c] = l
  BY <1>1, <1>4
<1>19. l = Idle \/ CallInv(c)'
  <2>1. t # 0 => t \in Filled'
    BY <1>1, <1>10 DEF CallInv
  <2> QED
    BY <1>8, <1>18, <2>1 DEF CallInv, Deciding
<1> QED
  BY <1>1, <1>4, <1>8, <1>11, <1>14, <1>16, <1>17, <1>19, CallMoves
\* The run still is what the call has seen: no decision was made on it.
LEMMA DecideCommitStep ==
  ASSUME IsFiniteSet(Caller), IsFiniteSet(Dispatcher), IInv, crashes' = crashes, NEW c \in Caller,
         DecideCommit(c)
  PROVE  IInv'
<1> DEFINE r        == caller[c].target
           decision == caller[c].decision
<1>1. CallInv(c) /\ caller[c] \in Call /\ caller \in [Caller -> Call] /\ caller[c].pc = "decided"
      /\ TypeOK /\ RequestInv /\ OneAuthorization
  BY CallTypes DEF IInv, ApprovalInv, DecisionIsSingle, DecideCommit
<1>2. /\ r # 0 /\ r \in Filled /\ r \in Request /\ nonce[r] = "CONSUMED"
      /\ SameRun(c) => run.state = "AWAITING_APPROVAL"
      /\ decision \in Decision
  BY <1>1, CallTypes DEF CallInv, Deciding
<1>3. UNCHANGED <<nonce, secret, message, processed, mailed, claim, dispatcher>> /\ Leave(c)
  BY DEF DecideCommit, outboxVars
<1>4. CASE ~SameRun(c)
  <2>1. RowsStay /\ claim' \in [Request -> Claim]
    BY <1>1, <1>3, <1>4 DEF RowsStay, TypeOK, DecideCommit
  <2> QED
    BY <1>1, <1>3, <2>1, LeaveReads
<1>5. CASE SameRun(c)
  <2>1. /\ record' = [record EXCEPT ![r] = decision]
        /\ request' = Overwritten(r, decision, FALSE)
        /\ run' = Moved(RunAfter(decision))
        /\ bound' = bound \ {r}
    BY <1>5 DEF DecideCommit
  <2>2. /\ decision \in Terminal /\ decision # "CANCELLED" /\ decision # "ABSENT"
        /\ RunAfter(decision) \in RunState
        /\ RunAfter(decision) = "APPROVED" <=> decision = "APPROVED"
    BY <1>2, ConstantTypes DEF Terminal, RunAfter, RunState
  <2>3. run.state = "AWAITING_APPROVAL"
    BY <1>2, <1>5
  <2> HIDE DEF r, decision
  <2>4. /\ run' \in [state: RunState, revision: Nat]
        /\ run'.state = RunAfter(decision)
        /\ run'.revision > run.revision
    BY <1>1, <2>1, <2>2, MovedTypes
  <2>5. /\ record' \in [Request -> {"ABSENT"} \cup Decision]
        /\ record'[r] = decision
        /\ \A s \in Request \ {r} : record'[s] = record[s]
    BY <1>1, <1>2, <2>1 DEF TypeOK
  <2>6. request' \in [Request -> ApprovalRequest]
    BY <1>1, <1>2, <2>1, <2>2, OverwritesOne
  <2>7. TypeOK'
    BY <1>1, <1>3, <2>1, <2>4, <2>5, <2>6, RestTypes DEF TypeOK, Leave
  <2>8. Keeps /\ RequestInv'
    <3>1. \A s \in Request : record'[s] # "ABSENT" => nonce'[s] = "CONSUMED"
      BY <1>1, <1>2, <1>3, <2>5 DEF RequestInv
    <3> QED
      BY <1>1, <1>2, <1>3, <2>1, <2>2, <2>4, <3>1, OverwritingKeeps
  <2>9. OneAuthorization'
    <3>1. \A s \in Request : record[s] # "APPROVED"
      BY <1>1, <2>3 DEF OneAuthorization
    <3> QED
      BY <1>2, <2>2, <2>4, <2>5, <3>1 DEF OneAuthorization
  <2> QED
    BY <1>1, <1>3, <2>7, <2>8, <2>9, RestTypes, CallMoves DEF Leave, Deciding
<1> QED
  BY <1>4, <1>5

LEMMA CancelOldStep ==
  ASSUME IsFiniteSet(Caller), IsFiniteSet(Dispatcher), IInv, crashes' = crashes, NEW c \in Caller,
         CancelOld(c)
  PROVE  IInv'
<1> DEFINE r == caller[c].target
           l == [caller[c] EXCEPT !.pc = "findLive"]
<1>1. CallInv(c) /\ caller[c] \in Call /\ caller \in [Caller -> Call] /\ caller[c].pc = "cancelOld"
      /\ TypeOK /\ RequestInv
  BY CallTypes DEF IInv, ApprovalInv, CancelOld
<1>2. r # 0 /\ r \in Filled /\ r \in Request /\ caller[c].failed \in BOOLEAN
  BY <1>1, CallTypes DEF CallInv
<1>3. /\ nonce' = Invalidated(nonce, r) /\ secret' = Invalidated(secret, r)
      /\ request' = Overwritten(r, "CANCELLED", caller[c].failed)
      /\ bound' = bound \ {r}
      /\ caller' = [caller EXCEPT ![c] = l]
      /\ UNCHANGED <<message, processed, mailed, record, claim, run, dispatcher>>
  BY <1>1 DEF CancelOld, outboxVars, Goto
<1>4. l \in Call /\ l.pc = "findLive" /\ l.todo = caller[c].todo /\ l.target = r
  BY <1>1 DEF Call
<1>5. "CANCELLED" \in Terminal
  BY DEF Terminal
<1> HIDE DEF r, l
<1>6. /\ request' \in [Request -> ApprovalRequest]
      /\ Filled' = Filled /\ Pending' = Pending \ {r}
  BY <1>1, <1>2, <1>3, <1>5, OverwritesOne
<1>7. /\ nonce' \in [Request -> {"ABSENT", "PENDING", "CONSUMED", "INVALIDATED"}]
      /\ secret' \in [Request -> {"ABSENT", "PENDING", "DELIVERED", "INVALIDATED"}]
      /\ \A s \in Request : nonce[s] # "PENDING" => nonce'[s] = nonce[s]
      /\ \A s \in Request : nonce[s] = "ABSENT" <=> nonce'[s] = "ABSENT"
      /\ \A s \in Request : secret[s] = "DELIVERED" => secret'[s] = "DELIVERED"
      /\ nonce'[r] # "PENDING"
  BY <1>1, <1>2, <1>3, NonceTypes
<1>8. TypeOK'
  BY <1>1, <1>3, <1>4, <1>6, <1>7 DEF TypeOK
<1>9. Keeps /\ RequestInv'
  <2>1. \A s \in Request : record'[s] # "ABSENT" => nonce'[s] = "CONSUMED"
    BY <1>1, <1>3, <1>7 DEF RequestInv
  <2> QED
    BY <1>1, <1>2, <1>3, <1>5, <1>7, <2>1, OverwritingKeeps
<1>10. OneAuthorization'
  BY <1>3 DEF IInv, ApprovalInv, DecisionIsSingle, OneAuthorization
<1>11. caller'[c] = l
  BY <1>1, <1>3
<1>12. CallInv(c)'
  <2>1. r \in Filled' /\ caller[c].todo \subseteq Filled'
    BY <1>1, <1>2, <1>6 DEF CallInv
  <2> QED
    BY <1>4, <1>7, <1>11, <2>1 DEF CallInv, Deciding
<1> QED
  BY <1>1, <1>3, <1>4, <1>8, <1>9, <1>10, <1>12, CallMoves DEF Deciding

LEMMA CallSteps ==
  ASSUME IsFiniteSet(Caller), IsFiniteSet(Dispatcher), IInv, crashes' = crashes, NEW c \in Caller,
         CallStep(c)
  PROVE  IInv'
<1>1. CASE Route(c) \/ ListPending(c) \/ ReadStatus(c) \/ Expire(c) \/ SweepEnds(c)
  BY <1>1, RouteAndSweepRead
<1>2. CASE CheckRun(c) \/ DecideRead(c) \/ \E r \in Request : Decide(c, r)
  BY <1>2, DecideReads
<1>3. CASE \/ ClaimReissue(c) \/ ClearClaim(c) \/ InsertClaim(c) \/ Proceed(c) \/ ReadOld(c)
           \/ FindLive(c) \/ Confirm(c) \/ CompleteReissue(c) \/ FailReissue(c)
           \/ \E r \in Request : Reissue(c, r)
  BY <1>3, ReissueReads
<1>4. CASE WriteStatus(c) \/ InvalidateNonce(c) \/ Create(c) \/ ExpireRun(c)
  BY <1>4, WriteStatusStep, InvalidateNonceStep, CreateStep, ExpireRunStep
<1>5. CASE ConsumeNonce(c) \/ DecideCommit(c) \/ CancelOld(c)
  BY <1>5, ConsumeNonceStep, DecideCommitStep, CancelOldStep
<1> QED
  BY <1>1, <1>2, <1>3, <1>4, <1>5 DEF CallStep
(***************************************************************************)
(* Dispatchers                                                             *)
(***************************************************************************)

Within == {"check", "reveal", "deliver", "secret", "cancel", "cancelled", "inboxFailed",
           "register", "inboxDone", "markDelivered", "markFailed"}

\* A dispatcher goes on with its message.
LEMMA StepMoves ==
  ASSUME IsFiniteSet(Caller), IsFiniteSet(Dispatcher), IInv, TypeOK', Keeps,
         RequestInv', OneAuthorization', NEW d \in Dispatcher, NEW pc \in Within, Step(d, pc),
         caller' = caller, crashes' = crashes,
         NEW r, r = dispatcher[d].current, dispatcher[d].pc \notin {"idle", "receive"},
         pc \in {"inboxDone", "inboxFailed", "markDelivered"} => Settled(r)',
         pc \in {"secret", "register"} => r \in mailed',
         pc = "register" => secret'[r] = "DELIVERED"
  PROVE  IInv'
<1> DEFINE l == [dispatcher[d] EXCEPT !.pc = pc]
<1>1. DispatcherInv(d) /\ dispatcher[d] \in Dispatch /\ dispatcher \in [Dispatcher -> Dispatch]
  BY DispatcherTypes DEF IInv, ApprovalInv
<1>2. l \in Dispatch /\ l.pc = pc /\ l.batch = dispatcher[d].batch /\ l.current = r
  BY <1>1 DEF Dispatch, Within
<1>3. dispatcher' = [dispatcher EXCEPT ![d] = l]
  BY <1>1 DEF Step
<1> HIDE DEF l
<1>4. dispatcher'[d] = l
  BY <1>1, <1>3
<1>5. r \in Filled' /\ dispatcher[d].batch \subseteq Filled'
  BY <1>1 DEF DispatcherInv, Keeps
<1>6. DispatcherInv(d)'
  BY <1>2, <1>4, <1>5 DEF DispatcherInv, Within, Settled
<1> QED
  BY <1>2, <1>3, <1>6, DispatcherMoves

LEMMA StepReads ==
  ASSUME IsFiniteSet(Caller), IsFiniteSet(Dispatcher), IInv, RowsStay, claim' = claim,
         NEW d \in Dispatcher, NEW pc \in Within \ {"secret", "register"}, Step(d, pc),
         caller' = caller, crashes' = crashes,
         NEW r, r = dispatcher[d].current, dispatcher[d].pc \notin {"idle", "receive"},
         pc \in {"inboxDone", "inboxFailed", "markDelivered"} => Settled(r)
  PROVE  IInv'
<1> DEFINE l == [dispatcher[d] EXCEPT !.pc = pc]
<1>1. dispatcher[d] \in Dispatch /\ dispatcher \in [Dispatcher -> Dispatch]
  BY DispatcherTypes DEF IInv
<1>2. l \in Dispatch
  BY <1>1 DEF Dispatch, Within
<1>3. dispatcher' = [dispatcher EXCEPT ![d] = l]
  BY <1>1 DEF Step
<1>4. TypeOK'
  BY <1>1, <1>2, <1>3 DEF IInv, TypeOK, RowsStay
<1>5. Keeps /\ RequestInv' /\ OneAuthorization' /\ Filled' = Filled /\ Pending' = Pending
  BY StayingKeeps DEF IInv, ApprovalInv, DecisionIsSingle
<1>6. pc \in {"inboxDone", "inboxFailed", "markDelivered"} => Settled(r)'
  BY <1>5 DEF Settled, RowsStay
<1> QED
  BY <1>4, <1>5, <1>6, StepMoves

LEMMA MessageReads ==
  ASSUME IsFiniteSet(Caller), IsFiniteSet(Dispatcher), IInv, crashes' = crashes,
         NEW d \in Dispatcher,
         Receive(d) \/ CheckPending(d) \/ Reveal(d) \/ CancelRead(d)
  PROVE  IInv'
<1>1. RowsStay /\ claim' = claim /\ caller' = caller
  BY DEF Receive, CheckPending, Reveal, CancelRead, RowsStay, requestVars, outboxVars
<1>2. DispatcherInv(d) /\ dispatcher[d] \in Dispatch /\ dispatcher \in [Dispatcher -> Dispatch]
      /\ TypeOK /\ RequestInv
  BY DispatcherTypes DEF IInv, ApprovalInv
<1>3. PICK r : r = dispatcher[d].current
  OBVIOUS
<1>4. ASSUME NEW s \in dispatcher[d].batch, Receive(d),
             dispatcher' = [dispatcher EXCEPT ![d] =
               [@ EXCEPT !.current = s, !.batch = dispatcher[d].batch \ {s},
                         !.pc = IF s \in processed THEN "markDelivered" ELSE "check"]]
      PROVE  IInv'
  <2> DEFINE l == [dispatcher[d] EXCEPT !.current = s, !.batch = dispatcher[d].batch \ {s},
                                        !.pc = IF s \in processed THEN "markDelivered" ELSE "check"]
  <2>1. s \in Request /\ s \in Filled /\ dispatcher[d].batch \subseteq Filled
    BY <1>2, DispatcherTypes DEF DispatcherInv
  <2>2. /\ l \in Dispatch /\ l.pc = (IF s \in processed THEN "markDelivered" ELSE "check")
        /\ l.batch \subseteq dispatcher[d].batch /\ l.current = s
    BY <1>2, <2>1 DEF Dispatch
  <2>3. dispatcher' = [dispatcher EXCEPT ![d] = l]
    BY <1>2, <1>4
  <2> HIDE DEF l
  <2>4. dispatcher'[d] = l
    BY <1>2, <2>3
  <2>5. s \in processed => Settled(s)'
    BY <1>1, <1>2, <2>1, StayingKeeps DEF RequestInv, Keeps
  <2>6. DispatcherInv(d)'
    BY <1>1, <2>1, <2>2, <2>4, <2>5, StayingKeeps DEF DispatcherInv, Settled
  <2> QED
    BY <1>1, <1>4, <2>2, <2>3, <2>6, DispatcherReads DEF Receive
<1>5. CASE CheckPending(d)
  <2>1. dispatcher[d].pc = "check" /\ r \in Filled
    BY <1>2, <1>3, <1>5 DEF CheckPending, DispatcherInv
  <2>2. "reveal" \in Within \ {"secret", "register"} /\ "markDelivered" \in Within \ {"secret", "register"}
    BY DEF Within
  <2>3. CASE r \in Pending
    BY <1>1, <1>3, <1>5, <2>1, <2>2, <2>3, StepReads DEF CheckPending
  <2>4. CASE r \notin Pending
    <3>1. Settled(r) /\ Step(d, "markDelivered")
      BY <1>3, <1>5, <2>1, <2>4 DEF Settled, CheckPending
    <3> QED
      BY <1>1, <1>3, <2>1, <2>2, <3>1, StepReads
  <2> QED
    BY <2>3, <2>4
<1>6. CASE Reveal(d)
  <2>1. dispatcher[d].pc = "reveal" /\ (Step(d, "deliver") \/ Step(d, "markFailed"))
    BY <1>6 DEF Reveal
  <2>2. "deliver" \in Within \ {"secret", "register"} /\ "markFailed" \in Within \ {"secret", "register"}
    BY DEF Within
  <2> QED
    BY <1>1, <1>3, <2>1, <2>2, StepReads
<1>7. CASE CancelRead(d)
  <2>1. dispatcher[d].pc = "cancel" /\ (Step(d, "cancelled") \/ Step(d, "markFailed"))
    BY <1>7 DEF CancelRead
  <2>2. "cancelled" \in Within \ {"secret", "register"} /\ "markFailed" \in Within \ {"secret", "register"}
    BY DEF Within
  <2> QED
    BY <1>1, <1>3, <2>1, <2>2, StepReads
<1> QED
  BY <1>4, <1>5, <1>6, <1>7 DEF Receive
LEMMA DeliverStep ==
  ASSUME IsFiniteSet(Caller), IsFiniteSet(Dispatcher), IInv, crashes' = crashes,
         NEW d \in Dispatcher, Deliver(d)
  PROVE  IInv'
<1>1. PICK r : r = dispatcher[d].current
  OBVIOUS
<1>2. /\ dispatcher[d].pc = "deliver"
      /\ UNCHANGED <<request, nonce, secret, message, processed, bound, record, claim, run, caller>>
  BY DEF Deliver, requestVars
<1>3. DispatcherInv(d) /\ TypeOK /\ RequestInv /\ r \in Request
  BY <1>1, <1>2 DEF IInv, ApprovalInv, DispatcherInv, Deliver, Filled
<1>4. PICK pc \in {"secret", "cancel"} :
        /\ Step(d, pc)
        /\ mailed \subseteq mailed' /\ mailed' \subseteq mailed \cup {r}
        /\ pc = "secret" => r \in mailed'
  <2>1. CASE mailed' = mailed \cup {r} /\ Step(d, "secret")
    BY <2>1
  <2>2. CASE mailed' \in {mailed, mailed \cup {r}} /\ Step(d, "cancel")
    BY <2>2
  <2> QED
    BY <1>1, <2>1, <2>2 DEF Deliver
<1>5. pc \in Within
  BY <1>4 DEF Within
<1>6. TypeOK'
  <2>1. mailed' \in SUBSET Request
    BY <1>3, <1>4 DEF TypeOK
  <2>2. dispatcher' \in [Dispatcher -> Dispatch]
    BY <1>3, <1>4, <1>5 DEF Step, Within, TypeOK, Dispatch
  <2> QED
    BY <1>2, <1>3, <2>1, <2>2 DEF TypeOK, IInv
<1>7. Keeps /\ RequestInv'
  <2>1. processed \subseteq Request
    BY <1>3 DEF TypeOK
  <2> QED
    BY <1>2, <1>3, <1>4, <2>1, RowsAreSettled, WritingAroundKeeps
<1>8. OneAuthorization'
  BY <1>2 DEF IInv, ApprovalInv, DecisionIsSingle, OneAuthorization
<1> QED
  BY <1>1, <1>2, <1>4, <1>5, <1>6, <1>7, <1>8, StepMoves

LEMMA MarkSecretStep ==
  ASSUME IsFiniteSet(Caller), IsFiniteSet(Dispatcher), IInv, crashes' = crashes,
         NEW d \in Dispatcher, MarkSecret(d)
  PROVE  IInv'
<1>1. PICK r : r = dispatcher[d].current
  OBVIOUS
<1>2. /\ dispatcher[d].pc = "secret"
      /\ UNCHANGED <<request, nonce, message, processed, mailed, bound, record, claim, run, caller>>
  BY DEF MarkSecret, outboxVars
<1>3. DispatcherInv(d) /\ TypeOK /\ RequestInv /\ r \in Request /\ r \in mailed
  BY <1>1, <1>2 DEF IInv, ApprovalInv, DispatcherInv, Filled
<1>4. PICK pc \in {"register", "cancel"} :
        /\ Step(d, pc)
        /\ secret' \in [Request -> {"ABSENT", "PENDING", "DELIVERED", "INVALIDATED"}]
        /\ \A s \in Request : secret[s] = "DELIVERED" => secret'[s] = "DELIVERED"
        /\ pc = "register" => secret'[r] = "DELIVERED"
  <2>1. CASE secret[r] = "PENDING"
    <3>1. secret' = [secret EXCEPT ![r] = "DELIVERED"] /\ Step(d, "register")
      BY <1>1, <2>1 DEF MarkSecret
    <3> QED
      BY <1>3, <3>1 DEF TypeOK
  <2>2. CASE secret[r] # "PENDING"
    <3>1. secret' = secret /\ Step(d, "cancel")
      BY <1>1, <2>2 DEF MarkSecret
    <3> QED
      BY <1>3, <3>1 DEF TypeOK
  <2> QED
    BY <2>1, <2>2
<1>5. pc \in Within
  BY <1>4 DEF Within
<1>6. TypeOK'
  <2>1. dispatcher' \in [Dispatcher -> Dispatch]
    BY <1>3, <1>4, <1>5 DEF Step, Within, TypeOK, Dispatch
  <2> QED
    BY <1>2, <1>3, <1>4, <2>1 DEF TypeOK, IInv
<1>7. Keeps /\ RequestInv'
  <2>1. processed \subseteq Request
    BY <1>3 DEF TypeOK
  <2> QED
    BY <1>2, <1>3, <1>4, <2>1, RowsAreSettled, WritingAroundKeeps
<1>8. OneAuthorization'
  BY <1>2 DEF IInv, ApprovalInv, DecisionIsSingle, OneAuthorization
<1> QED
  BY <1>1, <1>2, <1>3, <1>4, <1>5, <1>6, <1>7, <1>8, StepMoves

LEMMA CancelCommitStep ==
  ASSUME IsFiniteSet(Caller), IsFiniteSet(Dispatcher), IInv, crashes' = crashes,
         NEW d \in Dispatcher, CancelCommit(d)
  PROVE  IInv'
<1>1. PICK r : r = dispatcher[d].current
  OBVIOUS
<1>2. /\ dispatcher[d].pc = "cancelled"
      /\ request' = Overwritten(r, "CANCELLED", TRUE)
      /\ nonce' = Invalidated(nonce, r) /\ secret' = Invalidated(secret, r)
      /\ bound' = bound \ {r}
      /\ Step(d, "inboxFailed")
      /\ UNCHANGED <<message, processed, mailed, record, claim, run, caller>>
  BY <1>1 DEF CancelCommit, outboxVars
<1>3. DispatcherInv(d) /\ TypeOK /\ RequestInv /\ r \in Filled /\ r \in Request
  BY <1>1, <1>2 DEF IInv, ApprovalInv, DispatcherInv, Filled
<1>4. "CANCELLED" \in Terminal /\ TRUE \in BOOLEAN /\ "inboxFailed" \in Within
  BY DEF Terminal, Within
<1>5. /\ request' \in [Request -> ApprovalRequest]
      /\ Filled' = Filled /\ Pending' = Pending \ {r}
  BY <1>2, <1>3, <1>4, OverwritesOne
<1>6. /\ nonce' \in [Request -> {"ABSENT", "PENDING", "CONSUMED", "INVALIDATED"}]
      /\ secret' \in [Request -> {"ABSENT", "PENDING", "DELIVERED", "INVALIDATED"}]
      /\ \A s \in Request : nonce[s] # "PENDING" => nonce'[s] = nonce[s]
      /\ \A s \in Request : nonce[s] = "ABSENT" <=> nonce'[s] = "ABSENT"
      /\ \A s \in Request : secret[s] = "DELIVERED" => secret'[s] = "DELIVERED"
      /\ nonce'[r] # "PENDING"
  BY <1>2, <1>3, NonceTypes
<1>7. TypeOK'
  <2>1. dispatcher' \in [Dispatcher -> Dispatch]
    BY <1>2, <1>3 DEF Step, TypeOK, Dispatch
  <2> QED
    BY <1>2, <1>3, <1>5, <1>6, <2>1 DEF TypeOK, IInv
<1>8. Keeps /\ RequestInv'
  <2>1. \A s \in Request : record'[s] # "ABSENT" => nonce'[s] = "CONSUMED"
    BY <1>2, <1>3, <1>6 DEF RequestInv
  <2> QED
    BY <1>2, <1>3, <1>4, <1>6, <2>1, OverwritingKeeps
<1>9. OneAuthorization'
  BY <1>2 DEF IInv, ApprovalInv, DecisionIsSingle, OneAuthorization
<1>10. Settled(r)'
  BY <1>3, <1>5 DEF Settled
<1> QED
  BY <1>1, <1>2, <1>4, <1>7, <1>8, <1>9, <1>10, StepMoves

LEMMA CompleteInboxStep ==
  ASSUME IsFiniteSet(Caller), IsFiniteSet(Dispatcher), IInv, crashes' = crashes,
         NEW d \in Dispatcher, CompleteInbox(d)
  PROVE  IInv'
<1>1. PICK r : r = dispatcher[d].current
  OBVIOUS
<1>2. /\ dispatcher[d].pc \in {"inboxFailed", "inboxDone"}
      /\ processed' = processed \cup {r}
      /\ Step(d, "markDelivered") \/ Step(d, "markFailed")
      /\ UNCHANGED <<request, nonce, secret, message, mailed, bound, record, claim, run, caller>>
  BY <1>1 DEF CompleteInbox, requestVars
<1>3. DispatcherInv(d) /\ TypeOK /\ RequestInv /\ r \in Filled /\ r \in Request /\ Settled(r)
  BY <1>1, <1>2 DEF IInv, ApprovalInv, DispatcherInv, Filled, Settled
<1>4. PICK pc \in {"markDelivered", "markFailed"} : Step(d, pc)
  BY <1>2
<1>5. pc \in Within
  BY <1>4 DEF Within
<1>6. TypeOK'
  <2>1. dispatcher' \in [Dispatcher -> Dispatch]
    BY <1>3, <1>4, <1>5 DEF Step, Within, TypeOK, Dispatch
  <2>2. processed' \in SUBSET Request
    BY <1>2, <1>3 DEF TypeOK
  <2> QED
    BY <1>2, <1>3, <2>1, <2>2 DEF TypeOK, IInv
<1>7. Keeps /\ RequestInv'
  <2>1. \A s \in processed' : s \in Request /\ s \in Filled /\ Settled(s)
    BY <1>2, <1>3, RowsAreSettled DEF TypeOK
  <2> QED
    BY <1>2, <1>3, <2>1, RowsAreSettled, WritingAroundKeeps
<1>8. OneAuthorization'
  BY <1>2 DEF IInv, ApprovalInv, DecisionIsSingle, OneAuthorization
<1>9. Settled(r)'
  BY <1>3, <1>7 DEF Keeps
<1> QED
  BY <1>1, <1>2, <1>4, <1>5, <1>6, <1>7, <1>8, <1>9, StepMoves
\* The request is bound, the run is to be moved, or neither may happen any more.
LEMMA RegisterStep ==
  ASSUME IsFiniteSet(Caller), IsFiniteSet(Dispatcher), IInv, crashes' = crashes,
         NEW d \in Dispatcher, Register(d)
  PROVE  IInv'
<1>1. PICK r : r = dispatcher[d].current
  OBVIOUS
<1>2. /\ dispatcher[d].pc = "register"
      /\ UNCHANGED <<request, nonce, secret, message, processed, mailed, record, claim, run, caller>>
  BY DEF Register, requestVars, outboxVars
<1>3. DispatcherInv(d) /\ TypeOK /\ RequestInv /\ r \in Filled /\ r \in Request /\ r \in mailed
      /\ secret[r] = "DELIVERED"
  BY <1>1, <1>2 DEF IInv, ApprovalInv, DispatcherInv, Filled
<1>4. dispatcher[d] \in Dispatch /\ dispatcher \in [Dispatcher -> Dispatch]
  BY <1>3, DispatcherTypes
<1>5. OneAuthorization'
  BY <1>2 DEF IInv, ApprovalInv, DecisionIsSingle, OneAuthorization
<1>6. "inboxDone" \in Within /\ "markFailed" \in Within \ {"secret", "register"}
  BY DEF Within
<1>7. ASSUME bound \subseteq bound', bound' \subseteq bound \cup {r}, Step(d, "inboxDone"),
             r \in Pending => r \in bound'
      PROVE  IInv'
  <2>1. TypeOK'
    <3>1. dispatcher' \in [Dispatcher -> Dispatch]
      BY <1>4, <1>7 DEF Step, Dispatch
    <3>2. bound' \in SUBSET Request
      BY <1>3, <1>7 DEF TypeOK
    <3> QED
      BY <1>2, <1>3, <3>1, <3>2 DEF TypeOK, IInv
  <2>2. Keeps /\ RequestInv'
    <3>1. processed \subseteq Request
      BY <1>3 DEF TypeOK
    <3> QED
      BY <1>2, <1>3, <1>7, <3>1, RowsAreSettled, WritingAroundKeeps
  <2>3. Settled(r)'
    BY <1>2, <1>3, <1>7 DEF Settled, Filled, Pending
  <2> QED
    BY <1>1, <1>2, <1>5, <1>6, <1>7, <2>1, <2>2, <2>3, StepMoves
<1>8. CASE r \notin Pending \/ run.state = "AWAITING_APPROVAL"
  <2>1. Step(d, "inboxDone")
    BY <1>1, <1>8 DEF Register
  <2>2. /\ r \notin Pending => bound' = bound
        /\ r \in Pending => bound' = bound \cup {r}
    BY <1>1, <1>8 DEF Register
  <2> QED
    BY <1>7, <2>1, <2>2
<1>9. CASE r \in Pending /\ run.state \in {"VALIDATING", "ESCALATED"}
  <2> DEFINE l == [dispatcher[d] EXCEPT !.pc = "await", !.revision = run.revision]
  <2>1. run.revision \in Nat
    BY <1>3 DEF TypeOK
  <2>2. /\ l \in Dispatch /\ l.pc = "await" /\ l.batch = dispatcher[d].batch /\ l.current = r
        /\ l.revision = run.revision
    BY <1>1, <1>4, <2>1 DEF Dispatch
  <2>3. dispatcher' = [dispatcher EXCEPT ![d] = l] /\ bound' = bound
    BY <1>1, <1>4, <1>9 DEF Register
  <2> HIDE DEF l
  <2>4. dispatcher'[d] = l /\ RowsStay /\ claim' = claim
    BY <1>2, <1>4, <2>3 DEF RowsStay
  <2>5. DispatcherInv(d)'
    BY <1>2, <1>3, <1>9, <2>1, <2>2, <2>4, StayingKeeps DEF DispatcherInv, SameRunAs
  <2> QED
    BY <1>2, <2>2, <2>3, <2>4, <2>5, DispatcherReads
<1>10. CASE r \in Pending /\ run.state \notin {"AWAITING_APPROVAL", "VALIDATING", "ESCALATED"}
  <2>1. Step(d, "markFailed") /\ bound' = bound
    BY <1>1, <1>10 DEF Register
  <2>2. RowsStay /\ claim' = claim
    BY <1>2, <2>1 DEF RowsStay
  <2> QED
    BY <1>1, <1>2, <1>6, <2>1, <2>2, StepReads
<1> QED
  BY <1>8, <1>9, <1>10

LEMMA AwaitApprovalStep ==
  ASSUME IsFiniteSet(Caller), IsFiniteSet(Dispatcher), IInv, crashes' = crashes,
         NEW d \in Dispatcher, AwaitApproval(d)
  PROVE  IInv'
<1>1. PICK r : r = dispatcher[d].current
  OBVIOUS
<1>2. /\ dispatcher[d].pc = "await"
      /\ UNCHANGED <<request, nonce, secret, message, processed, mailed, record, claim, caller>>
  BY DEF AwaitApproval, requestVars, outboxVars
<1>3. DispatcherInv(d) /\ TypeOK /\ RequestInv /\ r \in Filled /\ r \in Request
      /\ OneAuthorization
  BY <1>1, <1>2 DEF IInv, ApprovalInv, DecisionIsSingle, DispatcherInv, Filled
<1>4. "inboxDone" \in Within /\ "markFailed" \in Within \ {"secret", "register"}
  BY DEF Within
<1>5. CASE ~SameRunAs(d)
  <2>1. Step(d, "markFailed") /\ run' = run /\ bound' = bound
    BY <1>5 DEF AwaitApproval
  <2>2. RowsStay /\ claim' = claim
    BY <1>2, <2>1 DEF RowsStay
  <2> QED
    BY <1>1, <1>2, <1>4, <2>1, <2>2, StepReads
<1>6. CASE SameRunAs(d)
  <2>1. /\ run' = Moved("AWAITING_APPROVAL")
        /\ bound' = bound \cup {r}
        /\ Step(d, "inboxDone")
    BY <1>1, <1>6 DEF AwaitApproval
  <2>2. run.state \in {"VALIDATING", "ESCALATED"}
    BY <1>2, <1>3, <1>6 DEF DispatcherInv
  <2>3. /\ run' \in [state: RunState, revision: Nat]
        /\ run'.state = "AWAITING_APPROVAL"
        /\ run'.revision > run.revision
    <3>1. "AWAITING_APPROVAL" \in RunState
      BY DEF RunState
    <3> QED
      BY <1>3, <2>1, <3>1, MovedTypes
  <2>4. TypeOK'
    <3>1. dispatcher' \in [Dispatcher -> Dispatch]
      BY <1>3, <2>1 DEF Step, TypeOK, Dispatch
    <3>2. bound' \in SUBSET Request
      BY <1>3, <2>1 DEF TypeOK
    <3> QED
      BY <1>2, <1>3, <2>3, <3>1, <3>2 DEF TypeOK, IInv
  <2>5. Keeps /\ RequestInv'
    <3>1. processed \subseteq Request
      BY <1>3 DEF TypeOK
    <3> QED
      BY <1>2, <1>3, <2>1, <2>3, <3>1, RowsAreSettled, WritingAroundKeeps
  <2>6. OneAuthorization'
    BY <1>2, <1>3, <2>2, <2>3 DEF OneAuthorization
  <2>7. Settled(r)'
    BY <1>2, <1>3, <2>1 DEF Settled, Filled, Pending
  <2> QED
    BY <1>1, <1>2, <1>4, <2>1, <2>4, <2>5, <2>6, <2>7, StepMoves
<1> QED
  BY <1>5, <1>6

\* A dispatcher writes its messages, and none is forgotten but what is settled.
LEMMA MessageMoves ==
  ASSUME IsFiniteSet(Caller), IsFiniteSet(Dispatcher), IInv, crashes' = crashes,
         NEW d \in Dispatcher, NEW l \in Dispatch,
         dispatcher' = [dispatcher EXCEPT ![d] = l], l.pc \in {"idle", "receive"},
         l.batch \subseteq Filled,
         dispatcher[d].pc # "idle" \/ MayStart,
         message' \in [Request -> Message],
         \A s \in Request : s \notin Filled => message'[s].status = "ABSENT",
         \A s \in Request : message'[s].status = "DELIVERED" => Settled(s),
         UNCHANGED <<request, nonce, secret, processed, mailed, bound, record, claim, run, caller>>
  PROVE  IInv'
<1>1. TypeOK /\ RequestInv /\ dispatcher \in [Dispatcher -> Dispatch]
  BY DispatcherTypes DEF IInv, ApprovalInv
<1>2. TypeOK'
  BY <1>1 DEF TypeOK, IInv
<1>3. Keeps /\ RequestInv'
  <2>1. processed \subseteq Request
    BY <1>1 DEF TypeOK
  <2> QED
    BY <1>1, <2>1, RowsAreSettled, WritingAroundKeeps
<1>4. OneAuthorization'
  BY DEF IInv, ApprovalInv, DecisionIsSingle, OneAuthorization
<1>5. dispatcher'[d] = l /\ l.batch \subseteq Filled'
  BY <1>1, <1>3 DEF Keeps
<1>6. DispatcherInv(d)'
  BY <1>5 DEF DispatcherInv
<1> QED
  BY <1>2, <1>3, <1>4, <1>6, DispatcherMoves

LEMMA ClaimAndAcknowledge ==
  ASSUME IsFiniteSet(Caller), IsFiniteSet(Dispatcher), IInv, crashes' = crashes,
         NEW d \in Dispatcher, ClaimBatch(d) \/ Acknowledge(d)
  PROVE  IInv'
<1>1. DispatcherInv(d) /\ TypeOK /\ RequestInv /\ dispatcher \in [Dispatcher -> Dispatch]
      /\ dispatcher[d] \in Dispatch /\ message \in [Request -> Message]
  BY DispatcherTypes DEF IInv, ApprovalInv, TypeOK
<1>2. /\ \A s \in Request : s \notin Filled => message[s].status = "ABSENT"
      /\ \A s \in Request : message[s].status = "DELIVERED" => Settled(s)
  BY <1>1, RowsAreSettled
<1>3. UNCHANGED <<request, nonce, secret, processed, mailed, bound, record, claim, run, caller>>
  BY DEF ClaimBatch, Acknowledge, requestVars
<1>4. CASE ClaimBatch(d)
  <2>1. PICK batch \in SUBSET Claimable :
          /\ message' = [r \in Request |->
               IF r \in batch THEN [status |-> "OPEN", owner |-> d] ELSE message[r]]
          /\ dispatcher' = [dispatcher EXCEPT ![d] = [Free EXCEPT !.pc = "receive", !.batch = batch]]
    BY <1>4 DEF ClaimBatch
  <2> DEFINE l == [Free EXCEPT !.pc = "receive", !.batch = batch]
  <2>2. batch \subseteq Request /\ batch \subseteq Filled
    BY <1>2, <2>1 DEF Claimable
  <2>3. l \in Dispatch /\ l.pc = "receive" /\ l.batch = batch
    BY <2>2, RestTypes DEF Dispatch
  <2>4. [status |-> "OPEN", owner |-> d] \in Message
    BY DEF Message
  <2>5. /\ message' \in [Request -> Message]
        /\ \A s \in Request : message'[s] = message[s]
                              \/ (s \in Filled /\ message'[s].status = "OPEN")
    BY <1>1, <2>1, <2>2, <2>4
  <2>6. dispatcher' = [dispatcher EXCEPT ![d] = l] /\ MayStart
    BY <1>4, <2>1 DEF ClaimBatch
  <2> HIDE DEF l
  <2> QED
    BY <1>2, <1>3, <2>2, <2>3, <2>5, <2>6, MessageMoves
<1>5. CASE Acknowledge(d)
  <2> DEFINE r == dispatcher[d].current
             l == [Free EXCEPT !.batch = dispatcher[d].batch,
                               !.pc = IF dispatcher[d].batch = {} THEN "idle" ELSE "receive"]
             m == [status |-> IF dispatcher[d].pc = "markDelivered" THEN "DELIVERED" ELSE "OPEN",
                   owner |-> Nobody]
  <2>1. /\ dispatcher[d].pc \in {"markDelivered", "markFailed"}
        /\ message' = message \/ message' = [message EXCEPT ![r] = m]
        /\ dispatcher' = [dispatcher EXCEPT ![d] = l]
    BY <1>5 DEF Acknowledge, Next1
  <2>2. /\ r \in Filled /\ r \in Request /\ dispatcher[d].batch \subseteq Filled
        /\ dispatcher[d].pc = "markDelivered" => Settled(r)
    BY <1>1, <2>1 DEF DispatcherInv, Filled
  <2>3. l \in Dispatch /\ l.pc \in {"idle", "receive"} /\ l.batch = dispatcher[d].batch
    BY <1>1, RestTypes, DispatcherTypes DEF Dispatch
  <2>4. m \in Message /\ (m.status = "DELIVERED" => Settled(r))
    BY <2>2 DEF Message
  <2> HIDE DEF r, l, m
  <2>5. /\ message' \in [Request -> Message]
        /\ \A s \in Request : message'[s] = message[s] \/ (s = r /\ message'[s] = m)
    BY <1>1, <2>1, <2>2, <2>4
  <2>6. /\ \A s \in Request : s \notin Filled => message'[s].status = "ABSENT"
        /\ \A s \in Request : message'[s].status = "DELIVERED" => Settled(s)
    BY <1>2, <2>2, <2>4, <2>5
  <2> QED
    BY <1>3, <2>1, <2>2, <2>3, <2>5, <2>6, MessageMoves
<1> QED
  BY <1>4, <1>5

LEMMA DispatcherSteps ==
  ASSUME IsFiniteSet(Caller), IsFiniteSet(Dispatcher), IInv, crashes' = crashes,
         NEW d \in Dispatcher, DispatcherStep(d)
  PROVE  IInv'
<1>1. CASE Receive(d) \/ CheckPending(d) \/ Reveal(d) \/ CancelRead(d)
  BY <1>1, MessageReads
<1>2. CASE Deliver(d) \/ MarkSecret(d) \/ CancelCommit(d) \/ CompleteInbox(d)
  BY <1>2, DeliverStep, MarkSecretStep, CancelCommitStep, CompleteInboxStep
<1>3. CASE Register(d) \/ AwaitApproval(d) \/ ClaimBatch(d) \/ Acknowledge(d)
  BY <1>3, RegisterStep, AwaitApprovalStep, ClaimAndAcknowledge
<1> QED
  BY <1>1, <1>2, <1>3 DEF DispatcherStep
(***************************************************************************)
(* Crashes                                                                 *)
(***************************************************************************)

\* What a crash takes from those that are busy, it adds to those cut off.
LEMMA CrashOfCall ==
  ASSUME IsFiniteSet(Caller), IsFiniteSet(Dispatcher), IInv, crashes' = crashes + 1,
         NEW c \in Caller, CrashCall(c)
  PROVE  IInv'
<1>1. /\ caller[c].pc # "idle" /\ caller' = [caller EXCEPT ![c] = Idle]
      /\ RowsStay /\ claim' = claim /\ dispatcher' = dispatcher
  BY DEF CrashCall, Leave, requestVars, outboxVars, RowsStay
<1>2. TypeOK /\ caller \in [Caller -> Call]
  BY CallTypes DEF IInv
<1>3. caller'[c] = Idle /\ \A j \in Caller \ {c} : caller'[j] = caller[j]
  BY <1>1, <1>2
<1> DEFINE S == BusyCallers
           U == BusyDispatchers
<1>4. BusyCallers' = S \ {c} /\ BusyDispatchers' = U /\ c \in S
  BY <1>1, <1>3, RestTypes DEF BusyCallers, BusyDispatchers
<1>5. IsFiniteSet(S) /\ IsFiniteSet(U)
  BY FS_Subset DEF BusyCallers, BusyDispatchers
<1>6. Cardinality(S) + Cardinality(U) + crashes <= MaxBusy
  BY DEF IInv, ApprovalInv, BusyIsBounded, BusyCallers, BusyDispatchers
<1> HIDE DEF S, U
<1>7. /\ Cardinality(S) \in Nat /\ Cardinality(U) \in Nat
      /\ Cardinality(S \ {c}) \in Nat /\ Cardinality(S \ {c}) = Cardinality(S) - 1
  BY <1>4, <1>5, FS_CardinalityType, FS_RemoveElement
<1>8. crashes \in Nat /\ MaxBusy \in Nat
  BY <1>2, ConstantTypes DEF TypeOK
<1>9. crashes' \in 0 .. MaxBusy /\ Cardinality(S \ {c}) + Cardinality(U) + crashes' <= MaxBusy
  BY <1>6, <1>7, <1>8
<1>10. BusyIsBounded'
  BY <1>4, <1>9 DEF BusyIsBounded, BusyCallers, BusyDispatchers
<1>11. TypeOK'
  BY <1>1, <1>2, <1>9, RestTypes DEF TypeOK, RowsStay
<1>12. Keeps /\ RequestInv' /\ OneAuthorization'
  BY <1>1, StayingKeeps DEF IInv, ApprovalInv, DecisionIsSingle
<1>13. \A j \in Caller : CallInv(j)'
  <2>1. \A j \in Caller \ {c} : CallInv(j)'
    BY <1>2, <1>3, <1>11, <1>12, CallKeeps DEF IInv, ApprovalInv
  <2>2. CallInv(c)'
    BY <1>3, RestTypes DEF CallInv, Deciding
  <2> QED
    BY <2>1, <2>2
<1>14. \A d \in Dispatcher : DispatcherInv(d)'
  BY <1>1, <1>2, <1>11, <1>12, DispatcherKeeps DEF IInv, ApprovalInv
<1>15. NonceDecidesOnce'
  <2>1. NonceDecidesOnce
    BY DEF IInv, ApprovalInv, DecisionIsSingle
  <2>2. Idle.pc \notin {"checkRun", "decide", "decided"}
    BY RestTypes
  <2>3. /\ \A r \in Request : record'[r] # "ABSENT" => nonce'[r] = "CONSUMED"
        /\ \A r \in Request : request'[r].replaces # 0 => nonce'[request'[r].replaces] # "PENDING"
    BY <1>12 DEF RequestInv
  <2>4. \A j, k \in Caller :
          /\ caller'[j].pc \in {"checkRun", "decide", "decided"}
          /\ caller'[k].pc \in {"checkRun", "decide", "decided"}
          /\ caller'[j].target = caller'[k].target
          => j = k
    BY <1>3, <2>1, <2>2 DEF NonceDecidesOnce
  <2> QED
    BY <2>3, <2>4 DEF NonceDecidesOnce
<1> QED
  BY <1>10, <1>11, <1>12, <1>13, <1>14, <1>15 DEF IInv, ApprovalInv, DecisionIsSingle

LEMMA CrashOfDispatcher ==
  ASSUME IsFiniteSet(Caller), IsFiniteSet(Dispatcher), IInv, crashes' = crashes + 1,
         NEW d \in Dispatcher, CrashDispatcher(d)
  PROVE  IInv'
<1>1. /\ dispatcher[d].pc # "idle" /\ dispatcher' = [dispatcher EXCEPT ![d] = Free]
      /\ RowsStay /\ claim' = claim /\ caller' = caller
  BY DEF CrashDispatcher, requestVars, outboxVars, RowsStay
<1>2. TypeOK /\ dispatcher \in [Dispatcher -> Dispatch]
  BY DispatcherTypes DEF IInv
<1>3. dispatcher'[d] = Free /\ \A j \in Dispatcher \ {d} : dispatcher'[j] = dispatcher[j]
  BY <1>1, <1>2
<1> DEFINE S == BusyDispatchers
           U == BusyCallers
<1>4. BusyDispatchers' = S \ {d} /\ BusyCallers' = U /\ d \in S
  BY <1>1, <1>3, RestTypes DEF BusyCallers, BusyDispatchers
<1>5. IsFiniteSet(S) /\ IsFiniteSet(U)
  BY FS_Subset DEF BusyCallers, BusyDispatchers
<1>6. Cardinality(U) + Cardinality(S) + crashes <= MaxBusy
  BY DEF IInv, ApprovalInv, BusyIsBounded, BusyCallers, BusyDispatchers
<1> HIDE DEF S, U
<1>7. /\ Cardinality(S) \in Nat /\ Cardinality(U) \in Nat
      /\ Cardinality(S \ {d}) \in Nat /\ Cardinality(S \ {d}) = Cardinality(S) - 1
  BY <1>4, <1>5, FS_CardinalityType, FS_RemoveElement
<1>8. crashes \in Nat /\ MaxBusy \in Nat
  BY <1>2, ConstantTypes DEF TypeOK
<1>9. crashes' \in 0 .. MaxBusy /\ Cardinality(U) + Cardinality(S \ {d}) + crashes' <= MaxBusy
  BY <1>6, <1>7, <1>8
<1>10. BusyIsBounded'
  BY <1>4, <1>9 DEF BusyIsBounded, BusyCallers, BusyDispatchers
<1>11. TypeOK'
  BY <1>1, <1>2, <1>9, RestTypes DEF TypeOK, RowsStay
<1>12. Keeps /\ RequestInv' /\ OneAuthorization'
  BY <1>1, StayingKeeps DEF IInv, ApprovalInv, DecisionIsSingle
<1>13. \A c \in Caller : CallInv(c)'
  BY <1>1, <1>2, <1>11, <1>12, CallKeeps DEF IInv, ApprovalInv
<1>14. \A j \in Dispatcher : DispatcherInv(j)'
  <2>1. \A j \in Dispatcher \ {d} : DispatcherInv(j)'
    BY <1>2, <1>3, <1>11, <1>12, DispatcherKeeps DEF IInv, ApprovalInv
  <2>2. DispatcherInv(d)'
    BY <1>3, RestTypes DEF DispatcherInv
  <2> QED
    BY <2>1, <2>2
<1>15. NonceDecidesOnce'
  BY <1>1 DEF IInv, ApprovalInv, DecisionIsSingle, NonceDecidesOnce, RowsStay
<1> QED
  BY <1>10, <1>11, <1>12, <1>13, <1>14, <1>15 DEF IInv, ApprovalInv, DecisionIsSingle

(***************************************************************************)
(* The specification                                                       *)
(***************************************************************************)

LEMMA InitIInv == IsFiniteSet(Caller) /\ IsFiniteSet(Dispatcher) /\ Init => IInv
<1> SUFFICES ASSUME IsFiniteSet(Caller), IsFiniteSet(Dispatcher), Init PROVE IInv
  OBVIOUS
<1>1. TypeOK
  <2>1. /\ 0 \in 0 .. MaxBusy /\ "VALIDATING" \in RunState
        /\ [status |-> "ABSENT", failed |-> FALSE, replaces |-> 0] \in ApprovalRequest
        /\ [status |-> "ABSENT", owner |-> Nobody] \in Message
        /\ [status |-> "ABSENT", replacement |-> 0] \in Claim
    BY ConstantTypes DEF RunState, ApprovalRequest, Message, Claim
  <2> QED
    BY <2>1, RestTypes DEF Init, TypeOK
<1>2. Filled = {} /\ Pending = {}
  BY DEF Init, Filled, Pending
<1>3. RequestInv
  <2>1. 0 \in 0 .. MaxRequests /\ 1 .. 0 = {}
    BY ConstantTypes
  <2>2. \E k \in 0 .. MaxRequests : Filled = 1 .. k
    BY <1>2, <2>1
  <2> QED
    BY <1>2, <2>2 DEF RequestInv, Init
<1>4. \A c \in Caller : CallInv(c)
  BY RestTypes DEF CallInv, Init, Deciding
<1>5. \A d \in Dispatcher : DispatcherInv(d)
  BY RestTypes DEF DispatcherInv, Init
<1>6. DecisionIsSingle
  <2>1. OneAuthorization
    BY DEF Init, OneAuthorization
  <2>2. NonceDecidesOnce
    BY RestTypes DEF Init, NonceDecidesOnce
  <2> QED
    BY <2>1, <2>2 DEF DecisionIsSingle
<1>7. BusyIsBounded
  <2>1. BusyCallers = {} /\ BusyDispatchers = {} /\ crashes = 0
    BY RestTypes DEF Init, BusyCallers, BusyDispatchers
  <2>2. Cardinality(BusyCallers) + Cardinality(BusyDispatchers) + crashes <= MaxBusy
    BY <2>1, ConstantTypes, FS_EmptySet
  <2> QED
    BY <2>2 DEF BusyIsBounded, BusyCallers, BusyDispatchers
<1> QED
  BY <1>1, <1>3, <1>4, <1>5, <1>6, <1>7 DEF IInv, ApprovalInv

LEMMA NextIInv ==
  ASSUME IsFiniteSet(Caller), IsFiniteSet(Dispatcher), IInv, [Next]_vars
  PROVE  IInv'
<1>1. ASSUME NEW c \in Caller, CallStep(c), crashes' = crashes PROVE IInv'
  BY <1>1, CallSteps
<1>2. ASSUME NEW d \in Dispatcher, DispatcherStep(d), crashes' = crashes PROVE IInv'
  BY <1>2, DispatcherSteps
<1>3. CASE Crash
  BY <1>3, CrashOfCall, CrashOfDispatcher DEF Crash
<1>4. CASE UNCHANGED vars
  <2>1. RowsStay /\ UNCHANGED <<claim, caller, dispatcher, crashes>>
    BY <1>4 DEF vars, requestVars, outboxVars, RowsStay
  <2>2. TypeOK'
    BY <2>1 DEF IInv, TypeOK, RowsStay
  <2>3. Keeps /\ RequestInv' /\ OneAuthorization'
    BY <2>1, StayingKeeps DEF IInv, ApprovalInv, DecisionIsSingle
  <2>4. \A c \in Caller : CallInv(c)'
    BY <2>1, <2>2, <2>3, CallKeeps DEF IInv, ApprovalInv
  <2>5. \A d \in Dispatcher : DispatcherInv(d)'
    BY <2>1, <2>2, <2>3, DispatcherKeeps DEF IInv, ApprovalInv
  <2>6. NonceDecidesOnce'
    BY <2>1 DEF IInv, ApprovalInv, DecisionIsSingle, NonceDecidesOnce, RowsStay
  <2>7. BusyIsBounded'
    BY <2>1 DEF IInv, ApprovalInv, BusyIsBounded
  <2> QED
    BY <2>2, <2>3, <2>4, <2>5, <2>6, <2>7 DEF IInv, ApprovalInv, DecisionIsSingle
<1> QED
  BY <1>1, <1>2, <1>3, <1>4 DEF Next
\* How a step moves the run: a sweep or a decision from AWAITING_APPROVAL, a
\* dispatcher to it, and nothing else.
LEMMA RunMoves ==
  ASSUME IInv, [Next]_vars
  PROVE  \/ run' = run
         \/ /\ run.state = "AWAITING_APPROVAL"
            /\ run'.state \in {"APPROVED", "REJECTED", "ESCALATED", "EXPIRED"}
         \/ /\ run.state \in {"VALIDATING", "ESCALATED"}
            /\ run'.state = "AWAITING_APPROVAL"
            /\ \E r \in bound' \cap mailed : secret[r] = "DELIVERED"
<1> USE DEF requestVars, outboxVars
<1>1. ASSUME NEW c \in Caller, CallStep(c), run' # run
      PROVE  /\ run.state = "AWAITING_APPROVAL"
             /\ run'.state \in {"APPROVED", "REJECTED", "ESCALATED", "EXPIRED"}
  <2>1. ExpireRun(c) \/ DecideCommit(c)
    BY <1>1 DEF CallStep, Route, ListPending, ReadStatus, WriteStatus, InvalidateNonce, Create, Expire,
                SweepEnds, ConsumeNonce, CheckRun, DecideRead, ClaimReissue, ClearClaim, InsertClaim,
                Proceed, ReadOld, CancelOld, FindLive, Confirm, CompleteReissue, FailReissue, Decide,
                Reissue
  <2>2. CASE ExpireRun(c)
    BY <1>1, <2>2 DEF ExpireRun, Moved
  <2>3. CASE DecideCommit(c)
    <3>1. SameRun(c) /\ run' = Moved(RunAfter(caller[c].decision)) /\ caller[c].pc = "decided"
      BY <1>1, <2>3 DEF DecideCommit
    <3>2. run.state = "AWAITING_APPROVAL" /\ caller[c].decision \in Decision
      BY <3>1, CallTypes DEF IInv, ApprovalInv, CallInv
    <3>3. RunAfter(caller[c].decision) \in {"APPROVED", "REJECTED", "ESCALATED"}
      BY <3>2, ConstantTypes DEF RunAfter
    <3> QED
      BY <3>1, <3>2, <3>3 DEF Moved
  <2> QED
    BY <2>1, <2>2, <2>3
<1>2. ASSUME NEW d \in Dispatcher, DispatcherStep(d), run' # run
      PROVE  /\ run.state \in {"VALIDATING", "ESCALATED"}
             /\ run'.state = "AWAITING_APPROVAL"
             /\ \E r \in bound' \cap mailed : secret[r] = "DELIVERED"
  <2>1. AwaitApproval(d)
    BY <1>2 DEF DispatcherStep, ClaimBatch, Receive, CheckPending, Reveal, Deliver, MarkSecret, CancelRead,
                CancelCommit, CompleteInbox, Register, Acknowledge
  <2>2. /\ SameRunAs(d) /\ run' = Moved("AWAITING_APPROVAL") /\ dispatcher[d].pc = "await"
        /\ bound' = bound \cup {dispatcher[d].current}
    BY <1>2, <2>1 DEF AwaitApproval
  <2>3. /\ run.state \in {"VALIDATING", "ESCALATED"}
        /\ dispatcher[d].current \in mailed /\ secret[dispatcher[d].current] = "DELIVERED"
    BY <2>2 DEF IInv, ApprovalInv, DispatcherInv
  <2> QED
    BY <2>2, <2>3 DEF Moved
<1>3. Crash \/ UNCHANGED vars => run' = run
  BY DEF Crash, CrashCall, CrashDispatcher, vars
<1> QED
  BY <1>1, <1>2, <1>3 DEF Next

-----------------------------------------------------------------------------

\* What calls and dispatchers have seen stays true while others move, so each of
\* them may rely on it when it writes (authorization/service.ts route, decide,
\* dispatchOnce, expireDueRequests, recoverUnreachableApprovalDelivery).
THEOREM ApprovalInvariant ==
  ASSUME IsFiniteSet(Caller), IsFiniteSet(Dispatcher)
  PROVE  Spec => []IInv
<1>1. Init => IInv
  BY InitIInv
<1>2. IInv /\ [Next]_vars => IInv'
  BY NextIInv
<1> QED
  BY <1>1, <1>2, PTL DEF Spec

\* Every state of the requests, the outbox and those that work on them is well typed.
THEOREM ApprovalTypes ==
  ASSUME IsFiniteSet(Caller), IsFiniteSet(Dispatcher)
  PROVE  Spec => []TypeOK
<1>1. IInv => TypeOK
  BY DEF IInv
<1> QED
  BY <1>1, ApprovalInvariant, PTL

\* decide: the run is approved by one decision, however many calls of route, decide
\* and reissue race; the nonce of a request lets one call through, and that of a
\* request which has been replaced none.
THEOREM DecisionsAreSingle ==
  ASSUME IsFiniteSet(Caller), IsFiniteSet(Dispatcher)
  PROVE  Spec => []DecisionIsSingle
<1>1. IInv => DecisionIsSingle
  BY DEF IInv, ApprovalInv
<1> QED
  BY <1>1, ApprovalInvariant, PTL

\* dispatchOnce and consume: the outbox forgets about a pending request only when it
\* is registered, wherever a dispatcher or a call has crashed and whoever's message
\* was taken over.
THEOREM AcknowledgementsMeanRegistered ==
  ASSUME IsFiniteSet(Caller), IsFiniteSet(Dispatcher)
  PROVE  Spec => []AcknowledgedMeansRegistered
<1>1. IInv => AcknowledgedMeansRegistered
  BY DEF IInv, ApprovalInv, RequestInv, Settled, AcknowledgedMeansRegistered
<1> QED
  BY <1>1, ApprovalInvariant, PTL

\* registerPending: a run waits for approval only after a human was sent the nonce
\* of a request that is bound.
THEOREM AwaitingMeansDelivered ==
  ASSUME IsFiniteSet(Caller), IsFiniteSet(Dispatcher)
  PROVE  Spec => AwaitingWasDelivered
<1> DEFINE Delivered == run.state # "AWAITING_APPROVAL" /\ run'.state = "AWAITING_APPROVAL"
                          => \E r \in bound' \cap mailed : secret[r] = "DELIVERED"
<1>1. IInv /\ [Next]_vars => Delivered
  BY RunMoves
<1>2. Spec => [][Delivered]_vars
  BY <1>1, ApprovalInvariant, PTL DEF Spec
<1> QED
  BY <1>2 DEF AwaitingWasDelivered

\* commitRunTransition: what was decided or has expired stays so, though a dispatcher or
\* a sweep with an old view of the run may be about to move it.
THEOREM DecidedRunsAreFinal ==
  ASSUME IsFiniteSet(Caller), IsFiniteSet(Dispatcher)
  PROVE  Spec => DecidedRunIsFinal
<1> DEFINE Final == run.state \in {"APPROVED", "REJECTED", "EXPIRED"} => UNCHANGED run
<1>1. IInv /\ [Next]_vars => Final
  BY RunMoves
<1>2. Spec => [][Final]_vars
  BY <1>1, ApprovalInvariant, PTL DEF Spec
<1> QED
  BY <1>2 DEF DecidedRunIsFinal
=============================================================================
