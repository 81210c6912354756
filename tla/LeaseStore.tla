----------------------------- MODULE LeaseStore -----------------------------
(***************************************************************************)
(* One row of the table coordinator_leases and the statements that         *)
(* PostgresLeaseStore runs on it.  The store has no variable of its own:   *)
(* PhaseFence and Scheduler keep rows and apply these operators to them.   *)
(*                                                                         *)
(* The database clock is abstracted to one bit, "expired": the row's       *)
(* lease_expires_at is before NOW().  NOW() is the start of the            *)
(* transaction, so a statement inside a longer transaction judges expiry   *)
(* as it was at the start.  Such a transaction carries ExpiredGrant, the   *)
(* fence token it saw expired then; a statement of its own reads it anew.  *)
(***************************************************************************)
EXTENDS Integers

CONSTANTS Owner,    \* the values of owner_id: one instance id per process
          NoOwner   \* the owner of a row that does not exist yet

ASSUME NoOwnerAssumption == NoOwner \notin Owner

LeaseStatus == {"ABSENT", "HELD", "RELEASED"}

LeaseRow == [owner: Owner \cup {NoOwner}, token: Nat,
             status: LeaseStatus, expired: BOOLEAN]

NoLease == [owner |-> NoOwner, token |-> 0, status |-> "ABSENT", expired |-> FALSE]

\* Mutant: no grant is -1.
ExpiredGrant_MinusOne(lease) == IF lease.expired THEN lease.token ELSE -1

\* The grant a transaction that starts now will find expired (0: none).
ExpiredGrant(lease) == IF lease.expired THEN lease.token ELSE 0

-----------------------------------------------------------------------------
(* acquire: INSERT ... ON CONFLICT DO UPDATE ... WHERE                      *)

\* Mutant: the conflict clause has no WHERE.
CanAcquire_NoWhere(lease, owner, expiredGrant) == TRUE

\* The upsert returns a row: a new key, an expired or released lease, or the
\* owner's own one, which it takes again with a new token.
CanAcquire(lease, owner, expiredGrant) ==
  \/ lease.status # "HELD"
  \/ lease.expired /\ lease.token = expiredGrant
  \/ lease.owner = owner

\* Mutant: a lease that is taken over keeps its fence token.
Acquired_SameToken(lease, owner) ==
  [owner |-> owner, token |-> IF lease.token = 0 THEN 1 ELSE lease.token,
   status |-> "HELD", expired |-> FALSE]

Acquired(lease, owner) ==
  [owner |-> owner, token |-> lease.token + 1, status |-> "HELD", expired |-> FALSE]

-----------------------------------------------------------------------------
(* assertWritable, isLiveHeld, release                                      *)

LiveHeld(lease) == lease.status = "HELD" /\ ~lease.expired

Writable(lease, owner, token) ==
  LiveHeld(lease) /\ lease.owner = owner /\ lease.token = token

\* An UPDATE keyed by owner and token: it changes nothing for anybody else.
Released(lease, owner, token) ==
  IF lease.owner = owner /\ lease.token = token
  THEN [lease EXCEPT !.status = "RELEASED"]
  ELSE lease

\* Time passes: NOW() moves past lease_expires_at.  No caller of heartbeat
\* exists, so a lease that is HELD always gets there.
Expired(lease) == [lease EXCEPT !.expired = TRUE]
=============================================================================
