--------------------------- MODULE DecisionRequest ---------------------------
(***************************************************************************)
(* The requests for a human decision that portfolios, experiments and      *)
(* decision problems keep: one row per subject, so that every request for  *)
(* the same subject has the same identifier.                               *)
(*                                                                         *)
(* A route takes the nonce of the newest pending request from the memory   *)
(* of its process; without it, save upserts a fresh row.  A decision reads *)
(* the row, and saveCas writes back what was read with another status, if  *)
(* the row still has the revision that was read.                           *)
(***************************************************************************)
EXTENDS Naturals

Request(MaxIssues) ==
  [status: {"NONE", "PENDING", "SETTLED", "EXPIRED"}, issue: 0 .. MaxIssues,
   revision: 0 .. 2]

NoRequest == [status |-> "NONE", issue |-> 0, revision |-> 0]

\* save: whatever stands there is replaced, and its revision starts again.
Fresh(issue) == [status |-> "PENDING", issue |-> issue, revision |-> 1]

PendingIn(rows) == {s \in DOMAIN rows : rows[s].status = "PENDING"}

\* getPending, then take and put: the newest request, and not the one of the
\* subject that is routed, decides whether a nonce is at hand.
HoldsNonce(rows, nonces) ==
  \E s \in PendingIn(rows) :
    nonces[s] # 0 /\ \A t \in PendingIn(rows) : rows[t].issue <= rows[s].issue

Unchanged(row, read) == row.revision = read.revision

Settled(read, status) == [read EXCEPT !.status = status, !.revision = @ + 1]
=============================================================================
