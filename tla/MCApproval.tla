----------------------------- MODULE MCApproval -----------------------------
EXTENDS Approval, TLC

CONSTANTS c1, c2, d1, d2

Interchangeable == Permutations({c1, c2}) \cup Permutations({d1, d2})
=============================================================================
