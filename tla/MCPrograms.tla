----------------------------- MODULE MCPrograms -----------------------------
EXTENDS Programs, TLC

CONSTANTS c1, c2

Interchangeable == Permutations({c1, c2})
=============================================================================
