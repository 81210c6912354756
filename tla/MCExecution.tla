---------------------------- MODULE MCExecution ----------------------------
EXTENDS Execution, TLC

CONSTANTS c1, c2, none

ReversibleSteps == {1}

Interchangeable == Permutations({c1, c2})
=============================================================================
