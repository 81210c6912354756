---------------------------- MODULE MCAdmission ----------------------------
(* The constants of Admission for TLC.                                      *)
EXTENDS Admission, TLC

CONSTANTS c1, c2, c3, p1, p2, e1, e2, v1, v2

Interchangeable ==
  Permutations(Call) \cup Permutations(Project)
    \cup Permutations(Environment) \cup Permutations(Content)
=============================================================================
