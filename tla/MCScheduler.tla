---------------------------- MODULE MCScheduler ----------------------------
(* The constants of Scheduler for TLC.                                      *)
EXTENDS Scheduler, TLC

CONSTANTS k1, k2, i1, i2, x1, x2, p1

\* Two workers in two processes.
TwoProcesses == k1 :> i1 @@ k2 :> i2

OneProject == x1 :> p1 @@ x2 :> p1

\* One project with two items; how many of them may be live at a time.
LimitOne == p1 :> 1
LimitTwo == p1 :> 2

\* The items of a project, and the two workers together with their processes.
Interchangeable ==
  Permutations({x1, x2}) \cup {k1 :> k2 @@ k2 :> k1 @@ i1 :> i2 @@ i2 :> i1}
=============================================================================
