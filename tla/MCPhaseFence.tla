---------------------------- MODULE MCPhaseFence ----------------------------
(***************************************************************************)
(* Instances of PhaseFence for TLC: which process serves which request.    *)
(* One process serves two of three, so that requests meet in a process and *)
(* across processes.                                                       *)
(***************************************************************************)
EXTENDS PhaseFence, TLC

CONSTANTS r1, r2, r3, i1, i2

SharedProcess == r1 :> i1 @@ r2 :> i1 @@ r3 :> i2
=============================================================================
