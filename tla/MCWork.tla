------------------------------- MODULE MCWork -------------------------------
(***************************************************************************)
(* What puts work on the queue and what takes it off: Programs, whose work *)
(* items are rows of the scheduler's table, and the claim loops of         *)
(* Scheduler.  Programs relies only on what the scheduler promises, that   *)
(* an item is handed out again until it is settled, so a behaviour is that *)
(* of one of the two, chosen at the start; the other stays as it was.      *)
(*                                                                         *)
(* The claims are there for what must happen in the end.  Nothing of them  *)
(* is interchangeable with anything: exchanging the calls of a program     *)
(* leaves every state of theirs as it is.                                  *)
(***************************************************************************)
EXTENDS MCPrograms

CONSTANTS k1, k2, i1, i2, x1, p1, NoOwner, NoWorker, NoWork, MaxAttempts, MaxClaims

VARIABLES part, item, lease, lock, milestone, paused, worker

W == INSTANCE Scheduler WITH
  Owner <- {i1, i2}, Worker <- {k1, k2}, home <- k1 :> i1 @@ k2 :> i2,
  Work <- {x1}, projectOf <- x1 :> p1, Dependent <- {x1}, Pausable <- {},
  ProjectLimit <- p1 :> 2, GlobalLimit <- 1

claimVars == <<item, lease, lock, milestone, paused, worker>>

WorkInit == part \in {"program", "claims"} /\ Init /\ W!Init

WorkNext ==
  /\ UNCHANGED part
  /\ \/ part = "program" /\ Next /\ UNCHANGED claimVars
     \/ part = "claims" /\ W!Next /\ UNCHANGED vars

\* The fairness of Scheduler, where its workers are what moves.
ClaimFairness ==
  /\ \A k \in {k1, k2} : WF_claimVars(part = "claims" /\ W!WorkerStep(k))
  /\ WF_claimVars(part = "claims" /\ W!ExpireLease(x1))

WorkSpec == WorkInit /\ [][WorkNext]_<<part, vars, claimVars>> /\ ClaimFairness
-----------------------------------------------------------------------------
\* scheduling/service.ts reconcileExpiredClaims: a claim whose owner died before the
\* dispatch, or gave up on it, does not keep the item for ever.
ClaimsDoNotStick == part = "claims" => W!ClaimsDoNotStick
=============================================================================
