----------------------------- MODULE MCDispatch -----------------------------
(***************************************************************************)
(* The two models of what a claim loop does: Fairness, how it chooses, and *)
(* Scheduler, how it claims, dispatches and settles.  A behaviour is that  *)
(* of one of them, chosen at the start; the other stays as it was.         *)
(***************************************************************************)
EXTENDS MCScheduler

CONSTANTS a, b, Contenders, weight, Class, Deadline, Step, MaxBacklog

\* projectWeightClamp keeps a weight between 1 and 10.
ASSUME FairnessAssumption ==
  /\ weight \in [Contenders -> 1 .. 10]
  /\ Class \subseteq {"CRITICAL", "HIGH", "NORMAL", "LOW", "BACKGROUND"}
  /\ Deadline \subseteq Nat \cup {-1}
  /\ Step \in Nat \ {0}
  /\ MaxBacklog \in Nat

\* Two weights that reach the cap after six claims and after three.
FiveToTen == a :> 5 @@ b :> 10

\* None, and half an hour ahead.
SomeHaveDeadlines == {-1, 30}

VARIABLES part, deficit, backlog

C == INSTANCE Fairness WITH Project <- Contenders

choiceVars == <<deficit, backlog>>
dispatchVars == <<part, vars, choiceVars>>

DispatchInit == part \in {"claims", "choice"} /\ Init /\ C!Init

DispatchNext ==
  /\ UNCHANGED part
  /\ \/ part = "claims" /\ Next /\ UNCHANGED choiceVars
     \/ part = "choice" /\ C!Next /\ UNCHANGED vars

DispatchSpec == DispatchInit /\ [][DispatchNext]_dispatchVars
-----------------------------------------------------------------------------
\* The rows of the scheduler and where its workers are, and the deficits and the backlog.
TypesOK == TypeOK /\ C!TypeOK

\* scheduling/fairness.ts: an item is passed over by less urgent work only so often as its
\* project's weight needs to bring the deficit to its cap.
BypassIsBounded == C!BypassIsBounded
=============================================================================
