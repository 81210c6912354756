------------------------------ MODULE Fairness ------------------------------
(***************************************************************************)
(* How selectAndClaimWork chooses what to claim next: the deficits it      *)
(* keeps in scheduler_fairness_state, the score it makes of an item's      *)
(* priority class, age, deadline and its project's deficit, the tie-break, *)
(* and what is filtered out before.  One claim is one step (Scheduler      *)
(* shows that allocations are serialized by the fairness lock).            *)
(*                                                                         *)
(* Scores and deficits are in points, ages and deadlines in minutes.  A    *)
(* deficit is only read through min(300, deficit) and never falls (a       *)
(* contender gains 10 points or more and pays 10), so it is kept capped,   *)
(* which changes no choice.  An age is kept capped at 40 minutes likewise. *)
(***************************************************************************)
EXTENDS Integers, Sequences

CONSTANTS Project,
          weight,      \* projectWeightClamp: 1 .. 10
          Class,       \* the priority classes in use
          Deadline,    \* minutes to the deadline an item arrives with
          Step,        \* minutes that pass at a time
          MaxBacklog   \* bound: items that wait at a time

VARIABLES
  deficit,  \* of each project
  backlog   \* the ELIGIBLE, due items in the order of their creation

vars == <<deficit, backlog>>

PriorityRank == [CRITICAL |-> 1000, HIGH |-> 800, NORMAL |-> 500, LOW |-> 200, BACKGROUND |-> 50]

MaxDeficitBoost == 300
Quantum == 10

\* The age at which the boost of 10 points a minute has reached its 400.
MaxAge == 40

NoDeadline == -1

Min(x, y) == IF x <= y THEN x ELSE y
Max(x, y) == IF x <= y THEN y ELSE x

\* passed is history: how often a claim took something less urgent although this item was
\* among its candidates, since it last became eligible.
Item == [project: Project, class: DOMAIN PriorityRank, age: 0 .. MaxAge,
         deadline: Nat \cup {NoDeadline}, passed: Nat]

Init ==
  /\ deficit = [p \in Project |-> 0]
  /\ backlog = <<>>

Contender(p) == \E i \in 1 .. Len(backlog) : backlog[i].project = p

-----------------------------------------------------------------------------
(* The score                                                                *)

DeadlineBoost(deadline) ==
  CASE deadline = NoDeadline -> 0
    [] deadline = 0 -> 150
    [] deadline \in 1 .. 59 -> (100 * (60 - deadline)) \div 60
    [] OTHER -> 0

\* What an item's score owes to itself, not to its project.
Urgency(item) ==
  PriorityRank[item.class] + 10 * item.age + DeadlineBoost(item.deadline)

\* computeSchedulingScore
Score(item) == Urgency(item) + Min(MaxDeficitBoost, deficit[item.project])

\* compareCandidates: the higher score, then what was created earlier.
Best(i, candidates) ==
  /\ i \in candidates
  /\ \A j \in candidates :
       \/ Score(backlog[j]) < Score(backlog[i])
       \/ Score(backlog[j]) = Score(backlog[i]) /\ i <= j

-----------------------------------------------------------------------------
(* The charge                                                               *)

\* Mutant: only the served project gets credit.
Charged_OnlySelected(p, selected, asked) ==
  IF p = selected
  THEN Min(MaxDeficitBoost, deficit[p] + Quantum * weight[p] - Quantum)
  ELSE deficit[p]

\* applyFairnessCharge: every contender that was asked for is credited its weight, also
\* one that is paused or full; the selected project pays one quantum.
Charged(p, selected, asked) ==
  IF p \in asked /\ Contender(p)
  THEN Min(MaxDeficitBoost,
           deficit[p] + Quantum * weight[p] - (IF p = selected THEN Quantum ELSE 0))
  ELSE deficit[p]

\* History: the item at j is more urgent than the one at i, or as urgent and older.
Ahead(j, i) ==
  \/ Urgency(backlog[i]) < Urgency(backlog[j])
  \/ Urgency(backlog[i]) = Urgency(backlog[j]) /\ j < i

PassedOver(i, candidates) ==
  [j \in 1 .. Len(backlog) |->
     IF j \in candidates /\ Ahead(j, i)
     THEN [backlog[j] EXCEPT !.passed = @ + 1]
     ELSE backlog[j]]

Without(s, i) == SubSeq(s, 1, i - 1) \o SubSeq(s, i + 1, Len(s))

\* A worker asks for the work of some projects or of all of them.  The candidates are any
\* part of that: pauses, dependencies, the capacity of the project and of the platform,
\* the capabilities of the worker, the page of 16 items, and leases that are held and
\* items that have changed since they were listed each take out what they take out.
Claim ==
  \E asked \in SUBSET Project, candidates \in SUBSET (1 .. Len(backlog)) :
    /\ \A j \in candidates : backlog[j].project \in asked
    /\ \E i \in candidates :
         /\ Best(i, candidates)
         /\ deficit' = [p \in Project |-> Charged(p, backlog[i].project, asked)]
         /\ backlog' = Without(PassedOver(i, candidates), i)

Inserted(s, i, item) == SubSeq(s, 1, i - 1) \o <<item>> \o SubSeq(s, i, Len(s))

\* Work is discovered, is due again after a failure, has its dependencies, or is taken
\* back from an expired claim (which leaves its age): it keeps its place among the items
\* in the order of creation.
Arrive ==
  \E p \in Project, c \in Class, d \in Deadline, a \in 0 .. MaxAge, i \in 1 .. Len(backlog) + 1 :
    /\ Len(backlog) < MaxBacklog
    /\ a % Step = 0
    /\ backlog' = Inserted(backlog, i, [project |-> p, class |-> c, age |-> a,
                                        deadline |-> d, passed |-> 0])
    /\ UNCHANGED deficit

Older(item) ==
  [item EXCEPT !.age = Min(MaxAge, @ + Step),
               !.deadline = IF @ = NoDeadline THEN @ ELSE Max(0, @ - Step)]

PassTime ==
  /\ backlog' = [i \in 1 .. Len(backlog) |-> Older(backlog[i])]
  /\ UNCHANGED deficit

Next == Claim \/ Arrive \/ PassTime

Spec == Init /\ [][Next]_vars

-----------------------------------------------------------------------------

TypeOK ==
  /\ deficit \in [Project -> 0 .. MaxDeficitBoost]
  /\ backlog \in Seq(Item) /\ Len(backlog) <= MaxBacklog

\* scheduling/fairness.ts: what a project's weight is worth to the items it has waiting.  An
\* item is passed over by one that is less urgent (by class, age and deadline) only while
\* its project's boost is below the cap, and each time brings it nearer by the weight: so
\* for a weight w at most ceil(300 / 10 w) times, whatever arrives, is paused or retried.
\* It does not say that an item is served in the end: a steady stream of work of a class
\* that is 700 points or more above its own keeps it waiting for ever.
BypassIsBounded ==
  \A i \in 1 .. Len(backlog) :
    LET item == backlog[i]
    IN  item.passed > 0 => (item.passed - 1) * (Quantum * weight[item.project]) < MaxDeficitBoost

\* Its inductive form: below the cap the deficit has counted every time.
BypassIsCounted ==
  \A i \in 1 .. Len(backlog) :
    LET item == backlog[i]
    IN  deficit[item.project] < MaxDeficitBoost
          => item.passed * (Quantum * weight[item.project]) <= deficit[item.project]

BypassInv == BypassIsBounded /\ BypassIsCounted
=============================================================================
