-------------------------- MODULE AuthorizationGate --------------------------
(***************************************************************************)
(* What a human gate promises to those who rely on it, whatever rows and   *)
(* statements it is made of.  A subject (a plan of a program, of a         *)
(* portfolio) is granted by a decision; only then do its effects (child    *)
(* objectives, child programs) come into being, each at most once; and the *)
(* aggregate is finished once, on one subject, when every effect that      *)
(* subject stands for has been proved.                                     *)
(*                                                                         *)
(* There is no action that takes anything back: a grant, an effect, a      *)
(* proof and the end are all final.                                        *)
(***************************************************************************)
EXTENDS Naturals, FiniteSets

CONSTANTS Subject,      \* What is decided on
          Effect        \* <<subject, part>>: what a granted subject brings about

VARIABLES granted,      \* Subjects an approver has approved
          admitted,     \* Effects that were brought about
          proved,       \* Effects whose outcome was verified
          finished      \* The subjects the aggregate was finished on: none or one

vars == <<granted, admitted, proved, finished>>

PartsOf(s) == {e \in Effect : e[1] = s}

Init ==
  /\ granted = {}
  /\ admitted = {}
  /\ proved = {}
  /\ finished = {}

Grant(s) ==
  /\ granted' = granted \cup {s}
  /\ UNCHANGED <<admitted, proved, finished>>

Admit(e) ==
  /\ e[1] \in granted
  /\ e \notin admitted
  /\ admitted' = admitted \cup {e}
  /\ UNCHANGED <<granted, proved, finished>>

Prove(e) ==
  /\ e \in admitted
  /\ proved' = proved \cup {e}
  /\ UNCHANGED <<granted, admitted, finished>>

Finish(s) ==
  /\ finished = {}
  /\ finished' = {s}
  /\ PartsOf(s) \subseteq proved
  /\ UNCHANGED <<granted, admitted, proved>>

Next ==
  \/ \E s \in Subject : Grant(s) \/ Finish(s)
  \/ \E e \in Effect : Admit(e) \/ Prove(e)

Spec == Init /\ [][Next]_vars
=============================================================================
