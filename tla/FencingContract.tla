--------------------------- MODULE FencingContract --------------------------
(***************************************************************************)
(* What a phase coordinator promises, without rows, owner tokens or the    *)
(* statements that read and write them: grants are numbered by epoch, and  *)
(* the only verdict a grant can meet is one of its own epoch or one that   *)
(* was adopted from the phase's record (epoch 0).  A grant that has been   *)
(* followed by another can no longer record anything.                      *)
(***************************************************************************)
EXTENDS Integers

CONSTANTS Holder,    \* who may be granted the fence
          NoHolder

VARIABLES epoch,     \* how many grants there were
          holder,    \* who has the latest one
          verdict    \* what was recorded since, and by which epoch

vars == <<epoch, holder, verdict>>

Open == [by |-> 0, outcome |-> "OPEN"]

Init == epoch = 0 /\ holder = NoHolder /\ verdict = Open

Grant(h) ==
  /\ epoch' = epoch + 1
  /\ holder' = h
  /\ verdict' = Open

Settle(outcome) ==
  /\ epoch > 0
  /\ verdict = Open
  /\ verdict' = [by |-> epoch, outcome |-> outcome]
  /\ UNCHANGED <<epoch, holder>>

Adopt ==
  /\ verdict' = [by |-> 0, outcome |-> "DONE"]
  /\ UNCHANGED <<epoch, holder>>

Next ==
  \/ \E h \in Holder : Grant(h)
  \/ \E outcome \in {"DONE", "FAILED"} : Settle(outcome)
  \/ Adopt

Spec == Init /\ [][Next]_vars
=============================================================================
