--------------------------- MODULE AdmissionProofs ---------------------------
(***************************************************************************)
(* Proofs about Admission, for every set of calls, projects, environments  *)
(* and contents, and every number of runs and of faults.                   *)
(***************************************************************************)
EXTENDS Admission, TLAPS

Compensating == {"compensateRun", "compensateLock", "compensateKey"}
Unbound == {"reserve", "acquire", "admit"}

\* What a call at work carries: a run id of its own, which becomes a run only in
\* the transaction that also sets its flag bound.
Carries(c) ==
  call[c].pc # "idle" =>
    /\ call[c].key \in Key
    /\ call[c].content \in Content
    /\ call[c].run \in 1 .. issued
    /\ call[c].pc \in Unbound => ~call[c].bound
    /\ ~call[c].bound => run[call[c].run].status = "ABSENT"

RunsAreTheirCalls ==
  \A c, d \in Call :
    call[c].pc # "idle" /\ call[d].pc # "idle" /\ call[c].run = call[d].run => c = d

RowsAgree ==
  /\ \A r \in Run : run[r].status # "ABSENT" => r <= issued
  /\ \A r \in Run : binding[r] # None =>
       run[r].status # "ABSENT" /\ objective[binding[r]] # None
  /\ \A k \in Key : key[k].status = "RESERVED" => key[k].run = 0

AdmissionInv ==
  /\ TypeOK
  /\ \A c \in Call : Carries(c)
  /\ RunsAreTheirCalls
  /\ RowsAgree
  /\ KeysNameTheirRuns
  /\ LockIsHeldThroughout

(***************************************************************************)
(* Where a call goes                                                       *)
(***************************************************************************)

\* A call goes on with its run, or it is over.
Successor(c, f) ==
  /\ f \in Frame
  /\ call' = [call EXCEPT ![c] = f]
  /\ \/ f = Idle
     \/ /\ f.pc # "idle"
        /\ f.key = call[c].key
        /\ f.content = call[c].content
        /\ f.run = call[c].run

LEMMA IdleIsFrame == Idle \in Frame
  BY AdmissionAssumption DEF Idle, Frame, PC

\* An exception leads to compensate or, from there, out of the call.
LEMMA ThrowGoes ==
  ASSUME NEW c \in Call, NEW f \in Frame, f.pc # "idle", Throw(c, f),
         f.key = call[c].key, f.content = call[c].content, f.run = call[c].run
  PROVE  \E g \in Frame :
           /\ Successor(c, g)
           /\ g = Idle \/ g.pc = "compensateRun"
           /\ g # Idle => /\ g.bound = f.bound /\ g.created = f.created
                          /\ g.locked = f.locked /\ g.reserved = f.reserved
<1>1. CASE f.pc \in Compensating
  BY <1>1, IdleIsFrame DEF Compensating, Throw, Become, Successor
<1>2. CASE f.pc \notin Compensating
  <2> DEFINE g == [f EXCEPT !.pc = "compensateRun"]
  <2>1. /\ g \in Frame /\ g.pc = "compensateRun"
        /\ g.key = f.key /\ g.content = f.content /\ g.run = f.run
        /\ g.bound = f.bound /\ g.created = f.created
        /\ g.locked = f.locked /\ g.reserved = f.reserved
    BY DEF Frame, PC
  <2>2. call' = [call EXCEPT ![c] = g]
    BY <1>2 DEF Compensating, Throw, Become
  <2> QED
    BY <2>1, <2>2 DEF Successor
<1> QED
  BY <1>1, <1>2

\* A statement was answered, or its answer was lost.
LEMMA AnsweredGoes ==
  ASSUME TypeOK, NEW c \in Call, call[c].pc # "idle", NEW f \in Frame, Answered(c, f),
         f = Idle \/ (/\ f.pc # "idle" /\ f.key = call[c].key
                      /\ f.content = call[c].content /\ f.run = call[c].run)
  PROVE  \E g \in Frame :
           /\ Successor(c, g)
           /\ \/ g = f /\ UNCHANGED faults
              \/ /\ Fault
                 /\ g = Idle \/ (g.pc = "compensateRun" /\ g.bound = call[c].bound)
<1>1. CASE Become(c, f) /\ UNCHANGED faults
  BY <1>1 DEF Become, Successor
<1>2. CASE Throw(c, call[c]) /\ Fault
  <2>1. call[c] \in Frame
    BY DEF TypeOK
  <2>2. PICK g \in Frame :
          /\ Successor(c, g)
          /\ g = Idle \/ g.pc = "compensateRun"
          /\ g # Idle => g.bound = call[c].bound
    BY <1>2, <2>1, ThrowGoes
  <2>3. \/ g = f /\ UNCHANGED faults
        \/ /\ Fault
           /\ g = Idle \/ (g.pc = "compensateRun" /\ g.bound = call[c].bound)
    BY <1>2, <2>2
  <2> QED
    BY <2>2, <2>3
<1> QED
  BY <1>1, <1>2 DEF Answered

\* Whatever a call does after its arrival, it goes on with its run or is over; it is
\* without the flag bound only if its run has not become a row.
LEMMA StepGoes ==
  ASSUME AdmissionInv, NEW c \in Call,
         \/ Reserve(c) \/ Acquire(c) \/ Admit(c) \/ RollBack(c) \/ Unlock(c)
         \/ CompensateRun(c) \/ CompensateLock(c) \/ CompensateKey(c)
         \/ FailStatement(c) \/ Crash(c)
  PROVE  \E f \in Frame :
           /\ Successor(c, f)
           /\ f # Idle => /\ f.pc \in Unbound => ~f.bound
                          /\ ~f.bound => ~call[c].bound /\ UNCHANGED run
                          /\ f.pc = "admit" => Acquire(c) /\ lock[call[c].key.project] = 0
                          /\ f.pc = "unlock" => Admit(c)
<1>0. call[c] \in Frame /\ Carries(c)
  BY DEF AdmissionInv, TypeOK
<1> USE DEF Unbound
<1>1. CASE Reserve(c)
  <2> DEFINE f == [call[c] EXCEPT !.pc = "acquire", !.reserved = TRUE]
  <2>1. /\ f \in Frame /\ f.pc = "acquire" /\ f.bound = call[c].bound
        /\ f.key = call[c].key /\ f.content = call[c].content /\ f.run = call[c].run
    BY <1>0 DEF Frame, PC
  <2>2. ~call[c].bound
    BY <1>0, <1>1 DEF Reserve, Carries
  <2>3. CASE Leave(c)
    BY <2>3, IdleIsFrame DEF Leave, Become, Successor
  <2>4. CASE Answered(c, f)
    BY <1>1, <2>1, <2>2, <2>4, AnsweredGoes DEF Reserve, AdmissionInv
  <2> QED
    BY <1>1, <2>3, <2>4 DEF Reserve
<1>2. CASE Acquire(c)
  <2> DEFINE f == [call[c] EXCEPT !.pc = "admit", !.locked = TRUE]
  <2>1. /\ f \in Frame /\ f.pc = "admit" /\ f.bound = call[c].bound
        /\ f.key = call[c].key /\ f.content = call[c].content /\ f.run = call[c].run
    BY <1>0 DEF Frame, PC
  <2>2. ~call[c].bound /\ UNCHANGED run
    BY <1>0, <1>2 DEF Acquire, Carries
  <2>3. CASE Throw(c, call[c])
    BY <1>0, <1>2, <2>2, <2>3, ThrowGoes DEF Acquire
  <2>4. CASE lock[call[c].key.project] = 0 /\ Answered(c, f)
    BY <1>2, <2>1, <2>2, <2>4, AnsweredGoes DEF Acquire, AdmissionInv
  <2> QED
    BY <1>2, <2>3, <2>4 DEF Acquire
<1>3. CASE Admit(c)
  <2> DEFINE done == [call[c] EXCEPT !.created = TRUE, !.bound = TRUE]
             f == [done EXCEPT !.pc = "unlock"]
  <2>0. /\ done \in Frame /\ done.pc # "idle"
        /\ done.key = call[c].key /\ done.content = call[c].content /\ done.run = call[c].run
    BY <1>0, <1>3 DEF Frame, Admit
  <2>1. done.bound
    BY <1>0 DEF Frame
  <2>2. /\ f \in Frame /\ f.pc = "unlock" /\ f.bound
        /\ f.key = call[c].key /\ f.content = call[c].content /\ f.run = call[c].run
    BY <1>0 DEF Frame, PC
  <2>3. CASE Become(c, f)
    BY <1>3, <2>2, <2>3 DEF Become, Successor
  <2>4. CASE Throw(c, done)
    <3> HIDE DEF done
    <3>1. PICK g \in Frame :
            /\ Successor(c, g)
            /\ g = Idle \/ g.pc = "compensateRun"
            /\ g # Idle => /\ g.bound = done.bound /\ g.created = done.created
                           /\ g.locked = done.locked /\ g.reserved = done.reserved
      BY <2>0, <2>4, ThrowGoes
    <3>2. g # Idle => g.pc = "compensateRun" /\ g.bound
      BY <2>1, <3>1
    <3> QED
      BY <3>1, <3>2
  <2> QED
    BY <1>3, <2>3, <2>4 DEF Admit
<1>4. CASE RollBack(c)
  <2>1. PICK created \in BOOLEAN, bound \in BOOLEAN :
          Throw(c, [call[c] EXCEPT !.created = created, !.bound = bound])
    BY <1>4 DEF RollBack
  <2> DEFINE f == [call[c] EXCEPT !.created = created, !.bound = bound]
  <2>2. /\ f \in Frame /\ f.pc = call[c].pc
        /\ f.key = call[c].key /\ f.content = call[c].content /\ f.run = call[c].run
    BY <1>0 DEF Frame
  <2>3. ~call[c].bound /\ UNCHANGED run
    BY <1>0, <1>4 DEF RollBack, Carries
  <2> HIDE DEF f
  <2> QED
    BY <1>4, <2>1, <2>2, <2>3, ThrowGoes DEF RollBack, f
<1>5. CASE Unlock(c)
  BY <1>5, IdleIsFrame, AnsweredGoes DEF Unlock, AdmissionInv
<1>6. CASE CompensateRun(c)
  <2> DEFINE f == [call[c] EXCEPT !.pc = "compensateLock"]
  <2>1. /\ f \in Frame /\ f.pc = "compensateLock" /\ f.bound = call[c].bound
        /\ f.key = call[c].key /\ f.content = call[c].content /\ f.run = call[c].run
    BY <1>0 DEF Frame, PC
  <2>2. CASE Leave(c)
    BY <2>2, IdleIsFrame DEF Leave, Become, Successor
  <2>3. CASE Become(c, f)
    <3>1. UNCHANGED run
      BY <1>0, <1>6, <2>3, <2>1, IdleIsFrame DEF CompensateRun, Carries
    <3> QED
      BY <2>1, <2>3, <3>1 DEF Become, Successor
  <2> QED
    BY <1>6, <2>2, <2>3 DEF CompensateRun
<1>7. CASE CompensateLock(c)
  <2> DEFINE f == [call[c] EXCEPT !.pc = "compensateKey"]
  <2>1. /\ f \in Frame /\ f.pc = "compensateKey" /\ f.bound = call[c].bound
        /\ f.key = call[c].key /\ f.content = call[c].content /\ f.run = call[c].run
    BY <1>0 DEF Frame, PC
  <2> QED
    BY <1>7, <2>1, AnsweredGoes DEF CompensateLock, AdmissionInv
<1>8. CASE CompensateKey(c)
  BY <1>8, IdleIsFrame DEF CompensateKey, Leave, Become, Successor
<1>9. CASE FailStatement(c)
  BY <1>0, <1>9, ThrowGoes DEF FailStatement
<1>10. CASE Crash(c)
  BY <1>10, IdleIsFrame DEF Crash, Leave, Become, Successor
<1> QED
  BY <1>1, <1>2, <1>3, <1>4, <1>5, <1>6, <1>7, <1>8, <1>9, <1>10

(***************************************************************************)
(* The invariant                                                           *)
(***************************************************************************)

\* The rows keep their types.
LEMMA RowTypes ==
  ASSUME AdmissionInv, NEW c \in Call,
         \/ Reserve(c) \/ Acquire(c) \/ Admit(c) \/ RollBack(c) \/ Unlock(c)
         \/ CompensateRun(c) \/ CompensateLock(c) \/ CompensateKey(c)
         \/ FailStatement(c) \/ Crash(c)
  PROVE  /\ key' \in [Key -> KeyRow]
         /\ lock' \in [Project -> Run \cup {0}]
         /\ run' \in [Run -> RunRow]
         /\ objective' \in [Project -> Content \cup {None}]
         /\ binding' \in [Run -> Project \cup {None}]
         /\ faults' \in 0 .. MaxFaults
         /\ UNCHANGED issued
<1>0. /\ call[c] \in Frame
      /\ call[c].pc # "idle" =>
           /\ call[c].key \in Key /\ call[c].content \in Content
           /\ call[c].run \in Run /\ call[c].key.project \in Project
  BY AdmissionAssumption DEF AdmissionInv, TypeOK, Carries, Run, Key
<1>1. Fault \/ UNCHANGED faults => faults' \in 0 .. MaxFaults
  BY AdmissionAssumption DEF AdmissionInv, TypeOK, Fault
<1>2. CASE Reserve(c)
  <2>1. key' \in [Key -> KeyRow]
    BY <1>0, <1>2 DEF Reserve, AdmissionInv, TypeOK, KeyRow
  <2> QED
    BY <1>1, <1>2, <2>1 DEF Reserve, Answered, AdmissionInv, TypeOK
<1>3. CASE Acquire(c)
  BY <1>0, <1>1, <1>3 DEF Acquire, Answered, AdmissionInv, TypeOK
<1>4. CASE Admit(c)
  <2>1. run' \in [Run -> RunRow]
    BY <1>0, <1>4 DEF Admit, AdmissionInv, TypeOK, RunRow
  <2>2. key' \in [Key -> KeyRow]
    BY <1>0, <1>4 DEF Admit, AdmissionInv, TypeOK, KeyRow
  <2>3. objective' \in [Project -> Content \cup {None}]
    BY <1>0, <1>4 DEF Admit, Saved, AdmissionInv, TypeOK
  <2>4. binding' \in [Run -> Project \cup {None}]
    BY <1>0, <1>4 DEF Admit, BoundProjects, AdmissionInv, TypeOK
  <2> QED
    BY <1>1, <1>4, <2>1, <2>2, <2>3, <2>4 DEF Admit, AdmissionInv, TypeOK
<1>5. CASE RollBack(c)
  BY <1>1, <1>5 DEF RollBack, AdmissionInv, TypeOK
<1>6. CASE Unlock(c)
  BY <1>0, <1>1, <1>6 DEF Unlock, Unlocked, Answered, AdmissionInv, TypeOK
<1>7. CASE CompensateRun(c)
  <2>1. run' \in [Run -> RunRow]
    BY <1>0, <1>7 DEF CompensateRun, AdmissionInv, TypeOK, RunRow
  <2> QED
    BY <1>7, <2>1 DEF CompensateRun, AdmissionInv, TypeOK
<1>8. CASE CompensateLock(c)
  BY <1>0, <1>1, <1>8 DEF CompensateLock, Unlocked, Answered, AdmissionInv, TypeOK
<1>9. CASE CompensateKey(c)
  <2>1. NoKey \in KeyRow
    BY DEF NoKey, KeyRow
  <2>2. key' \in [Key -> KeyRow]
    BY <1>0, <1>9, <2>1 DEF CompensateKey, AdmissionInv, TypeOK
  <2> QED
    BY <1>9, <2>2 DEF CompensateKey, AdmissionInv, TypeOK
<1>10. CASE FailStatement(c)
  BY <1>1, <1>10 DEF FailStatement, AdmissionInv, TypeOK
<1>11. CASE Crash(c)
  BY <1>1, <1>11 DEF Crash, AdmissionInv, TypeOK
<1> QED
  BY <1>2, <1>3, <1>4, <1>5, <1>6, <1>7, <1>8, <1>9, <1>10, <1>11

\* A run comes into being in one step only, which binds its key and its objective.
LEMMA RunsChange ==
  ASSUME AdmissionInv, NEW c \in Call,
         \/ Reserve(c) \/ Acquire(c) \/ RollBack(c) \/ Unlock(c)
         \/ CompensateRun(c) \/ CompensateLock(c) \/ CompensateKey(c)
         \/ FailStatement(c) \/ Crash(c)
  PROVE  /\ UNCHANGED <<run, objective, binding>>
         /\ \A k \in Key : key[k].status = "ACTIVE" => key'[k] = key[k]
         /\ \A k \in Key : key'[k].status = "ACTIVE" => key'[k] = key[k]
         /\ \A k \in Key : key'[k].status = "RESERVED" => key'[k].run = 0
<1>0. /\ \A k \in Key : key[k].status = "RESERVED" => key[k].run = 0
      /\ call[c].pc # "idle" => call[c].key \in Key
      /\ Carries(c)
  BY DEF AdmissionInv, RowsAgree, Carries
<1>1. CASE Reserve(c)
  BY <1>0, <1>1 DEF Reserve, AdmissionInv, TypeOK
<1>2. CASE CompensateKey(c)
  BY <1>0, <1>2 DEF CompensateKey, NoKey, AdmissionInv, TypeOK
<1>3. CASE CompensateRun(c)
  BY <1>0, <1>3 DEF CompensateRun, Carries
<1>4. CASE Acquire(c) \/ RollBack(c) \/ Unlock(c) \/ CompensateLock(c) \/ FailStatement(c) \/ Crash(c)
  BY <1>0, <1>4 DEF Acquire, RollBack, Unlock, CompensateLock, FailStatement, Crash
<1> QED
  BY <1>1, <1>2, <1>3, <1>4

\* The rows agree after the transaction that admits a run.
LEMMA AdmitAgrees ==
  ASSUME AdmissionInv, NEW c \in Call, Admit(c)
  PROVE  RowsAgree' /\ KeysNameTheirRuns'
<1> DEFINE r == call[c].run
           k == call[c].key
<1>1. r \in Run /\ r <= issued /\ k \in Key /\ ~call[c].bound /\ run[r].status = "ABSENT"
  BY AdmissionAssumption DEF AdmissionInv, TypeOK, Carries, Unbound, Admit, Run
<1>2. k.project \in Project /\ call[c].content # None
  BY <1>1, AdmissionAssumption DEF Key, Admit, AdmissionInv, Carries
<1>3. /\ run'[r] = [status |-> "ADMITTED", key |-> k]
      /\ \A q \in Run \ {r} : run'[q] = run[q]
  BY <1>1 DEF Admit, AdmissionInv, TypeOK
<1>4. /\ key'[k].status = "ACTIVE" /\ key'[k].run = r
      /\ \A l \in Key \ {k} : key'[l] = key[l]
  BY <1>1 DEF Admit, AdmissionInv, TypeOK, KeyRow
<1>5. /\ key[k].status = "RESERVED"
      /\ \A q \in Run : run[q].status # "ABSENT" => run[q].key # k
  BY DEF Admit, MayAdmit
<1>6. RowsAgree'
  <2>1. \A q \in Run : run'[q].status # "ABSENT" => q <= issued'
    BY <1>1, <1>3 DEF AdmissionInv, RowsAgree, Admit
  <2>2. \A q \in Run : binding'[q] # None => run'[q].status # "ABSENT" /\ objective'[binding'[q]] # None
    <3>1. \A p \in Project : objective[p] # None => objective'[p] # None
      BY <1>2 DEF Admit, Saved, AdmissionInv, TypeOK
    <3>2. objective'[binding'[r]] # None
      BY <1>1 DEF Admit, BoundProjects, AdmissionInv, TypeOK
    <3>3. \A q \in Run \ {r} : binding'[q] = binding[q]
      BY <1>1 DEF Admit, AdmissionInv, TypeOK
    <3>4. \A q \in Run : binding[q] # None => binding[q] \in Project
      BY DEF AdmissionInv, TypeOK
    <3> QED
      BY <1>3, <3>1, <3>2, <3>3, <3>4 DEF AdmissionInv, RowsAgree
  <2>3. \A l \in Key : key'[l].status = "RESERVED" => key'[l].run = 0
    BY <1>1, <1>4 DEF AdmissionInv, RowsAgree
  <2> QED
    BY <2>1, <2>2, <2>3 DEF RowsAgree
<1>7. KeysNameTheirRuns'
  <2> SUFFICES ASSUME NEW l \in Key, NEW q \in Run
               PROVE  run'[q] = [status |-> "ADMITTED", key |-> l]
                        <=> key'[l].status = "ACTIVE" /\ key'[l].run = q
    BY DEF KeysNameTheirRuns
  <2>1. run[q] = [status |-> "ADMITTED", key |-> l] <=> key[l].status = "ACTIVE" /\ key[l].run = q
    BY DEF AdmissionInv, KeysNameTheirRuns
  <2>2. CASE q = r /\ l = k
    BY <1>3, <1>4, <2>2
  <2>3. CASE q = r /\ l # k
    BY <1>1, <1>3, <1>4, <2>1, <2>3
  <2>4. CASE q # r /\ l = k
    BY <1>3, <1>4, <1>5, <2>4
  <2>5. CASE q # r /\ l # k
    BY <1>3, <1>4, <2>1, <2>5
  <2> QED
    BY <2>2, <2>3, <2>4, <2>5
<1> QED
  BY <1>6, <1>7

\* Only the call whose run holds it gives a lock back, and none is taken that is held.
LEMMA LockStays ==
  ASSUME AdmissionInv, NEW c \in Call, NEW d \in Call, d # c,
         call[d].pc \in {"admit", "unlock"},
         \/ Reserve(c) \/ Acquire(c) \/ Admit(c) \/ RollBack(c) \/ Unlock(c)
         \/ CompensateRun(c) \/ CompensateLock(c) \/ CompensateKey(c)
         \/ FailStatement(c) \/ Crash(c)
  PROVE  lock'[call[d].key.project] = call[d].run
<1> DEFINE p == call[d].key.project
<1>1. /\ lock[p] = call[d].run /\ call[d].run # 0
      /\ p \in Project
      /\ call[c].pc # "idle" => call[c].run # call[d].run
  BY AdmissionAssumption DEF AdmissionInv, TypeOK, Carries, LockIsHeldThroughout,
     RunsAreTheirCalls, Key
<1>2. CASE Acquire(c)
  BY <1>1, <1>2 DEF Acquire, AdmissionInv, TypeOK
<1>3. CASE Unlock(c) \/ CompensateLock(c)
  BY <1>1, <1>3 DEF Unlock, CompensateLock, Unlocked, AdmissionInv, TypeOK
<1>4. CASE \/ Reserve(c) \/ Admit(c) \/ RollBack(c) \/ CompensateRun(c) \/ CompensateKey(c)
           \/ FailStatement(c) \/ Crash(c)
  BY <1>1, <1>4 DEF Reserve, Admit, RollBack, CompensateRun, CompensateKey, FailStatement, Crash
<1> QED
  BY <1>2, <1>3, <1>4

\* Every step of a call that has arrived keeps the invariant.
LEMMA StepKeeps ==
  ASSUME AdmissionInv, NEW c \in Call,
         \/ Reserve(c) \/ Acquire(c) \/ Admit(c) \/ RollBack(c) \/ Unlock(c)
         \/ CompensateRun(c) \/ CompensateLock(c) \/ CompensateKey(c)
         \/ FailStatement(c) \/ Crash(c)
  PROVE  AdmissionInv'
<1>1. PICK f \in Frame :
        /\ Successor(c, f)
        /\ f # Idle => /\ f.pc \in Unbound => ~f.bound
                       /\ ~f.bound => ~call[c].bound /\ UNCHANGED run
                       /\ f.pc = "admit" => Acquire(c) /\ lock[call[c].key.project] = 0
                       /\ f.pc = "unlock" => Admit(c)
  BY StepGoes
<1>2. /\ call'[c] = f
      /\ \A d \in Call \ {c} : call'[d] = call[d]
      /\ call' \in [Call -> Frame]
  BY <1>1 DEF Successor, AdmissionInv, TypeOK
<1>3. call[c].pc # "idle"
  BY DEF Reserve, Acquire, Admit, RollBack, Unlock, CompensateRun, CompensateLock,
     CompensateKey, FailStatement, Crash
<1>4. UNCHANGED issued
  BY RowTypes
<1>5. TypeOK'
  BY <1>2, RowTypes DEF AdmissionInv, TypeOK
<1>6. ASSUME NEW d \in Call, call'[d].pc # "idle"
      PROVE  /\ call[d].pc # "idle"
             /\ call'[d].key = call[d].key
             /\ call'[d].content = call[d].content
             /\ call'[d].run = call[d].run
  BY <1>1, <1>2, <1>3, <1>6 DEF Successor, Idle
<1>7. RunsAreTheirCalls'
  BY <1>6 DEF RunsAreTheirCalls, AdmissionInv
<1>8. \A r \in Run : r # call[c].run => run'[r] = run[r]
  <2>1. CASE Admit(c)
    BY <2>1 DEF Admit, AdmissionInv, TypeOK
  <2>2. CASE ~Admit(c)
    BY <2>2, RunsChange
  <2> QED
    BY <2>1, <2>2
<1>9. \A d \in Call : Carries(d)'
  <2> SUFFICES ASSUME NEW d \in Call, call'[d].pc # "idle"
               PROVE  /\ call'[d].key \in Key
                      /\ call'[d].content \in Content
                      /\ call'[d].run \in 1 .. issued'
                      /\ call'[d].pc \in Unbound => ~call'[d].bound
                      /\ ~call'[d].bound => run'[call'[d].run].status = "ABSENT"
    BY DEF Carries
  <2>1. Carries(d)
    BY DEF AdmissionInv
  <2>2. CASE d = c
    BY <1>1, <1>2, <1>4, <1>6, <2>1, <2>2 DEF Carries, Idle
  <2>3. CASE d # c
    <3>1. call[d].run # call[c].run /\ call[d].run \in Run
      BY <1>3, <1>6, <2>1, <2>3, AdmissionAssumption
      DEF Carries, AdmissionInv, RunsAreTheirCalls, TypeOK, Run
    <3> QED
      BY <1>2, <1>4, <1>6, <1>8, <2>1, <2>3, <3>1 DEF Carries
  <2> QED
    BY <2>2, <2>3
<1>10. RowsAgree' /\ KeysNameTheirRuns'
  <2>1. CASE Admit(c)
    BY <2>1, AdmitAgrees
  <2>2. CASE ~Admit(c)
    <3>1. /\ UNCHANGED <<run, objective, binding>>
          /\ \A k \in Key : key[k].status = "ACTIVE" => key'[k] = key[k]
          /\ \A k \in Key : key'[k].status = "ACTIVE" => key'[k] = key[k]
          /\ \A k \in Key : key'[k].status = "RESERVED" => key'[k].run = 0
      BY <2>2, RunsChange
    <3>2. RowsAgree'
      BY <1>4, <3>1 DEF AdmissionInv, RowsAgree
    <3>3. KeysNameTheirRuns'
      <4> SUFFICES ASSUME NEW k \in Key, NEW r \in Run
                   PROVE  run'[r] = [status |-> "ADMITTED", key |-> k]
                            <=> key'[k].status = "ACTIVE" /\ key'[k].run = r
        BY DEF KeysNameTheirRuns
      <4>1. run[r] = [status |-> "ADMITTED", key |-> k] <=> key[k].status = "ACTIVE" /\ key[k].run = r
        BY DEF AdmissionInv, KeysNameTheirRuns
      <4>2. key[k].status = "ACTIVE" \/ key'[k].status = "ACTIVE" => key'[k] = key[k]
        BY <3>1
      <4>3. run' = run
        BY <3>1
      <4> QED
        BY <4>1, <4>2, <4>3
    <3> QED
      BY <3>2, <3>3
  <2> QED
    BY <2>1, <2>2
<1>11. LockIsHeldThroughout'
  <2> SUFFICES ASSUME NEW d \in Call, call'[d].pc \in {"admit", "unlock"}
               PROVE  lock'[call'[d].key.project] = call'[d].run
    BY DEF LockIsHeldThroughout
  <2>1. CASE d = c
    <3>1. f # Idle /\ f.key = call[c].key /\ f.run = call[c].run
      BY <1>1, <1>2, <2>1 DEF Successor, Idle
    <3>2. call[c].key.project \in Project
      BY <1>3 DEF AdmissionInv, Carries, Key
    <3>3. CASE f.pc = "admit"
      BY <1>1, <1>2, <2>1, <3>1, <3>2, <3>3 DEF Acquire, AdmissionInv, TypeOK
    <3>4. CASE f.pc = "unlock"
      <4>1. Admit(c)
        BY <1>1, <3>1, <3>4
      <4>2. lock' = lock /\ lock[call[c].key.project] = call[c].run
        BY <4>1 DEF Admit, AdmissionInv, LockIsHeldThroughout
      <4> QED
        BY <1>2, <2>1, <3>1, <4>2
    <3> QED
      BY <1>2, <2>1, <3>3, <3>4
  <2>2. CASE d # c
    BY <1>2, <2>2, LockStays
  <2> QED
    BY <2>1, <2>2
<1> QED
  BY <1>5, <1>7, <1>9, <1>10, <1>11 DEF AdmissionInv

\* A new call takes a run id nobody has had.
LEMMA ArriveKeeps ==
  ASSUME AdmissionInv, NEW c \in Call, NEW k \in Key, NEW v \in Content, Arrive(c, k, v)
  PROVE  AdmissionInv'
<1> DEFINE f == [Idle EXCEPT !.pc = "reserve", !.key = k, !.content = v, !.run = issued + 1]
<1>1. issued \in Nat /\ issued + 1 \in Run /\ issued' = issued + 1
  BY AdmissionAssumption DEF Arrive, AdmissionInv, TypeOK, Run
<1>2. /\ f \in Frame /\ f.pc = "reserve" /\ f.key = k /\ f.content = v
      /\ f.run = issued + 1 /\ ~f.bound
  BY <1>1, IdleIsFrame DEF Frame, PC, Idle
<1>3. /\ call'[c] = f
      /\ \A d \in Call \ {c} : call'[d] = call[d]
      /\ call' \in [Call -> Frame]
  BY <1>2 DEF Arrive, Become, AdmissionInv, TypeOK
<1> HIDE DEF f
<1>4. UNCHANGED <<key, lock, run, objective, binding, faults>>
  BY DEF Arrive
<1>5. TypeOK'
  BY <1>1, <1>3, <1>4 DEF AdmissionInv, TypeOK, Run
<1>6. \A d \in Call : Carries(d)'
  <2> SUFFICES ASSUME NEW d \in Call, call'[d].pc # "idle" PROVE Carries(d)'
    BY DEF Carries
  <2>1. CASE d = c
    <3>1. run[issued + 1].status = "ABSENT"
      BY <1>1 DEF AdmissionInv, RowsAgree
    <3> QED
      BY <1>1, <1>2, <1>3, <1>4, <2>1, <3>1 DEF Carries
  <2>2. CASE d # c
    BY <1>1, <1>3, <1>4, <2>2 DEF Carries, AdmissionInv
  <2> QED
    BY <2>1, <2>2
<1>7. RunsAreTheirCalls'
  <2>1. \A d \in Call \ {c} : call[d].pc # "idle" => call[d].run \in 1 .. issued
    BY DEF AdmissionInv, Carries
  <2> QED
    BY <1>1, <1>2, <1>3, <2>1 DEF RunsAreTheirCalls, AdmissionInv
<1>8. RowsAgree' /\ KeysNameTheirRuns'
  BY <1>1, <1>4 DEF RowsAgree, KeysNameTheirRuns, AdmissionInv, Run
<1>9. LockIsHeldThroughout'
  BY <1>2, <1>3, <1>4 DEF LockIsHeldThroughout, AdmissionInv
<1> QED
  BY <1>5, <1>6, <1>7, <1>8, <1>9 DEF AdmissionInv

\* In every reachable state keys, runs, objectives and locks agree.
THEOREM AdmissionAgrees == Spec => []AdmissionInv
<1>1. Init => AdmissionInv
  <2> SUFFICES ASSUME Init PROVE AdmissionInv
    OBVIOUS
  <2>1. TypeOK
    BY AdmissionAssumption, IdleIsFrame DEF Init, TypeOK, NoKey, KeyRow, RunRow
  <2>2. /\ \A c \in Call : Carries(c)
        /\ RunsAreTheirCalls
        /\ LockIsHeldThroughout
    BY DEF Init, Idle, Carries, RunsAreTheirCalls, LockIsHeldThroughout
  <2>3. RowsAgree
    BY DEF Init, RowsAgree, NoKey
  <2>4. KeysNameTheirRuns
    BY DEF Init, KeysNameTheirRuns, NoKey
  <2> QED
    BY <2>1, <2>2, <2>3, <2>4 DEF AdmissionInv
<1>2. AdmissionInv /\ [Next]_vars => AdmissionInv'
  <2> SUFFICES ASSUME AdmissionInv, [Next]_vars PROVE AdmissionInv'
    OBVIOUS
  <2>1. CASE UNCHANGED vars
    BY <2>1 DEF vars, AdmissionInv, TypeOK, Carries, RunsAreTheirCalls, RowsAgree,
       KeysNameTheirRuns, LockIsHeldThroughout
  <2>2. CASE Next
    BY <2>2, StepKeeps, ArriveKeeps DEF Next
  <2> QED
    BY <2>1, <2>2
<1> QED
  BY <1>1, <1>2, PTL DEF Spec

\* Every state of the specification has its type.
THEOREM AdmissionTypes == Spec => []TypeOK
<1>1. AdmissionInv => TypeOK
  BY DEF AdmissionInv
<1> QED
  BY <1>1, AdmissionAgrees, PTL

\* "Duplicate keys never create a second run": a run is the one its key names.
THEOREM KeysNameTheirRunsAlways == Spec => []KeysNameTheirRuns
<1>1. AdmissionInv => KeysNameTheirRuns
  BY DEF AdmissionInv
<1> QED
  BY <1>1, AdmissionAgrees, PTL

\* The lock of a project is its own run's from acquire to release.
THEOREM LockIsHeldAlways == Spec => []LockIsHeldThroughout
<1>1. AdmissionInv => LockIsHeldThroughout
  BY DEF AdmissionInv
<1> QED
  BY <1>1, AdmissionAgrees, PTL

\* The objective a run was admitted with stays what it was.
THEOREM ObjectiveIsImmutable == Spec => BoundObjectiveIsImmutable
<1>1. AdmissionInv /\ [Next]_vars =>
        [\A r \in Run : binding[r] # None =>
           binding'[r] = binding[r] /\ objective'[binding[r]] = objective[binding[r]]]_vars
  <2> SUFFICES ASSUME AdmissionInv, Next, NEW r \in Run, binding[r] # None
               PROVE  binding'[r] = binding[r] /\ objective'[binding[r]] = objective[binding[r]]
    OBVIOUS
  <2>1. run[r].status # "ABSENT" /\ objective[binding[r]] # None /\ binding[r] \in Project
    BY DEF AdmissionInv, RowsAgree, TypeOK
  <2>2. ASSUME NEW c \in Call, Admit(c)
        PROVE  binding'[r] = binding[r] /\ objective'[binding[r]] = objective[binding[r]]
    <3>1. run[call[c].run].status = "ABSENT"
      BY <2>2 DEF AdmissionInv, Carries, Unbound, Admit
    <3> QED
      BY <2>1, <2>2, <3>1 DEF Admit, Saved, AdmissionInv, TypeOK
  <2>3. ASSUME NEW c \in Call, NEW k \in Key, NEW v \in Content, Arrive(c, k, v)
        PROVE  UNCHANGED <<binding, objective>>
    BY <2>3 DEF Arrive
  <2> QED
    BY <2>2, <2>3, RunsChange DEF Next
<1> QED
  BY <1>1, AdmissionAgrees, PTL DEF Spec, BoundObjectiveIsImmutable

(***************************************************************************)
(* Conflicts clean up                                                      *)
(***************************************************************************)

Undecided == {"reserve", "acquire"} \cup Compensating
Reserving == {"acquire", "admit"} \cup Compensating

\* While nothing has failed, the flags of a call say where it is; each reservation
\* and each lock has the call that will settle it.
CleanUpInv ==
  faults = 0 =>
    /\ \A c \in Call :
         /\ call[c].pc \in Reserving => call[c].reserved
         /\ call[c].pc \in Undecided => ~call[c].locked /\ ~call[c].created /\ ~call[c].bound
    /\ \A k \in Key : key[k].status = "RESERVED" =>
         \E c \in Call : call[c].pc \in Reserving /\ call[c].key = k
    /\ \A p \in Project : lock[p] # 0 =>
         \E c \in Call : /\ call[c].pc \in {"admit", "unlock"}
                        /\ call[c].key.project = p /\ call[c].run = lock[p]

\* A step without a failure of a call that keeps its place among those that reserve,
\* or was not there, keeps every reservation with its call.
LEMMA ReservationsStay ==
  ASSUME AdmissionInv, CleanUpInv, faults = 0, NEW c \in Call, NEW f,
         call' = [call EXCEPT ![c] = f],
         \A k \in Key \ {call[c].key} : key'[k] = key[k],
         key'[call[c].key].status = "RESERVED" =>
           \/ f.pc \in Reserving /\ f.key = call[c].key
           \/ call[c].pc \notin Reserving /\ key'[call[c].key] = key[call[c].key]
  PROVE  \A k \in Key : key'[k].status = "RESERVED" =>
           \E d \in Call : call'[d].pc \in Reserving /\ call'[d].key = k
<1> SUFFICES ASSUME NEW k \in Key, key'[k].status = "RESERVED"
             PROVE  \E d \in Call : call'[d].pc \in Reserving /\ call'[d].key = k
  OBVIOUS
<1>0. /\ call'[c] = f
      /\ \A d \in Call \ {c} : call'[d] = call[d]
  BY DEF AdmissionInv, TypeOK
<1>1. CASE k = call[c].key /\ f.pc \in Reserving /\ f.key = call[c].key
  BY <1>0, <1>1
<1>2. CASE k = call[c].key /\ call[c].pc \notin Reserving /\ key'[k] = key[k]
  <2>1. PICK d \in Call : call[d].pc \in Reserving /\ call[d].key = k
    BY <1>2 DEF CleanUpInv
  <2> QED
    BY <1>0, <1>2, <2>1
<1>3. CASE k # call[c].key
  <2>1. PICK d \in Call : call[d].pc \in Reserving /\ call[d].key = k
    BY <1>3 DEF CleanUpInv
  <2> QED
    BY <1>0, <1>3, <2>1
<1> QED
  BY <1>1, <1>2, <1>3

\* The same for locks: a step that takes none and gives back its own.
LEMMA LocksStay ==
  ASSUME AdmissionInv, CleanUpInv, faults = 0, NEW c \in Call, NEW f,
         call' = [call EXCEPT ![c] = f],
         \A p \in Project : lock'[p] \in {0, lock[p]},
         call[c].pc \in {"admit", "unlock"} =>
           \/ lock'[call[c].key.project] = 0
           \/ /\ f.pc \in {"admit", "unlock"}
              /\ f.key = call[c].key /\ f.run = call[c].run
  PROVE  \A p \in Project : lock'[p] # 0 =>
           \E d \in Call : /\ call'[d].pc \in {"admit", "unlock"}
                          /\ call'[d].key.project = p /\ call'[d].run = lock'[p]
<1> SUFFICES ASSUME NEW p \in Project, lock'[p] # 0
             PROVE  \E d \in Call : /\ call'[d].pc \in {"admit", "unlock"}
                                   /\ call'[d].key.project = p /\ call'[d].run = lock'[p]
  OBVIOUS
<1>0. /\ call'[c] = f
      /\ \A d \in Call \ {c} : call'[d] = call[d]
  BY DEF AdmissionInv, TypeOK
<1>1. PICK d \in Call : /\ call[d].pc \in {"admit", "unlock"}
                       /\ call[d].key.project = p /\ call[d].run = lock[p]
  BY DEF CleanUpInv
<1>2. lock'[p] = lock[p]
  OBVIOUS
<1>3. CASE d = c
  BY <1>0, <1>1, <1>2, <1>3
<1>4. CASE d # c
  BY <1>0, <1>1, <1>2, <1>4
<1> QED
  BY <1>3, <1>4

\* "unbound reservation is released, lock is released": conflicts alone leave nothing
\* behind.
THEOREM ConflictsCleanUpAlways == Spec => []ConflictsCleanUp
<1> USE DEF Compensating, Undecided, Reserving
<1>1. Init => CleanUpInv
  BY DEF Init, CleanUpInv, Idle, NoKey
<1>2. AdmissionInv /\ CleanUpInv /\ [Next]_vars => CleanUpInv'
  <2> SUFFICES ASSUME AdmissionInv, CleanUpInv, [Next]_vars, faults' = 0 PROVE CleanUpInv'
    BY DEF CleanUpInv
  <2>1. CASE UNCHANGED vars
    BY <2>1 DEF vars, CleanUpInv
  <2>2. faults \in Nat /\ (Fault => faults' # 0)
    BY DEF AdmissionInv, TypeOK, Fault
  <2>3. ASSUME NEW c \in Call, NEW f,
               call' = [call EXCEPT ![c] = f], faults = 0,
               f.pc \in Reserving => f.reserved,
               f.pc \in Undecided => ~f.locked /\ ~f.created /\ ~f.bound,
               \A k \in Key : key'[k].status = "RESERVED" =>
                 \E d \in Call : call'[d].pc \in Reserving /\ call'[d].key = k,
               \A p \in Project : lock'[p] # 0 =>
                 \E d \in Call : /\ call'[d].pc \in {"admit", "unlock"}
                                /\ call'[d].key.project = p /\ call'[d].run = lock'[p]
        PROVE  CleanUpInv'
    <3>1. call'[c] = f /\ \A d \in Call \ {c} : call'[d] = call[d]
      BY <2>3 DEF AdmissionInv, TypeOK
    <3> QED
      BY <2>3, <3>1 DEF CleanUpInv
  <2>4. ASSUME NEW c \in Call, NEW k \in Key, NEW v \in Content, Arrive(c, k, v)
        PROVE  CleanUpInv'
    <3> DEFINE f == [Idle EXCEPT !.pc = "reserve", !.key = k, !.content = v, !.run = issued + 1]
    <3>1. f.pc = "reserve" /\ ~f.locked /\ ~f.created /\ ~f.bound
      BY DEF Idle
    <3>2. call' = [call EXCEPT ![c] = f] /\ call[c].pc = "idle" /\ UNCHANGED <<key, lock, faults>>
      BY <2>4 DEF Arrive, Become
    <3> HIDE DEF f
    <3>3. faults = 0
      BY <3>2
    <3>4. \A l \in Key : key'[l].status = "RESERVED" =>
            \E d \in Call : call'[d].pc \in Reserving /\ call'[d].key = l
      BY <3>1, <3>2, <3>3, ReservationsStay
    <3>5. \A p \in Project : lock'[p] # 0 =>
            \E d \in Call : /\ call'[d].pc \in {"admit", "unlock"}
                           /\ call'[d].key.project = p /\ call'[d].run = lock'[p]
      BY <3>1, <3>2, <3>3, LocksStay
    <3> QED
      BY <2>3, <3>1, <3>2, <3>3, <3>4, <3>5
  <2>5. ASSUME NEW c \in Call,
               \/ Reserve(c) \/ Acquire(c) \/ Admit(c) \/ RollBack(c) \/ Unlock(c)
               \/ CompensateRun(c) \/ CompensateLock(c) \/ CompensateKey(c)
               \/ FailStatement(c) \/ Crash(c)
        PROVE  CleanUpInv'
    <3> DEFINE me == call[c]
    <3>0. /\ me \in Frame
          /\ me.pc # "idle"
          /\ me.key \in Key /\ me.key.project \in Project
      BY <2>5 DEF AdmissionInv, TypeOK, Carries, Key, Reserve, Acquire, Admit, RollBack, Unlock,
         CompensateRun, CompensateLock, CompensateKey, FailStatement, Crash
    <3>1. /\ faults = 0 => (me.pc \in Reserving => me.reserved)
          /\ faults = 0 => (me.pc \in Undecided => ~me.locked /\ ~me.created /\ ~me.bound)
      BY DEF CleanUpInv
    <3> HIDE DEF me
    <3>2. CASE Reserve(c)
      <4>1. me.pc = "reserve" /\ UNCHANGED lock
        BY <3>2 DEF Reserve, me
      <4>2. CASE key[me.key].status = "ABSENT"
        <5> DEFINE f == [me EXCEPT !.pc = "acquire", !.reserved = TRUE]
        <5>1. /\ f.pc = "acquire" /\ f.reserved /\ f.key = me.key
              /\ f.locked = me.locked /\ f.created = me.created /\ f.bound = me.bound
          BY <3>0 DEF Frame
        <5>2. call' = [call EXCEPT ![c] = f] /\ faults = 0
          BY <2>2, <3>2, <4>2 DEF Reserve, Answered, Become, me
        <5>3. \A k \in Key \ {me.key} : key'[k] = key[k]
          BY <3>0, <3>2, <4>2 DEF Reserve, AdmissionInv, TypeOK, me
        <5> HIDE DEF f
        <5>4. \A l \in Key : key'[l].status = "RESERVED" =>
                \E d \in Call : call'[d].pc \in Reserving /\ call'[d].key = l
          BY <5>1, <5>2, <5>3, ReservationsStay DEF me
        <5>5. \A p \in Project : lock'[p] # 0 =>
                \E d \in Call : /\ call'[d].pc \in {"admit", "unlock"}
                               /\ call'[d].key.project = p /\ call'[d].run = lock'[p]
          BY <4>1, <5>2, LocksStay DEF me
        <5> QED
          BY <2>3, <3>1, <4>1, <5>1, <5>2, <5>4, <5>5
      <4>3. CASE key[me.key].status # "ABSENT"
        <5>1. call' = [call EXCEPT ![c] = Idle] /\ faults = 0 /\ UNCHANGED key
          BY <3>2, <4>3 DEF Reserve, Leave, Become, me
        <5>2. Idle.pc = "idle"
          BY DEF Idle
        <5>4. \A l \in Key : key'[l].status = "RESERVED" =>
                \E d \in Call : call'[d].pc \in Reserving /\ call'[d].key = l
          BY <4>1, <5>1, ReservationsStay DEF me
        <5>5. \A p \in Project : lock'[p] # 0 =>
                \E d \in Call : /\ call'[d].pc \in {"admit", "unlock"}
                               /\ call'[d].key.project = p /\ call'[d].run = lock'[p]
          BY <4>1, <5>1, LocksStay DEF me
        <5> QED
          BY <2>3, <5>1, <5>2, <5>4, <5>5
      <4> QED
        BY <4>2, <4>3
    <3>3. CASE Acquire(c)
      <4>1. me.pc = "acquire" /\ UNCHANGED key
        BY <3>3 DEF Acquire, me
      <4>2. CASE lock[me.key.project] = 0
        <5> DEFINE f == [me EXCEPT !.pc = "admit", !.locked = TRUE]
        <5>1. f.pc = "admit" /\ f.reserved = me.reserved /\ f.key = me.key /\ f.run = me.run
          BY <3>0 DEF Frame
        <5>2. /\ call' = [call EXCEPT ![c] = f] /\ faults = 0
              /\ lock' = [lock EXCEPT ![me.key.project] = me.run]
          BY <2>2, <3>3, <4>2 DEF Acquire, Answered, Become, me
        <5> HIDE DEF f
        <5>3. \A l \in Key : key'[l].status = "RESERVED" =>
                \E d \in Call : call'[d].pc \in Reserving /\ call'[d].key = l
          BY <4>1, <5>1, <5>2, ReservationsStay DEF me
        <5>4. ASSUME NEW p \in Project, lock'[p] # 0
              PROVE  \E d \in Call : /\ call'[d].pc \in {"admit", "unlock"}
                                    /\ call'[d].key.project = p /\ call'[d].run = lock'[p]
          <6>1. call'[c] = f /\ \A d \in Call \ {c} : call'[d] = call[d]
            BY <5>2 DEF AdmissionInv, TypeOK
          <6>2. CASE p = me.key.project
            BY <3>0, <5>1, <5>2, <6>1, <6>2 DEF AdmissionInv, TypeOK
          <6>3. CASE p # me.key.project
            <7>1. lock'[p] = lock[p]
              BY <5>2, <6>3 DEF AdmissionInv, TypeOK
            <7>2. PICK d \in Call : /\ call[d].pc \in {"admit", "unlock"}
                                   /\ call[d].key.project = p /\ call[d].run = lock[p]
              BY <5>2, <5>4, <7>1 DEF CleanUpInv
            <7>3. d # c
              BY <4>1, <7>2 DEF me
            <7> QED
              BY <6>1, <7>1, <7>2, <7>3
          <6> QED
            BY <6>2, <6>3
        <5> QED
          BY <2>3, <3>1, <4>1, <5>1, <5>2, <5>3, <5>4
      <4>3. CASE lock[me.key.project] # 0
        <5> DEFINE f == [me EXCEPT !.pc = "compensateRun"]
        <5>1. /\ f.pc = "compensateRun" /\ f.reserved = me.reserved /\ f.key = me.key
              /\ f.locked = me.locked /\ f.created = me.created /\ f.bound = me.bound
          BY <3>0 DEF Frame
        <5>2. call' = [call EXCEPT ![c] = f] /\ faults = 0 /\ UNCHANGED lock
          BY <3>3, <4>1, <4>3 DEF Acquire, Throw, Become, me
        <5> HIDE DEF f
        <5>3. \A l \in Key : key'[l].status = "RESERVED" =>
                \E d \in Call : call'[d].pc \in Reserving /\ call'[d].key = l
          BY <4>1, <5>1, <5>2, ReservationsStay DEF me
        <5>4. \A p \in Project : lock'[p] # 0 =>
                \E d \in Call : /\ call'[d].pc \in {"admit", "unlock"}
                               /\ call'[d].key.project = p /\ call'[d].run = lock'[p]
          BY <4>1, <5>2, LocksStay DEF me
        <5> QED
          BY <2>3, <3>1, <4>1, <5>1, <5>2, <5>3, <5>4
      <4> QED
        BY <4>2, <4>3
    <3>4. CASE Admit(c)
      <4> DEFINE f == [[me EXCEPT !.created = TRUE, !.bound = TRUE] EXCEPT !.pc = "unlock"]
      <4>1. f.pc = "unlock" /\ f.key = me.key /\ f.run = me.run
        BY <3>0 DEF Frame
      <4>2. /\ call' = [call EXCEPT ![c] = f] /\ faults = 0 /\ UNCHANGED lock
            /\ key'[me.key].status = "ACTIVE"
            /\ \A k \in Key \ {me.key} : key'[k] = key[k]
        <5>1. Become(c, f) /\ UNCHANGED <<faults, lock>>
          BY <2>2, <3>4 DEF Admit, me
        <5>2. key' = [key EXCEPT ![me.key].status = "ACTIVE", ![me.key].run = me.run]
          BY <3>4 DEF Admit, me
        <5> QED
          BY <3>0, <5>1, <5>2 DEF Become, AdmissionInv, TypeOK, KeyRow
      <4> HIDE DEF f
      <4>3. \A l \in Key : key'[l].status = "RESERVED" =>
              \E d \in Call : call'[d].pc \in Reserving /\ call'[d].key = l
        BY <4>2, ReservationsStay DEF me
      <4>4. \A p \in Project : lock'[p] # 0 =>
              \E d \in Call : /\ call'[d].pc \in {"admit", "unlock"}
                             /\ call'[d].key.project = p /\ call'[d].run = lock'[p]
        BY <4>1, <4>2, LocksStay DEF me
      <4> QED
        BY <2>3, <4>1, <4>2, <4>3, <4>4
    <3>5. CASE Unlock(c)
      <4>1. /\ me.pc = "unlock" /\ UNCHANGED key
            /\ call' = [call EXCEPT ![c] = Idle] /\ faults = 0
            /\ lock' = Unlocked(me.key.project, me.run)
        BY <2>2, <3>5 DEF Unlock, Answered, Become, me
      <4>2. lock[me.key.project] = me.run
        BY <4>1 DEF AdmissionInv, LockIsHeldThroughout, me
      <4>3. /\ lock'[me.key.project] = 0
            /\ \A p \in Project : lock'[p] \in {0, lock[p]}
        BY <3>0, <4>1, <4>2 DEF Unlocked, AdmissionInv, TypeOK
      <4>4. \A l \in Key : key'[l].status = "RESERVED" =>
              \E d \in Call : call'[d].pc \in Reserving /\ call'[d].key = l
        BY <4>1, ReservationsStay DEF me
      <4>5. \A p \in Project : lock'[p] # 0 =>
              \E d \in Call : /\ call'[d].pc \in {"admit", "unlock"}
                             /\ call'[d].key.project = p /\ call'[d].run = lock'[p]
        BY <4>1, <4>3, LocksStay DEF me
      <4>6. Idle.pc = "idle"
        BY DEF Idle
      <4> QED
        BY <2>3, <4>1, <4>4, <4>5, <4>6
    <3>6. CASE CompensateRun(c)
      <4> DEFINE f == [me EXCEPT !.pc = "compensateLock"]
      <4>1. /\ f.pc = "compensateLock" /\ f.reserved = me.reserved /\ f.key = me.key
            /\ f.locked = me.locked /\ f.created = me.created /\ f.bound = me.bound
        BY <3>0 DEF Frame
      <4>2. me.pc = "compensateRun" /\ faults = 0 /\ UNCHANGED <<key, lock>>
        BY <3>6 DEF CompensateRun, me
      <4>3. call' = [call EXCEPT ![c] = f]
        BY <3>1, <3>6, <4>2 DEF CompensateRun, Become, me
      <4> HIDE DEF f
      <4>4. \A l \in Key : key'[l].status = "RESERVED" =>
              \E d \in Call : call'[d].pc \in Reserving /\ call'[d].key = l
        BY <4>1, <4>2, <4>3, ReservationsStay DEF me
      <4>5. \A p \in Project : lock'[p] # 0 =>
              \E d \in Call : /\ call'[d].pc \in {"admit", "unlock"}
                             /\ call'[d].key.project = p /\ call'[d].run = lock'[p]
        BY <4>2, <4>3, LocksStay DEF me
      <4> QED
        BY <2>3, <3>1, <4>1, <4>2, <4>3, <4>4, <4>5
    <3>7. CASE CompensateLock(c)
      <4> DEFINE f == [me EXCEPT !.pc = "compensateKey"]
      <4>1. /\ f.pc = "compensateKey" /\ f.reserved = me.reserved /\ f.key = me.key
            /\ f.locked = me.locked /\ f.created = me.created /\ f.bound = me.bound
        BY <3>0 DEF Frame
      <4>2. /\ me.pc = "compensateLock" /\ faults = 0 /\ UNCHANGED key
            /\ call' = [call EXCEPT ![c] = f]
        BY <2>2, <3>7 DEF CompensateLock, Answered, Become, me
      <4>3. UNCHANGED lock
        BY <3>1, <3>7, <4>2 DEF CompensateLock, me
      <4> HIDE DEF f
      <4>4. \A l \in Key : key'[l].status = "RESERVED" =>
              \E d \in Call : call'[d].pc \in Reserving /\ call'[d].key = l
        BY <4>1, <4>2, ReservationsStay DEF me
      <4>5. \A p \in Project : lock'[p] # 0 =>
              \E d \in Call : /\ call'[d].pc \in {"admit", "unlock"}
                             /\ call'[d].key.project = p /\ call'[d].run = lock'[p]
        BY <4>2, <4>3, LocksStay DEF me
      <4> QED
        BY <2>3, <3>1, <4>1, <4>2, <4>4, <4>5
    <3>8. CASE CompensateKey(c)
      <4>1. /\ me.pc = "compensateKey" /\ faults = 0 /\ UNCHANGED lock
            /\ call' = [call EXCEPT ![c] = Idle]
        BY <3>8 DEF CompensateKey, Leave, Become, me
      <4>2. /\ key'[me.key].status # "RESERVED"
            /\ \A k \in Key \ {me.key} : key'[k] = key[k]
        <5>1. key[me.key].status = "RESERVED" => key[me.key].run = 0
          BY <3>0 DEF AdmissionInv, RowsAgree
        <5> QED
          BY <3>0, <3>1, <3>8, <4>1, <5>1 DEF CompensateKey, NoKey, AdmissionInv, TypeOK, me
      <4>3. \A l \in Key : key'[l].status = "RESERVED" =>
              \E d \in Call : call'[d].pc \in Reserving /\ call'[d].key = l
        BY <4>1, <4>2, ReservationsStay DEF me
      <4>4. \A p \in Project : lock'[p] # 0 =>
              \E d \in Call : /\ call'[d].pc \in {"admit", "unlock"}
                             /\ call'[d].key.project = p /\ call'[d].run = lock'[p]
        BY <4>1, LocksStay DEF me
      <4>5. Idle.pc = "idle"
        BY DEF Idle
      <4> QED
        BY <2>3, <4>1, <4>3, <4>4, <4>5
    <3>9. CASE RollBack(c) \/ FailStatement(c) \/ Crash(c)
      BY <2>2, <3>9 DEF RollBack, FailStatement, Crash
    <3> QED
      BY <2>5, <3>2, <3>3, <3>4, <3>5, <3>6, <3>7, <3>8, <3>9
  <2> QED
    BY <2>1, <2>4, <2>5 DEF Next
<1>3. AdmissionInv /\ CleanUpInv => ConflictsCleanUp
  <2> SUFFICES ASSUME AdmissionInv, CleanUpInv, faults = 0
               PROVE  /\ \A k \in Key : key[k].status = "RESERVED" =>
                            \E c \in Call : call[c].pc # "idle" /\ call[c].key = k /\ call[c].reserved
                      /\ \A p \in Project : lock[p] # 0 => \E c \in Call : call[c].run = lock[p]
    BY DEF ConflictsCleanUp
  <2> QED
    BY DEF CleanUpInv
<1> QED
  BY <1>1, <1>2, <1>3, AdmissionAgrees, PTL DEF Spec
=============================================================================
