------------------------------ MODULE Admission ------------------------------
(***************************************************************************)
(* ObjectiveAdmissionService over its PostgreSQL stores: how a request     *)
(* becomes a run.                                                          *)
(*                                                                         *)
(*     look up the idempotency key -> reserve it -> acquire the project's  *)
(*     lock -> one transaction: run RECEIVED, ADMITTED, event, key bound,  *)
(*     objective saved and bound to the run -> release the lock            *)
(*                                                                         *)
(* An exception anywhere from reserve on ends in compensate, with what the *)
(* local variables reserved, locked, created and bound say was done.  The  *)
(* statements outside of the transaction stand for themselves: each may    *)
(* have reached the database although the caller gets an exception.        *)
(*                                                                         *)
(* All requests name one objective in one version; they differ in project, *)
(* environment and content.  Content stands for the fingerprint as well.   *)
(***************************************************************************)
EXTENDS Integers

CONSTANTS Call,         \* concurrent calls of admit
          Project, Environment, Content,
          None,
          MaxRuns,      \* bound: run ids that are handed out
          MaxFaults     \* bound: crashes and failed statements

ASSUME AdmissionAssumption ==
  /\ None \notin Project \cup Content \cup [project: Project, environment: Environment]
  /\ MaxRuns \in Nat
  /\ MaxFaults \in Nat

VARIABLES
  key,        \* the rows of idempotency_keys
  lock,       \* the rows of project_locks: the run that holds it
  run,        \* the rows of runs, each with its admission event
  objective,  \* the rows of objectives
  binding,    \* the rows of objective_run_bindings: the project of the objective
  issued,     \* how many run ids identities.next() has handed out
  call,       \* where each call is
  faults      \* how much has gone wrong

vars == <<key, lock, run, objective, binding, issued, call, faults>>

\* objectiveIdempotencyKey: objective and version are the same for all.
Key == [project: Project, environment: Environment]

Run == 1 .. MaxRuns

\* markCompleted, the way to COMPLETED, is called by nobody.
KeyRow == [status: {"ABSENT", "RESERVED", "ACTIVE"}, content: Content \cup {None},
           run: Run \cup {0}]

NoKey == [status |-> "ABSENT", content |-> None, run |-> 0]

RunRow == [status: {"ABSENT", "ADMITTED", "CANCELLED"}, key: Key \cup {None}]

PC == {"idle", "reserve", "acquire", "admit", "unlock",
       "compensateRun", "compensateLock", "compensateKey"}

\* The local variables of admit.
Frame == [pc: PC, key: Key \cup {None}, content: Content \cup {None}, run: Run \cup {0},
          reserved: BOOLEAN, locked: BOOLEAN, created: BOOLEAN, bound: BOOLEAN]

TypeOK ==
  /\ key \in [Key -> KeyRow]
  /\ lock \in [Project -> Run \cup {0}]
  /\ run \in [Run -> RunRow]
  /\ objective \in [Project -> Content \cup {None}]
  /\ binding \in [Run -> Project \cup {None}]
  /\ issued \in 0 .. MaxRuns
  /\ call \in [Call -> Frame]
  /\ faults \in 0 .. MaxFaults

Idle == [pc |-> "idle", key |-> None, content |-> None, run |-> 0,
         reserved |-> FALSE, locked |-> FALSE, created |-> FALSE, bound |-> FALSE]

Init ==
  /\ key = [k \in Key |-> NoKey]
  /\ lock = [p \in Project |-> 0]
  /\ run = [r \in Run |-> [status |-> "ABSENT", key |-> None]]
  /\ objective = [p \in Project |-> None]
  /\ binding = [r \in Run |-> None]
  /\ issued = 0
  /\ call = [c \in Call |-> Idle]
  /\ faults = 0

Become(c, frame) == call' = [call EXCEPT ![c] = frame]
Leave(c)         == Become(c, Idle)

\* Something goes wrong, once more.
Fault == faults < MaxFaults /\ faults' = faults + 1

\* An exception: inside of the try block it leads to compensate, in compensate
\* to ADMISSION_COMPENSATION_FAILED.
Throw(c, frame) ==
  Become(c, IF frame.pc \in {"compensateRun", "compensateLock", "compensateKey"}
            THEN Idle ELSE [frame EXCEPT !.pc = "compensateRun"])

\* A statement has been executed: the caller learns of it, or it does not.
Answered(c, frame) ==
  \/ Become(c, frame) /\ UNCHANGED faults
  \/ Throw(c, call[c]) /\ Fault

-----------------------------------------------------------------------------
(* admit                                                                    *)

\* A bound key answers ..._DUPLICATE, another content OBJECTIVE_VERSION_CONFLICT;
\* a key that is RESERVED without a run is left to reserve.
Arrive(c, k, v) ==
  /\ call[c].pc = "idle"
  /\ key[k].status # "ACTIVE"
  /\ key[k].status = "RESERVED" => key[k].content = v
  /\ issued < MaxRuns
  /\ issued' = issued + 1
  /\ Become(c, [Idle EXCEPT !.pc = "reserve", !.key = k, !.content = v, !.run = issued + 1])
  /\ UNCHANGED <<key, lock, run, objective, binding, faults>>

\* INSERT ... ON CONFLICT DO NOTHING; whatever is there already ends the call.
Reserve(c) ==
  LET me == call[c] IN
  /\ me.pc = "reserve"
  /\ IF key[me.key].status = "ABSENT"
     THEN /\ key' = [key EXCEPT ![me.key] = [status |-> "RESERVED", content |-> me.content, run |-> 0]]
          /\ Answered(c, [me EXCEPT !.pc = "acquire", !.reserved = TRUE])
     ELSE Leave(c) /\ UNCHANGED <<key, faults>>
  /\ UNCHANGED <<lock, run, objective, binding, issued>>

\* Mutant: the conflict is returned, not thrown.
Acquire_Returns(c) ==
  LET me == call[c] p == me.key.project IN
  /\ me.pc = "acquire"
  /\ IF lock[p] = 0
     THEN /\ lock' = [lock EXCEPT ![p] = me.run]
          /\ Answered(c, [me EXCEPT !.pc = "admit", !.locked = TRUE])
     ELSE Leave(c) /\ UNCHANGED <<lock, faults>>
  /\ UNCHANGED <<key, run, objective, binding, issued>>

\* PROJECT_LOCK_CONFLICT is thrown; expires_at of the lock is read by nobody.
Acquire(c) ==
  LET me == call[c] p == me.key.project IN
  /\ me.pc = "acquire"
  /\ IF lock[p] = 0
     THEN /\ lock' = [lock EXCEPT ![p] = me.run]
          /\ Answered(c, [me EXCEPT !.pc = "admit", !.locked = TRUE])
     ELSE Throw(c, me) /\ UNCHANGED <<lock, faults>>
  /\ UNCHANGED <<key, run, objective, binding, issued>>

\* Mutant: a second environment overwrites the objective.
Saved_Overwrites(p, v) == v

\* objectives.save: ON CONFLICT DO NOTHING.
Saved(p, v) == IF objective[p] = None THEN v ELSE objective[p]

\* runs.create, the unique index on the key of a run, and idempotency.complete.
MayAdmit(c) ==
  /\ \A r \in Run : run[r].status # "ABSENT" => run[r].key # call[c].key
  /\ key[call[c].key].status = "RESERVED"

\* Mutant: bindRun comes before objectives.save and finds no row.
BoundProjects_Early(saved) ==
  IF \A q \in Project : objective[q] = None THEN {""} ELSE {q \in Project : objective[q] # None}

\* bindRun takes any row that has the objective's id and version.
BoundProjects(saved) == {q \in Project : saved[q] # None}

\* COMMIT.
Admit(c) ==
  LET me == call[c] p == me.key.project
      done == [me EXCEPT !.created = TRUE, !.bound = TRUE]
  IN
  /\ me.pc = "admit" /\ MayAdmit(c)
  /\ run' = [run EXCEPT ![me.run] = [status |-> "ADMITTED", key |-> me.key]]
  /\ key' = [key EXCEPT ![me.key].status = "ACTIVE", ![me.key].run = me.run]
  /\ objective' = [objective EXCEPT ![p] = Saved(p, me.content)]
  /\ \E q \in BoundProjects(objective') : binding' = [binding EXCEPT ![me.run] = q]
  /\ \/ Become(c, [done EXCEPT !.pc = "unlock"]) /\ UNCHANGED faults
     \/ Throw(c, done) /\ Fault
  /\ UNCHANGED <<lock, issued>>

\* ROLLBACK: the local variables keep what the transaction had reached.
RollBack(c) ==
  /\ call[c].pc = "admit"
  /\ \E created, bound \in BOOLEAN :
       /\ bound => created
       /\ Throw(c, [call[c] EXCEPT !.created = created, !.bound = bound])
  /\ Fault
  /\ UNCHANGED <<key, lock, run, objective, binding, issued>>

\* Mutant: DELETE FROM project_locks WHERE project_id = $1
Unlocked_ByProject(p, r) == [lock EXCEPT ![p] = 0]

\* DELETE FROM project_locks WHERE project_id = $1 AND run_id = $2
Unlocked(p, r) == IF lock[p] = r THEN [lock EXCEPT ![p] = 0] ELSE lock

Unlock(c) ==
  LET me == call[c] IN
  /\ me.pc = "unlock"
  /\ lock' = Unlocked(me.key.project, me.run)
  /\ Answered(c, Idle)
  /\ UNCHANGED <<key, run, objective, binding, issued>>

-----------------------------------------------------------------------------
(* compensate                                                               *)

\* Mutant: skipRunCompensation is not looked at.
CompensateRun_EvenBound(c) ==
  LET me == call[c] IN
  /\ me.pc = "compensateRun"
  /\ IF me.created /\ run[me.run].status = "ABSENT"
     THEN Leave(c) /\ UNCHANGED run
     ELSE /\ run' = IF me.created THEN [run EXCEPT ![me.run].status = "CANCELLED"] ELSE run
          /\ Become(c, [me EXCEPT !.pc = "compensateLock"])
  /\ UNCHANGED <<key, lock, objective, binding, issued, faults>>

\* commitRunTransition throws "Unknown run" when the run was rolled back, and
\* the rest of compensate is not reached.
CompensateRun(c) ==
  LET me == call[c]
      undo == me.created /\ ~me.bound
  IN
  /\ me.pc = "compensateRun"
  /\ IF undo /\ run[me.run].status = "ABSENT"
     THEN Leave(c) /\ UNCHANGED run
     ELSE /\ run' = IF undo THEN [run EXCEPT ![me.run].status = "CANCELLED"] ELSE run
          /\ Become(c, [me EXCEPT !.pc = "compensateLock"])
  /\ UNCHANGED <<key, lock, objective, binding, issued, faults>>

CompensateLock(c) ==
  LET me == call[c] IN
  /\ me.pc = "compensateLock"
  /\ lock' = IF me.locked THEN Unlocked(me.key.project, me.run) ELSE lock
  /\ Answered(c, [me EXCEPT !.pc = "compensateKey"])
  /\ UNCHANGED <<key, run, objective, binding, issued>>

\* idempotency.release: DELETE ... WHERE status = 'RESERVED' AND run_id IS NULL.
CompensateKey(c) ==
  LET me == call[c] row == key[me.key] IN
  /\ me.pc = "compensateKey"
  /\ key' = IF me.reserved /\ ~me.bound /\ row.status = "RESERVED" /\ row.run = 0
            THEN [key EXCEPT ![me.key] = NoKey] ELSE key
  /\ Leave(c)
  /\ UNCHANGED <<lock, run, objective, binding, issued, faults>>

-----------------------------------------------------------------------------
(* The environment                                                          *)

\* A statement fails before it has changed anything.
FailStatement(c) ==
  /\ call[c].pc \notin {"idle", "admit"}
  /\ Throw(c, call[c])
  /\ Fault
  /\ UNCHANGED <<key, lock, run, objective, binding, issued>>

Crash(c) ==
  /\ call[c].pc # "idle"
  /\ Leave(c)
  /\ Fault
  /\ UNCHANGED <<key, lock, run, objective, binding, issued>>

Next ==
  \E c \in Call :
    \/ \E k \in Key, v \in Content : Arrive(c, k, v)
    \/ Reserve(c) \/ Acquire(c) \/ Admit(c) \/ RollBack(c) \/ Unlock(c)
    \/ CompensateRun(c) \/ CompensateLock(c) \/ CompensateKey(c)
    \/ FailStatement(c) \/ Crash(c)

Spec == Init /\ [][Next]_vars

-----------------------------------------------------------------------------
(* Safety                                                                   *)

\* "Duplicate keys never create a second run": a run is the one its key names,
\* so that a repeated request is answered with it, whatever failed meanwhile; a
\* run that the key names was not cancelled by the compensation of its call.
KeysNameTheirRuns ==
  \A k \in Key, r \in Run :
    run[r] = [status |-> "ADMITTED", key |-> k] <=> key[k].status = "ACTIVE" /\ key[k].run = r

\* The lock of a project is its own run's from acquire to release, also when an
\* earlier call repeats a release whose answer it did not get.
LockIsHeldThroughout ==
  \A c \in Call :
    call[c].pc \in {"admit", "unlock"} =>
      lock[call[c].key.project] = call[c].run

\* Conflicts alone leave nothing behind: without a failure, a reservation or a
\* lock always belongs to a call that is still at work on it.
ConflictsCleanUp ==
  faults = 0 =>
    /\ \A k \in Key : key[k].status = "RESERVED" =>
         \E c \in Call : call[c].pc # "idle" /\ call[c].key = k /\ call[c].reserved
    /\ \A p \in Project : lock[p] # 0 => \E c \in Call : call[c].run = lock[p]

\* The objective a run was admitted with stays what it was, though the same
\* objective is submitted with another content for another environment.
BoundObjectiveIsImmutable ==
  [][\A r \in Run : binding[r] # None =>
       binding'[r] = binding[r] /\ objective'[binding[r]] = objective[binding[r]]]_vars

-----------------------------------------------------------------------------
(* What the documentation says, and the code does not do                    *)

\* "If a later step fails after reserve/lock/create: unbound reservation is
\* released, lock is released": a call that comes to the end of compensate by
\* itself has given back what it knows it has.
CompensationReleases ==
  [][\A c \in Call :
       (CompensateRun(c) \/ CompensateKey(c)) /\ call'[c].pc = "idle" =>
         /\ call[c].locked => lock'[call[c].key.project] # call[c].run
         /\ call[c].reserved /\ ~call[c].bound => key'[call[c].key].status # "RESERVED"]_vars
=============================================================================
