------------------------------ MODULE Recovery ------------------------------
(***************************************************************************)
(* Revenue recovery: one lead, the case opened for it, and the runs that   *)
(* the case is bound to, one after the other.                              *)
(*                                                                         *)
(*   detect:   read the timeline; insert the case                          *)
(*   prepare:  read the case; admit the run of objective version 1; save   *)
(*   append:   save an event; list the open cases; read the case and the   *)
(*             events, save the new status, up to three times              *)
(*   replace:  one transaction under an advisory lock: prove that planning *)
(*             failed for a known defect; a run of the same version takes  *)
(*             the place of the failed one                                 *)
(*   reissue:  one transaction under another lock: a run of the next       *)
(*             version takes the place of a rejected one                   *)
(*   outreach: a step of the run's execution: read the case; evaluate the  *)
(*             contact policy; send; save the attempt; append its event    *)
(*                                                                         *)
(* The case is saved by compare-and-set on its revision; instead of the    *)
(* number, each call keeps whether the case was saved since it has read    *)
(* it.  How a run is planned, decided and executed is reduced to what      *)
(* replacing it rests on.                                                  *)
(***************************************************************************)
EXTENDS Naturals, FiniteSets

CONSTANTS Call,          \* concurrent calls
          Steps,         \* outreach steps of an approved plan
          MaxAttempts,   \* the configuration's attempt limit of the one channel
          MaxRuns,       \* bound: runs of the case
          MaxFaults      \* bound: crashes

VARIABLES lead,      \* revenue_recovery_cases: the lead's case
          runs,      \* runs, with their planning fence and execution steps
          lineage,   \* audit: RECOVERY_RUN_REPLACED, RECOVERY_OBJECTIVE_REISSUED
          timeline,  \* revenue_recovery_lead_events, by kind
          attempts,  \* revenue_recovery_attempts, counted
          sent,      \* ghost: messages the provider was given
          optedOut,  \* ghost: the case has been SUPPRESSED
          call, faults

vars == <<lead, runs, lineage, timeline, attempts, sent, optedOut, call, faults>>
caseVars == <<lead, optedOut>>
outreachVars == <<timeline, attempts, sent>>

Run == 1 .. MaxRuns

\* MAX_GOVERNED_SYSTEM_DEFECT_RUN_ATTEMPT
MaxRunAttempt == 3

\* Planning failures that prove a system defect.
EvidenceClass == {"TOKEN_RESERVATION_EXHAUSTION", "POST_MODEL_DETERMINISTIC_FAILURE"}

\* An answer, and the one event that ends everything.
LeadEvent == {"INBOUND_MESSAGE", "DO_NOT_CONTACT"}

Case ==
  [status: {"NONE", "OPEN", "READY_FOR_ORCHESTRATION", "IN_ORCHESTRATION", "ENGAGED",
            "SUPPRESSED"},
   run: 0 .. MaxRuns, version: 1 .. MaxRuns]

NoCase == [status |-> "NONE", run |-> 0, version |-> 1]

RunRecord ==
  [state: {"NONE", "ADMITTED", "PLANNING", "VALIDATING", "EXECUTING", "HALTED", "REJECTED",
           "SUPERSEDED"},
   version: 1 .. MaxRuns, attempt: 1 .. MaxRunAttempt,
   fence: {"NONE", "PLANNING"} \cup EvidenceClass, plan: BOOLEAN,
   step: 0 .. Steps]

Admitted(version, attempt) ==
  [state |-> "ADMITTED", version |-> version, attempt |-> attempt, fence |-> "NONE",
   plan |-> FALSE, step |-> 0]
NoRun == [Admitted(1, 1) EXCEPT !.state = "NONE"]

CallState ==
  [pc: {"idle", "insert", "admit", "save", "list", "read", "evaluate", "replace", "reissue",
        "refresh", "policy", "send", "persist"},
   seen: Case,            \* the case as it was read, or is to be saved
   current: BOOLEAN,      \* nobody has saved it since
   run: 0 .. MaxRuns,     \* whose step an outreach is
   class: EvidenceClass \cup {"NONE"},
   tries: 0 .. 2]

Idle == [pc |-> "idle", seen |-> NoCase, current |-> TRUE, run |-> 0, class |-> "NONE",
         tries |-> 0]

Init ==
  /\ lead = NoCase
  /\ runs = [r \in Run |-> NoRun]
  /\ lineage = {}
  /\ timeline = {}
  /\ attempts = 0
  /\ sent = 0
  /\ optedOut = FALSE
  /\ call = [c \in Call |-> Idle]
  /\ faults = 0

At(c, pc) == call[c].pc = pc
GoTo(c, pc) == call' = [call EXCEPT ![c].pc = pc]
Return(c) == call' = [call EXCEPT ![c] = Idle]
Carry(c, pc, seen) ==
  call' = [call EXCEPT ![c] = [@ EXCEPT !.pc = pc, !.seen = seen, !.current = TRUE]]

\* A step that fails, or is interrupted, is the last one of its run.
Halt(c) ==
  runs' = IF call[c].run = 0 THEN runs ELSE [runs EXCEPT ![call[c].run].state = "HALTED"]
-----------------------------------------------------------------------------
(* The case                                                                 *)

\* Mutant: the row is overwritten, whatever it holds by now.
Current_Any(c) == TRUE

\* save: compare-and-set on record_revision.
Current(c) == call[c].current

SaveCase(c, row) ==
  /\ lead' = row
  /\ optedOut' = (optedOut \/ row.status = "SUPPRESSED")
  /\ call' = [d \in Call |-> IF d = c THEN Idle
                            ELSE [call[d] EXCEPT !.current = call[d].seen = NoCase]]

\* detectAndOpenRecoveryCase, up to the save: the lead has got no answer and no case.
Detect(c) ==
  /\ At(c, "idle")
  /\ lead = NoCase
  /\ timeline = {}
  /\ Carry(c, "insert", [NoCase EXCEPT !.status = "OPEN"])
  /\ UNCHANGED <<caseVars, runs, lineage, outreachVars, faults>>

\* prepareRecoveryObjective without admission: a preview.
Preview(c) ==
  /\ At(c, "idle")
  /\ lead.status \notin {"NONE", "SUPPRESSED"}
  /\ lead.run = 0
  /\ Carry(c, "save", [lead EXCEPT !.status = "READY_FOR_ORCHESTRATION"])
  /\ UNCHANGED <<caseVars, runs, lineage, outreachVars, faults>>

Prepare(c) ==
  /\ At(c, "idle")
  /\ lead.status \notin {"NONE", "SUPPRESSED"}
  /\ lead.run = 0
  /\ Carry(c, "admit", [lead EXCEPT !.status = "IN_ORCHESTRATION", !.run = 1])
  /\ UNCHANGED <<caseVars, runs, lineage, outreachVars, faults>>

\* admit: the objective's idempotency key has one run, made by the first who asks.
Admit(c) ==
  /\ At(c, "admit")
  /\ runs' = IF runs[1].state = "NONE" THEN [runs EXCEPT ![1] = Admitted(1, 1)] ELSE runs
  /\ GoTo(c, "save")
  /\ UNCHANGED <<caseVars, lineage, outreachVars, faults>>

Save(c) ==
  /\ call[c].pc \in {"insert", "save"}
  /\ \/ Current(c) /\ SaveCase(c, call[c].seen)
     \/ ~Current(c) /\ Return(c) /\ UNCHANGED caseVars
  /\ UNCHANGED <<runs, lineage, outreachVars, faults>>
-----------------------------------------------------------------------------
(* Lead events                                                              *)

\* appendLeadEventInternal: a new event is saved.
Append(c, e) ==
  /\ At(c, "idle")
  /\ e \notin timeline
  /\ timeline' = timeline \cup {e}
  /\ GoTo(c, "list")
  /\ UNCHANGED <<caseVars, runs, lineage, attempts, sent, faults>>

\* listOpenByLead: there may be no case, or none that is open.
ListOpen(c) ==
  /\ At(c, "list")
  /\ IF lead.status \in {"NONE", "SUPPRESSED"} THEN Return(c) ELSE GoTo(c, "read")
  /\ UNCHANGED <<caseVars, runs, lineage, outreachVars, faults>>

\* refreshCaseFromEvents
Refresh(c) ==
  /\ At(c, "read")
  /\ Carry(c, "evaluate", lead)
  /\ UNCHANGED <<caseVars, runs, lineage, outreachVars, faults>>

\* evaluateRecoveryOutcome
Outcome(status) ==
  CASE "DO_NOT_CONTACT" \in timeline -> "SUPPRESSED"
    [] timeline = {"INBOUND_MESSAGE"} -> "ENGAGED"
    [] OTHER -> status

\* The events are read, and what follows from them is saved if it is new.
Evaluate(c) ==
  LET seen == call[c].seen IN
  /\ At(c, "evaluate")
  /\ IF Outcome(seen.status) = seen.status
     THEN Return(c)
     ELSE call' = [call EXCEPT ![c] =
                     [@ EXCEPT !.pc = "refresh", !.seen.status = Outcome(seen.status)]]
  /\ UNCHANGED <<caseVars, runs, lineage, outreachVars, faults>>

\* A case that was changed meanwhile is read again; the third conflict is thrown.
SaveOutcome(c) ==
  /\ At(c, "refresh")
  /\ \/ Current(c) /\ SaveCase(c, call[c].seen) /\ UNCHANGED runs
     \/ /\ ~Current(c) /\ call[c].tries < 2
        /\ call' = [call EXCEPT ![c] = [@ EXCEPT !.pc = "read", !.tries = call[c].tries + 1]]
        /\ UNCHANGED <<caseVars, runs>>
     \/ ~Current(c) /\ call[c].tries = 2 /\ Return(c) /\ Halt(c) /\ UNCHANGED caseVars
  /\ UNCHANGED <<lineage, outreachVars, faults>>
-----------------------------------------------------------------------------
(* Runs, as the orchestrator's phases move them                             *)

\* plan: a run whose planning failed may be planned again.
Plan(r) ==
  /\ runs[r].state \in {"ADMITTED", "PLANNING"}
  /\ runs[r].fence # "PLANNING"
  /\ ~runs[r].plan
  /\ runs' = [runs EXCEPT ![r] = [@ EXCEPT !.state = "PLANNING", !.fence = "PLANNING"]]
  /\ UNCHANGED <<caseVars, lineage, outreachVars, call, faults>>

\* A failure that proves no defect is only planned again.
PlanningFails(r) ==
  /\ runs[r].fence = "PLANNING"
  /\ ~runs[r].plan
  /\ \E why \in EvidenceClass : runs' = [runs EXCEPT ![r].fence = why]
  /\ UNCHANGED <<caseVars, lineage, outreachVars, call, faults>>

\* The plan is saved first, whatever has become of the run.
SavePlan(r) ==
  /\ runs[r].fence = "PLANNING"
  /\ ~runs[r].plan
  /\ runs' = [runs EXCEPT ![r].plan = TRUE]
  /\ UNCHANGED <<caseVars, lineage, outreachVars, call, faults>>

EndPlanning(r) ==
  /\ runs[r].plan
  /\ runs[r].state = "PLANNING"
  /\ runs' = [runs EXCEPT ![r].state = "VALIDATING"]
  /\ UNCHANGED <<caseVars, lineage, outreachVars, call, faults>>

\* The approved plan is executed; or it is rejected.
Decide(r) ==
  /\ runs[r].state = "VALIDATING"
  /\ \E state \in {"EXECUTING", "REJECTED"} : runs' = [runs EXCEPT ![r].state = state]
  /\ UNCHANGED <<caseVars, lineage, outreachVars, call, faults>>
-----------------------------------------------------------------------------
(* Another run for the case                                                 *)

Replacements == {e \in lineage : e.kind = "REPLACED" /\ e.version = lead.version}

Fresh == {r \in Run : runs[r].state = "NONE" /\ \A s \in Run : runs[s].state = "NONE" => r <= s}

\* Mutant: a class of defects may be retried as often as attempts are left.
Unconsumed_Any(class) == TRUE
Unconsumed(class) == \A e \in Replacements : e.class # class

\* replaceLocked, provePredecessor: one transaction at a time.
ProveDefect(c) ==
  LET run == runs[lead.run] IN
  /\ At(c, "idle")
  /\ \A d \in Call : ~At(d, "replace")
  /\ lead.status = "IN_ORCHESTRATION"
  /\ run.state = "PLANNING" /\ ~run.plan
  /\ run.attempt < MaxRunAttempt
  /\ run.fence \in EvidenceClass
  /\ Unconsumed(run.fence)
  /\ Fresh # {}
  /\ call' = [call EXCEPT ![c] = [@ EXCEPT !.pc = "replace", !.seen = lead,
                                           !.current = TRUE, !.class = run.fence]]
  /\ UNCHANGED <<caseVars, runs, lineage, outreachVars, faults>>

Rebind(c, r, version) == SaveCase(c, [call[c].seen EXCEPT !.run = r, !.version = version])

\* Mutant: the predecessor is superseded, whatever it does by now.
StillPlanning_Any(r) == TRUE
StillPlanning(r) == runs[r].state = "PLANNING"

\* The rest of the transaction, which commits if run and case are as they were.
Replace(c) ==
  LET seen == call[c].seen
      commits == StillPlanning(seen.run) /\ Current(c)
  IN /\ At(c, "replace")
     /\ \/ /\ commits
           /\ \E r \in Fresh :
                /\ runs' = [runs EXCEPT ![seen.run].state = "SUPERSEDED",
                                        ![r] = Admitted(seen.version, runs[seen.run].attempt + 1)]
                /\ lineage' = lineage \cup
                     {[kind |-> "REPLACED", predecessor |-> seen.run, successor |-> r,
                       version |-> seen.version, class |-> call[c].class]}
                /\ Rebind(c, r, seen.version)
        \/ ~commits /\ Return(c) /\ UNCHANGED <<caseVars, runs, lineage>>
     /\ UNCHANGED <<outreachVars, faults>>

\* evaluateContactPolicy
Eligible ==
  /\ lead.status # "SUPPRESSED"
  /\ timeline = {}
  /\ attempts < MaxAttempts

\* reissueLocked: a run that a reissue has made is not reissued.
ProveRejection(c) ==
  /\ At(c, "idle")
  /\ \A d \in Call : ~At(d, "reissue")
  /\ lead.status = "IN_ORCHESTRATION"
  /\ ~\E e \in lineage : e.kind = "REISSUED" /\ e.successor = lead.run
  /\ runs[lead.run].state = "REJECTED"
  /\ Eligible
  /\ Fresh # {}
  /\ Carry(c, "reissue", lead)
  /\ UNCHANGED <<caseVars, runs, lineage, outreachVars, faults>>

Reissue(c) ==
  LET seen == call[c].seen IN
  /\ At(c, "reissue")
  /\ \/ /\ Current(c)
        /\ \E r \in Fresh :
             /\ runs' = [runs EXCEPT ![r] = Admitted(seen.version + 1, 1)]
             /\ lineage' = lineage \cup
                  {[kind |-> "REISSUED", predecessor |-> seen.run, successor |-> r,
                    version |-> seen.version + 1, class |-> "NONE"]}
             /\ Rebind(c, r, seen.version + 1)
     \/ ~Current(c) /\ Return(c) /\ UNCHANGED <<caseVars, runs, lineage>>
  /\ UNCHANGED <<outreachVars, faults>>
-----------------------------------------------------------------------------
(* Outreach                                                                 *)

\* actuateRecoveryOutreachFromPhase7, for the next step of a run's execution, which
\* performs one at a time and each once.
StartStep(c, r) ==
  /\ At(c, "idle")
  /\ runs[r].state = "EXECUTING"
  /\ runs[r].step < Steps
  /\ \A d \in Call : call[d].run # r
  /\ \/ /\ lead.status \notin {"NONE", "SUPPRESSED"}
        /\ runs' = [runs EXCEPT ![r].step = @ + 1]
        /\ call' = [call EXCEPT ![c] = [@ EXCEPT !.pc = "policy", !.run = r]]
     \/ /\ lead.status \in {"NONE", "SUPPRESSED"}
        /\ runs' = [runs EXCEPT ![r].state = "HALTED"]
        /\ UNCHANGED call
  /\ UNCHANGED <<caseVars, lineage, outreachVars, faults>>

\* Mutant: the policy is asked for the first step of a run only.
CheckPolicy_FirstStep(c) ==
  /\ At(c, "policy")
  /\ \/ (Eligible \/ runs[call[c].run].step > 1) /\ GoTo(c, "send") /\ UNCHANGED runs
     \/ ~Eligible /\ runs[call[c].run].step = 1 /\ Return(c) /\ Halt(c)
  /\ UNCHANGED <<caseVars, lineage, outreachVars, faults>>

\* "Time-of-action law": case, events and attempts are read again for each step.
CheckPolicy(c) ==
  /\ At(c, "policy")
  /\ \/ Eligible /\ GoTo(c, "send") /\ UNCHANGED runs
     \/ ~Eligible /\ Return(c) /\ Halt(c)
  /\ UNCHANGED <<caseVars, lineage, outreachVars, faults>>

\* The provider is asked, or throws.
Send(c) ==
  /\ At(c, "send")
  /\ \/ sent' = sent + 1 /\ GoTo(c, "persist") /\ UNCHANGED runs
     \/ Return(c) /\ Halt(c) /\ UNCHANGED sent
  /\ UNCHANGED <<caseVars, lineage, timeline, attempts, faults>>

\* The attempt is saved; its own event, which answers nothing, refreshes the case.
Persist(c) ==
  /\ At(c, "persist")
  /\ attempts' = attempts + 1
  /\ GoTo(c, "list")
  /\ UNCHANGED <<caseVars, runs, lineage, timeline, sent, faults>>

Crash(c) ==
  /\ ~At(c, "idle")
  /\ faults < MaxFaults
  /\ faults' = faults + 1
  /\ Return(c)
  /\ Halt(c)
  /\ UNCHANGED <<caseVars, lineage, outreachVars>>

Next ==
  \/ \E c \in Call :
       \/ Detect(c) \/ Preview(c) \/ Prepare(c) \/ Admit(c) \/ Save(c)
       \/ (\E e \in LeadEvent : Append(c, e)) \/ ListOpen(c) \/ Refresh(c) \/ Evaluate(c)
       \/ SaveOutcome(c)
       \/ ProveDefect(c) \/ Replace(c) \/ ProveRejection(c) \/ Reissue(c)
       \/ (\E r \in Run : StartStep(c, r)) \/ CheckPolicy(c) \/ Send(c) \/ Persist(c)
       \/ Crash(c)
  \/ \E r \in Run :
       Plan(r) \/ PlanningFails(r) \/ SavePlan(r) \/ EndPlanning(r) \/ Decide(r)

Spec == Init /\ [][Next]_vars
-----------------------------------------------------------------------------
TypeOK ==
  /\ lead \in Case
  /\ runs \in [Run -> RunRecord]
  /\ lineage \subseteq [kind: {"REPLACED", "REISSUED"}, predecessor: Run, successor: Run,
                        version: 1 .. MaxRuns, class: EvidenceClass \cup {"NONE"}]
  /\ timeline \subseteq LeadEvent
  /\ attempts \in 0 .. sent
  /\ sent \in Nat
  /\ optedOut \in BOOLEAN
  /\ call \in [Call -> CallState]
  /\ faults \in 0 .. MaxFaults

\* Whatever replaces a run, planning or deciding it meanwhile: one run of the case is
\* left that anything can come of, and only the run the case is bound to has acted.
OneLiveRun ==
  \A r \in Run :
    runs[r].state \notin {"NONE", "REJECTED", "SUPERSEDED"} \/ runs[r].step > 0 =>
      /\ lead.run \in {0, r}
      /\ \A s \in Run \ {r} : runs[s].state \in {"NONE", "REJECTED", "SUPERSEDED"}

\* validateReplacementLineage: the recorded lineage is one chain to the run the case is
\* bound to; attempts go up by one, and each class of defects is retried once.
LineageIsAChain ==
  /\ \A d, e \in lineage :
       \/ d = e
       \/ /\ d.predecessor # e.predecessor /\ d.successor # e.successor
          /\ d.class = e.class /\ d.version = e.version => d.kind # e.kind
  /\ \A e \in lineage :
       /\ runs[e.successor].version = e.version
       /\ e.kind = "REPLACED" =>
            /\ runs[e.predecessor].version = e.version
            /\ runs[e.successor].attempt = runs[e.predecessor].attempt + 1
            /\ runs[e.predecessor].state = "SUPERSEDED"
       /\ e.kind = "REISSUED" =>
            /\ runs[e.predecessor].version = e.version - 1
            /\ runs[e.predecessor].state = "REJECTED"
  /\ lead.run # 0 =>
       \A r \in Run : runs[r].state # "NONE" =>
         (r = lead.run) = (\A e \in lineage : e.predecessor # r)

\* No more messages than the configuration allows, whatever is replaced, repeated or
\* interrupted between them; and a lead that opted out stays suppressed.
OutreachIsBounded == sent <= MaxAttempts /\ (optedOut => lead.status = "SUPPRESSED")

RecoveryIsGoverned == OneLiveRun /\ LineageIsAChain /\ OutreachIsBounded
=============================================================================
