---------------------------- MODULE Constitution ----------------------------
(***************************************************************************)
(* Changes to the governance of one institution.                           *)
(*                                                                         *)
(*   create:   take the fingerprint of the governance -> DRAFT             *)
(*   submit:   the fingerprint is unchanged -> SUBMITTED, else -> STALE    *)
(*   analyze:  save the analysis -> VALIDATED                              *)
(*   review:   save the decision -> count the approvals -> AWAITING_REVIEW *)
(*             or AUTHORIZED; or -> REJECTED                               *)
(*   stage:    fingerprint unchanged; upsert the record -> STAGED          *)
(*   activate: one transaction under the institution's lock: fingerprint   *)
(*             unchanged, carry out the plan, the record and the proposal; *)
(*             if it was stale, roll back and -> STALE                     *)
(*                                                                         *)
(* The fingerprint is a hash of what is ACTIVE now, with no revisions and  *)
(* no revocations: when the governance says again what it said before, it  *)
(* comes back.  The lock is taken by nobody else: mandates are revoked,    *)
(* and activated where control is off, beside it.                          *)
(***************************************************************************)
EXTENDS Naturals, FiniteSets

CONSTANTS
  Call,         \* concurrent calls
  Unit,         \* organizational units: their names make their ids
  Project,      \* projects the institution may be over: they are in its row
  Plans,        \* the plans that are proposed
  Required,     \* requiredReviewApprovals
  MaxProposals, \* bound: proposals created
  MaxChanges,   \* bound: writes to the governance
  MaxReviews    \* bound: review decisions on a proposal

VARIABLES
  governance,  \* what is hashed: the institution's flag, and what is ACTIVE
  epoch,       \* history: how often the governance was written
  proposal,    \* constitutional_change_proposals
  analyzed,    \* proposals that have an impact analysis
  approvals,   \* decisions APPROVE of each proposal
  reviews,     \* decisions of each proposal
  record,      \* constitutional_activation_records: one per proposal
  lock,        \* who holds the institution's lock
  applied,     \* history: <<proposal, epoch it was compared in>> of every change
  call         \* where each call is

reviewVars == <<analyzed, approvals, reviews>>
vars == <<governance, epoch, proposal, reviewVars, record, lock, applied, call>>

\* Mandates: a new one has an id of its own, from the time, and never comes back.
Mandate == 1 .. MaxChanges
Thing == Unit \cup Project \cup Mandate
Governance == [controlled: BOOLEAN, active: SUBSET Thing]

\* A plan: units and projects that come in, what goes out, and whether a mandate is made.
Plan == [adds: SUBSET (Unit \cup Project), ends: SUBSET Thing, mandate: BOOLEAN]

\* The proposals, in the order of their creation.
Proposal == 1 .. MaxProposals

Status == {"NONE", "DRAFT", "SUBMITTED", "VALIDATED", "AWAITING_REVIEW", "AUTHORIZED", "STAGED",
           "ACTIVATED", "REJECTED", "STALE"}

PC == {"idle", "move", "analysis", "decision", "count", "record", "apply", "stale",
       "mandate", "enable"}

\* seen: the status the proposal was read in, which a proposal never has twice and so
\* stands for its revision; to: where it is to go; at: the epoch it was read in; row: the
\* projects of the institution's row as it was read.
CallState == [pc: PC, on: {{}} \cup {{p} : p \in Proposal}, seen: Status, to: Status,
              at: 0 .. MaxChanges, row: SUBSET Project]
Idle == [pc |-> "idle", on |-> {}, seen |-> "NONE", to |-> "NONE", at |-> 0, row |-> {}]

Nothing == [controlled |-> FALSE, active |-> {}]
NoPlan == [adds |-> {}, ends |-> {}, mandate |-> FALSE]

Init ==
  /\ governance = Nothing
  /\ epoch = 0
  /\ proposal = [p \in Proposal |-> [status |-> "NONE", base |-> Nothing, plan |-> NoPlan]]
  /\ analyzed = {}
  /\ approvals = [p \in Proposal |-> 0]
  /\ reviews = [p \in Proposal |-> 0]
  /\ record = [p \in Proposal |-> "NONE"]
  /\ lock = {}
  /\ applied = {}
  /\ call = [c \in Call |-> Idle]

On(c, p) == call[c].on = {p}
At(c, pc, p) == call[c].pc = pc /\ On(c, p)
Free(c) == call[c].pc = "idle"
Return(c) == call' = [call EXCEPT ![c] = Idle]
Continue(c, pc, p, to) ==
  call' = [call EXCEPT ![c] = [Idle EXCEPT !.pc = pc, !.on = {p}, !.seen = proposal[p].status,
                                           !.to = to]]
MoveTo(c, to) == call' = [call EXCEPT ![c].pc = "move", ![c].to = to]

\* computeGovernanceStateFingerprint
Fingerprint == governance
Fresh(p) == Fingerprint = proposal[p].base

\* applyConstitutionalMutationPlan: row by row, on whatever the rows are by now.
Carried(plan) ==
  [governance EXCEPT !.active = (@ \ plan.ends) \cup plan.adds
                                \cup (IF plan.mandate THEN {epoch + 1} ELSE {})]

\* A mandate that is to be superseded has to be ACTIVE.
Applicable(plan) == plan.ends \cap Mandate \subseteq governance.active

\* The governance is written.
Write(new) ==
  /\ epoch < MaxChanges
  /\ epoch' = epoch + 1
  /\ governance' = new

-----------------------------------------------------------------------------

\* A base that is out of date when the draft is saved is one that goes out of date at once.
CreateProposal(p) ==
  /\ proposal[p].status = "NONE" /\ \A q \in 1 .. p - 1 : proposal[q].status # "NONE"
  /\ \E plan \in Plans :
       proposal' = [proposal EXCEPT ![p] = [status |-> "DRAFT", base |-> Fingerprint, plan |-> plan]]
  /\ UNCHANGED <<governance, epoch, reviewVars, record, lock, applied, call>>

\* proposals.transition: the compare-and-set of a call, which throws if it loses.
Move(c, p) ==
  /\ At(c, "move", p)
  /\ proposal' = IF proposal[p].status = call[c].seen
                 THEN [proposal EXCEPT ![p].status = call[c].to] ELSE proposal
  /\ Return(c)
  /\ UNCHANGED <<governance, epoch, reviewVars, record, lock, applied>>

Submit(c, p) ==
  /\ Free(c)
  /\ proposal[p].status = "DRAFT"
  /\ Continue(c, "move", p, IF Fresh(p) THEN "SUBMITTED" ELSE "STALE")
  /\ UNCHANGED <<governance, epoch, proposal, reviewVars, record, lock, applied>>

StartAnalyze(c, p) ==
  /\ Free(c)
  /\ proposal[p].status \in {"SUBMITTED", "VALIDATED"}
  /\ Continue(c, "analysis", p, "VALIDATED")
  /\ UNCHANGED <<governance, epoch, proposal, reviewVars, record, lock, applied>>

SaveAnalysis(c, p) ==
  /\ At(c, "analysis", p)
  /\ analyzed' = analyzed \cup {p}
  /\ IF call[c].seen = "SUBMITTED" THEN MoveTo(c, "VALIDATED") ELSE Return(c)
  /\ UNCHANGED <<governance, epoch, proposal, approvals, reviews, record, lock, applied>>

-----------------------------------------------------------------------------
(* recordReviewDecision.  Every decision is a row of its own.               *)

StartReview(c, p) ==
  /\ Free(c)
  /\ proposal[p].status \in {"VALIDATED", "AWAITING_REVIEW", "AUTHORIZED"}
  /\ p \in analyzed
  /\ \E to \in {"AUTHORIZED", "REJECTED"} : Continue(c, "decision", p, to)
  /\ UNCHANGED <<governance, epoch, proposal, reviewVars, record, lock, applied>>

SaveDecision(c, p) ==
  /\ At(c, "decision", p)
  /\ reviews[p] < MaxReviews
  /\ reviews' = [reviews EXCEPT ![p] = @ + 1]
  /\ IF call[c].to = "REJECTED"
     THEN MoveTo(c, "REJECTED") /\ UNCHANGED approvals
     ELSE /\ approvals' = [approvals EXCEPT ![p] = @ + 1]
          /\ call' = [call EXCEPT ![c].pc = "count"]
  /\ UNCHANGED <<governance, epoch, proposal, analyzed, record, lock, applied>>

\* Mutant: the first approval is enough.
Enough_Any(p) == approvals[p] >= 1

Enough(p) == approvals[p] >= Required

CountApprovals(c, p) ==
  /\ At(c, "count", p)
  /\ IF Enough(p)
     THEN IF call[c].seen # "AUTHORIZED" THEN MoveTo(c, "AUTHORIZED") ELSE Return(c)
     ELSE IF call[c].seen = "VALIDATED" THEN MoveTo(c, "AWAITING_REVIEW") ELSE Return(c)
  /\ UNCHANGED <<governance, epoch, proposal, reviewVars, record, lock, applied>>

-----------------------------------------------------------------------------
(* stageActivation                                                          *)

StartStage(c, p) ==
  /\ Free(c)
  /\ proposal[p].status = "AUTHORIZED"
  /\ Fresh(p)
  /\ Continue(c, "record", p, "STAGED")
  /\ UNCHANGED <<governance, epoch, proposal, reviewVars, record, lock, applied>>

\* ON CONFLICT (proposal_id) DO UPDATE: whatever the record says already.
StageRecord(c, p) ==
  /\ At(c, "record", p)
  /\ record' = [record EXCEPT ![p] = "STAGED"]
  /\ MoveTo(c, "STAGED")
  /\ UNCHANGED <<governance, epoch, proposal, reviewVars, lock, applied>>

-----------------------------------------------------------------------------
(* activate                                                                 *)

\* Mutant: the lock is shared.
MayLock_Shared == TRUE

\* pg_advisory_xact_lock, and the institution's row FOR UPDATE.
MayLock == lock = {}

\* An ACTIVATED record is answered, and the transaction has nothing to commit.  STAGED needs
\* an approved decision and a record; if the fingerprint has moved it is rolled back.
BeginActivation(c, p) ==
  /\ Free(c)
  /\ MayLock
  /\ record[p] = "STAGED"
  /\ proposal[p].status \in {"STAGED", "ACTIVATED"}
  /\ approvals[p] > 0
  /\ IF Fresh(p)
     THEN /\ call' = [call EXCEPT ![c] = [Idle EXCEPT !.pc = "apply", !.on = {p},
                                           !.seen = proposal[p].status, !.to = "ACTIVATED", !.at = epoch]]
          /\ lock' = lock \cup {c}
     ELSE Continue(c, "stale", p, "STALE") /\ UNCHANGED lock
  /\ UNCHANGED <<governance, epoch, proposal, reviewVars, record, applied>>

\* Mandates may have come and gone beside the lock since the fingerprint was compared; it
\* has to be another one than the proposal's when the plan has been carried out.
Commit(c, p) ==
  /\ At(c, "apply", p)
  /\ proposal[p].status = call[c].seen
  /\ Applicable(proposal[p].plan)
  /\ Carried(proposal[p].plan) # proposal[p].base
  /\ Write(Carried(proposal[p].plan))
  /\ record' = [record EXCEPT ![p] = "ACTIVATED"]
  /\ proposal' = [proposal EXCEPT ![p].status = "ACTIVATED"]
  /\ applied' = applied \cup {<<p, call[c].at>>}
  /\ lock' = lock \ {c}
  /\ Return(c)
  /\ UNCHANGED reviewVars

\* A compare-and-set was lost, the plan came to nothing new, or the process died.
Rollback(c, p) ==
  /\ At(c, "apply", p)
  /\ lock' = lock \ {c}
  /\ Return(c)
  /\ UNCHANGED <<governance, epoch, proposal, reviewVars, record, applied>>

\* persistStaleProposalIfDrifted: the fingerprint and the proposal are read again.
PersistStale(c, p) ==
  /\ At(c, "stale", p)
  /\ IF Fresh(p) \/ proposal[p].status \in {"STALE", "ACTIVATED"}
     THEN Return(c) ELSE Continue(c, "move", p, "STALE")
  /\ UNCHANGED <<governance, epoch, proposal, reviewVars, record, lock, applied>>

-----------------------------------------------------------------------------
(* What changes the governance without a proposal.  Delegations, proofs and *)
(* holds are not hashed; the grants of constitutional roles are, and are    *)
(* written only when the system is provisioned.                             *)

directVars == <<proposal, reviewVars, record, lock, applied>>

\* revokeTarget of a mandate, whether control is on or off.
RevokeMandate(m) ==
  /\ m \in governance.active
  /\ Write([governance EXCEPT !.active = @ \ {m}])
  /\ UNCHANGED <<directVars, call>>

\* activateMandate: control is looked at, and the mandate is ACTIVE some statements later.
StartMandate(c) ==
  /\ Free(c)
  /\ ~governance.controlled
  /\ call' = [call EXCEPT ![c] = [Idle EXCEPT !.pc = "mandate"]]
  /\ UNCHANGED <<governance, epoch, directVars>>

ActivateMandate(c) ==
  /\ call[c].pc = "mandate"
  /\ Write([governance EXCEPT !.active = @ \cup {epoch + 1}])
  /\ Return(c)
  /\ UNCHANGED directVars

\* enableConstitutionalControl: the institution's row is read, and written back as a whole
\* once no activation holds it.
StartEnable(c) ==
  /\ Free(c)
  /\ call' = [call EXCEPT ![c] = [Idle EXCEPT !.pc = "enable", !.row = governance.active \cap Project]]
  /\ UNCHANGED <<governance, epoch, directVars>>

Enable(c) ==
  /\ call[c].pc = "enable"
  /\ MayLock
  /\ Write([controlled |-> TRUE, active |-> (governance.active \ Project) \cup call[c].row])
  /\ Return(c)
  /\ UNCHANGED directVars

-----------------------------------------------------------------------------

\* Outside the transaction, a call that dies leaves what it has written.
Crash(c) ==
  /\ call[c].pc \notin {"idle", "apply"}
  /\ Return(c)
  /\ UNCHANGED <<governance, epoch, proposal, reviewVars, record, lock, applied>>

Step(c, p) ==
  \/ Move(c, p) \/ Submit(c, p) \/ StartAnalyze(c, p) \/ SaveAnalysis(c, p)
  \/ StartReview(c, p) \/ SaveDecision(c, p) \/ CountApprovals(c, p)
  \/ StartStage(c, p) \/ StageRecord(c, p)
  \/ BeginActivation(c, p) \/ Commit(c, p) \/ Rollback(c, p) \/ PersistStale(c, p)

Next ==
  \/ \E m \in Mandate : RevokeMandate(m)
  \/ \E p \in Proposal : CreateProposal(p) \/ \E c \in Call : Step(c, p)
  \/ \E c \in Call : \/ StartMandate(c) \/ ActivateMandate(c)
                     \/ StartEnable(c) \/ Enable(c) \/ Crash(c)

Spec == Init /\ [][Next]_vars
-----------------------------------------------------------------------------

TypeOK ==
  /\ governance \in Governance
  /\ epoch \in 0 .. MaxChanges
  /\ proposal \in [Proposal -> [status: Status, base: Governance, plan: Plan]]
  /\ analyzed \subseteq Proposal
  /\ approvals \in [Proposal -> 0 .. MaxReviews]
  /\ reviews \in [Proposal -> 0 .. MaxReviews]
  /\ record \in [Proposal -> {"NONE", "STAGED", "ACTIVATED"}]
  /\ lock \in {{}} \cup {{c} : c \in Call}
  /\ applied \subseteq Proposal \X (0 .. MaxChanges)
  /\ call \in [Call -> CallState]

\* docs/phase-21-constitutional-change-control.md: "Activation requires
\* currentGovernanceFingerprint === baseGovernanceFingerprint".  No two activations are
\* let through by the same reading of the governance: what one has compared is gone when
\* the next one compares, even if the same fingerprint comes back.  And whatever is
\* applied was analyzed and approved as often as the governance it changes demands.
ChangesAreSerial ==
  \A x \in applied :
    /\ \A y \in applied : x[2] = y[2] => x = y
    /\ x[1] \in analyzed /\ approvals[x[1]] >= Required
    /\ proposal[x[1]].status = "ACTIVATED"

\* docs/phase-21-constitutional-change-control.md: "Idempotent activation per proposal
\* identity".  No proposal is applied twice.  The code does not keep it: a slow stage puts
\* STAGED over an ACTIVATED record, and if the fingerprint comes back the proposal is
\* applied again (ConstitutionReplayed.cfg ends in such a state).
AppliedOnce == \A x, y \in applied : x[1] = y[1] => x = y
=============================================================================
