----------------------------- MODULE Federation -----------------------------
(***************************************************************************)
(* One federation: the versions of its agreement, and the work that is     *)
(* asked for under them.                                                   *)
(*                                                                         *)
(*   propose -> each participant ratifies -> activate, in one transaction  *)
(*              under the locks of its own participants: the state is the  *)
(*              one the agreement was proposed on, supersede the agreement *)
(*              that is ACTIVE, activate this one                          *)
(*   withdraw:  save the change, then suspend the agreement                *)
(*   work:      propose -> the target accepts or rejects -> materialize:   *)
(*              the agreement is current, admit, save the record           *)
(*                                                                         *)
(* Outside the activation every statement stands alone.  Proofs of the     *)
(* participants are what Governance says they are; one that is refused     *)
(* ends its call, as a crash does.                                         *)
(***************************************************************************)
EXTENDS Naturals, FiniteSets

CONSTANTS
  Call,         \* concurrent calls
  Institution,
  participants, \* of each agreement
  Intent,       \* work that may be asked for
  MaxVersions,  \* bound: agreements proposed
  MaxChanges    \* bound: participation changes of an agreement

VARIABLES
  agreement, \* federation_agreements
  ratified,  \* of each agreement, the institutions that have ratified it
  changes,   \* of each agreement, how many withdrawals there are
  lock,      \* institutions that are locked
  intent,    \* federated_work_intents
  accepted,  \* federated_work_acceptances: the decision on each intent
  admitted,  \* intents whose objective Admission has admitted
  recorded,  \* intents with a federated_materializations row
  call       \* where each call is

agreementVars == <<agreement, ratified, changes, lock>>
workVars == <<intent, accepted, admitted, recorded>>
vars == <<agreementVars, workVars, call>>

\* The agreements, by agreement_version.
Agreement == 1 .. MaxVersions

\* What a fingerprint tells apart: which agreement is ACTIVE, with which withdrawals, or that
\* none is.  Its ratifications are complete when it is activated.
State == {{}} \cup {{s} : s \in Agreement \X (0 .. MaxChanges)}

Activated == {"ACTIVE", "SUSPENDED", "SUPERSEDED"}
AgreementStatus == {"NONE", "PROPOSED", "RATIFYING"} \cup Activated
IntentStatus == {"NONE", "PROPOSED", "ACCEPTED", "REJECTED", "MATERIALIZED"}

PC == {"idle", "ratify", "ratifying", "activate", "withdraw", "suspend",
       "decide", "decided", "current", "admit", "record", "recorded"}

\* on: the agreement or the intent; by: the institution that ratifies; seen: the status it
\* was read in, or the intent's next one; over: the agreement that was ACTIVE; doomed: a
\* participant had withdrawn when the materialization was asked for.
CallState == [pc: PC, on: {{}} \cup {{x} : x \in Agreement \cup Intent}, by: SUBSET Institution,
              seen: AgreementStatus \cup IntentStatus, over: SUBSET Agreement, doomed: BOOLEAN]

Idle == [pc |-> "idle", on |-> {}, by |-> {}, seen |-> "NONE", over |-> {}, doomed |-> FALSE]

Init ==
  /\ agreement = [a \in Agreement |-> [status |-> "NONE", base |-> {}]]
  /\ ratified = [a \in Agreement |-> {}]
  /\ changes = [a \in Agreement |-> 0]
  /\ lock = {}
  /\ intent = [w \in Intent |-> [status |-> "NONE", under |-> {}]]
  /\ accepted = [w \in Intent |-> "NONE"]
  /\ admitted = {}
  /\ recorded = {}
  /\ call = [c \in Call |-> Idle]

Free(c) == call[c].pc = "idle"
At(c, pc, x) == call[c].pc = pc /\ call[c].on = {x}
Enter(c, pc, x, seen) ==
  call' = [call EXCEPT ![c] = [Idle EXCEPT !.pc = pc, !.on = {x}, !.seen = seen]]
GoTo(c, pc) == call' = [call EXCEPT ![c].pc = pc]
Return(c) == call' = [call EXCEPT ![c] = Idle]

Status(a) == agreement[a].status
Active == {a \in Agreement : Status(a) = "ACTIVE"}

\* getActiveByFederation: nothing makes it the only one, and the query takes any.
Current == IF Active = {} THEN {{}} ELSE {{a} : a \in Active}

\* computeFingerprintForFederation, of none or of one that is ACTIVE.
Fingerprint(over) == {<<a, changes[a]>> : a \in over}

\* agreements.transition: the compare-and-set of a call, which throws if it loses.  A status
\* occurs once in the life of an agreement: it stands for the revision too.
CompareAndSet(a, from, to) ==
  agreement' = IF Status(a) = from THEN [agreement EXCEPT ![a].status = to] ELSE agreement

-----------------------------------------------------------------------------
(* proposeAgreement and ratify                                              *)

\* The next version: of two calls that make the same one, one fails.  A base that is out of
\* date when the agreement is saved is one that goes out of date at once.
ProposeAgreement(a) ==
  /\ Status(a) = "NONE" /\ \A b \in 1 .. a - 1 : Status(b) # "NONE"
  /\ \E over \in Current :
       agreement' = [agreement EXCEPT ![a] = [status |-> "PROPOSED", base |-> Fingerprint(over)]]
  /\ UNCHANGED <<ratified, changes, lock, workVars, call>>

StartRatify(c, a) ==
  \E i \in participants[a] \ ratified[a] :
    /\ Free(c)
    /\ Status(a) \in {"PROPOSED", "RATIFYING"}
    /\ call' = [call EXCEPT ![c] = [Idle EXCEPT !.pc = "ratify", !.on = {a}, !.by = {i},
                                                !.seen = Status(a)]]
    /\ UNCHANGED <<agreementVars, workVars>>

\* ON CONFLICT DO NOTHING: one ratification of an institution.
SaveRatification(c, a) ==
  /\ At(c, "ratify", a)
  /\ ratified' = [ratified EXCEPT ![a] = @ \cup call[c].by]
  /\ IF call[c].seen = "PROPOSED" THEN GoTo(c, "ratifying") ELSE Return(c)
  /\ UNCHANGED <<agreement, changes, lock, workVars>>

MarkRatifying(c, a) ==
  /\ At(c, "ratifying", a)
  /\ CompareAndSet(a, "PROPOSED", "RATIFYING")
  /\ Return(c)
  /\ UNCHANGED <<ratified, changes, lock, workVars>>

-----------------------------------------------------------------------------
(* activate                                                                 *)

\* Mutant: the participants are not locked.
MayLock_Ignored(a) == TRUE

\* pg_advisory_xact_lock of each participant, in order.
MayLock(a) == participants[a] \cap lock = {}

BeginActivation(c, a) ==
  /\ Free(c)
  /\ MayLock(a)
  /\ Status(a) \in {"PROPOSED", "RATIFYING"}
  /\ participants[a] \subseteq ratified[a]
  /\ lock' = lock \cup participants[a]
  /\ \E over \in Current :
       /\ Fingerprint(over) = agreement[a].base
       /\ call' = [call EXCEPT ![c] = [Idle EXCEPT !.pc = "activate", !.on = {a}, !.seen = Status(a),
                                                   !.over = over]]
  /\ UNCHANGED <<agreement, ratified, changes, workVars>>

Commit(c, a) ==
  /\ At(c, "activate", a)
  /\ Status(a) = call[c].seen
  /\ call[c].over \subseteq Active
  /\ agreement' = [b \in Agreement |->
       IF b = a THEN [agreement[b] EXCEPT !.status = "ACTIVE"]
       ELSE IF b \in call[c].over THEN [agreement[b] EXCEPT !.status = "SUPERSEDED"]
       ELSE agreement[b]]
  /\ lock' = lock \ participants[a]
  /\ Return(c)
  /\ UNCHANGED <<ratified, changes, workVars>>

\* A compare-and-set was lost, a proof was refused or the process died.
Rollback(c, a) ==
  /\ At(c, "activate", a)
  /\ lock' = lock \ participants[a]
  /\ Return(c)
  /\ UNCHANGED <<agreement, ratified, changes, workVars>>

-----------------------------------------------------------------------------
(* withdraw, which takes no lock                                            *)

StartWithdraw(c, a) ==
  /\ Free(c)
  /\ Status(a) \in {"ACTIVE", "SUSPENDED"}
  /\ Enter(c, "withdraw", a, Status(a))
  /\ UNCHANGED <<agreementVars, workVars>>

SaveChange(c, a) ==
  /\ At(c, "withdraw", a)
  /\ changes[a] < MaxChanges
  /\ changes' = [changes EXCEPT ![a] = @ + 1]
  /\ IF call[c].seen = "ACTIVE" THEN GoTo(c, "suspend") ELSE Return(c)
  /\ UNCHANGED <<agreement, ratified, lock, workVars>>

Suspend(c, a) ==
  /\ At(c, "suspend", a)
  /\ CompareAndSet(a, "ACTIVE", "SUSPENDED")
  /\ Return(c)
  /\ UNCHANGED <<ratified, changes, lock, workVars>>

-----------------------------------------------------------------------------
(* Work                                                                     *)

Under(w) == CHOOSE a \in Agreement : intent[w].under = {a}

\* Mutant: the withdrawals are not listed.
Coordinating_ByStatus(a) == Status(a) = "ACTIVE"

\* requireActiveCoordinatingAgreement.  A withdrawal stays: if there is none when they are
\* listed there was none when the status was read.
Coordinating(a) == Status(a) = "ACTIVE" /\ changes[a] = 0

ProposeWork(w) ==
  \E a \in Agreement :
    /\ Coordinating(a)
    /\ intent[w].status = "NONE"
    /\ intent' = [intent EXCEPT ![w] = [status |-> "PROPOSED", under |-> {a}]]
    /\ UNCHANGED <<agreementVars, accepted, admitted, recorded, call>>

\* decideWork.  A decision that is there is answered, and the intent left as it is.
StartDecide(c, w) ==
  /\ Free(c)
  /\ intent[w].status = "PROPOSED"
  /\ Coordinating(Under(w))
  /\ accepted[w] = "NONE"
  /\ \E decision \in {"ACCEPTED", "REJECTED"} : Enter(c, "decide", w, decision)
  /\ UNCHANGED <<agreementVars, workVars>>

\* ON CONFLICT DO NOTHING: the first decision stays.
SaveDecision(c, w) ==
  /\ At(c, "decide", w)
  /\ accepted' = [accepted EXCEPT ![w] = IF @ = "NONE" THEN call[c].seen ELSE @]
  /\ GoTo(c, "decided")
  /\ UNCHANGED <<agreementVars, intent, admitted, recorded>>

\* intents.updateStatus, to this call's own decision whichever was saved.
MarkDecided(c, w) ==
  /\ At(c, "decided", w)
  /\ intent' = IF intent[w].status = "PROPOSED"
               THEN [intent EXCEPT ![w].status = call[c].seen] ELSE intent
  /\ Return(c)
  /\ UNCHANGED <<agreementVars, accepted, admitted, recorded>>

\* materializeWork: the intent and its acceptance are read.
StartMaterialize(c, w) ==
  /\ Free(c)
  /\ intent[w].status \in {"ACCEPTED", "MATERIALIZED"}
  /\ accepted[w] = "ACCEPTED"
  /\ call' = [call EXCEPT ![c] = [Idle EXCEPT !.pc = "current", !.on = {w},
                                              !.doomed = changes[Under(w)] > 0]]
  /\ UNCHANGED <<agreementVars, workVars>>

\* assertMaterializationAgreementCurrent, then a record that is there is the answer.
CheckCurrent(c, w) ==
  /\ At(c, "current", w)
  /\ IF Coordinating(Under(w)) /\ w \notin recorded THEN GoTo(c, "admit") ELSE Return(c)
  /\ UNCHANGED <<agreementVars, workVars>>

\* The objective is named after the intent: it is admitted once, and every later answer is
\* a duplicate, which is an error here.
Admit(c, w) ==
  /\ At(c, "admit", w)
  /\ admitted' = admitted \cup {w}
  /\ IF w \in admitted THEN Return(c) ELSE GoTo(c, "record")
  /\ UNCHANGED <<agreementVars, intent, accepted, recorded>>

SaveMaterialization(c, w) ==
  /\ At(c, "record", w)
  /\ recorded' = recorded \cup {w}
  /\ GoTo(c, "recorded")
  /\ UNCHANGED <<agreementVars, intent, accepted, admitted>>

MarkMaterialized(c, w) ==
  /\ At(c, "recorded", w)
  /\ intent' = IF intent[w].status = "ACCEPTED"
               THEN [intent EXCEPT ![w].status = "MATERIALIZED"] ELSE intent
  /\ Return(c)
  /\ UNCHANGED <<agreementVars, accepted, admitted, recorded>>

-----------------------------------------------------------------------------

\* Outside the transaction, a call that dies leaves what it has written.
Crash(c) ==
  /\ call[c].pc \notin {"idle", "activate"}
  /\ Return(c)
  /\ UNCHANGED <<agreementVars, workVars>>

AgreementStep(c, a) ==
  \/ StartRatify(c, a) \/ SaveRatification(c, a) \/ MarkRatifying(c, a)
  \/ BeginActivation(c, a) \/ Commit(c, a) \/ Rollback(c, a)
  \/ StartWithdraw(c, a) \/ SaveChange(c, a) \/ Suspend(c, a)

WorkStep(c, w) ==
  \/ StartDecide(c, w) \/ SaveDecision(c, w) \/ MarkDecided(c, w)
  \/ StartMaterialize(c, w) \/ CheckCurrent(c, w) \/ Admit(c, w)
  \/ SaveMaterialization(c, w) \/ MarkMaterialized(c, w)

Next ==
  \/ \E a \in Agreement : ProposeAgreement(a) \/ \E c \in Call : AgreementStep(c, a)
  \/ \E w \in Intent : ProposeWork(w) \/ \E c \in Call : WorkStep(c, w)
  \/ \E c \in Call : Crash(c)

Spec == Init /\ [][Next]_vars
-----------------------------------------------------------------------------

TypeOK ==
  /\ agreement \in [Agreement -> [status: AgreementStatus, base: State]]
  /\ ratified \in [Agreement -> SUBSET Institution]
  /\ changes \in [Agreement -> 0 .. MaxChanges]
  /\ lock \subseteq Institution
  /\ intent \in [Intent -> [status: IntentStatus, under: {{}} \cup {{a} : a \in Agreement}]]
  /\ accepted \in [Intent -> {"NONE", "ACCEPTED", "REJECTED"}]
  /\ admitted \subseteq Intent
  /\ recorded \subseteq Intent
  /\ call \in [Call -> CallState]

Proposed == {a \in Agreement : Status(a) # "NONE"}
Succeeded == {a \in Agreement : Status(a) \in Activated}

\* docs/phase-22-governed-federation.md: "Activation runs in one PostgreSQL transaction".
\* An agreement is superseded by one other at most, of all that were proposed on it and
\* whoever takes part in them; and as long as every two versions have a participant in
\* common, for whose lock they wait, no two of them are ACTIVE.
AgreementsAreSerial ==
  /\ \A a, b \in Succeeded : \A s \in agreement[a].base, t \in agreement[b].base :
       s[1] = t[1] => a = b
  /\ (\A a, b \in Proposed : participants[a] \cap participants[b] # {}) => Cardinality(Active) <= 1

\* docs/phase-22-governed-federation.md: "Competing versions with the same base fingerprint:
\* exactly one succeeds".  No two agreements were activated that were proposed on one state.
\* The code does not keep it where none is ACTIVE: there is no row that both supersede, and
\* that state comes back (FederationCompetitors.cfg ends with two that are ACTIVE).
OneCompetitorSucceeds == \A a, b \in Succeeded : agreement[a].base = agreement[b].base => a = b

\* federation/service.ts materializeWork, "Never: SOURCE -> DIRECT TARGET RUN": work is
\* admitted only if its target accepted it, under an agreement that every participant
\* ratified, and never by a call that came after a withdrawal was saved, whether or not the
\* agreement had been suspended by then.  A record or MATERIALIZED has its run.
WorkIsAgreed ==
  /\ \A w \in admitted :
       /\ accepted[w] = "ACCEPTED"
       /\ Status(Under(w)) \in Activated /\ participants[Under(w)] \subseteq ratified[Under(w)]
  /\ recorded \subseteq admitted
  /\ \A w \in Intent : intent[w].status = "MATERIALIZED" => w \in recorded
  /\ \A c \in Call : call[c].pc = "admit" => ~call[c].doomed
=============================================================================
