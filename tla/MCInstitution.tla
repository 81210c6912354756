--------------------------- MODULE MCInstitution ---------------------------
(***************************************************************************)
(* The institutional layers: a governance case, the changes of a           *)
(* constitution and a federation.  They keep their rows in tables of their *)
(* own and take each other's proofs for granted: a behaviour is that of    *)
(* one of them, chosen at the start.  The names that two of them use, call *)
(* and lock, stand for those of that one.  Three versions of an agreement  *)
(* and work under two of them are behaviours of their own.                 *)
(***************************************************************************)
EXTENDS Naturals, FiniteSets, Sequences, TLC

CONSTANTS a, b, d, r1, r2, i1, i2, i3, i4, unit, project,
          Call, Principal, Role, Grants, RequiredRole, Requirements, Proposals, Voters, Separated,
          MaxDepth, MaxDelegations, MaxRevocations, MaxHolds, NoOne,
          Unit, Project, Plans, Required, MaxProposals, MaxChanges, MaxReviews,
          Institution, participants, Intent, MaxVersions, MaxWithdrawals

\* a and b hold a role each; a may delegate its own to d, and d to b, who then votes in two.
OneEach == {<<a, r1>>, <<b, r2>>}
ToDThenB == {<<a, d, r1>>, <<d, b, r1>>}
Voting == {<<a, r1>>, <<b, r1>>, <<b, r2>>}
NotBoth == {<<r1, r2>>}

\* Both roles; or two of anybody, one rejection blocking.
EitherQuorum ==
  {[kind |-> "ROLE_SET", k |-> 2, roles |-> <<r1, r2>>, threshold |-> 0],
   [kind |-> "K_OF_N", k |-> 2, roles |-> <<>>, threshold |-> 1]}

\* A unit comes or goes, the institution is over one project more, a mandate is made.
OneStep == {[adds |-> {unit}, ends |-> {}, mandate |-> FALSE],
            [adds |-> {}, ends |-> {unit}, mandate |-> FALSE],
            [adds |-> {project}, ends |-> {}, mandate |-> FALSE],
            [adds |-> {}, ends |-> {}, mandate |-> TRUE]}

\* Each version has a participant of the one before it; or the two have none in common.
Rotating == <<{i1, i2}, {i2, i3}, {i3, i4}>>
Apart == <<{i1, i2}, {i3, i4}>>

\* Finitely many principals; grants, proposals and votes name principals and roles.
ASSUME GovernanceAssumption ==
  /\ IsFiniteSet(Principal)
  /\ Grants \subseteq Principal \X Role
  /\ Proposals \subseteq Principal \X Principal \X Role
  /\ Voters \subseteq Principal \X Role
  /\ Requirements \subseteq [kind: {"ROLE_SET", "K_OF_N"}, k: Nat, roles: Seq(Role), threshold: Nat]
  /\ MaxDelegations \in Nat /\ MaxRevocations \in Nat /\ MaxHolds \in Nat

ASSUME ConstitutionAssumption ==
  /\ Required \in Nat
  /\ Plans \subseteq [adds: SUBSET (Unit \cup Project),
                     ends: SUBSET (Unit \cup Project \cup (1 .. MaxChanges)), mandate: BOOLEAN]
  /\ MaxProposals \in Nat /\ MaxChanges \in Nat /\ MaxReviews \in Nat

\* Any versions may be proposed by any institutions, with participants in common or not.
ASSUME FederationAssumption ==
  /\ participants \in [1 .. MaxVersions -> SUBSET Institution]
  /\ MaxVersions \in Nat /\ MaxWithdrawals \in Nat

VARIABLES
  part,
  call, lock,
  revoked, delegations, revocations, holds, hold, mandate, requirement, status, attestations, proof,
  governance, epoch, proposal, analyzed, approvals, reviews, record, applied,
  agreement, ratified, changes, intent, accepted, admitted, recorded

G == INSTANCE Governance
C == INSTANCE Constitution
F == INSTANCE Federation WITH MaxChanges <- MaxWithdrawals

governanceOnly == <<revoked, delegations, revocations, holds, hold, mandate, requirement, status,
                    attestations, proof>>
constitutionOnly == <<governance, epoch, proposal, analyzed, approvals, reviews, record, applied>>
federationOnly == <<agreement, ratified, changes, intent, accepted, admitted, recorded>>

\* What the tables of the others look like: empty, or not looked at.
NoCase == /\ revoked = {} /\ delegations = <<>> /\ revocations = 0 /\ holds = 0 /\ hold = FALSE
          /\ mandate = FALSE /\ requirement = {} /\ status = "NONE" /\ attestations = {}
          /\ proof = G!NoProof
NoProposal == /\ governance = C!Nothing /\ epoch = 0 /\ proposal = <<>> /\ analyzed = {} /\ approvals = <<>>
              /\ reviews = <<>> /\ record = <<>> /\ applied = {}
NoAgreement == /\ agreement = <<>> /\ ratified = <<>> /\ changes = <<>> /\ intent = <<>>
               /\ accepted = <<>> /\ admitted = {} /\ recorded = {}

\* What the behaviours of a constitution are cut to: proposals beside revocations alone, or
\* one proposal beside everything that changes the governance without one.
NoDirect == \A c \in Call : call[c].pc \notin {"mandate", "enable"}
OneProposal == \A p \in 1 .. MaxProposals : p > 1 => proposal[p].status = "NONE"

\* Those of a federation: agreements alone, or work under two.
NoWork == \A w \in Intent : intent[w].status = "NONE"
TwoVersions == \A x \in 1 .. MaxVersions : x > 2 => agreement[x].status = "NONE"

Init ==
  \/ part = "governance" /\ G!Init /\ lock = {} /\ NoProposal /\ NoAgreement
  \/ part \in {"constitution", "direct"} /\ C!Init /\ NoCase /\ NoAgreement
  \/ part \in {"federation", "work"} /\ F!Init /\ NoCase /\ NoProposal

Next ==
  /\ UNCHANGED part
  /\ \/ part = "governance" /\ G!Next /\ UNCHANGED <<lock, constitutionOnly, federationOnly>>
     \/ part = "constitution" /\ C!Next /\ NoDirect' /\ UNCHANGED <<governanceOnly, federationOnly>>
     \/ part = "direct" /\ C!Next /\ OneProposal' /\ UNCHANGED <<governanceOnly, federationOnly>>
     \/ part = "federation" /\ F!Next /\ NoWork' /\ UNCHANGED <<governanceOnly, constitutionOnly>>
     \/ part = "work" /\ F!Next /\ TwoVersions' /\ UNCHANGED <<governanceOnly, constitutionOnly>>

Spec == Init /\ [][Next]_<<part, call, lock, governanceOnly, constitutionOnly, federationOnly>>

\* The changes of a constitution, or the agreements of a federation, by themselves.
Constitutional == Spec /\ part = "constitution"
Federal == Spec /\ part = "federation"

Interchangeable == Permutations(Call)
-----------------------------------------------------------------------------
\* Every table and every call holds what its columns and its code allow.
TypeOK ==
  CASE part = "governance"               -> G!TypeOK
    [] part \in {"constitution", "direct"} -> C!TypeOK
    [] part \in {"federation", "work"}     -> F!TypeOK

\* docs/phase-20-institutional-governance.md: "EffectiveAuthority is a subset of
\* DelegatedAuthority, that of SourceAuthority".  Nobody resolves as AUTHORIZED by a chain
\* one of whose links was revoked after it was delegated on.
AuthorityIsRooted == part = "governance" => G!AuthorityIsRooted

\* governance/quorum.ts: "Same principal cannot count twice toward the same quorum", over
\* attestations that come in beside each other and are counted by several calls.
ProofRestsOnQuorum == part = "governance" => G!ProofRestsOnQuorum

\* governance/service.ts validateProof: a proof that was revoked, or whose approvers have
\* lost too much of their authority, opens no gate that is asked afterwards, whichever of
\* the two statements of a revocation has been made.
GateHonoursRevocations == part = "governance" => G!GateHonoursRevocations

\* docs/phase-21-constitutional-change-control.md, docs/phase-22-governed-federation.md: no
\* two changes are let through by one reading of the governance, and none without its
\* reviews; an agreement is superseded by one at most, and those whose participants overlap
\* are ACTIVE one at a time.
ChangesAreSerial ==
  /\ part \in {"constitution", "direct"} => C!ChangesAreSerial
  /\ part \in {"federation", "work"} => F!AgreementsAreSerial

\* federation/service.ts materializeWork: work is admitted only if its target accepted it,
\* under an agreement that all have ratified and from which nobody had withdrawn.
WorkIsAgreed == part = "work" => F!WorkIsAgreed

\* docs/phase-21-constitutional-change-control.md: "Idempotent activation per proposal
\* identity".  No change is carried out twice: not kept, as ConstitutionReplayed.cfg shows.
AppliedOnce == part = "constitution" => C!AppliedOnce

\* docs/phase-22-governed-federation.md: "Competing versions with the same base fingerprint:
\* exactly one succeeds": not kept, as FederationCompetitors.cfg shows.
OneCompetitorSucceeds == part = "federation" => F!OneCompetitorSucceeds
=============================================================================
