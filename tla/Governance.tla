----------------------------- MODULE Governance -----------------------------
(***************************************************************************)
(* One governance case of one institution, with the authority it rests on: *)
(*                                                                         *)
(*   createDelegation: resolve the delegator -> list the ACTIVE edges ->   *)
(*             save the delegation                                         *)
(*   revokeTarget: save the revocation, then move the delegation's row or  *)
(*             mark the proof                                              *)
(*   attest:   read the case -> resolve the principal -> separation of     *)
(*             duties -> save -> COLLECTING -> list and count -> BLOCKED,  *)
(*             or save the proof -> SATISFIED                              *)
(*   phase gate: hold -> mandates -> proof -> its revocations -> mandate   *)
(*             -> hold -> each attestation's authority snapshot -> quorum  *)
(*                                                                         *)
(* There is no transaction: every statement stands alone.  The statements  *)
(* of one resolution are one step: what they read only ever becomes        *)
(* invalid.  There is one project, environment, action and subject, and    *)
(* time windows do not end.                                                *)
(***************************************************************************)
EXTENDS Naturals, FiniteSets, Sequences, SequencesExt

CONSTANTS
  Call,           \* concurrent calls
  Principal, Role,
  Grants,         \* canonical authority_grants: <<principal, role>>
  RequiredRole,   \* of the case
  Requirements,   \* the quorum requirements a mandate may have
  Proposals,      \* delegations that are asked for: <<delegator, delegate, role>>
  Voters,         \* who attests, and in which role: <<principal, role>>
  Separated,      \* FORBID_SAME_PRINCIPAL: <<roleA, roleB>>
  MaxDepth,       \* maximumDelegationDepth
  MaxDelegations, \* bound: delegations saved
  MaxRevocations, \* bound: revocations of grants, delegations and the proof
  MaxHolds,       \* bound: holds created
  NoOne           \* no principal

VARIABLES
  revoked,        \* the grants that have a revocation
  delegations,    \* authority_delegations, a row's place being its identifier
  revocations,    \* how many there are
  holds,          \* how many holds were created
  hold,           \* one is ACTIVE
  mandate,        \* the case's mandate is ACTIVE
  requirement,    \* the quorum requirement of the case
  status,         \* of the case
  attestations,   \* of the case
  proof,          \* of the case
  call            \* where each call is

authorityVars == <<revoked, delegations, revocations>>
holdVars == <<holds, hold>>
caseVars == <<requirement, status, attestations, proof>>
vars == <<authorityVars, holdVars, mandate, caseVars, call>>

Id == 1 .. MaxDelegations
Chain == Seq(Id)

Delegation == [from: Principal, to: Principal, role: Role, root: Principal, parents: Chain,
               status: {"ACTIVE", "REVOKED"}, revoked: BOOLEAN]

\* chain: the delegation chain of the authority snapshot, empty for a direct grant.
Attestation == [by: Principal, role: Role, decision: {"APPROVE", "REJECT"}, chain: Chain]

NewDelegation(p, q, r, root, parents) ==
  [from |-> p, to |-> q, role |-> r, root |-> root, parents |-> parents,
   status |-> "ACTIVE", revoked |-> FALSE]

NoProof == [status |-> "NONE", revoked |-> FALSE, attestations |-> {}]

PC == {"idle", "edges", "delegate", "revoke", "stale", "save", "collect",
       "tally", "block", "prove", "proof", "settle",
       "gate-mandates", "gate-proof", "gate-revocations", "gate-mandate", "gate-hold",
       "gate-snapshots", "passed"}

\* draft: the delegation to be saved; mine: the attestation to be saved; seen: the
\* status the case was read or moved to; list: attestations listed; fresh: those whose
\* snapshot was found fresh; doomed: what the gate asks for was void when it was asked.
CallState == [pc: PC, draft: Seq(Delegation), target: 0 .. MaxDelegations,
              mine: Seq(Attestation), seen: {"OPEN", "COLLECTING"},
              list: SUBSET Attestation, fresh: SUBSET Attestation, doomed: BOOLEAN]

Idle == [pc |-> "idle", draft |-> <<>>, target |-> 0, mine |-> <<>>, seen |-> "OPEN",
         list |-> {}, fresh |-> {}, doomed |-> FALSE]

\* A mandate is in force and openGovernanceCase has opened a case under it.
Init ==
  /\ revoked = {}
  /\ delegations = <<>>
  /\ revocations = 0
  /\ holds = 0
  /\ hold = FALSE
  /\ mandate = TRUE
  /\ requirement \in Requirements
  /\ status = "OPEN"
  /\ attestations = {}
  /\ proof = NoProof
  /\ call = [c \in Call |-> Idle]

At(c, pc) == call[c].pc = pc
Enter(c, state) == call' = [call EXCEPT ![c] = state]
GoTo(c, pc) == call' = [call EXCEPT ![c].pc = pc]
Return(c) == call' = [call EXCEPT ![c] = Idle]

-----------------------------------------------------------------------------
(* Authority: resolveAuthorityInternal, findValidDelegationChain,           *)
(* sourceGrantsValid                                                        *)

GrantValid(p, r) == <<p, r>> \in Grants \ revoked

LinkValid(d) ==
  /\ delegations[d].status = "ACTIVE"
  /\ ~delegations[d].revoked
  /\ GrantValid(delegations[d].root, delegations[d].role)

\* Mutant: the parents a delegation was made from are not looked at again.
ChainValid_LeafOnly(d) == LinkValid(d)

ChainValid(d) == LinkValid(d) /\ \A e \in Range(delegations[d].parents) : LinkValid(e)

ChainOf(d) == Append(delegations[d].parents, d)

\* What p holds role r by: a direct grant, else a valid delegation, and nothing under a hold.
Bases(p, r) ==
  IF hold THEN {}
  ELSE IF GrantValid(p, r) THEN {<<>>}
  ELSE {ChainOf(d) : d \in {e \in DOMAIN delegations :
          delegations[e].to = p /\ delegations[e].role = r /\ ChainValid(e)}}

Authorized(p, r) == Bases(p, r) # {}

-----------------------------------------------------------------------------
(* createDelegation                                                         *)

StartDelegate(c) ==
  \E w \in Proposals : \E chain \in Bases(w[1], w[3]) :
    LET root == IF chain = <<>> THEN w[1] ELSE delegations[Last(chain)].root
    IN  /\ At(c, "idle")
        /\ Len(chain) < MaxDepth
        /\ Enter(c, [Idle EXCEPT !.pc = "edges",
                                 !.draft = <<NewDelegation(w[1], w[2], w[3], root, chain)>>])
        /\ UNCHANGED <<authorityVars, holdVars, mandate, caseVars>>

\* assertNoDelegationCycle: a walk of as many edges as there are principals repeats one.
Cyclic(edges, from) ==
  \E walk \in [0 .. Cardinality(Principal) -> Principal] :
    walk[0] = from /\ \A i \in 1 .. Cardinality(Principal) : <<walk[i - 1], walk[i]>> \in edges

ActiveEdges ==
  {<<delegations[d].from, delegations[d].to>> :
     d \in {e \in DOMAIN delegations : delegations[e].status = "ACTIVE"}}

CheckCycle(c) ==
  LET new == call[c].draft[1]
  IN  /\ At(c, "edges")
      /\ IF Cyclic(ActiveEdges \cup {<<new.from, new.to>>}, new.from)
         THEN Return(c)
         ELSE GoTo(c, "delegate")
      /\ UNCHANGED <<authorityVars, holdVars, mandate, caseVars>>

SaveDelegation(c) ==
  /\ At(c, "delegate")
  /\ Len(delegations) < MaxDelegations
  /\ delegations' = delegations \o call[c].draft
  /\ Return(c)
  /\ UNCHANGED <<revoked, revocations, holdVars, mandate, caseVars>>

-----------------------------------------------------------------------------
(* revokeTarget, createHold and releaseHold                                 *)

RevokeGrant ==
  /\ revocations < MaxRevocations
  /\ \E g \in Grants \ revoked : revoked' = revoked \cup {g}
  /\ revocations' = revocations + 1
  /\ UNCHANGED <<delegations, holdVars, mandate, caseVars, call>>

SaveDelegationRevocation(c) ==
  \E d \in DOMAIN delegations :
    /\ At(c, "idle")
    /\ ~delegations[d].revoked
    /\ revocations < MaxRevocations
    /\ delegations' = [delegations EXCEPT ![d].revoked = TRUE]
    /\ revocations' = revocations + 1
    /\ Enter(c, [Idle EXCEPT !.pc = "revoke", !.target = d])
    /\ UNCHANGED <<revoked, holdVars, mandate, caseVars>>

RevokeDelegation(c) ==
  /\ At(c, "revoke")
  /\ delegations' = [delegations EXCEPT ![call[c].target].status = "REVOKED"]
  /\ Return(c)
  /\ UNCHANGED <<revoked, revocations, holdVars, mandate, caseVars>>

SaveProofRevocation(c) ==
  /\ At(c, "idle")
  /\ proof.status = "ACTIVE" /\ ~proof.revoked
  /\ revocations < MaxRevocations
  /\ proof' = [proof EXCEPT !.revoked = TRUE]
  /\ revocations' = revocations + 1
  /\ Enter(c, [Idle EXCEPT !.pc = "stale"])
  /\ UNCHANGED <<revoked, delegations, holdVars, mandate, requirement, status, attestations>>

MarkProofStale(c) ==
  /\ At(c, "stale")
  /\ proof' = [proof EXCEPT !.status = "STALE"]
  /\ Return(c)
  /\ UNCHANGED <<authorityVars, holdVars, mandate, requirement, status, attestations>>

\* revokeTarget of the mandate, supersedeMandate: nobody reads the revocation itself.
RetireMandate ==
  /\ mandate
  /\ mandate' = FALSE
  /\ UNCHANGED <<authorityVars, holdVars, caseVars, call>>

CreateHold ==
  /\ ~hold
  /\ holds < MaxHolds
  /\ hold' = TRUE
  /\ holds' = holds + 1
  /\ UNCHANGED <<authorityVars, mandate, caseVars, call>>

ReleaseHold ==
  /\ hold
  /\ hold' = FALSE
  /\ UNCHANGED <<authorityVars, holds, mandate, caseVars, call>>

-----------------------------------------------------------------------------
(* evaluateGovernanceQuorum, with rejectBlocksImmediately                   *)

By(cs, decision) == {a \in cs : a.decision = decision}
Principals(cs) == {a.by : a \in cs}

Blocked(cs) ==
  LET rejects == Cardinality(By(cs, "REJECT"))
  IN  IF requirement.kind = "K_OF_N"
      THEN requirement.threshold > 0 /\ rejects >= requirement.threshold
      ELSE rejects > 0

\* Mutant: a principal may take two seats.
Seatings_Twice(cs) ==
  {seat \in [DOMAIN requirement.roles -> Principal \cup {NoOne}] :
     \A i \in DOMAIN seat :
       LET free == {a.by : a \in {b \in cs : b.role = requirement.roles[i]}}
       IN  IF free = {} THEN seat[i] = NoOne ELSE seat[i] \in free}

\* ROLE_SET: each seat in turn goes to the first who has its role and no seat yet.  Who is
\* first is a matter of submission times.
Seatings(cs) ==
  {seat \in [DOMAIN requirement.roles -> Principal \cup {NoOne}] :
     \A i \in DOMAIN seat :
       LET free == {a.by : a \in {b \in cs : b.role = requirement.roles[i]}}
                     \ {seat[j] : j \in 1 .. i - 1}
       IN  IF free = {} THEN seat[i] = NoOne ELSE seat[i] \in free}

Outcomes(cs) ==
  LET approvals == By(cs, "APPROVE")
  IN  IF Blocked(cs) THEN {"BLOCKED"}
      ELSE IF requirement.kind = "ROLE_SET"
      THEN {IF NoOne \in Range(seat) THEN "PENDING" ELSE "SATISFIED" : seat \in Seatings(approvals)}
      ELSE {IF Cardinality(Principals(approvals)) >= requirement.k THEN "SATISFIED" ELSE "PENDING"}

-----------------------------------------------------------------------------
(* attest                                                                   *)

Open == {"OPEN", "COLLECTING"}

\* The roles that have a seat in this case.
AllowedRoles == {RequiredRole} \cup Range(requirement.roles)

SameKey(a, b) == a.by = b.by /\ a.role = b.role

\* assertSeparationOfDuties: each role is held by whoever approved in it last.
Occupancies(approvals) ==
  {f \in [{a.role : a \in approvals} -> Principal] :
     \A r \in DOMAIN f : \E a \in approvals : a.role = r /\ a.by = f[r]}

SeparationHolds(f) ==
  \A pair \in Separated :
    {pair[1], pair[2]} \subseteq DOMAIN f => f[pair[1]] # f[pair[2]]

\* Those the rule is checked on: a new approval takes the place of the earlier ones in its role.
ApprovalsWith(mine) ==
  LET prior == By(attestations, "APPROVE")
  IN  IF mine.decision = "APPROVE" THEN {a \in prior : a.role # mine.role} \cup {mine} ELSE prior

\* The reads before the save: the case, the authority, an attestation with the same key
\* (which ends the call, with its answer or as a conflict) and the earlier approvals.  Any of
\* them may be stale by the time of the save.
StartAttest(c) ==
  \E v \in Voters, d \in {"APPROVE", "REJECT"} : \E chain \in Bases(v[1], v[2]) :
    LET mine == [by |-> v[1], role |-> v[2], decision |-> d, chain |-> chain]
    IN  /\ At(c, "idle")
        /\ status \in Open
        /\ mine.role \in AllowedRoles
        /\ ~\E a \in attestations : SameKey(a, mine)
        /\ \E f \in Occupancies(ApprovalsWith(mine)) : SeparationHolds(f)
        /\ Enter(c, [Idle EXCEPT !.pc = "save", !.seen = status, !.mine = <<mine>>])
        /\ UNCHANGED <<authorityVars, holdVars, mandate, caseVars>>

\* ON CONFLICT DO NOTHING: another attestation with the key has another time, and so another
\* hash, which is an error.
SaveAttestation(c) ==
  LET mine == call[c].mine[1]
  IN  /\ At(c, "save")
      /\ IF \E a \in attestations : SameKey(a, mine)
         THEN Return(c) /\ UNCHANGED attestations
         ELSE /\ attestations' = attestations \cup {mine}
              /\ GoTo(c, IF call[c].seen = "OPEN" THEN "collect" ELSE "tally")
      /\ UNCHANGED <<authorityVars, holdVars, mandate, requirement, status, proof>>

\* A status occurs once in the life of a case: it stands for the revision too.
Collect(c) ==
  /\ At(c, "collect")
  /\ IF status = "OPEN"
     THEN status' = "COLLECTING" /\ call' = [call EXCEPT ![c].pc = "tally", ![c].seen = "COLLECTING"]
     ELSE Return(c) /\ UNCHANGED status
  /\ UNCHANGED <<authorityVars, holdVars, mandate, requirement, attestations, proof>>

\* collectValidContributions
Contributions(list) == {a \in list : Authorized(a.by, a.role)}

Tally(c) ==
  /\ At(c, "tally")
  /\ \E outcome \in Outcomes(Contributions(attestations)) :
       CASE outcome = "BLOCKED"   -> GoTo(c, "block")
         [] outcome = "SATISFIED" -> call' = [call EXCEPT ![c].pc = "prove", ![c].list = attestations]
         [] outcome = "PENDING"   -> Return(c)
  /\ UNCHANGED <<authorityVars, holdVars, mandate, caseVars>>

Block(c) ==
  /\ At(c, "block")
  /\ status' = IF status = "COLLECTING" THEN "BLOCKED" ELSE status
  /\ Return(c)
  /\ UNCHANGED <<authorityVars, holdVars, mandate, requirement, attestations, proof>>

\* ensureProofForCase: there is one already, or the quorum is counted again.  A hold refuses,
\* and under it nobody is authorized anyway.
Prove(c) ==
  /\ At(c, "prove")
  /\ \/ /\ proof # NoProof
        /\ GoTo(c, "settle")
     \/ /\ proof = NoProof
        /\ \E outcome \in Outcomes(Contributions(call[c].list)) :
             IF outcome = "SATISFIED"
             THEN call' = [call EXCEPT ![c].pc = "proof",
                                       ![c].list = By(Contributions(@), "APPROVE")]
             ELSE Return(c)
  /\ UNCHANGED <<authorityVars, holdVars, mandate, caseVars>>

\* One proof per case: ON CONFLICT DO NOTHING answers the one that is there.
SaveProof(c) ==
  /\ At(c, "proof")
  /\ proof' = IF proof = NoProof
              THEN [status |-> "ACTIVE", revoked |-> FALSE, attestations |-> call[c].list]
              ELSE proof
  /\ GoTo(c, "settle")
  /\ UNCHANGED <<authorityVars, holdVars, mandate, requirement, status, attestations>>

Settle(c) ==
  /\ At(c, "settle")
  /\ status' = IF status = "COLLECTING" THEN "SATISFIED" ELSE status
  /\ Return(c)
  /\ UNCHANGED <<authorityVars, holdVars, mandate, requirement, attestations, proof>>

-----------------------------------------------------------------------------
(* assertInstitutionalRequirements of a phase that presents the proof, and  *)
(* validateProof.  A check that fails ends the call.                        *)

\* Who is entitled to a role by the history of grants and delegations, whatever chains the
\* rows name: a path of delegations nobody revoked, from a holder of an unrevoked grant.
Entitled(p, r) ==
  \/ GrantValid(p, r)
  \/ \E path \in BoundedSeq(DOMAIN delegations, Len(delegations)) \ {<<>>} :
       /\ \A i \in DOMAIN path : delegations[path[i]].role = r /\ ~delegations[path[i]].revoked
       /\ \A i \in 2 .. Len(path) : delegations[path[i]].from = delegations[path[i - 1]].to
       /\ GrantValid(delegations[Head(path)].from, r)
       /\ delegations[Last(path)].to = p

\* That there are enough of them: principals who each take one seat.
Quorate(cs) ==
  IF requirement.kind = "ROLE_SET"
  THEN \E f \in [Range(requirement.roles) -> Principals(cs)] :
         /\ IsInjective(f)
         /\ \A r \in DOMAIN f : \E a \in cs : a.role = r /\ a.by = f[r]
  ELSE \E S \in SUBSET Principals(cs) : Cardinality(S) = requirement.k

Void ==
  /\ proof # NoProof
  /\ \/ proof.revoked
     \/ ~Quorate({a \in proof.attestations : Entitled(a.by, a.role)})

StartGate(c) ==
  /\ At(c, "idle")
  /\ ~hold
  /\ Enter(c, [Idle EXCEPT !.pc = "gate-mandates", !.doomed = Void])
  /\ UNCHANGED <<authorityVars, holdVars, mandate, caseVars>>

Check(c, here, condition, next) ==
  /\ At(c, here)
  /\ IF condition THEN GoTo(c, next) ELSE Return(c)
  /\ UNCHANGED <<authorityVars, holdVars, mandate, caseVars>>

\* Without an applicable mandate the gate is open and no proof is looked at.
GateMandates(c) == Check(c, "gate-mandates", mandate, "gate-proof")
GateProof(c) == Check(c, "gate-proof", proof.status = "ACTIVE", "gate-revocations")
GateRevocations(c) == Check(c, "gate-revocations", ~proof.revoked, "gate-mandate")
GateMandate(c) == Check(c, "gate-mandate", mandate, "gate-hold")

GateHold(c) ==
  /\ At(c, "gate-hold")
  /\ IF hold
     THEN Return(c)
     ELSE call' = [call EXCEPT ![c].pc = "gate-snapshots", ![c].list = proof.attestations]
  /\ UNCHANGED <<authorityVars, holdVars, mandate, caseVars>>

\* Mutant: an authority that was not delegated is not looked at again.
SnapshotFresh_ChainOnly(a) == ~hold /\ \A d \in Range(a.chain) : LinkValid(d)

\* validateAuthoritySnapshotFreshness
SnapshotFresh(a) ==
  /\ ~hold
  /\ IF a.chain = <<>> THEN GrantValid(a.by, a.role) ELSE \A d \in Range(a.chain) : LinkValid(d)

GateSnapshot(c) ==
  \E a \in call[c].list :
    /\ At(c, "gate-snapshots")
    /\ call' = [call EXCEPT ![c].list = @ \ {a},
                            ![c].fresh = IF SnapshotFresh(a) THEN @ \cup {a} ELSE @]
    /\ UNCHANGED <<authorityVars, holdVars, mandate, caseVars>>

GateQuorum(c) ==
  /\ At(c, "gate-snapshots")
  /\ call[c].list = {}
  /\ \E outcome \in Outcomes(call[c].fresh) :
       IF outcome = "SATISFIED" THEN GoTo(c, "passed") ELSE Return(c)
  /\ UNCHANGED <<authorityVars, holdVars, mandate, caseVars>>

Pass(c) ==
  /\ At(c, "passed")
  /\ Return(c)
  /\ UNCHANGED <<authorityVars, holdVars, mandate, caseVars>>

-----------------------------------------------------------------------------

\* The process of a call dies, or its connection does.
Crash(c) ==
  /\ ~At(c, "idle")
  /\ Return(c)
  /\ UNCHANGED <<authorityVars, holdVars, mandate, caseVars>>

Step(c) ==
  \/ StartDelegate(c) \/ CheckCycle(c) \/ SaveDelegation(c)
  \/ SaveDelegationRevocation(c) \/ RevokeDelegation(c)
  \/ SaveProofRevocation(c) \/ MarkProofStale(c)
  \/ StartAttest(c) \/ SaveAttestation(c) \/ Collect(c)
  \/ Tally(c) \/ Block(c) \/ Prove(c) \/ SaveProof(c) \/ Settle(c)
  \/ StartGate(c) \/ GateMandates(c) \/ GateProof(c) \/ GateRevocations(c) \/ GateMandate(c)
  \/ GateHold(c) \/ GateSnapshot(c) \/ GateQuorum(c) \/ Pass(c)
  \/ Crash(c)

Next ==
  \/ RevokeGrant \/ RetireMandate \/ CreateHold \/ ReleaseHold
  \/ \E c \in Call : Step(c)

Spec == Init /\ [][Next]_vars
-----------------------------------------------------------------------------

TypeOK ==
  /\ revoked \subseteq Grants
  /\ delegations \in Seq(Delegation) /\ Len(delegations) <= MaxDelegations
  /\ revocations \in 0 .. MaxRevocations
  /\ holds \in 0 .. MaxHolds /\ hold \in BOOLEAN /\ mandate \in BOOLEAN
  /\ requirement \in Requirements
  /\ status \in {"OPEN", "COLLECTING", "SATISFIED", "BLOCKED"}
  /\ attestations \subseteq Attestation
  /\ proof \in [status: {"NONE", "ACTIVE", "STALE"}, revoked: BOOLEAN,
                attestations: SUBSET Attestation]
  /\ call \in [Call -> CallState]

\* docs/phase-20-institutional-governance.md: "EffectiveAuthority is a subset of
\* DelegatedAuthority, that of SourceAuthority".  Whoever resolves as AUTHORIZED is
\* entitled by delegations none of which is revoked, from a grant that is not: a chain
\* that was saved before one of its links was revoked authorizes nobody.
AuthorityIsRooted ==
  \A p \in Principal, r \in Role : Authorized(p, r) => Entitled(p, r)

\* governance/quorum.ts: "Same principal cannot count twice toward the same quorum".  A
\* proof names approvals by as many principals as the mandate asks for, each in one seat;
\* a case is SATISFIED only with a proof and BLOCKED only after a rejection.
ProofRestsOnQuorum ==
  /\ proof # NoProof =>
       Quorate(proof.attestations) /\ proof.attestations \subseteq By(attestations, "APPROVE")
  /\ status = "SATISFIED" => proof # NoProof
  /\ status = "BLOCKED" => Blocked(attestations)

\* governance/service.ts validateProof: a proof that was revoked, or whose approvers have
\* lost so much authority that they are no quorum, opens no gate that is asked afterwards.
GateHonoursRevocations == \A c \in Call : At(c, "passed") => ~call[c].doomed
=============================================================================
