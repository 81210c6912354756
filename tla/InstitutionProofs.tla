-------------------------- MODULE InstitutionProofs --------------------------
(***************************************************************************)
(* The institutional layers: what is proved of a governance case, of the   *)
(* changes of a constitution and of a federation, for any number of calls, *)
(* principals, roles, proposals, agreements and intents.                   *)
(*                                                                         *)
(* Each of the three has an inductive invariant of its own, which says     *)
(* what a call that has read something may rely on while it waits.  The    *)
(* last section puts them together for the behaviours of MCInstitution.    *)
(***************************************************************************)
EXTENDS MCInstitution, FiniteSetTheorems, FunctionTheorems, SequenceTheorems, TLAPS

-----------------------------------------------------------------------------
(* Governance                                                               *)

\* The delegations of a chain, in a table ds: each of role r, each from the delegate of the
\* one before, the first from its own root, the last to p.
Leads(ds, chain, p, r) ==
  /\ chain # <<>> /\ Len(chain) <= Len(ds)
  /\ \A i \in 1 .. Len(chain) : chain[i] \in 1 .. Len(ds) /\ ds[chain[i]].role = r
  /\ \A i \in 2 .. Len(chain) : ds[chain[i]].from = ds[chain[i - 1]].to
  /\ ds[chain[1]].root = ds[chain[1]].from
  /\ ds[chain[Len(chain)]].to = p

Based(ds, chain, p, r) == chain = <<>> \/ Leads(ds, chain, p, r)

\* A delegation that is to be saved in ds.
Fits(ds, n) == IF n.parents = <<>> THEN n.root = n.from ELSE Leads(ds, n.parents, n.from, n.role)

\* What an attestation was made by is still there, as far as revocations tell.
Stands(gone, ds, x) ==
  IF x.chain = <<>> THEN <<x.by, x.role>> \in Grants \ gone
  ELSE \A i \in 1 .. Len(x.chain) :
         /\ ~ds[x.chain[i]].revoked
         /\ <<ds[x.chain[i]].root, ds[x.chain[i]].role>> \in Grants \ gone

Standing(gone, ds, cs) == {x \in cs : Stands(gone, ds, x)}

\* Quorate and Blocked, of the requirement that is needed.
Seated(need, cs) ==
  IF need.kind = "ROLE_SET"
  THEN \E f \in [G!Range(need.roles) -> G!Principals(cs)] :
         /\ G!IsInjective(f)
         /\ \A r \in DOMAIN f : \E x \in cs : x.role = r /\ x.by = f[r]
  ELSE \E S \in SUBSET G!Principals(cs) : Cardinality(S) = need.k

Refused(need, cs) ==
  LET rejects == Cardinality(G!By(cs, "REJECT"))
  IN  IF need.kind = "K_OF_N" THEN need.threshold > 0 /\ rejects >= need.threshold ELSE rejects > 0

\* A chain that was saved ends in its own delegation and is no longer than the table was.
DelegationsLead ==
  \A e \in 1 .. Len(delegations) :
    /\ Len(delegations[e].parents) < e
    /\ Leads(delegations, G!ChainOf(e), delegations[e].to, delegations[e].role)

AttestationsRest ==
  /\ IsFiniteSet(attestations)
  /\ \A x \in attestations : Based(delegations, x.chain, x.by, x.role)

ProofIsSeated ==
  /\ proof.status = "NONE" => proof = G!NoProof
  /\ proof # G!NoProof =>
       Seated(requirement, proof.attestations) /\ proof.attestations \subseteq G!By(attestations, "APPROVE")
  /\ status = "SATISFIED" => proof # G!NoProof
  /\ status = "BLOCKED" => Refused(requirement, attestations)

\* What a call is about to write, or has been told.
GovernanceCall(c) ==
  /\ call[c].pc \in {"edges", "delegate"} =>
       Len(call[c].draft) = 1 /\ Fits(delegations, call[c].draft[1])
  /\ call[c].pc = "save" =>
       /\ Len(call[c].mine) = 1
       /\ LET x == call[c].mine[1] IN Based(delegations, x.chain, x.by, x.role)
  /\ call[c].pc = "block" => Refused(requirement, attestations)
  /\ call[c].pc = "prove" => call[c].list \subseteq attestations
  /\ call[c].pc = "proof" =>
       call[c].list \subseteq G!By(attestations, "APPROVE") /\ Seated(requirement, call[c].list)
  /\ call[c].pc \in {"settle", "stale"} => proof # G!NoProof

\* Why a gate that asks for what was void when it began will not open.
DoomedCall(c) ==
  /\ call[c].pc \in {"gate-mandates", "gate-proof", "gate-revocations"} /\ call[c].doomed =>
       /\ proof # G!NoProof
       /\ proof.revoked \/ ~Seated(requirement, Standing(revoked, delegations, proof.attestations))
  /\ call[c].pc \in {"gate-mandate", "gate-hold"} /\ call[c].doomed =>
       /\ proof # G!NoProof
       /\ ~Seated(requirement, Standing(revoked, delegations, proof.attestations))
  /\ call[c].pc = "gate-snapshots" /\ call[c].doomed =>
       ~Seated(requirement, call[c].fresh \cup Standing(revoked, delegations, call[c].list))
  /\ call[c].pc \in {"gate-mandates", "gate-proof", "gate-revocations", "gate-mandate", "gate-hold"} =>
       call[c].fresh = {}
  /\ call[c].pc = "gate-snapshots" => call[c].list \subseteq attestations
  /\ call[c].pc = "passed" => ~call[c].doomed

GovernanceInv ==
  /\ G!TypeOK
  /\ DelegationsLead
  /\ AttestationsRest
  /\ ProofIsSeated
  /\ \A c \in Call : GovernanceCall(c) /\ DoomedCall(c)

\* What every step does to a table of delegations: rows are added, and revoked.
Kept(ds, es) ==
  /\ Len(ds) <= Len(es)
  /\ \A e \in 1 .. Len(ds) :
       /\ es[e].from = ds[e].from /\ es[e].to = ds[e].to /\ es[e].role = ds[e].role
       /\ es[e].root = ds[e].root /\ es[e].parents = ds[e].parents
       /\ ds[e].revoked => es[e].revoked

-----------------------------------------------------------------------------
(* Sets, chains and quorums                                                 *)

\* A finite set has a subset of every size up to its own.
LEMMA SubsetOfSize ==
  ASSUME NEW S, IsFiniteSet(S), NEW k \in Nat, k <= Cardinality(S)
  PROVE  \E T \in SUBSET S : Cardinality(T) = k
<1> DEFINE n == Cardinality(S)
<1>1. n \in Nat /\ ExistsBijection(1 .. n, S)
  BY FS_CardinalityType
<1>2. PICK f : f \in Bijection(1 .. n, S)
  BY <1>1 DEF ExistsBijection
<1>3. f \in [1 .. n -> S] /\ \A i, j \in 1 .. n : f[i] = f[j] => i = j
  BY <1>2 DEF Bijection, Injection, IsInjective
<1> DEFINE T == {f[i] : i \in 1 .. k}
           g == [i \in 1 .. k |-> f[i]]
<1>4. 1 .. k \subseteq 1 .. n
  BY <1>1
<1>5. T \subseteq S
  BY <1>3, <1>4
<1>6. g \in [1 .. k -> T]
  OBVIOUS
<1>7. IsInjective(g)
  BY <1>3, <1>4 DEF IsInjective
<1>8. \A t \in T : \E i \in 1 .. k : g[i] = t
  OBVIOUS
<1>9. g \in Bijection(1 .. k, T)
  BY <1>6, <1>7, <1>8 DEF Bijection, Injection, Surjection
<1>10. IsFiniteSet(1 .. k) /\ Cardinality(1 .. k) = k
  BY FS_Interval
<1>11. Cardinality(T) = k
  BY <1>9, <1>10, FS_Bijection DEF ExistsBijection
<1> QED BY <1>5, <1>11

\* Counting is counting in every instance.
LEMMA CaseCardinality ==
  ASSUME NEW S
  PROVE  G!Cardinality(S) = Cardinality(S)
  BY DEF G!Cardinality, Cardinality

LEMMA RequirementType ==
  ASSUME G!TypeOK
  PROVE  /\ requirement.kind \in {"ROLE_SET", "K_OF_N"}
         /\ requirement.k \in Nat /\ requirement.threshold \in Nat
         /\ requirement.roles \in Seq(Role)
  BY GovernanceAssumption DEF G!TypeOK

LEMMA RequirementIsNeeded ==
  ASSUME NEW cs
  PROVE  (G!Quorate(cs) <=> Seated(requirement, cs)) /\ (G!Blocked(cs) <=> Refused(requirement, cs))
<1>1. G!Quorate(cs) <=> Seated(requirement, cs)
  BY CaseCardinality DEF G!Quorate, Seated
<1>2. G!Blocked(cs) <=> Refused(requirement, cs)
  BY CaseCardinality DEF G!Blocked, Refused
<1> QED BY <1>1, <1>2

\* More attestations are a quorum if fewer are.
LEMMA SeatedGrows ==
  ASSUME NEW need, NEW cs, NEW ds, cs \subseteq ds, Seated(need, cs)
  PROVE  Seated(need, ds)
<1>1. G!Principals(cs) \subseteq G!Principals(ds)
  BY DEF G!Principals
<1>2. CASE need.kind = "ROLE_SET"
  <2>1. PICK f \in [G!Range(need.roles) -> G!Principals(cs)] :
          /\ G!IsInjective(f)
          /\ \A r \in DOMAIN f : \E x \in cs : x.role = r /\ x.by = f[r]
    BY <1>2 DEF Seated
  <2>2. f \in [G!Range(need.roles) -> G!Principals(ds)]
    BY <1>1
  <2> QED BY <1>2, <2>1, <2>2 DEF Seated
<1>3. CASE need.kind # "ROLE_SET"
  BY <1>1, <1>3 DEF Seated
<1> QED BY <1>2, <1>3

\* Those whom a count finds to be enough can be seated.
LEMMA SatisfiedIsSeated ==
  ASSUME G!TypeOK, NEW cs, cs \subseteq G!Attestation, "SATISFIED" \in G!Outcomes(cs)
  PROVE  Seated(requirement, G!By(cs, "APPROVE"))
<1> DEFINE yes == G!By(cs, "APPROVE")
<1>1. yes \subseteq G!Attestation
  BY DEF G!By
<1>2. CASE requirement.kind = "ROLE_SET"
  <2>1. PICK seat \in G!Seatings(yes) : NoOne \notin G!Range(seat)
    BY <1>2 DEF G!Outcomes
  <2> DEFINE roles == requirement.roles
  <2>2. roles \in Seq(Role) /\ DOMAIN roles = 1 .. Len(roles) /\ Len(roles) \in Nat
    BY RequirementType
  <2>3. DOMAIN seat = 1 .. Len(roles)
    BY <2>1, <2>2 DEF G!Seatings
  <2>4. ASSUME NEW i \in 1 .. Len(roles)
        PROVE  /\ \E x \in yes : x.role = roles[i] /\ x.by = seat[i]
               /\ \A j \in 1 .. i - 1 : seat[j] # seat[i]
    <3>1. seat[i] # NoOne
      BY <2>1, <2>3 DEF G!Range
    <3>2. seat[i] \in {x.by : x \in {y \in yes : y.role = roles[i]}} \ {seat[j] : j \in 1 .. i - 1}
      BY <2>1, <2>2, <3>1 DEF G!Seatings
    <3> QED BY <3>2
  <2>5. \A i, j \in 1 .. Len(roles) : seat[i] = seat[j] => i = j
    <3>1. SUFFICES ASSUME NEW i \in 1 .. Len(roles), NEW j \in 1 .. Len(roles), seat[i] = seat[j], i # j
                   PROVE  FALSE
      OBVIOUS
    <3>2. CASE i < j
      BY <2>4, <3>1, <3>2, i \in 1 .. j - 1
    <3>3. CASE j < i
      BY <2>4, <3>1, <3>3, j \in 1 .. i - 1
    <3> QED BY <2>2, <3>1, <3>2, <3>3
  <2> DEFINE at(r) == CHOOSE i \in 1 .. Len(roles) : roles[i] = r
             f == [r \in G!Range(roles) |-> seat[at(r)]]
  <2>6. \A r \in G!Range(roles) : at(r) \in 1 .. Len(roles) /\ roles[at(r)] = r
    BY <2>2 DEF G!Range
  <2>7. \A r \in G!Range(roles) : \E x \in yes : x.role = r /\ x.by = f[r]
    <3> SUFFICES ASSUME NEW r \in G!Range(roles)
                 PROVE  \E x \in yes : x.role = r /\ x.by = f[r]
      OBVIOUS
    <3>1. f[r] = seat[at(r)] /\ at(r) \in 1 .. Len(roles) /\ roles[at(r)] = r
      BY <2>6
    <3> HIDE DEF f, at
    <3>2. \E x \in yes : x.role = roles[at(r)] /\ x.by = seat[at(r)]
      BY <2>4, <3>1
    <3> QED BY <3>1, <3>2
  <2>8. f \in [G!Range(roles) -> G!Principals(yes)]
    <3>1. \A r \in G!Range(roles) : f[r] \in G!Principals(yes)
      BY <2>7 DEF G!Principals
    <3> QED BY <3>1
  <2>9. G!IsInjective(f)
    BY <2>5, <2>6 DEF G!IsInjective
  <2> QED BY <1>2, <2>7, <2>8, <2>9 DEF Seated
<1>3. CASE requirement.kind # "ROLE_SET"
  <2>1. Cardinality(G!Principals(yes)) >= requirement.k
    BY <1>3, CaseCardinality DEF G!Outcomes
  <2>2. G!Principals(yes) \subseteq Principal
    BY <1>1 DEF G!Principals, G!Attestation
  <2>3. IsFiniteSet(G!Principals(yes)) /\ requirement.k \in Nat
    BY <2>2, FS_Subset, GovernanceAssumption, RequirementType
  <2>4. \E T \in SUBSET G!Principals(yes) : Cardinality(T) = requirement.k
    BY <2>1, <2>3, SubsetOfSize, FS_CardinalityType
  <2> QED BY <1>3, <2>4 DEF Seated
<1> QED BY <1>2, <1>3

\* A case that is blocked stays so, whoever attests afterwards.
LEMMA RefusedGrows ==
  ASSUME G!TypeOK, NEW cs, NEW ds, cs \subseteq ds, IsFiniteSet(ds), Refused(requirement, cs)
  PROVE  Refused(requirement, ds)
<1> DEFINE some == G!By(cs, "REJECT")
           more == G!By(ds, "REJECT")
<1>1. some \subseteq more /\ more \subseteq ds
  BY DEF G!By
<1>2. IsFiniteSet(more) /\ Cardinality(some) <= Cardinality(more)
  BY <1>1, FS_Subset
<1>3. Cardinality(some) \in Nat /\ Cardinality(more) \in Nat
  BY <1>1, <1>2, FS_Subset, FS_CardinalityType
<1> QED BY <1>2, <1>3, RequirementType DEF Refused

\* A count that ends BLOCKED has been refused.
LEMMA BlockedIsRefused ==
  ASSUME NEW cs, "BLOCKED" \in G!Outcomes(cs)
  PROVE  Refused(requirement, cs)
<1>1. G!Blocked(cs)
  BY DEF G!Outcomes
<1> QED BY <1>1, RequirementIsNeeded

\* A chain stays a chain, whatever is revoked and added.
LEMMA LeadsKept ==
  ASSUME NEW ds, NEW es, Len(ds) \in Nat, Len(es) \in Nat, Kept(ds, es),
         NEW p, NEW r, NEW chain \in Seq(Nat), Leads(ds, chain, p, r)
  PROVE  Leads(es, chain, p, r)
<1>1. Len(chain) \in Nat /\ chain # <<>>
  BY DEF Leads
<1>2. Len(chain) >= 1
  BY <1>1
<1>3. \A i \in 1 .. Len(chain) : chain[i] \in 1 .. Len(ds)
  BY DEF Leads
<1>4. \A i \in 1 .. Len(chain) : /\ chain[i] \in 1 .. Len(es)
                                /\ es[chain[i]].role = r
                                /\ es[chain[i]].from = ds[chain[i]].from
                                /\ es[chain[i]].to = ds[chain[i]].to
                                /\ es[chain[i]].root = ds[chain[i]].root
  <2> SUFFICES ASSUME NEW i \in 1 .. Len(chain), NEW e, e = chain[i]
               PROVE  /\ e \in 1 .. Len(es) /\ es[e].role = r /\ es[e].from = ds[e].from
                      /\ es[e].to = ds[e].to /\ es[e].root = ds[e].root
    OBVIOUS
  <2>1. e \in 1 .. Len(ds) /\ ds[e].role = r
    BY <1>3 DEF Leads
  <2>2. /\ es[e].from = ds[e].from /\ es[e].to = ds[e].to /\ es[e].role = ds[e].role
        /\ es[e].root = ds[e].root /\ Len(ds) <= Len(es)
    BY <2>1 DEF Kept
  <2> QED BY <2>1, <2>2
<1>5. \A i \in 2 .. Len(chain) : i \in 1 .. Len(chain) /\ i - 1 \in 1 .. Len(chain)
  BY <1>1
<1>6. 1 \in 1 .. Len(chain) /\ Len(chain) \in 1 .. Len(chain)
  BY <1>1, <1>2
<1>7. \A i \in 2 .. Len(chain) : es[chain[i]].from = es[chain[i - 1]].to
  BY <1>4, <1>5 DEF Leads
<1>8. es[chain[1]].root = es[chain[1]].from /\ es[chain[Len(chain)]].to = p
  BY <1>4, <1>6 DEF Leads
<1>9. Len(chain) <= Len(es)
  BY <1>1 DEF Leads, Kept
<1> QED BY <1>1, <1>4, <1>7, <1>8, <1>9 DEF Leads

\* What an attestation rests on is not given back.
LEMMA StandsFalls ==
  ASSUME NEW ds, NEW es, Len(ds) \in Nat, Len(es) \in Nat, Kept(ds, es),
         NEW gone, NEW lost, gone \subseteq lost,
         NEW x, Based(ds, x.chain, x.by, x.role), Stands(lost, es, x)
  PROVE  Stands(gone, ds, x)
<1>1. CASE x.chain = <<>>
  BY <1>1 DEF Stands
<1>2. CASE x.chain # <<>>
  <2>1. \A i \in 1 .. Len(x.chain) : x.chain[i] \in 1 .. Len(ds)
    BY <1>2 DEF Based, Leads
  <2> QED BY <1>2, <2>1 DEF Stands, Kept
<1> QED BY <1>1, <1>2

LEMMA ChainType ==
  ASSUME NEW chain \in G!Chain
  PROVE  chain \in Seq(Nat)
  BY GovernanceAssumption DEF G!Chain, G!Id

-----------------------------------------------------------------------------
(* What authority rests on                                                  *)

LEMMA DelegationTypes ==
  ASSUME G!TypeOK, NEW e \in 1 .. Len(delegations)
  PROVE  /\ delegations[e] \in G!Delegation
         /\ e \in G!Id
         /\ delegations[e].parents \in Seq(G!Id)
         /\ G!ChainOf(e) \in G!Chain
         /\ Len(G!ChainOf(e)) = Len(delegations[e].parents) + 1
         /\ \A i \in 1 .. Len(delegations[e].parents) : G!ChainOf(e)[i] = delegations[e].parents[i]
         /\ G!ChainOf(e)[Len(delegations[e].parents) + 1] = e
<1>1. delegations[e] \in G!Delegation
  BY DEF G!TypeOK
<1>2. e \in G!Id
  BY GovernanceAssumption DEF G!TypeOK, G!Id
<1>3. delegations[e].parents \in Seq(G!Id)
  BY <1>1 DEF G!Delegation, G!Chain
<1> DEFINE s == delegations[e].parents
<1>4. G!ChainOf(e) = Append(s, e)
  BY DEF G!ChainOf
<1>5. /\ Append(s, e) \in Seq(G!Id) /\ Len(Append(s, e)) = Len(s) + 1
      /\ \A i \in 1 .. Len(s) : Append(s, e)[i] = s[i]
      /\ Append(s, e)[Len(s) + 1] = e
  <2>1. s \in Seq(G!Id)
    BY <1>3
  <2> HIDE DEF s
  <2> QED BY <1>2, <2>1
<1> QED BY <1>1, <1>2, <1>3, <1>4, <1>5 DEF G!Chain

\* A chain none of whose links is revoked, and whose root's grant is not, is a path from a
\* grant that entitles.
LEMMA ChainEntitles ==
  ASSUME G!TypeOK, NEW chain \in G!Chain, NEW p, NEW r, Leads(delegations, chain, p, r),
         \A i \in 1 .. Len(chain) :
           /\ ~delegations[chain[i]].revoked
           /\ <<delegations[chain[i]].root, delegations[chain[i]].role>> \in Grants \ revoked
  PROVE  G!Entitled(p, r)
<1>1. /\ chain \in Seq(Nat) /\ Len(chain) \in Nat /\ DOMAIN chain = 1 .. Len(chain)
      /\ chain = [i \in 1 .. Len(chain) |-> chain[i]]
  BY ChainType
<1>2. Len(delegations) \in Nat /\ DOMAIN delegations = 1 .. Len(delegations)
  BY DEF G!TypeOK
<1>3. chain \in [1 .. Len(chain) -> DOMAIN delegations]
  BY <1>1, <1>2 DEF Leads
<1>4. chain \in G!BoundedSeq(DOMAIN delegations, Len(delegations)) \ {<<>>}
  <2>1. Len(chain) \in 0 .. Len(delegations) /\ chain # <<>>
    BY <1>1, <1>2 DEF Leads
  <2> QED BY <1>3, <2>1 DEF G!BoundedSeq, G!SeqOf
<1>5. Len(chain) >= 1
  BY <1>1 DEF Leads
<1>6. \A i \in DOMAIN chain : delegations[chain[i]].role = r /\ ~delegations[chain[i]].revoked
  BY <1>1 DEF Leads
<1>7. \A i \in 2 .. Len(chain) : delegations[chain[i]].from = delegations[chain[i - 1]].to
  BY DEF Leads
<1>8. G!GrantValid(delegations[Head(chain)].from, r)
  <2>1. Head(chain) = chain[1] /\ 1 \in 1 .. Len(chain)
    BY <1>1, <1>5
  <2> QED BY <2>1 DEF Leads, G!GrantValid
<1>9. delegations[G!Last(chain)].to = p
  BY DEF Leads, G!Last
<1> QED BY <1>4, <1>6, <1>7, <1>8, <1>9 DEF G!Entitled

LEMMA StandingEntitles ==
  ASSUME G!TypeOK, NEW x \in G!Attestation, Based(delegations, x.chain, x.by, x.role),
         Stands(revoked, delegations, x)
  PROVE  G!Entitled(x.by, x.role)
<1>1. CASE x.chain = <<>>
  BY <1>1 DEF Stands, G!Entitled, G!GrantValid
<1>2. CASE x.chain # <<>>
  <2>1. Leads(delegations, x.chain, x.by, x.role) /\ x.chain \in G!Chain
    BY <1>2 DEF Based, G!Attestation
  <2> QED BY <1>2, <2>1, ChainEntitles DEF Stands
<1> QED BY <1>1, <1>2

\* A link that is found valid is one that stands.
LEMMA ValidLinks ==
  ASSUME NEW chain \in Seq(Nat), \A e \in G!Range(chain) : G!LinkValid(e)
  PROVE  \A i \in 1 .. Len(chain) :
           /\ ~delegations[chain[i]].revoked
           /\ <<delegations[chain[i]].root, delegations[chain[i]].role>> \in Grants \ revoked
<1> SUFFICES ASSUME NEW i \in 1 .. Len(chain)
             PROVE  /\ ~delegations[chain[i]].revoked
                    /\ <<delegations[chain[i]].root, delegations[chain[i]].role>> \in Grants \ revoked
  OBVIOUS
<1>1. chain[i] \in G!Range(chain)
  BY DEF G!Range
<1>2. G!LinkValid(chain[i])
  BY <1>1
<1> QED BY <1>2 DEF G!LinkValid, G!GrantValid

LEMMA FreshStands ==
  ASSUME NEW x \in G!Attestation, G!SnapshotFresh(x)
  PROVE  Stands(revoked, delegations, x)
<1>1. x.chain \in Seq(Nat)
  BY ChainType DEF G!Attestation
<1>2. CASE x.chain = <<>>
  BY <1>2 DEF G!SnapshotFresh, G!GrantValid, Stands
<1>3. CASE x.chain # <<>>
  BY <1>1, <1>3, ValidLinks DEF G!SnapshotFresh, Stands
<1> QED BY <1>2, <1>3

\* A principal is authorized by a grant of its own, or by a delegation whose chain stands.
LEMMA BasisIsRooted ==
  ASSUME G!TypeOK, DelegationsLead, NEW p, NEW r, NEW chain \in G!Bases(p, r)
  PROVE  /\ chain \in G!Chain
         /\ Based(delegations, chain, p, r)
         /\ chain = <<>> => G!GrantValid(p, r)
         /\ chain # <<>> => \A i \in 1 .. Len(chain) :
              /\ ~delegations[chain[i]].revoked
              /\ <<delegations[chain[i]].root, delegations[chain[i]].role>> \in Grants \ revoked
<1>1. ~hold
  BY DEF G!Bases
<1>2. CASE G!GrantValid(p, r)
  BY <1>1, <1>2 DEF G!Bases, Based, G!Chain
<1>3. CASE ~G!GrantValid(p, r)
  <2>1. PICK e \in DOMAIN delegations :
          /\ delegations[e].to = p /\ delegations[e].role = r /\ G!ChainValid(e)
          /\ chain = G!ChainOf(e)
    BY <1>1, <1>3 DEF G!Bases
  <2>2. e \in 1 .. Len(delegations)
    BY <2>1 DEF G!TypeOK
  <2>3. chain \in G!Chain /\ Leads(delegations, chain, p, r)
    BY <2>1, <2>2, DelegationTypes DEF DelegationsLead
  <2> DEFINE s == delegations[e].parents
  <2>4. s \in Seq(Nat) /\ Len(s) \in Nat
    BY <2>2, DelegationTypes, ChainType DEF G!Chain
  <2>5. \A i \in 1 .. Len(chain) :
          /\ ~delegations[chain[i]].revoked
          /\ <<delegations[chain[i]].root, delegations[chain[i]].role>> \in Grants \ revoked
    <3>1. ~delegations[e].revoked /\ <<delegations[e].root, delegations[e].role>> \in Grants \ revoked
      BY <2>1 DEF G!ChainValid, G!LinkValid, G!GrantValid
    <3>2. \A i \in 1 .. Len(s) :
            /\ ~delegations[s[i]].revoked
            /\ <<delegations[s[i]].root, delegations[s[i]].role>> \in Grants \ revoked
      BY <2>1, <2>4, ValidLinks DEF G!ChainValid
    <3>3. /\ Len(chain) = Len(s) + 1 /\ chain[Len(s) + 1] = e
          /\ \A i \in 1 .. Len(s) : chain[i] = s[i]
      BY <2>1, <2>2, DelegationTypes
    <3>4. \A i \in 1 .. Len(chain) : i \in 1 .. Len(s) \/ i = Len(s) + 1
      BY <2>4, <3>3
    <3> QED BY <3>1, <3>2, <3>3, <3>4
  <2> QED BY <2>3, <2>5 DEF Based, Leads
<1> QED BY <1>2, <1>3

LEMMA AuthorizedIsEntitled ==
  ASSUME G!TypeOK, DelegationsLead
  PROVE  G!AuthorityIsRooted
<1> SUFFICES ASSUME NEW p \in Principal, NEW r \in Role, G!Authorized(p, r)
             PROVE  G!Entitled(p, r)
  BY DEF G!AuthorityIsRooted
<1>1. PICK chain : chain \in G!Bases(p, r)
  BY DEF G!Authorized
<1>2. CASE chain = <<>>
  BY <1>1, <1>2, BasisIsRooted DEF G!Entitled
<1>3. CASE chain # <<>>
  BY <1>1, <1>3, BasisIsRooted, ChainEntitles DEF Based
<1> QED BY <1>2, <1>3

\* What makes a gate's demand void makes its approvers, as they attested, no quorum.
LEMMA VoidIsUnseated ==
  ASSUME G!TypeOK, AttestationsRest, ProofIsSeated, G!Void
  PROVE  /\ proof # G!NoProof
         /\ proof.revoked \/ ~Seated(requirement, Standing(revoked, delegations, proof.attestations))
<1> DEFINE seats == proof.attestations
<1>1. proof # G!NoProof /\ seats \subseteq attestations /\ attestations \subseteq G!Attestation
  BY DEF G!Void, ProofIsSeated, G!By, G!TypeOK
<1>2. \A x \in Standing(revoked, delegations, seats) : G!Entitled(x.by, x.role)
  BY <1>1, StandingEntitles DEF Standing, AttestationsRest
<1>3. Standing(revoked, delegations, seats) \subseteq {x \in seats : G!Entitled(x.by, x.role)}
  BY <1>2 DEF Standing
<1>4. proof.revoked \/ ~Seated(requirement, {x \in seats : G!Entitled(x.by, x.role)})
  BY RequirementIsNeeded DEF G!Void
<1> QED BY <1>1, <1>3, <1>4, SeatedGrows

-----------------------------------------------------------------------------
(* A step of one call, seen by the others                                   *)

Onward ==
  /\ requirement' = requirement
  /\ revoked \subseteq revoked'
  /\ Kept(delegations, delegations')
  /\ attestations \subseteq attestations'
  /\ proof # G!NoProof =>
       /\ proof' # G!NoProof /\ proof'.attestations = proof.attestations
       /\ proof.revoked => proof'.revoked

OthersWait(c) == \A x \in Call \ {c} : call'[x] = call[x]

LEMMA TableTypes ==
  ASSUME G!TypeOK
  PROVE  /\ Len(delegations) \in Nat /\ DOMAIN delegations = 1 .. Len(delegations)
         /\ delegations \in Seq(G!Delegation)
         /\ attestations \subseteq G!Attestation
         /\ proof.attestations \subseteq G!Attestation
         /\ proof.revoked \in BOOLEAN
         /\ requirement \in Requirements
  BY DEF G!TypeOK

LEMMA CallTypes ==
  ASSUME G!TypeOK, NEW c \in Call
  PROVE  /\ call[c] \in G!CallState
         /\ call[c].pc \in G!PC /\ call[c].draft \in Seq(G!Delegation) /\ call[c].mine \in Seq(G!Attestation)
         /\ call[c].target \in 0 .. MaxDelegations /\ call[c].seen \in {"OPEN", "COLLECTING"}
         /\ call[c].list \subseteq G!Attestation /\ call[c].fresh \subseteq G!Attestation
         /\ call[c].doomed \in BOOLEAN
  BY DEF G!TypeOK, G!CallState

LEMMA KeptSame ==
  ASSUME NEW ds, Len(ds) \in Nat
  PROVE  Kept(ds, ds)
  BY DEF Kept

\* What is based on a table is based on what becomes of it.
LEMMA BasedKept ==
  ASSUME NEW ds, NEW es, Len(ds) \in Nat, Len(es) \in Nat, Kept(ds, es),
         NEW p, NEW r, NEW chain \in G!Chain, Based(ds, chain, p, r)
  PROVE  Based(es, chain, p, r)
  BY ChainType, LeadsKept DEF Based

LEMMA FitsKept ==
  ASSUME NEW ds, NEW es, Len(ds) \in Nat, Len(es) \in Nat, Kept(ds, es),
         NEW n \in G!Delegation, Fits(ds, n)
  PROVE  Fits(es, n)
  BY ChainType, LeadsKept DEF Fits, G!Delegation

\* Fewer stand afterwards.
LEMMA StandingFalls ==
  ASSUME NEW ds, NEW es, Len(ds) \in Nat, Len(es) \in Nat, Kept(ds, es),
         NEW gone, NEW lost, gone \subseteq lost,
         NEW cs, \A x \in cs : Based(ds, x.chain, x.by, x.role)
  PROVE  Standing(lost, es, cs) \subseteq Standing(gone, ds, cs)
  BY StandsFalls DEF Standing

LEMMA WaitingCall ==
  ASSUME GovernanceInv, G!TypeOK', IsFiniteSet(attestations'), Onward,
         NEW x \in Call, call'[x] = call[x]
  PROVE  GovernanceCall(x)'
<1> DEFINE k == call[x]
<1>1. GovernanceCall(x) /\ G!TypeOK
  BY DEF GovernanceInv
<1>2. Len(delegations) \in Nat /\ Len(delegations') \in Nat /\ Kept(delegations, delegations')
  BY <1>1, TableTypes DEF G!TypeOK, Onward
<1>3. /\ requirement' = requirement /\ attestations \subseteq attestations'
      /\ proof # G!NoProof => proof' # G!NoProof
  BY DEF Onward
<1>4. k.pc \in {"edges", "delegate"} => Len(k.draft) = 1 /\ Fits(delegations', k.draft[1])
  <2> SUFFICES ASSUME k.pc \in {"edges", "delegate"}
               PROVE  Len(k.draft) = 1 /\ Fits(delegations', k.draft[1])
    OBVIOUS
  <2>1. Len(k.draft) = 1 /\ Fits(delegations, k.draft[1]) /\ k.draft[1] \in G!Delegation
    BY <1>1, CallTypes DEF GovernanceCall
  <2> QED BY <1>2, <2>1, FitsKept
<1>5. k.pc = "save" =>
        Len(k.mine) = 1 /\ Based(delegations', k.mine[1].chain, k.mine[1].by, k.mine[1].role)
  <2> SUFFICES ASSUME k.pc = "save"
               PROVE  Len(k.mine) = 1 /\ Based(delegations', k.mine[1].chain, k.mine[1].by, k.mine[1].role)
    OBVIOUS
  <2>1. /\ Len(k.mine) = 1 /\ k.mine[1] \in G!Attestation
        /\ Based(delegations, k.mine[1].chain, k.mine[1].by, k.mine[1].role)
    BY <1>1, CallTypes DEF GovernanceCall
  <2>2. k.mine[1].chain \in G!Chain
    BY <2>1 DEF G!Attestation
  <2> QED BY <1>2, <2>1, <2>2, BasedKept
<1>6. k.pc = "block" => Refused(requirement, attestations')
  BY <1>1, <1>3, RefusedGrows DEF GovernanceCall
<1>7. k.pc = "prove" => k.list \subseteq attestations'
  BY <1>1, <1>3 DEF GovernanceCall
<1>8. k.pc = "proof" => k.list \subseteq G!By(attestations', "APPROVE") /\ Seated(requirement, k.list)
  BY <1>1, <1>3 DEF GovernanceCall, G!By
<1>9. k.pc \in {"settle", "stale"} => proof' # G!NoProof
  BY <1>1, <1>3 DEF GovernanceCall
<1> HIDE DEF k
<1>10. call'[x] = k
  BY DEF k
<1> QED BY <1>3, <1>4, <1>5, <1>6, <1>7, <1>8, <1>9, <1>10 DEF GovernanceCall

LEMMA WaitingGate ==
  ASSUME GovernanceInv, G!TypeOK', Onward, NEW x \in Call, call'[x] = call[x]
  PROVE  DoomedCall(x)'
<1> DEFINE k == call[x]
           S(cs) == Standing(revoked, delegations, cs)
           T(cs) == Standing(revoked', delegations', cs)
<1>1. /\ DoomedCall(x) /\ G!TypeOK /\ ProofIsSeated
      /\ \A y \in attestations : Based(delegations, y.chain, y.by, y.role)
  BY DEF GovernanceInv, AttestationsRest
<1>2. Len(delegations) \in Nat /\ Len(delegations') \in Nat /\ Kept(delegations, delegations')
  BY <1>1, TableTypes DEF G!TypeOK, Onward
<1>3. /\ requirement' = requirement /\ revoked \subseteq revoked' /\ attestations \subseteq attestations'
      /\ proof # G!NoProof => /\ proof' # G!NoProof /\ proof'.attestations = proof.attestations
                              /\ proof.revoked => proof'.revoked
  BY DEF Onward
<1>4. \A cs \in SUBSET attestations : T(cs) \subseteq S(cs)
  BY <1>1, <1>2, <1>3, StandingFalls
<1>5. proof # G!NoProof => proof.attestations \in SUBSET attestations
  BY <1>1 DEF ProofIsSeated, G!By
<1>6. proof # G!NoProof /\ ~Seated(requirement, S(proof.attestations)) =>
        proof' # G!NoProof /\ ~Seated(requirement, T(proof'.attestations))
  BY <1>3, <1>4, <1>5, SeatedGrows
<1>7. k.pc \in {"gate-mandates", "gate-proof", "gate-revocations"} /\ k.doomed =>
        proof' # G!NoProof /\ (proof'.revoked \/ ~Seated(requirement, T(proof'.attestations)))
  BY <1>1, <1>3, <1>6 DEF DoomedCall
<1>8. k.pc \in {"gate-mandate", "gate-hold"} /\ k.doomed =>
        proof' # G!NoProof /\ ~Seated(requirement, T(proof'.attestations))
  BY <1>1, <1>6 DEF DoomedCall
<1>9. k.pc = "gate-snapshots" => k.list \subseteq attestations
  BY <1>1 DEF DoomedCall
<1>10. k.pc = "gate-snapshots" /\ k.doomed => ~Seated(requirement, k.fresh \cup T(k.list))
  <2> SUFFICES ASSUME k.pc = "gate-snapshots", k.doomed, Seated(requirement, k.fresh \cup T(k.list))
               PROVE  FALSE
    OBVIOUS
  <2>1. k.fresh \cup T(k.list) \subseteq k.fresh \cup S(k.list)
    BY <1>4, <1>9
  <2>2. Seated(requirement, k.fresh \cup S(k.list))
    <3> HIDE DEF S, T, k
    <3> QED BY <2>1, SeatedGrows
  <2> QED BY <1>1, <2>2 DEF DoomedCall
<1>11. k.pc = "passed" => ~k.doomed
  BY <1>1 DEF DoomedCall
<1>12. k.pc \in {"gate-mandates", "gate-proof", "gate-revocations", "gate-mandate", "gate-hold"} =>
         k.fresh = {}
  BY <1>1 DEF DoomedCall
<1>13. call'[x] = k
  OBVIOUS
<1> HIDE DEF k
<1> QED BY <1>3, <1>7, <1>8, <1>9, <1>10, <1>11, <1>12, <1>13 DEF DoomedCall

LEMMA CallStep ==
  ASSUME GovernanceInv, G!TypeOK', Onward, NEW c \in Call, OthersWait(c),
         DelegationsLead', AttestationsRest', ProofIsSeated', GovernanceCall(c)', DoomedCall(c)'
  PROVE  GovernanceInv'
<1>1. \A x \in Call \ {c} : GovernanceCall(x)' /\ DoomedCall(x)'
  <2> SUFFICES ASSUME NEW x \in Call \ {c}
               PROVE  GovernanceCall(x)' /\ DoomedCall(x)'
    OBVIOUS
  <2>1. call'[x] = call[x]
    BY DEF OthersWait
  <2>2. IsFiniteSet(attestations')
    BY DEF AttestationsRest
  <2> QED BY <2>1, <2>2, WaitingCall, WaitingGate
<1>2. \A x \in Call : GovernanceCall(x)' /\ DoomedCall(x)'
  BY <1>1
<1> QED BY <1>2 DEF GovernanceInv

LEMMA QuietStep ==
  ASSUME GovernanceInv, UNCHANGED <<G!authorityVars, G!holdVars, mandate, G!caseVars>>,
         NEW c \in Call, call' \in [Call -> G!CallState], OthersWait(c),
         GovernanceCall(c)', DoomedCall(c)'
  PROVE  GovernanceInv'
<1>1. /\ revoked' = revoked /\ delegations' = delegations /\ revocations' = revocations
      /\ holds' = holds /\ hold' = hold /\ mandate' = mandate /\ requirement' = requirement
      /\ status' = status /\ attestations' = attestations /\ proof' = proof
  BY DEF G!authorityVars, G!holdVars, G!caseVars
<1>2. G!TypeOK'
  BY <1>1 DEF GovernanceInv, G!TypeOK
<1>3. Onward
  BY <1>1, TableTypes, KeptSame DEF Onward, GovernanceInv
<1>4. DelegationsLead'
  BY <1>1 DEF GovernanceInv, DelegationsLead, G!ChainOf
<1>5. AttestationsRest'
  BY <1>1 DEF GovernanceInv, AttestationsRest
<1>6. ProofIsSeated'
  BY <1>1 DEF GovernanceInv, ProofIsSeated
<1> QED BY <1>2, <1>3, <1>4, <1>5, <1>6, CallStep

\* A call that has ended is about to do nothing.
LEMMA IdleCall ==
  ASSUME NEW c \in Call, call'[c] = G!Idle
  PROVE  GovernanceCall(c)' /\ DoomedCall(c)'
<1>1. call'[c].pc = "idle"
  BY DEF G!Idle
<1> QED BY <1>1 DEF GovernanceCall, DoomedCall

LEMMA IdleType ==
  G!Idle \in G!CallState
<1>1. "idle" \in G!PC
  BY DEF G!PC
<1> QED BY <1>1, GovernanceAssumption DEF G!Idle, G!CallState

LEMMA Enters ==
  ASSUME G!TypeOK, NEW c \in Call, NEW state \in G!CallState, G!Enter(c, state)
  PROVE  call' \in [Call -> G!CallState] /\ OthersWait(c) /\ call'[c] = state
  BY DEF G!TypeOK, G!Enter, OthersWait

LEMMA Returns ==
  ASSUME G!TypeOK, NEW c \in Call, G!Return(c)
  PROVE  /\ call' \in [Call -> G!CallState] /\ OthersWait(c)
         /\ GovernanceCall(c)' /\ DoomedCall(c)'
<1>1. call' \in [Call -> G!CallState] /\ OthersWait(c) /\ call'[c] = G!Idle
  BY IdleType DEF G!TypeOK, G!Return, OthersWait
<1> QED BY <1>1, IdleCall

LEMMA GoesTo ==
  ASSUME G!TypeOK, NEW c \in Call, NEW pc \in G!PC, G!GoTo(c, pc)
  PROVE  /\ call' \in [Call -> G!CallState] /\ OthersWait(c)
         /\ call'[c] = [call[c] EXCEPT !.pc = pc]
<1>1. call \in [Call -> G!CallState]
  BY DEF G!TypeOK
<1>2. [call[c] EXCEPT !.pc = pc] \in G!CallState
  BY <1>1 DEF G!CallState
<1>3. call' = [call EXCEPT ![c] = [call[c] EXCEPT !.pc = pc]]
  BY DEF G!GoTo
<1> QED BY <1>1, <1>2, <1>3 DEF OthersWait

\* What a call has after its program counter has moved.
LEMMA MovedCall ==
  ASSUME G!TypeOK, NEW c \in Call, NEW pc \in G!PC, G!GoTo(c, pc)
  PROVE  /\ call'[c].pc = pc /\ call'[c].draft = call[c].draft /\ call'[c].mine = call[c].mine
         /\ call'[c].list = call[c].list /\ call'[c].fresh = call[c].fresh
         /\ call'[c].doomed = call[c].doomed
<1>1. call[c] \in G!CallState
  BY CallTypes
<1>2. call'[c] = [call[c] EXCEPT !.pc = pc]
  BY GoesTo
<1> QED BY <1>1, <1>2 DEF G!CallState

-----------------------------------------------------------------------------
(* The steps that change the call alone                                     *)

LEMMA QuietReturn ==
  ASSUME GovernanceInv, UNCHANGED <<G!authorityVars, G!holdVars, mandate, G!caseVars>>,
         NEW c \in Call, G!Return(c)
  PROVE  GovernanceInv'
  BY Returns, QuietStep DEF GovernanceInv

LEMMA StartDelegateKeeps ==
  ASSUME GovernanceInv, NEW c \in Call, G!StartDelegate(c)
  PROVE  GovernanceInv'
<1>0. G!TypeOK /\ DelegationsLead
  BY DEF GovernanceInv
<1>1. PICK w \in Proposals : \E chain \in G!Bases(w[1], w[3]) :
        LET root == IF chain = <<>> THEN w[1] ELSE delegations[G!Last(chain)].root
        IN  /\ G!At(c, "idle")
            /\ Len(chain) < MaxDepth
            /\ G!Enter(c, [G!Idle EXCEPT !.pc = "edges",
                                         !.draft = <<G!NewDelegation(w[1], w[2], w[3], root, chain)>>])
            /\ UNCHANGED <<G!authorityVars, G!holdVars, mandate, G!caseVars>>
  BY DEF G!StartDelegate
<1>2. PICK chain \in G!Bases(w[1], w[3]) :
        LET root == IF chain = <<>> THEN w[1] ELSE delegations[G!Last(chain)].root
        IN  /\ G!At(c, "idle")
            /\ Len(chain) < MaxDepth
            /\ G!Enter(c, [G!Idle EXCEPT !.pc = "edges",
                                         !.draft = <<G!NewDelegation(w[1], w[2], w[3], root, chain)>>])
            /\ UNCHANGED <<G!authorityVars, G!holdVars, mandate, G!caseVars>>
  BY <1>1
<1> DEFINE root == IF chain = <<>> THEN w[1] ELSE delegations[G!Last(chain)].root
           n == G!NewDelegation(w[1], w[2], w[3], root, chain)
           state == [G!Idle EXCEPT !.pc = "edges", !.draft = <<n>>]
<1>3. w[1] \in Principal /\ w[2] \in Principal /\ w[3] \in Role
  BY GovernanceAssumption
<1>4. chain \in G!Chain /\ Based(delegations, chain, w[1], w[3])
  BY <1>0, BasisIsRooted
<1>5. root \in Principal
  <2>1. CASE chain = <<>>
    BY <1>3, <2>1
  <2>2. CASE chain # <<>>
    <3>1. Len(chain) \in Nat /\ Len(chain) >= 1
      BY <1>4, <2>2, ChainType
    <3>2. chain[Len(chain)] \in 1 .. Len(delegations)
      BY <1>4, <2>2, <3>1 DEF Based, Leads
    <3>3. delegations[chain[Len(chain)]] \in G!Delegation
      BY <1>0, <3>2, DelegationTypes
    <3> QED BY <2>2, <3>3 DEF G!Last, G!Delegation
  <2> QED BY <2>1, <2>2
<1> HIDE DEF root
<1>6. n \in G!Delegation /\ Fits(delegations, n)
  <2>1. n \in G!Delegation
    BY <1>3, <1>4, <1>5 DEF G!NewDelegation, G!Delegation
  <2>2. Fits(delegations, n)
    BY <1>4 DEF G!NewDelegation, Fits, Based, root
  <2> QED BY <2>1, <2>2
<1> HIDE DEF n
<1>7. "edges" \in G!PC
  BY DEF G!PC
<1>8. state \in G!CallState /\ state.pc = "edges" /\ state.draft = <<n>>
  <2>1. <<n>> \in Seq(G!Delegation)
    BY <1>6
  <2>2. G!Idle \in G!CallState
    BY IdleType
  <2> QED BY <1>7, <2>1, <2>2 DEF G!CallState
<1>9. G!Enter(c, state) /\ UNCHANGED <<G!authorityVars, G!holdVars, mandate, G!caseVars>>
  BY <1>2 DEF root, n
<1> HIDE DEF state
<1>10. call' \in [Call -> G!CallState] /\ OthersWait(c) /\ call'[c] = state
  BY <1>0, <1>8, <1>9, Enters
<1>11. delegations' = delegations
  BY <1>9 DEF G!authorityVars
<1>12. GovernanceCall(c)'
  BY <1>6, <1>8, <1>10, <1>11 DEF GovernanceCall
<1>13. DoomedCall(c)'
  BY <1>8, <1>10 DEF DoomedCall
<1> QED BY <1>9, <1>10, <1>12, <1>13, QuietStep

LEMMA CheckCycleKeeps ==
  ASSUME GovernanceInv, NEW c \in Call, G!CheckCycle(c)
  PROVE  GovernanceInv'
<1>0. G!TypeOK /\ GovernanceCall(c)
  BY DEF GovernanceInv
<1>1. UNCHANGED <<G!authorityVars, G!holdVars, mandate, G!caseVars>> /\ call[c].pc = "edges"
  BY DEF G!CheckCycle, G!At
<1>2. CASE G!Return(c)
  BY <1>1, <1>2, QuietReturn
<1>3. CASE G!GoTo(c, "delegate")
  <2>1. "delegate" \in G!PC
    BY DEF G!PC
  <2>2. call' \in [Call -> G!CallState] /\ OthersWait(c)
    BY <1>0, <1>3, <2>1, GoesTo
  <2>3. call'[c].pc = "delegate" /\ call'[c].draft = call[c].draft
    BY <1>0, <1>3, <2>1, MovedCall
  <2>4. delegations' = delegations
    BY <1>1 DEF G!authorityVars
  <2>5. GovernanceCall(c)'
    BY <1>0, <1>1, <2>3, <2>4 DEF GovernanceCall
  <2>6. DoomedCall(c)'
    BY <2>3 DEF DoomedCall
  <2> QED BY <1>1, <2>2, <2>5, <2>6, QuietStep
<1> QED BY <1>2, <1>3 DEF G!CheckCycle

LEMMA StartAttestKeeps ==
  ASSUME GovernanceInv, NEW c \in Call, G!StartAttest(c)
  PROVE  GovernanceInv'
<1>0. G!TypeOK /\ DelegationsLead
  BY DEF GovernanceInv
<1>1. PICK v \in Voters, u \in {"APPROVE", "REJECT"} : \E chain \in G!Bases(v[1], v[2]) :
        LET mine == [by |-> v[1], role |-> v[2], decision |-> u, chain |-> chain]
        IN  /\ status \in G!Open
            /\ G!Enter(c, [G!Idle EXCEPT !.pc = "save", !.seen = status, !.mine = <<mine>>])
            /\ UNCHANGED <<G!authorityVars, G!holdVars, mandate, G!caseVars>>
  BY DEF G!StartAttest
<1>2. PICK chain \in G!Bases(v[1], v[2]) :
        LET mine == [by |-> v[1], role |-> v[2], decision |-> u, chain |-> chain]
        IN  /\ status \in G!Open
            /\ G!Enter(c, [G!Idle EXCEPT !.pc = "save", !.seen = status, !.mine = <<mine>>])
            /\ UNCHANGED <<G!authorityVars, G!holdVars, mandate, G!caseVars>>
  BY <1>1
<1> DEFINE mine == [by |-> v[1], role |-> v[2], decision |-> u, chain |-> chain]
           state == [G!Idle EXCEPT !.pc = "save", !.seen = status, !.mine = <<mine>>]
<1>3. v[1] \in Principal /\ v[2] \in Role
  BY GovernanceAssumption
<1>4. chain \in G!Chain /\ Based(delegations, chain, v[1], v[2])
  BY <1>0, BasisIsRooted
<1>5. /\ mine \in G!Attestation
      /\ mine.by = v[1] /\ mine.role = v[2] /\ mine.chain = chain
  BY <1>3, <1>4 DEF G!Attestation
<1> HIDE DEF mine
<1>6. "save" \in G!PC /\ status \in {"OPEN", "COLLECTING"}
  BY <1>2 DEF G!PC, G!Open
<1>7. state \in G!CallState /\ state.pc = "save" /\ state.mine = <<mine>>
  <2>1. <<mine>> \in Seq(G!Attestation)
    BY <1>5
  <2>2. G!Idle \in G!CallState
    BY IdleType
  <2> QED BY <1>6, <2>1, <2>2 DEF G!CallState
<1>8. G!Enter(c, state) /\ UNCHANGED <<G!authorityVars, G!holdVars, mandate, G!caseVars>>
  BY <1>2 DEF mine
<1> HIDE DEF state
<1>9. call' \in [Call -> G!CallState] /\ OthersWait(c) /\ call'[c] = state
  BY <1>0, <1>7, <1>8, Enters
<1>10. delegations' = delegations
  BY <1>8 DEF G!authorityVars
<1>11. GovernanceCall(c)'
  BY <1>4, <1>5, <1>7, <1>9, <1>10 DEF GovernanceCall
<1>12. DoomedCall(c)'
  BY <1>7, <1>9 DEF DoomedCall
<1> QED BY <1>8, <1>9, <1>11, <1>12, QuietStep

LEMMA OutcomesAre ==
  ASSUME NEW cs
  PROVE  G!Outcomes(cs) \subseteq {"BLOCKED", "SATISFIED", "PENDING"}
  BY DEF G!Outcomes

LEMMA ContributionsAre ==
  ASSUME NEW cs
  PROVE  G!Contributions(cs) \subseteq cs
  BY DEF G!Contributions

LEMMA TallyKeeps ==
  ASSUME GovernanceInv, NEW c \in Call, G!Tally(c)
  PROVE  GovernanceInv'
<1> DEFINE cs == G!Contributions(attestations)
           state == [call[c] EXCEPT !.pc = "prove", !.list = attestations]
<1>0. G!TypeOK /\ AttestationsRest
  BY DEF GovernanceInv
<1>1. UNCHANGED <<G!authorityVars, G!holdVars, mandate, G!caseVars>>
  BY DEF G!Tally
<1>2. PICK outcome \in G!Outcomes(cs) :
        CASE outcome = "BLOCKED"   -> G!GoTo(c, "block")
          [] outcome = "SATISFIED" -> call' = [call EXCEPT ![c].pc = "prove", ![c].list = attestations]
          [] outcome = "PENDING"   -> G!Return(c)
  BY DEF G!Tally
<1>3. requirement' = requirement /\ attestations' = attestations
  BY <1>1 DEF G!caseVars
<1>4. CASE outcome = "BLOCKED"
  <2>1. G!GoTo(c, "block") /\ "block" \in G!PC
    BY <1>2, <1>4 DEF G!PC
  <2>2. call' \in [Call -> G!CallState] /\ OthersWait(c) /\ call'[c].pc = "block"
    BY <1>0, <2>1, GoesTo, MovedCall
  <2>3. Refused(requirement, cs)
    BY <1>2, <1>4, BlockedIsRefused
  <2>4. Refused(requirement, attestations)
    <3>1. cs \subseteq attestations /\ IsFiniteSet(attestations)
      BY <1>0, ContributionsAre DEF AttestationsRest
    <3> HIDE DEF cs
    <3> QED BY <1>0, <2>3, <3>1, RefusedGrows
  <2>5. GovernanceCall(c)'
    BY <1>3, <2>2, <2>4 DEF GovernanceCall
  <2>6. DoomedCall(c)'
    BY <2>2 DEF DoomedCall
  <2> QED BY <1>1, <2>2, <2>5, <2>6, QuietStep
<1>5. CASE outcome = "SATISFIED"
  <2>1. call' = [call EXCEPT ![c].pc = "prove", ![c].list = attestations]
    BY <1>2, <1>5
  <2>2. G!Enter(c, state)
    BY <1>0, <2>1 DEF G!Enter, G!TypeOK
  <2>3. call[c] \in G!CallState /\ "prove" \in G!PC /\ attestations \subseteq G!Attestation
    BY <1>0, CallTypes, TableTypes DEF G!PC
  <2>4. state \in G!CallState /\ state.pc = "prove" /\ state.list = attestations
    BY <2>3 DEF G!CallState
  <2> HIDE DEF state
  <2>5. call' \in [Call -> G!CallState] /\ OthersWait(c) /\ call'[c] = state
    BY <1>0, <2>2, <2>4, Enters
  <2>6. GovernanceCall(c)'
    BY <1>3, <2>4, <2>5 DEF GovernanceCall
  <2>7. DoomedCall(c)'
    BY <2>4, <2>5 DEF DoomedCall
  <2> QED BY <1>1, <2>5, <2>6, <2>7, QuietStep
<1>6. CASE outcome = "PENDING"
  <2>1. G!Return(c)
    BY <1>2, <1>6
  <2> QED BY <1>1, <2>1, QuietReturn
<1>7. outcome \in {"BLOCKED", "SATISFIED", "PENDING"}
  BY OutcomesAre
<1> QED BY <1>4, <1>5, <1>6, <1>7

LEMMA ProveKeeps ==
  ASSUME GovernanceInv, NEW c \in Call, G!Prove(c)
  PROVE  GovernanceInv'
<1> DEFINE cs == G!Contributions(call[c].list)
           yes == G!By(cs, "APPROVE")
           state == [call[c] EXCEPT !.pc = "proof", !.list = yes]
<1>0. G!TypeOK /\ GovernanceCall(c) /\ call[c] \in G!CallState
  BY CallTypes DEF GovernanceInv
<1>1. UNCHANGED <<G!authorityVars, G!holdVars, mandate, G!caseVars>> /\ call[c].pc = "prove"
  BY DEF G!Prove, G!At
<1>2. requirement' = requirement /\ attestations' = attestations /\ proof' = proof
  BY <1>1 DEF G!caseVars
<1>3. ASSUME proof # G!NoProof, G!GoTo(c, "settle")
      PROVE  GovernanceInv'
  <2>1. "settle" \in G!PC
    BY DEF G!PC
  <2>2. call' \in [Call -> G!CallState] /\ OthersWait(c) /\ call'[c].pc = "settle"
    BY <1>0, <1>3, <2>1, GoesTo, MovedCall
  <2>3. proof' # G!NoProof'
    BY <1>2, <1>3 DEF G!NoProof
  <2>4. GovernanceCall(c)'
    BY <2>2, <2>3 DEF GovernanceCall
  <2>5. DoomedCall(c)'
    BY <2>2 DEF DoomedCall
  <2> QED BY <1>1, <2>2, <2>4, <2>5, QuietStep
<1>4. ASSUME "SATISFIED" \in G!Outcomes(cs),
             call' = [call EXCEPT ![c].pc = "proof",
                                  ![c].list = G!By(G!Contributions(@), "APPROVE")]
      PROVE  GovernanceInv'
  <2>1. call[c].list \subseteq attestations /\ attestations \subseteq G!Attestation
    BY <1>0, <1>1, TableTypes DEF GovernanceCall
  <2>2. cs \subseteq call[c].list
    BY ContributionsAre
  <2>3. cs \subseteq G!Attestation
    BY <2>1, <2>2
  <2>4. yes \subseteq G!By(attestations, "APPROVE") /\ yes \subseteq G!Attestation
    BY <2>1, <2>2 DEF G!By
  <2>5. Seated(requirement, yes)
    BY <1>0, <1>4, <2>3, SatisfiedIsSeated
  <2>6. G!Enter(c, state)
    BY <1>0, <1>4 DEF G!Enter, G!TypeOK
  <2> HIDE DEF yes
  <2>7. "proof" \in G!PC
    BY DEF G!PC
  <2>8. state \in G!CallState /\ state.pc = "proof" /\ state.list = yes
    BY <1>0, <2>4, <2>7 DEF G!CallState
  <2> HIDE DEF state
  <2>9. call' \in [Call -> G!CallState] /\ OthersWait(c) /\ call'[c] = state
    BY <1>0, <2>6, <2>8, Enters
  <2>10. GovernanceCall(c)'
    BY <1>2, <2>4, <2>5, <2>8, <2>9 DEF GovernanceCall
  <2>11. DoomedCall(c)'
    BY <2>8, <2>9 DEF DoomedCall
  <2> QED BY <1>1, <2>9, <2>10, <2>11, QuietStep
<1>5. ASSUME G!Return(c)
      PROVE  GovernanceInv'
  BY <1>1, <1>5, QuietReturn
<1> QED BY <1>3, <1>4, <1>5 DEF G!Prove

-----------------------------------------------------------------------------
(* The gate                                                                 *)

LEMMA StartGateKeeps ==
  ASSUME GovernanceInv, NEW c \in Call, G!StartGate(c)
  PROVE  GovernanceInv'
<1> DEFINE state == [G!Idle EXCEPT !.pc = "gate-mandates", !.doomed = G!Void]
<1>0. G!TypeOK /\ AttestationsRest /\ ProofIsSeated
  BY DEF GovernanceInv
<1>1. UNCHANGED <<G!authorityVars, G!holdVars, mandate, G!caseVars>> /\ G!Enter(c, state)
  BY DEF G!StartGate
<1>2. requirement' = requirement /\ revoked' = revoked /\ delegations' = delegations /\ proof' = proof
  BY <1>1 DEF G!caseVars, G!authorityVars
<1>3. "gate-mandates" \in G!PC /\ G!Void \in BOOLEAN
  BY DEF G!PC, G!Void
<1>4. /\ state \in G!CallState /\ state.pc = "gate-mandates" /\ state.doomed = G!Void
      /\ state.fresh = {}
  BY <1>3, IdleType DEF G!CallState, G!Idle
<1> HIDE DEF state
<1>5. call' \in [Call -> G!CallState] /\ OthersWait(c) /\ call'[c] = state
  BY <1>0, <1>1, <1>4, Enters
<1>6. GovernanceCall(c)'
  BY <1>4, <1>5 DEF GovernanceCall
<1>7. G!Void =>
        /\ proof # G!NoProof
        /\ proof.revoked \/ ~Seated(requirement, Standing(revoked, delegations, proof.attestations))
  BY <1>0, VoidIsUnseated
<1>8. DoomedCall(c)'
  BY <1>2, <1>4, <1>5, <1>7 DEF DoomedCall, G!NoProof
<1> QED BY <1>1, <1>5, <1>6, <1>8, QuietStep

\* A check that passes says nothing more of a demand, except that the proof is not revoked.
LEMMA GateMoves ==
  ASSUME GovernanceInv, NEW c \in Call, NEW here, NEW condition, NEW next \in G!PC,
         G!Check(c, here, condition, next),
         \/ here = "gate-mandates" /\ next = "gate-proof"
         \/ here = "gate-proof" /\ next = "gate-revocations"
         \/ here = "gate-revocations" /\ next = "gate-mandate" /\ (condition => ~proof.revoked)
         \/ here = "gate-mandate" /\ next = "gate-hold"
  PROVE  GovernanceInv'
<1>0. G!TypeOK /\ DoomedCall(c)
  BY DEF GovernanceInv
<1>1. UNCHANGED <<G!authorityVars, G!holdVars, mandate, G!caseVars>> /\ call[c].pc = here
  BY DEF G!Check, G!At
<1>2. requirement' = requirement /\ revoked' = revoked /\ delegations' = delegations /\ proof' = proof
  BY <1>1 DEF G!caseVars, G!authorityVars
<1>3. CASE condition /\ G!GoTo(c, next)
  <2>1. call' \in [Call -> G!CallState] /\ OthersWait(c)
    BY <1>0, <1>3, GoesTo
  <2>2. call'[c].pc = next /\ call'[c].doomed = call[c].doomed /\ call'[c].fresh = call[c].fresh
    BY <1>0, <1>3, MovedCall
  <2>3. GovernanceCall(c)'
    BY <2>2 DEF GovernanceCall
  <2>4. DoomedCall(c)'
    BY <1>0, <1>1, <1>2, <1>3, <2>2 DEF DoomedCall, G!NoProof
  <2> QED BY <1>1, <2>1, <2>3, <2>4, QuietStep
<1>4. CASE G!Return(c)
  BY <1>1, <1>4, QuietReturn
<1> QED BY <1>3, <1>4 DEF G!Check

LEMMA GateChecksKeep ==
  ASSUME GovernanceInv, NEW c \in Call,
         G!GateMandates(c) \/ G!GateProof(c) \/ G!GateRevocations(c) \/ G!GateMandate(c)
  PROVE  GovernanceInv'
<1>0. /\ "gate-proof" \in G!PC /\ "gate-revocations" \in G!PC
      /\ "gate-mandate" \in G!PC /\ "gate-hold" \in G!PC
  BY DEF G!PC
<1>1. CASE G!GateMandates(c)
  BY <1>0, <1>1, GateMoves DEF G!GateMandates
<1>2. CASE G!GateProof(c)
  BY <1>0, <1>2, GateMoves DEF G!GateProof
<1>3. CASE G!GateRevocations(c)
  BY <1>0, <1>3, GateMoves DEF G!GateRevocations
<1>4. CASE G!GateMandate(c)
  BY <1>0, <1>4, GateMoves DEF G!GateMandate
<1> QED BY <1>1, <1>2, <1>3, <1>4

LEMMA GateHoldKeeps ==
  ASSUME GovernanceInv, NEW c \in Call, G!GateHold(c)
  PROVE  GovernanceInv'
<1> DEFINE state == [call[c] EXCEPT !.pc = "gate-snapshots", !.list = proof.attestations]
<1>0. G!TypeOK /\ DoomedCall(c) /\ ProofIsSeated /\ call[c] \in G!CallState
  BY CallTypes DEF GovernanceInv
<1>1. UNCHANGED <<G!authorityVars, G!holdVars, mandate, G!caseVars>> /\ call[c].pc = "gate-hold"
  BY DEF G!GateHold, G!At
<1>2. /\ requirement' = requirement /\ revoked' = revoked /\ delegations' = delegations
      /\ attestations' = attestations
  BY <1>1 DEF G!caseVars, G!authorityVars
<1>3. CASE hold
  <2>1. G!Return(c)
    BY <1>3 DEF G!GateHold
  <2> QED BY <1>1, <2>1, QuietReturn
<1>4. CASE ~hold
  <2>1. G!Enter(c, state)
    BY <1>0, <1>4 DEF G!GateHold, G!Enter, G!TypeOK
  <2>2. "gate-snapshots" \in G!PC /\ proof.attestations \subseteq G!Attestation
    BY <1>0, TableTypes DEF G!PC
  <2>3. /\ state \in G!CallState /\ state.pc = "gate-snapshots" /\ state.list = proof.attestations
        /\ state.fresh = call[c].fresh /\ state.doomed = call[c].doomed
    BY <1>0, <2>2 DEF G!CallState
  <2> HIDE DEF state
  <2>4. call' \in [Call -> G!CallState] /\ OthersWait(c) /\ call'[c] = state
    BY <1>0, <2>1, <2>3, Enters
  <2>5. proof.attestations \subseteq attestations
    BY <1>0 DEF ProofIsSeated, G!By, G!NoProof
  <2>6. state.doomed =>
          ~Seated(requirement, state.fresh \cup Standing(revoked, delegations, state.list))
    <3> SUFFICES ASSUME state.doomed
                 PROVE  ~Seated(requirement, state.fresh \cup Standing(revoked, delegations, state.list))
      OBVIOUS
    <3>1. /\ ~Seated(requirement, Standing(revoked, delegations, proof.attestations))
          /\ call[c].fresh = {}
      BY <1>0, <1>1, <2>3 DEF DoomedCall
    <3>2. state.fresh \cup Standing(revoked, delegations, state.list)
            = Standing(revoked, delegations, proof.attestations)
      BY <2>3, <3>1
    <3> QED BY <3>1, <3>2
  <2>7. GovernanceCall(c)'
    BY <2>3, <2>4 DEF GovernanceCall
  <2>8. DoomedCall(c)'
    BY <1>2, <2>3, <2>4, <2>5, <2>6 DEF DoomedCall
  <2> QED BY <1>1, <2>4, <2>7, <2>8, QuietStep
<1> QED BY <1>3, <1>4

\* A snapshot that is found fresh is of one that stands: those that were found fresh and
\* those that are left and stand become no more.
LEMMA GateSnapshotKeeps ==
  ASSUME GovernanceInv, NEW c \in Call, G!GateSnapshot(c)
  PROVE  GovernanceInv'
<1>0. G!TypeOK /\ DoomedCall(c) /\ call[c] \in G!CallState
  BY CallTypes DEF GovernanceInv
<1>1. PICK y \in call[c].list :
        /\ G!At(c, "gate-snapshots")
        /\ call' = [call EXCEPT ![c].list = @ \ {y},
                                ![c].fresh = IF G!SnapshotFresh(y) THEN @ \cup {y} ELSE @]
        /\ UNCHANGED <<G!authorityVars, G!holdVars, mandate, G!caseVars>>
  BY DEF G!GateSnapshot
<1> DEFINE left == call[c].list \ {y}
           found == IF G!SnapshotFresh(y) THEN call[c].fresh \cup {y} ELSE call[c].fresh
           state == [call[c] EXCEPT !.list = left, !.fresh = found]
<1>2. /\ requirement' = requirement /\ revoked' = revoked /\ delegations' = delegations
      /\ attestations' = attestations
  BY <1>1 DEF G!caseVars, G!authorityVars
<1>3. call[c].pc = "gate-snapshots" /\ y \in G!Attestation
  BY <1>0, <1>1, CallTypes DEF G!At
<1>4. left \subseteq call[c].list /\ left \subseteq G!Attestation /\ found \subseteq G!Attestation
  BY <1>0, <1>3, CallTypes
<1>5. G!Enter(c, state)
  BY <1>0, <1>1 DEF G!Enter, G!TypeOK
<1>6. found \cup Standing(revoked, delegations, left)
        \subseteq call[c].fresh \cup Standing(revoked, delegations, call[c].list)
  <2>1. Standing(revoked, delegations, left) \subseteq Standing(revoked, delegations, call[c].list)
    BY DEF Standing
  <2>2. G!SnapshotFresh(y) => y \in Standing(revoked, delegations, call[c].list)
    BY <1>1, <1>3, FreshStands DEF Standing
  <2> QED BY <2>1, <2>2
<1>7. call[c].doomed => ~Seated(requirement, found \cup Standing(revoked, delegations, left))
  <2>1. call[c].doomed =>
          ~Seated(requirement, call[c].fresh \cup Standing(revoked, delegations, call[c].list))
    BY <1>0, <1>3 DEF DoomedCall
  <2> HIDE DEF found, left
  <2> QED BY <1>6, <2>1, SeatedGrows
<1> HIDE DEF left, found
<1>8. /\ state \in G!CallState /\ state.pc = "gate-snapshots" /\ state.list = left
      /\ state.fresh = found /\ state.doomed = call[c].doomed
  BY <1>0, <1>3, <1>4 DEF G!CallState
<1> HIDE DEF state
<1>9. call' \in [Call -> G!CallState] /\ OthersWait(c) /\ call'[c] = state
  BY <1>0, <1>5, <1>8, Enters
<1>10. left \subseteq attestations
  BY <1>0, <1>3, <1>4 DEF DoomedCall
<1>11. GovernanceCall(c)'
  BY <1>8, <1>9 DEF GovernanceCall
<1>12. DoomedCall(c)'
  BY <1>2, <1>7, <1>8, <1>9, <1>10 DEF DoomedCall
<1> QED BY <1>1, <1>9, <1>11, <1>12, QuietStep

LEMMA GateQuorumKeeps ==
  ASSUME GovernanceInv, NEW c \in Call, G!GateQuorum(c)
  PROVE  GovernanceInv'
<1>0. G!TypeOK /\ DoomedCall(c) /\ call[c] \in G!CallState
  BY CallTypes DEF GovernanceInv
<1>1. /\ UNCHANGED <<G!authorityVars, G!holdVars, mandate, G!caseVars>>
      /\ call[c].pc = "gate-snapshots" /\ call[c].list = {}
  BY DEF G!GateQuorum, G!At
<1>2. CASE G!Return(c)
  BY <1>1, <1>2, QuietReturn
<1>3. CASE "SATISFIED" \in G!Outcomes(call[c].fresh) /\ G!GoTo(c, "passed")
  <2>1. "passed" \in G!PC
    BY DEF G!PC
  <2>2. call' \in [Call -> G!CallState] /\ OthersWait(c)
    BY <1>0, <1>3, <2>1, GoesTo
  <2>3. call'[c].pc = "passed" /\ call'[c].doomed = call[c].doomed
    BY <1>0, <1>3, <2>1, MovedCall
  <2>4. call[c].fresh \subseteq G!Attestation
    BY <1>0, CallTypes
  <2>5. Seated(requirement, G!By(call[c].fresh, "APPROVE"))
    BY <1>0, <1>3, <2>4, SatisfiedIsSeated
  <2>6. G!By(call[c].fresh, "APPROVE")
          \subseteq call[c].fresh \cup Standing(revoked, delegations, call[c].list)
    BY DEF G!By
  <2>7. Seated(requirement, call[c].fresh \cup Standing(revoked, delegations, call[c].list))
    BY <2>5, <2>6, SeatedGrows
  <2>8. ~call[c].doomed
    BY <1>0, <1>1, <2>7 DEF DoomedCall
  <2>9. GovernanceCall(c)'
    BY <2>3 DEF GovernanceCall
  <2>10. DoomedCall(c)'
    BY <2>3, <2>8 DEF DoomedCall
  <2> QED BY <1>1, <2>2, <2>9, <2>10, QuietStep
<1> QED BY <1>2, <1>3 DEF G!GateQuorum

LEMMA EndsKeep ==
  ASSUME GovernanceInv, NEW c \in Call, G!Pass(c) \/ G!Crash(c)
  PROVE  GovernanceInv'
<1>1. UNCHANGED <<G!authorityVars, G!holdVars, mandate, G!caseVars>> /\ G!Return(c)
  BY DEF G!Pass, G!Crash
<1> QED BY <1>1, QuietReturn

-----------------------------------------------------------------------------
(* The steps that change the tables                                         *)

\* The delegations that were there lead to those they were made for.
LEMMA OldDelegationsLead ==
  ASSUME G!TypeOK, G!TypeOK', DelegationsLead, Kept(delegations, delegations'),
         NEW e \in 1 .. Len(delegations)
  PROVE  /\ Len(delegations'[e].parents) < e
         /\ Leads(delegations', Append(delegations'[e].parents, e), delegations'[e].to, delegations'[e].role)
<1>1. Len(delegations) \in Nat /\ Len(delegations') \in Nat
  BY TableTypes DEF G!TypeOK
<1>2. /\ delegations'[e].parents = delegations[e].parents /\ delegations'[e].to = delegations[e].to
      /\ delegations'[e].role = delegations[e].role
  BY DEF Kept
<1>3. /\ Len(delegations[e].parents) < e
      /\ Leads(delegations, G!ChainOf(e), delegations[e].to, delegations[e].role)
  BY DEF DelegationsLead
<1>4. G!ChainOf(e) \in Seq(Nat) /\ G!ChainOf(e) = Append(delegations[e].parents, e)
  BY DelegationTypes, ChainType DEF G!ChainOf
<1>5. Leads(delegations', G!ChainOf(e), delegations[e].to, delegations[e].role)
  BY <1>1, <1>3, <1>4, LeadsKept
<1> QED BY <1>2, <1>3, <1>4, <1>5

LEMMA SameLengthLeads ==
  ASSUME G!TypeOK, G!TypeOK', DelegationsLead, Kept(delegations, delegations'),
         Len(delegations') = Len(delegations)
  PROVE  DelegationsLead'
  BY OldDelegationsLead DEF DelegationsLead, G!ChainOf

LEMMA OldAttestationsRest ==
  ASSUME G!TypeOK, G!TypeOK', AttestationsRest, Kept(delegations, delegations'), attestations' = attestations
  PROVE  AttestationsRest'
<1>1. Len(delegations) \in Nat /\ Len(delegations') \in Nat
  BY TableTypes DEF G!TypeOK
<1>2. \A x \in attestations : Based(delegations', x.chain, x.by, x.role)
  <2> SUFFICES ASSUME NEW x \in attestations
               PROVE  Based(delegations', x.chain, x.by, x.role)
    OBVIOUS
  <2>1. x.chain \in G!Chain
    BY DEF G!TypeOK, G!Attestation
  <2>2. Based(delegations, x.chain, x.by, x.role)
    BY DEF AttestationsRest
  <2> QED BY <1>1, <2>1, <2>2, BasedKept
<1> QED BY <1>2 DEF AttestationsRest

LEMMA EnvironmentStep ==
  ASSUME GovernanceInv, G!TypeOK', Onward, call' = call, attestations' = attestations, DelegationsLead',
         ProofIsSeated'
  PROVE  GovernanceInv'
<1>1. AttestationsRest'
  BY OldAttestationsRest DEF GovernanceInv, Onward
<1>2. IsFiniteSet(attestations')
  BY <1>1 DEF AttestationsRest
<1>3. \A x \in Call : GovernanceCall(x)' /\ DoomedCall(x)'
  BY <1>2, WaitingCall, WaitingGate
<1> QED BY <1>1, <1>3 DEF GovernanceInv

LEMMA RevokeGrantKeeps ==
  ASSUME GovernanceInv, G!RevokeGrant
  PROVE  GovernanceInv'
<1>0. G!TypeOK /\ DelegationsLead /\ ProofIsSeated
  BY DEF GovernanceInv
<1>1. /\ revoked \subseteq revoked' /\ revoked' \subseteq Grants
      /\ revocations < MaxRevocations /\ revocations' = revocations + 1
      /\ delegations' = delegations /\ holds' = holds /\ hold' = hold /\ mandate' = mandate
      /\ requirement' = requirement /\ status' = status /\ attestations' = attestations
      /\ proof' = proof /\ call' = call
  BY <1>0 DEF G!RevokeGrant, G!TypeOK, G!holdVars, G!caseVars
<1>2. revocations' \in 0 .. MaxRevocations
  BY <1>0, <1>1, GovernanceAssumption DEF G!TypeOK
<1>3. G!TypeOK'
  BY <1>0, <1>1, <1>2 DEF G!TypeOK
<1>4. Onward
  BY <1>0, <1>1, TableTypes, KeptSame DEF Onward
<1>5. DelegationsLead'
  BY <1>0, <1>1 DEF DelegationsLead, G!ChainOf
<1>6. ProofIsSeated'
  BY <1>0, <1>1 DEF ProofIsSeated
<1> QED BY <1>1, <1>3, <1>4, <1>5, <1>6, EnvironmentStep

LEMMA MandateAndHoldsKeep ==
  ASSUME GovernanceInv, G!RetireMandate \/ G!CreateHold \/ G!ReleaseHold
  PROVE  GovernanceInv'
<1>0. G!TypeOK /\ DelegationsLead /\ ProofIsSeated
  BY DEF GovernanceInv
<1>1. /\ revoked' = revoked /\ revocations' = revocations
      /\ delegations' = delegations
      /\ requirement' = requirement /\ status' = status /\ attestations' = attestations
      /\ proof' = proof /\ call' = call
  BY DEF G!RetireMandate, G!CreateHold, G!ReleaseHold, G!authorityVars, G!holdVars, G!caseVars
<1>2. holds' \in 0 .. MaxHolds /\ hold' \in BOOLEAN /\ mandate' \in BOOLEAN
  <2>1. CASE G!RetireMandate
    BY <1>0, <2>1 DEF G!RetireMandate, G!TypeOK, G!holdVars
  <2>2. CASE G!CreateHold
    BY <1>0, <2>2, GovernanceAssumption DEF G!CreateHold, G!TypeOK
  <2>3. CASE G!ReleaseHold
    BY <1>0, <2>3 DEF G!ReleaseHold, G!TypeOK
  <2> QED BY <2>1, <2>2, <2>3
<1>3. G!TypeOK'
  BY <1>0, <1>1, <1>2 DEF G!TypeOK
<1>4. Onward
  BY <1>0, <1>1, TableTypes, KeptSame DEF Onward
<1>5. DelegationsLead'
  BY <1>0, <1>1 DEF DelegationsLead, G!ChainOf
<1>6. ProofIsSeated'
  BY <1>0, <1>1 DEF ProofIsSeated
<1> QED BY <1>1, <1>3, <1>4, <1>5, <1>6, EnvironmentStep

\* A delegation that is saved carries on the chain it was made from.
LEMMA ChainExtends ==
  ASSUME NEW ds, NEW es, NEW m \in Nat, Len(ds) = m, Len(es) = m + 1, Kept(ds, es),
         NEW n \in G!Delegation, Fits(ds, n), es[m + 1] = n
  PROVE  Len(n.parents) < m + 1 /\ Leads(es, Append(n.parents, m + 1), n.to, n.role)
<1>1. n.parents \in Seq(Nat)
  BY ChainType DEF G!Delegation
<1>2. PICK s \in Seq(Nat) : s = n.parents
  BY <1>1
<1>3. PICK q, r, p : q = n.to /\ r = n.role /\ p = n.from
  OBVIOUS
<1>4. Append(s, m + 1) \in Seq(Nat)
  OBVIOUS
<1>5. PICK t \in Seq(Nat) : t = Append(s, m + 1)
  BY <1>4
<1>6. /\ Len(s) \in Nat /\ Len(t) = Len(s) + 1 /\ t[Len(s) + 1] = m + 1
      /\ \A i \in 1 .. Len(s) : t[i] = s[i]
  BY <1>5
<1>7. t # <<>>
  BY <1>6
<1>8. m + 1 \in 1 .. Len(es) /\ es[m + 1].role = r /\ es[m + 1].from = p /\ es[m + 1].to = q
  BY <1>3
<1>9. CASE s = <<>>
  <2>1. Len(s) = 0 /\ n.root = n.from
    BY <1>2, <1>9 DEF Fits
  <2>2. Len(t) = 1 /\ t[1] = m + 1
    BY <1>6, <2>1
  <2>3. \A i \in 1 .. Len(t) : i = 1
    BY <2>2
  <2>4. \A i \in 1 .. Len(t) : t[i] \in 1 .. Len(es) /\ es[t[i]].role = r
    BY <1>8, <2>2, <2>3
  <2>5. \A i \in 2 .. Len(t) : es[t[i]].from = es[t[i - 1]].to
    BY <2>2
  <2>6. Leads(es, t, q, r)
    BY <1>7, <1>8, <2>1, <2>2, <2>4, <2>5 DEF Leads
  <2> QED BY <1>2, <1>3, <1>5, <2>1, <2>6
<1>10. CASE s # <<>>
  <2>1. Leads(ds, s, p, r)
    BY <1>2, <1>3, <1>10 DEF Fits
  <2>2. Leads(es, s, p, r)
    BY <2>1, LeadsKept
  <2>3. Len(s) <= m
    BY <2>1 DEF Leads
  <2>4. Len(s) >= 1
    BY <1>10
  <2>5. \A i \in 1 .. Len(t) : i \in 1 .. Len(s) \/ i = Len(s) + 1
    BY <1>6
  <2>6. \A i \in 1 .. Len(t) : t[i] \in 1 .. Len(es) /\ es[t[i]].role = r
    BY <1>6, <1>8, <2>2, <2>5 DEF Leads
  <2>7. \A i \in 2 .. Len(t) : es[t[i]].from = es[t[i - 1]].to
    <3>1. \A i \in 2 .. Len(s) : es[t[i]].from = es[t[i - 1]].to
      <4>1. \A i \in 2 .. Len(s) : i \in 1 .. Len(s) /\ i - 1 \in 1 .. Len(s)
        BY <1>6
      <4>2. \A i \in 2 .. Len(s) : es[s[i]].from = es[s[i - 1]].to
        BY <2>2 DEF Leads
      <4> QED BY <1>6, <4>1, <4>2
    <3>2. es[t[Len(s) + 1]].from = es[t[Len(s)]].to
      <4>1. es[s[Len(s)]].to = p
        BY <2>2 DEF Leads
      <4>2. t[Len(s)] = s[Len(s)]
        BY <1>6, <2>4
      <4> QED BY <1>6, <1>8, <4>1, <4>2
    <3>3. \A i \in 2 .. Len(t) : i \in 2 .. Len(s) \/ (i = Len(s) + 1 /\ i - 1 = Len(s))
      BY <1>6
    <3> QED BY <3>1, <3>2, <3>3
  <2>8. es[t[1]].root = es[t[1]].from
    <3>1. t[1] = s[1]
      BY <1>6, <2>4
    <3> QED BY <2>2, <3>1 DEF Leads
  <2>9. es[t[Len(t)]].to = q /\ Len(t) <= Len(es)
    BY <1>6, <1>8, <2>3
  <2>10. Leads(es, t, q, r)
    BY <1>7, <2>6, <2>7, <2>8, <2>9 DEF Leads
  <2>11. Len(s) < m + 1
    BY <1>6, <2>3
  <2> QED BY <1>2, <1>3, <1>5, <2>10, <2>11
<1> QED BY <1>9, <1>10

\* A table with one row more.
LEMMA OneMore ==
  ASSUME NEW T, NEW s \in Seq(T), NEW t \in Seq(T), Len(t) = 1
  PROVE  /\ s \o t \in Seq(T) /\ Len(s \o t) = Len(s) + 1
         /\ \A i \in 1 .. Len(s) : (s \o t)[i] = s[i]
         /\ (s \o t)[Len(s) + 1] = t[1]
<1>1. Len(s) \in Nat
  OBVIOUS
<1>2. /\ s \o t \in Seq(T) /\ Len(s \o t) = Len(s) + Len(t)
      /\ \A i \in 1 .. Len(s) + Len(t) : (s \o t)[i] = IF i <= Len(s) THEN s[i] ELSE t[i - Len(s)]
  BY ConcatProperties
<1>3. (s \o t)[Len(s) + 1] = t[1]
  <2>1. Len(s) + 1 \in 1 .. Len(s) + 1 /\ Len(s) + 1 - Len(s) = 1 /\ ~(Len(s) + 1 <= Len(s))
    BY <1>1
  <2> QED BY <1>2, <2>1
<1>4. \A i \in 1 .. Len(s) : (s \o t)[i] = s[i]
  BY <1>1, <1>2
<1> QED BY <1>2, <1>3, <1>4

LEMMA SaveDelegationKeeps ==
  ASSUME GovernanceInv, NEW c \in Call, G!SaveDelegation(c)
  PROVE  GovernanceInv'
<1> DEFINE n == call[c].draft[1]
           m == Len(delegations)
<1>0. G!TypeOK /\ DelegationsLead /\ AttestationsRest /\ ProofIsSeated /\ GovernanceCall(c)
  BY DEF GovernanceInv
<1>1. /\ call[c].pc = "delegate" /\ m < MaxDelegations /\ delegations' = delegations \o call[c].draft
      /\ G!Return(c)
      /\ revoked' = revoked /\ revocations' = revocations /\ holds' = holds /\ hold' = hold
      /\ mandate' = mandate /\ requirement' = requirement /\ status' = status
      /\ attestations' = attestations /\ proof' = proof
  BY DEF G!SaveDelegation, G!At, G!holdVars, G!caseVars
<1>2. call[c].draft \in Seq(G!Delegation) /\ Len(call[c].draft) = 1 /\ Fits(delegations, n)
  BY <1>0, <1>1, CallTypes DEF GovernanceCall
<1>3. delegations \in Seq(G!Delegation) /\ m \in Nat
  BY <1>0, TableTypes
<1>4. /\ delegations' \in Seq(G!Delegation) /\ Len(delegations') = m + 1
      /\ \A e \in 1 .. m : delegations'[e] = delegations[e]
      /\ delegations'[m + 1] = n
  <2> DEFINE d0 == delegations
             d1 == call[c].draft
  <2>1. d0 \in Seq(G!Delegation) /\ d1 \in Seq(G!Delegation) /\ Len(d1) = 1 /\ Len(d0) = m /\ d1[1] = n
    BY <1>2, <1>3
  <2>2. delegations' = d0 \o d1
    BY <1>1
  <2> HIDE DEF d0, d1
  <2>3. /\ d0 \o d1 \in Seq(G!Delegation) /\ Len(d0 \o d1) = Len(d0) + 1
        /\ \A e \in 1 .. Len(d0) : (d0 \o d1)[e] = d0[e]
        /\ (d0 \o d1)[Len(d0) + 1] = d1[1]
    BY <2>1, OneMore
  <2>4. /\ delegations' \in Seq(G!Delegation) /\ Len(delegations') = m + 1
        /\ \A e \in 1 .. m : delegations'[e] = d0[e]
        /\ delegations'[m + 1] = n
    BY <1>3, <2>1, <2>2, <2>3
  <2> QED BY <2>4 DEF d0
<1>5. n \in G!Delegation
  BY <1>2
<1>6. Len(delegations') <= MaxDelegations
  BY <1>1, <1>3, <1>4, GovernanceAssumption
<1>7. call' \in [Call -> G!CallState] /\ OthersWait(c) /\ GovernanceCall(c)' /\ DoomedCall(c)'
  BY <1>0, <1>1, Returns
<1>8. G!TypeOK'
  BY <1>0, <1>1, <1>4, <1>6, <1>7 DEF G!TypeOK
<1>9. Kept(delegations, delegations')
  BY <1>3, <1>4 DEF Kept
<1>10. Onward
  BY <1>1, <1>9 DEF Onward
<1>11. /\ Len(delegations'[m + 1].parents) < m + 1
       /\ Leads(delegations', Append(delegations'[m + 1].parents, m + 1),
                delegations'[m + 1].to, delegations'[m + 1].role)
  <2> HIDE DEF n
  <2> QED BY <1>2, <1>3, <1>4, <1>5, <1>9, ChainExtends
<1>12. DelegationsLead'
  <2> SUFFICES ASSUME NEW e \in 1 .. Len(delegations')
               PROVE  /\ Len(delegations'[e].parents) < e
                      /\ Leads(delegations', Append(delegations'[e].parents, e),
                               delegations'[e].to, delegations'[e].role)
    BY DEF DelegationsLead, G!ChainOf
  <2>1. e \in 1 .. m \/ e = m + 1
    BY <1>3, <1>4
  <2>2. CASE e \in 1 .. m
    BY <1>0, <1>8, <1>9, <2>2, OldDelegationsLead
  <2>3. CASE e = m + 1
    BY <1>11, <2>3
  <2> QED BY <2>1, <2>2, <2>3
<1>13. AttestationsRest'
  BY <1>0, <1>1, <1>8, <1>9, OldAttestationsRest
<1>14. ProofIsSeated'
  BY <1>0, <1>1 DEF ProofIsSeated
<1> QED BY <1>7, <1>8, <1>10, <1>12, <1>13, <1>14, CallStep

\* A revocation changes one row of the table, and not what it delegates.
LEMMA RowRevoked ==
  ASSUME NEW ds \in Seq(G!Delegation), NEW e, NEW new \in G!Delegation,
         e \in 1 .. Len(ds) =>
           /\ new.from = ds[e].from /\ new.to = ds[e].to /\ new.role = ds[e].role
           /\ new.root = ds[e].root /\ new.parents = ds[e].parents
           /\ ds[e].revoked => new.revoked
  PROVE  /\ [ds EXCEPT ![e] = new] \in Seq(G!Delegation)
         /\ Len([ds EXCEPT ![e] = new]) = Len(ds)
         /\ Kept(ds, [ds EXCEPT ![e] = new])
<1>1. PICK es : es = [ds EXCEPT ![e] = new]
  OBVIOUS
<1>2. es \in Seq(G!Delegation) /\ Len(es) = Len(ds) /\ Len(ds) \in Nat
  <2>1. Len(ds) \in Nat /\ ds \in [1 .. Len(ds) -> G!Delegation]
    OBVIOUS
  <2>2. es \in [1 .. Len(ds) -> G!Delegation]
    BY <1>1, <2>1
  <2> QED BY <2>1, <2>2
<1>3. \A x \in 1 .. Len(ds) : es[x] = IF x = e THEN new ELSE ds[x]
  BY <1>1
<1>4. Kept(ds, es)
  BY <1>2, <1>3 DEF Kept
<1> QED BY <1>1, <1>2, <1>4

LEMMA SaveDelegationRevocationKeeps ==
  ASSUME GovernanceInv, NEW c \in Call, G!SaveDelegationRevocation(c)
  PROVE  GovernanceInv'
<1>0. G!TypeOK /\ DelegationsLead /\ AttestationsRest /\ ProofIsSeated
  BY DEF GovernanceInv
<1>1. PICK e \in DOMAIN delegations :
        /\ revocations < MaxRevocations
        /\ delegations' = [delegations EXCEPT ![e].revoked = TRUE]
        /\ revocations' = revocations + 1
        /\ G!Enter(c, [G!Idle EXCEPT !.pc = "revoke", !.target = e])
        /\ UNCHANGED <<revoked, G!holdVars, mandate, G!caseVars>>
  BY DEF G!SaveDelegationRevocation
<1>2. /\ revoked' = revoked /\ holds' = holds /\ hold' = hold /\ mandate' = mandate
      /\ requirement' = requirement /\ status' = status /\ attestations' = attestations
      /\ proof' = proof
  BY <1>1 DEF G!holdVars, G!caseVars
<1> DEFINE state == [G!Idle EXCEPT !.pc = "revoke", !.target = e]
           new == [delegations[e] EXCEPT !.revoked = TRUE]
<1>3. e \in 1 .. Len(delegations) /\ delegations \in Seq(G!Delegation) /\ delegations[e] \in G!Delegation
  BY <1>0, <1>1, TableTypes
<1>4. "revoke" \in G!PC /\ e \in 0 .. MaxDelegations
  BY <1>0, <1>3, GovernanceAssumption DEF G!PC, G!TypeOK
<1>5. state \in G!CallState /\ state.pc = "revoke"
  BY <1>4, IdleType DEF G!CallState
<1>6. G!Enter(c, state)
  BY <1>1
<1> HIDE DEF state
<1>7. call' \in [Call -> G!CallState] /\ OthersWait(c) /\ call'[c] = state
  BY <1>0, <1>5, <1>6, Enters
<1>8. /\ new \in G!Delegation /\ new.from = delegations[e].from /\ new.to = delegations[e].to
      /\ new.role = delegations[e].role /\ new.root = delegations[e].root
      /\ new.parents = delegations[e].parents /\ new.revoked
  BY <1>3 DEF G!Delegation
<1>9. delegations' = [delegations EXCEPT ![e] = new]
  BY <1>1
<1> HIDE DEF new
<1>10. /\ delegations' \in Seq(G!Delegation) /\ Len(delegations') = Len(delegations)
       /\ Kept(delegations, delegations')
  BY <1>3, <1>8, <1>9, RowRevoked
<1>11. revocations' \in 0 .. MaxRevocations
  BY <1>0, <1>1, GovernanceAssumption DEF G!TypeOK
<1>12. G!TypeOK'
  BY <1>0, <1>2, <1>7, <1>10, <1>11 DEF G!TypeOK
<1>13. Onward
  BY <1>2, <1>10 DEF Onward
<1>14. DelegationsLead' /\ AttestationsRest'
  BY <1>0, <1>2, <1>10, <1>12, SameLengthLeads, OldAttestationsRest
<1>15. ProofIsSeated'
  BY <1>0, <1>2 DEF ProofIsSeated
<1>16. GovernanceCall(c)'
  BY <1>5, <1>7 DEF GovernanceCall
<1>17. DoomedCall(c)'
  BY <1>5, <1>7 DEF DoomedCall
<1> QED BY <1>7, <1>12, <1>13, <1>14, <1>15, <1>16, <1>17, CallStep

LEMMA RevokeDelegationKeeps ==
  ASSUME GovernanceInv, NEW c \in Call, G!RevokeDelegation(c)
  PROVE  GovernanceInv'
<1>0. G!TypeOK /\ DelegationsLead /\ AttestationsRest /\ ProofIsSeated
  BY DEF GovernanceInv
<1>1. PICK e : e = call[c].target
  OBVIOUS
<1>2. /\ delegations' = [delegations EXCEPT ![e].status = "REVOKED"] /\ G!Return(c)
      /\ revoked' = revoked /\ revocations' = revocations /\ holds' = holds /\ hold' = hold
      /\ mandate' = mandate /\ requirement' = requirement /\ status' = status
      /\ attestations' = attestations /\ proof' = proof
  BY <1>1 DEF G!RevokeDelegation, G!holdVars, G!caseVars
<1>3. delegations \in Seq(G!Delegation) /\ DOMAIN delegations = 1 .. Len(delegations) /\ Len(delegations) \in Nat
  BY <1>0, TableTypes
<1>4. call' \in [Call -> G!CallState] /\ OthersWait(c) /\ GovernanceCall(c)' /\ DoomedCall(c)'
  BY <1>0, <1>2, Returns
<1>5. /\ delegations' \in Seq(G!Delegation) /\ Len(delegations') = Len(delegations)
      /\ Kept(delegations, delegations')
  <2> DEFINE new == [delegations[e] EXCEPT !.status = "REVOKED"]
  <2>1. CASE e \in 1 .. Len(delegations)
    <3>1. delegations[e] \in G!Delegation
      BY <1>3, <2>1
    <3>2. /\ new \in G!Delegation /\ new.from = delegations[e].from /\ new.to = delegations[e].to
          /\ new.role = delegations[e].role /\ new.root = delegations[e].root
          /\ new.parents = delegations[e].parents /\ new.revoked = delegations[e].revoked
      BY <3>1 DEF G!Delegation
    <3>3. delegations' = [delegations EXCEPT ![e] = new]
      BY <1>2
    <3> HIDE DEF new
    <3> QED BY <1>3, <3>2, <3>3, RowRevoked
  <2>2. CASE e \notin 1 .. Len(delegations)
    <3>1. delegations' = delegations
      BY <1>2, <1>3, <2>2
    <3> QED BY <1>3, <3>1, KeptSame
  <2> QED BY <2>1, <2>2
<1>6. G!TypeOK'
  BY <1>0, <1>2, <1>4, <1>5 DEF G!TypeOK
<1>7. Onward
  BY <1>2, <1>5 DEF Onward
<1>8. DelegationsLead' /\ AttestationsRest'
  BY <1>0, <1>2, <1>5, <1>6, SameLengthLeads, OldAttestationsRest
<1>9. ProofIsSeated'
  BY <1>0, <1>2 DEF ProofIsSeated
<1> QED BY <1>4, <1>6, <1>7, <1>8, <1>9, CallStep

\* A step of the case alone: no authority changes.
LEMMA CaseStep ==
  ASSUME GovernanceInv, NEW c \in Call, call' \in [Call -> G!CallState], OthersWait(c),
         revoked' = revoked, delegations' = delegations, revocations' \in 0 .. MaxRevocations,
         UNCHANGED <<G!holdVars, mandate, requirement>>,
         status' \in {"OPEN", "COLLECTING", "SATISFIED", "BLOCKED"},
         attestations' \subseteq G!Attestation, attestations \subseteq attestations', AttestationsRest',
         proof' \in [status: {"NONE", "ACTIVE", "STALE"}, revoked: BOOLEAN,
                     attestations: SUBSET G!Attestation],
         proof # G!NoProof =>
           /\ proof' # G!NoProof /\ proof'.attestations = proof.attestations
           /\ proof.revoked => proof'.revoked,
         ProofIsSeated', GovernanceCall(c)', DoomedCall(c)'
  PROVE  GovernanceInv'
<1>0. G!TypeOK /\ DelegationsLead
  BY DEF GovernanceInv
<1>1. holds' = holds /\ hold' = hold /\ mandate' = mandate /\ requirement' = requirement
  BY DEF G!holdVars
<1>2. G!TypeOK'
  BY <1>0, <1>1 DEF G!TypeOK
<1>3. Onward
  BY <1>0, <1>1, TableTypes, KeptSame DEF Onward
<1>4. DelegationsLead'
  BY <1>0 DEF DelegationsLead, G!ChainOf
<1> QED BY <1>2, <1>3, <1>4, CallStep

LEMMA SaveProofRevocationKeeps ==
  ASSUME GovernanceInv, NEW c \in Call, G!SaveProofRevocation(c)
  PROVE  GovernanceInv'
<1> DEFINE state == [G!Idle EXCEPT !.pc = "stale"]
<1>0. G!TypeOK /\ AttestationsRest /\ ProofIsSeated
  BY DEF GovernanceInv
<1>1. /\ proof.status = "ACTIVE" /\ revocations < MaxRevocations
      /\ proof' = [proof EXCEPT !.revoked = TRUE] /\ revocations' = revocations + 1
      /\ G!Enter(c, state) /\ revoked' = revoked /\ delegations' = delegations
      /\ UNCHANGED <<G!holdVars, mandate, requirement>>
      /\ requirement' = requirement /\ status' = status /\ attestations' = attestations
  BY DEF G!SaveProofRevocation
<1>2. "stale" \in G!PC
  BY DEF G!PC
<1>3. state \in G!CallState /\ state.pc = "stale"
  BY <1>2, IdleType DEF G!CallState
<1> HIDE DEF state
<1>4. call' \in [Call -> G!CallState] /\ OthersWait(c) /\ call'[c] = state
  BY <1>0, <1>1, <1>3, Enters
<1>5. revocations' \in 0 .. MaxRevocations
  BY <1>0, <1>1, GovernanceAssumption DEF G!TypeOK
<1>6. proof \in [status: {"NONE", "ACTIVE", "STALE"}, revoked: BOOLEAN, attestations: SUBSET G!Attestation]
  BY <1>0 DEF G!TypeOK
<1>7. /\ proof' \in [status: {"NONE", "ACTIVE", "STALE"}, revoked: BOOLEAN, attestations: SUBSET G!Attestation]
      /\ proof'.status = "ACTIVE" /\ proof'.revoked /\ proof'.attestations = proof.attestations
  BY <1>1, <1>6
<1>8. proof # G!NoProof /\ proof' # G!NoProof
  BY <1>1, <1>7 DEF G!NoProof
<1>9. ProofIsSeated'
  BY <1>0, <1>1, <1>7, <1>8 DEF ProofIsSeated, G!NoProof
<1>10. AttestationsRest'
  BY <1>0, <1>1 DEF AttestationsRest
<1>11. GovernanceCall(c)'
  BY <1>3, <1>4, <1>8 DEF GovernanceCall, G!NoProof
<1>12. DoomedCall(c)'
  BY <1>3, <1>4 DEF DoomedCall
<1>13. /\ status' \in {"OPEN", "COLLECTING", "SATISFIED", "BLOCKED"}
       /\ attestations' \subseteq G!Attestation /\ attestations \subseteq attestations'
  BY <1>0, <1>1 DEF G!TypeOK
<1> QED BY <1>1, <1>4, <1>5, <1>7, <1>8, <1>9, <1>10, <1>11, <1>12, <1>13, CaseStep

LEMMA MarkProofStaleKeeps ==
  ASSUME GovernanceInv, NEW c \in Call, G!MarkProofStale(c)
  PROVE  GovernanceInv'
<1>0. G!TypeOK /\ AttestationsRest /\ ProofIsSeated /\ GovernanceCall(c)
  BY DEF GovernanceInv
<1>1. /\ call[c].pc = "stale" /\ proof' = [proof EXCEPT !.status = "STALE"] /\ G!Return(c)
      /\ revoked' = revoked /\ delegations' = delegations /\ revocations' = revocations
      /\ UNCHANGED <<G!holdVars, mandate, requirement>>
      /\ requirement' = requirement /\ status' = status /\ attestations' = attestations
  BY DEF G!MarkProofStale, G!At, G!authorityVars
<1>2. call' \in [Call -> G!CallState] /\ OthersWait(c) /\ GovernanceCall(c)' /\ DoomedCall(c)'
  BY <1>0, <1>1, Returns
<1>3. proof # G!NoProof
  BY <1>0, <1>1 DEF GovernanceCall
<1>4. proof \in [status: {"NONE", "ACTIVE", "STALE"}, revoked: BOOLEAN, attestations: SUBSET G!Attestation]
  BY <1>0 DEF G!TypeOK
<1>5. /\ proof' \in [status: {"NONE", "ACTIVE", "STALE"}, revoked: BOOLEAN, attestations: SUBSET G!Attestation]
      /\ proof'.status = "STALE" /\ proof'.revoked = proof.revoked
      /\ proof'.attestations = proof.attestations
  BY <1>1, <1>4
<1>6. proof' # G!NoProof
  BY <1>5 DEF G!NoProof
<1>7. ProofIsSeated'
  BY <1>0, <1>1, <1>3, <1>5, <1>6 DEF ProofIsSeated, G!NoProof
<1>8. AttestationsRest'
  BY <1>0, <1>1 DEF AttestationsRest
<1>9. /\ status' \in {"OPEN", "COLLECTING", "SATISFIED", "BLOCKED"}
      /\ attestations' \subseteq G!Attestation /\ attestations \subseteq attestations'
      /\ revocations' \in 0 .. MaxRevocations
  BY <1>0, <1>1 DEF G!TypeOK
<1> QED BY <1>1, <1>2, <1>5, <1>6, <1>7, <1>8, <1>9, CaseStep

LEMMA SaveAttestationKeeps ==
  ASSUME GovernanceInv, NEW c \in Call, G!SaveAttestation(c)
  PROVE  GovernanceInv'
<1> DEFINE mine == call[c].mine[1]
<1>0. G!TypeOK /\ AttestationsRest /\ ProofIsSeated /\ GovernanceCall(c)
  BY DEF GovernanceInv
<1>1. /\ call[c].pc = "save" /\ proof' = proof /\ status' = status
      /\ revoked' = revoked /\ delegations' = delegations /\ revocations' = revocations
      /\ UNCHANGED <<G!holdVars, mandate, requirement>>
      /\ requirement' = requirement
  BY DEF G!SaveAttestation, G!At, G!authorityVars
<1>2. CASE G!Return(c) /\ UNCHANGED attestations
  <2>1. UNCHANGED <<G!authorityVars, G!holdVars, mandate, G!caseVars>>
    BY <1>1, <1>2 DEF G!authorityVars, G!caseVars
  <2> QED BY <1>2, <2>1, QuietReturn
<1>3. ASSUME attestations' = attestations \cup {mine},
             G!GoTo(c, IF call[c].seen = "OPEN" THEN "collect" ELSE "tally")
      PROVE  GovernanceInv'
  <2>1. PICK pc \in {"collect", "tally"} : G!GoTo(c, pc)
    BY <1>3
  <2>2. pc \in G!PC
    BY <2>1 DEF G!PC
  <2>3. call' \in [Call -> G!CallState] /\ OthersWait(c) /\ call'[c].pc = pc
    BY <1>0, <2>1, <2>2, GoesTo, MovedCall
  <2>4. mine \in G!Attestation /\ Based(delegations, mine.chain, mine.by, mine.role)
    BY <1>0, <1>1, CallTypes DEF GovernanceCall
  <2> HIDE DEF mine
  <2>5. attestations' \subseteq G!Attestation /\ attestations \subseteq attestations'
    BY <1>0, <1>3, <2>4, TableTypes
  <2>6. AttestationsRest'
    <3>1. IsFiniteSet(attestations')
      BY <1>0, <1>3, FS_AddElement DEF AttestationsRest
    <3> QED BY <1>0, <1>1, <1>3, <2>4, <3>1 DEF AttestationsRest
  <2>7. ProofIsSeated'
    <3>1. Refused(requirement, attestations) => Refused(requirement, attestations')
      BY <1>0, <2>5, <2>6, RefusedGrows DEF AttestationsRest
    <3>2. G!By(attestations, "APPROVE") \subseteq G!By(attestations', "APPROVE")
      BY <2>5 DEF G!By
    <3> QED BY <1>0, <1>1, <3>1, <3>2 DEF ProofIsSeated, G!NoProof
  <2>8. GovernanceCall(c)'
    BY <2>1, <2>3 DEF GovernanceCall
  <2>9. DoomedCall(c)'
    BY <2>1, <2>3 DEF DoomedCall
  <2>10. /\ status' \in {"OPEN", "COLLECTING", "SATISFIED", "BLOCKED"}
         /\ revocations' \in 0 .. MaxRevocations
         /\ proof' \in [status: {"NONE", "ACTIVE", "STALE"}, revoked: BOOLEAN,
                        attestations: SUBSET G!Attestation]
    BY <1>0, <1>1 DEF G!TypeOK
  <2> QED BY <1>1, <2>3, <2>5, <2>6, <2>7, <2>8, <2>9, <2>10, CaseStep
<1> QED BY <1>2, <1>3 DEF G!SaveAttestation

\* What the steps that move the case have in common.
LEMMA StatusStep ==
  ASSUME GovernanceInv, NEW c \in Call, call' \in [Call -> G!CallState], OthersWait(c),
         UNCHANGED <<G!authorityVars, G!holdVars, mandate, requirement, attestations, proof>>,
         status' \in {"OPEN", "COLLECTING", "SATISFIED", "BLOCKED"},
         status' = "SATISFIED" => status = "SATISFIED" \/ proof # G!NoProof,
         status' = "BLOCKED" => status = "BLOCKED" \/ Refused(requirement, attestations),
         GovernanceCall(c)', DoomedCall(c)'
  PROVE  GovernanceInv'
<1>0. G!TypeOK /\ AttestationsRest /\ ProofIsSeated
  BY DEF GovernanceInv
<1>1. /\ proof' = proof /\ attestations' = attestations /\ requirement' = requirement
      /\ revoked' = revoked /\ delegations' = delegations /\ revocations' = revocations
  BY DEF G!authorityVars
<1>2. AttestationsRest'
  BY <1>0, <1>1 DEF AttestationsRest
<1>3. ProofIsSeated'
  BY <1>0, <1>1 DEF ProofIsSeated, G!NoProof
<1>4. /\ attestations' \subseteq G!Attestation /\ attestations \subseteq attestations'
      /\ revocations' \in 0 .. MaxRevocations
      /\ proof' \in [status: {"NONE", "ACTIVE", "STALE"}, revoked: BOOLEAN,
                     attestations: SUBSET G!Attestation]
  BY <1>0, <1>1 DEF G!TypeOK
<1> QED BY <1>1, <1>2, <1>3, <1>4, CaseStep

LEMMA CollectKeeps ==
  ASSUME GovernanceInv, NEW c \in Call, G!Collect(c)
  PROVE  GovernanceInv'
<1> DEFINE state == [call[c] EXCEPT !.pc = "tally", !.seen = "COLLECTING"]
<1>0. G!TypeOK /\ call[c] \in G!CallState
  BY CallTypes DEF GovernanceInv
<1>1. UNCHANGED <<G!authorityVars, G!holdVars, mandate, requirement, attestations, proof>>
  BY DEF G!Collect
<1>2. CASE status = "OPEN"
  <2>1. status' = "COLLECTING" /\ G!Enter(c, state)
    BY <1>0, <1>2 DEF G!Collect, G!Enter, G!TypeOK
  <2>2. "tally" \in G!PC
    BY DEF G!PC
  <2>3. state \in G!CallState /\ state.pc = "tally"
    BY <1>0, <2>2 DEF G!CallState
  <2> HIDE DEF state
  <2>4. call' \in [Call -> G!CallState] /\ OthersWait(c) /\ call'[c] = state
    BY <1>0, <2>1, <2>3, Enters
  <2>5. GovernanceCall(c)'
    BY <2>3, <2>4 DEF GovernanceCall
  <2>6. DoomedCall(c)'
    BY <2>3, <2>4 DEF DoomedCall
  <2> QED BY <1>1, <2>1, <2>4, <2>5, <2>6, StatusStep
<1>3. CASE status # "OPEN"
  <2>1. G!Return(c) /\ status' = status
    BY <1>3 DEF G!Collect
  <2>2. UNCHANGED <<G!authorityVars, G!holdVars, mandate, G!caseVars>>
    BY <1>1, <2>1 DEF G!caseVars
  <2> QED BY <2>1, <2>2, QuietReturn
<1> QED BY <1>2, <1>3

LEMMA BlockKeeps ==
  ASSUME GovernanceInv, NEW c \in Call, G!Block(c)
  PROVE  GovernanceInv'
<1>0. G!TypeOK /\ GovernanceCall(c)
  BY DEF GovernanceInv
<1>1. /\ UNCHANGED <<G!authorityVars, G!holdVars, mandate, requirement, attestations, proof>>
      /\ call[c].pc = "block" /\ G!Return(c)
      /\ status' = IF status = "COLLECTING" THEN "BLOCKED" ELSE status
  BY DEF G!Block, G!At
<1>2. call' \in [Call -> G!CallState] /\ OthersWait(c) /\ GovernanceCall(c)' /\ DoomedCall(c)'
  BY <1>0, <1>1, Returns
<1>3. Refused(requirement, attestations)
  BY <1>0, <1>1 DEF GovernanceCall
<1>4. status' \in {"OPEN", "COLLECTING", "SATISFIED", "BLOCKED"}
  BY <1>0, <1>1 DEF G!TypeOK
<1> QED BY <1>1, <1>2, <1>3, <1>4, StatusStep

LEMMA SettleKeeps ==
  ASSUME GovernanceInv, NEW c \in Call, G!Settle(c)
  PROVE  GovernanceInv'
<1>0. G!TypeOK /\ GovernanceCall(c)
  BY DEF GovernanceInv
<1>1. /\ UNCHANGED <<G!authorityVars, G!holdVars, mandate, requirement, attestations, proof>>
      /\ call[c].pc = "settle" /\ G!Return(c)
      /\ status' = IF status = "COLLECTING" THEN "SATISFIED" ELSE status
  BY DEF G!Settle, G!At
<1>2. call' \in [Call -> G!CallState] /\ OthersWait(c) /\ GovernanceCall(c)' /\ DoomedCall(c)'
  BY <1>0, <1>1, Returns
<1>3. proof # G!NoProof
  BY <1>0, <1>1 DEF GovernanceCall
<1>4. status' \in {"OPEN", "COLLECTING", "SATISFIED", "BLOCKED"}
  BY <1>0, <1>1 DEF G!TypeOK
<1> QED BY <1>1, <1>2, <1>3, <1>4, StatusStep

LEMMA SaveProofKeeps ==
  ASSUME GovernanceInv, NEW c \in Call, G!SaveProof(c)
  PROVE  GovernanceInv'
<1> DEFINE seats == call[c].list
           made == [status |-> "ACTIVE", revoked |-> FALSE, attestations |-> seats]
<1>0. G!TypeOK /\ AttestationsRest /\ ProofIsSeated /\ GovernanceCall(c)
  BY DEF GovernanceInv
<1>1. /\ call[c].pc = "proof" /\ G!GoTo(c, "settle")
      /\ proof' = IF proof = G!NoProof THEN made ELSE proof
      /\ revoked' = revoked /\ delegations' = delegations /\ revocations' = revocations
      /\ UNCHANGED <<G!holdVars, mandate, requirement>>
      /\ requirement' = requirement /\ status' = status /\ attestations' = attestations
  BY DEF G!SaveProof, G!At, G!authorityVars
<1>2. "settle" \in G!PC
  BY DEF G!PC
<1>3. call' \in [Call -> G!CallState] /\ OthersWait(c) /\ call'[c].pc = "settle"
  BY <1>0, <1>1, <1>2, GoesTo, MovedCall
<1>4. /\ seats \subseteq G!Attestation
      /\ seats \subseteq G!By(attestations, "APPROVE") /\ Seated(requirement, seats)
  BY <1>0, <1>1, CallTypes DEF GovernanceCall
<1> HIDE DEF seats
<1>5. made # G!NoProof /\ made.attestations = seats /\ made.status # "NONE"
  BY DEF G!NoProof
<1>6. proof' # G!NoProof /\ (proof # G!NoProof => proof' = proof)
  BY <1>1, <1>5
<1>7. proof' \in [status: {"NONE", "ACTIVE", "STALE"}, revoked: BOOLEAN,
                  attestations: SUBSET G!Attestation]
  BY <1>0, <1>1, <1>4 DEF G!TypeOK
<1>8. ProofIsSeated'
  <2>1. proof'.status # "NONE" \/ proof' = G!NoProof
    BY <1>0, <1>1, <1>5 DEF ProofIsSeated
  <2>2. Seated(requirement, proof'.attestations) /\ proof'.attestations \subseteq G!By(attestations, "APPROVE")
    BY <1>0, <1>1, <1>4, <1>5 DEF ProofIsSeated
  <2> HIDE DEF made
  <2> QED BY <1>0, <1>1, <1>6, <2>1, <2>2 DEF ProofIsSeated, G!NoProof
<1>9. AttestationsRest'
  BY <1>0, <1>1 DEF AttestationsRest
<1>10. GovernanceCall(c)'
  BY <1>3, <1>6 DEF GovernanceCall, G!NoProof
<1>11. DoomedCall(c)'
  BY <1>3 DEF DoomedCall
<1>12. /\ status' \in {"OPEN", "COLLECTING", "SATISFIED", "BLOCKED"}
       /\ attestations' \subseteq G!Attestation /\ attestations \subseteq attestations'
       /\ revocations' \in 0 .. MaxRevocations
  BY <1>0, <1>1 DEF G!TypeOK
<1> QED BY <1>1, <1>3, <1>6, <1>7, <1>8, <1>9, <1>10, <1>11, <1>12, CaseStep

-----------------------------------------------------------------------------

LEMMA GovernanceInit ==
  ASSUME G!Init
  PROVE  GovernanceInv
<1>1. G!TypeOK
  <2>1. call \in [Call -> G!CallState]
    BY IdleType DEF G!Init
  <2>2. delegations \in Seq(G!Delegation) /\ Len(delegations) <= MaxDelegations
    BY GovernanceAssumption DEF G!Init
  <2>3. proof \in [status: {"NONE", "ACTIVE", "STALE"}, revoked: BOOLEAN,
                   attestations: SUBSET G!Attestation]
    BY DEF G!Init, G!NoProof
  <2>4. /\ revoked \subseteq Grants /\ attestations \subseteq G!Attestation
        /\ revocations \in 0 .. MaxRevocations /\ holds \in 0 .. MaxHolds
    BY GovernanceAssumption DEF G!Init
  <2>5. /\ hold \in BOOLEAN /\ mandate \in BOOLEAN /\ requirement \in Requirements
        /\ status \in {"OPEN", "COLLECTING", "SATISFIED", "BLOCKED"}
    BY DEF G!Init
  <2> QED BY <2>1, <2>2, <2>3, <2>4, <2>5 DEF G!TypeOK
<1>2. DelegationsLead
  BY DEF G!Init, DelegationsLead
<1>3. AttestationsRest
  BY FS_EmptySet DEF G!Init, AttestationsRest
<1>4. ProofIsSeated
  BY DEF G!Init, ProofIsSeated
<1>5. \A c \in Call : GovernanceCall(c) /\ DoomedCall(c)
  <2> SUFFICES ASSUME NEW c \in Call
               PROVE  GovernanceCall(c) /\ DoomedCall(c)
    OBVIOUS
  <2>1. call[c].pc = "idle"
    BY DEF G!Init, G!Idle
  <2> QED BY <2>1 DEF GovernanceCall, DoomedCall
<1> QED BY <1>1, <1>2, <1>3, <1>4, <1>5 DEF GovernanceInv

LEMMA GovernanceNext ==
  ASSUME GovernanceInv, G!Next
  PROVE  GovernanceInv'
<1>1. CASE G!RevokeGrant
  BY <1>1, RevokeGrantKeeps
<1>2. CASE G!RetireMandate \/ G!CreateHold \/ G!ReleaseHold
  BY <1>2, MandateAndHoldsKeep
<1>3. ASSUME NEW c \in Call, G!Step(c)
      PROVE  GovernanceInv'
  BY <1>3, StartDelegateKeeps, CheckCycleKeeps, SaveDelegationKeeps, SaveDelegationRevocationKeeps,
     RevokeDelegationKeeps, SaveProofRevocationKeeps, MarkProofStaleKeeps, StartAttestKeeps,
     SaveAttestationKeeps, CollectKeeps, TallyKeeps, BlockKeeps, ProveKeeps, SaveProofKeeps,
     SettleKeeps, StartGateKeeps, GateChecksKeep, GateHoldKeeps, GateSnapshotKeeps,
     GateQuorumKeeps, EndsKeep DEF G!Step
<1> QED BY <1>1, <1>2, <1>3 DEF G!Next

\* What the invariant says of the case.
LEMMA GovernanceIsSound ==
  ASSUME GovernanceInv
  PROVE  /\ G!TypeOK /\ G!AuthorityIsRooted /\ G!ProofRestsOnQuorum /\ G!GateHonoursRevocations
<1>1. G!AuthorityIsRooted
  BY AuthorizedIsEntitled DEF GovernanceInv
<1>2. G!ProofRestsOnQuorum
  BY RequirementIsNeeded DEF GovernanceInv, ProofIsSeated, G!ProofRestsOnQuorum
<1>3. G!GateHonoursRevocations
  BY DEF GovernanceInv, DoomedCall, G!GateHonoursRevocations, G!At
<1> QED BY <1>1, <1>2, <1>3 DEF GovernanceInv

-----------------------------------------------------------------------------
(* Constitution                                                             *)

\* A proposal that has got past its review.
Approved == {"AUTHORIZED", "STAGED", "ACTIVATED"}

Deserves(p) == p \in analyzed /\ approvals[p] >= Required

\* What a call has read, and may write.
ChangeCall(c, p) ==
  /\ call[c].pc # "idle" => proposal[p].status # "NONE" /\ call[c].to # "NONE"
  /\ call[c].pc \in {"move", "analysis", "decision", "count", "record"} => call[c].seen # "ACTIVATED"
  /\ call[c].pc \in {"decision", "count"} => p \in analyzed
  /\ call[c].pc = "move" => call[c].to # "ACTIVATED"
  /\ call[c].pc = "move" /\ call[c].to \in Approved => Deserves(p)
  /\ call[c].pc = "record" => Deserves(p)
  /\ call[c].pc = "apply" =>
       /\ lock = {c} /\ call[c].seen \in {"STAGED", "ACTIVATED"}
       /\ call[c].at <= epoch /\ \A x \in applied : x[2] < call[c].at

\* Approvals are reviews, and nothing gets past its review without enough of them.
ProposalInv(p) ==
  /\ approvals[p] <= reviews[p]
  /\ proposal[p].status \in Approved => Deserves(p)

\* Where a call is that is not on a proposal.
Bare == {"idle", "mandate", "enable"}

\* What a change was compared with is past, and no other was compared with it.
ConstitutionInv ==
  /\ C!TypeOK
  /\ \A p \in C!Proposal : ProposalInv(p)
  /\ \A x \in applied : /\ proposal[x[1]].status = "ACTIVATED" /\ x[2] < epoch
                        /\ \A y \in applied : x[2] = y[2] => x = y
  /\ \A c \in Call : call[c].pc \notin Bare => call[c].on # {}
  /\ \A c \in Call, p \in C!Proposal : C!On(c, p) => ChangeCall(c, p)

-----------------------------------------------------------------------------
(* The calls and the proposals of a constitution                            *)

LEMMA ChangeCallTypes ==
  ASSUME C!TypeOK, NEW c \in Call
  PROVE  /\ call[c].pc \in C!PC /\ call[c].seen \in C!Status /\ call[c].to \in C!Status
         /\ call[c].on \in {{}} \cup {{p} : p \in C!Proposal}
         /\ C!Idle \in C!CallState
         /\ \A pc \in C!PC, p \in C!Proposal, seen \in C!Status, to \in C!Status, at \in 0 .. MaxChanges :
              [C!Idle EXCEPT !.pc = pc, !.on = {p}, !.seen = seen, !.to = to, !.at = at] \in C!CallState
         /\ \A pc \in C!PC, p \in C!Proposal, seen \in C!Status, to \in C!Status :
              [C!Idle EXCEPT !.pc = pc, !.on = {p}, !.seen = seen, !.to = to] \in C!CallState
         /\ \A pc \in C!PC : [call[c] EXCEPT !.pc = pc] \in C!CallState
         /\ \A pc \in C!PC, to \in C!Status : [call[c] EXCEPT !.pc = pc, !.to = to] \in C!CallState
<1>1. call[c] \in C!CallState
  BY DEF C!TypeOK
<1>2. C!Idle \in C!CallState
  BY ConstitutionAssumption DEF C!Idle, C!CallState, C!PC, C!Status
<1> QED BY <1>1, <1>2 DEF C!CallState, C!Idle

\* The proposals of the others are there as they were, and only gain reviews; the governance
\* goes on.
Reviewed ==
  /\ analyzed \subseteq analyzed'
  /\ epoch \in Nat /\ epoch' \in Nat /\ epoch <= epoch'
  /\ \A p \in C!Proposal :
       /\ approvals'[p] \in Nat /\ approvals[p] \in Nat /\ approvals[p] <= approvals'[p]
       /\ proposal[p].status # "NONE" => proposal'[p].status # "NONE"

\* A call that takes no step keeps what it has read; if it holds the lock, nobody else
\* applies a change.
LEMMA WaitingChange ==
  ASSUME C!TypeOK, Reviewed, NEW c \in Call, NEW p \in C!Proposal, ChangeCall(c, p),
         call'[c] = call[c], call[c].pc = "apply" => lock' = lock /\ applied' = applied
  PROVE  ChangeCall(c, p)'
<1>1. Deserves(p) => Deserves(p)'
  BY ConstitutionAssumption DEF Deserves, Reviewed
<1>2. call[c].at \in Nat
  BY ConstitutionAssumption DEF C!TypeOK, C!CallState
<1>3. call[c].at <= epoch => call[c].at <= epoch'
  BY <1>2 DEF Reviewed
<1> QED BY <1>1, <1>3 DEF ChangeCall, Reviewed

\* A step of one call, with the calls of the others as they were.
LEMMA ChangeStep ==
  ASSUME C!TypeOK, \A e \in Call, q \in C!Proposal : C!On(e, q) => ChangeCall(e, q),
         \A e \in Call : call[e].pc \notin Bare => call[e].on # {},
         NEW c \in Call, NEW k \in C!CallState, call' = [call EXCEPT ![c] = k], Reviewed,
         k.pc \notin Bare => k.on # {},
         \A e \in Call \ {c} : call[e].pc = "apply" => lock' = lock /\ applied' = applied,
         \A q \in C!Proposal : k.on = {q} => ChangeCall(c, q)'
  PROVE  /\ call' \in [Call -> C!CallState]
         /\ \A e \in Call : call'[e].pc \notin Bare => call'[e].on # {}
         /\ \A e \in Call, q \in C!Proposal : C!On(e, q)' => ChangeCall(e, q)'
<1>1. call \in [Call -> C!CallState]
  BY DEF C!TypeOK
<1>2. call'[c] = k /\ \A e \in Call \ {c} : call'[e] = call[e]
  BY <1>1
<1>3. ASSUME NEW e \in Call, NEW q \in C!Proposal, C!On(e, q)'
      PROVE  ChangeCall(e, q)'
  <2>1. CASE e = c
    BY <1>2, <1>3, <2>1 DEF C!On
  <2>2. CASE e # c
    <3>1. call'[e] = call[e] /\ C!On(e, q)
      BY <1>2, <1>3, <2>2 DEF C!On
    <3> QED BY <2>2, <3>1, WaitingChange
  <2> QED BY <2>1, <2>2
<1>4. \A e \in Call : call'[e].pc \notin Bare => call'[e].on # {}
  <2> SUFFICES ASSUME NEW e \in Call
               PROVE  call'[e].pc \notin Bare => call'[e].on # {}
    OBVIOUS
  <2>1. CASE e = c
    BY <1>2, <2>1
  <2>2. CASE e # c
    BY <1>2, <2>2
  <2> QED BY <2>1, <2>2
<1> QED BY <1>1, <1>3, <1>4

\* Who applies a change has the lock.
LEMMA Applying ==
  ASSUME ConstitutionInv, NEW c \in Call, call[c].pc = "apply"
  PROVE  lock = {c}
<1>1. PICK p \in C!Proposal : call[c].on = {p}
  BY ChangeCallTypes DEF ConstitutionInv, Bare
<1> QED BY <1>1 DEF ConstitutionInv, ChangeCall, C!On

LEMMA IdleChange ==
  ASSUME NEW c \in Call, NEW p \in C!Proposal, call'[c] = C!Idle
  PROVE  ChangeCall(c, p)'
  BY DEF C!Idle, ChangeCall

\* A step that leaves the proposals, the reviews and what was applied.
LEMMA QuietChange ==
  ASSUME ConstitutionInv, NEW c \in Call, NEW k \in C!CallState, call' = [call EXCEPT ![c] = k],
         k.pc \notin Bare => k.on # {},
         UNCHANGED <<governance, epoch, proposal, approvals, reviews, applied>>,
         analyzed \subseteq analyzed', analyzed' \subseteq C!Proposal,
         record' \in [C!Proposal -> {"NONE", "STAGED", "ACTIVATED"}],
         lock' \in {{}} \cup {{e} : e \in Call},
         \A e \in Call \ {c} : call[e].pc = "apply" => lock' = lock,
         \A q \in C!Proposal : k.on = {q} => ChangeCall(c, q)'
  PROVE  ConstitutionInv'
<1>0. C!TypeOK
  BY DEF ConstitutionInv
<1>1. Reviewed
  BY <1>0, ConstitutionAssumption DEF Reviewed, C!TypeOK
<1>2. /\ call' \in [Call -> C!CallState]
      /\ \A e \in Call : call'[e].pc \notin Bare => call'[e].on # {}
      /\ \A e \in Call, q \in C!Proposal : C!On(e, q)' => ChangeCall(e, q)'
  BY <1>0, <1>1, ChangeStep DEF ConstitutionInv
<1>3. C!TypeOK'
  BY <1>0, <1>2 DEF C!TypeOK
<1>4. \A p \in C!Proposal : ProposalInv(p)'
  BY DEF ConstitutionInv, ProposalInv, Deserves
<1> QED BY <1>2, <1>3, <1>4 DEF ConstitutionInv

\* A call that ends leaves the rest to the others.
LEMMA ReturnChange ==
  ASSUME ConstitutionInv, NEW c \in Call, C!Return(c),
         UNCHANGED <<governance, epoch, proposal, analyzed, approvals, reviews, applied, record>>,
         lock' \in {{}} \cup {{e} : e \in Call},
         \A e \in Call \ {c} : call[e].pc = "apply" => lock' = lock
  PROVE  ConstitutionInv'
<1>1. C!Idle \in C!CallState /\ call' = [call EXCEPT ![c] = C!Idle] /\ C!Idle.pc = "idle"
  BY ChangeCallTypes DEF ConstitutionInv, C!Return, C!Idle
<1>2. call'[c] = C!Idle
  BY <1>1 DEF ConstitutionInv, C!TypeOK
<1>3. \A q \in C!Proposal : C!Idle.on = {q} => ChangeCall(c, q)'
  BY <1>2, IdleChange
<1>4. record' \in [C!Proposal -> {"NONE", "STAGED", "ACTIVATED"}] /\ analyzed' \subseteq C!Proposal
  BY DEF ConstitutionInv, C!TypeOK
<1> QED BY <1>1, <1>3, <1>4, QuietChange DEF Bare

\* A call that goes on with a proposal, and changes no more than its place.
LEMMA ContinueChange ==
  ASSUME ConstitutionInv, NEW c \in Call, NEW p \in C!Proposal, NEW pc \in C!PC, NEW to \in C!Status,
         C!Continue(c, pc, p, to),
         UNCHANGED <<governance, epoch, proposal, analyzed, approvals, reviews, applied, record>>,
         lock' \in {{}} \cup {{e} : e \in Call},
         \A e \in Call \ {c} : call[e].pc = "apply" => lock' = lock,
         ChangeCall(c, p)'
  PROVE  ConstitutionInv'
<1> DEFINE k == [C!Idle EXCEPT !.pc = pc, !.on = {p}, !.seen = proposal[p].status, !.to = to]
<1>1. k \in C!CallState /\ call' = [call EXCEPT ![c] = k]
  BY ChangeCallTypes DEF ConstitutionInv, C!TypeOK, C!Continue
<1>2. k.on # {} /\ \A q \in C!Proposal : k.on = {q} => q = p
  BY DEF C!Idle
<1>3. record' \in [C!Proposal -> {"NONE", "STAGED", "ACTIVATED"}] /\ analyzed' \subseteq C!Proposal
  BY DEF ConstitutionInv, C!TypeOK
<1> HIDE DEF k
<1>4. k.pc \notin Bare => k.on # {}
  BY <1>2
<1>5. \A q \in C!Proposal : k.on = {q} => ChangeCall(c, q)'
  BY <1>2
<1> QED BY <1>1, <1>3, <1>4, <1>5, QuietChange

\* A call that moves on, with the proposal it is on.
LEMMA MoveChange ==
  ASSUME ConstitutionInv, NEW c \in Call, NEW p \in C!Proposal, C!On(c, p),
         NEW pc \in C!PC, NEW to \in C!Status,
         call' = [call EXCEPT ![c] = [call[c] EXCEPT !.pc = pc, !.to = to]],
         UNCHANGED <<governance, epoch, proposal, approvals, reviews, applied, lock>>,
         analyzed \subseteq analyzed', analyzed' \subseteq C!Proposal,
         record' \in [C!Proposal -> {"NONE", "STAGED", "ACTIVATED"}],
         ChangeCall(c, p)'
  PROVE  ConstitutionInv'
<1> DEFINE k == [call[c] EXCEPT !.pc = pc, !.to = to]
<1>1. C!TypeOK
  BY DEF ConstitutionInv
<1>2. k \in C!CallState
  BY <1>1, ChangeCallTypes
<1>3. k.on = {p}
  BY <1>1 DEF C!On, C!TypeOK, C!CallState
<1>4. lock' \in {{}} \cup {{e} : e \in Call}
  BY <1>1 DEF C!TypeOK
<1>5. k.on # {} /\ \A q \in C!Proposal : k.on = {q} => ChangeCall(c, q)'
  BY <1>3
<1>6. call' = [call EXCEPT ![c] = k] /\ \A e \in Call \ {c} : call[e].pc = "apply" => lock' = lock
  OBVIOUS
<1> HIDE DEF k
<1> QED BY <1>2, <1>4, <1>5, <1>6, QuietChange

\* Where the call is afterwards.
LEMMA MovedChange ==
  ASSUME C!TypeOK, NEW c \in Call, NEW pc, NEW to,
         call' = [call EXCEPT ![c] = [call[c] EXCEPT !.pc = pc, !.to = to]]
  PROVE  call'[c].pc = pc /\ call'[c].to = to /\ call'[c].seen = call[c].seen
  BY DEF C!TypeOK, C!CallState

LEMMA ContinuedCall ==
  ASSUME C!TypeOK, NEW c \in Call, NEW pc, NEW p, NEW to, C!Continue(c, pc, p, to)
  PROVE  call'[c].pc = pc /\ call'[c].to = to /\ call'[c].seen = proposal[p].status
  BY DEF C!TypeOK, C!Continue, C!Idle

\* The forms of the source, as one.
LEMMA MoveToForm ==
  ASSUME C!TypeOK, NEW c \in Call, NEW to, C!MoveTo(c, to)
  PROVE  call' = [call EXCEPT ![c] = [call[c] EXCEPT !.pc = "move", !.to = to]]
  BY DEF C!TypeOK, C!CallState, C!MoveTo

LEMMA SubmitKeeps ==
  ASSUME ConstitutionInv, NEW c \in Call, NEW p \in C!Proposal, C!Submit(c, p)
  PROVE  ConstitutionInv'
<1> DEFINE next == IF C!Fresh(p) THEN "SUBMITTED" ELSE "STALE"
<1>1. /\ C!Continue(c, "move", p, next) /\ proposal[p].status = "DRAFT"
      /\ UNCHANGED <<governance, epoch, proposal, analyzed, approvals, reviews, applied, record, lock>>
  BY DEF C!Submit, C!reviewVars
<1>2. next \in C!Status /\ next \notin Approved /\ next \notin {"NONE", "ACTIVATED"} /\ "move" \in C!PC
  BY DEF C!Status, C!PC, Approved
<1> HIDE DEF next
<1>3. C!TypeOK /\ lock' \in {{}} \cup {{e} : e \in Call}
  BY <1>1 DEF ConstitutionInv, C!TypeOK
<1>4. call'[c].pc = "move" /\ call'[c].to = next /\ call'[c].seen = "DRAFT"
  BY <1>1, <1>3, ContinuedCall
<1>5. ChangeCall(c, p)'
  BY <1>1, <1>2, <1>4 DEF ChangeCall
<1> QED BY <1>1, <1>2, <1>3, <1>5, ContinueChange

LEMMA StartAnalyzeKeeps ==
  ASSUME ConstitutionInv, NEW c \in Call, NEW p \in C!Proposal, C!StartAnalyze(c, p)
  PROVE  ConstitutionInv'
<1>1. /\ C!Continue(c, "analysis", p, "VALIDATED") /\ proposal[p].status \in {"SUBMITTED", "VALIDATED"}
      /\ UNCHANGED <<governance, epoch, proposal, analyzed, approvals, reviews, applied, record, lock>>
  BY DEF C!StartAnalyze, C!reviewVars
<1>2. "VALIDATED" \in C!Status /\ "analysis" \in C!PC
  BY DEF C!Status, C!PC
<1>3. C!TypeOK /\ lock' \in {{}} \cup {{e} : e \in Call}
  BY <1>1 DEF ConstitutionInv, C!TypeOK
<1>4. call'[c].pc = "analysis" /\ call'[c].to = "VALIDATED" /\ call'[c].seen = proposal[p].status
  BY <1>1, <1>3, ContinuedCall
<1>5. ChangeCall(c, p)'
  BY <1>1, <1>4 DEF ChangeCall
<1> QED BY <1>1, <1>2, <1>3, <1>5, ContinueChange

LEMMA SaveAnalysisKeeps ==
  ASSUME ConstitutionInv, NEW c \in Call, NEW p \in C!Proposal, C!SaveAnalysis(c, p)
  PROVE  ConstitutionInv'
<1>1. /\ C!At(c, "analysis", p) /\ analyzed' = analyzed \cup {p}
      /\ C!MoveTo(c, "VALIDATED") \/ C!Return(c)
      /\ UNCHANGED <<governance, epoch, proposal, approvals, reviews, applied, record, lock>>
  BY DEF C!SaveAnalysis
<1>2. C!TypeOK
  BY DEF ConstitutionInv
<1>3. /\ lock' \in {{}} \cup {{e} : e \in Call} /\ analyzed' \subseteq C!Proposal
      /\ record' \in [C!Proposal -> {"NONE", "STAGED", "ACTIVATED"}]
  BY <1>1, <1>2 DEF C!TypeOK
<1>4. CASE C!MoveTo(c, "VALIDATED")
  <2>1. call' = [call EXCEPT ![c] = [call[c] EXCEPT !.pc = "move", !.to = "VALIDATED"]]
    BY <1>2, <1>4, MoveToForm
  <2>2. call'[c].pc = "move" /\ call'[c].to = "VALIDATED" /\ call'[c].seen = call[c].seen
    BY <1>2, <2>1, MovedChange
  <2>3. ChangeCall(c, p)
    BY <1>1 DEF ConstitutionInv, C!At
  <2>4. ChangeCall(c, p)'
    BY <1>1, <2>2, <2>3 DEF ChangeCall, C!At, Approved
  <2>5. "move" \in C!PC /\ "VALIDATED" \in C!Status /\ C!On(c, p)
    BY <1>1 DEF C!PC, C!Status, C!At
  <2> QED BY <1>1, <1>3, <2>1, <2>4, <2>5, MoveChange
<1>5. CASE C!Return(c)
  <2>1. C!Idle \in C!CallState /\ call' = [call EXCEPT ![c] = C!Idle] /\ C!Idle.pc = "idle"
    BY <1>2, <1>5, ChangeCallTypes DEF C!Return, C!Idle
  <2>2. \A q \in C!Proposal : C!Idle.on = {q} => ChangeCall(c, q)'
    BY <1>2, <2>1, IdleChange DEF C!TypeOK
  <2> QED BY <1>1, <1>3, <2>1, <2>2, QuietChange DEF Bare
<1> QED BY <1>1, <1>4, <1>5

LEMMA StartReviewKeeps ==
  ASSUME ConstitutionInv, NEW c \in Call, NEW p \in C!Proposal, C!StartReview(c, p)
  PROVE  ConstitutionInv'
<1>1. PICK to \in {"AUTHORIZED", "REJECTED"} :
        /\ C!Continue(c, "decision", p, to)
        /\ proposal[p].status \in {"VALIDATED", "AWAITING_REVIEW", "AUTHORIZED"} /\ p \in analyzed
        /\ UNCHANGED <<governance, epoch, proposal, analyzed, approvals, reviews, applied, record, lock>>
  BY DEF C!StartReview, C!reviewVars
<1>2. to \in C!Status /\ "decision" \in C!PC
  BY DEF C!Status, C!PC
<1>3. C!TypeOK /\ lock' \in {{}} \cup {{e} : e \in Call}
  BY <1>1 DEF ConstitutionInv, C!TypeOK
<1>4. call'[c].pc = "decision" /\ call'[c].to = to /\ call'[c].seen = proposal[p].status
  BY <1>1, <1>3, ContinuedCall
<1>5. ChangeCall(c, p)'
  BY <1>1, <1>4 DEF ChangeCall
<1> QED BY <1>1, <1>2, <1>3, <1>5, ContinueChange

LEMMA CountApprovalsKeeps ==
  ASSUME ConstitutionInv, NEW c \in Call, NEW p \in C!Proposal, C!CountApprovals(c, p)
  PROVE  ConstitutionInv'
<1>1. /\ C!At(c, "count", p)
      /\ UNCHANGED <<governance, epoch, proposal, analyzed, approvals, reviews, applied, record, lock>>
      /\ \/ C!Enough(p) /\ C!MoveTo(c, "AUTHORIZED")
         \/ C!MoveTo(c, "AWAITING_REVIEW")
         \/ C!Return(c)
  BY DEF C!CountApprovals, C!reviewVars
<1>2. C!TypeOK /\ C!On(c, p) /\ ChangeCall(c, p)
  BY <1>1 DEF ConstitutionInv, C!At
<1>3. /\ lock' \in {{}} \cup {{e} : e \in Call} /\ analyzed' \subseteq C!Proposal
      /\ record' \in [C!Proposal -> {"NONE", "STAGED", "ACTIVATED"}]
  BY <1>1, <1>2 DEF C!TypeOK
<1>4. ASSUME NEW to \in {"AUTHORIZED", "AWAITING_REVIEW"}, C!MoveTo(c, to),
             to = "AUTHORIZED" => C!Enough(p)
      PROVE  ConstitutionInv'
  <2>1. call' = [call EXCEPT ![c] = [call[c] EXCEPT !.pc = "move", !.to = to]]
    BY <1>2, <1>4, MoveToForm
  <2>2. call'[c].pc = "move" /\ call'[c].to = to /\ call'[c].seen = call[c].seen
    BY <1>2, <2>1, MovedChange
  <2>3. ChangeCall(c, p)'
    BY <1>1, <1>2, <1>4, <2>2 DEF ChangeCall, C!At, Approved, Deserves, C!Enough
  <2>4. "move" \in C!PC /\ to \in C!Status
    BY DEF C!PC, C!Status
  <2> QED BY <1>1, <1>2, <1>3, <2>1, <2>3, <2>4, MoveChange
<1>5. CASE C!Return(c)
  BY <1>1, <1>3, <1>5, ReturnChange
<1> QED BY <1>1, <1>4, <1>5

LEMMA StartStageKeeps ==
  ASSUME ConstitutionInv, NEW c \in Call, NEW p \in C!Proposal, C!StartStage(c, p)
  PROVE  ConstitutionInv'
<1>1. /\ C!Continue(c, "record", p, "STAGED") /\ proposal[p].status = "AUTHORIZED"
      /\ UNCHANGED <<governance, epoch, proposal, analyzed, approvals, reviews, applied, record, lock>>
  BY DEF C!StartStage, C!reviewVars
<1>2. "STAGED" \in C!Status /\ "record" \in C!PC
  BY DEF C!Status, C!PC
<1>3. C!TypeOK /\ lock' \in {{}} \cup {{e} : e \in Call}
  BY <1>1 DEF ConstitutionInv, C!TypeOK
<1>4. call'[c].pc = "record" /\ call'[c].to = "STAGED" /\ call'[c].seen = proposal[p].status
  BY <1>1, <1>3, ContinuedCall
<1>5. Deserves(p)
  BY <1>1 DEF ConstitutionInv, ProposalInv, Approved
<1>6. ChangeCall(c, p)'
  BY <1>1, <1>4, <1>5 DEF ChangeCall, Deserves
<1> QED BY <1>1, <1>2, <1>3, <1>6, ContinueChange

LEMMA StageRecordKeeps ==
  ASSUME ConstitutionInv, NEW c \in Call, NEW p \in C!Proposal, C!StageRecord(c, p)
  PROVE  ConstitutionInv'
<1>1. /\ C!At(c, "record", p) /\ C!MoveTo(c, "STAGED")
      /\ record' = [record EXCEPT ![p] = "STAGED"]
      /\ UNCHANGED <<governance, epoch, proposal, analyzed, approvals, reviews, applied, lock>>
  BY DEF C!StageRecord, C!reviewVars
<1>2. C!TypeOK /\ C!On(c, p) /\ ChangeCall(c, p)
  BY <1>1 DEF ConstitutionInv, C!At
<1>3. /\ record' \in [C!Proposal -> {"NONE", "STAGED", "ACTIVATED"}] /\ analyzed' \subseteq C!Proposal
  BY <1>1, <1>2 DEF C!TypeOK
<1>4. call' = [call EXCEPT ![c] = [call[c] EXCEPT !.pc = "move", !.to = "STAGED"]]
  BY <1>1, <1>2, MoveToForm
<1>5. call'[c].pc = "move" /\ call'[c].to = "STAGED" /\ call'[c].seen = call[c].seen
  BY <1>2, <1>4, MovedChange
<1>6. ChangeCall(c, p)'
  BY <1>1, <1>2, <1>5 DEF ChangeCall, C!At, Deserves
<1>7. "move" \in C!PC /\ "STAGED" \in C!Status
  BY DEF C!PC, C!Status
<1> QED BY <1>1, <1>2, <1>3, <1>4, <1>6, <1>7, MoveChange

LEMMA RollbackAndCrashKeep ==
  ASSUME ConstitutionInv, NEW c \in Call, C!Crash(c) \/ \E p \in C!Proposal : C!Rollback(c, p)
  PROVE  ConstitutionInv'
<1>1. C!TypeOK
  BY DEF ConstitutionInv
<1>2. CASE C!Crash(c)
  BY <1>1, <1>2, ReturnChange DEF C!Crash, C!reviewVars, C!TypeOK
<1>3. ASSUME NEW p \in C!Proposal, C!Rollback(c, p)
      PROVE  ConstitutionInv'
  <2>1. /\ C!At(c, "apply", p) /\ lock' = lock \ {c} /\ C!Return(c)
        /\ UNCHANGED <<governance, epoch, proposal, analyzed, approvals, reviews, applied, record>>
    BY <1>3 DEF C!Rollback, C!reviewVars
  <2>2. lock = {c}
    BY <2>1 DEF ConstitutionInv, ChangeCall, C!At
  <2>3. \A e \in Call \ {c} : call[e].pc # "apply"
    BY <2>2, Applying
  <2> QED BY <2>1, <2>2, <2>3, ReturnChange
<1> QED BY <1>2, <1>3

\* A change of one proposal, which does not take back what it has reached.
LEMMA ProposalChange ==
  ASSUME ConstitutionInv, NEW p \in C!Proposal, NEW c \in Call, C!Return(c),
         NEW to \in C!Status, to # "NONE", to # "ACTIVATED", proposal[p].status \notin {"NONE", "ACTIVATED"},
         to \in Approved => Deserves(p),
         proposal' = [proposal EXCEPT ![p].status = to],
         UNCHANGED <<governance, epoch, analyzed, approvals, reviews, record, lock, applied>>
  PROVE  ConstitutionInv'
<1>1. C!TypeOK /\ proposal \in [C!Proposal -> [status: C!Status, base: C!Governance, plan: C!Plan]]
  BY DEF ConstitutionInv, C!TypeOK
<1>2. proposal' \in [C!Proposal -> [status: C!Status, base: C!Governance, plan: C!Plan]]
  BY <1>1
<1>3. /\ proposal'[p].status = to
      /\ \A q \in C!Proposal \ {p} : proposal'[q] = proposal[q]
  BY <1>1
<1>4. Reviewed
  BY <1>1, <1>3, ConstitutionAssumption DEF Reviewed, C!TypeOK
<1>5. /\ C!Idle \in C!CallState /\ call' = [call EXCEPT ![c] = C!Idle] /\ C!Idle.pc = "idle"
      /\ \A q \in C!Proposal : C!Idle.on = {q} => ChangeCall(c, q)'
  BY <1>1, ChangeCallTypes, IdleChange DEF C!Return, C!Idle, C!TypeOK
<1>6. /\ call' \in [Call -> C!CallState]
      /\ \A e \in Call : call'[e].pc \notin Bare => call'[e].on # {}
      /\ \A e \in Call, q \in C!Proposal : C!On(e, q)' => ChangeCall(e, q)'
  BY <1>1, <1>4, <1>5, ChangeStep DEF ConstitutionInv, Bare
<1>7. C!TypeOK'
  BY <1>1, <1>2, <1>6 DEF C!TypeOK
<1>8. ASSUME NEW q \in C!Proposal
      PROVE  ProposalInv(q)'
  <2>1. ProposalInv(q) /\ (Deserves(q)' <=> Deserves(q))
    BY DEF ConstitutionInv, Deserves
  <2>2. CASE q = p
    BY <1>3, <2>1, <2>2 DEF ProposalInv
  <2>3. CASE q # p
    BY <1>3, <2>1, <2>3 DEF ProposalInv
  <2> QED BY <2>2, <2>3
<1>9. \A x \in applied : proposal'[x[1]].status = "ACTIVATED"
  <2> SUFFICES ASSUME NEW x \in applied
               PROVE  proposal'[x[1]].status = "ACTIVATED"
    OBVIOUS
  <2>1. x[1] \in C!Proposal /\ proposal[x[1]].status = "ACTIVATED"
    BY DEF ConstitutionInv, C!TypeOK
  <2>2. x[1] # p
    BY <2>1
  <2> QED BY <1>3, <2>1, <2>2
<1> QED BY <1>6, <1>7, <1>8, <1>9 DEF ConstitutionInv

LEMMA MoveKeeps ==
  ASSUME ConstitutionInv, NEW c \in Call, NEW p \in C!Proposal, C!Move(c, p)
  PROVE  ConstitutionInv'
<1>1. /\ C!At(c, "move", p) /\ C!Return(c)
      /\ UNCHANGED <<governance, epoch, analyzed, approvals, reviews, record, lock, applied>>
      /\ proposal' = IF proposal[p].status = call[c].seen
                     THEN [proposal EXCEPT ![p].status = call[c].to] ELSE proposal
  BY DEF C!Move, C!reviewVars
<1>2. C!TypeOK /\ ChangeCall(c, p)
  BY <1>1 DEF ConstitutionInv, C!At
<1>3. CASE proposal[p].status # call[c].seen
  <2>1. UNCHANGED proposal /\ lock' \in {{}} \cup {{e} : e \in Call}
    BY <1>1, <1>2, <1>3 DEF C!TypeOK
  <2> QED BY <1>1, <2>1, ReturnChange
<1>4. CASE proposal[p].status = call[c].seen
  <2>1. proposal' = [proposal EXCEPT ![p].status = call[c].to] /\ call[c].to \in C!Status
    BY <1>1, <1>2, <1>4, ChangeCallTypes
  <2>2. /\ proposal[p].status \notin {"NONE", "ACTIVATED"} /\ call[c].to # "NONE"
        /\ call[c].to \in Approved => Deserves(p)
    BY <1>1, <1>2, <1>4 DEF ChangeCall, C!At
  <2>3. call[c].to # "ACTIVATED"
    BY <1>1, <1>2 DEF ChangeCall, C!At
  <2> QED BY <1>1, <2>1, <2>2, <2>3, ProposalChange
<1> QED BY <1>3, <1>4

LEMMA PersistStaleKeeps ==
  ASSUME ConstitutionInv, NEW c \in Call, NEW p \in C!Proposal, C!PersistStale(c, p)
  PROVE  ConstitutionInv'
<1>1. /\ C!At(c, "stale", p)
      /\ UNCHANGED <<governance, epoch, proposal, analyzed, approvals, reviews, record, lock, applied>>
      /\ \/ C!Return(c)
         \/ proposal[p].status \notin {"STALE", "ACTIVATED"} /\ C!Continue(c, "move", p, "STALE")
  BY DEF C!PersistStale, C!reviewVars
<1>2. C!TypeOK /\ ChangeCall(c, p) /\ lock' \in {{}} \cup {{e} : e \in Call}
  BY <1>1 DEF ConstitutionInv, C!At, C!TypeOK
<1>3. CASE C!Return(c)
  BY <1>1, <1>2, <1>3, ReturnChange
<1>4. CASE proposal[p].status # "ACTIVATED" /\ C!Continue(c, "move", p, "STALE")
  <2>1. call'[c].pc = "move" /\ call'[c].to = "STALE" /\ call'[c].seen = proposal[p].status
    BY <1>2, <1>4, ContinuedCall
  <2>2. proposal[p].status # "NONE"
    BY <1>1, <1>2 DEF ChangeCall, C!At
  <2>3. ChangeCall(c, p)'
    BY <1>1, <1>4, <2>1, <2>2 DEF ChangeCall, Approved
  <2>4. "STALE" \in C!Status /\ "move" \in C!PC
    BY DEF C!Status, C!PC
  <2> QED BY <1>1, <1>2, <1>4, <2>3, <2>4, ContinueChange
<1> QED BY <1>1, <1>3, <1>4

LEMMA SaveReviewKeeps ==
  ASSUME ConstitutionInv, NEW c \in Call, NEW p \in C!Proposal, C!SaveDecision(c, p)
  PROVE  ConstitutionInv'
<1>1. /\ C!At(c, "decision", p) /\ reviews[p] < MaxReviews
      /\ reviews' = [reviews EXCEPT ![p] = @ + 1]
      /\ UNCHANGED <<governance, epoch, proposal, analyzed, record, lock, applied>>
  BY DEF C!SaveDecision
<1>2. /\ C!TypeOK /\ ChangeCall(c, p) /\ C!On(c, p)
      /\ \A q \in C!Proposal : ProposalInv(q)
      /\ reviews \in [C!Proposal -> 0 .. MaxReviews] /\ approvals \in [C!Proposal -> 0 .. MaxReviews]
  BY <1>1 DEF ConstitutionInv, C!At, C!TypeOK
<1>3. \/ approvals' = approvals /\ call' = [call EXCEPT ![c] = [call[c] EXCEPT !.pc = "move", !.to = "REJECTED"]]
      \/ /\ approvals' = [approvals EXCEPT ![p] = @ + 1]
         /\ call' = [call EXCEPT ![c] = [call[c] EXCEPT !.pc = "count", !.to = call[c].to]]
  <2>1. CASE call[c].to = "REJECTED"
    BY <1>2, <2>1, MoveToForm DEF C!SaveDecision
  <2>2. CASE call[c].to # "REJECTED"
    BY <1>2, <2>2 DEF C!SaveDecision, C!TypeOK, C!CallState
  <2> QED BY <2>1, <2>2
<1>4. PICK pc \in {"move", "count"}, to \in C!Status :
        /\ call' = [call EXCEPT ![c] = [call[c] EXCEPT !.pc = pc, !.to = to]]
        /\ to # "NONE"
        /\ pc = "move" => to = "REJECTED"
  <2>1. call[c].to # "NONE" /\ call[c].to \in C!Status /\ "REJECTED" \in C!Status
    BY <1>1, <1>2, ChangeCallTypes DEF ChangeCall, C!At, C!Status
  <2> QED BY <1>3, <2>1
<1> DEFINE k == [call[c] EXCEPT !.pc = pc, !.to = to]
<1>5. k \in C!CallState /\ k.on = {p}
  <2>1. pc \in C!PC
    BY DEF C!PC
  <2>2. k \in C!CallState
    BY <1>2, <2>1, ChangeCallTypes
  <2>3. call[c] \in C!CallState /\ call[c].on = {p}
    BY <1>2 DEF C!On, C!TypeOK
  <2>4. k.on = {p}
    BY <2>3 DEF C!CallState
  <2> QED BY <2>2, <2>4
<1>6. call'[c].pc = pc /\ call'[c].to = to /\ call'[c].seen = call[c].seen
  BY <1>2, <1>4, MovedChange
<1>7. /\ reviews' \in [C!Proposal -> 0 .. MaxReviews] /\ approvals' \in [C!Proposal -> 0 .. MaxReviews]
      /\ \A q \in C!Proposal : approvals[q] <= approvals'[q] /\ approvals'[q] <= reviews'[q]
      /\ \A q \in C!Proposal : approvals[q] \in Nat /\ approvals'[q] \in Nat
  BY <1>1, <1>2, <1>3, ConstitutionAssumption DEF ProposalInv
<1>8. Reviewed
  BY <1>1, <1>2, <1>7, ConstitutionAssumption DEF Reviewed, C!TypeOK
<1>9. ChangeCall(c, p)'
  BY <1>1, <1>2, <1>4, <1>6 DEF ChangeCall, C!At, Approved
<1>10. /\ call' \in [Call -> C!CallState]
       /\ \A e \in Call : call'[e].pc \notin Bare => call'[e].on # {}
       /\ \A e \in Call, q \in C!Proposal : C!On(e, q)' => ChangeCall(e, q)'
  <2>1. call' = [call EXCEPT ![c] = k] /\ k.on # {} /\ \A q \in C!Proposal : k.on = {q} => q = p
    BY <1>4, <1>5
  <2>2. \A e \in Call \ {c} : call[e].pc = "apply" => lock' = lock /\ applied' = applied
    BY <1>1
  <2>3. /\ \A e \in Call : call[e].pc \notin Bare => call[e].on # {}
        /\ \A e \in Call, q \in C!Proposal : C!On(e, q) => ChangeCall(e, q)
    BY DEF ConstitutionInv
  <2>4. \A q \in C!Proposal : k.on = {q} => ChangeCall(c, q)'
    BY <1>9, <2>1
  <2> HIDE DEF k
  <2> QED BY <1>2, <1>5, <1>8, <2>1, <2>2, <2>3, <2>4, ChangeStep
<1>11. C!TypeOK'
  BY <1>1, <1>2, <1>7, <1>10 DEF C!TypeOK
<1>12. \A q \in C!Proposal : ProposalInv(q)'
  BY <1>1, <1>2, <1>7, ConstitutionAssumption DEF ProposalInv, Deserves
<1>13. \A x \in applied : /\ proposal'[x[1]].status = "ACTIVATED" /\ x[2] < epoch'
                          /\ \A y \in applied : x[2] = y[2] => x = y
  BY <1>1 DEF ConstitutionInv
<1> QED BY <1>1, <1>10, <1>11, <1>12, <1>13 DEF ConstitutionInv

\* What has been applied was compared with what is past: the next one compares something new.
LEMMA BeginActivationKeeps ==
  ASSUME ConstitutionInv, NEW c \in Call, NEW p \in C!Proposal, C!BeginActivation(c, p)
  PROVE  ConstitutionInv'
<1>1. /\ lock = {} /\ proposal[p].status \in {"STAGED", "ACTIVATED"}
      /\ UNCHANGED <<governance, epoch, proposal, analyzed, approvals, reviews, applied, record>>
  BY DEF C!BeginActivation, C!reviewVars, C!MayLock
<1>2. C!TypeOK /\ epoch \in 0 .. MaxChanges /\ epoch <= epoch
  BY ConstitutionAssumption DEF ConstitutionInv, C!TypeOK
<1>3. \A e \in Call : call[e].pc # "apply"
  BY <1>1, Applying
<1>4. CASE C!Fresh(p)
  <2> DEFINE k == [C!Idle EXCEPT !.pc = "apply", !.on = {p}, !.seen = proposal[p].status,
                                 !.to = "ACTIVATED", !.at = epoch]
  <2>1. call' = [call EXCEPT ![c] = k] /\ lock' = {c}
    BY <1>1, <1>4 DEF C!BeginActivation
  <2>2. "apply" \in C!PC /\ "ACTIVATED" \in C!Status /\ proposal[p].status \in C!Status
    BY <1>2 DEF C!PC, C!Status, C!TypeOK
  <2>3. k \in C!CallState
    BY <1>2, <2>2, ChangeCallTypes
  <2>4. /\ k.pc = "apply" /\ k.to = "ACTIVATED" /\ k.seen = proposal[p].status /\ k.at = epoch
        /\ k.on # {} /\ \A q \in C!Proposal : k.on = {q} => q = p
    BY DEF C!Idle
  <2> HIDE DEF k
  <2>5. call'[c] = k
    BY <1>2, <2>1 DEF C!TypeOK
  <2>6. ChangeCall(c, p)'
    BY <1>1, <1>2, <2>1, <2>4, <2>5 DEF ChangeCall, ConstitutionInv
  <2>7. /\ record' \in [C!Proposal -> {"NONE", "STAGED", "ACTIVATED"}] /\ analyzed' \subseteq C!Proposal
        /\ lock' \in {{}} \cup {{e} : e \in Call}
    BY <1>1, <1>2, <2>1 DEF C!TypeOK
  <2> QED BY <1>1, <1>3, <2>1, <2>3, <2>4, <2>6, <2>7, QuietChange
<1>5. CASE ~C!Fresh(p)
  <2>1. C!Continue(c, "stale", p, "STALE") /\ lock' = lock
    BY <1>5 DEF C!BeginActivation
  <2>2. call'[c].pc = "stale" /\ call'[c].to = "STALE" /\ call'[c].seen = proposal[p].status
    BY <1>2, <2>1, ContinuedCall
  <2>3. ChangeCall(c, p)'
    BY <1>1, <2>2 DEF ChangeCall
  <2>4. "stale" \in C!PC /\ "STALE" \in C!Status /\ lock' \in {{}} \cup {{e} : e \in Call}
    BY <1>1, <2>1 DEF C!PC, C!Status
  <2> QED BY <1>1, <1>3, <2>1, <2>3, <2>4, ContinueChange
<1> QED BY <1>4, <1>5

\* Whatever is carried out, the governance stays one of its states.
LEMMA Written ==
  ASSUME C!TypeOK, epoch < MaxChanges
  PROVE  /\ epoch + 1 \in 0 .. MaxChanges /\ epoch + 1 \in C!Mandate
         /\ \A plan \in C!Plan : C!Carried(plan) \in C!Governance
         /\ \A m : [governance EXCEPT !.active = @ \ {m}] \in C!Governance
         /\ [governance EXCEPT !.active = @ \cup {epoch + 1}] \in C!Governance
         /\ \A row \in SUBSET Project :
              [controlled |-> TRUE, active |-> (governance.active \ Project) \cup row] \in C!Governance
<1>1. epoch + 1 \in 0 .. MaxChanges /\ epoch + 1 \in C!Mandate
  BY ConstitutionAssumption DEF C!TypeOK, C!Mandate
<1>2. /\ governance \in C!Governance /\ governance.active \subseteq C!Thing
      /\ epoch + 1 \in C!Thing /\ Project \subseteq C!Thing
  BY <1>1 DEF C!TypeOK, C!Governance, C!Thing
<1>3. ASSUME NEW plan \in C!Plan
      PROVE  C!Carried(plan) \in C!Governance
  <2>1. plan.adds \subseteq C!Thing
    BY DEF C!Plan, C!Thing
  <2> QED BY <1>2, <2>1 DEF C!Carried, C!Governance
<1>4. \A m : [governance EXCEPT !.active = @ \ {m}] \in C!Governance
  BY <1>2 DEF C!Governance
<1>5. [governance EXCEPT !.active = @ \cup {epoch + 1}] \in C!Governance
  BY <1>2 DEF C!Governance
<1>6. ASSUME NEW row \in SUBSET Project
      PROVE  [controlled |-> TRUE, active |-> (governance.active \ Project) \cup row] \in C!Governance
  BY <1>2 DEF C!Governance
<1> QED BY <1>1, <1>3, <1>4, <1>5, <1>6

LEMMA CommitChangeKeeps ==
  ASSUME ConstitutionInv, NEW c \in Call, NEW p \in C!Proposal, C!Commit(c, p)
  PROVE  ConstitutionInv'
<1> DEFINE at == call[c].at
<1>1. /\ C!At(c, "apply", p) /\ proposal[p].status = call[c].seen /\ C!Return(c)
      /\ epoch < MaxChanges /\ epoch' = epoch + 1 /\ governance' = C!Carried(proposal[p].plan)
      /\ record' = [record EXCEPT ![p] = "ACTIVATED"]
      /\ proposal' = [proposal EXCEPT ![p].status = "ACTIVATED"]
      /\ applied' = applied \cup {<<p, at>>}
      /\ lock' = lock \ {c}
      /\ UNCHANGED <<analyzed, approvals, reviews>>
  BY DEF C!Commit, C!Write, C!reviewVars
<1>2. /\ C!TypeOK /\ ChangeCall(c, p) /\ \A q \in C!Proposal : ProposalInv(q)
      /\ proposal \in [C!Proposal -> [status: C!Status, base: C!Governance, plan: C!Plan]]
      /\ epoch \in 0 .. MaxChanges /\ at \in 0 .. MaxChanges
  BY <1>1 DEF ConstitutionInv, C!At, C!TypeOK, C!CallState
<1>3. /\ lock = {c} /\ proposal[p].status \in {"STAGED", "ACTIVATED"} /\ Deserves(p)
      /\ at <= epoch /\ \A x \in applied : x[2] < at
  BY <1>1, <1>2 DEF ChangeCall, C!At, ProposalInv, Approved
<1>4. /\ proposal'[p].status = "ACTIVATED"
      /\ \A q \in C!Proposal \ {p} : proposal'[q] = proposal[q]
      /\ proposal' \in [C!Proposal -> [status: C!Status, base: C!Governance, plan: C!Plan]]
  BY <1>1, <1>2 DEF C!Status
<1>5. governance' \in C!Governance /\ epoch' \in 0 .. MaxChanges
  BY <1>1, <1>2, Written
<1>6. Reviewed
  BY <1>1, <1>2, <1>4, <1>5, ConstitutionAssumption DEF Reviewed, C!TypeOK
<1>7. /\ call' \in [Call -> C!CallState]
      /\ \A e \in Call : call'[e].pc \notin Bare => call'[e].on # {}
      /\ \A e \in Call, q \in C!Proposal : C!On(e, q)' => ChangeCall(e, q)'
  <2>1. /\ C!Idle \in C!CallState /\ call' = [call EXCEPT ![c] = C!Idle] /\ C!Idle.pc = "idle"
        /\ \A q \in C!Proposal : C!Idle.on = {q} => ChangeCall(c, q)'
    BY <1>1, <1>2, ChangeCallTypes, IdleChange DEF C!Return, C!Idle, C!TypeOK
  <2>2. \A e \in Call \ {c} : call[e].pc # "apply"
    BY <1>3, Applying
  <2>3. /\ \A e \in Call : call[e].pc \notin Bare => call[e].on # {}
        /\ \A e \in Call, q \in C!Proposal : C!On(e, q) => ChangeCall(e, q)
        /\ "idle" \in Bare
    BY DEF ConstitutionInv, Bare
  <2> QED BY <1>2, <1>6, <2>1, <2>2, <2>3, ChangeStep
<1>8. C!TypeOK'
  <2>1. applied' \subseteq C!Proposal \X (0 .. MaxChanges) /\ lock' = {}
    BY <1>1, <1>2, <1>3 DEF C!TypeOK
  <2>2. record' \in [C!Proposal -> {"NONE", "STAGED", "ACTIVATED"}]
    BY <1>1, <1>2 DEF C!TypeOK
  <2> QED BY <1>1, <1>2, <1>4, <1>5, <1>7, <2>1, <2>2 DEF C!TypeOK
<1>9. ASSUME NEW q \in C!Proposal
      PROVE  ProposalInv(q)'
  <2>1. ProposalInv(q) /\ (Deserves(q)' <=> Deserves(q))
    BY <1>1, <1>2 DEF Deserves
  <2>2. CASE q = p
    BY <1>1, <1>3, <2>1, <2>2 DEF ProposalInv
  <2>3. CASE q # p
    BY <1>1, <1>4, <2>1, <2>3 DEF ProposalInv
  <2> QED BY <2>2, <2>3
<1>10. \A x \in applied' : proposal'[x[1]].status = "ACTIVATED" /\ x[2] < epoch'
  <2> SUFFICES ASSUME NEW x \in applied'
               PROVE  proposal'[x[1]].status = "ACTIVATED" /\ x[2] < epoch'
    OBVIOUS
  <2>1. CASE x = <<p, at>>
    BY <1>1, <1>2, <1>3, <1>4, <2>1, ConstitutionAssumption
  <2>2. CASE x \in applied
    <3>1. /\ x[1] \in C!Proposal /\ proposal[x[1]].status = "ACTIVATED"
          /\ x[2] \in 0 .. MaxChanges /\ x[2] < epoch
      BY <2>2 DEF ConstitutionInv, C!TypeOK
    <3>2. x[2] < epoch'
      BY <1>1, <1>2, <3>1, ConstitutionAssumption
    <3> QED BY <1>4, <3>1, <3>2
  <2> QED BY <1>1, <2>1, <2>2
<1>11. \A x, y \in applied' : x[2] = y[2] => x = y
  <2> SUFFICES ASSUME NEW x \in applied', NEW y \in applied', x[2] = y[2]
               PROVE  x = y
    OBVIOUS
  <2>1. \A z \in applied' : z \in applied \/ z = <<p, at>>
    BY <1>1
  <2>2. \A z \in applied : z[2] # at
    BY <1>2, <1>3, ConstitutionAssumption DEF C!TypeOK
  <2>3. CASE x \in applied /\ y \in applied
    BY <2>3 DEF ConstitutionInv
  <2>4. <<p, at>>[2] = at
    OBVIOUS
  <2> QED BY <2>1, <2>2, <2>3, <2>4
<1> QED BY <1>7, <1>8, <1>9, <1>10, <1>11 DEF ConstitutionInv

LEMMA CreateProposalKeeps ==
  ASSUME ConstitutionInv, NEW p \in C!Proposal, C!CreateProposal(p)
  PROVE  ConstitutionInv'
<1>1. PICK plan \in Plans :
        /\ proposal[p].status = "NONE"
        /\ proposal' = [proposal EXCEPT ![p] = [status |-> "DRAFT", base |-> governance, plan |-> plan]]
        /\ UNCHANGED <<governance, epoch, analyzed, approvals, reviews, record, lock, applied, call>>
  BY DEF C!CreateProposal, C!reviewVars, C!Fingerprint
<1>2. /\ C!TypeOK /\ governance \in C!Governance /\ plan \in C!Plan
      /\ proposal \in [C!Proposal -> [status: C!Status, base: C!Governance, plan: C!Plan]]
  BY ConstitutionAssumption DEF ConstitutionInv, C!TypeOK, C!Plan, C!Thing, C!Mandate
<1>3. /\ proposal'[p].status = "DRAFT"
      /\ \A q \in C!Proposal \ {p} : proposal'[q] = proposal[q]
      /\ proposal' \in [C!Proposal -> [status: C!Status, base: C!Governance, plan: C!Plan]]
  <2>1. [status |-> "DRAFT", base |-> governance, plan |-> plan]
          \in [status: C!Status, base: C!Governance, plan: C!Plan]
    BY <1>2 DEF C!Status
  <2> QED BY <1>1, <1>2, <2>1
<1>4. Reviewed
  BY <1>1, <1>2, <1>3, ConstitutionAssumption DEF Reviewed, C!TypeOK
<1>5. C!TypeOK'
  BY <1>1, <1>2, <1>3 DEF C!TypeOK
<1>6. ASSUME NEW q \in C!Proposal
      PROVE  ProposalInv(q)'
  <2>1. ProposalInv(q) /\ (Deserves(q)' <=> Deserves(q))
    BY <1>1 DEF ConstitutionInv, Deserves
  <2>2. CASE q = p
    BY <1>1, <1>3, <2>1, <2>2 DEF ProposalInv, Approved
  <2>3. CASE q # p
    BY <1>1, <1>3, <2>1, <2>3 DEF ProposalInv
  <2> QED BY <2>2, <2>3
<1>7. \A e \in Call, q \in C!Proposal : C!On(e, q)' => ChangeCall(e, q)'
  <2> SUFFICES ASSUME NEW e \in Call, NEW q \in C!Proposal, C!On(e, q)'
               PROVE  ChangeCall(e, q)'
    OBVIOUS
  <2>1. ChangeCall(e, q)
    BY <1>1 DEF ConstitutionInv, C!On
  <2> QED BY <1>1, <1>2, <1>4, <2>1, WaitingChange
<1>8. \A x \in applied : proposal'[x[1]] = proposal[x[1]]
  <2> SUFFICES ASSUME NEW x \in applied
               PROVE  proposal'[x[1]] = proposal[x[1]]
    OBVIOUS
  <2>1. x[1] \in C!Proposal /\ proposal[x[1]].status = "ACTIVATED"
    BY DEF ConstitutionInv, C!TypeOK
  <2> QED BY <1>1, <1>3, <2>1
<1> QED BY <1>1, <1>5, <1>6, <1>7, <1>8 DEF ConstitutionInv

\* The governance is written without a proposal, by a call that ends or by none.
LEMMA DirectWrite ==
  ASSUME ConstitutionInv, NEW new \in C!Governance, C!Write(new),
         call' = call \/ \E c \in Call : call[c].pc \in Bare /\ C!Return(c),
         UNCHANGED <<proposal, analyzed, approvals, reviews, record, lock, applied>>
  PROVE  ConstitutionInv'
<1>1. C!TypeOK /\ epoch \in 0 .. MaxChanges /\ epoch < MaxChanges /\ epoch' = epoch + 1 /\ governance' = new
  BY DEF ConstitutionInv, C!TypeOK, C!Write
<1>2. epoch' \in 0 .. MaxChanges /\ Reviewed
  BY <1>1, ConstitutionAssumption DEF Reviewed, C!TypeOK
<1>3. /\ call' \in [Call -> C!CallState]
      /\ \A e \in Call : call'[e].pc \notin Bare => call'[e].on # {}
      /\ \A e \in Call, q \in C!Proposal : C!On(e, q)' => ChangeCall(e, q)'
  <2>1. CASE call' = call
    <3>1. ASSUME NEW e \in Call, NEW q \in C!Proposal, C!On(e, q)'
          PROVE  ChangeCall(e, q)'
      <4>1. ChangeCall(e, q)
        BY <2>1, <3>1 DEF ConstitutionInv, C!On
      <4> QED BY <1>1, <1>2, <2>1, <4>1, WaitingChange
    <3> QED BY <1>1, <2>1, <3>1 DEF ConstitutionInv, C!TypeOK
  <2>2. ASSUME NEW c \in Call, C!Return(c)
        PROVE  /\ call' \in [Call -> C!CallState]
               /\ \A e \in Call : call'[e].pc \notin Bare => call'[e].on # {}
               /\ \A e \in Call, q \in C!Proposal : C!On(e, q)' => ChangeCall(e, q)'
    <3>1. /\ C!Idle \in C!CallState /\ call' = [call EXCEPT ![c] = C!Idle] /\ C!Idle.pc \in Bare
          /\ \A q \in C!Proposal : C!Idle.on = {q} => ChangeCall(c, q)'
      BY <1>1, <2>2, ChangeCallTypes, IdleChange DEF C!Return, C!Idle, C!TypeOK, Bare
    <3>2. /\ \A e \in Call : call[e].pc \notin Bare => call[e].on # {}
          /\ \A e \in Call, q \in C!Proposal : C!On(e, q) => ChangeCall(e, q)
      BY DEF ConstitutionInv
    <3> QED BY <1>1, <1>2, <3>1, <3>2, ChangeStep
  <2> QED BY <2>1, <2>2
<1>4. C!TypeOK'
  BY <1>1, <1>2, <1>3 DEF C!TypeOK
<1>5. \A q \in C!Proposal : ProposalInv(q)'
  BY DEF ConstitutionInv, ProposalInv, Deserves
<1>6. \A x \in applied : x[2] < epoch'
  <2> SUFFICES ASSUME NEW x \in applied
               PROVE  x[2] < epoch'
    OBVIOUS
  <2>1. x[2] \in 0 .. MaxChanges /\ x[2] < epoch
    BY DEF ConstitutionInv, C!TypeOK
  <2> QED BY <1>1, <2>1, ConstitutionAssumption
<1> QED BY <1>3, <1>4, <1>5, <1>6 DEF ConstitutionInv

\* A call that is on no proposal begins.
LEMMA BareCall ==
  ASSUME ConstitutionInv, NEW c \in Call, NEW k \in C!CallState, k.pc \in Bare, k.on = {},
         call' = [call EXCEPT ![c] = k],
         UNCHANGED <<governance, epoch, proposal, analyzed, approvals, reviews, record, lock, applied>>
  PROVE  ConstitutionInv'
<1>1. /\ record' \in [C!Proposal -> {"NONE", "STAGED", "ACTIVATED"}] /\ analyzed' \subseteq C!Proposal
      /\ lock' \in {{}} \cup {{e} : e \in Call}
  BY DEF ConstitutionInv, C!TypeOK
<1> QED BY <1>1, QuietChange

LEMMA DirectKeeps ==
  ASSUME ConstitutionInv,
         \/ \E m \in C!Mandate : C!RevokeMandate(m)
         \/ \E c \in Call : \/ C!StartMandate(c) \/ C!ActivateMandate(c)
                            \/ C!StartEnable(c) \/ C!Enable(c)
  PROVE  ConstitutionInv'
<1> USE DEF C!directVars, C!reviewVars
<1>1. C!TypeOK /\ C!Idle \in C!CallState
  BY ConstitutionAssumption DEF ConstitutionInv, C!Idle, C!CallState, C!PC, C!Status
<1>2. ASSUME NEW m \in C!Mandate, C!RevokeMandate(m)
      PROVE  ConstitutionInv'
  <2>1. [governance EXCEPT !.active = @ \ {m}] \in C!Governance
    BY <1>1, <1>2, Written DEF C!RevokeMandate, C!Write
  <2> QED BY <1>2, <2>1, DirectWrite DEF C!RevokeMandate
<1>3. ASSUME NEW c \in Call, C!ActivateMandate(c)
      PROVE  ConstitutionInv'
  <2>1. [governance EXCEPT !.active = @ \cup {epoch + 1}] \in C!Governance
    BY <1>1, <1>3, Written DEF C!ActivateMandate, C!Write
  <2> QED BY <1>3, <2>1, DirectWrite DEF C!ActivateMandate, Bare
<1>4. ASSUME NEW c \in Call, C!Enable(c)
      PROVE  ConstitutionInv'
  <2>1. call[c].row \in SUBSET Project
    BY <1>1 DEF C!TypeOK, C!CallState
  <2>2. [controlled |-> TRUE, active |-> (governance.active \ Project) \cup call[c].row] \in C!Governance
    BY <1>1, <1>4, <2>1, Written DEF C!Enable, C!Write
  <2> QED BY <1>4, <2>2, DirectWrite DEF C!Enable, Bare
<1>5. ASSUME NEW c \in Call, C!StartMandate(c)
      PROVE  ConstitutionInv'
  <2> DEFINE k == [C!Idle EXCEPT !.pc = "mandate"]
  <2>1. k \in C!CallState /\ k.pc \in Bare /\ k.on = {} /\ call' = [call EXCEPT ![c] = k]
    BY <1>1, <1>5 DEF C!StartMandate, C!CallState, C!PC, C!Idle, Bare
  <2> HIDE DEF k
  <2> QED BY <1>5, <2>1, BareCall DEF C!StartMandate
<1>6. ASSUME NEW c \in Call, C!StartEnable(c)
      PROVE  ConstitutionInv'
  <2> DEFINE k == [C!Idle EXCEPT !.pc = "enable", !.row = governance.active \cap Project]
  <2>1. k \in C!CallState /\ k.pc \in Bare /\ k.on = {} /\ call' = [call EXCEPT ![c] = k]
    BY <1>1, <1>6 DEF C!StartEnable, C!CallState, C!PC, C!Idle, Bare
  <2> HIDE DEF k
  <2> QED BY <1>6, <2>1, BareCall DEF C!StartEnable
<1> QED BY <1>2, <1>3, <1>4, <1>5, <1>6

LEMMA ConstitutionInit ==
  ASSUME C!Init
  PROVE  ConstitutionInv
<1>1. C!Idle \in C!CallState /\ C!Idle.pc = "idle"
  BY ConstitutionAssumption DEF C!Idle, C!CallState, C!PC, C!Status
<1>2. call \in [Call -> C!CallState] /\ \A c \in Call : call[c].pc = "idle"
  BY <1>1 DEF C!Init
<1>3. /\ 0 \in 0 .. MaxChanges /\ 0 \in 0 .. MaxReviews
      /\ C!Nothing \in C!Governance /\ C!NoPlan \in C!Plan
  BY ConstitutionAssumption DEF C!Nothing, C!NoPlan, C!Governance, C!Plan
<1>4. proposal \in [C!Proposal -> [status: C!Status, base: C!Governance, plan: C!Plan]]
  <2>1. [status |-> "NONE", base |-> C!Nothing, plan |-> C!NoPlan]
          \in [status: C!Status, base: C!Governance, plan: C!Plan]
    BY <1>3 DEF C!Status
  <2> QED BY <2>1 DEF C!Init
<1>5. C!TypeOK
  BY <1>2, <1>3, <1>4 DEF C!Init, C!TypeOK
<1>6. \A p \in C!Proposal : ProposalInv(p)
  BY DEF C!Init, ProposalInv, Approved
<1>7. \A c \in Call, p \in C!Proposal : ChangeCall(c, p)
  BY <1>2 DEF ChangeCall
<1> QED BY <1>2, <1>5, <1>6, <1>7 DEF ConstitutionInv, C!Init, Bare

LEMMA ConstitutionNext ==
  ASSUME ConstitutionInv, C!Next
  PROVE  ConstitutionInv'
<1>1. CASE \/ \E m \in C!Mandate : C!RevokeMandate(m)
           \/ \E c \in Call : \/ C!StartMandate(c) \/ C!ActivateMandate(c)
                              \/ C!StartEnable(c) \/ C!Enable(c)
  BY <1>1, DirectKeeps
<1>2. ASSUME NEW p \in C!Proposal, C!CreateProposal(p)
      PROVE  ConstitutionInv'
  BY <1>2, CreateProposalKeeps
<1>3. ASSUME NEW p \in C!Proposal, NEW c \in Call, C!Step(c, p)
      PROVE  ConstitutionInv'
  BY <1>3, MoveKeeps, SubmitKeeps, StartAnalyzeKeeps, SaveAnalysisKeeps, StartReviewKeeps,
     SaveReviewKeeps, CountApprovalsKeeps, StartStageKeeps, StageRecordKeeps,
     BeginActivationKeeps, CommitChangeKeeps, RollbackAndCrashKeep, PersistStaleKeeps DEF C!Step
<1>4. ASSUME NEW c \in Call, C!Crash(c)
      PROVE  ConstitutionInv'
  BY <1>4, RollbackAndCrashKeep
<1> QED BY <1>1, <1>2, <1>3, <1>4 DEF C!Next

\* What the invariant says of the changes that were made.
LEMMA ConstitutionIsSound ==
  ASSUME ConstitutionInv
  PROVE  C!TypeOK /\ C!ChangesAreSerial
<1>1. ASSUME NEW x \in applied
      PROVE  Deserves(x[1])
  <2>1. x[1] \in C!Proposal /\ proposal[x[1]].status = "ACTIVATED"
    BY DEF ConstitutionInv, C!TypeOK
  <2> QED BY <2>1 DEF ConstitutionInv, ProposalInv, Approved
<1> QED BY <1>1 DEF ConstitutionInv, C!ChangesAreSerial, Deserves

-----------------------------------------------------------------------------
(* Federation                                                               *)

\* An agreement that has been activated was ratified by all, and what it was proposed on is
\* gone.
AgreementInv(x) ==
  F!Status(x) \in F!Activated =>
    /\ participants[x] \subseteq ratified[x]
    /\ \A s \in agreement[x].base : F!Status(s[1]) = "SUPERSEDED"

\* The agreements, of which no two can be activated beside each other.
Overlap == \A x, y \in F!Proposed : participants[x] \cap participants[y] # {}

\* Of the agreements that were proposed on one that was ACTIVE, one has been activated; and
\* one is ACTIVE, where their participants overlap.
Serial ==
  /\ \A x, y \in F!Succeeded : \A s \in agreement[x].base, t \in agreement[y].base :
       s[1] = t[1] => x = y
  /\ Overlap => \A x, y \in F!Active : x = y

\* An activation holds the locks of the participants; where they overlap nothing becomes
\* ACTIVE beside it.
ActivationCall(c, x) ==
  /\ participants[x] \subseteq lock /\ participants[x] \subseteq ratified[x]
  /\ F!Status(x) # "NONE" /\ call[c].seen \in {"PROPOSED", "RATIFYING"}
  /\ \A s \in agreement[x].base : s[1] \in call[c].over
  /\ Overlap => F!Active \subseteq call[c].over

\* Two activations that are under way have no participant in common.
Exclusive ==
  \A c, e \in Call : \A x, y \in F!Agreement :
    /\ F!At(c, "activate", x) /\ F!At(e, "activate", y)
    /\ participants[x] \cap participants[y] # {}
    => c = e

\* Work is asked for under an agreement that was activated.
IntentInv(w) ==
  /\ intent[w].status # "NONE" =>
       /\ F!Under(w) \in F!Agreement /\ F!Status(F!Under(w)) \in F!Activated
       /\ intent[w].under = {F!Under(w)}
  /\ w \in admitted => accepted[w] = "ACCEPTED" /\ intent[w].status # "NONE"
  /\ w \in recorded => w \in admitted
  /\ intent[w].status = "MATERIALIZED" => w \in recorded

WorkCall(c, w) ==
  /\ call[c].pc \in {"current", "admit", "record", "recorded"} =>
       /\ accepted[w] = "ACCEPTED" /\ intent[w].status # "NONE"
       /\ call[c].doomed => changes[F!Under(w)] > 0
  /\ call[c].pc = "record" => w \in admitted
  /\ call[c].pc = "recorded" => w \in recorded

DecisionCall(c) ==
  /\ call[c].pc \in {"decide", "decided"} => call[c].seen \in {"ACCEPTED", "REJECTED"}
  /\ call[c].pc = "admit" => ~call[c].doomed

FederationInv ==
  /\ F!TypeOK
  /\ \A x \in F!Agreement : AgreementInv(x)
  /\ Serial
  /\ \A c \in Call, x \in F!Agreement : F!At(c, "activate", x) => ActivationCall(c, x)
  /\ Exclusive
  /\ \A w \in Intent : IntentInv(w)
  /\ \A c \in Call : DecisionCall(c) /\ \A w \in Intent : call[c].on = {w} => WorkCall(c, w)

-----------------------------------------------------------------------------
(* The calls, the agreements and the work of a federation                   *)

LEMMA FederationCallTypes ==
  ASSUME F!TypeOK, NEW c \in Call
  PROVE  /\ call[c] \in F!CallState /\ call[c].by \subseteq Institution
         /\ F!Idle \in F!CallState
         /\ \A pc \in F!PC : [call[c] EXCEPT !.pc = pc] \in F!CallState
<1>1. call[c] \in F!CallState
  BY DEF F!TypeOK
<1>2. F!Idle \in F!CallState
  BY DEF F!Idle, F!CallState, F!PC, F!IntentStatus
<1> QED BY <1>1, <1>2 DEF F!CallState

\* A call that has read something, from the beginning.
LEMMA EnteredCall ==
  ASSUME F!TypeOK, NEW c \in Call, NEW pc \in F!PC, NEW x \in F!Agreement \cup Intent,
         NEW seen \in F!AgreementStatus \cup F!IntentStatus, F!Enter(c, pc, x, seen)
  PROVE  \E k \in F!CallState :
           /\ call' = [call EXCEPT ![c] = k]
           /\ k.pc = pc /\ k.on = {x} /\ k.seen = seen /\ ~k.doomed
<1> DEFINE at == {x}
           k == [F!Idle EXCEPT !.pc = pc, !.on = at, !.seen = seen]
<1>1. at \in {{}} \cup {{y} : y \in F!Agreement \cup Intent}
  OBVIOUS
<1>2. F!Idle \in F!CallState /\ ~F!Idle.doomed
  BY DEF F!Idle, F!CallState, F!PC, F!IntentStatus
<1>3. call' = [call EXCEPT ![c] = k]
  BY DEF F!Enter
<1> HIDE DEF at
<1>4. k \in F!CallState /\ k.pc = pc /\ k.on = at /\ k.seen = seen /\ ~k.doomed
  BY <1>1, <1>2 DEF F!CallState
<1> HIDE DEF k
<1> QED BY <1>3, <1>4 DEF at

LEMMA RatifyingCall ==
  ASSUME NEW x \in F!Agreement, NEW i \in Institution, NEW seen \in F!AgreementStatus,
         NEW k \in {[F!Idle EXCEPT !.pc = "ratify", !.on = {x}, !.by = {i}, !.seen = seen]}
  PROVE  k \in F!CallState /\ k.pc = "ratify"
<1> DEFINE at == {x}
           by == {i}
<1>1. at \in {{}} \cup {{y} : y \in F!Agreement \cup Intent} /\ by \in SUBSET Institution
  OBVIOUS
<1>2. F!Idle \in F!CallState /\ "ratify" \in F!PC
  BY DEF F!Idle, F!CallState, F!PC, F!IntentStatus
<1>3. seen \in F!AgreementStatus \cup F!IntentStatus
  OBVIOUS
<1> HIDE DEF at, by
<1>4. k = [F!Idle EXCEPT !.pc = "ratify", !.on = at, !.by = by, !.seen = seen]
  BY DEF at, by
<1> QED BY <1>1, <1>2, <1>3, <1>4 DEF F!CallState

LEMMA AgreementTypes ==
  ASSUME F!TypeOK, NEW x \in F!Agreement
  PROVE  /\ F!Status(x) \in F!AgreementStatus
         /\ agreement[x].base \in F!State
         /\ \A s \in agreement[x].base : s[1] \in F!Agreement
         /\ ratified[x] \subseteq Institution /\ changes[x] \in 0 .. MaxWithdrawals
         /\ changes[x] \in Nat
<1>1. agreement[x] \in [status: F!AgreementStatus, base: F!State]
  BY DEF F!TypeOK
<1>2. \A s \in agreement[x].base : s \in F!Agreement \X (0 .. MaxWithdrawals)
  BY <1>1 DEF F!State
<1> QED BY <1>1, <1>2, FederationAssumption DEF F!Status, F!TypeOK

\* What nobody takes back.
Progressed ==
  /\ \A x \in F!Agreement :
       /\ ratified[x] \subseteq ratified'[x] /\ changes[x] <= changes'[x]
       /\ changes[x] \in Nat /\ changes'[x] \in Nat
       /\ F!Status(x) # "NONE" =>
            agreement'[x].status # "NONE" /\ agreement'[x].base = agreement[x].base
       /\ F!Status(x) \in F!Activated => agreement'[x].status \in F!Activated
  /\ \A w \in Intent :
       /\ accepted[w] = "ACCEPTED" => accepted'[w] = "ACCEPTED"
       /\ intent[w].status # "NONE" => intent'[w].status # "NONE" /\ intent'[w].under = intent[w].under
  /\ admitted \subseteq admitted' /\ recorded \subseteq recorded'

\* What is proposed stays so: if the participants overlap now, they did before.
LEMMA OverlapBefore ==
  ASSUME Progressed, Overlap'
  PROVE  Overlap
<1>1. F!Proposed \subseteq F!Proposed'
  BY DEF F!Proposed, F!Status, Progressed
<1> QED BY <1>1 DEF Overlap

\* A step that leaves the agreements leaves what is said of them.
LEMMA AgreementsKept ==
  ASSUME UNCHANGED agreement
  PROVE  /\ F!Active' = F!Active /\ F!Succeeded' = F!Succeeded /\ (Overlap' <=> Overlap)
         /\ \A x \in F!Agreement : F!Status(x)' = F!Status(x)
         /\ Serial => Serial'
<1>1. \A x \in F!Agreement : F!Status(x)' = F!Status(x)
  BY DEF F!Status
<1>2. F!Active' = F!Active /\ F!Succeeded' = F!Succeeded /\ F!Proposed' = F!Proposed
  BY <1>1 DEF F!Active, F!Succeeded, F!Proposed
<1> QED BY <1>1, <1>2 DEF Overlap, Serial

LEMMA UnderKept ==
  ASSUME NEW w \in Intent, intent'[w].under = intent[w].under
  PROVE  F!Under(w)' = F!Under(w)
  BY DEF F!Under

LEMMA WaitingWork ==
  ASSUME Progressed, NEW c \in Call, NEW w \in Intent, IntentInv(w), WorkCall(c, w),
         call'[c] = call[c]
  PROVE  WorkCall(c, w)'
<1>1. CASE call[c].pc \in {"current", "admit", "record", "recorded"}
  <2>1. /\ accepted[w] = "ACCEPTED" /\ intent[w].status # "NONE" /\ F!Under(w) \in F!Agreement
        /\ call[c].doomed => changes[F!Under(w)] > 0
    BY <1>1 DEF WorkCall, IntentInv
  <2>2. accepted'[w] = "ACCEPTED" /\ intent'[w].status # "NONE" /\ intent'[w].under = intent[w].under
    BY <2>1 DEF Progressed
  <2>3. F!Under(w)' = F!Under(w)
    BY <2>2, UnderKept
  <2>4. call[c].doomed => changes'[F!Under(w)] > 0
    BY <2>1 DEF Progressed
  <2>5. /\ call[c].pc = "record" => w \in admitted'
        /\ call[c].pc = "recorded" => w \in recorded'
    BY DEF WorkCall, Progressed
  <2> QED BY <2>2, <2>3, <2>4, <2>5 DEF WorkCall
<1>2. CASE call[c].pc \notin {"current", "admit", "record", "recorded"}
  BY <1>2 DEF WorkCall
<1> QED BY <1>1, <1>2

\* Work whose intent is left alone stays as agreed as it was.
LEMMA IntentKept ==
  ASSUME Progressed, NEW w \in Intent, IntentInv(w), intent'[w] = intent[w], accepted'[w] = accepted[w],
         w \in admitted' => w \in admitted, w \in recorded' => w \in recorded
  PROVE  IntentInv(w)'
<1>1. F!Under(w)' = F!Under(w)
  BY UnderKept
<1>2. intent[w].status # "NONE" =>
        F!Under(w) \in F!Agreement /\ agreement'[F!Under(w)].status \in F!Activated
  BY DEF IntentInv, Progressed
<1>3. (F!Status(F!Under(w)))' = agreement'[F!Under(w)].status
  BY <1>1 DEF F!Status
<1>4. recorded \subseteq recorded' /\ admitted \subseteq admitted'
  BY DEF Progressed
<1> QED BY <1>1, <1>2, <1>3, <1>4 DEF IntentInv

\* The step of one call.
LEMMA FederationStep ==
  ASSUME FederationInv, NEW c \in Call, NEW k \in F!CallState, call' = [call EXCEPT ![c] = k],
         Progressed,
         \A e \in Call \ {c}, x \in F!Agreement : F!At(e, "activate", x) => ActivationCall(e, x)',
         k.pc = "activate" =>
           \A x \in F!Agreement :
             k.on = {x} =>
               /\ ActivationCall(c, x)'
               /\ \A e \in Call \ {c}, y \in F!Agreement :
                    F!At(e, "activate", y) => participants[x] \cap participants[y] = {},
         DecisionCall(c)', \A w \in Intent : k.on = {w} => WorkCall(c, w)'
  PROVE  /\ call' \in [Call -> F!CallState]
         /\ \A e \in Call, x \in F!Agreement : F!At(e, "activate", x)' => ActivationCall(e, x)'
         /\ Exclusive'
         /\ \A e \in Call : DecisionCall(e)' /\ \A w \in Intent : call'[e].on = {w} => WorkCall(e, w)'
<1>1. call \in [Call -> F!CallState]
  BY DEF FederationInv, F!TypeOK
<1>2. call' \in [Call -> F!CallState] /\ call'[c] = k /\ \A e \in Call \ {c} : call'[e] = call[e]
  BY <1>1
<1>3. ASSUME NEW e \in Call, NEW x \in F!Agreement, F!At(e, "activate", x)'
      PROVE  ActivationCall(e, x)'
  <2>1. CASE e = c
    BY <1>2, <1>3, <2>1 DEF F!At
  <2>2. CASE e # c
    <3>1. F!At(e, "activate", x)
      BY <1>2, <1>3, <2>2 DEF F!At
    <3> QED BY <2>2, <3>1
  <2> QED BY <2>1, <2>2
<1>4. Exclusive'
  <2> SUFFICES ASSUME NEW e1 \in Call, NEW e2 \in Call, NEW x \in F!Agreement, NEW y \in F!Agreement,
                      F!At(e1, "activate", x)', F!At(e2, "activate", y)',
                      participants[x] \cap participants[y] # {}
               PROVE  e1 = e2
    BY DEF Exclusive
  <2>1. \A e \in Call \ {c}, z \in F!Agreement : F!At(e, "activate", z)' => F!At(e, "activate", z)
    BY <1>2 DEF F!At
  <2>2. CASE e1 # c /\ e2 # c
    BY <2>1, <2>2 DEF FederationInv, Exclusive
  <2>3. CASE e1 = c /\ e2 # c
    BY <1>2, <2>1, <2>3 DEF F!At
  <2>4. CASE e1 # c /\ e2 = c
    BY <1>2, <2>1, <2>4 DEF F!At
  <2> QED BY <2>2, <2>3, <2>4
<1>5. ASSUME NEW e \in Call
      PROVE  DecisionCall(e)' /\ \A w \in Intent : call'[e].on = {w} => WorkCall(e, w)'
  <2>1. CASE e = c
    BY <1>2, <2>1
  <2>2. CASE e # c
    <3>1. call'[e] = call[e] /\ DecisionCall(e)
      BY <1>2, <2>2 DEF FederationInv
    <3>2. ASSUME NEW w \in Intent, call'[e].on = {w}
          PROVE  WorkCall(e, w)'
      <4>1. IntentInv(w) /\ WorkCall(e, w)
        BY <3>1, <3>2 DEF FederationInv
      <4> QED BY <3>1, <4>1, WaitingWork
    <3> QED BY <3>1, <3>2 DEF DecisionCall
  <2> QED BY <2>1, <2>2
<1> QED BY <1>2, <1>3, <1>4, <1>5

\* A place of a call where there is nothing to keep.
LEMMA PlainCall ==
  ASSUME F!TypeOK, NEW c \in Call, NEW k \in F!CallState, call' = [call EXCEPT ![c] = k],
         k.pc \notin {"current", "admit", "record", "recorded", "decide", "decided"}
  PROVE  DecisionCall(c)' /\ \A w \in Intent : WorkCall(c, w)'
<1>1. call'[c] = k
  BY DEF F!TypeOK
<1> QED BY <1>1 DEF DecisionCall, WorkCall

\* A step that leaves the agreements' status and the work.
LEMMA QuietAgreements ==
  ASSUME FederationInv, NEW c \in Call, NEW k \in F!CallState, call' = [call EXCEPT ![c] = k],
         UNCHANGED <<agreement, intent, accepted, admitted, recorded>>,
         ratified' \in [F!Agreement -> SUBSET Institution],
         changes' \in [F!Agreement -> 0 .. MaxWithdrawals],
         \A x \in F!Agreement : ratified[x] \subseteq ratified'[x] /\ changes[x] <= changes'[x],
         lock' \subseteq Institution,
         \A e \in Call \ {c}, x \in F!Agreement :
           F!At(e, "activate", x) => participants[x] \cap lock \subseteq lock',
         k.pc \notin {"activate", "current", "admit", "record", "recorded", "decide", "decided"}
  PROVE  FederationInv'
<1>0. F!TypeOK
  BY DEF FederationInv
<1>1. \A x \in F!Agreement : changes[x] \in Nat /\ changes'[x] \in Nat
  BY <1>0, FederationAssumption DEF F!TypeOK
<1>2. Progressed
  BY <1>1 DEF Progressed, F!Status
<1>3. \A e \in Call \ {c}, x \in F!Agreement : F!At(e, "activate", x) => ActivationCall(e, x)'
  <2> SUFFICES ASSUME NEW e \in Call \ {c}, NEW x \in F!Agreement, F!At(e, "activate", x)
               PROVE  ActivationCall(e, x)'
    OBVIOUS
  <2>1. ActivationCall(e, x) /\ participants[x] \cap lock \subseteq lock'
    BY DEF FederationInv
  <2>2. call'[e] = call[e]
    BY <1>0 DEF F!TypeOK
  <2>3. F!Active' = F!Active /\ F!Status(x)' = F!Status(x) /\ (Overlap' <=> Overlap)
    BY AgreementsKept
  <2> QED BY <2>1, <2>2, <2>3 DEF ActivationCall
<1>4. DecisionCall(c)' /\ \A w \in Intent : WorkCall(c, w)'
  BY <1>0, PlainCall
<1>5. /\ call' \in [Call -> F!CallState]
      /\ \A e \in Call, x \in F!Agreement : F!At(e, "activate", x)' => ActivationCall(e, x)'
      /\ Exclusive'
      /\ \A e \in Call : DecisionCall(e)' /\ \A w \in Intent : call'[e].on = {w} => WorkCall(e, w)'
  BY <1>2, <1>3, <1>4, FederationStep
<1>6. F!TypeOK'
  BY <1>0, <1>5 DEF F!TypeOK
<1>7. \A x \in F!Agreement : AgreementInv(x)'
  BY DEF FederationInv, AgreementInv, F!Status
<1>8. Serial'
  BY AgreementsKept DEF FederationInv
<1>9. \A w \in Intent : IntentInv(w)'
  BY <1>2, IntentKept DEF FederationInv
<1> QED BY <1>5, <1>6, <1>7, <1>8, <1>9 DEF FederationInv

\* A compare-and-set of an agreement that does not make it ACTIVE.
LEMMA CompareAndSetStep ==
  ASSUME FederationInv, NEW c \in Call, F!Return(c), NEW x \in F!Agreement,
         NEW from, NEW to \in F!AgreementStatus, F!CompareAndSet(x, from, to),
         <<from, to>> \in {<<"PROPOSED", "RATIFYING">>, <<"ACTIVE", "SUSPENDED">>},
         UNCHANGED <<ratified, changes, lock, intent, accepted, admitted, recorded>>
  PROVE  FederationInv'
<1>0. F!TypeOK /\ \A y \in F!Agreement : changes[y] \in Nat
  BY AgreementTypes DEF FederationInv
<1>1. F!Idle \in F!CallState /\ call' = [call EXCEPT ![c] = F!Idle] /\ F!Idle.pc = "idle"
  BY <1>0, FederationCallTypes DEF F!Return, F!Idle
<1>2. CASE F!Status(x) # from
  <2>1. UNCHANGED agreement
    BY <1>2 DEF F!CompareAndSet
  <2>2. /\ ratified' \in [F!Agreement -> SUBSET Institution]
        /\ changes' \in [F!Agreement -> 0 .. MaxWithdrawals]
        /\ lock' \subseteq Institution
        /\ \A y \in F!Agreement : ratified[y] \subseteq ratified'[y] /\ changes[y] <= changes'[y]
    BY <1>0 DEF F!TypeOK
  <2> QED BY <1>1, <2>1, <2>2, QuietAgreements
<1>3. CASE F!Status(x) = from
  <2>1. /\ agreement' = [agreement EXCEPT ![x].status = to]
        /\ agreement \in [F!Agreement -> [status: F!AgreementStatus, base: F!State]]
    BY <1>0, <1>3 DEF F!CompareAndSet, F!TypeOK
  <2>2. /\ agreement' \in [F!Agreement -> [status: F!AgreementStatus, base: F!State]]
        /\ agreement'[x].status = to /\ \A y \in F!Agreement : agreement'[y].base = agreement[y].base
        /\ \A y \in F!Agreement \ {x} : agreement'[y] = agreement[y]
    BY <2>1
  <2>3. /\ from \in {"PROPOSED", "ACTIVE"} /\ to \in {"RATIFYING", "SUSPENDED"}
        /\ from \in F!Activated <=> to \in F!Activated
    BY DEF F!Activated
  <2>4. \A y \in F!Agreement :
          /\ F!Status(y)' = agreement'[y].status
          /\ F!Status(y) = "SUPERSEDED" => F!Status(y)' = "SUPERSEDED"
          /\ F!Status(y)' = "ACTIVE" => F!Status(y) = "ACTIVE"
          /\ F!Status(y) \in F!Activated <=> F!Status(y)' \in F!Activated
          /\ F!Status(y) # "NONE" => F!Status(y)' # "NONE"
    <3> SUFFICES ASSUME NEW y \in F!Agreement
                 PROVE  /\ F!Status(y)' = agreement'[y].status
                        /\ F!Status(y) = "SUPERSEDED" => F!Status(y)' = "SUPERSEDED"
                        /\ F!Status(y)' = "ACTIVE" => F!Status(y) = "ACTIVE"
                        /\ F!Status(y) \in F!Activated <=> F!Status(y)' \in F!Activated
                        /\ F!Status(y) # "NONE" => F!Status(y)' # "NONE"
      OBVIOUS
    <3>1. F!Status(y)' = agreement'[y].status /\ F!Status(y) = agreement[y].status
      BY DEF F!Status
    <3>2. CASE y = x
      BY <1>3, <2>2, <2>3, <3>1, <3>2
    <3>3. CASE y # x
      BY <2>2, <3>1, <3>3
    <3> QED BY <3>2, <3>3
  <2>5. Progressed
    BY <1>0, <2>2, <2>4 DEF Progressed
  <2>6. F!Active' \subseteq F!Active
    BY <2>4 DEF F!Active
  <2>7. \A e \in Call \ {c}, y \in F!Agreement : F!At(e, "activate", y) => ActivationCall(e, y)'
    <3> SUFFICES ASSUME NEW e \in Call \ {c}, NEW y \in F!Agreement, F!At(e, "activate", y)
                 PROVE  ActivationCall(e, y)'
      OBVIOUS
    <3>1. ActivationCall(e, y) /\ (Overlap' => Overlap)
      BY <2>5, OverlapBefore DEF FederationInv
    <3>2. call'[e] = call[e]
      BY <1>0, <1>1 DEF F!TypeOK
    <3> QED BY <2>2, <2>4, <2>6, <3>1, <3>2 DEF ActivationCall
  <2>8. /\ call' \in [Call -> F!CallState]
        /\ \A e \in Call, y \in F!Agreement : F!At(e, "activate", y)' => ActivationCall(e, y)'
        /\ Exclusive'
        /\ \A e \in Call : DecisionCall(e)' /\ \A w \in Intent : call'[e].on = {w} => WorkCall(e, w)'
    <3>1. DecisionCall(c)' /\ \A w \in Intent : WorkCall(c, w)'
      BY <1>0, <1>1, PlainCall
    <3> QED BY <1>1, <2>5, <2>7, <3>1, FederationStep
  <2>9. F!TypeOK'
    BY <1>0, <2>2, <2>8 DEF F!TypeOK
  <2>10. ASSUME NEW y \in F!Agreement
         PROVE  AgreementInv(y)'
    <3>1. AgreementInv(y) /\ agreement'[y].base = agreement[y].base
      BY <2>2 DEF FederationInv
    <3>2. \A s \in agreement[y].base :
            F!Status(s[1]) = "SUPERSEDED" => agreement'[s[1]].status = "SUPERSEDED"
      BY <1>0, <2>4, AgreementTypes
    <3> QED BY <2>4, <3>1, <3>2 DEF AgreementInv, F!Status
  <2>11. Serial'
    <3>1. F!Succeeded' = F!Succeeded
      BY <2>4 DEF F!Succeeded
    <3>2. \A y \in F!Succeeded : agreement'[y].base = agreement[y].base
      BY <2>2 DEF F!Succeeded
    <3>3. \A y, z \in F!Succeeded : \A s \in agreement[y].base, t \in agreement[z].base :
            s[1] = t[1] => y = z
      BY DEF FederationInv, Serial
    <3>4. Overlap' => \A y, z \in F!Active : y = z
      BY <2>5, OverlapBefore DEF FederationInv, Serial
    <3> QED BY <2>6, <3>1, <3>2, <3>3, <3>4 DEF Serial
  <2>12. \A w \in Intent : IntentInv(w)'
    BY <2>5, IntentKept DEF FederationInv
  <2> QED BY <2>8, <2>9, <2>10, <2>11, <2>12 DEF FederationInv
<1> QED BY <1>2, <1>3

-----------------------------------------------------------------------------
(* The agreements                                                           *)

\* A fingerprint is of one agreement that is ACTIVE, or of none if none is.
LEMMA FingerprintOf ==
  ASSUME FederationInv, NEW over \in F!Current
  PROVE  /\ F!Fingerprint(over) \in F!State /\ over \subseteq F!Active
         /\ \A s \in F!Fingerprint(over) : s[1] \in over
         /\ Overlap => F!Active \subseteq over
<1>1. /\ over = {} /\ F!Active = {}
      \/ \E x \in F!Active : over = {x}
  BY DEF F!Current
<1>2. CASE over = {} /\ F!Active = {}
  BY <1>2 DEF F!Fingerprint, F!State
<1>3. ASSUME NEW x \in F!Active, over = {x}
      PROVE  /\ F!Fingerprint(over) \in F!State /\ over \subseteq F!Active
             /\ \A s \in F!Fingerprint(over) : s[1] \in over
             /\ Overlap => F!Active \subseteq over
  <2>1. F!Fingerprint(over) = {<<x, changes[x]>>}
    BY <1>3 DEF F!Fingerprint
  <2>2. <<x, changes[x]>> \in F!Agreement \X (0 .. MaxWithdrawals)
    BY DEF FederationInv, F!TypeOK, F!Active
  <2>3. F!Fingerprint(over) \in F!State
    BY <2>1, <2>2 DEF F!State
  <2>4. Overlap => F!Active \subseteq over
    BY <1>3 DEF FederationInv, Serial
  <2> QED BY <1>3, <2>1, <2>3, <2>4
<1> QED BY <1>1, <1>2, <1>3

LEMMA ProposeAgreementKeeps ==
  ASSUME FederationInv, NEW x \in F!Agreement, F!ProposeAgreement(x)
  PROVE  FederationInv'
<1>0. F!TypeOK /\ \A y \in F!Agreement : changes[y] \in Nat
  BY AgreementTypes DEF FederationInv
<1>1. PICK over \in F!Current :
        /\ F!Status(x) = "NONE"
        /\ agreement' = [agreement EXCEPT ![x] = [status |-> "PROPOSED", base |-> F!Fingerprint(over)]]
        /\ UNCHANGED <<ratified, changes, lock, intent, accepted, admitted, recorded, call>>
  BY DEF F!ProposeAgreement, F!workVars
<1>2. /\ agreement' \in [F!Agreement -> [status: F!AgreementStatus, base: F!State]]
      /\ agreement'[x].status = "PROPOSED"
      /\ \A y \in F!Agreement \ {x} : agreement'[y] = agreement[y]
  <2>1. [status |-> "PROPOSED", base |-> F!Fingerprint(over)] \in [status: F!AgreementStatus, base: F!State]
    BY FingerprintOf DEF F!AgreementStatus
  <2>2. agreement \in [F!Agreement -> [status: F!AgreementStatus, base: F!State]]
    BY <1>0 DEF F!TypeOK
  <2> QED BY <1>1, <2>1, <2>2
<1>3. F!TypeOK'
  BY <1>0, <1>1, <1>2 DEF F!TypeOK
<1>4. \A y \in F!Agreement :
        /\ F!Status(y)' = agreement'[y].status
        /\ F!Status(y) # "NONE" => agreement'[y] = agreement[y]
        /\ F!Status(y)' \in F!Activated => F!Status(y) \in F!Activated /\ y # x
  BY <1>1, <1>2 DEF F!Status, F!Activated
<1>5. Progressed
  BY <1>0, <1>1, <1>4 DEF Progressed, F!Activated, F!Status
<1>6. F!Active' = F!Active /\ (Overlap' => Overlap)
  BY <1>1, <1>2, <1>5, OverlapBefore DEF F!Active, F!Status
<1>7. ASSUME NEW y \in F!Agreement
      PROVE  AgreementInv(y)'
  <2>1. CASE y = x
    BY <1>2, <2>1 DEF AgreementInv, F!Status, F!Activated
  <2>2. CASE y # x
    <3>1. AgreementInv(y) /\ agreement'[y] = agreement[y]
      BY <1>2, <2>2 DEF FederationInv
    <3>2. \A s \in agreement[y].base :
            F!Status(s[1]) = "SUPERSEDED" => agreement'[s[1]].status = "SUPERSEDED"
      BY <1>0, <1>4, AgreementTypes DEF F!Status
    <3> QED BY <1>1, <3>1, <3>2 DEF AgreementInv, F!Status
  <2> QED BY <2>1, <2>2
<1>8. Serial'
  <2>1. F!Succeeded' \subseteq F!Succeeded /\ \A y \in F!Succeeded' : agreement'[y] = agreement[y]
    BY <1>2, <1>4 DEF F!Succeeded
  <2>2. \A y, z \in F!Succeeded : \A s \in agreement[y].base, t \in agreement[z].base :
          s[1] = t[1] => y = z
    BY DEF FederationInv, Serial
  <2>3. Overlap' => \A y, z \in F!Active' : y = z
    BY <1>6 DEF FederationInv, Serial
  <2> QED BY <2>1, <2>2, <2>3 DEF Serial
<1>9. \A e \in Call, y \in F!Agreement : F!At(e, "activate", y)' => ActivationCall(e, y)'
  <2> SUFFICES ASSUME NEW e \in Call, NEW y \in F!Agreement, F!At(e, "activate", y)'
               PROVE  ActivationCall(e, y)'
    OBVIOUS
  <2>1. ActivationCall(e, y)
    BY <1>1 DEF FederationInv, F!At
  <2>2. agreement'[y] = agreement[y] /\ F!Status(y)' # "NONE"
    BY <1>4, <2>1 DEF ActivationCall, F!Status
  <2> QED BY <1>1, <1>6, <2>1, <2>2 DEF ActivationCall
<1>10. Exclusive'
  BY <1>1 DEF FederationInv, Exclusive, F!At
<1>11. \A w \in Intent : IntentInv(w)'
  BY <1>1, <1>5, IntentKept DEF FederationInv
<1>12. \A e \in Call : DecisionCall(e)' /\ \A w \in Intent : call'[e].on = {w} => WorkCall(e, w)'
  BY <1>1, <1>5, WaitingWork DEF FederationInv, DecisionCall
<1> QED BY <1>3, <1>7, <1>8, <1>9, <1>10, <1>11, <1>12 DEF FederationInv

LEMMA RatifyAndWithdrawKeep ==
  ASSUME FederationInv, NEW c \in Call, NEW x \in F!Agreement,
         F!StartRatify(c, x) \/ F!SaveRatification(c, x) \/ F!StartWithdraw(c, x) \/ F!SaveChange(c, x)
  PROVE  FederationInv'
<1>0. /\ F!TypeOK /\ F!Idle \in F!CallState /\ lock \subseteq Institution /\ call[c] \in F!CallState
      /\ ratified \in [F!Agreement -> SUBSET Institution] /\ participants[x] \subseteq Institution
      /\ changes \in [F!Agreement -> 0 .. MaxWithdrawals]
      /\ \A y \in F!Agreement : changes[y] \in Nat
  BY FederationCallTypes, AgreementTypes, FederationAssumption DEF FederationInv, F!TypeOK, F!Agreement
<1>9. ASSUME UNCHANGED <<ratified, changes, lock>>
      PROVE  /\ ratified' \in [F!Agreement -> SUBSET Institution] /\ lock' \subseteq Institution
             /\ changes' \in [F!Agreement -> 0 .. MaxWithdrawals]
             /\ \A y \in F!Agreement : ratified[y] \subseteq ratified'[y] /\ changes[y] <= changes'[y]
  BY <1>0, <1>9
<1>1. ASSUME NEW i \in participants[x], F!Status(x) \in {"PROPOSED", "RATIFYING"},
             call' = [call EXCEPT ![c] = [F!Idle EXCEPT !.pc = "ratify", !.on = {x}, !.by = {i},
                                                        !.seen = F!Status(x)]],
             UNCHANGED <<agreement, ratified, changes, lock, intent, accepted, admitted, recorded>>
      PROVE  FederationInv'
  <2> DEFINE k == [F!Idle EXCEPT !.pc = "ratify", !.on = {x}, !.by = {i}, !.seen = F!Status(x)]
  <2>1. F!Status(x) \in F!AgreementStatus /\ i \in Institution
    BY <1>0, <1>1 DEF F!AgreementStatus
  <2>2. k \in F!CallState /\ k.pc = "ratify"
    BY <2>1, RatifyingCall
  <2>3. call' = [call EXCEPT ![c] = k]
    BY <1>1
  <2>4. k.pc \notin {"activate", "current", "admit", "record", "recorded", "decide", "decided"}
    BY <2>2
  <2> HIDE DEF k
  <2> QED BY <1>0, <1>1, <1>9, <2>2, <2>3, <2>4, QuietAgreements
<1>2. ASSUME F!Status(x) \in {"ACTIVE", "SUSPENDED"}, F!Enter(c, "withdraw", x, F!Status(x)),
             UNCHANGED <<agreement, ratified, changes, lock, intent, accepted, admitted, recorded>>
      PROVE  FederationInv'
  <2>1. /\ "withdraw" \in F!PC /\ x \in F!Agreement \cup Intent
        /\ F!Status(x) \in F!AgreementStatus \cup F!IntentStatus
    BY <1>2 DEF F!PC, F!AgreementStatus, F!Activated
  <2>2. PICK k \in F!CallState : call' = [call EXCEPT ![c] = k] /\ k.pc = "withdraw"
    BY <1>0, <1>2, <2>1, EnteredCall
  <2>3. k.pc \notin {"activate", "current", "admit", "record", "recorded", "decide", "decided"}
    BY <2>2
  <2> QED BY <1>0, <1>2, <1>9, <2>2, <2>3, QuietAgreements
<1>3. ASSUME NEW k \in F!CallState, call' = [call EXCEPT ![c] = k],
             k.pc \in {"idle", "ratifying", "suspend"},
             \/ changes' = changes /\ ratified' = [ratified EXCEPT ![x] = @ \cup call[c].by]
             \/ /\ changes[x] < MaxWithdrawals /\ changes' = [changes EXCEPT ![x] = @ + 1]
                /\ ratified' = ratified,
             UNCHANGED <<agreement, lock, intent, accepted, admitted, recorded>>
      PROVE  FederationInv'
  <2>1. ratified' \in [F!Agreement -> SUBSET Institution]
    BY <1>0, <1>3, FederationCallTypes
  <2>2. changes' \in [F!Agreement -> 0 .. MaxWithdrawals]
    BY <1>0, <1>3, FederationAssumption
  <2>3. \A y \in F!Agreement : ratified[y] \subseteq ratified'[y] /\ changes[y] <= changes'[y]
    BY <1>0, <1>3
  <2> QED BY <1>0, <1>3, <2>1, <2>2, <2>3, QuietAgreements
<1>4. CASE F!StartRatify(c, x)
  BY <1>1, <1>4 DEF F!StartRatify, F!agreementVars, F!workVars
<1>5. CASE F!StartWithdraw(c, x)
  BY <1>2, <1>5 DEF F!StartWithdraw, F!agreementVars, F!workVars
<1>6. /\ F!Idle.pc = "idle"
      /\ \A pc \in {"ratifying", "suspend"} :
           [call[c] EXCEPT !.pc = pc] \in F!CallState /\ [call[c] EXCEPT !.pc = pc].pc = pc
  <2>1. F!Idle.pc = "idle"
    BY DEF F!Idle
  <2>2. ASSUME NEW pc \in {"ratifying", "suspend"}
        PROVE  [call[c] EXCEPT !.pc = pc] \in F!CallState /\ [call[c] EXCEPT !.pc = pc].pc = pc
    BY <1>0 DEF F!CallState, F!PC
  <2> QED BY <2>1, <2>2
<1>7. CASE F!SaveRatification(c, x)
  <2>1. /\ ratified' = [ratified EXCEPT ![x] = @ \cup call[c].by]
        /\ UNCHANGED <<agreement, changes, lock, intent, accepted, admitted, recorded>>
        /\ F!GoTo(c, "ratifying") \/ F!Return(c)
    BY <1>7 DEF F!SaveRatification, F!workVars
  <2>2. CASE F!GoTo(c, "ratifying")
    BY <1>0, <1>3, <1>6, <2>1, <2>2 DEF F!GoTo
  <2>3. CASE F!Return(c)
    BY <1>0, <1>3, <1>6, <2>1, <2>3 DEF F!Return
  <2> QED BY <2>1, <2>2, <2>3
<1>8. CASE F!SaveChange(c, x)
  <2>1. /\ changes[x] < MaxWithdrawals /\ changes' = [changes EXCEPT ![x] = @ + 1]
        /\ UNCHANGED <<agreement, ratified, lock, intent, accepted, admitted, recorded>>
        /\ F!GoTo(c, "suspend") \/ F!Return(c)
    BY <1>8 DEF F!SaveChange, F!workVars
  <2>2. CASE F!GoTo(c, "suspend")
    BY <1>0, <1>3, <1>6, <2>1, <2>2 DEF F!GoTo
  <2>3. CASE F!Return(c)
    BY <1>0, <1>3, <1>6, <2>1, <2>3 DEF F!Return
  <2> QED BY <2>1, <2>2, <2>3
<1> QED BY <1>4, <1>5, <1>7, <1>8

LEMMA CompareAndSetKeeps ==
  ASSUME FederationInv, NEW c \in Call, NEW x \in F!Agreement, F!MarkRatifying(c, x) \/ F!Suspend(c, x)
  PROVE  FederationInv'
<1>1. "RATIFYING" \in F!AgreementStatus /\ "SUSPENDED" \in F!AgreementStatus
  BY DEF F!AgreementStatus, F!Activated
<1>2. CASE F!MarkRatifying(c, x)
  BY <1>1, <1>2, CompareAndSetStep DEF F!MarkRatifying, F!workVars
<1>3. CASE F!Suspend(c, x)
  BY <1>1, <1>3, CompareAndSetStep DEF F!Suspend, F!workVars
<1> QED BY <1>2, <1>3

LEMMA RollbackAndDeathKeep ==
  ASSUME FederationInv, NEW c \in Call, F!Crash(c) \/ \E x \in F!Agreement : F!Rollback(c, x)
  PROVE  FederationInv'
<1>0. /\ F!TypeOK /\ F!Idle \in F!CallState /\ F!Idle.pc = "idle" /\ lock \subseteq Institution
      /\ ratified \in [F!Agreement -> SUBSET Institution]
      /\ changes \in [F!Agreement -> 0 .. MaxWithdrawals]
      /\ \A y \in F!Agreement : changes[y] \in Nat
  BY FederationCallTypes, AgreementTypes DEF FederationInv, F!TypeOK, F!Idle
<1>1. /\ UNCHANGED <<agreement, ratified, changes, intent, accepted, admitted, recorded>>
      /\ call' = [call EXCEPT ![c] = F!Idle]
      /\ lock' \subseteq lock
      /\ lock' = lock \/ \E x \in F!Agreement : F!At(c, "activate", x) /\ lock' = lock \ participants[x]
  BY DEF F!Crash, F!Rollback, F!Return, F!agreementVars, F!workVars
<1>2. \A e \in Call \ {c}, y \in F!Agreement :
        F!At(e, "activate", y) => participants[y] \cap lock \subseteq lock'
  BY <1>1 DEF FederationInv, Exclusive
<1>3. /\ ratified' \in [F!Agreement -> SUBSET Institution]
      /\ changes' \in [F!Agreement -> 0 .. MaxWithdrawals]
      /\ \A y \in F!Agreement : ratified[y] \subseteq ratified'[y] /\ changes[y] <= changes'[y]
      /\ lock' \subseteq Institution
  BY <1>0, <1>1
<1> QED BY <1>0, <1>1, <1>2, <1>3, QuietAgreements

\* Its participants are not locked: no activation that is under way has one of them.
LEMMA BeginActivationLocks ==
  ASSUME FederationInv, NEW c \in Call, NEW x \in F!Agreement, F!BeginActivation(c, x)
  PROVE  FederationInv'
<1>0. /\ F!TypeOK /\ lock \subseteq Institution /\ participants[x] \subseteq Institution
      /\ \A y \in F!Agreement : changes[y] \in Nat
  BY AgreementTypes, FederationAssumption DEF FederationInv, F!TypeOK, F!Agreement
<1>1. /\ participants[x] \cap lock = {} /\ F!Status(x) \in {"PROPOSED", "RATIFYING"}
      /\ participants[x] \subseteq ratified[x]
      /\ lock' = lock \cup participants[x]
      /\ UNCHANGED <<agreement, ratified, changes, intent, accepted, admitted, recorded>>
  BY DEF F!BeginActivation, F!MayLock, F!workVars
<1>2. PICK over \in F!Current, seen \in F!AgreementStatus :
        /\ F!Fingerprint(over) = agreement[x].base /\ seen = F!Status(x)
        /\ call' = [call EXCEPT ![c] = [F!Idle EXCEPT !.pc = "activate", !.on = {x}, !.seen = seen,
                                                      !.over = over]]
  BY <1>1 DEF F!BeginActivation, F!AgreementStatus
<1>2a. over \subseteq F!Agreement
  BY FingerprintOf DEF F!Active
<1> DEFINE at == {x}
           k == [F!Idle EXCEPT !.pc = "activate", !.on = at, !.seen = seen, !.over = over]
<1>3. /\ k \in F!CallState /\ k.pc = "activate" /\ k.on = {x}
      /\ k.seen = F!Status(x) /\ k.over = over /\ call' = [call EXCEPT ![c] = k]
  <2>1. call' = [call EXCEPT ![c] = k]
    BY <1>2
  <2>2. /\ at \in {{}} \cup {{y} : y \in F!Agreement \cup Intent} /\ F!Idle \in F!CallState
        /\ "activate" \in F!PC /\ seen \in F!AgreementStatus \cup F!IntentStatus
    BY <1>0, FederationCallTypes DEF F!PC
  <2> HIDE DEF at
  <2>3. k \in F!CallState /\ k.pc = "activate" /\ k.on = at /\ k.seen = seen /\ k.over = over
    BY <1>2a, <2>2 DEF F!CallState
  <2> HIDE DEF k
  <2> QED BY <1>2, <2>1, <2>3 DEF at
<1> HIDE DEF k, at
<1>4. call'[c] = k
  BY <1>0, <1>3 DEF F!TypeOK
<1>5. \A e \in Call, y \in F!Agreement :
        F!At(e, "activate", y) => participants[x] \cap participants[y] = {}
  BY <1>1 DEF FederationInv, ActivationCall
<1>6. F!Active' = F!Active /\ F!Status(x)' = F!Status(x) /\ (Overlap' <=> Overlap)
  BY <1>1, AgreementsKept
<1>7. ActivationCall(c, x)'
  <2>1. /\ \A s \in agreement[x].base : s[1] \in over
        /\ Overlap => F!Active \subseteq over
    BY <1>2, FingerprintOf
  <2>2. /\ F!Status(x)' # "NONE" /\ call'[c].seen \in {"PROPOSED", "RATIFYING"}
        /\ Overlap' => F!Active' \subseteq call'[c].over
    BY <1>1, <1>3, <1>4, <1>6, <2>1
  <2>3. \A s \in agreement'[x].base : s[1] \in call'[c].over
    BY <1>1, <1>3, <1>4, <2>1
  <2>4. participants[x] \subseteq lock' /\ participants[x] \subseteq ratified'[x]
    BY <1>1
  <2> QED BY <2>2, <2>3, <2>4 DEF ActivationCall
<1>8. Progressed
  BY <1>0, <1>1 DEF Progressed, F!Status
<1>9. DecisionCall(c)' /\ \A w \in Intent : WorkCall(c, w)'
  BY <1>0, <1>1, <1>3, PlainCall
<1>10. /\ call' \in [Call -> F!CallState]
       /\ \A e \in Call, y \in F!Agreement : F!At(e, "activate", y)' => ActivationCall(e, y)'
       /\ Exclusive'
       /\ \A e \in Call : DecisionCall(e)' /\ \A w \in Intent : call'[e].on = {w} => WorkCall(e, w)'
  <2>1. \A y \in F!Agreement : k.on = {y} => y = x
    BY <1>3
  <2>2. \A y \in F!Agreement : k.on = {y} =>
          /\ ActivationCall(c, y)'
          /\ \A e \in Call \ {c}, z \in F!Agreement :
               F!At(e, "activate", z) => participants[y] \cap participants[z] = {}
    BY <1>5, <1>7, <2>1
  <2>3. \A e \in Call \ {c}, y \in F!Agreement : F!At(e, "activate", y) => ActivationCall(e, y)'
    <3> SUFFICES ASSUME NEW e \in Call \ {c}, NEW y \in F!Agreement, F!At(e, "activate", y)
                 PROVE  ActivationCall(e, y)'
      OBVIOUS
    <3>1. ActivationCall(e, y) /\ call'[e] = call[e]
      BY <1>0, <1>3 DEF FederationInv, F!TypeOK
    <3> QED BY <1>1, <1>6, <3>1 DEF ActivationCall, F!Status
  <2>4. \A w \in Intent : k.on = {w} => WorkCall(c, w)'
    BY <1>9
  <2> QED BY <1>3, <1>8, <1>9, <2>2, <2>3, <2>4, FederationStep
<1>11. F!TypeOK'
  BY <1>0, <1>1, <1>10 DEF F!TypeOK
<1>12. \A y \in F!Agreement : AgreementInv(y)'
  BY <1>1 DEF FederationInv, AgreementInv, F!Status
<1>13. Serial'
  BY <1>1, AgreementsKept DEF FederationInv
<1>14. \A w \in Intent : IntentInv(w)'
  BY <1>1, <1>8, IntentKept DEF FederationInv
<1> QED BY <1>10, <1>11, <1>12, <1>13, <1>14 DEF FederationInv

\* What was ACTIVE when the locks were taken is what is superseded.
LEMMA CommitActivates ==
  ASSUME FederationInv, NEW c \in Call, NEW x \in F!Agreement, F!Commit(c, x)
  PROVE  FederationInv'
<1> DEFINE over == call[c].over
<1>0. /\ F!TypeOK /\ lock \subseteq Institution /\ \A y \in F!Agreement : changes[y] \in Nat
      /\ agreement \in [F!Agreement -> [status: F!AgreementStatus, base: F!State]]
  BY AgreementTypes DEF FederationInv, F!TypeOK
<1>1. /\ F!At(c, "activate", x) /\ F!Status(x) = call[c].seen /\ over \subseteq F!Active
      /\ agreement' = [y \in F!Agreement |->
           IF y = x THEN [agreement[y] EXCEPT !.status = "ACTIVE"]
           ELSE IF y \in over THEN [agreement[y] EXCEPT !.status = "SUPERSEDED"]
           ELSE agreement[y]]
      /\ lock' = lock \ participants[x] /\ call' = [call EXCEPT ![c] = F!Idle]
      /\ UNCHANGED <<ratified, changes, intent, accepted, admitted, recorded>>
  BY DEF F!Commit, F!Return, F!workVars
<1>2. ActivationCall(c, x)
  BY <1>1 DEF FederationInv
<1>3. /\ F!Status(x) \in {"PROPOSED", "RATIFYING"} /\ x \notin over
      /\ \A s \in agreement[x].base : s[1] \in over
      /\ Overlap => over = F!Active
  BY <1>1, <1>2 DEF ActivationCall, F!Active
<1>4. \A y \in F!Agreement :
        /\ agreement'[y].base = agreement[y].base /\ F!Status(y)' = agreement'[y].status
        /\ y = x => F!Status(y)' = "ACTIVE"
        /\ y \in over => F!Status(y)' = "SUPERSEDED"
        /\ y # x /\ y \notin over => F!Status(y)' = F!Status(y)
        /\ agreement'[y] \in [status: F!AgreementStatus, base: F!State]
  <2> SUFFICES ASSUME NEW y \in F!Agreement
               PROVE  /\ agreement'[y].base = agreement[y].base /\ F!Status(y)' = agreement'[y].status
                      /\ y = x => F!Status(y)' = "ACTIVE"
                      /\ y \in over => F!Status(y)' = "SUPERSEDED"
                      /\ y # x /\ y \notin over => F!Status(y)' = F!Status(y)
                      /\ agreement'[y] \in [status: F!AgreementStatus, base: F!State]
    OBVIOUS
  <2>1. agreement[y] \in [status: F!AgreementStatus, base: F!State]
    BY <1>0
  <2>2. "ACTIVE" \in F!AgreementStatus /\ "SUPERSEDED" \in F!AgreementStatus
    BY DEF F!AgreementStatus, F!Activated
  <2>3. F!Status(y)' = agreement'[y].status /\ F!Status(y) = agreement[y].status
    BY DEF F!Status
  <2> HIDE DEF over
  <2>4. CASE y = x
    BY <1>1, <1>3, <2>1, <2>2, <2>3, <2>4
  <2>5. CASE y # x /\ y \in over
    BY <1>1, <2>1, <2>2, <2>3, <2>5
  <2>6. CASE y # x /\ y \notin over
    BY <1>1, <2>1, <2>3, <2>6
  <2> QED BY <2>4, <2>5, <2>6
<1>5. \A y \in over : y \in F!Agreement /\ F!Status(y) = "ACTIVE"
  BY <1>1 DEF F!Active
<1> HIDE DEF over
<1>6. Progressed
  <2>1. \A y \in F!Agreement :
          /\ F!Status(y) # "NONE" => F!Status(y)' # "NONE"
          /\ F!Status(y) \in F!Activated => F!Status(y)' \in F!Activated
    BY <1>3, <1>4, <1>5 DEF F!Activated
  <2>2. \A y \in F!Agreement :
          /\ F!Status(y) # "NONE" => agreement'[y].status # "NONE" /\ agreement'[y].base = agreement[y].base
          /\ F!Status(y) \in F!Activated => agreement'[y].status \in F!Activated
    BY <1>4, <2>1
  <2> QED BY <1>0, <1>1, <2>2 DEF Progressed
<1>7. \A e \in Call \ {c}, y \in F!Agreement : F!At(e, "activate", y) => ActivationCall(e, y)'
  <2> SUFFICES ASSUME NEW e \in Call \ {c}, NEW y \in F!Agreement, F!At(e, "activate", y)
               PROVE  ActivationCall(e, y)'
    OBVIOUS
  <2>1. ActivationCall(e, y) /\ call'[e] = call[e]
    BY <1>0, <1>1 DEF FederationInv, F!TypeOK
  <2>2. participants[x] \cap participants[y] = {}
    BY <1>1 DEF FederationInv, Exclusive
  <2>3. x \in F!Proposed /\ y \in F!Proposed
    BY <1>3, <2>1 DEF F!Proposed, ActivationCall
  <2>4. ~Overlap'
    BY <1>6, <2>2, <2>3, OverlapBefore DEF Overlap
  <2>5. F!Status(y)' # "NONE" /\ agreement'[y].base = agreement[y].base
    BY <1>4, <1>6, <2>1 DEF ActivationCall, Progressed
  <2> QED BY <1>1, <2>1, <2>2, <2>4, <2>5 DEF ActivationCall
<1>8. F!Idle \in F!CallState /\ F!Idle.pc = "idle"
  BY <1>0, FederationCallTypes DEF F!Idle
<1>9. /\ call' \in [Call -> F!CallState]
      /\ \A e \in Call, y \in F!Agreement : F!At(e, "activate", y)' => ActivationCall(e, y)'
      /\ Exclusive'
      /\ \A e \in Call : DecisionCall(e)' /\ \A w \in Intent : call'[e].on = {w} => WorkCall(e, w)'
  <2>1. DecisionCall(c)' /\ \A w \in Intent : WorkCall(c, w)'
    BY <1>0, <1>1, <1>8, PlainCall
  <2> QED BY <1>1, <1>6, <1>7, <1>8, <2>1, FederationStep
<1>10. F!TypeOK'
  <2>1. agreement' \in [F!Agreement -> [status: F!AgreementStatus, base: F!State]]
    BY <1>1, <1>4
  <2> QED BY <1>0, <1>1, <1>9, <2>1 DEF F!TypeOK
<1>11. \A y \in F!Agreement : F!Status(y) = "SUPERSEDED" => F!Status(y)' = "SUPERSEDED"
  BY <1>3, <1>4, <1>5
<1>12. \A y \in F!Agreement :
         y # x /\ F!Status(y)' \in F!Activated => F!Status(y) \in F!Activated
  BY <1>4, <1>5 DEF F!Activated
<1>13. ASSUME NEW y \in F!Agreement
       PROVE  AgreementInv(y)'
  <2>1. AgreementInv(y) /\ \A s \in agreement[y].base : s[1] \in F!Agreement
    BY <1>0, AgreementTypes DEF FederationInv
  <2>2. agreement'[y].base = agreement[y].base /\ \A z \in F!Agreement : F!Status(z)' = agreement'[z].status
    BY <1>4
  <2>3. CASE y = x
    <3>1. participants[y] \subseteq ratified'[y]
      BY <1>1, <1>2, <2>3 DEF ActivationCall
    <3>2. \A s \in agreement[y].base : agreement'[s[1]].status = "SUPERSEDED"
      BY <1>3, <1>4, <2>1, <2>3
    <3> QED BY <2>2, <3>1, <3>2 DEF AgreementInv, F!Status
  <2>4. CASE y # x
    <3>1. F!Status(y)' \in F!Activated =>
            /\ participants[y] \subseteq ratified'[y]
            /\ \A s \in agreement[y].base : F!Status(s[1]) = "SUPERSEDED"
      BY <1>1, <1>12, <2>1, <2>4 DEF AgreementInv
    <3>2. F!Status(y)' \in F!Activated =>
            \A s \in agreement[y].base : agreement'[s[1]].status = "SUPERSEDED"
      BY <1>4, <1>11, <2>1, <3>1
    <3> QED BY <2>2, <3>1, <3>2 DEF AgreementInv, F!Status
  <2> QED BY <2>3, <2>4
<1>14. Serial'
  <2>1. ASSUME Overlap'
        PROVE  \A y, z \in F!Active' : y = z
    <3>1. \A y \in F!Agreement : y \in over <=> F!Status(y) = "ACTIVE"
      BY <1>3, <1>6, <2>1, OverlapBefore DEF F!Active
    <3>2. \A y \in F!Agreement : F!Status(y)' = "ACTIVE" => y = x
      BY <1>4, <3>1
    <3> QED BY <3>2 DEF F!Active
  <2>2. \A y \in F!Succeeded' :
          /\ y \in F!Agreement /\ agreement'[y].base = agreement[y].base
          /\ y # x => y \in F!Succeeded
    BY <1>4, <1>12 DEF F!Succeeded
  <2>3. ASSUME NEW y \in F!Succeeded, NEW s \in agreement[y].base, NEW t \in agreement[x].base
        PROVE  s[1] # t[1]
    <3>1. F!Status(s[1]) = "SUPERSEDED"
      BY DEF FederationInv, AgreementInv, F!Succeeded
    <3>2. F!Status(t[1]) = "ACTIVE"
      BY <1>3, <1>5
    <3> QED BY <3>1, <3>2
  <2>4. \A y, z \in F!Succeeded : \A s \in agreement[y].base, t \in agreement[z].base :
          s[1] = t[1] => y = z
    BY DEF FederationInv, Serial
  <2>5. ASSUME NEW y \in F!Succeeded', NEW z \in F!Succeeded',
               NEW s \in agreement'[y].base, NEW t \in agreement'[z].base, s[1] = t[1]
        PROVE  y = z
    <3>1. s \in agreement[y].base /\ t \in agreement[z].base
      BY <2>2
    <3>2. CASE y = x
      BY <2>2, <2>3, <2>5, <3>1, <3>2
    <3>3. CASE z = x
      BY <2>2, <2>3, <2>5, <3>1, <3>3
    <3>4. CASE y # x /\ z # x
      BY <2>2, <2>4, <2>5, <3>1, <3>4
    <3> QED BY <3>2, <3>3, <3>4
  <2> QED BY <2>1, <2>5 DEF Serial
<1>15. \A w \in Intent : IntentInv(w)'
  BY <1>1, <1>6, IntentKept DEF FederationInv
<1> QED BY <1>9, <1>10, <1>13, <1>14, <1>15 DEF FederationInv

-----------------------------------------------------------------------------
(* Work                                                                     *)

LEMMA IntentTypes ==
  ASSUME F!TypeOK, NEW v \in Intent
  PROVE  /\ intent[v] \in [status: F!IntentStatus, under: {{}} \cup {{x} : x \in F!Agreement}]
         /\ intent[v].status \in F!IntentStatus
         /\ accepted[v] \in {"NONE", "ACCEPTED", "REJECTED"}
<1>1. intent[v] \in [status: F!IntentStatus, under: {{}} \cup {{x} : x \in F!Agreement}]
  BY DEF F!TypeOK
<1> QED BY <1>1 DEF F!TypeOK

\* A step on one intent, which leaves the agreements and the other intents.
LEMMA WorkChange ==
  ASSUME FederationInv, NEW c \in Call, NEW k \in F!CallState, call' = [call EXCEPT ![c] = k],
         k.pc # "activate", UNCHANGED <<agreement, ratified, changes, lock>>,
         NEW v \in Intent,
         NEW to \in F!IntentStatus, intent' = [intent EXCEPT ![v].status = to],
         intent[v].status # "NONE" => to # "NONE",
         NEW decision \in {"NONE", "ACCEPTED", "REJECTED"}, accepted' = [accepted EXCEPT ![v] = decision],
         accepted[v] = "ACCEPTED" => decision = "ACCEPTED",
         admitted' \in {admitted, admitted \cup {v}}, recorded' \in {recorded, recorded \cup {v}},
         to # "NONE" => intent[v].status # "NONE",
         v \in admitted' => decision = "ACCEPTED" /\ to # "NONE",
         v \in recorded' => v \in admitted',
         to = "MATERIALIZED" => v \in recorded',
         DecisionCall(c)', \A w \in Intent : k.on = {w} => WorkCall(c, w)'
  PROVE  FederationInv'
<1>0. /\ F!TypeOK /\ \A x \in F!Agreement : changes[x] \in Nat
      /\ intent \in [Intent -> [status: F!IntentStatus, under: {{}} \cup {{x} : x \in F!Agreement}]]
      /\ accepted \in [Intent -> {"NONE", "ACCEPTED", "REJECTED"}]
  BY AgreementTypes DEF FederationInv, F!TypeOK
<1>1. /\ intent' \in [Intent -> [status: F!IntentStatus, under: {{}} \cup {{x} : x \in F!Agreement}]]
      /\ intent'[v].status = to /\ \A w \in Intent : intent'[w].under = intent[w].under
      /\ \A w \in Intent \ {v} : intent'[w] = intent[w]
  BY <1>0
<1>2. /\ accepted' \in [Intent -> {"NONE", "ACCEPTED", "REJECTED"}]
      /\ accepted'[v] = decision /\ \A w \in Intent \ {v} : accepted'[w] = accepted[w]
  BY <1>0
<1>3. Progressed
  <2>1. \A w \in Intent : /\ accepted[w] = "ACCEPTED" => accepted'[w] = "ACCEPTED"
                          /\ intent[w].status # "NONE" => intent'[w].status # "NONE"
    BY <1>1, <1>2
  <2>2. admitted \subseteq admitted' /\ recorded \subseteq recorded'
    OBVIOUS
  <2> QED BY <1>0, <1>1, <2>1, <2>2 DEF Progressed, F!Status
<1>4. \A e \in Call \ {c}, x \in F!Agreement : F!At(e, "activate", x) => ActivationCall(e, x)'
  <2> SUFFICES ASSUME NEW e \in Call \ {c}, NEW x \in F!Agreement, F!At(e, "activate", x)
               PROVE  ActivationCall(e, x)'
    OBVIOUS
  <2>1. ActivationCall(e, x) /\ call'[e] = call[e]
    BY <1>0 DEF FederationInv, F!TypeOK
  <2>2. F!Active' = F!Active /\ F!Status(x)' = F!Status(x) /\ (Overlap' <=> Overlap)
    BY AgreementsKept
  <2> QED BY <2>1, <2>2 DEF ActivationCall
<1>5. /\ call' \in [Call -> F!CallState]
      /\ \A e \in Call, x \in F!Agreement : F!At(e, "activate", x)' => ActivationCall(e, x)'
      /\ Exclusive'
      /\ \A e \in Call : DecisionCall(e)' /\ \A w \in Intent : call'[e].on = {w} => WorkCall(e, w)'
  BY <1>3, <1>4, FederationStep
<1>6. F!TypeOK'
  <2>1. admitted' \subseteq Intent /\ recorded' \subseteq Intent
    BY <1>0 DEF F!TypeOK
  <2> QED BY <1>0, <1>1, <1>2, <1>5, <2>1 DEF F!TypeOK
<1>7. \A x \in F!Agreement : AgreementInv(x)'
  BY DEF FederationInv, AgreementInv, F!Status
<1>8. Serial'
  BY AgreementsKept DEF FederationInv
<1>9. ASSUME NEW w \in Intent
      PROVE  IntentInv(w)'
  <2>1. IntentInv(w)
    BY DEF FederationInv
  <2>2. CASE w # v
    BY <1>1, <1>2, <1>3, <2>1, <2>2, IntentKept
  <2>3. CASE w = v
    <3>1. F!Under(v)' = F!Under(v) /\ intent'[v].under = intent[v].under
      BY <1>1, UnderKept
    <3>2. (F!Status(F!Under(v)))' = F!Status(F!Under(v))
      BY <3>1 DEF F!Status
    <3>3. to # "NONE" => /\ F!Under(v) \in F!Agreement /\ F!Status(F!Under(v)) \in F!Activated
                         /\ intent[v].under = {F!Under(v)}
      BY <2>1, <2>3 DEF IntentInv
    <3> QED BY <1>1, <1>2, <2>3, <3>1, <3>2, <3>3 DEF IntentInv
  <2> QED BY <2>2, <2>3
<1> QED BY <1>5, <1>6, <1>7, <1>8, <1>9 DEF FederationInv

\* What is written over itself.
LEMMA IntentSame ==
  ASSUME F!TypeOK, NEW v \in Intent
  PROVE  /\ intent = [intent EXCEPT ![v].status = intent[v].status]
         /\ accepted = [accepted EXCEPT ![v] = accepted[v]]
<1>1. /\ intent \in [Intent -> [status: F!IntentStatus, under: {{}} \cup {{x} : x \in F!Agreement}]]
      /\ accepted \in [Intent -> {"NONE", "ACCEPTED", "REJECTED"}]
  BY DEF F!TypeOK
<1>2. intent = [intent EXCEPT ![v] = intent[v]]
  BY <1>1
<1>3. intent[v] = [intent[v] EXCEPT !.status = intent[v].status]
  BY <1>1
<1>4. intent = [intent EXCEPT ![v].status = intent[v].status]
  BY <1>1, <1>2, <1>3
<1> QED BY <1>1, <1>4

\* A call that goes on with its intent.
LEMMA GoneOn ==
  ASSUME F!TypeOK, NEW c \in Call, NEW pc \in F!PC, F!GoTo(c, pc)
  PROVE  \E k \in F!CallState :
           /\ call' = [call EXCEPT ![c] = k] /\ call'[c] = k
           /\ k.pc = pc /\ k.on = call[c].on /\ k.seen = call[c].seen /\ k.doomed = call[c].doomed
<1> DEFINE k == [call[c] EXCEPT !.pc = pc]
<1>1. call[c] \in F!CallState /\ k \in F!CallState /\ call \in [Call -> F!CallState]
  BY FederationCallTypes DEF F!TypeOK
<1>2. call' = [call EXCEPT ![c] = k] /\ call'[c] = k
  BY <1>1 DEF F!GoTo
<1>3. k.pc = pc /\ k.on = call[c].on /\ k.seen = call[c].seen /\ k.doomed = call[c].doomed
  BY <1>1 DEF F!CallState
<1> HIDE DEF k
<1> QED BY <1>1, <1>2, <1>3

LEMMA Ended ==
  ASSUME F!TypeOK, NEW c \in Call, F!Return(c)
  PROVE  /\ F!Idle \in F!CallState /\ call' = [call EXCEPT ![c] = F!Idle] /\ F!Idle.pc = "idle"
         /\ DecisionCall(c)' /\ \A w \in Intent : WorkCall(c, w)'
<1>1. F!Idle \in F!CallState /\ call' = [call EXCEPT ![c] = F!Idle] /\ F!Idle.pc = "idle"
  BY FederationCallTypes DEF F!Return, F!Idle
<1> QED BY <1>1, PlainCall

\* A step that only reads.
LEMMA WorkRead ==
  ASSUME FederationInv, NEW c \in Call, NEW k \in F!CallState, call' = [call EXCEPT ![c] = k],
         k.pc # "activate",
         UNCHANGED <<agreement, ratified, changes, lock, intent, accepted, admitted, recorded>>,
         NEW v \in Intent, DecisionCall(c)', \A w \in Intent : k.on = {w} => WorkCall(c, w)'
  PROVE  FederationInv'
<1>1. /\ F!TypeOK /\ IntentInv(v)
      /\ intent[v].status \in F!IntentStatus /\ accepted[v] \in {"NONE", "ACCEPTED", "REJECTED"}
  BY IntentTypes DEF FederationInv
<1>2. PICK to \in F!IntentStatus, decision \in {"NONE", "ACCEPTED", "REJECTED"} :
        to = intent[v].status /\ decision = accepted[v]
  BY <1>1
<1>3. intent' = [intent EXCEPT ![v].status = to] /\ accepted' = [accepted EXCEPT ![v] = decision]
  BY <1>1, <1>2, IntentSame
<1>4. /\ v \in admitted' => decision = "ACCEPTED" /\ to # "NONE"
      /\ v \in recorded' => v \in admitted'
      /\ to = "MATERIALIZED" => v \in recorded'
  BY <1>1, <1>2 DEF IntentInv
<1> QED BY <1>2, <1>3, <1>4, WorkChange

LEMMA StartDecideKeeps ==
  ASSUME FederationInv, NEW c \in Call, NEW v \in Intent, F!StartDecide(c, v)
  PROVE  FederationInv'
<1>0. F!TypeOK
  BY DEF FederationInv
<1>1. PICK decision \in {"ACCEPTED", "REJECTED"} : F!Enter(c, "decide", v, decision)
  BY DEF F!StartDecide
<1>2. UNCHANGED <<agreement, ratified, changes, lock, intent, accepted, admitted, recorded>>
  BY DEF F!StartDecide, F!agreementVars, F!workVars
<1>3. "decide" \in F!PC /\ decision \in F!AgreementStatus \cup F!IntentStatus /\ v \in F!Agreement \cup Intent
  BY DEF F!PC, F!IntentStatus
<1>4. PICK k \in F!CallState : call' = [call EXCEPT ![c] = k] /\ k.pc = "decide" /\ k.seen = decision
  BY <1>0, <1>1, <1>3, EnteredCall
<1>5. call'[c] = k
  BY <1>0, <1>4 DEF F!TypeOK
<1>6. DecisionCall(c)' /\ \A w \in Intent : WorkCall(c, w)'
  BY <1>4, <1>5 DEF DecisionCall, WorkCall
<1> QED BY <1>2, <1>4, <1>6, WorkRead

LEMMA SaveDecisionKeeps ==
  ASSUME FederationInv, NEW c \in Call, NEW v \in Intent, F!SaveDecision(c, v)
  PROVE  FederationInv'
<1>0. /\ F!TypeOK /\ IntentInv(v) /\ DecisionCall(c)
      /\ intent[v].status \in F!IntentStatus /\ accepted[v] \in {"NONE", "ACCEPTED", "REJECTED"}
  BY IntentTypes DEF FederationInv
<1>1. /\ call[c].pc = "decide" /\ F!GoTo(c, "decided")
      /\ accepted' = [accepted EXCEPT ![v] = IF @ = "NONE" THEN call[c].seen ELSE @]
      /\ UNCHANGED <<agreement, ratified, changes, lock, intent, admitted, recorded>>
  BY DEF F!SaveDecision, F!At, F!agreementVars
<1>2. PICK decision \in {"NONE", "ACCEPTED", "REJECTED"}, to \in F!IntentStatus :
        /\ accepted' = [accepted EXCEPT ![v] = decision] /\ to = intent[v].status
        /\ accepted[v] = "ACCEPTED" => decision = "ACCEPTED"
  <2>1. call[c].seen \in {"ACCEPTED", "REJECTED"}
    BY <1>0, <1>1 DEF DecisionCall
  <2>2. PICK decision \in {"NONE", "ACCEPTED", "REJECTED"} :
          decision = IF accepted[v] = "NONE" THEN call[c].seen ELSE accepted[v]
    BY <1>0, <2>1
  <2>3. accepted' = [accepted EXCEPT ![v] = decision]
    BY <1>1, <2>2
  <2> QED BY <1>0, <2>2, <2>3
<1>3. intent' = [intent EXCEPT ![v].status = to]
  BY <1>0, <1>1, <1>2, IntentSame
<1>4. /\ v \in admitted' => decision = "ACCEPTED" /\ to # "NONE"
      /\ v \in recorded' => v \in admitted'
      /\ to = "MATERIALIZED" => v \in recorded'
  BY <1>0, <1>1, <1>2 DEF IntentInv
<1>5. PICK k \in F!CallState :
        /\ call' = [call EXCEPT ![c] = k] /\ call'[c] = k /\ k.pc = "decided" /\ k.seen = call[c].seen
  <2>1. "decided" \in F!PC
    BY DEF F!PC
  <2> QED BY <1>0, <1>1, <2>1, GoneOn
<1>6. DecisionCall(c)' /\ \A w \in Intent : WorkCall(c, w)'
  BY <1>0, <1>1, <1>5 DEF DecisionCall, WorkCall
<1>7. admitted' \in {admitted, admitted \cup {v}} /\ recorded' \in {recorded, recorded \cup {v}}
  BY <1>1
<1> QED BY <1>1, <1>2, <1>3, <1>4, <1>5, <1>6, <1>7, WorkChange

\* The intent of work that is marked: from one status to the next, if it is there.
LEMMA MarkKeeps ==
  ASSUME FederationInv, NEW c \in Call, NEW v \in Intent, F!Return(c),
         NEW from, NEW to \in F!IntentStatus, from # "NONE", to # "NONE",
         from # "MATERIALIZED", to = "MATERIALIZED" => v \in recorded,
         intent' = IF intent[v].status = from THEN [intent EXCEPT ![v].status = to] ELSE intent,
         UNCHANGED <<agreement, ratified, changes, lock, accepted, admitted, recorded>>
  PROVE  FederationInv'
<1>0. /\ F!TypeOK /\ IntentInv(v) /\ accepted[v] \in {"NONE", "ACCEPTED", "REJECTED"}
  BY IntentTypes DEF FederationInv
<1>1. /\ F!Idle \in F!CallState /\ call' = [call EXCEPT ![c] = F!Idle] /\ F!Idle.pc = "idle"
      /\ DecisionCall(c)' /\ \A w \in Intent : WorkCall(c, w)'
  BY <1>0, Ended
<1>2. CASE intent[v].status # from
  BY <1>1, <1>2, WorkRead
<1>3. CASE intent[v].status = from
  <2>1. PICK decision \in {"NONE", "ACCEPTED", "REJECTED"} : decision = accepted[v]
    BY <1>0
  <2>2. accepted' = [accepted EXCEPT ![v] = decision] /\ intent' = [intent EXCEPT ![v].status = to]
    BY <1>0, <1>3, <2>1, IntentSame
  <2>3. /\ v \in admitted' => decision = "ACCEPTED" /\ to # "NONE"
        /\ v \in recorded' => v \in admitted'
        /\ to = "MATERIALIZED" => v \in recorded'
    BY <1>0, <2>1 DEF IntentInv
  <2>4. admitted' \in {admitted, admitted \cup {v}} /\ recorded' \in {recorded, recorded \cup {v}}
    OBVIOUS
  <2> QED BY <1>1, <1>3, <2>1, <2>2, <2>3, <2>4, WorkChange
<1> QED BY <1>2, <1>3

LEMMA MarkDecidedAndMaterializedKeep ==
  ASSUME FederationInv, NEW c \in Call, NEW v \in Intent, F!MarkDecided(c, v) \/ F!MarkMaterialized(c, v)
  PROVE  FederationInv'
<1>0. F!TypeOK /\ DecisionCall(c) /\ (call[c].on = {v} => WorkCall(c, v))
  BY DEF FederationInv
<1>1. CASE F!MarkDecided(c, v)
  <2>1. PICK to \in {"ACCEPTED", "REJECTED"} : to = call[c].seen
    BY <1>0, <1>1 DEF F!MarkDecided, F!At, DecisionCall
  <2>2. to \in F!IntentStatus
    BY DEF F!IntentStatus
  <2>3. intent' = IF intent[v].status = "PROPOSED" THEN [intent EXCEPT ![v].status = to] ELSE intent
    BY <1>1, <2>1 DEF F!MarkDecided
  <2>4. F!Return(c) /\ UNCHANGED <<agreement, ratified, changes, lock, accepted, admitted, recorded>>
    BY <1>1 DEF F!MarkDecided, F!agreementVars
  <2> QED BY <2>2, <2>3, <2>4, MarkKeeps
<1>2. CASE F!MarkMaterialized(c, v)
  <2>1. v \in recorded
    BY <1>0, <1>2 DEF F!MarkMaterialized, F!At, WorkCall
  <2>2. "MATERIALIZED" \in F!IntentStatus
    BY DEF F!IntentStatus
  <2>3. /\ F!Return(c) /\ UNCHANGED <<agreement, ratified, changes, lock, accepted, admitted, recorded>>
        /\ intent' = IF intent[v].status = "ACCEPTED"
                     THEN [intent EXCEPT ![v].status = "MATERIALIZED"] ELSE intent
    BY <1>2 DEF F!MarkMaterialized, F!agreementVars
  <2> QED BY <2>1, <2>2, <2>3, MarkKeeps
<1> QED BY <1>1, <1>2

\* What was withdrawn when the materialization was asked for is withdrawn when it is looked at.
LEMMA StartMaterializeKeeps ==
  ASSUME FederationInv, NEW c \in Call, NEW v \in Intent, F!StartMaterialize(c, v)
  PROVE  FederationInv'
<1>0. F!TypeOK
  BY DEF FederationInv
<1>1. /\ intent[v].status \in {"ACCEPTED", "MATERIALIZED"} /\ accepted[v] = "ACCEPTED"
      /\ UNCHANGED <<agreement, ratified, changes, lock, intent, accepted, admitted, recorded>>
  BY DEF F!StartMaterialize, F!agreementVars, F!workVars
<1>2. PICK doomed \in BOOLEAN :
        /\ doomed = (changes[F!Under(v)] > 0)
        /\ call' = [call EXCEPT ![c] = [F!Idle EXCEPT !.pc = "current", !.on = {v}, !.doomed = doomed]]
  <2> DEFINE some == changes[F!Under(v)] > 0
  <2>1. call' = [call EXCEPT ![c] = [F!Idle EXCEPT !.pc = "current", !.on = {v}, !.doomed = some]]
    BY DEF F!StartMaterialize
  <2>2. some \in BOOLEAN
    BY <1>0, <1>1, AgreementTypes DEF FederationInv, IntentInv
  <2>3. some = (changes[F!Under(v)] > 0)
    OBVIOUS
  <2> HIDE DEF some
  <2> QED BY <2>1, <2>2, <2>3
<1> DEFINE at == {v}
           k == [F!Idle EXCEPT !.pc = "current", !.on = at, !.doomed = doomed]
<1>3. k \in F!CallState /\ k.pc = "current" /\ k.on = {v} /\ k.doomed = doomed
  <2>1. at \in {{}} \cup {{y} : y \in F!Agreement \cup Intent} /\ F!Idle \in F!CallState /\ "current" \in F!PC
    BY <1>0, FederationCallTypes DEF F!PC
  <2> HIDE DEF at
  <2>2. k \in F!CallState /\ k.pc = "current" /\ k.on = at /\ k.doomed = doomed
    BY <2>1 DEF F!CallState
  <2> HIDE DEF k
  <2> QED BY <2>2 DEF at
<1>4. call' = [call EXCEPT ![c] = k]
  BY <1>2
<1> HIDE DEF k, at
<1>5. call'[c] = k
  BY <1>0, <1>4 DEF F!TypeOK
<1>6. F!Under(v)' = F!Under(v)
  BY <1>1, UnderKept
<1>7. DecisionCall(c)'
  BY <1>3, <1>5 DEF DecisionCall
<1>8. \A w \in Intent : k.on = {w} => WorkCall(c, w)'
  <2>1. WorkCall(c, v)'
    BY <1>1, <1>2, <1>3, <1>5, <1>6 DEF WorkCall
  <2> QED BY <1>3, <2>1
<1> QED BY <1>1, <1>3, <1>4, <1>7, <1>8, WorkRead

LEMMA CheckCurrentKeeps ==
  ASSUME FederationInv, NEW c \in Call, NEW v \in Intent, F!CheckCurrent(c, v)
  PROVE  FederationInv'
<1>0. F!TypeOK /\ (call[c].on = {v} => WorkCall(c, v)) /\ IntentInv(v)
  BY DEF FederationInv
<1>1. /\ call[c].pc = "current" /\ call[c].on = {v}
      /\ UNCHANGED <<agreement, ratified, changes, lock, intent, accepted, admitted, recorded>>
      /\ F!Return(c) \/ (F!Coordinating(F!Under(v)) /\ F!GoTo(c, "admit"))
  BY DEF F!CheckCurrent, F!At, F!agreementVars, F!workVars
<1>2. CASE F!Return(c)
  <2>1. /\ F!Idle \in F!CallState /\ call' = [call EXCEPT ![c] = F!Idle] /\ F!Idle.pc = "idle"
        /\ DecisionCall(c)' /\ \A w \in Intent : WorkCall(c, w)'
    BY <1>0, <1>2, Ended
  <2> QED BY <1>1, <2>1, WorkRead
<1>3. CASE F!Coordinating(F!Under(v)) /\ F!GoTo(c, "admit")
  <2>1. PICK k \in F!CallState :
          /\ call' = [call EXCEPT ![c] = k] /\ call'[c] = k
          /\ k.pc = "admit" /\ k.on = {v} /\ k.doomed = call[c].doomed
    <3>1. "admit" \in F!PC
      BY DEF F!PC
    <3> QED BY <1>0, <1>1, <1>3, <3>1, GoneOn
  <2>2. ~call[c].doomed /\ accepted[v] = "ACCEPTED" /\ intent[v].status # "NONE"
    BY <1>0, <1>1, <1>3 DEF WorkCall, F!Coordinating
  <2>3. DecisionCall(c)'
    BY <2>1, <2>2 DEF DecisionCall
  <2>4. \A w \in Intent : k.on = {w} => WorkCall(c, w)'
    <3>1. WorkCall(c, v)'
      BY <1>1, <2>1, <2>2 DEF WorkCall
    <3> QED BY <2>1, <3>1
  <2> QED BY <1>1, <2>1, <2>3, <2>4, WorkRead
<1> QED BY <1>1, <1>2, <1>3

LEMMA AdmitKeeps ==
  ASSUME FederationInv, NEW c \in Call, NEW v \in Intent, F!Admit(c, v) \/ F!SaveMaterialization(c, v)
  PROVE  FederationInv'
<1>0. /\ F!TypeOK /\ IntentInv(v) /\ DecisionCall(c)
      /\ intent[v].status \in F!IntentStatus /\ accepted[v] \in {"NONE", "ACCEPTED", "REJECTED"}
  BY IntentTypes DEF FederationInv
<1>1. /\ call[c].on = {v} /\ call[c].pc \in {"admit", "record"}
      /\ UNCHANGED <<agreement, ratified, changes, lock, intent, accepted>>
  BY DEF F!Admit, F!SaveMaterialization, F!At, F!agreementVars
<1>2. /\ accepted[v] = "ACCEPTED" /\ intent[v].status # "NONE"
      /\ call[c].doomed => changes[F!Under(v)] > 0
      /\ call[c].pc = "record" => v \in admitted
  BY <1>1 DEF FederationInv, WorkCall
<1>3. PICK to \in F!IntentStatus, decision \in {"NONE", "ACCEPTED", "REJECTED"} :
        to = intent[v].status /\ decision = accepted[v]
  BY <1>0
<1>4. intent' = [intent EXCEPT ![v].status = to] /\ accepted' = [accepted EXCEPT ![v] = decision]
  BY <1>0, <1>1, <1>3, IntentSame
<1>5. /\ admitted' \in {admitted, admitted \cup {v}} /\ recorded' \in {recorded, recorded \cup {v}}
      /\ v \in recorded' => v \in admitted'
      /\ \/ F!Return(c)
         \/ F!GoTo(c, "record") /\ v \in admitted'
         \/ F!GoTo(c, "recorded") /\ v \in recorded'
  BY <1>0, <1>1, <1>2 DEF F!Admit, F!SaveMaterialization, F!At, IntentInv
<1>6. to = "MATERIALIZED" => v \in recorded'
  BY <1>0, <1>3, <1>5 DEF IntentInv
<1>7. PICK k \in F!CallState :
        /\ call' = [call EXCEPT ![c] = k] /\ k.pc # "activate"
        /\ DecisionCall(c)' /\ \A w \in Intent : k.on = {w} => WorkCall(c, w)'
  <2>1. CASE F!Return(c)
    <3>1. /\ F!Idle \in F!CallState /\ call' = [call EXCEPT ![c] = F!Idle] /\ F!Idle.pc = "idle"
          /\ DecisionCall(c)' /\ \A w \in Intent : WorkCall(c, w)'
      BY <1>0, <2>1, Ended
    <3> QED BY <3>1
  <2>2. ASSUME NEW pc \in {"record", "recorded"}, F!GoTo(c, pc),
               pc = "record" => v \in admitted', pc = "recorded" => v \in recorded'
        PROVE  \E k \in F!CallState :
                 /\ call' = [call EXCEPT ![c] = k] /\ k.pc # "activate"
                 /\ DecisionCall(c)' /\ \A w \in Intent : k.on = {w} => WorkCall(c, w)'
    <3>1. PICK k \in F!CallState :
            /\ call' = [call EXCEPT ![c] = k] /\ call'[c] = k
            /\ k.pc = pc /\ k.on = {v} /\ k.doomed = call[c].doomed
      <4>1. pc \in F!PC
        BY DEF F!PC
      <4> QED BY <1>0, <1>1, <2>2, <4>1, GoneOn
    <3>2. DecisionCall(c)'
      BY <3>1 DEF DecisionCall
    <3>3. F!Under(v)' = F!Under(v)
      BY <1>1, UnderKept
    <3>4. WorkCall(c, v)'
      BY <1>1, <1>2, <2>2, <3>1, <3>3 DEF WorkCall
    <3> QED BY <3>1, <3>2, <3>4
  <2> QED BY <1>5, <2>1, <2>2
<1> QED BY <1>1, <1>2, <1>3, <1>4, <1>5, <1>6, <1>7, WorkChange

LEMMA ProposeWorkKeeps ==
  ASSUME FederationInv, NEW v \in Intent, F!ProposeWork(v)
  PROVE  FederationInv'
<1>0. /\ F!TypeOK /\ \A x \in F!Agreement : changes[x] \in Nat
      /\ intent \in [Intent -> [status: F!IntentStatus, under: {{}} \cup {{x} : x \in F!Agreement}]]
  BY AgreementTypes DEF FederationInv, F!TypeOK
<1>1. PICK x \in F!Agreement :
        /\ F!Status(x) = "ACTIVE" /\ intent[v].status = "NONE"
        /\ intent' = [intent EXCEPT ![v] = [status |-> "PROPOSED", under |-> {x}]]
        /\ UNCHANGED <<agreement, ratified, changes, lock, accepted, admitted, recorded, call>>
  BY DEF F!ProposeWork, F!Coordinating, F!agreementVars
<1>2. /\ intent' \in [Intent -> [status: F!IntentStatus, under: {{}} \cup {{y} : y \in F!Agreement}]]
      /\ intent'[v].status = "PROPOSED" /\ intent'[v].under = {x}
      /\ \A w \in Intent \ {v} : intent'[w] = intent[w]
  <2>1. [status |-> "PROPOSED", under |-> {x}] \in
          [status: F!IntentStatus, under: {{}} \cup {{y} : y \in F!Agreement}]
    BY DEF F!IntentStatus
  <2> QED BY <1>0, <1>1, <2>1
<1>3. F!TypeOK'
  BY <1>0, <1>1, <1>2 DEF F!TypeOK
<1>4. Progressed
  BY <1>0, <1>1, <1>2 DEF Progressed, F!Status
<1>5. ASSUME NEW w \in Intent
      PROVE  IntentInv(w)'
  <2>1. IntentInv(w)
    BY DEF FederationInv
  <2>2. CASE w # v
    BY <1>1, <1>2, <1>4, <2>1, <2>2, IntentKept
  <2>3. CASE w = v
    <3>1. F!Under(v)' = x
      <4>1. F!Under(v)' = CHOOSE y \in F!Agreement : intent'[v].under = {y}
        BY DEF F!Under
      <4>2. \A y \in F!Agreement : intent'[v].under = {y} <=> y = x
        BY <1>2
      <4> QED BY <4>1, <4>2
    <3>2. (F!Status(F!Under(v)))' = "ACTIVE"
      BY <1>1, <3>1 DEF F!Status
    <3>3. v \notin admitted /\ v \notin recorded
      BY <1>1, <2>1, <2>3 DEF IntentInv
    <3> QED BY <1>1, <1>2, <2>3, <3>1, <3>2, <3>3 DEF IntentInv, F!Activated
  <2> QED BY <2>2, <2>3
<1>6. \A e \in Call : DecisionCall(e)' /\ \A w \in Intent : call'[e].on = {w} => WorkCall(e, w)'
  BY <1>1, <1>4, WaitingWork DEF FederationInv, DecisionCall
<1>7. \A e \in Call, y \in F!Agreement : F!At(e, "activate", y)' => ActivationCall(e, y)'
  BY <1>1, AgreementsKept DEF FederationInv, F!At, ActivationCall
<1>8. Exclusive' /\ Serial' /\ \A y \in F!Agreement : AgreementInv(y)'
  BY <1>1, AgreementsKept DEF FederationInv, Exclusive, F!At, AgreementInv, F!Status
<1> QED BY <1>3, <1>5, <1>6, <1>7, <1>8 DEF FederationInv

LEMMA FederationInit ==
  ASSUME F!Init
  PROVE  FederationInv
<1>1. F!Idle \in F!CallState /\ F!Idle.pc = "idle"
  BY DEF F!Idle, F!CallState, F!PC, F!IntentStatus
<1>2. call \in [Call -> F!CallState] /\ \A c \in Call : call[c].pc = "idle"
  BY <1>1 DEF F!Init
<1>3. agreement \in [F!Agreement -> [status: F!AgreementStatus, base: F!State]]
  BY DEF F!Init, F!AgreementStatus, F!State
<1>4. intent \in [Intent -> [status: F!IntentStatus, under: {{}} \cup {{x} : x \in F!Agreement}]]
  BY DEF F!Init, F!IntentStatus
<1>5. F!TypeOK
  <2>1. 0 \in 0 .. MaxWithdrawals
    BY FederationAssumption
  <2> QED BY <1>2, <1>3, <1>4, <2>1 DEF F!Init, F!TypeOK
<1>6. \A x \in F!Agreement : F!Status(x) = "NONE"
  BY DEF F!Init, F!Status
<1>7. (\A x \in F!Agreement : AgreementInv(x)) /\ Serial
  BY <1>6 DEF AgreementInv, Serial, F!Succeeded, F!Active, F!Activated
<1>8. \A w \in Intent : IntentInv(w)
  BY DEF F!Init, IntentInv
<1>9. \A c \in Call : /\ DecisionCall(c) /\ \A w \in Intent : WorkCall(c, w)
                      /\ \A x \in F!Agreement : ~F!At(c, "activate", x)
  BY <1>2 DEF DecisionCall, WorkCall, F!At
<1> QED BY <1>5, <1>7, <1>8, <1>9 DEF FederationInv, Exclusive

LEMMA FederationNext ==
  ASSUME FederationInv, F!Next
  PROVE  FederationInv'
<1>1. ASSUME NEW x \in F!Agreement, F!ProposeAgreement(x)
      PROVE  FederationInv'
  BY <1>1, ProposeAgreementKeeps
<1>2. ASSUME NEW x \in F!Agreement, NEW c \in Call, F!AgreementStep(c, x)
      PROVE  FederationInv'
  BY <1>2, RatifyAndWithdrawKeep, CompareAndSetKeeps, BeginActivationLocks, CommitActivates,
     RollbackAndDeathKeep DEF F!AgreementStep
<1>3. ASSUME NEW v \in Intent, F!ProposeWork(v)
      PROVE  FederationInv'
  BY <1>3, ProposeWorkKeeps
<1>4. ASSUME NEW v \in Intent, NEW c \in Call, F!WorkStep(c, v)
      PROVE  FederationInv'
  BY <1>4, StartDecideKeeps, SaveDecisionKeeps, MarkDecidedAndMaterializedKeep,
     StartMaterializeKeeps, CheckCurrentKeeps, AdmitKeeps DEF F!WorkStep
<1>5. ASSUME NEW c \in Call, F!Crash(c)
      PROVE  FederationInv'
  BY <1>5, RollbackAndDeathKeep
<1> QED BY <1>1, <1>2, <1>3, <1>4, <1>5 DEF F!Next

LEMMA FederationCardinality ==
  ASSUME NEW S
  PROVE  F!Cardinality(S) = Cardinality(S)
  BY DEF F!Cardinality, Cardinality

\* What the invariant says of the agreements and the work under them.
LEMMA FederationIsSound ==
  ASSUME FederationInv
  PROVE  F!TypeOK /\ F!AgreementsAreSerial /\ F!WorkIsAgreed
<1>1. ASSUME Overlap
      PROVE  F!Cardinality(F!Active) <= 1
  <2>1. CASE F!Active = {}
    BY <2>1, FederationCardinality, FS_EmptySet
  <2>2. CASE F!Active # {}
    <3>1. PICK x \in F!Active : TRUE
      BY <2>2
    <3>2. F!Active = {x}
      BY <1>1, <3>1 DEF FederationInv, Serial
    <3> QED BY <3>2, FederationCardinality, FS_Singleton
  <2> QED BY <2>1, <2>2
<1>2. F!AgreementsAreSerial
  BY <1>1 DEF FederationInv, Serial, Overlap, F!AgreementsAreSerial
<1>3. \A w \in admitted :
        /\ accepted[w] = "ACCEPTED" /\ F!Status(F!Under(w)) \in F!Activated
        /\ participants[F!Under(w)] \subseteq ratified[F!Under(w)]
  <2> SUFFICES ASSUME NEW w \in admitted
               PROVE  /\ accepted[w] = "ACCEPTED" /\ F!Status(F!Under(w)) \in F!Activated
                      /\ participants[F!Under(w)] \subseteq ratified[F!Under(w)]
    OBVIOUS
  <2>1. w \in Intent /\ IntentInv(w)
    BY DEF FederationInv, F!TypeOK
  <2>2. /\ accepted[w] = "ACCEPTED" /\ F!Under(w) \in F!Agreement
        /\ F!Status(F!Under(w)) \in F!Activated
    BY <2>1 DEF IntentInv
  <2> QED BY <2>2 DEF FederationInv, AgreementInv
<1>4. /\ recorded \subseteq admitted
      /\ \A w \in Intent : intent[w].status = "MATERIALIZED" => w \in recorded
      /\ \A c \in Call : call[c].pc = "admit" => ~call[c].doomed
  BY DEF FederationInv, IntentInv, DecisionCall, F!TypeOK
<1> QED BY <1>2, <1>3, <1>4 DEF FederationInv, F!WorkIsAgreed

-----------------------------------------------------------------------------
(* The three beside each other                                              *)

\* What every state satisfies, of the layer that the behaviour is of.
InstitutionInv ==
  /\ part \in {"governance", "constitution", "direct", "federation", "work"}
  /\ part = "governance" => GovernanceInv
  /\ part \in {"constitution", "direct"} => ConstitutionInv
  /\ part \in {"federation", "work"} => FederationInv

LEMMA InstitutionInit ==
  ASSUME Init
  PROVE  InstitutionInv
<1>1. CASE part = "governance" /\ G!Init
  BY <1>1, GovernanceInit DEF InstitutionInv
<1>2. CASE part \in {"constitution", "direct"} /\ C!Init
  BY <1>2, ConstitutionInit DEF InstitutionInv
<1>3. CASE part \in {"federation", "work"} /\ F!Init
  BY <1>3, FederationInit DEF InstitutionInv
<1> QED BY <1>1, <1>2, <1>3 DEF Init

LEMMA InstitutionNext ==
  ASSUME InstitutionInv, Next
  PROVE  InstitutionInv'
<1>0. part' = part
  BY DEF Next
<1>1. CASE part = "governance" /\ G!Next
  BY <1>0, <1>1, GovernanceNext DEF InstitutionInv
<1>2. CASE part \in {"constitution", "direct"} /\ C!Next
  BY <1>0, <1>2, ConstitutionNext DEF InstitutionInv
<1>3. CASE part \in {"federation", "work"} /\ F!Next
  BY <1>0, <1>3, FederationNext DEF InstitutionInv
<1> QED BY <1>1, <1>2, <1>3 DEF Next

LEMMA InstitutionStutter ==
  ASSUME InstitutionInv,
         UNCHANGED <<part, call, lock, governanceOnly, constitutionOnly, federationOnly>>
  PROVE  InstitutionInv'
<1>0. /\ UNCHANGED <<part, call, lock>>
      /\ UNCHANGED <<revoked, delegations, revocations, holds, hold, mandate, requirement, status,
                     attestations, proof>>
      /\ UNCHANGED <<governance, epoch, proposal, analyzed, approvals, reviews, record, applied>>
      /\ UNCHANGED <<agreement, ratified, changes, intent, accepted, admitted, recorded>>
  BY DEF governanceOnly, constitutionOnly, federationOnly
<1>1. ASSUME GovernanceInv
      PROVE  GovernanceInv'
  BY <1>0, <1>1 DEF GovernanceInv, G!TypeOK, DelegationsLead, G!ChainOf, AttestationsRest,
     ProofIsSeated, G!By, GovernanceCall, DoomedCall
<1>2. ASSUME ConstitutionInv
      PROVE  ConstitutionInv'
  BY <1>0, <1>2 DEF ConstitutionInv, C!TypeOK, ProposalInv, Deserves, C!On, ChangeCall
<1>3. ASSUME FederationInv
      PROVE  FederationInv'
  <2>1. F!TypeOK'
    BY <1>0, <1>3 DEF FederationInv, F!TypeOK
  <2>2. Serial' /\ \A x \in F!Agreement : AgreementInv(x)'
    BY <1>0, <1>3, AgreementsKept DEF FederationInv, AgreementInv, F!Status
  <2>3. Exclusive' /\ \A c \in Call, x \in F!Agreement : F!At(c, "activate", x)' => ActivationCall(c, x)'
    BY <1>0, <1>3, AgreementsKept DEF FederationInv, Exclusive, F!At, ActivationCall
  <2>4. \A w \in Intent : F!Under(w)' = F!Under(w) /\ (F!Status(F!Under(w)))' = F!Status(F!Under(w))
    BY <1>0 DEF F!Under, F!Status
  <2>5. \A w \in Intent : IntentInv(w)'
    BY <1>0, <1>3, <2>4 DEF FederationInv, IntentInv
  <2>6. \A c \in Call : DecisionCall(c)' /\ \A w \in Intent : call'[c].on = {w} => WorkCall(c, w)'
    BY <1>0, <1>3, <2>4 DEF FederationInv, DecisionCall, WorkCall
  <2> QED BY <2>1, <2>2, <2>3, <2>5, <2>6 DEF FederationInv
<1> QED BY <1>0, <1>1, <1>2, <1>3 DEF InstitutionInv

\* governance/service.ts, constitutional/service.ts, federation/service.ts: whatever the
\* calls do beside each other, each of them finds what its last read promised.
THEOREM InstitutionIsSound == Spec => []InstitutionInv
<1>1. Init => InstitutionInv
  BY InstitutionInit
<1>2. InstitutionInv /\ [Next]_<<part, call, lock, governanceOnly, constitutionOnly, federationOnly>>
        => InstitutionInv'
  BY InstitutionNext, InstitutionStutter
<1> QED BY <1>1, <1>2, PTL DEF Spec

\* Every table and every call of the three layers holds what its columns and its code allow.
THEOREM InstitutionTypes == Spec => []TypeOK
<1>1. InstitutionInv => TypeOK
  BY GovernanceIsSound, ConstitutionIsSound, FederationIsSound DEF InstitutionInv, TypeOK
<1> QED BY <1>1, InstitutionIsSound, PTL

\* governance/service.ts resolveAuthority: whoever is AUTHORIZED is so by a grant that is not
\* revoked, through delegations none of which is.
THEOREM AuthorityRoots == Spec => []AuthorityIsRooted
<1>1. InstitutionInv => AuthorityIsRooted
  BY GovernanceIsSound DEF InstitutionInv, AuthorityIsRooted
<1> QED BY <1>1, InstitutionIsSound, PTL

\* governance/quorum.ts, service.ts attest and evaluate: a proof stands on a quorum of
\* different principals, and a case that is blocked was rejected.
THEOREM ProofQuorum == Spec => []ProofRestsOnQuorum
<1>1. InstitutionInv => ProofRestsOnQuorum
  BY GovernanceIsSound DEF InstitutionInv, ProofRestsOnQuorum
<1> QED BY <1>1, InstitutionIsSound, PTL

\* governance/service.ts validateProof: a gate that asks after a revocation was saved does not
\* open on what was revoked.
THEOREM GateRevocations == Spec => []GateHonoursRevocations
<1>1. InstitutionInv => GateHonoursRevocations
  BY GovernanceIsSound DEF InstitutionInv, GateHonoursRevocations
<1> QED BY <1>1, InstitutionIsSound, PTL

\* constitutional/service.ts activate, federation/service.ts activate: no two changes of the
\* governance are let through by one reading of it, even if the same fingerprint comes back,
\* and each is as often approved as is required; an agreement is superseded by one other at
\* most, and where their participants overlap one is ACTIVE.
THEOREM SerialChanges == Spec => []ChangesAreSerial
<1>1. InstitutionInv => ChangesAreSerial
  BY ConstitutionIsSound, FederationIsSound DEF InstitutionInv, ChangesAreSerial
<1> QED BY <1>1, InstitutionIsSound, PTL

\* federation/service.ts materializeWork: work is admitted only if it was accepted, under an
\* agreement that all its participants ratified, by a call that no withdrawal preceded.
THEOREM AgreedWork == Spec => []WorkIsAgreed
<1>1. InstitutionInv => WorkIsAgreed
  BY FederationIsSound DEF InstitutionInv, WorkIsAgreed
<1> QED BY <1>1, InstitutionIsSound, PTL
=============================================================================
