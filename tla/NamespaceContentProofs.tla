----------------------- MODULE NamespaceContentProofs -----------------------
(***************************************************************************)
(* Proofs about Organisation and NamespaceContent for every set of people, *)
(* requests, projects and export formats.                                  *)
(***************************************************************************)
EXTENDS NamespaceContent, FiniteSetTheorems, TLAPS

(***************************************************************************)
(* The inductive invariant of the memberships.                             *)
(***************************************************************************)

TwoOwners == \E p, q \in Person : p # q /\ role[p] = "OWNER" /\ role[q] = "OWNER"

(* What a request has in hand: it grants no more than the role it was begun  *)
(* with; and while no role has changed since it read them, the row is as it  *)
(* was loaded, and if it is to take an owner away there is another one.      *)
RequestOK(x) ==
  /\ x.at = "idle" <=> x.kind = "none"
  /\ x.kind \in {"add", "role", "remove"} => x.member \in Person
  /\ x.kind \in {"add", "role"} => x.grant \in Role /\ Holds(x.as, x.grant)
  /\ x.kind = "delete" => x.at = "write"
  /\ x.at = "count" => x.kind \in {"role", "remove"} /\ NeedsCount(x, x.seen)
  /\ x.kind \in {"role", "remove"} /\ x.at \in {"count", "write"} /\ x.fresh =>
       x.seen = role[x.member]
  /\ x.kind \in {"role", "remove"} /\ x.at = "write" /\ x.fresh /\ NeedsCount(x, x.seen) =>
       TwoOwners

(* Memberships exist only while the organisation is live, and no request     *)
(* before; a request that outlives the organisation finds no row.            *)
LifeInv ==
  /\ founder # NoPerson => org = "founding"
  /\ org # "live" => \A p \in Person : role[p] = "none"
  /\ org \in {"none", "founding"} => \A r \in Request : req[r].kind = "none"
  /\ org = "deleted" => \A r \in Request : req[r].kind \in {"role", "remove"} => req[r].gone

OrgInv ==
  /\ OrganisationTypeOK
  /\ \A r \in Request : RequestOK(req[r])
  /\ LifeInv
  /\ OwnerKeptUnlessRaced

(* The ranks of the roles; only OWNER ranks as high as OWNER.                *)
LEMMA RankFacts ==
  /\ Rank["none"] = 0 /\ Rank["MEMBER"] = 1 /\ Rank["ADMIN"] = 2 /\ Rank["OWNER"] = 3
  /\ \A h \in Role \cup {"none"} : Rank[h] \in Nat /\ (Rank[h] >= 3 => h = "OWNER")
BY DEF Rank, Role

(* A slot without a request is well typed and relies on nothing.             *)
LEMMA IdleOK == Idle \in Requests /\ RequestOK(Idle)
BY DEF Idle, Requests, RequestOK, Role

(* A namespace starts without an organisation, or with one that has an       *)
(* owner.                                                                    *)
LEMMA OrgInit == Init => OrgInv
<1> SUFFICES ASSUME Init PROVE OrgInv
  OBVIOUS
<1>1. /\ org \in {"none", "live"} /\ founder = NoPerson /\ raced = FALSE
      /\ req = [r \in Request |-> Idle]
      /\ \/ org = "none" /\ role = [p \in Person |-> "none"]
         \/ org = "live" /\ \E q \in Person : role = [p \in Person |-> IF p = q THEN "OWNER" ELSE "none"]
  BY DEF Init, InitOrganisation
<1>2. OrganisationTypeOK
  BY <1>1, IdleOK DEF OrganisationTypeOK, Role
<1>3. \A r \in Request : RequestOK(req[r])
  BY <1>1, IdleOK
<1>4. \A r \in Request : req[r].kind = "none"
  BY <1>1 DEF Idle
<1>5. LifeInv
  BY <1>1, <1>4 DEF LifeInv
<1>6. OwnerKeptUnlessRaced
  BY <1>1 DEF OwnerKeptUnlessRaced, Owners
<1>7. QED
  BY <1>2, <1>3, <1>5, <1>6 DEF OrgInv

(* A membership was written: what every read of another request becomes.     *)
LEMMA SetRoleStep ==
  ASSUME OrgInv, NEW r \in Request, NEW q \in Person, NEW held \in Role \cup {"none"},
         org = "live", SetRole(r, q, held), UNCHANGED <<org, founder>>,
         role[q] = "OWNER" /\ held # "OWNER" /\ req[r].fresh => TwoOwners
  PROVE  OrgInv'
<1> USE DEF OrgInv
<1>1. /\ role' = [role EXCEPT ![q] = held]
      /\ raced' = (raced \/ (role[q] = "OWNER" /\ ~req[r].fresh))
      /\ \A s \in Request : req'[s] =
           IF s = r THEN Idle
           ELSE [req[s] EXCEPT !.fresh = FALSE,
                               !.gone  = @ \/ (held = "none" /\ req[s].member = q
                                               /\ req[s].kind \in {"role", "remove"})]
      /\ req' \in [Request -> Requests]
  <2>1. /\ role' = [role EXCEPT ![q] = held]
        /\ raced' = (raced \/ (role[q] = "OWNER" /\ ~req[r].fresh))
        /\ req' = [s \in Request |->
             IF s = r THEN Idle
             ELSE [req[s] EXCEPT !.fresh = FALSE,
                                 !.gone  = @ \/ (held = "none" /\ req[s].member = q
                                                 /\ req[s].kind \in {"role", "remove"})]]
    BY DEF SetRole
  <2>2. ASSUME NEW s \in Request, NEW g \in BOOLEAN
        PROVE  [req[s] EXCEPT !.fresh = FALSE, !.gone = g] \in Requests
    BY ZenonT(40) DEF OrganisationTypeOK, Requests
  <2>3. ASSUME NEW s \in Request PROVE req[s] \in Requests /\ req[s].gone \in BOOLEAN
    BY DEF OrganisationTypeOK, Requests
  <2>4. ASSUME NEW s \in Request
        PROVE  (req[s].gone \/ (held = "none" /\ req[s].member = q
                               /\ req[s].kind \in {"role", "remove"})) \in BOOLEAN
    BY <2>3
  <2>5. req' \in [Request -> Requests]
    BY <2>1, <2>2, <2>4, IdleOK
  <2>6. QED
    BY <2>1, <2>5
<1>2. OrganisationTypeOK'
  BY <1>1 DEF OrganisationTypeOK
<1>3. ASSUME NEW s \in Request PROVE RequestOK(req[s])'
  <2>1. CASE s = r
    <3>1. req'[s] = Idle
      BY <1>1, <2>1
    <3>2. req'[s].at = "idle" /\ req'[s].kind = "none"
      BY <3>1 DEF Idle
    <3>3. QED
      BY <3>2 DEF RequestOK
  <2>2. CASE s # r
    <3>1. req'[s] \in Requests /\ req[s] \in Requests /\ RequestOK(req[s])
      BY <1>1 DEF OrganisationTypeOK
    <3>2. /\ req'[s].fresh = FALSE /\ req'[s].at = req[s].at /\ req'[s].kind = req[s].kind
          /\ req'[s].as = req[s].as /\ req'[s].member = req[s].member
          /\ req'[s].grant = req[s].grant /\ req'[s].seen = req[s].seen
      BY ZenonT(40), <1>1, <2>2, <3>1 DEF Requests
    <3>3. QED
      BY <3>1, <3>2 DEF RequestOK, NeedsCount
  <2>3. QED
    BY <2>1, <2>2
<1>4. LifeInv'
  BY DEF LifeInv
<1>5. OwnerKeptUnlessRaced'
  <2>1. ASSUME ~raced' PROVE Owners' # {}
    <3>1. ~raced /\ (role[q] = "OWNER" => req[r].fresh)
      BY <1>1, <2>1
    <3>2. \A p \in Person : p # q => role'[p] = role[p]
      BY <1>1 DEF OrganisationTypeOK
    <3>3. role'[q] = held
      BY <1>1 DEF OrganisationTypeOK
    <3>4. CASE role[q] = "OWNER" /\ held # "OWNER"
      BY <3>1, <3>2, <3>4 DEF TwoOwners, Owners
    <3>5. CASE role[q] # "OWNER" \/ held = "OWNER"
      BY <3>1, <3>2, <3>3, <3>5 DEF OwnerKeptUnlessRaced, Owners
    <3>6. QED
      BY <3>4, <3>5
  <2>2. QED
    BY <2>1 DEF OwnerKeptUnlessRaced
<1>6. QED
  BY <1>2, <1>3, <1>4, <1>5

(* A request moved on, or ended, and nothing but what it has in hand changed. *)
LEMMA RequestStep ==
  ASSUME OrgInv, NEW r \in Request, NEW x \in Requests,
         RequestOK(x), req' = [req EXCEPT ![r] = x],
         UNCHANGED <<org, founder, role, raced>>,
         org = "live" \/ x.kind = "none" \/ (x.kind = req[r].kind /\ x.gone = req[r].gone)
  PROVE  OrgInv'
<1> USE DEF OrgInv
<1>1. req' \in [Request -> Requests] /\ \A s \in Request : req'[s] = IF s = r THEN x ELSE req[s]
  BY DEF OrganisationTypeOK
<1>2. OrganisationTypeOK'
  BY <1>1 DEF OrganisationTypeOK
<1>3. \A s \in Request : RequestOK(req'[s])
  BY <1>1
<1>4. \A s \in Request : RequestOK(req[s])'
  BY <1>3 DEF RequestOK, TwoOwners
<1>5. LifeInv'
  BY <1>1 DEF LifeInv
<1>6. OwnerKeptUnlessRaced'
  BY DEF OwnerKeptUnlessRaced, Owners
<1>7. QED
  BY <1>2, <1>4, <1>5, <1>6

(* A count above one is two different owners.                                *)
LEMMA CountedTwo == Cardinality(Owners) > 1 => TwoOwners
<1> SUFFICES ASSUME Cardinality(Owners) > 1 PROVE TwoOwners
  OBVIOUS
<1>1. IsFiniteSet(Owners)
  BY PersonAssumption, FS_Subset DEF Owners
<1>2. PICK p \in Owners : TRUE
  BY FS_EmptySet
<1>3. Owners # {p}
  BY FS_Singleton
<1>4. PICK q \in Owners : q # p
  BY <1>2, <1>3
<1>5. QED
  BY <1>2, <1>4 DEF Owners, TwoOwners

(* Whoever has a role in the organisation has it through a membership.       *)
LEMMA AccessIsMembership ==
  ASSUME OrganisationTypeOK, NEW p \in Person
  PROVE  /\ Access(p, org) = IF org = "live" THEN role[p] ELSE "none"
         /\ Access(p, org) \in Role \cup {"none"}
BY PersonAssumption DEF Access, OrganisationTypeOK

(* One lemma per action of Organisation.                                     *)
LEMMA FoundingSteps ==
  ASSUME OrgInv, (\E p \in Person : Create(p)) \/ Found \/ FoundingFails
  PROVE  OrgInv'
<1> USE DEF OrgInv
<1>1. req' = req /\ raced' = raced
  BY DEF Create, Found, FoundingFails
<1>2. OrganisationTypeOK'
  BY DEF OrganisationTypeOK, Create, Found, FoundingFails, Role
<1>3. \A r \in Request : req[r].kind = "none"
  BY PersonAssumption DEF Create, Found, FoundingFails, LifeInv
<1>4. \A r \in Request : RequestOK(req[r])'
  BY <1>1, <1>3 DEF RequestOK
<1>5. LifeInv'
  BY <1>1, <1>3, PersonAssumption DEF Create, Found, FoundingFails, LifeInv, OrganisationTypeOK
<1>6. OwnerKeptUnlessRaced'
  BY <1>1, PersonAssumption
     DEF OwnerKeptUnlessRaced, Owners, Create, Found, FoundingFails, LifeInv, OrganisationTypeOK
<1>7. QED
  BY <1>2, <1>4, <1>5, <1>6

(* The middleware and the assertions of a handler let a request begin.       *)
LEMMA BeginStep ==
  ASSUME OrgInv, NEW r \in Request, NEW p \in Person,
         NEW kind \in {"add", "role", "remove", "delete"},
         NEW q \in Person \cup {NoPerson}, kind # "delete" => q \in Person,
         NEW grant \in Role \cup {"none"}, kind \in {"add", "role"} => grant \in Role,
         Begin(r, p, kind, q, grant)
  PROVE  OrgInv'
<1> DEFINE held == Access(p, org)
           x == [Idle EXCEPT !.kind = kind, !.as = held, !.member = q, !.grant = grant,
                             !.by = IF kind = "remove" THEN p ELSE NoPerson,
                             !.at = IF kind = "delete" THEN "write" ELSE "load"]
<1>1. /\ held # "none" /\ Permits(kind, held, grant)
      /\ req' = [req EXCEPT ![r] = x]
      /\ UNCHANGED <<org, founder, role, raced>>
  BY DEF Begin
<1>2. held \in Role \cup {"none"} /\ org = "live"
  BY <1>1, AccessIsMembership DEF OrgInv
<1>3. x \in Requests
  BY ZenonT(40), <1>2 DEF Requests, Idle, Role
<1>4. /\ x.kind = kind /\ x.as = held /\ x.member = q /\ x.grant = grant
      /\ x.at = IF kind = "delete" THEN "write" ELSE "load"
  BY DEF Idle
<1>5. kind \in {"add", "role"} => Holds(held, grant)
  BY <1>1 DEF Permits
<1>6. RequestOK(x)
  BY <1>4, <1>5 DEF RequestOK
<1>7. QED
  BY <1>1, <1>2, <1>3, <1>6, RequestStep

(* A request ended and wrote nothing.                                        *)
LEMMA EndStep ==
  ASSUME OrgInv, NEW r \in Request, End(r), UNCHANGED <<org, founder, role, raced>>
  PROVE  OrgInv'
<1>1. req' = [req EXCEPT ![r] = Idle] /\ Idle.kind = "none"
  BY DEF End, Idle
<1>2. QED
  BY <1>1, IdleOK, RequestStep

(* addMember looked for a membership of the invitee.                         *)
LEMMA LoadInviteeStep ==
  ASSUME OrgInv, NEW r \in Request, LoadInvitee(r) PROVE OrgInv'
<1>1. CASE End(r)
  BY <1>1, EndStep DEF LoadInvitee
<1>2. CASE ~End(r)
  <2> DEFINE x == [req[r] EXCEPT !.at = "write", !.fresh = TRUE]
  <2>1. req[r] \in Requests /\ RequestOK(req[r]) /\ req[r].kind = "add"
    BY DEF OrgInv, OrganisationTypeOK, LoadInvitee
  <2>2. /\ x \in Requests /\ x.at = "write" /\ x.kind = "add" /\ x.member = req[r].member
        /\ x.grant = req[r].grant /\ x.as = req[r].as /\ x.gone = req[r].gone
    BY <2>1 DEF Requests
  <2>3. RequestOK(x)
    BY <2>1, <2>2 DEF RequestOK
  <2>4. req' = [req EXCEPT ![r] = x] /\ UNCHANGED <<org, founder, role, raced>>
    BY <1>2 DEF LoadInvitee, OrgInv, OrganisationTypeOK
  <2>5. QED
    BY <2>1, <2>2, <2>3, <2>4, RequestStep
<1>3. QED
  BY <1>1, <1>2

(* updateMemberRole or removeMember loaded the row it is about.              *)
LEMMA LoadMemberStep ==
  ASSUME OrgInv, NEW r \in Request, LoadMember(r) PROVE OrgInv'
<1>1. CASE End(r)
  BY <1>1, EndStep DEF LoadMember
<1>2. CASE ~End(r)
  <2> DEFINE q == req[r].member
             x == [req[r] EXCEPT !.seen = role[q], !.fresh = TRUE,
                     !.at = IF NeedsCount(req[r], role[q]) THEN "count" ELSE "write"]
  <2>1. req[r] \in Requests /\ RequestOK(req[r]) /\ req[r].kind \in {"role", "remove"}
    BY DEF OrgInv, OrganisationTypeOK, LoadMember
  <2>2. q \in Person /\ role[q] \in Role \cup {"none"}
    BY <2>1 DEF RequestOK, OrgInv, OrganisationTypeOK
  <2>3. /\ x \in Requests /\ x.kind = req[r].kind /\ x.member = q /\ x.grant = req[r].grant
        /\ x.as = req[r].as /\ x.gone = req[r].gone /\ x.seen = role[q]
        /\ x.at = IF NeedsCount(req[r], role[q]) THEN "count" ELSE "write"
    BY ZenonT(40), <2>1, <2>2 DEF Requests
  <2>4. NeedsCount(x, x.seen) <=> NeedsCount(req[r], role[q])
    BY <2>3 DEF NeedsCount
  <2>5. RequestOK(x)
    <3> HIDE DEF x
    <3>1. x.at # "idle" /\ x.kind # "none" /\ req[r].at = "load"
      BY <2>1, <2>3 DEF LoadMember
    <3>2. x.at = "count" <=> NeedsCount(x, x.seen)
      BY <2>3, <2>4
    <3>3. QED
      BY <2>1, <2>2, <2>3, <3>1, <3>2 DEF RequestOK
  <2>6. req' = [req EXCEPT ![r] = x] /\ UNCHANGED <<org, founder, role, raced>>
    BY <1>2 DEF LoadMember, OrgInv, OrganisationTypeOK
  <2>7. QED
    BY <2>3, <2>5, <2>6, RequestStep
<1>3. QED
  BY <1>1, <1>2

(* The last-owner guard counted the owners.                                  *)
LEMMA CountStep ==
  ASSUME OrgInv, NEW r \in Request, Count(r) PROVE OrgInv'
<1>1. CASE End(r)
  BY <1>1, EndStep DEF Count
<1>2. CASE ~End(r)
  <2> DEFINE x == [req[r] EXCEPT !.at = "write"]
  <2>1. req[r] \in Requests /\ RequestOK(req[r]) /\ req[r].at = "count"
    BY DEF OrgInv, OrganisationTypeOK, Count
  <2>2. /\ x \in Requests /\ x.kind = req[r].kind /\ x.member = req[r].member
        /\ x.grant = req[r].grant /\ x.as = req[r].as /\ x.gone = req[r].gone
        /\ x.seen = req[r].seen /\ x.fresh = req[r].fresh /\ x.at = "write"
    BY <2>1 DEF Requests
  <2>3. IsFiniteSet(Owners)
    BY PersonAssumption, FS_Subset DEF Owners
  <2>4. Cardinality(Owners) \in Nat /\ ~(Cardinality(Owners) <= 1)
    BY <1>2, <2>3, FS_CardinalityType DEF Count
  <2>5. TwoOwners
    BY <2>4, CountedTwo
  <2>6. RequestOK(x)
    BY <2>1, <2>2, <2>5 DEF RequestOK
  <2>7. req' = [req EXCEPT ![r] = x] /\ UNCHANGED <<org, founder, role, raced>>
    BY <1>2 DEF Count, OrgInv, OrganisationTypeOK
  <2>8. QED
    BY <2>2, <2>6, <2>7, RequestStep
<1>3. QED
  BY <1>1, <1>2

(* A request that still finds its row has a live organisation before it, and *)
(* what it writes leaves another owner unless its reads are out of date.     *)
LEMMA WriteSteps ==
  ASSUME OrgInv, NEW r \in Request, WriteInvitee(r) \/ WriteRole(r) \/ WriteRemoval(r)
  PROVE  OrgInv'
<1> DEFINE q == req[r].member
<1>1. req[r] \in Requests /\ RequestOK(req[r])
  BY DEF OrgInv, OrganisationTypeOK
<1>2. CASE End(r) /\ UNCHANGED <<org, founder, role, raced>>
  BY <1>2, EndStep
<1>3. CASE WriteInvitee(r) /\ SetRole(r, q, req[r].grant) /\ org = "live" /\ role[q] = "none"
  <2>1. q \in Person /\ req[r].grant \in Role
    BY <1>1, <1>3 DEF WriteInvitee, RequestOK
  <2>2. QED
    BY <1>3, <2>1, SetRoleStep DEF WriteInvitee
<1>4. CASE WriteRole(r) /\ SetRole(r, q, req[r].grant) /\ ~req[r].gone
  <2>1. q \in Person /\ req[r].grant \in Role
    BY <1>1, <1>4 DEF WriteRole, RequestOK
  <2>2. org = "live"
    BY <1>4 DEF WriteRole, OrgInv, LifeInv, OrganisationTypeOK
  <2>3. role[q] = "OWNER" /\ req[r].grant # "OWNER" /\ req[r].fresh => TwoOwners
    BY <1>1, <1>4 DEF WriteRole, RequestOK, NeedsCount
  <2>4. QED
    BY <1>4, <2>1, <2>2, <2>3, SetRoleStep DEF WriteRole
<1>5. CASE WriteRemoval(r) /\ SetRole(r, q, "none") /\ ~req[r].gone
  <2>1. q \in Person
    BY <1>1, <1>5 DEF WriteRemoval, RequestOK
  <2>2. org = "live"
    BY <1>5 DEF WriteRemoval, OrgInv, LifeInv, OrganisationTypeOK
  <2>3. role[q] = "OWNER" /\ req[r].fresh => TwoOwners
    BY <1>1, <1>5 DEF WriteRemoval, RequestOK, NeedsCount
  <2>4. QED
    BY <1>5, <2>1, <2>2, <2>3, SetRoleStep DEF WriteRemoval
<1>6. QED
  BY <1>2, <1>3, <1>4, <1>5 DEF WriteInvitee, WriteRole, WriteRemoval

(* deleteOrganization took the memberships.                                  *)
LEMMA DeleteStep ==
  ASSUME OrgInv, NEW r \in Request, DeleteOrganisation(r) PROVE OrgInv'
<1> USE DEF OrgInv
<1>1. /\ org' = "deleted" /\ role' = [p \in Person |-> "none"]
      /\ founder' = founder /\ raced' = raced /\ req[r].kind # "none"
  BY DEF DeleteOrganisation
<1>2. \A s \in Request :
        req'[s] = IF s = r THEN Idle
                  ELSE [req[s] EXCEPT !.fresh = FALSE,
                                      !.gone = @ \/ req[s].kind \in {"role", "remove"}]
  BY DEF DeleteOrganisation
<1>3. ASSUME NEW s \in Request
      PROVE  /\ req'[s] \in Requests
             /\ RequestOK(req[s])'
             /\ req'[s].kind \in {"role", "remove"} => req'[s].gone
  <2>1. CASE s = r
    <3>1. req'[s] = Idle
      BY <1>2, <2>1
    <3>2. req'[s].at = "idle" /\ req'[s].kind = "none"
      BY <3>1 DEF Idle
    <3>3. QED
      BY <3>1, <3>2, IdleOK DEF RequestOK
  <2>2. CASE s # r
    <3>1. req[s] \in Requests /\ RequestOK(req[s])
      BY DEF OrganisationTypeOK
    <3>2. (req[s].gone \/ req[s].kind \in {"role", "remove"}) \in BOOLEAN
      BY <3>1 DEF Requests
    <3>3. req'[s] \in Requests
      BY ZenonT(40), <1>2, <2>2, <3>1, <3>2 DEF Requests
    <3>4. /\ req'[s].fresh = FALSE /\ req'[s].at = req[s].at /\ req'[s].kind = req[s].kind
          /\ req'[s].as = req[s].as /\ req'[s].member = req[s].member
          /\ req'[s].grant = req[s].grant /\ req'[s].seen = req[s].seen
          /\ req'[s].gone = (req[s].gone \/ req[s].kind \in {"role", "remove"})
      BY <1>2, <2>2, <3>1 DEF Requests
    <3>5. QED
      BY <3>1, <3>3, <3>4 DEF RequestOK, NeedsCount
  <2>3. QED
    BY <2>1, <2>2
<1>4. req' \in [Request -> Requests]
  BY <1>3 DEF DeleteOrganisation
<1>5. OrganisationTypeOK'
  BY <1>1, <1>4 DEF OrganisationTypeOK
<1>6. LifeInv'
  BY <1>1, <1>3 DEF LifeInv
<1>7. QED
  BY <1>1, <1>3, <1>5, <1>6 DEF OwnerKeptUnlessRaced

(* What a request about content does, it does beside the memberships.        *)
LEMMA StepKinds ==
  Next => \/ OrganisationStep
          \/ BeginDelete
          \/ \E r \in Request : DeleteOrganisation(r)
          \/ UNCHANGED orgVars
<1>1. ASSUME NEW j, NEW p, NEW n,
             \/ BeginCreateProject(j, n) \/ BeginUpdateProject(j, p)
             \/ InsertProject(j) \/ SaveProject(j) \/ DeleteProject(p)
      PROVE  UNCHANGED orgVars
  BY <1>1 DEF BeginCreateProject, BeginUpdateProject, InsertProject, SaveProject, DeleteProject
<1>2. ASSUME NEW j, NEW p, NEW wanted, NEW add,
             \/ LoadFile(j, p) \/ BeginLanguages(j, wanted, add)
             \/ SaveLanguages(j) \/ EndLanguages(j) \/ CutJob(j)
      PROVE  UNCHANGED orgVars
  BY <1>2 DEF LoadFile, BeginLanguages, SaveLanguages, EndLanguages, CutJob
<1>3. ASSUME NEW j, NEW f,
             \/ BeginCreateFormat(j, f) \/ BeginUpdateFormat(j, f)
             \/ InsertFormat(j) \/ SaveFormat(j) \/ RemoveFormat(f)
      PROVE  UNCHANGED orgVars
  BY <1>3 DEF BeginCreateFormat, BeginUpdateFormat, InsertFormat, SaveFormat, RemoveFormat
<1>4. QED
  BY <1>1, <1>2, <1>3 DEF Next, DeleteNamespace

(* The invariant is about the memberships alone.                             *)
LEMMA OrgUnchanged == OrgInv /\ UNCHANGED orgVars => OrgInv'
BY DEF OrgInv, orgVars, OrganisationTypeOK, RequestOK, TwoOwners, LifeInv, OwnerKeptUnlessRaced,
       Owners

(* Every step keeps the invariant of the memberships.                        *)
LEMMA OrgStep == OrgInv /\ [Next]_vars => OrgInv'
<1> SUFFICES ASSUME OrgInv, [Next]_vars PROVE OrgInv'
  OBVIOUS
<1>1. CASE OrganisationStep
  <2>1. CASE (\E p \in Person : Create(p)) \/ Found \/ FoundingFails
    BY <2>1, FoundingSteps
  <2>2. ASSUME NEW r \in Request, NEW p \in Person, NEW q \in Person,
               NEW grant \in Role,
               Begin(r, p, "add", q, grant) \/ Begin(r, p, "role", q, grant)
        PROVE  OrgInv'
    BY <2>2, BeginStep
  <2>3. ASSUME NEW r \in Request, NEW p \in Person, NEW q \in Person,
               Begin(r, p, "remove", q, "none")
        PROVE  OrgInv'
    BY <2>3, BeginStep
  <2>4. ASSUME NEW r \in Request, LoadInvitee(r) \/ LoadMember(r) \/ Count(r) PROVE OrgInv'
    BY <2>4, LoadInviteeStep, LoadMemberStep, CountStep
  <2>5. ASSUME NEW r \in Request, WriteInvitee(r) \/ WriteRole(r) \/ WriteRemoval(r)
        PROVE  OrgInv'
    BY <2>5, WriteSteps
  <2>6. ASSUME NEW r \in Request, Cut(r) PROVE OrgInv'
    BY <2>6, EndStep DEF Cut
  <2>7. QED
    BY <1>1, <2>1, <2>2, <2>3, <2>4, <2>5, <2>6 DEF OrganisationStep
<1>2. CASE BeginDelete
  <2>1. PICK r \in Request, p \in Person : Begin(r, p, "delete", NoPerson, "none")
    BY <1>2 DEF BeginDelete
  <2>2. QED
    BY <2>1, BeginStep
<1>3. CASE \E r \in Request : DeleteOrganisation(r)
  BY <1>3, DeleteStep
<1>4. CASE UNCHANGED orgVars
  BY <1>4, OrgUnchanged
<1>5. QED
  BY <1>1, <1>2, <1>3, <1>4, StepKinds DEF vars

(* The invariant of the memberships holds in every reachable state.          *)
LEMMA OrgInvariant == Spec => []OrgInv
BY OrgInit, OrgStep, PTL DEF Spec

(* An organisation has an owner as long as no request wrote an owner's row   *)
(* on a read that was out of date: the guards of updateMemberRole and        *)
(* removeMember are enough for any number of people and of requests that do  *)
(* not overlap on it.                                                        *)
THEOREM OwnerKeptUnlessRacedTheorem == Spec => []OwnerKeptUnlessRaced
<1>1. OrgInv => OwnerKeptUnlessRaced
  BY DEF OrgInv
<1>2. QED
  BY <1>1, OrgInvariant, PTL

(* A membership that becomes OWNER was granted by a request that had OWNER.  *)
LEMMA SetRoleGrants ==
  ASSUME OrgInv, NEW r \in Request, NEW held \in Role, SetRole(r, req[r].member, held),
         req[r].kind \in {"add", "role"}, req[r].grant = held,
         NEW p \in Person, role[p] # "OWNER", role'[p] = "OWNER"
  PROVE  req[r].as = "OWNER" /\ req[r].member = p
<1>1. req[r] \in Requests /\ RequestOK(req[r])
  BY DEF OrgInv, OrganisationTypeOK
<1>2. p = req[r].member /\ held = "OWNER"
  BY DEF SetRole, OrgInv, OrganisationTypeOK
<1>3. Rank[req[r].as] >= Rank["OWNER"] /\ req[r].as \in Role \cup {"none"}
  BY <1>1, <1>2 DEF RequestOK, Holds, Requests
<1>4. QED
  BY <1>2, <1>3, RankFacts

(* Nobody reaches OWNER but as the founder or through the request of         *)
(* somebody who was an owner when it began.                                  *)
THEOREM OwnershipFromOwnersTheorem == Spec => OwnershipFromOwners
<1> DEFINE Granted ==
      \A p \in Person :
        role[p] # "OWNER" /\ role'[p] = "OWNER" =>
          \/ p = founder
          \/ \E r \in Request : req[r].as = "OWNER" /\ req[r].member = p
<1>1. ASSUME OrgInv, [Next]_vars PROVE [Granted]_orgVars
  <2> SUFFICES ASSUME NEW p \in Person, role[p] # "OWNER", role'[p] = "OWNER"
               PROVE  \/ p = founder
                      \/ \E r \in Request : req[r].as = "OWNER" /\ req[r].member = p
    OBVIOUS
  <2>1. CASE Found
    BY <1>1, <2>1 DEF Found, OrgInv, OrganisationTypeOK
  <2>2. ASSUME NEW r \in Request, WriteInvitee(r) \/ WriteRole(r)
        PROVE  req[r].as = "OWNER" /\ req[r].member = p
    <3>1. /\ req[r].kind \in {"add", "role"} /\ req[r].grant \in Role
          /\ SetRole(r, req[r].member, req[r].grant)
      BY <1>1, <2>2 DEF WriteInvitee, WriteRole, OrgInv, OrganisationTypeOK, RequestOK
    <3>2. QED
      BY <1>1, <3>1, SetRoleGrants
  <2>3. ASSUME NEW r \in Request, WriteRemoval(r) PROVE FALSE
    BY <1>1, <2>3 DEF WriteRemoval, SetRole, OrgInv, OrganisationTypeOK, Role
  <2>4. CASE UNCHANGED role
    BY <2>4
  <2>5. ASSUME NEW r \in Request, DeleteOrganisation(r) PROVE FALSE
    BY <2>5 DEF DeleteOrganisation
  <2>6. ASSUME OrganisationStep, ~Found,
               \A r \in Request : ~(WriteInvitee(r) \/ WriteRole(r) \/ WriteRemoval(r))
        PROVE  UNCHANGED role
    BY ZenonT(40), <2>6 DEF OrganisationStep, Create, FoundingFails, Begin, LoadInvitee, LoadMember, Count, Cut
  <2>7. BeginDelete => UNCHANGED role
    BY DEF BeginDelete, Begin
  <2>8. QED
    BY <1>1, <2>1, <2>2, <2>3, <2>4, <2>5, <2>6, <2>7, StepKinds DEF vars, orgVars
<1>2. QED
  BY <1>1, OrgInvariant, PTL DEF Spec, OwnershipFromOwners

(***************************************************************************)
(* The inductive invariant of the content.                                 *)
(***************************************************************************)

Kinds == {"none", "createProject", "updateProject", "languages", "createFormat", "updateFormat"}

Instance == ProjectRow \cup Leaf \cup {NoRow} \cup (SUBSET Lang)

Jobs == [kind : Kinds, on : Project \cup Format \cup {NoRow}, gone : BOOLEAN,
         loaded : Instance, put : Instance, fresh : BOOLEAN, todo : SUBSET Project]

Offers(row) == row.model \in Models[row.provider]

(* What a request about content has in hand: values that may be saved, and,  *)
(* as long as the row it names is there and nobody wrote it, the row as it   *)
(* is.                                                                       *)
ProjectJobOK(x) ==
  /\ x.kind = "createProject" => x.put \in ProjectRow /\ Offers(x.put)
  /\ x.kind = "updateProject" =>
       /\ x.on \in Project /\ x.loaded \in ProjectRow /\ x.put \in ProjectRow /\ Offers(x.put)
       /\ ~x.gone => Alive(x.on) /\ (x.fresh => x.loaded = project[x.on])

LanguagesJobOK(x) ==
  x.kind = "languages" =>
    /\ x.put \in SUBSET Lang
    /\ x.on # NoRow =>
         /\ x.on \in Project /\ x.loaded \in SUBSET Lang
         /\ ~x.gone => Alive(x.on) /\ (x.fresh => x.loaded = langs[x.on])

FormatJobOK(x) ==
  /\ x.kind \in {"createFormat", "updateFormat"} =>
       x.on \in Format /\ x.put \in Leaf /\ ValidRow(x.put)
  /\ x.kind = "updateFormat" =>
       /\ x.loaded \in Leaf
       /\ ~x.gone => x.on \in Formats /\ (x.fresh => x.loaded = format[x.on])

JobOK(x) == ProjectJobOK(x) /\ LanguagesJobOK(x) /\ FormatJobOK(x)

JobsOK == job \in [Job -> Jobs] /\ \A j \in Job : JobOK(job[j])

(* An identifier not handed out has no row, and a project that is not there  *)
(* no file.                                                                  *)
RowsOK ==
  /\ \A p \in unborn : ~Alive(p)
  /\ \A p \in Project : ~Alive(p) => langs[p] = {} /\ owed[p] = {}

ContentInv == JobsOK /\ NamespaceSound /\ RowsOK /\ RowsValidUnlessOverlapped

(* instance.update of an instance that is the row writes what was asked for. *)
LEMMA SavedProject ==
  ASSUME NEW row \in ProjectRow, NEW loaded \in ProjectRow, NEW put \in ProjectRow
  PROVE  /\ Saved(row, loaded, put) \in ProjectRow
         /\ loaded = row => Saved(row, loaded, put) = put
<1> DEFINE names == {"name", "provider", "model"}
<1>1. DOMAIN row = names /\ DOMAIN put = names /\ put = [a \in names |-> put[a]]
  BY DEF ProjectRow
<1>2. Saved(row, loaded, put) = [a \in names |-> IF put[a] # loaded[a] THEN put[a] ELSE row[a]]
  BY <1>1 DEF Saved
<1>3. Saved(row, loaded, put) \in ProjectRow
  BY <1>2 DEF ProjectRow
<1>4. loaded = row => Saved(row, loaded, put) = [a \in names |-> put[a]]
  BY <1>2
<1>5. QED
  BY <1>1, <1>3, <1>4

(* The same of an export format.                                             *)
LEMMA SavedFormat ==
  ASSUME NEW row \in Leaf, NEW loaded \in Leaf, NEW put \in Leaf
  PROVE  /\ Saved(row, loaded, put) \in Leaf
         /\ loaded = row => Saved(row, loaded, put) = put
<1> DEFINE names == {"leaf", "value", "hash"}
<1>1. DOMAIN row = names /\ DOMAIN put = names /\ put = [a \in names |-> put[a]]
  BY DEF Leaf
<1>2. Saved(row, loaded, put) = [a \in names |-> IF put[a] # loaded[a] THEN put[a] ELSE row[a]]
  BY <1>1 DEF Saved
<1>3. Saved(row, loaded, put) \in Leaf
  BY <1>2 DEF Leaf
<1>4. loaded = row => Saved(row, loaded, put) = [a \in names |-> put[a]]
  BY <1>2
<1>5. QED
  BY <1>1, <1>3, <1>4

(* The pair that createProject and updateProject settle on is one the        *)
(* registry offers.                                                          *)
LEMMA PairOffered ==
  ASSUME NEW wanted \in Provider \cup {NoRow}, NEW model, NEW current,
         wanted # NoRow \/ current.provider \in Provider,
         NEW pair \in Pair(wanted, model, current)
  PROVE  pair[1] \in Provider /\ pair[2] \in Models[pair[1]] /\ pair[2] \in Model
BY DEF Pair, Model

(* resolveLeafFields lets a valid leaf through and no other.                 *)
LEMMA LeafFieldsValid ==
  ASSUME NEW in \in LeafInput, NEW cur \in Leaf \cup {NoRow}, NEW l \in LeafFields(in, cur)
  PROVE  l \in Leaf /\ ValidRow(l)
<1> DEFINE Or(x, y) == IF x \in {NoRow, "null"} THEN y ELSE x
           Stored(a) == IF cur = NoRow THEN NoRow ELSE cur[a]
           leaf  == Or(in.leaf, Or(Stored("leaf"), "OBJECT"))
           value == Or(in.value, Or(Stored("value"), "value"))
           hash  == IF in.hash = NoRow THEN Or(Stored("hash"), "hash") ELSE in.hash
<1>1. /\ in.leaf \in {"OBJECT", "STRING", NoRow} /\ in.value \in Field \cup {NoRow}
      /\ in.hash \in Field \cup {"null", NoRow}
  BY DEF LeafInput
<1>2. cur # NoRow => /\ cur["leaf"] \in {"OBJECT", "STRING"}
                     /\ cur["value"] \in Field \cup {"null"} /\ cur["hash"] \in Field \cup {"null"}
  BY DEF Leaf
<1>3. leaf \in {"OBJECT", "STRING"}
  BY <1>1, <1>2, RowAssumption
<1>4. value \in Field /\ value # "null"
  BY <1>1, <1>2, RowAssumption DEF Field
<1>5. hash \in Field \cup {"null"}
  BY <1>1, <1>2, RowAssumption DEF Field
<1>6. l \in IF leaf = "STRING"
              THEN IF in.value = NoRow /\ in.hash = NoRow
                     THEN {[leaf |-> leaf, value |-> "null", hash |-> "null"]} ELSE {}
              ELSE IF hash # value
                     THEN {[leaf |-> leaf, value |-> value, hash |-> hash]} ELSE {}
  BY DEF LeafFields
<1> HIDE DEF leaf, value, hash
<1>7. CASE leaf = "STRING"
  <2>1. l = [leaf |-> leaf, value |-> "null", hash |-> "null"]
    BY <1>6, <1>7
  <2>2. QED
    BY <1>7, <2>1 DEF Leaf, ValidRow
<1>8. CASE leaf # "STRING"
  <2>1. l = [leaf |-> leaf, value |-> value, hash |-> hash] /\ hash # value
    BY <1>6, <1>8
  <2>2. QED
    BY <1>3, <1>4, <1>5, <1>8, <2>1 DEF Leaf, ValidRow
<1>9. QED
  BY <1>7, <1>8

(* A slot without a request about content is well typed and relies on        *)
(* nothing.                                                                  *)
LEMMA NoJobOK == NoJob \in Jobs /\ JobOK(NoJob) /\ NoJob.kind = "none"
<1>1. NoJob.kind = "none"
  BY DEF NoJob
<1>2. NoRow \in Instance /\ "none" \in Kinds
  BY DEF Instance, Kinds
<1>3. NoJob \in Jobs
  BY <1>2 DEF NoJob, Jobs
<1>4. QED
  BY <1>1, <1>3 DEF JobOK, ProjectJobOK, LanguagesJobOK, FormatJobOK

(* A request that goes on holding what it held, at most more out of date,    *)
(* stays correct where the rows it relies on did not change.                 *)
LEMMA KeptJob ==
  ASSUME NEW i \in Job, job[i] \in Jobs, JobOK(job[i]),
         job'[i].kind = job[i].kind, job'[i].on = job[i].on,
         job'[i].loaded = job[i].loaded, job'[i].put = job[i].put,
         job'[i].fresh => job[i].fresh, job[i].gone => job'[i].gone,
         job[i].kind = "updateProject" /\ ~job'[i].gone =>
           /\ Alive(job[i].on)'
           /\ job'[i].fresh => project'[job[i].on] = project[job[i].on],
         job[i].kind = "languages" /\ job[i].on # NoRow /\ ~job'[i].gone =>
           /\ Alive(job[i].on)'
           /\ job'[i].fresh => langs'[job[i].on] = langs[job[i].on],
         job[i].kind = "updateFormat" /\ ~job'[i].gone =>
           /\ job[i].on \in Formats'
           /\ job'[i].fresh => format'[job[i].on] = format[job[i].on]
  PROVE  JobOK(job[i])'
<1>1. ProjectJobOK(job[i])'
  BY DEF JobOK, ProjectJobOK, Alive
<1>2. LanguagesJobOK(job[i])'
  BY DEF JobOK, LanguagesJobOK, Alive
<1>3. FormatJobOK(job[i])'
  BY DEF JobOK, FormatJobOK
<1>4. QED
  BY <1>1, <1>2, <1>3 DEF JobOK

(* A request about content moved on, or ended, and nothing else changed.     *)
LEMMA JobStep ==
  ASSUME ContentInv, NEW j \in Job, NEW x \in Jobs, JobOK(x), job' = [job EXCEPT ![j] = x],
         UNCHANGED <<orgVars, mix, unborn, project, format, langs, owed, tainted>>
  PROVE  ContentInv'
<1>1. job' \in [Job -> Jobs] /\ \A i \in Job : job'[i] = IF i = j THEN x ELSE job[i]
  BY DEF ContentInv, JobsOK
<1>2. \A i \in Job : JobOK(job'[i])
  BY <1>1 DEF ContentInv, JobsOK
<1>3. \A i \in Job : JobOK(job[i])'
  BY <1>2 DEF JobOK, ProjectJobOK, LanguagesJobOK, FormatJobOK, Alive, Formats
<1>4. \A i \in Job : job'[i].kind \in Kinds
  BY <1>1 DEF Jobs
<1>5. NamespaceSound'
  BY <1>4 DEF ContentInv, NamespaceSound, TypeOK, NoOrphans, NamesUnique, OrganisationTypeOK,
              orgVars, Alive, Formats, Kinds
<1>6. RowsOK' /\ RowsValidUnlessOverlapped'
  BY DEF ContentInv, RowsOK, RowsValidUnlessOverlapped, Alive, Formats
<1>7. QED
  BY <1>1, <1>3, <1>5, <1>6 DEF ContentInv, JobsOK

(* The steps that only begin a request, move it on or end it.                *)
LEMMA FinishStep ==
  ASSUME ContentInv, NEW j \in Job, Finish(j),
         UNCHANGED <<orgVars, mix, unborn, project, format, langs, owed, tainted>>
  PROVE  ContentInv'
BY NoJobOK, JobStep DEF Finish

(* createProject got as far as its insert.                                   *)
LEMMA BeginCreateProjectStep ==
  ASSUME ContentInv, NEW j \in Job, NEW n \in Name, BeginCreateProject(j, n) PROVE ContentInv'
<1> DEFINE current == [provider |-> NoRow, model |-> NoRow]
<1>1. PICK v \in Provider, m \in Model \cup {NoRow} :
        \E pair \in Pair(v, m, current) :
          job' = [job EXCEPT ![j] =
                   [NoJob EXCEPT !.kind = "createProject",
                                 !.put = [name |-> n, provider |-> pair[1], model |-> pair[2]]]]
  BY DEF BeginCreateProject
<1>2. PICK pair \in Pair(v, m, current) :
        job' = [job EXCEPT ![j] =
                 [NoJob EXCEPT !.kind = "createProject",
                               !.put = [name |-> n, provider |-> pair[1], model |-> pair[2]]]]
  BY <1>1
<1> DEFINE put == [name |-> n, provider |-> pair[1], model |-> pair[2]]
           x == [NoJob EXCEPT !.kind = "createProject", !.put = put]
<1>3. v # NoRow
  BY RowAssumption
<1>4. pair[1] \in Provider /\ pair[2] \in Models[pair[1]] /\ pair[2] \in Model
  BY <1>3, PairOffered
<1>5. put \in ProjectRow /\ Offers(put)
  BY <1>4 DEF ProjectRow, Offers
<1> HIDE DEF put
<1>6. put \in Instance /\ "createProject" \in Kinds
  BY <1>5 DEF Instance, Kinds
<1>7. x \in Jobs /\ x.kind = "createProject" /\ x.put = put
  BY <1>6, NoJobOK DEF Jobs, NoJob
<1>8. JobOK(x)
  BY <1>5, <1>7 DEF JobOK, ProjectJobOK, LanguagesJobOK, FormatJobOK
<1>9. QED
  BY <1>2, <1>7, <1>8, JobStep DEF BeginCreateProject, put

(* updateProject settled what to save.                                       *)
LEMMA BeginUpdateProjectStep ==
  ASSUME ContentInv, NEW j \in Job, NEW p \in Project, BeginUpdateProject(j, p) PROVE ContentInv'
<1>1. PICK v \in Provider \cup {NoRow}, m \in Model \cup {NoRow}, k \in Name :
        \E pair \in Pair(v, m, project[p]) :
          /\ k = project[p].name \/ (v = NoRow /\ m = NoRow)
          /\ job' = [job EXCEPT ![j] =
               [NoJob EXCEPT !.kind = "updateProject", !.on = p, !.loaded = project[p],
                             !.put = [name |-> k, provider |-> pair[1], model |-> pair[2]]]]
  BY DEF BeginUpdateProject
<1>2. PICK pair \in Pair(v, m, project[p]) :
        job' = [job EXCEPT ![j] =
                 [NoJob EXCEPT !.kind = "updateProject", !.on = p, !.loaded = project[p],
                               !.put = [name |-> k, provider |-> pair[1], model |-> pair[2]]]]
  BY <1>1
<1> DEFINE put == [name |-> k, provider |-> pair[1], model |-> pair[2]]
           x == [NoJob EXCEPT !.kind = "updateProject", !.on = p, !.loaded = project[p],
                              !.put = put]
<1>3. Alive(p) /\ project[p] \in ProjectRow
  BY DEF BeginUpdateProject, Alive, ContentInv, NamespaceSound, TypeOK
<1>4. project[p].provider \in Provider
  BY <1>3 DEF ProjectRow
<1>5. pair[1] \in Provider /\ pair[2] \in Models[pair[1]] /\ pair[2] \in Model
  BY <1>4, PairOffered
<1>6. put \in ProjectRow /\ Offers(put)
  BY <1>5 DEF ProjectRow, Offers
<1> HIDE DEF put
<1>7. put \in Instance /\ project[p] \in Instance /\ "updateProject" \in Kinds
  BY <1>3, <1>6 DEF Instance, Kinds
<1>8. /\ x \in Jobs /\ x.kind = "updateProject" /\ x.put = put /\ x.on = p
      /\ x.loaded = project[p]
  BY <1>7, NoJobOK DEF Jobs, NoJob
<1>9. JobOK(x)
  BY <1>3, <1>6, <1>8 DEF JobOK, ProjectJobOK, LanguagesJobOK, FormatJobOK
<1>10. QED
  BY <1>2, <1>8, <1>9, JobStep DEF BeginUpdateProject, put

(* createFormat or updateFormat settled what to save.                        *)
LEMMA BeginFormatSteps ==
  ASSUME ContentInv, NEW j \in Job, NEW f \in Format,
         BeginCreateFormat(j, f) \/ BeginUpdateFormat(j, f)
  PROVE  ContentInv'
<1>1. CASE BeginCreateFormat(j, f)
  <2>1. PICK in \in LeafInput : \E l \in LeafFields(in, NoRow) :
          job' = [job EXCEPT ![j] = [NoJob EXCEPT !.kind = "createFormat", !.on = f, !.put = l]]
    BY <1>1 DEF BeginCreateFormat
  <2>2. PICK l \in LeafFields(in, NoRow) :
          job' = [job EXCEPT ![j] = [NoJob EXCEPT !.kind = "createFormat", !.on = f, !.put = l]]
    BY <2>1
  <2>3. l \in Leaf /\ ValidRow(l)
    BY LeafFieldsValid
  <2> DEFINE x == [NoJob EXCEPT !.kind = "createFormat", !.on = f, !.put = l]
  <2>4. l \in Instance /\ "createFormat" \in Kinds
    BY <2>3 DEF Instance, Kinds
  <2>5. x \in Jobs /\ x.kind = "createFormat" /\ x.put = l /\ x.on = f
    BY <2>4, NoJobOK DEF Jobs, NoJob
  <2>6. JobOK(x)
    BY <2>3, <2>5 DEF JobOK, ProjectJobOK, LanguagesJobOK, FormatJobOK
  <2>7. QED
    BY <1>1, <2>2, <2>5, <2>6, JobStep DEF BeginCreateFormat
<1>2. CASE BeginUpdateFormat(j, f)
  <2>1. PICK in \in LeafInput : \E l \in LeafFields(in, format[f]) :
          job' = [job EXCEPT ![j] = [NoJob EXCEPT !.kind = "updateFormat", !.on = f,
                                                  !.loaded = format[f], !.put = l]]
    BY <1>2 DEF BeginUpdateFormat
  <2>2. PICK l \in LeafFields(in, format[f]) :
          job' = [job EXCEPT ![j] = [NoJob EXCEPT !.kind = "updateFormat", !.on = f,
                                                  !.loaded = format[f], !.put = l]]
    BY <2>1
  <2>3. f \in Formats /\ format[f] \in Leaf
    BY <1>2 DEF BeginUpdateFormat, Formats, ContentInv, NamespaceSound, TypeOK
  <2>4. l \in Leaf /\ ValidRow(l)
    BY <2>3, LeafFieldsValid
  <2> DEFINE x == [NoJob EXCEPT !.kind = "updateFormat", !.on = f, !.loaded = format[f], !.put = l]
  <2>5. l \in Instance /\ format[f] \in Instance /\ "updateFormat" \in Kinds
    BY <2>3, <2>4 DEF Instance, Kinds
  <2>6. /\ x \in Jobs /\ x.kind = "updateFormat" /\ x.put = l /\ x.on = f
        /\ x.loaded = format[f]
    BY <2>5, NoJobOK DEF Jobs, NoJob
  <2>7. JobOK(x)
    BY <2>3, <2>4, <2>6 DEF JobOK, ProjectJobOK, LanguagesJobOK, FormatJobOK
  <2>8. QED
    BY <1>2, <2>2, <2>6, <2>7, JobStep DEF BeginUpdateFormat
<1>3. QED
  BY <1>1, <1>2

(* addLanguagesAcrossProjects began, loaded the next file, or ended.         *)
LEMMA LanguagesSteps ==
  ASSUME ContentInv, NEW j \in Job,
         \/ \E wanted \in SUBSET Project, add \in (SUBSET Lang) \ {{}} :
              BeginLanguages(j, wanted, add)
         \/ \E p \in Project : LoadFile(j, p)
         \/ EndLanguages(j)
  PROVE  ContentInv'
<1>1. ASSUME NEW wanted \in SUBSET Project, NEW add \in (SUBSET Lang) \ {{}},
             BeginLanguages(j, wanted, add)
      PROVE  ContentInv'
  <2> DEFINE found == {p \in wanted : Alive(p)}
             x == [NoJob EXCEPT !.kind = "languages", !.put = add, !.todo = found]
  <2>1. add \in Instance /\ "languages" \in Kinds /\ found \in SUBSET Project
    BY DEF Instance, Kinds
  <2>2. x \in Jobs /\ x.kind = "languages" /\ x.put = add /\ x.on = NoRow
    BY <2>1, NoJobOK DEF Jobs, NoJob
  <2>3. JobOK(x)
    BY <2>2 DEF JobOK, ProjectJobOK, LanguagesJobOK, FormatJobOK
  <2>4. QED
    BY <1>1, <2>2, <2>3, JobStep DEF BeginLanguages
<1>2. ASSUME NEW p \in Project, LoadFile(j, p) PROVE ContentInv'
  <2> DEFINE rest == job[j].todo \ {p}
             x == [job[j] EXCEPT !.on = p, !.todo = rest, !.loaded = langs[p],
                                 !.fresh = TRUE, !.gone = FALSE]
             y == [job[j] EXCEPT !.todo = rest]
  <2>1. /\ job[j] \in Jobs /\ JobOK(job[j]) /\ job[j].kind = "languages"
        /\ job[j].on = NoRow /\ langs[p] \in SUBSET Lang
    BY <1>2 DEF LoadFile, ContentInv, JobsOK, NamespaceSound, TypeOK
  <2>2. rest \in SUBSET Project /\ langs[p] \in Instance
    BY <2>1 DEF Jobs, Instance
  <2>3. CASE Alive(p) /\ job' = [job EXCEPT ![j] = x]
    <3>1. /\ x \in Jobs /\ x.kind = "languages" /\ x.put = job[j].put /\ x.on = p
          /\ x.loaded = langs[p]
      BY <2>1, <2>2 DEF Jobs
    <3>2. JobOK(x)
      BY <2>1, <2>3, <3>1 DEF JobOK, ProjectJobOK, LanguagesJobOK, FormatJobOK
    <3>3. QED
      BY <1>2, <2>3, <3>1, <3>2, JobStep DEF LoadFile
  <2>4. CASE job' = [job EXCEPT ![j] = y]
    <3>1. y \in Jobs /\ y.kind = "languages" /\ y.put = job[j].put /\ y.on = NoRow
      BY <2>1, <2>2 DEF Jobs
    <3>2. JobOK(y)
      BY <2>1, <3>1 DEF JobOK, ProjectJobOK, LanguagesJobOK, FormatJobOK
    <3>3. QED
      BY <1>2, <2>4, <3>1, <3>2, JobStep DEF LoadFile
  <2>5. \/ Alive(p) /\ job' = [job EXCEPT ![j] = x]
        \/ job' = [job EXCEPT ![j] = y]
    BY <1>2 DEF LoadFile, ContentInv, JobsOK
  <2>6. QED
    BY <2>3, <2>4, <2>5
<1>3. CASE EndLanguages(j)
  BY <1>3, FinishStep DEF EndLanguages
<1>4. QED
  BY <1>1, <1>2, <1>3

(* Two requests that differ in how out of date they are, at most.            *)
Alike(x, y) ==
  x.kind = y.kind /\ x.on = y.on /\ x.loaded = y.loaded /\ x.put = y.put /\ x.todo = y.todo

(* The request in slot j ended.                                              *)
LEMMA EndedJob == ASSUME NEW j \in Job, job'[j] = NoJob PROVE job'[j] \in Jobs /\ JobOK(job[j])'
<1>1. job'[j].kind = "none"
  BY NoJobOK
<1>2. QED
  BY <1>1, NoJobOK DEF JobOK, ProjectJobOK, LanguagesJobOK, FormatJobOK

(* From one slot to all of them.                                             *)
LEMMA JobsTogether ==
  ASSUME DOMAIN job' = Job, job' = [i \in Job |-> job'[i]],
         \A i \in Job : job'[i] \in Jobs /\ JobOK(job[i])'
  PROVE  JobsOK' /\ \A i \in Job : job'[i].kind \in Kinds
BY DEF JobsOK, Jobs

(* The insert of createProject.                                              *)
LEMMA InsertProjectStep ==
  ASSUME ContentInv, NEW j \in Job, InsertProject(j) PROVE ContentInv'
<1>1. CASE ~Accepts(job[j].put.name, NoRow)
  BY <1>1, FinishStep DEF InsertProject
<1>2. CASE Accepts(job[j].put.name, NoRow)
  <2> DEFINE row == job[j].put
  <2>1. PICK p \in Project : /\ p \in unborn /\ unborn' = unborn \ {p}
                             /\ project' = [project EXCEPT ![p] = row]
    BY <1>2 DEF InsertProject
  <2>2. /\ job' = [job EXCEPT ![j] = NoJob]
        /\ UNCHANGED <<orgVars, mix, format, langs, owed, tainted>>
    BY DEF InsertProject, Finish
  <2>3. row \in ProjectRow /\ Offers(row) /\ row # NoRow
    BY RowAssumption DEF InsertProject, ContentInv, JobsOK, JobOK, ProjectJobOK
  <2>4. ~Alive(p) /\ org = "live" /\ langs[p] = {} /\ owed[p] = {}
    BY <1>2, <2>1 DEF Accepts, ContentInv, RowsOK
  <2>5. \A q \in Project : project'[q] = IF q = p THEN row ELSE project[q]
    BY <2>1 DEF ContentInv, NamespaceSound, TypeOK
  <2>6. ASSUME NEW i \in Job PROVE job'[i] \in Jobs /\ JobOK(job[i])'
    <3>1. job[i] \in Jobs /\ JobOK(job[i])
      BY DEF ContentInv, JobsOK
    <3>2. CASE i = j
      BY <2>2, <3>2, EndedJob DEF ContentInv, JobsOK
    <3>3. CASE i # j
      <4>1. job'[i] = job[i]
        BY <2>2, <3>3 DEF ContentInv, JobsOK
      <4>2. job[i].kind = "updateProject" /\ ~job[i].gone =>
              /\ Alive(job[i].on)' /\ project'[job[i].on] = project[job[i].on]
        BY <4>1, <2>3, <2>4, <2>5, <3>1 DEF JobOK, ProjectJobOK, Alive
      <4>3. job[i].kind = "languages" /\ job[i].on # NoRow /\ ~job[i].gone => Alive(job[i].on)'
        BY <4>1, <2>3, <2>4, <2>5, <3>1 DEF JobOK, LanguagesJobOK, Alive
      <4>4. job[i].kind = "updateFormat" /\ ~job[i].gone => job[i].on \in Formats'
        BY <2>2, <3>1 DEF JobOK, FormatJobOK, Formats
      <4>5. QED
        BY <2>2, <3>1, <4>1, <4>2, <4>3, <4>4, KeptJob
    <3>4. QED
      BY <3>2, <3>3
  <2>7. JobsOK' /\ \A i \in Job : job'[i].kind \in Kinds
    BY <2>2, <2>6, JobsTogether DEF ContentInv, JobsOK
  <2>8. TypeOK'
    BY <2>1, <2>2, <2>3, <2>7
       DEF ContentInv, NamespaceSound, TypeOK, OrganisationTypeOK, orgVars, Kinds
  <2>9. NoOrphans'
    BY <2>2, <2>4 DEF NoOrphans, orgVars
  <2>10. NamesUnique'
    <3>1. \A q \in Project : Alive(q) => project[q].name # row.name
      BY <1>2, RowAssumption DEF Accepts, NameTaken
    <3>2. QED
      BY <2>5, <3>1 DEF NamesUnique, Alive, ContentInv, NamespaceSound
  <2>11. RowsOK'
    BY <2>1, <2>2, <2>3, <2>5 DEF ContentInv, RowsOK, Alive, NamespaceSound, TypeOK
  <2>12. RowsValidUnlessOverlapped'
    BY <2>2, <2>3, <2>4, <2>5 DEF ContentInv, RowsValidUnlessOverlapped, Alive, Offers, Formats
  <2>13. QED
    BY <2>7, <2>8, <2>9, <2>10, <2>11, <2>12 DEF ContentInv, NamespaceSound
<1>3. QED
  BY <1>1, <1>2

(* project.update of an instance that may be out of date.                    *)
LEMMA SaveProjectStep ==
  ASSUME ContentInv, NEW j \in Job, SaveProject(j) PROVE ContentInv'
<1> DEFINE p   == job[j].on
           row == Saved(project[p], job[j].loaded, job[j].put)
<1>1. CASE ~(~job[j].gone /\ Accepts(row.name, p))
  BY <1>1, FinishStep DEF SaveProject
<1>2. CASE ~job[j].gone /\ Accepts(row.name, p)
  <2>1. /\ job[j] \in Jobs /\ p \in Project /\ Alive(p)
        /\ job[j].loaded \in ProjectRow /\ job[j].put \in ProjectRow /\ Offers(job[j].put)
        /\ job[j].fresh => job[j].loaded = project[p]
    BY <1>2 DEF SaveProject, ContentInv, JobsOK, JobOK, ProjectJobOK
  <2>2. project[p] \in ProjectRow
    BY <2>1 DEF ContentInv, NamespaceSound, TypeOK, Alive
  <2>3. row \in ProjectRow /\ (job[j].fresh => row = job[j].put)
    BY <2>1, <2>2, SavedProject
  <2>4. /\ project' = [project EXCEPT ![p] = row]
        /\ tainted' = IF job[j].fresh THEN tainted ELSE tainted \cup {p}
        /\ Written(j, p, {"updateProject"}, FALSE)
        /\ UNCHANGED <<orgVars, mix, unborn, format, langs, owed>>
    BY <1>2 DEF SaveProject
  <2>5. row # NoRow /\ org = "live"
    BY <1>2, <2>3, RowAssumption DEF Accepts
  <2> HIDE DEF row
  <2>6. \A q \in Project : project'[q] = IF q = p THEN row ELSE project[q]
    BY <2>4 DEF ContentInv, NamespaceSound, TypeOK
  <2>7. \A q \in Project : Alive(q)' <=> Alive(q)
    BY <2>1, <2>5, <2>6 DEF Alive
  <2>8. ASSUME NEW i \in Job PROVE job'[i] \in Jobs /\ JobOK(job[i])'
    <3>1. job[i] \in Jobs /\ JobOK(job[i])
      BY DEF ContentInv, JobsOK
    <3>2. CASE i = j
      BY <2>4, <3>2, EndedJob DEF Written
    <3>3. CASE i # j /\ p = job[i].on /\ job[i].kind = "updateProject"
      <4>1. job'[i] = [job[i] EXCEPT !.fresh = FALSE, !.gone = job[i].gone \/ FALSE]
        BY <2>4, <3>3 DEF Written
      <4>2. (job[i].gone \/ FALSE) = job[i].gone /\ job[i].gone \in BOOLEAN
        BY <3>1 DEF Jobs
      <4>3. job'[i] \in Jobs /\ Alike(job'[i], job[i]) /\ ~job'[i].fresh /\ job'[i].gone = job[i].gone
        BY <3>1, <4>1, <4>2 DEF Jobs, Alike
      <4>4. Alive(job[i].on)'
        BY <2>1, <2>7, <3>3, <4>3 DEF Alike, Alive
      <4>5. QED
        BY <3>1, <3>3, <4>3, <4>4, KeptJob DEF Alike
    <3>4. CASE i # j /\ ~(p = job[i].on /\ job[i].kind = "updateProject")
      <4>1. job'[i] = job[i]
        BY <2>4, <3>4 DEF Written
      <4>2. job[i].kind = "updateProject" /\ ~job[i].gone =>
              /\ Alive(job[i].on)' /\ project'[job[i].on] = project[job[i].on]
        BY <2>6, <3>1, <3>4, <4>1 DEF JobOK, ProjectJobOK, Alive
      <4>3. job[i].kind = "languages" /\ job[i].on # NoRow /\ ~job[i].gone => Alive(job[i].on)'
        BY <2>7, <3>1, <4>1 DEF JobOK, LanguagesJobOK, Alive
      <4>4. job[i].kind = "updateFormat" /\ ~job[i].gone => job[i].on \in Formats'
        BY <2>4, <3>1 DEF JobOK, FormatJobOK, Formats
      <4>5. QED
        BY <2>4, <3>1, <4>1, <4>2, <4>3, <4>4, KeptJob
    <3>5. QED
      BY <3>2, <3>3, <3>4
  <2>9. JobsOK' /\ \A i \in Job : job'[i].kind \in Kinds
    BY <2>4, <2>8, JobsTogether DEF Written
  <2>10. TypeOK'
    BY <2>1, <2>3, <2>4, <2>9
       DEF ContentInv, NamespaceSound, TypeOK, OrganisationTypeOK, orgVars, Kinds
  <2>11. NoOrphans'
    BY <2>4, <2>5 DEF NoOrphans, orgVars
  <2>12. NamesUnique'
    <3>1. \A q \in Project : Alive(q) /\ q # p => project[q].name # row.name
      BY <1>2 DEF Accepts, NameTaken, row
    <3>2. QED
      BY <2>6, <2>7, <3>1 DEF NamesUnique, Alive, ContentInv, NamespaceSound
  <2>13. RowsOK'
    BY <2>4, <2>7 DEF ContentInv, RowsOK, NamespaceSound, TypeOK
  <2>14. RowsValidUnlessOverlapped'
    <3>1. job[j].fresh => Offers(row)
      BY <2>1, <2>3
    <3>2. ASSUME NEW q \in Project, q \notin tainted', Alive(q)' PROVE Offers(project'[q])
      BY <2>4, <2>6, <2>7, <3>1, <3>2 DEF ContentInv, RowsValidUnlessOverlapped, Offers
    <3>3. \A q \in Project : q \notin tainted' => q \notin tainted
      BY <2>4
    <3>4. \A f \in Format : f \notin tainted' => f \notin tainted
      BY <2>4
    <3>5. QED
      BY <2>4, <2>7, <3>2, <3>3, <3>4 DEF ContentInv, RowsValidUnlessOverlapped, Offers, Formats
  <2>15. QED
    BY <2>9, <2>10, <2>11, <2>12, <2>13, <2>14 DEF ContentInv, NamespaceSound
<1>3. QED
  BY <1>1, <1>2

(* A project and its files were removed.                                     *)
LEMMA DeleteProjectStep ==
  ASSUME ContentInv, NEW p \in Project, DeleteProject(p) PROVE ContentInv'
<1>1. /\ project' = [project EXCEPT ![p] = NoRow]
      /\ langs' = [langs EXCEPT ![p] = {}] /\ owed' = [owed EXCEPT ![p] = {}]
      /\ job' = [i \in Job |->
           [job[i] EXCEPT !.gone = @ \/ (job[i].on = p
                                         /\ job[i].kind \in {"updateProject", "languages"})]]
      /\ UNCHANGED <<orgVars, mix, unborn, format, tainted>>
  BY DEF DeleteProject
<1>2. \A q \in Project : /\ project'[q] = IF q = p THEN NoRow ELSE project[q]
                         /\ langs'[q] = IF q = p THEN {} ELSE langs[q]
                         /\ owed'[q] = IF q = p THEN {} ELSE owed[q]
  BY <1>1 DEF ContentInv, NamespaceSound, TypeOK
<1>3. ASSUME NEW i \in Job PROVE job'[i] \in Jobs /\ JobOK(job[i])'
  <2> DEFINE gone == job[i].gone \/ (job[i].on = p /\ job[i].kind \in {"updateProject", "languages"})
  <2>1. job[i] \in Jobs /\ JobOK(job[i])
    BY DEF ContentInv, JobsOK
  <2>2. gone \in BOOLEAN /\ (job[i].gone => gone)
    BY <2>1 DEF Jobs
  <2>3. job'[i] = [job[i] EXCEPT !.gone = gone]
    BY <1>1
  <2> HIDE DEF gone
  <2>4. /\ job'[i] \in Jobs /\ Alike(job'[i], job[i]) /\ job'[i].fresh = job[i].fresh
        /\ job'[i].gone = gone
    BY <2>1, <2>2, <2>3 DEF Jobs, Alike
  <2>5. job[i].kind = "updateProject" /\ ~job'[i].gone =>
          /\ Alive(job[i].on)' /\ project'[job[i].on] = project[job[i].on]
    BY <1>2, <2>1, <2>2, <2>4 DEF JobOK, ProjectJobOK, Alike, Alive, gone
  <2>6. job[i].kind = "languages" /\ job[i].on # NoRow /\ ~job'[i].gone =>
          /\ Alive(job[i].on)' /\ langs'[job[i].on] = langs[job[i].on]
    BY <1>2, <2>1, <2>2, <2>4 DEF JobOK, LanguagesJobOK, Alike, Alive, gone
  <2>7. job[i].kind = "updateFormat" /\ ~job'[i].gone => job[i].on \in Formats'
    BY <1>1, <2>1, <2>2, <2>4 DEF JobOK, FormatJobOK, Formats
  <2>8. QED
    BY <1>1, <2>1, <2>2, <2>4, <2>5, <2>6, <2>7, KeptJob DEF Alike
<1>4. JobsOK' /\ \A i \in Job : job'[i].kind \in Kinds
  BY <1>1, <1>3, JobsTogether
<1>5. TypeOK'
  BY <1>1, <1>4 DEF ContentInv, NamespaceSound, TypeOK, OrganisationTypeOK, orgVars, Kinds
<1>6. NoOrphans'
  BY <1>1, <1>2 DEF NoOrphans, orgVars, ContentInv, NamespaceSound, Alive, Formats
<1>7. NamesUnique'
  BY <1>2 DEF NamesUnique, Alive, ContentInv, NamespaceSound
<1>8. RowsOK'
  BY <1>1, <1>2 DEF ContentInv, RowsOK, Alive, NamespaceSound, TypeOK
<1>9. RowsValidUnlessOverlapped'
  BY <1>1, <1>2 DEF ContentInv, RowsValidUnlessOverlapped, Alive, Formats
<1>10. QED
  BY <1>4, <1>5, <1>6, <1>7, <1>8, <1>9 DEF ContentInv, NamespaceSound

(* file.update of a list of languages that may be out of date.               *)
LEMMA SaveLanguagesStep ==
  ASSUME ContentInv, NEW j \in Job, SaveLanguages(j) PROVE ContentInv'
<1> DEFINE p == job[j].on
           list == Extended(job[j].loaded, job[j].put)
<1>1. /\ job[j] \in Jobs /\ p \in Project
      /\ job[j].loaded \in SUBSET Lang /\ job[j].put \in SUBSET Lang /\ list \in SUBSET Lang
      /\ ~job[j].gone => Alive(p) /\ (job[j].fresh => job[j].loaded = langs[p])
  BY DEF SaveLanguages, ContentInv, JobsOK, JobOK, LanguagesJobOK, Extended
<1>2. /\ IF ~job[j].gone
           THEN /\ langs' = [langs EXCEPT ![p] = list]
                /\ owed' = [owed EXCEPT ![p] = @ \cup job[j].put]
                /\ tainted' = IF job[j].fresh THEN tainted ELSE tainted \cup {p}
           ELSE UNCHANGED <<langs, owed, tainted>>
      /\ job' = [i \in Job |->
           IF i = j THEN [job[j] EXCEPT !.on = NoRow, !.loaded = NoRow]
           ELSE [job[i] EXCEPT !.fresh = @ /\ ~(job[i].on = p)]]
      /\ UNCHANGED <<orgVars, mix, unborn, project, format>>
  BY DEF SaveLanguages
<1>3. /\ langs \in [Project -> SUBSET Lang] /\ owed \in [Project -> SUBSET Lang]
      /\ tainted \subseteq Project \cup Format
  BY DEF ContentInv, NamespaceSound, TypeOK
<1>4. /\ langs' \in [Project -> SUBSET Lang] /\ owed' \in [Project -> SUBSET Lang]
      /\ tainted' \subseteq Project \cup Format /\ tainted \subseteq tainted'
  BY <1>1, <1>2, <1>3
<1>5. \A q \in Project : q # p => langs'[q] = langs[q] /\ owed'[q] = owed[q]
  BY <1>2, <1>3
<1>6. ASSUME NEW i \in Job PROVE job'[i] \in Jobs /\ JobOK(job[i])'
  <2>1. job[i] \in Jobs /\ JobOK(job[i])
    BY DEF ContentInv, JobsOK
  <2>2. CASE i = j
    <3>1. job'[i] = [job[i] EXCEPT !.on = NoRow, !.loaded = NoRow] /\ NoRow \in Instance
      BY <1>2, <2>2 DEF Instance
    <3>2. /\ job'[i] \in Jobs /\ job'[i].on = NoRow /\ job'[i].put = job[i].put
          /\ job'[i].kind = job[i].kind
      BY <2>1, <3>1 DEF Jobs
    <3>3. job[i].kind = "languages"
      BY <2>2 DEF SaveLanguages
    <3>4. QED
      BY <1>1, <2>2, <3>2, <3>3 DEF JobOK, ProjectJobOK, LanguagesJobOK, FormatJobOK
  <2>3. CASE i # j
    <3> DEFINE fresh == job[i].fresh /\ ~(job[i].on = p)
    <3>1. job'[i] = [job[i] EXCEPT !.fresh = fresh]
      BY <1>2, <2>3
    <3>2. fresh \in BOOLEAN /\ (fresh => job[i].fresh) /\ (fresh => job[i].on # p)
      BY <2>1 DEF Jobs
    <3> HIDE DEF fresh
    <3>3. /\ job'[i] \in Jobs /\ Alike(job'[i], job[i]) /\ job'[i].fresh = fresh
          /\ job'[i].gone = job[i].gone
      BY <2>1, <3>1, <3>2 DEF Jobs, Alike
    <3>4. job[i].kind = "updateProject" /\ ~job'[i].gone =>
            /\ Alive(job[i].on)' /\ project'[job[i].on] = project[job[i].on]
      BY <1>2, <2>1, <3>3 DEF JobOK, ProjectJobOK, Alike, Alive
    <3>5. job[i].kind = "languages" /\ job[i].on # NoRow /\ ~job'[i].gone =>
            /\ Alive(job[i].on)'
            /\ job'[i].fresh => langs'[job[i].on] = langs[job[i].on]
      BY <1>2, <1>5, <2>1, <3>2, <3>3 DEF JobOK, LanguagesJobOK, Alike, Alive
    <3>6. job[i].kind = "updateFormat" /\ ~job'[i].gone => job[i].on \in Formats'
      BY <1>2, <2>1, <3>3 DEF JobOK, FormatJobOK, Formats
    <3>7. QED
      BY <1>2, <2>1, <3>2, <3>3, <3>4, <3>5, <3>6, KeptJob DEF Alike
  <2>4. QED
    BY <2>2, <2>3
<1>7. JobsOK' /\ \A i \in Job : job'[i].kind \in Kinds
  BY <1>2, <1>6, JobsTogether
<1>8. TypeOK'
  BY <1>2, <1>4, <1>7 DEF ContentInv, NamespaceSound, TypeOK, OrganisationTypeOK, orgVars, Kinds
<1>9. Alive(p) \/ UNCHANGED <<langs, owed, tainted>>
  BY <1>1, <1>2
<1>10. NoOrphans'
  BY <1>1, <1>2, <1>5, <1>9 DEF NoOrphans, orgVars, ContentInv, NamespaceSound, Alive, Formats
<1>11. NamesUnique'
  BY <1>2 DEF NamesUnique, Alive, ContentInv, NamespaceSound
<1>12. RowsOK'
  BY <1>1, <1>2, <1>5, <1>9 DEF ContentInv, RowsOK, Alive
<1>13. RowsValidUnlessOverlapped'
  <2>1. ASSUME NEW q \in Project, q \notin tainted', Alive(q)
        PROVE  owed'[q] \subseteq langs'[q]
    <3>1. q \notin tainted /\ owed[q] \subseteq langs[q]
      BY <1>4, <2>1 DEF ContentInv, RowsValidUnlessOverlapped
    <3>2. CASE q # p
      BY <1>5, <3>1, <3>2
    <3>3. CASE q = p /\ ~job[j].gone
      <4>1. job[j].fresh
        BY <1>2, <2>1, <3>3
      <4>2. list = langs[p] \cup job[j].put
        BY <1>1, <3>3, <4>1 DEF Extended
      <4>3. langs'[p] = list /\ owed'[p] = owed[p] \cup job[j].put
        BY <1>1, <1>2, <1>3, <3>3
      <4>4. QED
        BY <3>1, <3>3, <4>2, <4>3
    <3>4. CASE job[j].gone
      BY <1>2, <3>1, <3>4
    <3>5. QED
      BY <3>2, <3>3, <3>4
  <2>2. QED
    BY <1>2, <1>4, <2>1 DEF ContentInv, RowsValidUnlessOverlapped, Alive, Formats
<1>14. QED
  BY <1>7, <1>8, <1>10, <1>11, <1>12, <1>13 DEF ContentInv, NamespaceSound

(* What a step leaves of the projects when it is about formats.              *)
LEMMA ProjectsUntouched ==
  ASSUME ContentInv, UNCHANGED <<orgVars, mix, unborn, project, langs, owed>>,
         \A p \in Project : p \notin tainted' => p \notin tainted,
         format' \in [Format -> Leaf \cup {NoRow}], tainted' \subseteq Project \cup Format,
         org # "deleted", JobsOK', \A i \in Job : job'[i].kind \in Kinds,
         \A f \in Formats' : f \notin tainted' => ValidRow(format'[f])
  PROVE  ContentInv'
<1>1. TypeOK'
  BY DEF ContentInv, NamespaceSound, TypeOK, OrganisationTypeOK, orgVars, Kinds
<1>2. NoOrphans'
  BY DEF NoOrphans, orgVars
<1>3. NamesUnique' /\ RowsOK'
  BY DEF NamesUnique, RowsOK, Alive, ContentInv, NamespaceSound
<1>4. RowsValidUnlessOverlapped'
  BY DEF ContentInv, RowsValidUnlessOverlapped, Alive
<1>5. QED
  BY <1>1, <1>2, <1>3, <1>4 DEF ContentInv, NamespaceSound

(* A request that names another format, or none, is not touched by a step    *)
(* that writes the format f.                                                 *)
LEMMA FormatKept ==
  ASSUME ContentInv, NEW i \in Job, NEW f \in Format,
         UNCHANGED <<project, langs>>,
         \A g \in Format : g # f => format'[g] = format[g],
         job'[i] \in Jobs, Alike(job'[i], job[i]), job'[i].fresh => job[i].fresh,
         job[i].gone => job'[i].gone,
         job[i].kind = "updateFormat" /\ job[i].on = f /\ ~job'[i].gone =>
           f \in Formats' /\ ~job'[i].fresh
  PROVE  JobOK(job[i])'
<1>1. job[i] \in Jobs /\ JobOK(job[i])
  BY DEF ContentInv, JobsOK
<1>2. job[i].kind = "updateProject" /\ ~job'[i].gone => Alive(job[i].on)'
  BY <1>1 DEF JobOK, ProjectJobOK, Alike, Alive
<1>3. job[i].kind = "languages" /\ job[i].on # NoRow /\ ~job'[i].gone => Alive(job[i].on)'
  BY <1>1 DEF JobOK, LanguagesJobOK, Alike, Alive
<1>4. job[i].kind = "updateFormat" /\ ~job'[i].gone =>
        /\ job[i].on \in Formats'
        /\ job'[i].fresh => format'[job[i].on] = format[job[i].on]
  BY <1>1 DEF JobOK, FormatJobOK, Alike, Formats
<1>5. QED
  BY <1>1, <1>2, <1>3, <1>4, KeptJob DEF Alike

(* The insert of createFormat.                                               *)
LEMMA InsertFormatStep ==
  ASSUME ContentInv, NEW j \in Job, InsertFormat(j) PROVE ContentInv'
<1> DEFINE f == job[j].on
<1>1. CASE ~(org = "live" /\ f \notin Formats)
  BY <1>1, FinishStep DEF InsertFormat
<1>2. CASE org = "live" /\ f \notin Formats
  <2>1. f \in Format /\ job[j].put \in Leaf /\ ValidRow(job[j].put) /\ job[j].put # NoRow
    BY RowAssumption DEF InsertFormat, ContentInv, JobsOK, JobOK, FormatJobOK
  <2>2. /\ format' = [format EXCEPT ![f] = job[j].put] /\ job' = [job EXCEPT ![j] = NoJob]
        /\ UNCHANGED <<orgVars, mix, unborn, project, langs, owed, tainted>>
    BY <1>2 DEF InsertFormat, Finish
  <2>3. /\ format' \in [Format -> Leaf \cup {NoRow}] /\ tainted' \subseteq Project \cup Format
        /\ \A g \in Format : format'[g] = IF g = f THEN job[j].put ELSE format[g]
    BY <2>1, <2>2 DEF ContentInv, NamespaceSound, TypeOK
  <2>4. ASSUME NEW i \in Job PROVE job'[i] \in Jobs /\ JobOK(job[i])'
    <3>1. CASE i = j
      BY <2>2, <3>1, EndedJob DEF ContentInv, JobsOK
    <3>2. CASE i # j
      <4>1. job'[i] = job[i] /\ job[i] \in Jobs /\ JobOK(job[i])
        BY <2>2, <3>2 DEF ContentInv, JobsOK
      <4>2. job[i].kind = "updateFormat" /\ ~job[i].gone => job[i].on # f
        BY <1>2, <4>1 DEF JobOK, FormatJobOK
      <4>3. Alike(job'[i], job[i])
        BY <4>1 DEF Alike
      <4>4. QED
        BY <2>1, <2>2, <2>3, <4>1, <4>2, <4>3, FormatKept
    <3>3. QED
      BY <3>1, <3>2
  <2>5. JobsOK' /\ \A i \in Job : job'[i].kind \in Kinds
    BY <2>2, <2>4, JobsTogether DEF ContentInv, JobsOK
  <2>6. \A g \in Formats' : g \notin tainted' => ValidRow(format'[g])
    BY <2>1, <2>2, <2>3 DEF Formats, ContentInv, RowsValidUnlessOverlapped
  <2>7. QED
    BY <1>2, <2>2, <2>3, <2>5, <2>6, ProjectsUntouched
<1>3. QED
  BY <1>1, <1>2

(* format.update of an instance that may be out of date.                     *)
LEMMA SaveFormatStep ==
  ASSUME ContentInv, NEW j \in Job, SaveFormat(j) PROVE ContentInv'
<1> DEFINE f   == job[j].on
           row == Saved(format[f], job[j].loaded, job[j].put)
<1>1. CASE job[j].gone
  BY <1>1, FinishStep DEF SaveFormat
<1>2. CASE ~job[j].gone
  <2>1. /\ f \in Format /\ f \in Formats /\ job[j].put \in Leaf /\ ValidRow(job[j].put)
        /\ job[j].loaded \in Leaf /\ (job[j].fresh => job[j].loaded = format[f])
    BY <1>2 DEF SaveFormat, ContentInv, JobsOK, JobOK, FormatJobOK
  <2>2. format[f] \in Leaf /\ format \in [Format -> Leaf \cup {NoRow}]
    BY <2>1 DEF ContentInv, NamespaceSound, TypeOK, Formats
  <2>3. row \in Leaf /\ (job[j].fresh => row = job[j].put)
    BY <2>1, <2>2, SavedFormat
  <2>4. /\ format' = [format EXCEPT ![f] = row]
        /\ tainted' = IF job[j].fresh THEN tainted ELSE tainted \cup {f}
        /\ Written(j, f, {"updateFormat"}, FALSE)
        /\ UNCHANGED <<orgVars, mix, unborn, project, langs, owed>>
    BY <1>2 DEF SaveFormat
  <2>5. row # NoRow
    BY <2>3, RowAssumption
  <2> HIDE DEF row
  <2>6. /\ format' \in [Format -> Leaf \cup {NoRow}]
        /\ \A g \in Format : format'[g] = IF g = f THEN row ELSE format[g]
    BY <2>1, <2>2, <2>3, <2>4
  <2>7. f \in Formats'
    BY <2>1, <2>5, <2>6 DEF Formats
  <2>8. ASSUME NEW i \in Job PROVE job'[i] \in Jobs /\ JobOK(job[i])'
    <3>1. job[i] \in Jobs
      BY DEF ContentInv, JobsOK
    <3>2. CASE i = j
      BY <2>4, <3>2, EndedJob DEF Written
    <3>3. CASE i # j /\ f = job[i].on /\ job[i].kind = "updateFormat"
      <4>1. job'[i] = [job[i] EXCEPT !.fresh = FALSE, !.gone = job[i].gone \/ FALSE]
        BY <2>4, <3>3 DEF Written
      <4>2. (job[i].gone \/ FALSE) = job[i].gone /\ job[i].gone \in BOOLEAN
        BY <3>1 DEF Jobs
      <4>3. job'[i] \in Jobs /\ Alike(job'[i], job[i]) /\ ~job'[i].fresh /\ job'[i].gone = job[i].gone
        BY <3>1, <4>1, <4>2 DEF Jobs, Alike
      <4>4. QED
        BY <2>1, <2>4, <2>6, <2>7, <4>3, FormatKept
    <3>4. CASE i # j /\ ~(f = job[i].on /\ job[i].kind = "updateFormat")
      <4>1. job'[i] = job[i]
        BY <2>4, <3>4 DEF Written
      <4>2. Alike(job'[i], job[i])
        BY <4>1 DEF Alike
      <4>3. QED
        BY <2>1, <2>4, <2>6, <3>1, <3>4, <4>1, <4>2, FormatKept
    <3>5. QED
      BY <3>2, <3>3, <3>4
  <2>9. JobsOK' /\ \A i \in Job : job'[i].kind \in Kinds
    BY <2>4, <2>8, JobsTogether DEF Written
  <2>10. ASSUME NEW g \in Formats', g \notin tainted' PROVE ValidRow(format'[g])
    <3>1. CASE g = f
      BY <2>1, <2>3, <2>4, <2>6, <2>10, <3>1
    <3>2. CASE g # f
      BY <2>4, <2>6, <2>10, <3>2 DEF Formats, ContentInv, RowsValidUnlessOverlapped
    <3>3. QED
      BY <3>1, <3>2
  <2>11. \A p \in Project : p \notin tainted' => p \notin tainted
    BY <2>4
  <2>12. tainted' \subseteq Project \cup Format
    BY <2>1, <2>4 DEF ContentInv, NamespaceSound, TypeOK
  <2>13. org # "deleted"
    BY <2>1 DEF ContentInv, NamespaceSound, NoOrphans
  <2>14. QED
    BY <2>4, <2>6, <2>9, <2>10, <2>11, <2>12, <2>13, ProjectsUntouched
<1>3. QED
  BY <1>1, <1>2

(* An export format was removed.                                             *)
LEMMA RemoveFormatStep ==
  ASSUME ContentInv, NEW f \in Format, RemoveFormat(f) PROVE ContentInv'
<1>1. /\ format' = [format EXCEPT ![f] = NoRow] /\ tainted' = tainted \ {f}
      /\ job' = [i \in Job |->
           [job[i] EXCEPT !.gone = @ \/ (job[i].on = f /\ job[i].kind = "updateFormat")]]
      /\ UNCHANGED <<orgVars, mix, unborn, project, langs, owed>>
  BY DEF RemoveFormat
<1>2. /\ format' \in [Format -> Leaf \cup {NoRow}] /\ tainted' \subseteq Project \cup Format
      /\ \A g \in Format : format'[g] = IF g = f THEN NoRow ELSE format[g]
  BY <1>1 DEF ContentInv, NamespaceSound, TypeOK
<1>3. ASSUME NEW i \in Job PROVE job'[i] \in Jobs /\ JobOK(job[i])'
  <2> DEFINE gone == job[i].gone \/ (job[i].on = f /\ job[i].kind = "updateFormat")
  <2>1. job[i] \in Jobs
    BY DEF ContentInv, JobsOK
  <2>2. gone \in BOOLEAN /\ (job[i].gone => gone)
    BY <2>1 DEF Jobs
  <2>3. job'[i] = [job[i] EXCEPT !.gone = gone]
    BY <1>1
  <2> HIDE DEF gone
  <2>4. /\ job'[i] \in Jobs /\ Alike(job'[i], job[i]) /\ job'[i].fresh = job[i].fresh
        /\ job'[i].gone = gone
    BY <2>1, <2>2, <2>3 DEF Jobs, Alike
  <2>5. job[i].kind = "updateFormat" /\ job[i].on = f => job'[i].gone
    BY <2>4 DEF gone
  <2>6. QED
    BY <1>1, <1>2, <2>2, <2>4, <2>5, FormatKept
<1>4. JobsOK' /\ \A i \in Job : job'[i].kind \in Kinds
  BY <1>1, <1>3, JobsTogether
<1>5. \A g \in Formats' : g \notin tainted' => ValidRow(format'[g])
  BY <1>1, <1>2 DEF Formats, ContentInv, RowsValidUnlessOverlapped
<1>6. \A p \in Project : p \notin tainted' => p \notin tainted
  BY <1>1, RowAssumption
<1>7. org # "deleted"
  BY DEF RemoveFormat, ContentInv, NamespaceSound, NoOrphans
<1>8. QED
  BY <1>1, <1>2, <1>4, <1>5, <1>6, <1>7, ProjectsUntouched

(* The deletion of the organisation takes everything.                        *)
LEMMA DeleteNamespaceStep ==
  ASSUME ContentInv, OrganisationTypeOK', NEW r \in Request, DeleteNamespace(r)
  PROVE  ContentInv'
<1>1. /\ role' = [p \in Person |-> "none"]
      /\ project' = [p \in Project |-> NoRow]
      /\ format' = [f \in Format |-> NoRow]
      /\ langs' = [p \in Project |-> {}] /\ owed' = [p \in Project |-> {}]
      /\ tainted' = {}
      /\ job' = [j \in Job |-> [job[j] EXCEPT !.gone = TRUE]]
      /\ UNCHANGED <<mix, unborn>>
  BY DEF DeleteNamespace, DeleteOrganisation, Cascade
<1>2. ASSUME NEW i \in Job PROVE job'[i] \in Jobs /\ JobOK(job[i])'
  <2>1. job[i] \in Jobs /\ JobOK(job[i])
    BY DEF ContentInv, JobsOK
  <2>2. job'[i] \in Jobs /\ Alike(job'[i], job[i]) /\ job'[i].fresh = job[i].fresh /\ job'[i].gone
    BY <1>1, <2>1 DEF Jobs, Alike
  <2>3. QED
    BY <2>1, <2>2, KeptJob DEF Alike
<1>3. JobsOK' /\ \A i \in Job : job'[i].kind \in Kinds
  BY <1>1, <1>2, JobsTogether
<1>4. TypeOK'
  BY <1>1, <1>3 DEF ContentInv, NamespaceSound, TypeOK, Kinds
<1>5. (\A p \in Project : ~Alive(p)') /\ Formats' = {}
  BY <1>1 DEF Alive, Formats
<1>6. NoOrphans' /\ NamesUnique'
  BY <1>1, <1>5 DEF NoOrphans, NamesUnique, Alive
<1>7. RowsOK' /\ RowsValidUnlessOverlapped'
  BY <1>1, <1>5 DEF RowsOK, RowsValidUnlessOverlapped, Alive, ContentInv, NamespaceSound, TypeOK
<1>8. QED
  BY <1>3, <1>4, <1>6, <1>7 DEF ContentInv, NamespaceSound

(* The memberships change beside the content, and the organisation is not    *)
(* deleted by it.                                                            *)
LEMMA MembershipsBesideContent ==
  ASSUME ContentInv, UNCHANGED contentVars, OrganisationTypeOK',
         org' = "deleted" => org = "deleted" /\ \A p \in Person : role'[p] = "none"
  PROVE  ContentInv'
<1>1. JobsOK' /\ RowsOK' /\ RowsValidUnlessOverlapped' /\ NamesUnique'
  BY DEF ContentInv, contentVars, JobsOK, JobOK, ProjectJobOK, LanguagesJobOK, FormatJobOK, RowsOK,
         RowsValidUnlessOverlapped, NamesUnique, NamespaceSound, Alive, Formats
<1>2. TypeOK' /\ NoOrphans'
  BY DEF ContentInv, contentVars, NamespaceSound, TypeOK, NoOrphans, Alive, Formats
<1>3. QED
  BY <1>1, <1>2 DEF ContentInv, NamespaceSound

(* Every behaviour starts with content that is in order.                     *)
LEMMA ContentInit == Init => ContentInv
<1> SUFFICES ASSUME Init PROVE ContentInv
  OBVIOUS
<1>1. /\ mix \in {"members", "projects", "formats", "languages"}
      /\ format = [f \in Format |-> NoRow] /\ langs = [p \in Project |-> {}]
      /\ owed = [p \in Project |-> {}] /\ job = [j \in Job |-> NoJob] /\ tainted = {}
  BY DEF Init, InitContent
<1>2. OrganisationTypeOK /\ org # "deleted"
  BY OrgInit DEF OrgInv, Init, InitOrganisation
<1>3. JobsOK
  BY <1>1, NoJobOK DEF JobsOK
<1>4. /\ project \in [Project -> ProjectRow \cup {NoRow}] /\ unborn \subseteq Project
      /\ \A p \in unborn : ~Alive(p)
      /\ NamesUnique
      /\ \A p \in Project : Alive(p) => Offers(project[p])
  <2>1. CASE mix = "languages"
    <3>1. PICK names \in [Project -> Name] :
            /\ \A p, q \in Project : names[p] = names[q] => p = q
            /\ project = [p \in Project |-> [Offered EXCEPT !.name = names[p]]]
      BY <2>1 DEF Init
    <3>2. ASSUME NEW n \in Name
          PROVE  Offered \in ProjectRow /\ Offered.model = DefaultModel[Offered.provider]
      <4>1. PICK v \in Provider : TRUE
        BY RegistryAssumption
      <4>2. DefaultModel[v] \in Model
        BY RegistryAssumption DEF Model
      <4> DEFINE row == [name |-> n, provider |-> v, model |-> DefaultModel[v]]
      <4>3. row \in ProjectRow /\ row.model = DefaultModel[row.provider]
        BY <4>2 DEF ProjectRow
      <4>4. QED
        BY <4>3 DEF Offered
    <3>3. ASSUME NEW p \in Project
          PROVE  project[p] \in ProjectRow /\ Offers(project[p]) /\ project[p].name = names[p]
      <4>1. /\ Offered \in ProjectRow /\ Offered.model \in Models[Offered.provider]
            /\ project[p] = [Offered EXCEPT !.name = names[p]] /\ names[p] \in Name
        BY <3>1, <3>2, RegistryAssumption DEF ProjectRow
      <4>2. QED
        BY <4>1 DEF ProjectRow, Offers
    <3>4. unborn = {}
      BY <2>1 DEF Init
    <3>5. project \in [Project -> ProjectRow \cup {NoRow}]
      BY <3>1, <3>3
    <3>6. QED
      BY <3>1, <3>3, <3>4, <3>5 DEF NamesUnique
  <2>2. CASE mix # "languages"
    BY <2>2 DEF Init, NamesUnique, Alive
  <2>3. QED
    BY <2>1, <2>2
<1>5. TypeOK
  BY <1>1, <1>2, <1>4, NoJobOK DEF TypeOK
<1>6. NoOrphans
  BY <1>2 DEF NoOrphans
<1>7. RowsOK /\ RowsValidUnlessOverlapped
  BY <1>1, <1>4 DEF RowsOK, RowsValidUnlessOverlapped, Offers, Formats
<1>8. QED
  BY <1>3, <1>4, <1>5, <1>6, <1>7 DEF ContentInv, NamespaceSound

(* Every step keeps the invariant of the content, given that of the          *)
(* memberships.                                                              *)
LEMMA ContentStep == ContentInv /\ OrgInv /\ OrgInv' /\ [Next]_vars => ContentInv'
<1> SUFFICES ASSUME ContentInv, OrgInv, OrgInv', [Next]_vars PROVE ContentInv'
  OBVIOUS
<1>1. OrganisationTypeOK' /\ (org' = "deleted" => \A p \in Person : role'[p] = "none")
  BY DEF OrgInv, LifeInv
<1>2. CASE OrganisationStep /\ UNCHANGED contentVars
  <2>1. org' = "deleted" => org = "deleted"
    BY ZenonT(40), <1>2 DEF OrganisationStep, Create, Found, FoundingFails, Begin, LoadInvitee, LoadMember,
                Count, WriteInvitee, WriteRole, WriteRemoval, Cut
  <2>2. QED
    BY <1>1, <1>2, <2>1, MembershipsBesideContent
<1>3. CASE BeginDelete /\ UNCHANGED contentVars
  <2>1. org' = org
    BY <1>3 DEF BeginDelete, Begin
  <2>2. QED
    BY <1>1, <1>3, <2>1, MembershipsBesideContent
<1>4. ASSUME NEW r \in Request, DeleteNamespace(r) PROVE ContentInv'
  BY <1>1, <1>4, DeleteNamespaceStep
<1>5. ASSUME NEW j \in Job,
             \/ \E n \in Name : BeginCreateProject(j, n)
             \/ \E p \in Project : BeginUpdateProject(j, p) \/ LoadFile(j, p)
             \/ InsertProject(j) \/ SaveProject(j)
             \/ \E wanted \in SUBSET Project, add \in (SUBSET Lang) \ {{}} :
                  BeginLanguages(j, wanted, add)
             \/ SaveLanguages(j) \/ EndLanguages(j)
      PROVE  ContentInv'
  BY <1>5, BeginCreateProjectStep, BeginUpdateProjectStep, InsertProjectStep, SaveProjectStep,
     LanguagesSteps, SaveLanguagesStep
<1>6. ASSUME NEW j \in Job,
             \/ \E f \in Format : BeginCreateFormat(j, f) \/ BeginUpdateFormat(j, f)
             \/ InsertFormat(j) \/ SaveFormat(j) \/ CutJob(j)
      PROVE  ContentInv'
  BY <1>6, BeginFormatSteps, InsertFormatStep, SaveFormatStep, FinishStep DEF CutJob
<1>7. ASSUME NEW p \in Project, DeleteProject(p) PROVE ContentInv'
  BY <1>7, DeleteProjectStep
<1>8. ASSUME NEW f \in Format, RemoveFormat(f) PROVE ContentInv'
  BY <1>8, RemoveFormatStep
<1>9. CASE UNCHANGED vars
  BY <1>1, <1>9, MembershipsBesideContent DEF vars, orgVars, OrgInv, LifeInv
<1>10. QED
  BY <1>2, <1>3, <1>4, <1>5, <1>6, <1>7, <1>8, <1>9 DEF Next

(* The invariant of the content holds in every reachable state.              *)
LEMMA ContentInvariant == Spec => []ContentInv
BY OrgInit, OrgStep, ContentInit, ContentStep, PTL DEF Spec

(* Types hold, the organisation's deletion leaves nothing behind, and no two *)
(* projects share a name, for any number of requests however they overlap.   *)
THEOREM NamespaceSoundTheorem == Spec => []NamespaceSound
<1>1. ContentInv => NamespaceSound
  BY DEF ContentInv
<1>2. QED
  BY <1>1, ContentInvariant, PTL

(* A row that no request wrote from an instance that was out of date keeps   *)
(* the rules between its columns, and a file has every language that was     *)
(* reported as added to it.                                                  *)
THEOREM RowsValidTheorem == Spec => []RowsValidUnlessOverlapped
<1>1. ContentInv => RowsValidUnlessOverlapped
  BY DEF ContentInv
<1>2. QED
  BY <1>1, ContentInvariant, PTL

=============================================================================
