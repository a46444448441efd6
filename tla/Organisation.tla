---------------------------- MODULE Organisation ----------------------------
(***************************************************************************)
(* An organisation and its members: org.service.js behind the access       *)
(* resolution of namespace.service.js and the routes of                    *)
(* namespace.routes.js.                                                    *)
(*                                                                         *)
(* A request is a sequence of database statements with nothing around      *)
(* them: the caller's role is read by the middleware, the row it names by  *)
(* the handler, the owners are counted, and the row is written.  Other     *)
(* requests run between any two of these, so each is an action, and what   *)
(* a request has read is a field of req[r].                                *)
(***************************************************************************)
EXTENDS Naturals, FiniteSets

CONSTANTS
  Person,     \* personal accounts
  Request,    \* requests the server has in hand at a time
  NoPerson

(* The account row of the organisation is named by its state, and is not     *)
(* anybody's personal account.                                               *)
ASSUME PersonAssumption ==
  /\ IsFiniteSet(Person) /\ NoPerson \notin Person
  /\ Person \cap {"none", "founding", "live", "deleted"} = {}

VARIABLES
  org,      \* the organisation's account row
  founder,  \* the creator whose membership createOrganization still inserts
  role,     \* role[p]: the role in p's row of org_members, or "none"
  req,      \* req[r]: the request in slot r
  raced     \* history: an owner's row was written on a read that was out of date

orgVars == <<org, founder, role, req, raced>>

Role == {"MEMBER", "ADMIN", "OWNER"}

(* ROLE_RANK; no membership ranks below every role. *)
Rank == [none |-> 0, MEMBER |-> 1, ADMIN |-> 2, OWNER |-> 3]

(* assertRole, as a condition. *)
Holds(held, required) == Rank[held] >= Rank[required]

(* resolveNamespaceAccess: a personal namespace is its owner's alone, an     *)
(* organisation is reached through a membership row.                         *)
Access(p, ns) ==
  IF ns \in Person THEN (IF ns = p THEN "OWNER" ELSE "none")
  ELSE IF org = "live" THEN role[p] ELSE "none"

Owners == {p \in Person : role[p] = "OWNER"}

(* kind: what is asked; by: the caller, where a handler looks at who it is;  *)
(* as: the role the middleware read; member: whom it is about; gone: the     *)
(* membership row it names was removed since; grant: the role asked for;     *)
(* seen: the role in the row the handler loaded; fresh: no role has changed  *)
(* since.                                                                    *)
Idle == [kind |-> "none", by |-> NoPerson, as |-> "none", member |-> NoPerson,
         gone |-> FALSE, grant |-> "none", seen |-> "none", fresh |-> TRUE, at |-> "idle"]

InitOrganisation ==
  /\ org = "none"
  /\ founder = NoPerson
  /\ role = [p \in Person |-> "none"]
  /\ req = [r \in Request |-> Idle]
  /\ raced = FALSE

(***************************************************************************)
(* createOrganization: the account first, its owner's membership second.   *)
(***************************************************************************)

Create(p) ==
  /\ org = "none"
  /\ org' = "founding"
  /\ founder' = p
  /\ UNCHANGED <<role, req, raced>>

Found ==
  /\ org = "founding" /\ founder # NoPerson
  /\ org' = "live"
  /\ role' = [role EXCEPT ![founder] = "OWNER"]
  /\ founder' = NoPerson
  /\ UNCHANGED <<req, raced>>

(* The second insert fails, or the process ends before it: the account stays *)
(* and nobody reaches it.                                                    *)
FoundingFails ==
  /\ founder # NoPerson
  /\ founder' = NoPerson
  /\ UNCHANGED <<org, role, req, raced>>

(***************************************************************************)
(* A request, from its middleware to its last statement.                   *)
(***************************************************************************)

(* Mutant of Permits: the role asked for is not compared with the caller's.  *)
Permits_AnyGrant(kind, held, grant) ==
  CASE kind = "add"    -> Holds(held, "ADMIN")
    [] kind = "role"   -> Holds(held, "ADMIN")
    [] kind = "remove" -> TRUE
    [] kind = "delete" -> Holds(held, "OWNER")

(* What the handlers assert before their first statement. *)
Permits(kind, held, grant) ==
  CASE kind \in {"add", "role"} -> Holds(held, "ADMIN") /\ Holds(held, grant)
    [] kind = "remove"          -> TRUE
    [] kind = "delete"          -> Holds(held, "OWNER")

(* The middleware found the caller's membership. A request about a member    *)
(* names a row the client has seen.                                          *)
Begin(r, p, kind, q, grant) ==
  /\ req[r].at = "idle"
  /\ LET held == Access(p, org) IN
     /\ held # "none"
     /\ Permits(kind, held, grant)
     /\ kind \in {"role", "remove"} => role[q] # "none"
     /\ req' = [req EXCEPT ![r] =
                  [Idle EXCEPT !.kind = kind, !.as = held, !.member = q, !.grant = grant,
                               !.by = IF kind = "remove" THEN p ELSE NoPerson,
                               !.at = IF kind = "delete" THEN "write" ELSE "load"]]
  /\ UNCHANGED <<org, founder, role, raced>>

End(r) == req' = [req EXCEPT ![r] = Idle]

(* addMember finds no membership of the invitee. *)
LoadInvitee(r) ==
  /\ req[r].kind = "add" /\ req[r].at = "load"
  /\ IF role[req[r].member] = "none"
       THEN req' = [req EXCEPT ![r].at = "write", ![r].fresh = TRUE]
       ELSE End(r)
  /\ UNCHANGED <<org, founder, role, raced>>

(* Mutant of NeedsCount: the owners are counted for a demotion only.         *)
NeedsCount_RoleOnly(request, held) ==
  held = "OWNER" /\ request.kind = "role" /\ request.grant # "OWNER"

(* The last-owner guard applies to what may take an owner away. *)
NeedsCount(request, held) ==
  held = "OWNER" /\ (request.kind = "role" => request.grant # "OWNER")

(* updateMemberRole and removeMember load the row. Leaving needs no role,    *)
(* removing somebody else does.                                              *)
LoadMember(r) ==
  /\ req[r].kind \in {"role", "remove"} /\ req[r].at = "load"
  /\ LET q    == req[r].member
         self == req[r].kind = "role" \/ q = req[r].by
     IN
     IF req[r].gone \/ ~(self \/ Holds(req[r].as, "ADMIN"))
       THEN End(r)
       ELSE req' = [req EXCEPT
              ![r].seen = role[q], ![r].fresh = TRUE,
              ![r].at = IF NeedsCount(req[r], role[q]) THEN "count" ELSE "write"]
  /\ UNCHANGED <<org, founder, role, raced>>

Count(r) ==
  /\ req[r].at = "count"
  /\ IF Cardinality(Owners) <= 1 THEN End(r) ELSE req' = [req EXCEPT ![r].at = "write"]
  /\ UNCHANGED <<org, founder, role, raced>>

(* The membership of q becomes held: every read of the roles is now old, and *)
(* a removed row is gone for whoever holds its identifier.                   *)
SetRole(r, q, held) ==
  /\ role' = [role EXCEPT ![q] = held]
  /\ raced' = (raced \/ (role[q] = "OWNER" /\ ~req[r].fresh))
  /\ req' = [s \in Request |->
       IF s = r THEN Idle
       ELSE [req[s] EXCEPT !.fresh = FALSE,
                           !.gone  = @ \/ (held = "none" /\ req[s].member = q
                                           /\ req[s].kind \in {"role", "remove"})]]

(* OrgMember.create: the unique index and the foreign key may still refuse.  *)
WriteInvitee(r) ==
  /\ req[r].kind = "add" /\ req[r].at = "write"
  /\ LET q == req[r].member IN
     IF org = "live" /\ role[q] = "none"
       THEN SetRole(r, q, req[r].grant)
       ELSE End(r) /\ UNCHANGED <<role, raced>>
  /\ UNCHANGED <<org, founder>>

(* membership.update: only a role other than the loaded one is written, and  *)
(* a row removed meanwhile is not found.                                     *)
WriteRole(r) ==
  /\ req[r].kind = "role" /\ req[r].at = "write"
  /\ IF ~req[r].gone /\ req[r].grant # req[r].seen
       THEN SetRole(r, req[r].member, req[r].grant)
       ELSE End(r) /\ UNCHANGED <<role, raced>>
  /\ UNCHANGED <<org, founder>>

(* membership.destroy. *)
WriteRemoval(r) ==
  /\ req[r].kind = "remove" /\ req[r].at = "write"
  /\ IF ~req[r].gone
       THEN SetRole(r, req[r].member, "none")
       ELSE End(r) /\ UNCHANGED <<role, raced>>
  /\ UNCHANGED <<org, founder>>

(* deleteOrganization: the cascade takes the memberships. *)
DeleteOrganisation(r) ==
  /\ req[r].kind = "delete" /\ req[r].at = "write"
  /\ org' = "deleted"
  /\ role' = [p \in Person |-> "none"]
  /\ req' = [s \in Request |->
       IF s = r THEN Idle
       ELSE [req[s] EXCEPT !.fresh = FALSE, !.gone = @ \/ req[s].kind \in {"role", "remove"}]]
  /\ UNCHANGED <<founder, raced>>

(* A statement fails and the request is answered with an error, or the       *)
(* server restarts: the request has no further step.                         *)
Cut(r) ==
  /\ req[r].at # "idle"
  /\ End(r)
  /\ UNCHANGED <<org, founder, role, raced>>

(* Every step but the deletion, which takes more than memberships. *)
OrganisationStep ==
  \/ \E p \in Person : Create(p)
  \/ Found \/ FoundingFails
  \/ \E r \in Request :
       \/ \E p, q \in Person, grant \in Role : Begin(r, p, "add", q, grant)
       \/ \E p, q \in Person, grant \in Role : Begin(r, p, "role", q, grant)
       \/ \E p, q \in Person : Begin(r, p, "remove", q, "none")
       \/ LoadInvitee(r) \/ LoadMember(r) \/ Count(r)
       \/ WriteInvitee(r) \/ WriteRole(r) \/ WriteRemoval(r)
       \/ Cut(r)

(* Bound: one deletion is under way at a time. *)
BeginDelete ==
  /\ \A r \in Request : req[r].kind # "delete"
  /\ \E r \in Request, p \in Person : Begin(r, p, "delete", NoPerson, "none")

(***************************************************************************)
(* Properties.                                                             *)
(***************************************************************************)

Requests ==
  [kind : {"none", "add", "role", "remove", "delete"}, by : Person \cup {NoPerson},
   as : Role \cup {"none"}, member : Person \cup {NoPerson}, gone : BOOLEAN,
   grant : Role \cup {"none"}, seen : Role \cup {"none"}, fresh : BOOLEAN,
   at : {"idle", "load", "count", "write"}]

OrganisationTypeOK ==
  /\ org \in {"none", "founding", "live", "deleted"}
  /\ founder \in Person \cup {NoPerson}
  /\ role \in [Person -> Role \cup {"none"}]
  /\ req \in [Request -> Requests]
  /\ raced \in BOOLEAN

(* "An organization always keeps at least one owner" (requirements.md,       *)
(* FR-18), as far as the guards of updateMemberRole and removeMember carry   *)
(* it: an organisation loses its last owner only to a request whose count or *)
(* row was out of date when it wrote.                                        *)
OwnerKeptUnlessRaced == org = "live" /\ ~raced => Owners # {}

(* FR-18 as it is written. *)
OwnerKept == org = "live" => Owners # {}

(* "Nobody may grant a role above their own" (FR-17), and so nobody reaches  *)
(* OWNER but by creating the organisation or through the request of somebody *)
(* who was an owner when it began, however requests overlap.                 *)
OwnershipFromOwners ==
  [][\A p \in Person :
       role[p] # "OWNER" /\ role'[p] = "OWNER" =>
         \/ p = founder
         \/ \E r \in Request : req[r].as = "OWNER" /\ req[r].member = p]_orgVars
=============================================================================
