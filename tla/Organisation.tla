---------------------------- MODULE Organisation ----------------------------
(***************************************************************************)
(* Teams, job titles and skills, and who belongs to them: the catalogue,   *)
(* profile and employee-skill services of a super-administrator.  A call   *)
(* reads the record it changes, checks what it refers to and writes; the   *)
(* write takes effect if the version read is still the one there is.  Only *)
(* the name of a catalogue record is locked, from before the search for    *)
(* another of that name to the end of the transaction.                     *)
(***************************************************************************)
EXTENDS FiniteSets

CONSTANTS
  Entry,      \* teams, designations and skills
  KindOf,     \* the catalogue of an entry
  Name,       \* names as normalizeCatalogueName makes them: without case and spacing
  Member,     \* employees with a profile
  Admins,     \* those who are administrators
  OrgCall     \* calls in flight

EntryKind == {"team", "designation", "skill"}
ASSUME OrganisationAssumption == KindOf \in [Entry -> EntryKind] /\ Admins \subseteq Member

VARIABLES
  entry,      \* teams, designations, skills
  member,     \* employee_profiles, with users.active
  recorded,   \* employee_skills
  teamGrant,    \* admin_scope_grants of a team
  orgCall

records == <<entry, member, recorded, teamGrant>>
organisationVars == <<records, orgCall>>

NoEntry == [name |-> "none"]
NoOne == "none"
Missing == "missing"
NoOrgCall == [op |-> "none"]

EntriesOf(kind) == {e \in Entry : KindOf[e] = kind}
Exists(e) == entry[e] # NoEntry
Active(e) == Exists(e) /\ entry[e].active
Belonging == {"team", "designation"}   \* the fields of a profile that name an entry

(* listTeamOptions: the catalogue, and what profiles and grants still refer to. *)
TeamOptions ==
  {e \in EntriesOf("team") : Exists(e) \/ \E m \in Member : member[m].team = e \/ teamGrant[m][e] # Missing}

(* The job titles a profile's form offers: the active ones, and its own. *)
DesignationOptions(m) ==
  {e \in EntriesOf("designation") : Active(e) \/ member[m].designation = e}

-----------------------------------------------------------------------------
(* Whom a reader sees: super-administrators all, administrators their teams, others themselves. *)
Reads(actor, m) ==
  \/ actor.role = "SUPER_ADMIN"
  \/ actor.id = m
  \/ actor.role = "ADMIN" /\ member[m].team \in actor.teams
Profiles(actor) ==
  CASE actor.role = "SUPER_ADMIN" -> Member
    [] actor.role = "ADMIN" -> {m \in Member : member[m].team \in actor.teams}
    [] OTHER -> {actor.id} \cap Member
(* An administrator gets the narrow projection of others. *)
Narrow(actor, m) == actor.role = "ADMIN" /\ actor.id # m
Holders(actor, s) ==
  {m \in Profiles(actor) : recorded[m][s] = "current" /\ actor.role # "EMPLOYEE"}
Catalogue(actor, kind, archived) ==
  {e \in EntriesOf(kind) : Exists(e) /\ ((actor.role = "SUPER_ADMIN" /\ archived) \/ entry[e].active)}
RecordedOf(actor, m, archived) ==
  {s \in EntriesOf("skill") :
     /\ Reads(actor, m)
     /\ recorded[m][s] \in {"current"} \cup IF archived /\ actor.role = "SUPER_ADMIN" THEN {"archived"} ELSE {}}

-----------------------------------------------------------------------------
(* Calls *)

InFlight(x) == orgCall[x] # NoOrgCall
Runs(x, op) == InFlight(x) /\ orgCall[x].op = op
On(x, target) == InFlight(x) /\ orgCall[x].target = target

Read(x, op, target, to) ==
  /\ ~InFlight(x)
  /\ orgCall' = [orgCall EXCEPT ![x] = [op |-> op, target |-> target, to |-> to, stage |-> "read", fresh |-> TRUE]]
  /\ UNCHANGED records

\* The call ends; whoever read the record it wrote holds an old version of it.
Written(x) ==
  orgCall' = [y \in OrgCall |->
    IF y = x THEN NoOrgCall
    ELSE IF On(y, orgCall[x].target) THEN [orgCall[y] EXCEPT !.fresh = FALSE] ELSE orgCall[y]]

\* Nothing is written: a check failed, or the version has moved on.
Refuse(x) == orgCall' = [orgCall EXCEPT ![x] = NoOrgCall] /\ UNCHANGED records

CreateEntry(x, e, n) ==
  /\ ~Exists(e) /\ \A y \in OrgCall : ~On(y, <<"entry", e>>)
  /\ Read(x, "create", <<"entry", e>>, n)
RenameEntry(x, e, n) == Exists(e) /\ Read(x, "rename", <<"entry", e>>, n)
\* Teams are never archived.
SetEntryActive(x, e, to) ==
  Exists(e) /\ KindOf[e] # "team" /\ Read(x, "setActive", <<"entry", e>>, to)

Naming(x) == InFlight(x) /\ orgCall[x].op \in {"create", "rename"}
EntryOf(x) == orgCall[x].target[2]

(* Mutant of NameLocked: no call waits for another. *)
NeverLocked(x) == FALSE
NameLocked(x) ==
  \E y \in OrgCall \ {x} :
    /\ Naming(y) /\ orgCall[y].stage = "named"
    /\ orgCall[y].to = orgCall[x].to /\ KindOf[EntryOf(y)] = KindOf[EntryOf(x)]

Duplicate(x) ==
  \E e \in Entry \ {EntryOf(x)} :
    Exists(e) /\ KindOf[e] = KindOf[EntryOf(x)] /\ entry[e].name = orgCall[x].to

\* The lock on the name, then the search among what is committed.
LockName(x) ==
  /\ Naming(x) /\ orgCall[x].stage = "read" /\ ~NameLocked(x)
  /\ IF Duplicate(x) THEN Refuse(x)
     ELSE orgCall' = [orgCall EXCEPT ![x].stage = "named"] /\ UNCHANGED records

WriteName(x) ==
  /\ Naming(x) /\ orgCall[x].stage = "named" /\ orgCall[x].fresh
  /\ LET e == EntryOf(x) IN
     entry' = [entry EXCEPT ![e] = [name |-> orgCall[x].to, active |-> Exists(e) => entry[e].active]]
  /\ Written(x) /\ UNCHANGED <<member, recorded, teamGrant>>

WriteEntryActive(x) ==
  /\ Runs(x, "setActive") /\ orgCall[x].fresh
  /\ entry' = [entry EXCEPT ![EntryOf(x)].active = (orgCall[x].to = "active")]
  /\ Written(x) /\ UNCHANGED <<member, recorded, teamGrant>>

(***************************************************************************)
(* Members.  A new job title must be active; the one a member has stays,   *)
(* archived or not.  A removal names what the page showed.                 *)
(***************************************************************************)
Assign(x, m, e) ==
  /\ IF KindOf[e] = "team" THEN e \in TeamOptions
     ELSE KindOf[e] = "designation" /\ e \in DesignationOptions(m)
  /\ Read(x, KindOf[e], <<"member", m>>, e)
Remove(x, m, e) ==
  /\ KindOf[e] \in Belonging /\ member[m][KindOf[e]] = e
  /\ Read(x, KindOf[e], <<"member", m>>, NoOne)
WriteAssignment(x) ==
  /\ InFlight(x) /\ orgCall[x].op \in Belonging /\ orgCall[x].fresh
  /\ member' = [member EXCEPT ![orgCall[x].target[2]][orgCall[x].op] = orgCall[x].to]
  /\ Written(x) /\ UNCHANGED <<entry, recorded, teamGrant>>

\* Contact details and location, by the member or by a super-administrator.
EditProfile(x, m) == Read(x, "profile", <<"member", m>>, NoOne)
WriteProfile(x) == Runs(x, "profile") /\ orgCall[x].fresh /\ Written(x) /\ UNCHANGED records

SetEmployeeActive(x, m, to) == Read(x, "employ", <<"member", m>>, to)
WriteEmployeeActive(x) ==
  /\ Runs(x, "employ") /\ orgCall[x].fresh
  /\ member' = [member EXCEPT ![orgCall[x].target[2]].active = (orgCall[x].to = "active")]
  /\ Written(x) /\ UNCHANGED <<entry, recorded, teamGrant>>

(***************************************************************************)
(* Skills of a member: one row each, archived and reactivated.             *)
(***************************************************************************)
AddSkill(x, m, s) ==
  /\ member[m].active /\ Active(s) /\ recorded[m][s] = Missing
  /\ Read(x, "addSkill", <<"skill", m, s>>, "current")
EditSkill(x, m, s) == recorded[m][s] # Missing /\ Read(x, "editSkill", <<"skill", m, s>>, recorded[m][s])
SetSkillArchived(x, m, s, archived) ==
  /\ recorded[m][s] # Missing /\ (~archived => Active(s))
  /\ Read(x, "editSkill", <<"skill", m, s>>, IF archived THEN "archived" ELSE "current")
WriteSkill(x) ==
  /\ \/ Runs(x, "addSkill") /\ recorded[orgCall[x].target[2]][orgCall[x].target[3]] = Missing  \* the unique key
     \/ Runs(x, "editSkill") /\ orgCall[x].fresh
  /\ recorded' = [recorded EXCEPT ![orgCall[x].target[2]][orgCall[x].target[3]] = orgCall[x].to]
  /\ Written(x) /\ UNCHANGED <<entry, member, teamGrant>>

(***************************************************************************)
(* The team scopes of an administrator.                                    *)
(***************************************************************************)
GrantTeam(x, m, t) ==
  /\ m \in Admins /\ member[m].active /\ teamGrant[m][t] # "live"
  /\ Read(x, "grant", <<"grant", m, t>>, teamGrant[m][t])
\* A first grant inserts a row, another one reactivates the row read.
WriteGrant(x) ==
  /\ Runs(x, "grant")
  /\ LET m == orgCall[x].target[2]  t == orgCall[x].target[3] IN
     /\ IF orgCall[x].to = Missing THEN teamGrant[m][t] = Missing ELSE orgCall[x].fresh
     /\ teamGrant' = [teamGrant EXCEPT ![m][t] = "live"]
  /\ Written(x) /\ UNCHANGED <<entry, member, recorded>>
\* The row of the grant is locked: one step.
RevokeTeam(x, m, t) ==
  /\ ~InFlight(x) /\ teamGrant[m][t] = "live"
  /\ teamGrant' = [teamGrant EXCEPT ![m][t] = "revoked"]
  /\ orgCall' = [y \in OrgCall |-> IF On(y, <<"grant", m, t>>) THEN [orgCall[y] EXCEPT !.fresh = FALSE] ELSE orgCall[y]]
  /\ UNCHANGED <<entry, member, recorded>>

OrganisationInit ==
  /\ entry = [e \in Entry |-> NoEntry]
  /\ member = [m \in Member |-> [team |-> NoOne, designation |-> NoOne, active |-> TRUE]]
  /\ recorded = [m \in Member |-> [s \in EntriesOf("skill") |-> Missing]]
  /\ teamGrant = [m \in Member |-> [t \in EntriesOf("team") |-> Missing]]
  /\ orgCall = [x \in OrgCall |-> NoOrgCall]

CatalogueStep(x) ==
  \/ \E e \in Entry, n \in Name : CreateEntry(x, e, n) \/ RenameEntry(x, e, n)
  \/ LockName(x) \/ WriteName(x) \/ WriteEntryActive(x)
  \/ \E e \in Entry, to \in {"active", "archived"} : SetEntryActive(x, e, to)
ProfileStep(x) ==
  \/ \E m \in Member, e \in Entry : Assign(x, m, e) \/ Remove(x, m, e)
  \/ \E m \in Member : EditProfile(x, m) \/ \E to \in {"active", "inactive"} : SetEmployeeActive(x, m, to)
  \/ WriteAssignment(x) \/ WriteProfile(x) \/ WriteEmployeeActive(x)
SkillStep(x) ==
  \/ \E m \in Member, s \in EntriesOf("skill") :
       AddSkill(x, m, s) \/ EditSkill(x, m, s) \/ \E archived \in BOOLEAN : SetSkillArchived(x, m, s, archived)
  \/ WriteSkill(x)
GrantStep(x) ==
  \/ \E m \in Member, t \in EntriesOf("team") : GrantTeam(x, m, t) \/ RevokeTeam(x, m, t)
  \/ WriteGrant(x)
OrganisationNext ==
  \E x \in OrgCall :
    \/ CatalogueStep(x) \/ ProfileStep(x) \/ SkillStep(x) \/ GrantStep(x)
    \/ InFlight(x) /\ Refuse(x)
OrganisationSpec == OrganisationInit /\ [][OrganisationNext]_organisationVars

-----------------------------------------------------------------------------
(***************************************************************************)
(* Two records of a kind never have names that differ in case or spacing   *)
(* only, however creations, renamings and archivings overlap.  The unique  *)
(* indexes compare spellings and would let them pass.                      *)
(***************************************************************************)
NamesStayUnique ==
  \A e, f \in Entry : e # f /\ Exists(e) /\ Exists(f) /\ KindOf[e] = KindOf[f] => entry[e].name # entry[f].name
=============================================================================
