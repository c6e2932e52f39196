---------------------------- MODULE Capabilities ----------------------------
(***************************************************************************)
(* The capability service: the skills an assignment line asks for, beside  *)
(* those its site asks for, and how revisions and replacements carry them. *)
(* The employee service records who has a skill, the operations service    *)
(* what a site asks for, at any time and of any period.  A requirement is  *)
(* archived, never deleted, and none of its changes moves the version of   *)
(* the period.                                                             *)
(***************************************************************************)
EXTENDS Workforce

CONSTANT Skill

VARIABLES
  demand,  \* assignment_skill_requirements: pairs of a row and a skill
  retired, \* the pairs whose requirement is archived
  offered, \* skills.active
  skilled, \* employee_skills: pairs of an employee and a skill
  lapsed,  \* the pairs whose record is archived
  asked    \* staffing_requirements: pairs of a site and a skill

recordVars == <<skilled, lapsed, asked>>
capabilityVars == <<demand, retired, offered, skilled, lapsed, asked>>
allVars == <<vars, demand, retired, offered, skilled, lapsed, asked>>

CapabilityTypeOK ==
  /\ TypeOK
  /\ demand \cup retired \subseteq RowId \X Skill
  /\ demand \cap retired = {}
  /\ offered \subseteq Skill
  /\ skilled \cup lapsed \subseteq Employee \X Skill
  /\ skilled \cap lapsed = {}
  /\ asked \subseteq Site \X Skill

Wanted(k) == {s \in Skill : <<k, s>> \in demand}

SkillsOf(e) == {s \in Skill : <<e, s>> \in skilled}
SiteSkills(p) == {s \in Skill : <<p, s>> \in asked}

EffectiveRequirements(k) == Wanted(k) \cup SiteSkills(row[k].work.site)

MissingSkills(k) == EffectiveRequirements(k) \ SkillsOf(row[k].work.employee)

WarningsForPeriod(id) == {<<k, MissingSkills(k)>> : k \in {j \in LiveRows(id) : MissingSkills(j) # {}}}

-----------------------------------------------------------------------------
Manageable(k) == Live(k) /\ period[k[1]].status = "DRAFT"

AddAssignmentRequirement(k, s) ==
  /\ Manageable(k)
  /\ s \in offered
  /\ <<k, s>> \notin demand \cup retired
  /\ demand' = demand \cup {<<k, s>>}
  /\ UNCHANGED <<vars, retired, offered, recordVars>>

ArchiveAssignmentRequirement(k, s) ==
  /\ Manageable(k)
  /\ s \in Wanted(k)
  /\ demand' = demand \ {<<k, s>>}
  /\ retired' = retired \cup {<<k, s>>}
  /\ UNCHANGED <<vars, offered, recordVars>>

SetSkillActive(s, active) ==
  /\ offered' = IF active THEN offered \cup {s} ELSE offered \ {s}
  /\ UNCHANGED <<vars, demand, retired, recordVars>>

-----------------------------------------------------------------------------
(* The records the services of employees and of operations keep *)

AddEmployeeSkill(e, s) ==
  /\ employed[e]
  /\ s \in offered
  /\ <<e, s>> \notin skilled \cup lapsed
  /\ skilled' = skilled \cup {<<e, s>>}
  /\ UNCHANGED <<vars, demand, retired, offered, lapsed, asked>>

ArchiveEmployeeSkill(e, s) ==
  /\ <<e, s>> \in skilled
  /\ skilled' = skilled \ {<<e, s>>}
  /\ lapsed' = lapsed \cup {<<e, s>>}
  /\ UNCHANGED <<vars, demand, retired, offered, asked>>

ReactivateEmployeeSkill(e, s) ==
  /\ s \in offered
  /\ <<e, s>> \in lapsed
  /\ skilled' = skilled \cup {<<e, s>>}
  /\ lapsed' = lapsed \ {<<e, s>>}
  /\ UNCHANGED <<vars, demand, retired, offered, asked>>

(* A client's, project's or location's requirement concerns some of the client's sites. *)
AddSiteRequirement(c, sites, s) ==
  /\ clientLive[c]
  /\ \A p \in sites : OwnerOf[p] = c
  /\ s \in offered
  /\ asked' = asked \cup (sites \X {s})
  /\ UNCHANGED <<vars, demand, retired, offered, skilled, lapsed>>

(* The sites are those no other requirement for the skill concerns. *)
ArchiveSiteRequirement(sites, s) ==
  /\ asked' = asked \ (sites \X {s})
  /\ UNCHANGED <<vars, demand, retired, offered, skilled, lapsed>>

RecordsNext ==
  \/ \E e \in Employee, s \in Skill :
       AddEmployeeSkill(e, s) \/ ArchiveEmployeeSkill(e, s) \/ ReactivateEmployeeSkill(e, s)
  \/ \E c \in Client, sites \in SUBSET Site, s \in Skill : AddSiteRequirement(c, sites, s)
  \/ \E sites \in SUBSET Site, s \in Skill : ArchiveSiteRequirement(sites, s)

-----------------------------------------------------------------------------
(* Mutant of Inherited: the copies start without requirements. *)
Disinherited(src, new) == demand

(* Copies take the requirements that are not archived. *)
Inherited(src, new) ==
  demand \cup {<<<<new, d[1][2]>>, d[2]>> : d \in {c \in demand : c[1] \in LiveRows(src)}}

(* A line l that joins the row k; replacing, l = k[2], adds nothing. *)
Joined(demands, k, l) ==
  demands \cup {<<<<k[1], l>>, s>> : s \in {t \in Skill : <<k, t>> \in demands}}

CarryInPlace(k, e, l) ==
  /\ ReplaceInPlace(k, e, l)
  /\ demand' = Joined(demand, k, l)
  /\ UNCHANGED <<retired, offered, recordVars>>

CarryIntoRevision(k, e, l, r) ==
  LET new == <<k[1][1], r>> IN
  /\ ReplaceInRevision(k, e, l, r)
  /\ demand' = Joined(Inherited(k[1], new), <<new, k[2]>>, l)
  /\ UNCHANGED <<retired, offered, recordVars>>

Revise(id, r) ==
  /\ CreateRevision(id, period[id].version, r)
  /\ demand' = Inherited(id, <<id[1], r>>)
  /\ UNCHANGED <<retired, offered, recordVars>>

CapabilityInit ==
  /\ Init
  /\ demand = {}
  /\ retired = {}
  /\ offered = Skill
  /\ skilled = {}
  /\ lapsed = {}
  /\ asked = {}

CapabilityNext ==
  \/ /\ EditingNext \/ LeaveNext \/ OutsourcingNext \/ DirectoryNext
     /\ UNCHANGED capabilityVars
  \/ \E id \in PeriodId, r \in Revision : Revise(id, r)
  \/ \E k \in RowId, e \in Employee, l \in Line : CarryInPlace(k, e, l)
  \/ \E k \in RowId, e \in Employee, l \in Line, r \in Revision : CarryIntoRevision(k, e, l, r)
  \/ \E k \in RowId, s \in Skill : AddAssignmentRequirement(k, s)
  \/ \E k \in RowId, s \in Skill : ArchiveAssignmentRequirement(k, s)
  \/ \E s \in Skill, active \in BOOLEAN : SetSkillActive(s, active)
  \/ RecordsNext

CapabilitySpec == CapabilityInit /\ [][CapabilityNext]_allVars

-----------------------------------------------------------------------------
(***************************************************************************)
(* Work carries its requirements: every line a new revision is born with,  *)
(* the one that joins included, asks for what some live line of the same   *)
(* work asked for, and no archived requirement comes back.  What a         *)
(* published revision asks for is history, though requirements move        *)
(* without the period's version and a draft may be published meanwhile;    *)
(* its warnings move with the records of employees and sites, and with     *)
(* nothing else.                                                           *)
(***************************************************************************)
Sources(k, w) ==
  {j \in RowId : Live(j) /\ Current(j[1]) /\ j[1][1] = k[1][1] /\ For(row[j].work.employee, w) = row[j].work}

DemandFollowsWork ==
  [][\A k \in RowId :
       /\ period[k[1]].status = "ABSENT" /\ row'[k].state = "LIVE" =>
            \E j \in Sources(k, row'[k].work) : Wanted(k)' = Wanted(j)
       /\ period[k[1]].status = "PUBLISHED" =>
            /\ Wanted(k)' = Wanted(k)
            /\ UNCHANGED recordVars => WarningsForPeriod(k[1])' = WarningsForPeriod(k[1])]_allVars
=============================================================================
