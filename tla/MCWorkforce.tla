---------------------------- MODULE MCWorkforce ----------------------------
(***************************************************************************)
(* Small instances of Workforce with the capability service and the        *)
(* reports on top.  Every plan belongs to the client of the same name and  *)
(* a site is named after its client.  Versions, which grow without bound   *)
(* but decide nothing here, are hidden by the view.                        *)
(*                                                                         *)
(* An instance is checked in slices, chosen once and for all: "plans" is   *)
(* scheduling of two clients on one line each; "revisions" is scheduling   *)
(* of one client on two lines; "directory" adds leave, archiving and       *)
(* deactivation but plans one employee for one client; "skills" is one     *)
(* client's morning work with requirements and the records they are held   *)
(* against; "report" is one employee's morning and leave with a report     *)
(* that asks for both; "people" is scheduling, leave and bookings.         *)
(***************************************************************************)
EXTENDS Reports, TLC

CONSTANTS acme, bell   \* clients, plans and sites
CONSTANTS ann, ben     \* employees
CONSTANTS l1, l2        \* lines
CONSTANTS q1, q2        \* leave requests
CONSTANT  guard        \* a skill
CONSTANT  Slices

VARIABLE slice

MCClientOf == [p \in Plan |-> p]
MCOwnerOf  == [s \in Site |-> s]
MCOneDay   == [p \in Plan |-> {1}]
MCTwoDays  == [p \in Plan |-> {1, 2}]
MCYearOf   == [d \in Date |-> 2026]

OnlyAcme == \A id \in PeriodId : id[1] # acme => period[id] = NoPeriod
OneLine == \A k \in RowId : k[2] # l1 => row[k] = NoRow
TwoRevisions == \A id \in PeriodId : id[2] > 2 => period[id] = NoPeriod
Mornings == \A k \in RowId : row[k] # NoRow => row[k].work.start = 8 /\ row[k].work.end = 12
OnlyAnn ==
  /\ \A k \in RowId : row[k] # NoRow => row[k].work.employee = ann
  /\ \A l \in LeaveId : leave[l] # NoLeave => leave[l].employee = ann
FewRecords ==
  /\ Cardinality({d \in demand \cup retired : d[1][1][2] = 1}) <= 1
  /\ Cardinality(skilled \cup lapsed) + Cardinality(asked) <= 1
  /\ asked \subseteq {acme} \X Skill

MCInit ==
  /\ ReportInit
  /\ report = AskedOf(1, 8, 12)
  /\ slice \in Slices

PlansStep ==
  /\ slice = "plans"
  /\ SchedulingNext
  /\ UNCHANGED capabilityVars
  /\ (OneLine /\ TwoRevisions)'

RevisionsStep ==
  /\ slice = "revisions"
  /\ SchedulingNext
  /\ UNCHANGED capabilityVars
  /\ OnlyAcme'

DirectoryStep ==
  /\ slice = "directory"
  /\ Next
  /\ UNCHANGED capabilityVars
  /\ (OneLine /\ TwoRevisions /\ Mornings /\ OnlyAcme /\ OnlyAnn)'

PeopleStep ==
  /\ slice = "people"
  /\ SchedulingNext \/ LeaveNext \/ OutsourcingNext
  /\ UNCHANGED capabilityVars

SkillsStep ==
  /\ slice = "skills"
  /\ CapabilityNext
  /\ UNCHANGED <<leaveVars, bookingVars, directoryVars>>
  /\ (TwoRevisions /\ Mornings /\ OnlyAcme /\ FewRecords)'

ReportStep ==
  /\ slice = "report"
  /\ ReportNext
  /\ UNCHANGED <<bookingVars, directoryVars, capabilityVars>>
  /\ (OneLine /\ TwoRevisions /\ Mornings /\ OnlyAcme /\ OnlyAnn)'
  /\ report'.start = 8 /\ report'.end = 12

MCNext ==
  /\ UNCHANGED slice
  /\ \/ (PlansStep \/ RevisionsStep \/ DirectoryStep \/ PeopleStep \/ SkillsStep) /\ UNCHANGED report
     \/ ReportStep

MCSpec == MCInit /\ [][MCNext]_<<reportingVars, slice>>

Symmetry == Permutations(Employee) \cup Permutations(Line) \cup Permutations(LeaveId)

RowView(k) == IF Live(k) THEN <<row[k].work, row[k].copiedFrom>> ELSE row[k].state
PeriodView(id) == <<period[id].status, period[id].current, period[id].parent>>

(* The comparison makes TLC evaluate the functions a state holds. *)
View ==
  <<<<period, row>> = <<period, row>>, slice, [id \in PeriodId |-> PeriodView(id)],
    [k \in RowId |-> RowView(k)], leave, allowance.days, booking,
    directoryVars, capabilityVars, report>>
=============================================================================
