------------------------------- MODULE Reports -------------------------------
(***************************************************************************)
(* The reporting service: what the management reports and the dashboards   *)
(* compute from the tables.  A reader reaches rows through its scope,      *)
(* narrows them with filters and reads inside a window of days; an         *)
(* administrator's scope comes from its grants, a super-administrator's    *)
(* is global.                                                              *)
(***************************************************************************)
EXTENDS Capabilities, FiniteSetsExt

(* The tables a report reads hold finitely many rows. *)
ASSUME RowsAssumption == IsFiniteSet(Plan) /\ IsFiniteSet(Line)

Everything == [global |-> TRUE, clients |-> {}, sites |-> {}, team |-> {}]
Unfiltered == [clients |-> Client, sites |-> Site]
Always == Date

EmployeeScope(scope, e) == scope.global \/ e \in scope.team
ClientScope(scope, c) == scope.global \/ c \in scope.clients
AssignmentScope(scope, k) ==
  ClientScope(scope, ClientOf[k[1][1]]) \/ row[k].work.site \in scope.sites

Selected(filters, k) ==
  ClientOf[k[1][1]] \in filters.clients /\ row[k].work.site \in filters.sites

(* assignmentQuery: the joins and the window every assignment report shares. *)
Assignments(scope, window, filters) ==
  {k \in RowId : /\ Live(k)
                 /\ row[k].work.date \in window
                 /\ AssignmentScope(scope, k)
                 /\ Selected(filters, k)}

(* Mutant of PublishedWindow: superseded revisions are read as well. *)
EverPublishedWindow(scope, window, filters) ==
  {k \in Assignments(scope, window, filters) : period[k[1]].status = "PUBLISHED"}

PublishedWindow(scope, window, filters) ==
  {k \in Assignments(scope, window, filters) : Current(k[1])}

PlanningAssignments(scope, window, filters) ==
  {k \in Assignments(scope, window, filters) : Editable(k[1])}

Workers(rows) == {row[k].work.employee : k \in rows}

(* One entry of the scheduled-hours report. *)
ScheduledHours(scope, window, filters, e) ==
  LET own == {k \in PublishedWindow(scope, window, filters) : row[k].work.employee = e} IN
  [assignments |-> Cardinality(own),
   hours |-> MapThenSumSet(LAMBDA k : row[k].work.end - row[k].work.start, own)]

ActiveEmployees(scope) == {e \in Employee : employed[e] /\ EmployeeScope(scope, e)}

UnallocatedEmployees(scope, window) ==
  ActiveEmployees(scope) \ Workers(PublishedWindow(scope, window, Unfiltered))

CurrentPublishedPeriods(scope, p) ==
  {id \in PeriodId : id[1] = p /\ Current(id) /\ ClientScope(scope, ClientOf[p])}

-----------------------------------------------------------------------------
(* Leave *)

Intersects(l, window) == \E d \in window : Covers(leave[l], d)

ApprovedLeave(scope, window) ==
  {l \in LeaveId : Approved(l) /\ Intersects(l, window) /\ EmployeeScope(scope, leave[l].employee)}

ApprovedDays(l, window) == Cardinality({d \in window \cap WorkDay : Covers(leave[l], d)})

PendingLeave(scope) == {l \in LeaveId : Pending(l) /\ EmployeeScope(scope, leave[l].employee)}

LeaveOnDate(date) == {leave[l].employee : l \in {m \in LeaveId : Approved(m) /\ Covers(leave[m], date)}}

PublishedInHours(scope, date, start, end) ==
  Workers({k \in PublishedWindow(scope, {date}, Unfiltered) :
             row[k].work.start < end /\ start < row[k].work.end})

ConflictValue(onLeave, onSchedule) ==
  CASE onLeave /\ onSchedule -> "LEAVE_AND_SCHEDULE"
    [] onLeave /\ ~onSchedule -> "LEAVE"
    [] ~onLeave /\ onSchedule -> "SCHEDULE"
    [] OTHER -> "NONE"

YearUsed(e) ==
  LET year == {d \in Date : YearOf[d] = ThisYear} IN
  MapThenSumSet(LAMBDA l : ApprovedDays(l, year),
    {l \in ApprovedLeave(Everything, year) : leave[l].employee = e})

LeaveBalance(e) == [allowance |-> allowance.days, used |-> YearUsed(e), remaining |-> allowance.days - YearUsed(e)]

-----------------------------------------------------------------------------
(* The lifecycle of client-months, and skills *)

RevisionsOf(p) == {r \in Revision : period[<<p, r>>].status # "ABSENT"}

LifecycleRows(scope, window) ==
  {p \in Plan : RevisionsOf(p) # {} /\ ClientScope(scope, ClientOf[p]) /\ DatesOf[p] \cap window # {}}

EffectiveState(p) ==
  CASE \E r \in Revision : Current(<<p, r>>) -> "PUBLISHED"
    [] \A r \in Revision : ~Current(<<p, r>>) ->
         IF \E r \in Revision : period[<<p, r>>].status = "PROPOSED" THEN "PROPOSED" ELSE "DRAFT"

LatestRevision(p) == Max(RevisionsOf(p))
PublishedRevision(p) == Max({0} \cup {r \in Revision : Current(<<p, r>>)})

(* The counts are a second query, read after the rows of the report. *)
PublishedCount(p) ==
  IF PublishedRevision(p) = 0 THEN 0 ELSE Cardinality(LiveRows(<<p, PublishedRevision(p)>>))

Lifecycle(p) ==
  [state |-> EffectiveState(p), latest |-> LatestRevision(p),
   published |-> PublishedRevision(p), assignments |-> PublishedCount(p)]

RecordedEmployees(s) == {e \in Employee : s \in SkillsOf(e)}
SkillsCoverage == [s \in offered |-> Cardinality(RecordedEmployees(s))]

SkillStatus(recorded, required) == IF recorded >= required THEN "recorded" ELSE "not recorded"

AssignmentSkillRequirements(scope) ==
  {ks \in RowId \X Skill : Live(ks[1]) /\ ks[2] \in Wanted(ks[1]) /\ AssignmentScope(scope, ks[1])}

(* One line for each requirement of a site and each requirement of a row. *)
SkillGaps(scope) ==
  LET line(about, s) == [about |-> about, skill |-> s,
                         status |-> SkillStatus(Cardinality(RecordedEmployees(s)), 1)]
      sites == {p \in Site : ClientScope(scope, OwnerOf[p]) \/ p \in scope.sites} IN
  {line(<<"SITE", ps[1]>>, ps[2]) : ps \in {q \in sites \X Skill : q[2] \in SiteSkills(q[1])}}
    \cup {line(<<"ROW", ks[1]>>, ks[2]) : ks \in AssignmentSkillRequirements(scope)}

-----------------------------------------------------------------------------
(* Dashboards *)

AdminDashboard(scope, p) ==
  [ activeEmployees |-> Cardinality(ActiveEmployees(scope)),
    publishedPeriods |-> Cardinality(CurrentPublishedPeriods(scope, p)),
    publishedAssignments |-> Cardinality(PublishedWindow(scope, DatesOf[p], Unfiltered)),
    unallocated |-> Cardinality(UnallocatedEmployees(scope, DatesOf[p])) ]

SuperAdminDashboard(p) ==
  [ pendingLeave |-> Cardinality(PendingLeave(Everything)),
    approvedDays |-> MapThenSumSet(LAMBDA l : ApprovedDays(l, DatesOf[p]), ApprovedLeave(Everything, DatesOf[p])),
    lifecycle |-> [state \in {"PUBLISHED", "PROPOSED", "DRAFT"} |->
      Cardinality({q \in LifecycleRows(Everything, Always) : EffectiveState(q) = state})] ]

MyPublishedAssignments(e, window) ==
  {k \in PublishedWindow(Everything, window, Unfiltered) : row[k].work.employee = e}

(* An employee's own page shows its balance and all its leave requests. *)
EmployeeDashboard(e, window) ==
  [ upcoming |-> MyPublishedAssignments(e, window),
    balance |-> LeaveBalance(e).remaining,
    requests |-> {l \in LeaveId : leave[l] # NoLeave /\ leave[l].employee = e} ]

-----------------------------------------------------------------------------
(***************************************************************************)
(* No moment is counted twice: the hours reported for an employee, over    *)
(* all clients, are as many as the employee has moments of published work. *)
(* Rows of one plan's revisions and of different plans may all cover the   *)
(* same morning in the tables.                                             *)
(***************************************************************************)
Moments(e) ==
  UNION {{<<row[k].work.date, t>> : t \in row[k].work.start .. row[k].work.end - 1} :
           k \in {j \in RowId : Live(j) /\ Current(j[1]) /\ row[j].work.employee = e}}

HoursCountedOnce ==
  \A e \in Employee :
    ScheduledHours(Everything, Always, Unfiltered, e).hours = Cardinality(Moments(e))

-----------------------------------------------------------------------------
(***************************************************************************)
(* The approved-leave report at work.  Who is on leave and who is on the   *)
(* schedule at the hour asked about are two queries on connections of      *)
(* their own, sent at once: either may read first, each reads what is      *)
(* committed by then, and any number of transactions commit between them.  *)
(***************************************************************************)
VARIABLE report

reportingVars == <<allVars, report>>

AskedOf(date, start, end) ==
  [date |-> date, start |-> start, end |-> end, read |-> {}, onLeave |-> {}, onSchedule |-> {}]

AskReport(date, start, end) ==
  /\ start < end
  /\ report' = AskedOf(date, start, end)
  /\ UNCHANGED allVars

ReadOnLeave ==
  /\ "leave" \notin report.read
  /\ report' = [report EXCEPT !.read = @ \cup {"leave"}, !.onLeave = LeaveOnDate(report.date)]
  /\ UNCHANGED allVars

ReadOnSchedule ==
  /\ "schedule" \notin report.read
  /\ report' = [report EXCEPT !.read = @ \cup {"schedule"},
       !.onSchedule = PublishedInHours(Everything, report.date, report.start, report.end)]
  /\ UNCHANGED allVars

ReportInit ==
  /\ CapabilityInit
  /\ report \in {AskedOf(d, s, e) : d \in Date, s \in Time, e \in Time}

ReportNext ==
  \/ CapabilityNext /\ UNCHANGED report
  \/ \E date \in Date, start, end \in Time : AskReport(date, start, end)
  \/ ReadOnLeave
  \/ ReadOnSchedule

ReportSpec == ReportInit /\ [][ReportNext]_reportingVars

(***************************************************************************)
(* The report may show somebody on leave and at work: the schedule it read *)
(* was revised, and the leave approved, before it read the leave.  Such a  *)
(* conflict is always over: whoever is shown in one is not at work in that *)
(* hour in the plan in force, neither when the report is delivered nor as  *)
(* long as anybody reads it.                                               *)
(***************************************************************************)
ShownConflictIsOver ==
  \A e \in Employee :
    ConflictValue(e \in report.onLeave, e \in report.onSchedule) = "LEAVE_AND_SCHEDULE" =>
      e \notin PublishedInHours(Everything, report.date, report.start, report.end)

=============================================================================
