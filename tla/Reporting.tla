------------------------------ MODULE Reporting ------------------------------
(***************************************************************************)
(* How a report is asked for, shown page by page and exported.  What the   *)
(* rows of each report are is the matter of Reports; here a report has a   *)
(* stock of matching rows, numbered in its order, that others change.  A   *)
(* page reads its rows and their total in two statements; a file is        *)
(* authorized twice, collected, recorded in the audit trail and only then  *)
(* delivered.  Days pass and roles are lost between any two steps.         *)
(***************************************************************************)
EXTENDS Integers, FiniteSets

CONSTANTS
  DaysInMonth, MonthsInYear,  \* the calendar, in small
  NinetyDays,                 \* the narrower of the two window caps
  LastDay,                    \* bound: the days that pass
  PageSize,                   \* REPORT_PAGE_SIZE
  AuditPageSize,              \* AUDIT_PAGE_SIZE
  MaxPage,                    \* MAX_REPORT_PAGE
  MaxExport,                  \* MAX_EXPORT_ROWS
  MaxStock,                   \* bound: the rows a report matches
  AskedKey, AskedQuery        \* bound: the reports and queries people type

ASSUME ReportingAssumption ==
  /\ {DaysInMonth, MonthsInYear, NinetyDays, PageSize, AuditPageSize, MaxPage, MaxExport} \subseteq Nat \ {0}
  /\ DaysInMonth <= NinetyDays
  /\ LastDay \in Nat /\ MaxStock \in Nat

VARIABLES
  today,    \* the Dubai business date
  stock,    \* how many rows match
  reader,   \* the role of whoever reads
  load,     \* the page being loaded
  view,     \* the page on the screen
  walk,     \* what Next has shown since the first page
  export,   \* the file being prepared
  trail     \* audit_events about reports

reportingVars == <<today, stock, reader, load, view, walk, export, trail>>

-----------------------------------------------------------------------------
(* The calendar *)

TwelveMonths == DaysInMonth * MonthsInYear
MonthOf(day) == day \div DaysInMonth
MonthBounds(month) == [from |-> month * DaysInMonth, to |-> month * DaysInMonth + DaysInMonth - 1]
YearBounds(day) ==
  LET year == day \div TwelveMonths IN
  [from |-> year * TwelveMonths, to |-> year * TwelveMonths + TwelveMonths - 1]
InclusiveDayCount(window) == window.to - window.from + 1
Within(day, window) == window.from <= day /\ day <= window.to

-----------------------------------------------------------------------------
(* The registry *)

AssignmentReports ==
  {"published-allocation", "scheduled-hours", "planning-unpublished", "coverage-replacement"}
Snapshots ==
  {"leave-balance", "skills-coverage", "skill-gaps", "certification-status", "evidence-review-queue"}
ReportKeys ==
  AssignmentReports \cup Snapshots \cup
  {"unallocated-employees", "approved-leave", "schedule-lifecycle", "audit-history"}

ASSUME AskedAssumption == AskedKey \subseteq ReportKeys

MaxWindowDays(key) ==
  IF key \in {"approved-leave", "coverage-replacement"} THEN NinetyDays ELSE TwelveMonths

CanView(role) == role = "SUPER_ADMIN"
CanExport(role, key) == role = "SUPER_ADMIN" /\ key # "audit-history"

WindowFilters == {"from", "to", "month"}
ReportFilters(key) ==
  CASE key \in Snapshots                -> {}
    [] key \in AssignmentReports        -> WindowFilters \cup {"client", "project", "location"}
    [] key = "unallocated-employees"    -> WindowFilters
    [] key = "approved-leave"           -> WindowFilters \cup {"date", "start", "end"}
    [] key = "schedule-lifecycle"       -> WindowFilters \cup {"client"}
    [] key = "audit-history"            -> WindowFilters \cup {"action", "targetType", "actor"}

Windowed(key) == "from" \in ReportFilters(key)

(* The order of balances and skills is computed: the service reads every   *)
(* row and cuts the page itself.  Draft work is not counted at all.        *)
CutByService == {"leave-balance", "skills-coverage", "skill-gaps"}
Uncounted == {"planning-unpublished"}

-----------------------------------------------------------------------------
(* What a query asks for *)

Given(q, filter, default) == IF filter \in DOMAIN q THEN q[filter] ELSE default

WindowOf(key, q, day) ==
  LET annual == key \in {"leave-balance", "audit-history"}
      fallback == IF annual THEN YearBounds(day) ELSE MonthBounds(Given(q, "month", MonthOf(day)))
  IN  [from |-> Given(q, "from", fallback.from), to |-> Given(q, "to", fallback.to)]

ConflictOf(key, q, day) ==
  LET window == WindowOf(key, q, day)
      chosen == Given(q, "date", IF Within(day, window) THEN day ELSE window.from)
  IN  [date |-> IF key = "approved-leave" THEN chosen ELSE day,
       start |-> Given(q, "start", 0), end |-> Given(q, "end", 24)]

(* What the service refuses before it reads, in the order it looks.        *)
Malformed(key, q, day) ==
  \/ Given(q, "page", 1) \notin 1 .. MaxPage
  \/ DOMAIN q \ {"page"} \notin SUBSET ReportFilters(key)
  \/ WindowOf(key, q, day).to < WindowOf(key, q, day).from
TooWide(key, q, day) == InclusiveDayCount(WindowOf(key, q, day)) > MaxWindowDays(key)
OffTheMark(key, q, day) ==
  \/ key = "approved-leave" /\ ~Within(ConflictOf(key, q, day).date, WindowOf(key, q, day))
  \/ ConflictOf(key, q, day).end <= ConflictOf(key, q, day).start

Refusal(key, q, day) ==
  IF Malformed(key, q, day) THEN "VALIDATION_ERROR"
  ELSE IF TooWide(key, q, day) THEN "WINDOW_TOO_LARGE"
  ELSE IF OffTheMark(key, q, day) THEN "VALIDATION_ERROR"
  ELSE "NONE"

Request(key, q, day) ==
  [key |-> key, window |-> WindowOf(key, q, day), conflict |-> ConflictOf(key, q, day),
   page |-> Given(q, "page", 1)]

(* Mutant of Kept: links repeat what was asked, not what it was taken for. *)
KeptAsAsked(q, request) == [f \in DOMAIN q \ {"page"} |-> q[f]]

(* The query of the links on a page: the window and the conflict slot are  *)
(* those the page was built for.                                           *)
Kept(q, request) ==
  LET window == IF Windowed(request.key) THEN {"from", "to"} ELSE {}
      slot == IF request.key = "approved-leave" THEN {"date", "start", "end"} ELSE {}
  IN  [f \in (DOMAIN q \ {"page", "month"}) \cup window \cup slot |->
         IF f \in window THEN request.window[f] ELSE IF f \in slot THEN request.conflict[f] ELSE q[f]]

PageHref(q, page) == [f \in DOMAIN q \cup {"page"} |-> IF f = "page" THEN page ELSE q[f]]

-----------------------------------------------------------------------------
(* A page *)

NoLoad == [stage |-> "none"]
NoView == [shown |-> FALSE]
NoWalk == [begun |-> FALSE, seen |-> {}, steady |-> FALSE]
NewWalk == [begun |-> TRUE, seen |-> {}, steady |-> TRUE]
NoExport == [stage |-> "none"]

Rows(offset, limit) == {i \in 1 .. stock : offset < i /\ i <= offset + limit}

(* auditService.history counts its pages by itself. *)
History(page) == Rows((page - 1) * AuditPageSize, AuditPageSize)

PageRows(request) ==
  IF request.key = "audit-history"
    THEN History(request.page)
    ELSE Rows((request.page - 1) * PageSize, PageSize)

(* Mutant of HasNext: one row short. *)
HasNextShort(request, rows, total) ==
  IF request.key \in Uncounted
    THEN Cardinality(rows) = PageSize
    ELSE (request.page - 1) * PageSize + Cardinality(rows) + 1 < total

HasNext(request, rows, total) ==
  IF request.key \in Uncounted
    THEN Cardinality(rows) = PageSize
    ELSE (request.page - 1) * PageSize + Cardinality(rows) < total

(* A report is opened by its address, or a page of it by a link on another. *)
AskFor(key, q, along) ==
  /\ load = NoLoad
  /\ CanView(reader)
  /\ IF Refusal(key, q, today) # "NONE"
       THEN /\ view' = NoView
            /\ walk' = NoWalk
            /\ UNCHANGED load
       ELSE /\ load' = [stage |-> "reading", query |-> q, request |-> Request(key, q, today),
                        rows |-> {}, total |-> 0, left |-> {"rows", "total"}]
            /\ walk' = along
            /\ view' = NoView
  /\ UNCHANGED <<today, stock, reader, export, trail>>

OpenReport ==
  \E key \in AskedKey, q \in AskedQuery : AskFor(key, q, IF Given(q, "page", 1) = 1 THEN NewWalk ELSE NoWalk)

FollowNext ==
  /\ view.shown
  /\ view.hasNext
  /\ AskFor(view.request.key, PageHref(view.query, view.request.page + 1), walk)

(* The form on a page is filled with its window and slot; a blank end is   *)
(* the end of the day.  Applying it goes back to the first page.           *)
FormQuery ==
  LET blank == {"page"} \cup (IF Given(view.query, "end", 0) = 24 THEN {"end"} ELSE {})
  IN  [f \in DOMAIN view.query \ blank |-> view.query[f]]

ApplyFilters ==
  /\ view.shown
  /\ ReportFilters(view.request.key) # {}
  /\ \E q \in AskedQuery :
       /\ DOMAIN q \subseteq ReportFilters(view.request.key) \ {"month"}
       /\ AskFor(view.request.key,
                 [f \in DOMAIN q \cup DOMAIN FormQuery |-> IF f \in DOMAIN q THEN q[f] ELSE FormQuery[f]],
                 NewWalk)

(* Both statements run side by side; a report the service cuts has one.    *)
ReadPage ==
  /\ load.stage = "reading"
  /\ "rows" \in load.left
  /\ load' = [load EXCEPT !.rows = PageRows(load.request),
                          !.total = IF load.request.key \in CutByService THEN stock ELSE @,
                          !.left = @ \ (IF load.request.key \in CutByService THEN {"rows", "total"} ELSE {"rows"})]
  /\ UNCHANGED <<today, stock, reader, view, walk, export, trail>>

ReadTotal ==
  /\ load.stage = "reading"
  /\ "total" \in load.left
  /\ load.request.key \notin CutByService
  /\ load' = [load EXCEPT !.total = stock, !.left = @ \ {"total"}]
  /\ UNCHANGED <<today, stock, reader, view, walk, export, trail>>

ShowPage ==
  /\ load.stage = "reading"
  /\ load.left = {}
  /\ view' = [shown |-> TRUE, request |-> load.request, query |-> Kept(load.query, load.request),
              hasNext |-> HasNext(load.request, load.rows, load.total),
              exportable |-> CanExport(reader, load.request.key)]
  /\ walk' = [walk EXCEPT !.seen = @ \cup load.rows]
  /\ load' = NoLoad
  /\ UNCHANGED <<today, stock, reader, export, trail>>

-----------------------------------------------------------------------------
(* A file *)

NoLink == [window |-> MonthBounds(0), conflict |-> [date |-> 0, start |-> 0, end |-> 0], linked |-> FALSE]

Event(action, key, window, rows) == [action |-> action, key |-> key, window |-> window, rows |-> rows]

(* Bound: one file is asked for. *)
Requested(key, q, link) ==
  /\ export = NoExport
  /\ export' = [stage |-> "asked", key |-> key, query |-> q, link |-> link]
  /\ UNCHANGED <<today, stock, reader, load, view, walk, trail>>

Download ==
  /\ view.shown
  /\ view.exportable
  /\ Requested(view.request.key, view.query,
       [linked |-> TRUE, window |-> view.request.window, conflict |-> view.request.conflict])

TypeAddress == \E key \in AskedKey, q \in AskedQuery : Requested(key, q, NoLink)

(* A refusal is recorded if it can be, and stays a refusal if it cannot.   *)
RefuseExport(reason) ==
  /\ export' = [stage |-> "refused", reason |-> reason]
  /\ trail' \in {trail, trail \cup {Event("refused", export.key, NoLink.window, 0)}}

FailExport == export' = [stage |-> "failed"] /\ UNCHANGED trail

(* generate: the query is parsed and the role read from the database.      *)
Admit ==
  /\ export.stage = "asked"
  /\ IF Given(export.query, "page", 1) \notin 1 .. MaxPage \/ reader = "INACTIVE"
       THEN FailExport
       ELSE IF CanExport(reader, export.key)
              THEN export' = [export EXCEPT !.stage = "admitted"] /\ UNCHANGED trail
              ELSE RefuseExport("forbidden")
  /\ UNCHANGED <<today, stock, reader, load, view, walk>>

(* exportPayload: the role is read again, and the window taken from today. *)
Resolve ==
  /\ export.stage = "admitted"
  /\ LET refusal == Refusal(export.key, export.query, today) IN
     IF ~CanView(reader) THEN RefuseExport("out_of_scope")
     ELSE IF refusal = "WINDOW_TOO_LARGE" THEN RefuseExport("too_large")
     ELSE IF refusal = "VALIDATION_ERROR" THEN FailExport
     ELSE /\ export' = [stage |-> "resolved", key |-> export.key, link |-> export.link,
                        request |-> Request(export.key, export.query, today)]
          /\ UNCHANGED trail
  /\ UNCHANGED <<today, stock, reader, load, view, walk>>

(* Mutant of Collected: cut at the cap, so that nothing is ever over it. *)
CollectedToTheCap == Rows(0, MaxExport)

(* One row more than a file may have is enough to refuse it.               *)
Collected == Rows(0, MaxExport + 1)

Collect ==
  /\ export.stage = "resolved"
  /\ IF Cardinality(Collected) > MaxExport
       THEN RefuseExport("too_large")
       ELSE /\ export' = [stage |-> "collected", key |-> export.key, link |-> export.link,
                          request |-> export.request, rows |-> Cardinality(Collected), matching |-> stock]
            /\ UNCHANGED trail
  /\ UNCHANGED <<today, stock, reader, load, view, walk>>

(* The trail is written first: a file that cannot be recorded is not sent. *)
Deliver ==
  /\ export.stage = "collected"
  /\ \/ /\ trail' = trail \cup {Event("generated", export.key, export.request.window, export.rows)}
        /\ export' = [export EXCEPT !.stage = "delivered"]
     \/ FailExport
  /\ UNCHANGED <<today, stock, reader, load, view, walk>>

-----------------------------------------------------------------------------
ReportingInit ==
  /\ today \in 0 .. LastDay
  /\ stock \in 0 .. MaxStock
  /\ reader = "SUPER_ADMIN"
  /\ load = NoLoad
  /\ view = NoView
  /\ walk = NoWalk
  /\ export = NoExport
  /\ trail = {}

DayPasses ==
  /\ today < LastDay
  /\ today' = today + 1
  /\ UNCHANGED <<stock, reader, load, view, walk, export, trail>>

(* Others add and remove matching rows. *)
StockChanges ==
  /\ stock' \in 0 .. MaxStock \ {stock}
  /\ walk' = [walk EXCEPT !.steady = FALSE]
  /\ UNCHANGED <<today, reader, load, view, export, trail>>

RoleLost ==
  /\ reader = "SUPER_ADMIN"
  /\ reader' \in {"OTHER", "INACTIVE"}
  /\ UNCHANGED <<today, stock, load, view, walk, export, trail>>

PageStep == OpenReport \/ FollowNext \/ ApplyFilters \/ ReadPage \/ ReadTotal \/ ShowPage
FileStep == Download \/ TypeAddress \/ Admit \/ Resolve \/ Collect \/ Deliver
OutsideStep == DayPasses \/ StockChanges \/ RoleLost

ReportingNext == PageStep \/ FileStep \/ OutsideStep

ReportingSpec == ReportingInit /\ [][ReportingNext]_reportingVars

-----------------------------------------------------------------------------
(***************************************************************************)
(* Next leads to every row: when it offers no further page and the rows    *)
(* have not changed since the first one, each of them has been shown.  The *)
(* total is read apart from the rows, and counts nothing for drafts.       *)
(***************************************************************************)
Exhausted == view.shown /\ walk.begun /\ walk.steady /\ ~view.hasNext
NextReachesEveryRow ==
  Exhausted /\ view.request.key # "audit-history" => walk.seen = 1 .. stock

(***************************************************************************)
(* The same of the audit history.                                          *)
(***************************************************************************)
NextReachesEveryEvent ==
  Exhausted /\ view.request.key = "audit-history" => walk.seen = 1 .. stock

(***************************************************************************)
(* A delivered file is whole, recorded with its window and its count, and  *)
(* covers the window and the conflict slot of the page its link was on,    *)
(* whatever day it is by then and whatever changes meanwhile.              *)
(***************************************************************************)
FilesAnswerTheirPage ==
  export.stage = "delivered" =>
    /\ export.rows = export.matching
    /\ Event("generated", export.key, export.request.window, export.rows) \in trail
    /\ export.link.linked /\ Windowed(export.key) => export.request.window = export.link.window
    /\ export.link.linked /\ export.key = "approved-leave" =>
         export.request.conflict = export.link.conflict
=============================================================================
