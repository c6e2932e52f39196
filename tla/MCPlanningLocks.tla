-------------------------- MODULE MCPlanningLocks --------------------------
(***************************************************************************)
(* Small instances of PlanningLocks.  Every scene starts from rows that    *)
(* calls of the same services, one after another, leave behind.            *)
(***************************************************************************)
EXTENDS PlanningLocks, TLC

CONSTANTS acme, bell    \* clients, plans and sites
CONSTANTS ann, ben      \* employees
CONSTANTS l1, l2         \* lines
CONSTANTS q1, q2         \* leave requests

MCClientOf == [p \in Plan |-> p]
MCOwnerOf  == [s \in Site |-> s]
MCDatesOf  == [p \in Plan |-> Date]
MCYearOf   == [d \in Date |-> 2026]
MCRank     == [e \in Employee |-> IF e = ann THEN 1 ELSE 2]

Shift(e, d, s) == [employee |-> e, date |-> d, start |-> 8, end |-> 12, site |-> s]
Late(e, d, s)  == [employee |-> e, date |-> d, start |-> 12, end |-> 16, site |-> s]

NoRows == [k \in RowId |-> NoRow]
NoPeriods == [id \in PeriodId |-> NoPeriod]
NoRequests == [l \in LeaveId |-> NoLeave]

Draft(version)    == [status |-> "DRAFT", current |-> FALSE, parent |-> 0, version |-> version]
Proposed(version) == [status |-> "PROPOSED", current |-> FALSE, parent |-> 0, version |-> version]
Published(version) == [status |-> "PUBLISHED", current |-> TRUE, parent |-> 0, version |-> version]

(* A plan published with one row, and a proposed revision of it. *)
LineagePeriods ==
  (<<acme, 1>> :> Published(4)) @@
  (<<acme, 2>> :> [Proposed(2) EXCEPT !.parent = 1]) @@ NoPeriods
LineageRows ==
  (<<<<acme, 1>>, l1>> :> NewRow(Shift(ann, 1, acme), NoCopy)) @@
  (<<<<acme, 2>>, l1>> :> NewRow(Shift(ann, 1, acme), <<<<acme, 1>>, l1>>)) @@ NoRows
LineageCalls ==
  << [op |-> "publish", period |-> <<acme, 2>>],
     [op |-> "revise", period |-> <<acme, 1>>],
     [op |-> "cover", row |-> <<<<acme, 1>>, l1>>, employee |-> ben],
     [op |-> "cover", row |-> <<<<acme, 2>>, l1>>, employee |-> ben] >>

(* The same plan before its revision. *)
AlonePeriods == (<<acme, 1>> :> Published(4)) @@ NoPeriods
AloneRows == (<<<<acme, 1>>, l1>> :> NewRow(Shift(ann, 1, acme), NoCopy)) @@ NoRows
AloneCalls ==
  << [op |-> "cover", row |-> <<<<acme, 1>>, l1>>, employee |-> ben],
     [op |-> "revise", period |-> <<acme, 1>>],
     [op |-> "propose", period |-> <<acme, 2>>],
     [op |-> "publish", period |-> <<acme, 2>>] >>

(* Two clients plan the same two employees on different days. *)
CrossPeriods == (<<acme, 1>> :> Proposed(4)) @@ (<<bell, 1>> :> Proposed(4)) @@ NoPeriods
CrossRows ==
  (<<<<acme, 1>>, l1>> :> NewRow(Shift(ann, 1, acme), NoCopy)) @@
  (<<<<acme, 1>>, l2>> :> NewRow(Shift(ben, 2, acme), NoCopy)) @@
  (<<<<bell, 1>>, l1>> :> NewRow(Shift(ben, 1, bell), NoCopy)) @@
  (<<<<bell, 1>>, l2>> :> NewRow(Shift(ann, 2, bell), NoCopy)) @@ NoRows
CrossCalls ==
  << [op |-> "publish", period |-> <<acme, 1>>], [op |-> "publish", period |-> <<bell, 1>>] >>

(***************************************************************************)
(* One client's proposed work, another's draft, and a leave request.  The   *)
(* timetable names ben before ann, a booking of both locks ann first.      *)
(***************************************************************************)
PeoplePeriods == (<<acme, 1>> :> Proposed(4)) @@ (<<bell, 1>> :> Draft(1)) @@ NoPeriods
PeopleRows ==
  (<<<<acme, 1>>, l1>> :> NewRow(Shift(ben, 2, acme), NoCopy)) @@
  (<<<<acme, 1>>, l2>> :> NewRow(Late(ann, 2, acme), NoCopy)) @@ NoRows
PeopleRequests ==
  (q1 :> [status |-> "PENDING", employee |-> ann, first |-> 1, last |-> 2, version |-> 1]) @@ NoRequests
PeopleCalls ==
  << [op |-> "publish", period |-> <<acme, 1>>],
     [op |-> "propose", period |-> <<bell, 1>>],
     [op |-> "approve", leave |-> q1],
     [op |-> "cancel", leave |-> q1],
     [op |-> "submit", leave |-> q2, employee |-> ann, first |-> 2, last |-> 2],
     [op |-> "allow", days |-> 1],
     [op |-> "book", batch |-> 1, client |-> bell, team |-> {ann, ben}, first |-> 1, last |-> 1],
     [op |-> "add", period |-> <<bell, 1>>, work |-> Shift(ann, 1, bell)],
     [op |-> "add", period |-> <<bell, 1>>, work |-> Shift(ann, 2, bell)] >>

(***************************************************************************)
(* Transactions are numbered and begin in any order, so calls are assigned *)
(* to them in one order only.                                              *)
(***************************************************************************)
Assigned(calls) ==
  LET index == {f \in [Txn -> DOMAIN calls] : \A t, u \in Txn : t < u => f[t] <= f[u]}
  IN  {[t \in Txn |-> calls[f[t]]] : f \in index}

Asking(periods, rows, requests, days, calls) ==
  [period |-> periods, row |-> rows, leave |-> requests, days |-> days, calls |-> Assigned(calls)]

Lineage == Asking(LineagePeriods, LineageRows, NoRequests, {2}, LineageCalls)
Alone   == Asking(AlonePeriods, AloneRows, NoRequests, {2}, AloneCalls)
Cross   == Asking(CrossPeriods, CrossRows, NoRequests, {2}, CrossCalls)
People  == Asking(PeoplePeriods, PeopleRows, PeopleRequests, {1, 2}, PeopleCalls)

EveryScene == {Alone, Lineage, People}
OnlyAlone == {Alone}
OnlyCross == {Cross}
=============================================================================
