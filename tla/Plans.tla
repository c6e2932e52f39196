------------------------------- MODULE Plans -------------------------------
(***************************************************************************)
(* The tables that scheduling, leave and client bookings share, and the    *)
(* questions the services ask of them.                                     *)
(*                                                                         *)
(* A plan is a client-month.  Its revisions are numbered from 1; a period  *)
(* is one revision of one plan and a row is one assignment line of one     *)
(* period.  Revisions are never deleted, so <<plan, revision>> identifies  *)
(* a period for ever (unique index on client, month, revision).            *)
(***************************************************************************)
EXTENDS Integers, FiniteSets

CONSTANTS
  Client, Employee,
  Plan,          \* client-months being planned
  Site,          \* a project and a location of one client, linked together
  Date, Time,    \* days and times of day, both compared with <=
  Line,          \* lines available to one period
  LeaveId, Batch, \* leave requests, and calls that create bookings
  MaxRevision,   \* bound: revisions of one plan
  ClientOf,      \* the client of a plan
  DatesOf,       \* the dates of a plan's month
  OwnerOf,       \* the client of a site
  WorkDay,       \* dates that are Monday to Friday
  YearOf         \* the calendar year of a date

Revision == 1 .. MaxRevision
PeriodId == Plan \X Revision
RowId    == PeriodId \X Line
BookingId == Batch \X Employee

ASSUME CalendarAssumption ==
  /\ Date \subseteq Nat
  /\ Time \subseteq Nat
  /\ WorkDay \subseteq Date
  /\ YearOf \in [Date -> Nat]

ASSUME OwnershipAssumption ==
  /\ MaxRevision \in Nat
  /\ ClientOf \in [Plan -> Client]
  /\ DatesOf \in [Plan -> SUBSET Date]
  /\ OwnerOf \in [Site -> Client]

VARIABLES
  period,     \* schedule_periods
  row,        \* schedule_assignments
  leave,      \* leave_requests
  allowance,  \* the single row of leave_allowance_settings
  booking,    \* client_bookings
  employed,   \* users.active of the employees
  project,    \* projects.status of a site's project
  reachable,  \* a site's location is active and its link is not archived
  clientLive  \* clients.status is not ARCHIVED

scheduleVars  == <<period, row>>
leaveVars     == <<leave, allowance>>
bookingVars   == <<booking>>
directoryVars == <<employed, project, reachable, clientLive>>
vars == <<period, row, leave, allowance, booking, employed, project, reachable, clientLive>>

-----------------------------------------------------------------------------
(* Records.  An unused key of a table holds its No... record.              *)

Work == [employee : Employee, date : Date, start : Time, end : Time, site : Site]

PeriodStatus == {"ABSENT", "DRAFT", "PROPOSED", "PUBLISHED"}
PeriodRec == [status : PeriodStatus, current : BOOLEAN, parent : 0 .. MaxRevision, version : Nat]
NoPeriod == [status |-> "ABSENT", current |-> FALSE, parent |-> 0, version |-> 0]

NoRow == [state |-> "ABSENT"]
NoCopy == <<>>
RowRec == [state : {"LIVE", "OMITTED"}, work : Work,
           copiedFrom : RowId \cup {NoCopy}, version : Nat]

NoLeave == [status |-> "ABSENT"]
LeaveRec == [status : {"PENDING", "APPROVED", "REJECTED", "CANCELLED"},
             employee : Employee, first : Date, last : Date, version : Nat]

NoBooking == [state |-> "ABSENT"]
BookingRec == [state : {"ACTIVE", "CANCELLED"}, client : Client,
               first : Date, last : Date, version : Nat]

ProjectStatus == {"UNFINISHED", "COMPLETED", "ARCHIVED"}

TypeOK ==
  /\ period \in [PeriodId -> PeriodRec]
  /\ row \in [RowId -> RowRec \cup {NoRow}]
  /\ leave \in [LeaveId -> LeaveRec \cup {NoLeave}]
  /\ allowance \in [days : Nat, version : Nat]
  /\ booking \in [BookingId -> BookingRec \cup {NoBooking}]
  /\ employed \in [Employee -> BOOLEAN]
  /\ project \in [Site -> ProjectStatus]
  /\ reachable \in [Site -> BOOLEAN]
  /\ clientLive \in [Client -> BOOLEAN]

-----------------------------------------------------------------------------
(* Periods and rows *)

Editable(id) == period[id].status \in {"DRAFT", "PROPOSED"}
Current(id)  == period[id].status = "PUBLISHED" /\ period[id].current

(* The periods whose rows occupy people: overlap checks look at no other. *)
Active(id) == Editable(id) \/ Current(id)

ParentOf(id) == <<id[1], period[id].parent>>

Live(k) == row[k].state = "LIVE"

(* allAssignments: the rows of a period that have not been omitted. *)
LiveRows(id) == {k \in RowId : k[1] = id /\ Live(k)}

(* Rows that occupy their employee now. *)
Standing(k) == Live(k) /\ Active(k[1])

SameSlot(w, v) ==
  w.employee = v.employee /\ w.date = v.date /\ w.start = v.start /\ w.end = v.end

Clash(w, v) ==
  /\ w.employee = v.employee
  /\ w.date = v.date
  /\ w.start < v.end
  /\ v.start < w.end

(***************************************************************************)
(* A row k stands in the published parent of the period being edited, and  *)
(* the row checked against it is its copy in the same slot.                *)
(***************************************************************************)
UnchangedPredecessor(k, id, w, copiedFrom) ==
  /\ k[1] = ParentOf(id)
  /\ copiedFrom = k
  /\ period[k[1]].status = "PUBLISHED"
  /\ SameSlot(row[k].work, w)

-----------------------------------------------------------------------------
(* Leave and bookings *)

Covers(r, d) == r.first <= d /\ d <= r.last
Meets(r, first, last) == r.first <= last /\ first <= r.last

Approved(l) == leave[l].status = "APPROVED"
Pending(l)  == leave[l].status = "PENDING"

OnLeave(e, first, last) ==
  \E l \in LeaveId : Approved(l) /\ leave[l].employee = e /\ Meets(leave[l], first, last)

ActiveBooking(b) == booking[b].state = "ACTIVE"

Booked(e, first, last) ==
  \E b \in BookingId : b[2] = e /\ ActiveBooking(b) /\ Meets(booking[b], first, last)

(* A site can be scheduled while neither project, location nor link is archived. *)
Usable(s) == project[s] # "ARCHIVED" /\ reachable[s]
=============================================================================
