---------------------------- MODULE LeaveProofs ----------------------------
(***************************************************************************)
(* Leave, bookings and published plans keep out of each other's way, and   *)
(* published plans are final: what the services check of one another's     *)
(* tables is enough, in whatever order they commit.  Requirements follow   *)
(* the work they are for, and reports agree with the tables.               *)
(***************************************************************************)
EXTENDS Reports, WorkforceProofs, FiniteSetTheorems

-----------------------------------------------------------------------------
(* What a step of scheduling leaves of published plans *)

(* No period becomes current, and published periods and their rows stay. *)
HistoryKept ==
  /\ \A i \in PeriodId : Current(i)' <=> Current(i)
  /\ \A i \in PeriodId : period[i].status = "PUBLISHED" => period'[i] = period[i]
  /\ \A k \in RowId : period[k[1]].status = "PUBLISHED" => row'[k] = row[k]

(* A revision opens beside the published one. *)
LEMMA OpeningKeepsHistory ==
  ASSUME TypeOK, Rooted, NEW id \in PeriodId, NEW r \in Revision, NEW v \in Nat,
         MayRevise(id, r), period' = Revised(id, r, v),
         \A k \in RowId : k[1] # <<id[1], r>> => row'[k] = row[k]
  PROVE  HistoryKept
<1> DEFINE new == <<id[1], r>>
<1>1. /\ new \in PeriodId
      /\ ~Present(new)
      /\ \A i \in PeriodId : i # new => period'[i] = period[i]
      /\ period'[new] = [status |-> "DRAFT", current |-> FALSE, parent |-> id[2], version |-> v]
  BY RevisionOpens
<1> HIDE DEF new
<1>2. \A i \in PeriodId : Current(i)' <=> Current(i)
  BY <1>1 DEF Current, Present
<1>3. \A i \in PeriodId : period[i].status = "PUBLISHED" => period'[i] = period[i]
  BY <1>1 DEF Present
<1>4. \A k \in RowId : period[k[1]].status = "PUBLISHED" => row'[k] = row[k]
  BY <1>1 DEF Present, new
<1> QED
  BY <1>2, <1>3, <1>4 DEF HistoryKept

(* Rows are written in drafts only, and only publication makes a period current. *)
LEMMA OnlyPublishPublishes ==
  ASSUME TypeOK, Rooted, SchedulingNext
  PROVE  HistoryKept \/ \E id \in PeriodId : Publish(id, period[id].version)
<1>1. ASSUME NEW p \in Plan, CreatePeriod(p)
      PROVE  HistoryKept
  <2>1. /\ <<p, 1>> \in PeriodId
        /\ period[<<p, 1>>].status = "ABSENT"
        /\ row' = row
        /\ \A i \in PeriodId : i # <<p, 1>> => period'[i] = period[i]
        /\ ~Current(<<p, 1>>)'
    BY <1>1 DEF CreatePeriod, TypeOK, PeriodId, Revision, Current
  <2> QED
    BY <2>1 DEF HistoryKept, Current
<1>2. ASSUME NEW id \in PeriodId, period[id].status # "PUBLISHED",
             period'[id].status # "PUBLISHED",
             \A i \in PeriodId : i # id => period'[i] = period[i],
             \A k \in RowId : k[1] # id => row'[k] = row[k]
      PROVE  HistoryKept
  BY <1>2 DEF HistoryKept, Current
<1>3. ASSUME NEW k \in RowId, period[k[1]].status = "DRAFT", period' = Bumped(k[1]),
             \A j \in RowId : j # k => row'[j] = row[j]
      PROVE  HistoryKept
  <2>1. k[1] \in PeriodId
    BY RowKeys
  <2>2. /\ period'[k[1]].status = "DRAFT"
        /\ \A i \in PeriodId : i # k[1] => period'[i] = period[i]
    BY <1>3, <2>1 DEF Bumped, TypeOK, PeriodRec
  <2> QED
    BY <1>2, <1>3, <2>1, <2>2
<1>4. ASSUME NEW k \in RowId, NEW w \in Work, AddAssignment(k, period[k[1]].version, w)
      PROVE  HistoryKept
  BY <1>3, <1>4 DEF AddAssignment, TypeOK
<1>5. ASSUME NEW k \in RowId, NEW w \in Work,
             UpdateAssignment(k, period[k[1]].version, row[k].version, w)
      PROVE  HistoryKept
  BY <1>3, <1>5 DEF UpdateAssignment, TypeOK
<1>6. ASSUME NEW k \in RowId,
             RemoveAssignment(k, period[k[1]].version, row[k].version)
      PROVE  HistoryKept
  BY <1>3, <1>6 DEF RemoveAssignment, TypeOK
<1>7. ASSUME NEW id \in PeriodId,
             Propose(id, period[id].version) \/ ReturnToDraft(id, period[id].version)
      PROVE  HistoryKept
  BY <1>2, <1>7 DEF Propose, ReturnToDraft, TypeOK, PeriodRec
<1>8. ASSUME NEW id \in PeriodId, NEW r \in Revision, CreateRevision(id, period[id].version, r)
      PROVE  HistoryKept
  <2> DEFINE new == <<id[1], r>>
  <2>1. MayRevise(id, r) /\ period' = Revised(id, r, 1) /\ row' = WithCopies(id, new)
    BY <1>8 DEF CreateRevision
  <2>2. new \in PeriodId /\ ~Present(new)
    BY <2>1, RevisionOpens
  <2>3. \A k \in RowId : k[1] # new => row'[k] = row[k]
    BY <2>1, <2>2, CopiesWritten
  <2> QED
    BY <2>1, <2>3, OpeningKeepsHistory
<1>9. ASSUME NEW k \in RowId, NEW e \in Employee, NEW l \in Line, ReplaceInPlace(k, e, l)
      PROVE  HistoryKept
  <2>1. k[1] \in PeriodId
    BY RowKeys
  <2>2. /\ period[k[1]].status # "PUBLISHED"
        /\ period'[k[1]].status # "PUBLISHED"
        /\ \A i \in PeriodId : i # k[1] => period'[i] = period[i]
    BY <1>9, <2>1 DEF ReplaceInPlace, Editable, TypeOK, PeriodRec
  <2>3. \A j \in RowId : j[1] # k[1] => row'[j] = row[j]
    BY <1>9 DEF ReplaceInPlace, Staffed, TypeOK
  <2> QED
    BY <1>2, <2>1, <2>2, <2>3
<1>10. ASSUME NEW k \in RowId, NEW e \in Employee, NEW l \in Line, NEW r \in Revision,
              ReplaceInRevision(k, e, l, r)
       PROVE  HistoryKept
  <2> DEFINE new == <<k[1][1], r>>
             copies == WithCopies(k[1], new)
  <2>1. /\ k[1] \in PeriodId
        /\ MayRevise(k[1], r) /\ period' = Revised(k[1], r, 2)
        /\ row' = Staffed(copies, <<new, k[2]>>, e, l)
    BY <1>10, RowKeys DEF ReplaceInRevision
  <2>2. new \in PeriodId /\ ~Present(new)
    BY <2>1, RevisionOpens
  <2>3. copies \in [RowId -> RowRec \cup {NoRow}]
    BY <2>1, CopiesType
  <2>4. \A j \in RowId : j[1] # new => row'[j] = copies[j]
    <3> HIDE DEF new, copies
    <3> QED
      BY <2>1, <2>3 DEF Staffed
  <2>5. \A j \in RowId : j[1] # new => row'[j] = row[j]
    BY <2>1, <2>2, <2>4, CopiesWritten
  <2> QED
    BY <2>1, <2>5, OpeningKeepsHistory
<1> QED
  BY <1>1, <1>4, <1>5, <1>6, <1>7, <1>8, <1>9, <1>10
     DEF SchedulingNext, EditingNext, PlanningNext, ReplacementNext

(* A row of a current period was there, current already or valid when it was published. *)
LEMMA CurrentRows ==
  ASSUME TypeOK, Rooted, SchedulingNext, NEW k \in RowId, Live(k)', Current(k[1])'
  PROVE  row'[k] = row[k] /\ (Current(k[1]) \/ ValidRow(k))
<1>0. k[1] \in PeriodId
  BY RowKeys
<1>1. CASE HistoryKept
  BY <1>0, <1>1 DEF HistoryKept, Current
<1>2. ASSUME NEW id \in PeriodId, Publish(id, period[id].version)
      PROVE  row'[k] = row[k] /\ (Current(k[1]) \/ ValidRow(k))
  <2>1. row' = row /\ \A j \in LiveRows(id) : ValidRow(j)
    BY <1>2 DEF Publish
  <2>2. period'[k[1]].status = (IF k[1] = id THEN "PUBLISHED" ELSE period[k[1]].status)
    BY <1>0, <1>2, PublishWrites
  <2>3. period'[k[1]].current = (k[1] = id \/ (period[k[1]].current /\ k[1][1] # id[1]))
    BY <1>0, <1>2, PublishWrites
  <2>4. k[1] = id \/ Current(k[1])
    BY <2>2, <2>3 DEF Current
  <2> QED
    BY <2>1, <2>4 DEF LiveRows, Live
<1> QED
  BY <1>1, <1>2, OnlyPublishPublishes

(* A row that stands takes its employee's day from a row that stood, or found it unbooked. *)
TakenFrom(j, w) ==
  /\ Standing(j)
  /\ row[j].work.employee = w.employee
  /\ row[j].work.date = w.date

LEMMA StandingRows ==
  ASSUME TypeOK, Rooted, SchedulingNext, NEW k \in RowId, Standing(k)'
  PROVE  \/ \E j \in RowId : TakenFrom(j, row'[k].work)
         \/ ~Booked(row'[k].work.employee, row'[k].work.date, row'[k].work.date)
<1> DEFINE Goal == \/ \E j \in RowId : TakenFrom(j, row'[k].work)
                   \/ ~Booked(row'[k].work.employee, row'[k].work.date, row'[k].work.date)
<1>0. k[1] \in PeriodId
  BY RowKeys
<1>1. ASSUME row'[k] = row[k], Active(k[1])
      PROVE  Goal
  BY <1>1 DEF TakenFrom, Standing, Live
<1>2. ASSUME NEW w \in Work, row'[k].work = w, ~Booked(w.employee, w.date, w.date)
      PROVE  Goal
  BY <1>2
<1> HIDE DEF Goal
<1>3. ASSUME NEW x \in RowId, period' = Bumped(x[1])
      PROVE  Active(k[1])
  BY <1>0, <1>3, RowKeys DEF Standing, Bumped, TypeOK, PeriodRec, Active, Editable, Current
<1>4. ASSUME NEW p \in Plan, CreatePeriod(p)
      PROVE  Goal
  <2>1. /\ row' = row
        /\ <<p, 1>> \in PeriodId
        /\ ~Present(<<p, 1>>)
        /\ \A i \in PeriodId : i # <<p, 1>> => period'[i] = period[i]
    BY <1>4 DEF CreatePeriod, Present, TypeOK, PeriodId, Revision
  <2>2. k[1] # <<p, 1>>
    BY <2>1 DEF Rooted, Standing, Live, NoRow
  <2>3. Active(k[1])
    BY <1>0, <2>1, <2>2 DEF Standing, Active, Editable, Current
  <2> QED
    BY <1>1, <2>1, <2>3
<1>5. ASSUME NEW x \in RowId, NEW w \in Work, AddAssignment(x, period[x[1]].version, w)
      PROVE  Goal
  <2>1. CASE x = k
    BY <1>2, <1>5, <2>1 DEF AddAssignment, NoOverlap, TypeOK, NewRow
  <2>2. CASE x # k
    BY <1>1, <1>3, <1>5, <2>2 DEF AddAssignment, TypeOK
  <2> QED
    BY <2>1, <2>2
<1>6. ASSUME NEW x \in RowId, NEW w \in Work,
             UpdateAssignment(x, period[x[1]].version, row[x].version, w)
      PROVE  Goal
  <2>1. CASE x = k
    <3>1. row[k] \in RowRec
      BY <1>6, <2>1, LiveIsRow DEF UpdateAssignment
    <3> QED
      BY <1>2, <1>6, <2>1, <3>1 DEF UpdateAssignment, NoOverlap, TypeOK, RowRec
  <2>2. CASE x # k
    BY <1>1, <1>3, <1>6, <2>2 DEF UpdateAssignment, TypeOK
  <2> QED
    BY <2>1, <2>2
<1>7. ASSUME NEW x \in RowId, RemoveAssignment(x, period[x[1]].version, row[x].version)
      PROVE  Goal
  <2>1. CASE x = k
    <3>1. row[k] \in RowRec
      BY <1>7, <2>1, LiveIsRow DEF RemoveAssignment
    <3> QED
      BY <1>7, <2>1, <3>1 DEF RemoveAssignment, TypeOK, RowRec, Standing, Live
  <2>2. CASE x # k
    BY <1>1, <1>3, <1>7, <2>2 DEF RemoveAssignment, TypeOK
  <2> QED
    BY <2>1, <2>2
<1>8. ASSUME NEW id \in PeriodId,
             Propose(id, period[id].version) \/ ReturnToDraft(id, period[id].version)
      PROVE  Goal
  <2>1. row' = row
    BY <1>8 DEF Propose, ReturnToDraft
  <2>2. Active(k[1])
    BY <1>0, <1>8 DEF Standing, Propose, ReturnToDraft, TypeOK, PeriodRec, Active, Editable, Current
  <2> QED
    BY <1>1, <2>1, <2>2
<1>9. ASSUME NEW id \in PeriodId, Publish(id, period[id].version)
      PROVE  Goal
  <2>1. row' = row /\ period[id].status = "PROPOSED"
    BY <1>9 DEF Publish
  <2>2. Active(k[1])
    BY <1>0, <1>9, <2>1, PublishWrites DEF Standing, Active, Editable, Current
  <2> QED
    BY <1>1, <2>1, <2>2
<1>10. ASSUME NEW id \in PeriodId, NEW r \in Revision, NEW v \in Nat,
              MayRevise(id, r), period' = Revised(id, r, v),
              row'[k] = WithCopies(id, <<id[1], r>>)[k]
       PROVE  Goal
  <2> DEFINE s == Source(id, <<id[1], r>>, k)
  <2>1. s \in RowId /\ Standing(s) /\ row'[k].work = row[s].work
    BY <1>10, CopyStands
  <2> HIDE DEF s
  <2> QED
    BY <2>1 DEF TakenFrom, Goal
<1>11. ASSUME NEW id \in PeriodId, NEW r \in Revision, CreateRevision(id, period[id].version, r)
       PROVE  Goal
  BY <1>10, <1>11 DEF CreateRevision
<1>12. ASSUME NEW x \in RowId, NEW e \in Employee, NEW l \in Line, ReplaceInPlace(x, e, l)
       PROVE  Goal
  <2> DEFINE y == <<x[1], l>>
             w == For(e, row[x].work)
  <2>1. row[x] \in RowRec /\ y \in RowId /\ (l = x[2] => y = x) /\ w \in Work
    BY <1>12, LiveIsRow, RowKeys DEF ReplaceInPlace, RowId, RowRec, Work, For
  <2>2. /\ \A j \in RowId \ {y} : row'[j] = row[j]
        /\ row'[y].work = w
    BY <1>12, <2>1 DEF ReplaceInPlace, Staffed, TypeOK, RowRec, NewRow
  <2>3. ~Booked(w.employee, w.date, w.date)
    BY <1>12 DEF ReplaceInPlace, Available, NoOverlap
  <2>4. Active(k[1])
    BY <1>0, <1>12, RowKeys DEF Standing, ReplaceInPlace, TypeOK, PeriodRec, Active, Editable, Current
  <2> HIDE DEF y, w
  <2> QED
    BY <1>1, <1>2, <2>1, <2>2, <2>3, <2>4
<1>13. ASSUME NEW x \in RowId, NEW e \in Employee, NEW l \in Line, NEW r \in Revision,
              ReplaceInRevision(x, e, l, r)
       PROVE  Goal
  <2> DEFINE new == <<x[1][1], r>>
             copies == WithCopies(x[1], new)
             y == <<new, l>>
             w == For(e, row[x].work)
  <2>1. /\ x[1] \in PeriodId /\ x[2] \in Line /\ x = <<x[1], x[2]>>
        /\ MayRevise(x[1], r) /\ period' = Revised(x[1], r, 2)
        /\ Live(x)
        /\ row' = Staffed(copies, <<new, x[2]>>, e, l)
        /\ ~Booked(w.employee, w.date, w.date)
    BY <1>13, RowKeys DEF ReplaceInRevision, Available, NoOverlap
  <2>2. new \in PeriodId /\ ~Present(new) /\ row[x] \in RowRec
    BY <2>1, RevisionOpens, LiveIsRow
  <2>3. /\ copies \in [RowId -> RowRec \cup {NoRow}]
        /\ <<new, x[2]>> \in RowId
        /\ y \in RowId
        /\ w \in Work
    BY <2>1, <2>2, CopiesType DEF RowId, RowRec, Work, For
  <2>4. copies[<<new, x[2]>>] = NewRow(row[x].work, x)
    BY <2>1, <2>2, <2>3, CopiesWritten
  <2>5. /\ \A j \in RowId \ {y} : row'[j] = copies[j]
        /\ row'[y].work = w
    <3>1. ASSUME NEW c \in [RowId -> RowRec \cup {NoRow}], NEW a \in RowId,
                 c[a] = NewRow(row[x].work, x), a = <<new, x[2]>>, row' = Staffed(c, a, e, l)
          PROVE  /\ \A j \in RowId \ {y} : row'[j] = c[j]
                 /\ row'[y].work = w
      <4> HIDE DEF new
      <4>1. CASE l = x[2]
        BY <2>3, <3>1, <4>1 DEF Staffed, NewRow
      <4>2. CASE l # x[2]
        BY <2>3, <3>1, <4>2 DEF Staffed, NewRow
      <4> QED
        BY <4>1, <4>2
    <3> QED
      BY <2>1, <2>3, <2>4, <3>1
  <2>6. CASE k = y
    BY <1>2, <2>1, <2>3, <2>5, <2>6
  <2>7. CASE k # y
    <3>1. row'[k] = copies[k]
      BY <2>5, <2>7
    <3> QED
      BY <1>10, <2>1, <3>1
  <2> QED
    BY <2>6, <2>7
<1> QED
  BY <1>4, <1>5, <1>6, <1>7, <1>8, <1>9, <1>11, <1>12, <1>13
     DEF Goal, SchedulingNext, EditingNext, PlanningNext, ReplacementNext

-----------------------------------------------------------------------------
(* Leave, bookings and work do not meet *)

(* The other services keep every row and period. *)
LEMMA ScheduleKept ==
  ASSUME UNCHANGED scheduleVars
  PROVE  /\ \A k \in RowId : (Live(k)' <=> Live(k)) /\ (Standing(k)' <=> Standing(k))
         /\ \A i \in PeriodId : Current(i)' <=> Current(i)
         /\ row' = row
  BY DEF scheduleVars, Live, Standing, Active, Editable, Current

(* Scheduling and the directory write neither leave nor bookings. *)
LEMMA PlanningKeepsLeave ==
  SchedulingNext \/ DirectoryNext => UNCHANGED <<leaveVars, bookingVars>>
  BY DEF SchedulingNext, EditingNext, PlanningNext, ReplacementNext, CreatePeriod, AddAssignment,
         UpdateAssignment, RemoveAssignment, Propose, ReturnToDraft, Publish, CreateRevision,
         ReplaceInPlace, ReplaceInRevision, DirectoryNext, SetEmployeeActive, UpdateProject,
         SetReachable, SetClientArchived, leaveVars, bookingVars

(* A leave step approves one pending request, free of bookings and published work, or none. *)
LEMMA LeaveApproves ==
  ASSUME TypeOK, LeaveNext
  PROVE  \/ \A l \in LeaveId : Approved(l)' => Approved(l) /\ leave'[l] = leave[l]
         \/ \E a \in LeaveId :
              /\ leave[a] \in LeaveRec
              /\ ApproveLeave(a, leave[a].version)
              /\ leave'[a] = [leave[a] EXCEPT !.status = "APPROVED", !.version = @ + 1]
              /\ \A l \in LeaveId : l # a => leave'[l] = leave[l]
<1>1. ASSUME NEW l \in LeaveId, NEW s \in {"CANCELLED", "REJECTED"}, Settle(l, s)
      PROVE  \A m \in LeaveId : Approved(m)' => Approved(m) /\ leave'[m] = leave[m]
  BY <1>1 DEF Settle, Approved, TypeOK, LeaveRec, NoLeave
<1>2. ASSUME NEW l \in LeaveId, NEW e \in Employee, NEW first \in Date, NEW last \in Date,
             SubmitLeave(l, e, first, last)
      PROVE  \A m \in LeaveId : Approved(m)' => Approved(m) /\ leave'[m] = leave[m]
  BY <1>2 DEF SubmitLeave, Approved, TypeOK
<1>3. ASSUME NEW days \in Allowance, UpdateAllowance(days, allowance.version)
      PROVE  \A m \in LeaveId : Approved(m)' => Approved(m) /\ leave'[m] = leave[m]
  BY <1>3 DEF UpdateAllowance, Approved
<1>4. ASSUME NEW a \in LeaveId, ApproveLeave(a, leave[a].version)
      PROVE  /\ leave[a] \in LeaveRec
             /\ leave'[a] = [leave[a] EXCEPT !.status = "APPROVED", !.version = @ + 1]
             /\ \A l \in LeaveId : l # a => leave'[l] = leave[l]
  BY <1>4 DEF ApproveLeave, Settle, Pending, TypeOK, NoLeave
<1> QED
  BY <1>1, <1>2, <1>3, <1>4 DEF LeaveNext, CancelLeave, RejectLeave

LEMMA LeaveKept ==
  ASSUME \A l \in LeaveId : Approved(l)' => Approved(l) /\ leave'[l] = leave[l]
  PROVE  \A e, first, last : OnLeave(e, first, last)' => OnLeave(e, first, last)
  BY DEF OnLeave

(* After an approval somebody is on leave who was before, or the one whose leave it is. *)
LEMMA ApprovalAdds ==
  ASSUME NEW a \in LeaveId, leave[a] \in LeaveRec,
         leave'[a] = [leave[a] EXCEPT !.status = "APPROVED", !.version = @ + 1],
         \A l \in LeaveId : l # a => leave'[l] = leave[l],
         NEW e, NEW first, NEW last, OnLeave(e, first, last)'
  PROVE  OnLeave(e, first, last) \/ (leave[a].employee = e /\ Meets(leave[a], first, last))
<1>1. /\ leave'[a].employee = leave[a].employee
      /\ leave'[a].first = leave[a].first
      /\ leave'[a].last = leave[a].last
  BY DEF LeaveRec
<1>2. PICK l \in LeaveId : Approved(l)' /\ leave'[l].employee = e /\ Meets(leave'[l], first, last)
  BY DEF OnLeave
<1>3. CASE l = a
  BY <1>1, <1>2, <1>3 DEF Meets
<1>4. CASE l # a
  BY <1>2, <1>4 DEF OnLeave, Approved
<1> QED
  BY <1>3, <1>4

(* A cancelled booking ends; no booking is added. *)
LEMMA BookingEnds ==
  ASSUME TypeOK, NEW b \in BookingId, CancelBooking(b, booking[b].version)
  PROVE  \A c \in BookingId : ActiveBooking(c)' => ActiveBooking(c) /\ booking'[c] = booking[c]
<1>1. booking[b] \in BookingRec
  BY DEF CancelBooking, ActiveBooking, TypeOK, NoBooking
<1> QED
  BY <1>1 DEF CancelBooking, ActiveBooking, TypeOK, BookingRec

Apart == LeaveKeepsPublishedPlan /\ BookingExclusive

LEMMA ApartInit == Init => Apart
  BY DEF Init, Apart, LeaveKeepsPublishedPlan, BookingExclusive, Live, NoRow, ActiveBooking, NoBooking

(* Work moves onto a day only past the leave and the bookings of that day. *)
LEMMA SchedulingApart == TypeOK /\ Rooted /\ Apart /\ SchedulingNext => Apart'
<1> SUFFICES ASSUME TypeOK, Rooted, Apart, SchedulingNext
             PROVE  Apart'
  OBVIOUS
<1>1. leave' = leave /\ booking' = booking
  BY PlanningKeepsLeave DEF leaveVars, bookingVars
<1>2. LeaveKeepsPublishedPlan'
  <2> SUFFICES ASSUME NEW k \in RowId, Live(k)', Current(k[1])',
                      OnLeave(row[k].work.employee, row[k].work.date, row[k].work.date)'
               PROVE  FALSE
    BY DEF LeaveKeepsPublishedPlan
  <2>1. row'[k] = row[k] /\ (Current(k[1]) \/ ValidRow(k))
    BY CurrentRows
  <2>2. OnLeave(row[k].work.employee, row[k].work.date, row[k].work.date) /\ Live(k)
    BY <1>1, <2>1 DEF OnLeave, Approved, Live
  <2> QED
    BY <2>1, <2>2 DEF Apart, LeaveKeepsPublishedPlan, ValidRow, ValidReferences
<1>3. BookingExclusive'
  <2> SUFFICES ASSUME NEW b \in BookingId, ActiveBooking(b),
                      Scheduled(b[2], booking[b].first, booking[b].last)'
               PROVE  FALSE
    BY <1>1 DEF Apart, BookingExclusive, ActiveBooking, OnLeave, Approved
  <2>1. PICK k \in RowId : /\ Standing(k)'
                           /\ row'[k].work.employee = b[2]
                           /\ Meets(booking[b], row'[k].work.date, row'[k].work.date)
    BY <1>1 DEF Scheduled, Meets
  <2>2. Booked(row'[k].work.employee, row'[k].work.date, row'[k].work.date)
    BY <2>1 DEF Booked
  <2>3. PICK j \in RowId : TakenFrom(j, row'[k].work)
    BY <2>1, <2>2, StandingRows
  <2>4. Scheduled(b[2], booking[b].first, booking[b].last)
    BY <2>1, <2>3 DEF TakenFrom, Scheduled, Meets
  <2> QED
    BY <2>4 DEF Apart, BookingExclusive
<1> QED
  BY <1>2, <1>3 DEF Apart

(* Leave is approved only past bookings and published work. *)
LEMMA LeaveApart == TypeOK /\ Apart /\ LeaveNext => Apart'
<1> SUFFICES ASSUME TypeOK, Apart, LeaveNext
             PROVE  Apart'
  OBVIOUS
<1>0. UNCHANGED scheduleVars /\ booking' = booking
  BY DEF LeaveNext, SubmitLeave, CancelLeave, ApproveLeave, RejectLeave, Settle, UpdateAllowance,
         scheduleVars, bookingVars
<1>1. /\ \A k \in RowId : (Live(k)' <=> Live(k)) /\ (Standing(k)' <=> Standing(k))
      /\ \A k \in RowId : Current(k[1])' <=> Current(k[1])
      /\ row' = row
      /\ booking' = booking
  BY <1>0, ScheduleKept, RowKeys
<1>2. ASSUME \A e, first, last : OnLeave(e, first, last)' => OnLeave(e, first, last)
      PROVE  Apart'
  <2>1. LeaveKeepsPublishedPlan'
    BY <1>1, <1>2 DEF Apart, LeaveKeepsPublishedPlan
  <2>2. BookingExclusive'
    BY <1>1, <1>2 DEF Apart, BookingExclusive, ActiveBooking, Scheduled
  <2> QED
    BY <2>1, <2>2 DEF Apart
<1>3. ASSUME NEW a \in LeaveId, leave[a] \in LeaveRec, ApproveLeave(a, leave[a].version),
             leave'[a] = [leave[a] EXCEPT !.status = "APPROVED", !.version = @ + 1],
             \A l \in LeaveId : l # a => leave'[l] = leave[l]
      PROVE  Apart'
  <2>1. /\ ~Booked(leave[a].employee, leave[a].first, leave[a].last)
        /\ ~PublishedImpact(leave[a].employee, leave[a].first, leave[a].last)
    BY <1>3 DEF ApproveLeave
  <2>2. \A e, first, last : OnLeave(e, first, last)' =>
          OnLeave(e, first, last) \/ (leave[a].employee = e /\ Meets(leave[a], first, last))
    BY <1>3, ApprovalAdds
  <2>3. LeaveKeepsPublishedPlan'
    <3> SUFFICES ASSUME NEW k \in RowId, Live(k), Current(k[1]),
                        OnLeave(row[k].work.employee, row[k].work.date, row[k].work.date)'
                 PROVE  FALSE
      BY <1>1 DEF LeaveKeepsPublishedPlan
    <3>1. row'[k].work = row[k].work
      BY <1>1
    <3>2. leave[a].employee = row[k].work.employee /\ Meets(leave[a], row[k].work.date, row[k].work.date)
      BY <2>2, <3>1 DEF Apart, LeaveKeepsPublishedPlan
    <3> QED
      BY <2>1, <3>2 DEF PublishedImpact, Meets
  <2>4. BookingExclusive'
    <3> SUFFICES ASSUME NEW b \in BookingId, ActiveBooking(b)
                 PROVE  ~OnLeave(b[2], booking[b].first, booking[b].last)'
      BY <1>1 DEF Apart, BookingExclusive, ActiveBooking, Scheduled
    <3>1. OnLeave(b[2], booking[b].first, booking[b].last)' =>
            leave[a].employee = b[2] /\ Meets(leave[a], booking[b].first, booking[b].last)
      BY <1>1, <2>2 DEF Apart, BookingExclusive
    <3> QED
      BY <2>1, <3>1 DEF Booked, Meets
  <2> QED
    BY <2>3, <2>4 DEF Apart
<1> QED
  BY <1>2, <1>3, LeaveApproves, LeaveKept

(* A booking is made only past leave, bookings and all planned work. *)
LEMMA BookingApart == TypeOK /\ Apart /\ OutsourcingNext => Apart'
<1> SUFFICES ASSUME TypeOK, Apart, OutsourcingNext
             PROVE  Apart'
  OBVIOUS
<1>1. UNCHANGED scheduleVars /\ leave' = leave
  BY DEF OutsourcingNext, CreateBooking, CancelBooking, scheduleVars, leaveVars
<1>2. /\ \A e, first, last : OnLeave(e, first, last)' <=> OnLeave(e, first, last)
      /\ \A e, first, last : Scheduled(e, first, last)' <=> Scheduled(e, first, last)
  BY <1>1, ScheduleKept DEF OnLeave, Approved, Scheduled
<1>3. LeaveKeepsPublishedPlan'
  <2>1. /\ \A k \in RowId : (Live(k)' <=> Live(k)) /\ (Current(k[1])' <=> Current(k[1]))
        /\ row' = row
    BY <1>1, ScheduleKept, RowKeys
  <2> QED
    BY <1>2, <2>1 DEF Apart, LeaveKeepsPublishedPlan
<1>4. ASSUME NEW b \in BookingId, CancelBooking(b, booking[b].version)
      PROVE  BookingExclusive'
  BY <1>2, <1>4, BookingEnds DEF Apart, BookingExclusive
<1>5. ASSUME NEW n \in Batch, NEW client \in Client, NEW team \in SUBSET Employee,
             NEW first \in Date, NEW last \in Date, CreateBooking(n, client, team, first, last)
      PROVE  BookingExclusive'
  <2> DEFINE added(b) == b[1] = n /\ b[2] \in team
  <2>1. /\ \A b \in BookingId : added(b) =>
             /\ booking'[b].first = first
             /\ booking'[b].last = last
             /\ Bookable(b[2], first, last)
        /\ \A b \in BookingId : ~added(b) => booking'[b] = booking[b]
    BY <1>5 DEF CreateBooking
  <2>2. \A b, c \in BookingId : added(b) /\ added(c) /\ b[2] = c[2] => b = c
    BY DEF BookingId
  <2> HIDE DEF added
  <2>3. ASSUME NEW b \in BookingId, NEW c \in BookingId, b # c, b[2] = c[2],
               ActiveBooking(b)', ActiveBooking(c)'
        PROVE  ~Meets(booking'[c], booking'[b].first, booking'[b].last)
    <3>1. CASE ~added(b) /\ ~added(c)
      BY <2>1, <2>3, <3>1 DEF Apart, BookingExclusive, ActiveBooking
    <3>2. CASE added(b) /\ ~added(c)
      BY <2>1, <2>3, <3>2 DEF Bookable, Booked, ActiveBooking
    <3>3. CASE added(c) /\ ~added(b)
      BY <2>1, <2>3, <3>3 DEF Bookable, Booked, ActiveBooking, Meets
    <3> QED
      BY <2>2, <2>3, <3>1, <3>2, <3>3
  <2>4. ASSUME NEW b \in BookingId, ActiveBooking(b)'
        PROVE  /\ ~OnLeave(b[2], booking'[b].first, booking'[b].last)
               /\ ~Scheduled(b[2], booking'[b].first, booking'[b].last)
    BY <2>1, <2>4 DEF Apart, BookingExclusive, ActiveBooking, Bookable
  <2> QED
    BY <1>2, <2>3, <2>4 DEF BookingExclusive
<1> QED
  BY <1>3, <1>4, <1>5 DEF OutsourcingNext, Apart

LEMMA ApartUnchanged == Apart /\ UNCHANGED <<scheduleVars, leaveVars, bookingVars>> => Apart'
  BY DEF Apart, LeaveKeepsPublishedPlan, BookingExclusive, scheduleVars, leaveVars, bookingVars,
         Live, Standing, Active, Editable, Current, OnLeave, Approved, ActiveBooking, Scheduled

LEMMA ApartStep == TypeOK /\ ScheduleInv /\ Apart /\ [Next]_vars => Apart'
<1>1. DirectoryNext => UNCHANGED <<scheduleVars, leaveVars, bookingVars>>
  BY OthersKeepSchedule, PlanningKeepsLeave
<1>2. UNCHANGED vars => UNCHANGED <<scheduleVars, leaveVars, bookingVars>>
  BY DEF vars, scheduleVars, leaveVars, bookingVars
<1> QED
  BY <1>1, <1>2, SchedulingApart, LeaveApart, BookingApart, ApartUnchanged DEF Next, ScheduleInv

(***************************************************************************)
(* Nobody is on approved leave on a day of current published work: the     *)
(* leave decision looks at published rows only and publication looks at    *)
(* approved leave, and between them nothing is missed.                     *)
(***************************************************************************)
THEOREM LeaveAndPlansApart == Spec => []LeaveKeepsPublishedPlan
<1>1. TypeOK /\ ScheduleInv /\ Apart /\ [Next]_vars => Apart' /\ ScheduleInv'
  BY ApartStep, ScheduleStep
<1>2. Apart => LeaveKeepsPublishedPlan
  BY DEF Apart
<1> QED
  BY <1>1, <1>2, ApartInit, ScheduleInit, TypeCorrect, PTL DEF Spec

(***************************************************************************)
(* A client booking has its employee to itself on all its days, against    *)
(* other bookings, approved leave and work that is drafted or published.   *)
(***************************************************************************)
THEOREM BookingsApart == Spec => []BookingExclusive
<1>1. TypeOK /\ ScheduleInv /\ Apart /\ [Next]_vars => Apart' /\ ScheduleInv'
  BY ApartStep, ScheduleStep
<1>2. Apart => BookingExclusive
  BY DEF Apart
<1> QED
  BY <1>1, <1>2, ApartInit, ScheduleInit, TypeCorrect, PTL DEF Spec
-----------------------------------------------------------------------------
(* Published history *)

FinalStep ==
  \A id \in PeriodId : period[id].status = "PUBLISHED" =>
    /\ period'[id].status = "PUBLISHED"
    /\ period'[id].current => period[id].current
    /\ Current(id) /\ ~Current(id)' =>
         \E r \in Revision : r > id[2] /\ Current(<<id[1], r>>)'
    /\ \A k \in RowId : k[1] = id => row'[k] = row[k]

(* The period that is published continues the one that yields to it. *)
LEMMA SchedulingFinal == TypeOK /\ Rooted /\ OneLineage /\ SchedulingNext => FinalStep
<1> SUFFICES ASSUME TypeOK, Rooted, OneLineage, SchedulingNext
             PROVE  FinalStep
  OBVIOUS
<1>1. CASE HistoryKept
  BY <1>1 DEF HistoryKept, FinalStep
<1>2. ASSUME NEW new \in PeriodId, Publish(new, period[new].version)
      PROVE  FinalStep
  <2> SUFFICES ASSUME NEW id \in PeriodId, period[id].status = "PUBLISHED"
               PROVE  /\ period'[id].status = "PUBLISHED"
                      /\ period'[id].current => period[id].current
                      /\ Current(id) /\ ~Current(id)' =>
                           \E r \in Revision : r > id[2] /\ Current(<<id[1], r>>)'
    BY <1>2 DEF FinalStep, Publish
  <2>1. period[new].status = "PROPOSED" /\ id # new
    BY <1>2 DEF Publish
  <2>2. /\ period'[id].status = "PUBLISHED"
        /\ period'[id].current = (period[id].current /\ id[1] # new[1])
        /\ Current(new)'
    BY <1>2, <2>1, PublishWrites DEF Current
  <2>3. ASSUME Current(id), ~Current(id)'
        PROVE  \E r \in Revision : r > id[2] /\ Current(<<id[1], r>>)'
    <3>1. id[1] = new[1]
      BY <2>2, <2>3 DEF Current
    <3>2. id[2] = period[new].parent
      BY <2>1, <2>3, <3>1, PeriodKeys DEF OneLineage, Editable
    <3>3. id[2] < new[2]
      BY <3>2 DEF Rooted
    <3>4. new[2] \in Revision /\ new = <<id[1], new[2]>>
      BY <3>1, PeriodKeys
    <3>5. new[2] > id[2]
      BY <3>3, <3>4, PeriodKeys DEF Revision
    <3> QED
      BY <2>2, <3>4, <3>5
  <2> QED
    BY <2>2, <2>3
<1> QED
  BY <1>1, <1>2, OnlyPublishPublishes

LEMMA ScheduleFinal == UNCHANGED scheduleVars => FinalStep
  BY DEF scheduleVars, FinalStep, Current

(***************************************************************************)
(* Published history is final: a published revision and its rows never     *)
(* change again, and it is superseded only by a newer one that becomes     *)
(* current in the same step.                                               *)
(***************************************************************************)
THEOREM HistoryIsFinal == Spec => PublishedIsFinal
<1>1. UNCHANGED vars => UNCHANGED scheduleVars
  BY DEF vars, scheduleVars
<1>2. TypeOK /\ ScheduleInv /\ [Next]_vars => FinalStep
  BY <1>1, SchedulingFinal, ScheduleFinal, OthersKeepSchedule DEF Next, ScheduleInv
<1>3. TypeOK /\ ScheduleInv /\ [Next]_vars => ScheduleInv'
  BY ScheduleStep
<1>4. TypeOK /\ ScheduleInv /\ [Next]_vars => [FinalStep]_vars
  BY <1>2
<1> QED
  BY <1>3, <1>4, ScheduleInit, TypeCorrect, PTL DEF Spec, PublishedIsFinal, FinalStep

FitStep ==
  \A k \in RowId : ~Current(k[1]) /\ Current(k[1])' /\ Live(k)' =>
    /\ employed[row[k].work.employee]
    /\ Usable(row[k].work.site)
    /\ OwnerOf[row[k].work.site] = ClientOf[k[1][1]]
    /\ row[k].work.date \in DatesOf[k[1][1]]

(***************************************************************************)
(* Every row of a revision that becomes current is on an active employee,  *)
(* a usable site of the plan's client and a date of its month, whatever    *)
(* the directory did while the revision was drafted and proposed.          *)
(***************************************************************************)
THEOREM PublicationsFit == Spec => PublishedFit
<1>1. TypeOK /\ ScheduleInv /\ SchedulingNext => FitStep
  BY CurrentRows DEF ScheduleInv, FitStep, ValidRow, ValidReferences
<1>2. UNCHANGED scheduleVars => FitStep
  BY DEF scheduleVars, FitStep, Current
<1>3. UNCHANGED vars => UNCHANGED scheduleVars
  BY DEF vars, scheduleVars
<1>4. TypeOK /\ ScheduleInv /\ [Next]_vars => [FitStep]_vars
  BY <1>1, <1>2, <1>3, OthersKeepSchedule DEF Next
<1>5. TypeOK /\ ScheduleInv /\ [Next]_vars => ScheduleInv'
  BY ScheduleStep
<1> QED
  BY <1>4, <1>5, ScheduleInit, TypeCorrect, PTL DEF Spec, PublishedFit, FitStep
-----------------------------------------------------------------------------
(* The allowance *)

(* The days that Taken and Asked count. *)
DaysTaken(e, y) ==
  {ld \in LeaveId \X Date :
     /\ Approved(ld[1])
     /\ leave[ld[1]].employee = e
     /\ Covers(leave[ld[1]], ld[2])
     /\ ld[2] \in WorkDay
     /\ YearOf[ld[2]] = y}

DaysAsked(l, y) == {d \in WorkDay : Covers(leave[l], d) /\ YearOf[d] = y}

LEMMA DaysAreFinite ==
  ASSUME NEW S, S \subseteq LeaveId \X Date
  PROVE  IsFiniteSet(S) /\ Cardinality(S) \in Nat
<1>1. IsFiniteSet(LeaveId \X Date)
  BY CountingAssumption, FS_Product
<1>2. IsFiniteSet(S)
  BY <1>1, FS_Subset
<1> QED
  BY <1>2, FS_CardinalityType

LEMMA CountMonotone ==
  ASSUME NEW S, NEW T, S \subseteq T, T \subseteq LeaveId \X Date
  PROVE  Cardinality(S) <= Cardinality(T)
<1>1. IsFiniteSet(T)
  BY DaysAreFinite
<1> QED
  BY <1>1, FS_Subset

(* Leave that is not approved in the step counts for no more after it. *)
LEMMA TakenKept ==
  ASSUME \A l \in LeaveId : Approved(l)' => Approved(l) /\ leave'[l] = leave[l],
         NEW e, NEW y
  PROVE  Taken(e, y)' <= Taken(e, y)
<1>1. DaysTaken(e, y)' \subseteq DaysTaken(e, y)
  BY DEF DaysTaken
<1>2. DaysTaken(e, y) \subseteq LeaveId \X Date
  BY DEF DaysTaken
<1>3. Cardinality(DaysTaken(e, y)') <= Cardinality(DaysTaken(e, y))
  BY <1>1, <1>2, CountMonotone
<1> QED
  BY <1>3 DEF Taken, DaysTaken

(* The approved request adds the working days it asks for, to its employee only. *)
LEMMA ApprovalTakes ==
  ASSUME NEW a \in LeaveId, leave[a] \in LeaveRec,
         leave'[a] = [leave[a] EXCEPT !.status = "APPROVED", !.version = @ + 1],
         \A l \in LeaveId : l # a => leave'[l] = leave[l],
         NEW e, NEW y
  PROVE  /\ Taken(e, y)' <= Taken(e, y) + Asked(a, y)
         /\ leave[a].employee # e \/ Asked(a, y) = 0 => Taken(e, y)' <= Taken(e, y)
<1> DEFINE old == DaysTaken(e, y)
           wanted == DaysAsked(a, y)
           more == IF leave[a].employee = e THEN {a} \X wanted ELSE {}
<1>1. /\ leave'[a].employee = leave[a].employee
      /\ leave'[a].first = leave[a].first
      /\ leave'[a].last = leave[a].last
  BY DEF LeaveRec
<1>2. DaysTaken(e, y)' \subseteq old \cup more
  <2> SUFFICES ASSUME NEW l \in LeaveId, NEW d \in Date, <<l, d>> \in DaysTaken(e, y)'
               PROVE  <<l, d>> \in old \cup more
    BY DEF DaysTaken
  <2>1. /\ Approved(l)'
        /\ leave'[l].employee = e
        /\ Covers(leave'[l], d)
        /\ d \in WorkDay
        /\ YearOf[d] = y
    BY DEF DaysTaken
  <2>2. CASE l # a
    BY <2>1, <2>2 DEF DaysTaken, Approved
  <2>3. CASE l = a
    BY <1>1, <2>1, <2>3 DEF DaysAsked, Covers
  <2> QED
    BY <2>2, <2>3
<1>3. old \subseteq LeaveId \X Date /\ wanted \subseteq Date /\ {a} \X wanted \subseteq LeaveId \X Date
  BY CalendarAssumption DEF DaysTaken, DaysAsked
<1>4. /\ Taken(e, y) = Cardinality(old)
      /\ Asked(a, y) = Cardinality(wanted)
      /\ Taken(e, y)' = Cardinality(DaysTaken(e, y)')
  BY DEF Taken, Asked, DaysTaken, DaysAsked
<1>5. IsFiniteSet(wanted) /\ Cardinality(wanted) \in Nat
  <2>1. IsFiniteSet(wanted)
    BY <1>3, CountingAssumption, FS_Subset
  <2> QED
    BY <2>1, FS_CardinalityType
<1>6. IsFiniteSet(old) /\ Cardinality(old) \in Nat
  BY <1>3, DaysAreFinite
<1> HIDE DEF old, wanted
<1>7. IsFiniteSet({a} \X wanted) /\ Cardinality({a} \X wanted) = Cardinality(wanted)
  <2>1. IsFiniteSet({a}) /\ Cardinality({a}) = 1
    BY FS_Singleton
  <2>2. /\ IsFiniteSet({a} \X wanted)
        /\ Cardinality({a} \X wanted) = Cardinality({a}) * Cardinality(wanted)
    BY <1>5, <2>1, FS_Product
  <2> QED
    BY <1>5, <2>1, <2>2
<1>8. /\ Cardinality(old \cup more) <= Cardinality(old) + Cardinality(more)
      /\ Cardinality(old \cup more) \in Nat
      /\ Cardinality(more) \in Nat
  <2>1. IsFiniteSet(more) /\ Cardinality(more) \in Nat
    BY <1>5, <1>7, FS_EmptySet
  <2>2. Cardinality(old \cup more) =
          Cardinality(old) + Cardinality(more) - Cardinality(old \cap more)
    BY <1>6, <2>1, FS_Union
  <2>3. Cardinality(old \cap more) \in Nat
    <3>1. IsFiniteSet(old \cap more)
      BY <1>6, FS_Intersection
    <3> QED
      BY <3>1, FS_CardinalityType
  <2>4. Cardinality(old \cup more) \in Nat
    BY <1>6, <2>1, FS_Union, FS_CardinalityType
  <2> QED
    BY <1>6, <2>1, <2>2, <2>3, <2>4
<1>9. Cardinality(DaysTaken(e, y)') <= Cardinality(old \cup more)
  <2>1. old \cup more \subseteq LeaveId \X Date
    BY <1>3
  <2> QED
    BY <1>2, <2>1, CountMonotone
<1>10. /\ leave[a].employee # e => Cardinality(more) = 0
       /\ leave[a].employee = e => Cardinality(more) = Cardinality(wanted)
  BY <1>7, FS_EmptySet
<1>11. Cardinality(DaysTaken(e, y)') \in Nat
  <2>1. DaysTaken(e, y)' \subseteq LeaveId \X Date
    BY DEF DaysTaken
  <2> QED
    BY <2>1, DaysAreFinite
<1>12. Cardinality(DaysTaken(e, y)') <= Cardinality(old) + Cardinality(more)
  BY <1>6, <1>8, <1>9, <1>11
<1> HIDE DEF more
<1> QED
  BY <1>4, <1>5, <1>6, <1>8, <1>10, <1>11, <1>12

(* An approval checks the balance of every year in which the request has days. *)
LEMMA ApprovalAsksYears ==
  ASSUME NEW a \in LeaveId, leave[a] \in LeaveRec, NEW y \in Nat, y \notin YearsOf(a)
  PROVE  Asked(a, y) = 0
<1>1. \A d \in WorkDay : Covers(leave[a], d) => YearOf[d] \in YearsOf(a)
  <2> SUFFICES ASSUME NEW d \in WorkDay, Covers(leave[a], d)
               PROVE  YearOf[d] \in YearsOf(a)
    OBVIOUS
  <2>1. d \in Date /\ leave[a].first \in Date /\ leave[a].last \in Date
    BY CalendarAssumption DEF LeaveRec
  <2>2. YearOf[d] \in Nat /\ YearOf[leave[a].first] \in Nat /\ YearOf[leave[a].last] \in Nat
    BY <2>1, CalendarAssumption
  <2>3. YearOf[leave[a].first] <= YearOf[d] /\ YearOf[d] <= YearOf[leave[a].last]
    BY <2>1, CountingAssumption DEF Covers
  <2> QED
    BY <2>2, <2>3 DEF YearsOf
<1>2. DaysAsked(a, y) = {}
  BY <1>1 DEF DaysAsked
<1> QED
  BY <1>2, FS_EmptySet DEF Asked, DaysAsked

LEMMA AllowanceStep == TypeOK /\ AllowanceHonoured /\ LeaveNext => AllowanceHonoured'
<1> SUFFICES ASSUME TypeOK, AllowanceHonoured, LeaveNext, NEW e \in Employee
             PROVE  Taken(e, ThisYear)' <= allowance'.days
  BY DEF AllowanceHonoured
<1>1. /\ Taken(e, ThisYear) \in Nat /\ Taken(e, ThisYear)' \in Nat
      /\ allowance.days \in Nat /\ ThisYear \in Nat
      /\ Taken(e, ThisYear) <= allowance.days
  <2>1. DaysTaken(e, ThisYear) \subseteq LeaveId \X Date /\ DaysTaken(e, ThisYear)' \subseteq LeaveId \X Date
    BY DEF DaysTaken
  <2>2. Cardinality(DaysTaken(e, ThisYear)) \in Nat /\ Cardinality(DaysTaken(e, ThisYear)') \in Nat
    BY <2>1, DaysAreFinite
  <2> QED
    BY <2>2, AllowanceAssumption DEF TypeOK, AllowanceHonoured, Taken, DaysTaken
<1>2. ASSUME NEW days \in Allowance, UpdateAllowance(days, allowance.version)
      PROVE  Taken(e, ThisYear)' <= allowance'.days
  <2>1. leave' = leave /\ allowance'.days = days /\ days \in Nat
    BY <1>2, AllowanceAssumption DEF UpdateAllowance
  <2>2. Taken(e, ThisYear)' = Taken(e, ThisYear)
    BY <2>1 DEF Taken, Approved
  <2>3. CASE days < allowance.days /\ \E l \in LeaveId : Approved(l) /\ leave[l].employee = e
    BY <1>2, <2>1, <2>2, <2>3 DEF UpdateAllowance
  <2>4. CASE ~(days < allowance.days)
    BY <1>1, <2>1, <2>2, <2>4
  <2>5. CASE ~\E l \in LeaveId : Approved(l) /\ leave[l].employee = e
    <3>1. DaysTaken(e, ThisYear) = {}
      BY <2>5 DEF DaysTaken
    <3>2. Taken(e, ThisYear) = 0
      BY <3>1, FS_EmptySet DEF Taken, DaysTaken
    <3> QED
      BY <2>1, <2>2, <3>2
  <2> QED
    BY <2>3, <2>4, <2>5
<1>3. ASSUME \A days \in Allowance : ~UpdateAllowance(days, allowance.version)
      PROVE  Taken(e, ThisYear)' <= allowance'.days
  <2>1. allowance' = allowance
    BY <1>3 DEF LeaveNext, SubmitLeave, CancelLeave, ApproveLeave, RejectLeave, Settle
  <2>2. CASE \A l \in LeaveId : Approved(l)' => Approved(l) /\ leave'[l] = leave[l]
    <3>1. Taken(e, ThisYear)' <= Taken(e, ThisYear)
      BY <2>2, TakenKept
    <3> QED
      BY <1>1, <2>1, <3>1
  <2>3. ASSUME NEW a \in LeaveId, leave[a] \in LeaveRec, ApproveLeave(a, leave[a].version),
               leave'[a] = [leave[a] EXCEPT !.status = "APPROVED", !.version = @ + 1],
               \A l \in LeaveId : l # a => leave'[l] = leave[l]
        PROVE  Taken(e, ThisYear)' <= allowance'.days
    <3>1. /\ Taken(e, ThisYear)' <= Taken(e, ThisYear) + Asked(a, ThisYear)
          /\ leave[a].employee # e \/ Asked(a, ThisYear) = 0 => Taken(e, ThisYear)' <= Taken(e, ThisYear)
      BY <2>3, ApprovalTakes
    <3>2. ThisYear \notin YearsOf(a) => Asked(a, ThisYear) = 0
      BY <1>1, <2>3, ApprovalAsksYears
    <3>3. ThisYear \in YearsOf(a) =>
            Asked(a, ThisYear) <= allowance.days - Taken(leave[a].employee, ThisYear)
      BY <2>3 DEF ApproveLeave, WithinBalance
    <3>4. Asked(a, ThisYear) \in Nat
      <4>1. DaysAsked(a, ThisYear) \subseteq Date
        BY CalendarAssumption DEF DaysAsked
      <4>2. IsFiniteSet(DaysAsked(a, ThisYear))
        BY <4>1, CountingAssumption, FS_Subset
      <4> QED
        BY <4>2, FS_CardinalityType DEF Asked, DaysAsked
    <3>5. CASE leave[a].employee = e /\ ThisYear \in YearsOf(a)
      BY <1>1, <2>1, <3>1, <3>3, <3>4, <3>5
    <3>6. CASE ~(leave[a].employee = e /\ ThisYear \in YearsOf(a))
      BY <1>1, <2>1, <3>1, <3>2, <3>6
    <3> QED
      BY <3>5, <3>6
  <2> QED
    BY <2>2, <2>3, LeaveApproves
<1> QED
  BY <1>2, <1>3

(***************************************************************************)
(* Nobody is granted more leave in the current year than the allowance:    *)
(* each approval counts what is taken, and a reduction of the allowance is *)
(* refused to fall below what somebody has taken.                          *)
(***************************************************************************)
THEOREM AllowanceHolds == Spec => []AllowanceHonoured
<1>1. Init => AllowanceHonoured
  <2> SUFFICES ASSUME Init, NEW e \in Employee
               PROVE  Taken(e, ThisYear) <= allowance.days
    BY DEF AllowanceHonoured
  <2>1. allowance.days \in Nat
    BY TypeInit DEF TypeOK
  <2>2. DaysTaken(e, ThisYear) = {}
    BY DEF Init, DaysTaken, Approved, NoLeave
  <2>3. Taken(e, ThisYear) = 0
    BY <2>2, FS_EmptySet DEF Taken, DaysTaken
  <2> QED
    BY <2>1, <2>3
<1>2. ASSUME AllowanceHonoured, UNCHANGED leaveVars
      PROVE  AllowanceHonoured'
  BY <1>2 DEF AllowanceHonoured, leaveVars, Taken, Approved
<1>3. OutsourcingNext => UNCHANGED leaveVars
  BY DEF OutsourcingNext, CreateBooking, CancelBooking
<1>4. UNCHANGED vars => UNCHANGED leaveVars
  BY DEF vars, leaveVars
<1>5. TypeOK /\ AllowanceHonoured /\ [Next]_vars => AllowanceHonoured'
  BY <1>2, <1>3, <1>4, PlanningKeepsLeave, AllowanceStep DEF Next
<1> QED
  BY <1>1, <1>5, TypeCorrect, PTL DEF Spec

-----------------------------------------------------------------------------
(* Requirements *)

(* The records of skills and of what sites ask for touch nothing else. *)
LEMMA RecordsOnly == RecordsNext => UNCHANGED <<vars, demand, retired, offered>>
<1>1. ASSUME NEW e \in Employee, NEW s \in Skill,
             AddEmployeeSkill(e, s) \/ ArchiveEmployeeSkill(e, s) \/ ReactivateEmployeeSkill(e, s)
      PROVE  UNCHANGED <<vars, demand, retired, offered>>
  BY <1>1 DEF AddEmployeeSkill, ArchiveEmployeeSkill, ReactivateEmployeeSkill
<1>2. ASSUME NEW c \in Client, NEW sites \in SUBSET Site, NEW s \in Skill,
             AddSiteRequirement(c, sites, s) \/ ArchiveSiteRequirement(sites, s)
      PROVE  UNCHANGED <<vars, demand, retired, offered>>
  BY <1>2 DEF AddSiteRequirement, ArchiveSiteRequirement
<1>3. ASSUME NEW sites \in SUBSET Site, NEW s \in Skill, ArchiveSiteRequirement(sites, s)
      PROVE  UNCHANGED <<vars, demand, retired, offered>>
  BY <1>3 DEF ArchiveSiteRequirement
<1> QED
  BY <1>1, <1>2, <1>3, Zenon DEF RecordsNext

LEMMA CapabilityIsPlanning == CapabilityNext => [Next]_vars
<1>1. ASSUME NEW id \in PeriodId, NEW r \in Revision, Revise(id, r)
      PROVE  PlanningNext
  BY <1>1 DEF Revise, PlanningNext
<1>2. ASSUME NEW k \in RowId, NEW e \in Employee, NEW l \in Line, CarryInPlace(k, e, l)
      PROVE  ReplacementNext
  BY <1>2 DEF CarryInPlace, ReplacementNext
<1>3. ASSUME NEW k \in RowId, NEW e \in Employee, NEW l \in Line, NEW r \in Revision,
             CarryIntoRevision(k, e, l, r)
      PROVE  ReplacementNext
  BY <1>3 DEF CarryIntoRevision, ReplacementNext
<1>4. ASSUME NEW k \in RowId, NEW s \in Skill,
             AddAssignmentRequirement(k, s) \/ ArchiveAssignmentRequirement(k, s)
      PROVE  UNCHANGED vars
  BY <1>4 DEF AddAssignmentRequirement, ArchiveAssignmentRequirement
<1>5. ASSUME NEW s \in Skill, NEW active \in BOOLEAN, SetSkillActive(s, active)
      PROVE  UNCHANGED vars
  BY <1>5 DEF SetSkillActive
<1>6. EditingNext => PlanningNext
  BY DEF PlanningNext
<1>7. RecordsNext => UNCHANGED vars
  BY RecordsOnly
<1> QED
  BY <1>1, <1>2, <1>3, <1>4, <1>5, <1>6, <1>7 DEF CapabilityNext, Next, SchedulingNext

(***************************************************************************)
(* The services with skill requirements implement the services without:    *)
(* what those guarantee, nobody booked twice or working on leave, holds    *)
(* of the composed system too.                                             *)
(***************************************************************************)
THEOREM CapabilityRefines == CapabilitySpec => Spec
<1>1. [CapabilityNext]_allVars => [Next]_vars
  BY CapabilityIsPlanning DEF allVars
<1> QED
  BY <1>1, PTL DEF CapabilitySpec, CapabilityInit, Spec

(* Requirements are of rows that exist. *)
DemandOnRows == demand \subseteq {d \in RowId \X Skill : row[d[1]] # NoRow}

LEMMA DemandOfCopies ==
  ASSUME TypeOK, Rooted, DemandOnRows, NEW id \in PeriodId, NEW new \in PeriodId, ~Present(new),
         NEW k \in RowId
  PROVE  {s \in Skill : <<k, s>> \in Inherited(id, new)} =
           IF k[1] # new THEN Wanted(k)
           ELSE IF Live(<<id, k[2]>>) THEN Wanted(<<id, k[2]>>) ELSE {}
<1> DEFINE j == <<id, k[2]>>
<1>1. j \in RowId /\ j[1] = id /\ j[2] = k[2] /\ k = <<k[1], k[2]>>
  BY RowKeys DEF RowId
<1> HIDE DEF j
<1>2. ASSUME NEW s \in Skill
      PROVE  <<k, s>> \in Inherited(id, new) <=>
               \/ <<k, s>> \in demand
               \/ k[1] = new /\ Live(j) /\ <<j, s>> \in demand
  <2>1. ASSUME NEW c \in demand, c[1] \in LiveRows(id), <<k, s>> = <<<<new, c[1][2]>>, c[2]>>
        PROVE  k[1] = new /\ Live(j) /\ <<j, s>> \in demand
    <3>1. k = <<new, c[1][2]>> /\ s = c[2]
      BY <2>1
    <3>2. c[1] \in RowId /\ c[1][1] = id /\ Live(c[1]) /\ c = <<c[1], c[2]>>
      BY <2>1 DEF LiveRows, DemandOnRows
    <3>3. c[1] = j
      BY <3>1, <3>2, RowKeys DEF j
    <3> QED
      BY <3>1, <3>2, <3>3
  <2>2. ASSUME k[1] = new, Live(j), <<j, s>> \in demand
        PROVE  \E c \in demand : c[1] \in LiveRows(id) /\ <<k, s>> = <<<<new, c[1][2]>>, c[2]>>
    BY <1>1, <2>2 DEF LiveRows
  <2> QED
    BY <2>1, <2>2 DEF Inherited
<1>3. k[1] = new => \A s \in Skill : <<k, s>> \notin demand
  BY DEF Rooted, DemandOnRows
<1> QED
  BY <1>2, <1>3 DEF Wanted, j

LEMMA DemandOfJoining ==
  ASSUME NEW D, NEW k \in RowId, NEW l \in Line, NEW j \in RowId
  PROVE  {s \in Skill : <<j, s>> \in Joined(D, k, l)} =
           {s \in Skill : <<j, s>> \in D}
             \cup (IF j = <<k[1], l>> THEN {s \in Skill : <<k, s>> \in D} ELSE {})
  BY DEF Joined

LEMMA WorkIsSource ==
  ASSUME TypeOK, NEW k \in RowId, NEW j \in RowId, Live(j), Current(j[1]), j[1][1] = k[1][1],
         NEW e, NEW w, w = row[j].work \/ w = For(e, row[j].work)
  PROVE  j \in Sources(k, w)
<1>1. row[j].work \in Work
  BY LiveIsRow DEF RowRec
<1> QED
  BY <1>1 DEF Sources, For, Work

(* What a step does to the requirements of the row k, as far as reports may rely on it. *)
CarriedTo(k) ==
  /\ ~Present(k[1]) /\ Live(k)' => \E j \in Sources(k, row'[k].work) : Wanted(k)' = Wanted(j)
  /\ period[k[1]].status = "PUBLISHED" => Wanted(k)' = Wanted(k)

LEMMA RevisionCarries ==
  ASSUME TypeOK, Rooted, DemandOnRows, NEW id \in PeriodId, NEW r \in Revision,
         Revise(id, r), NEW k \in RowId
  PROVE  CarriedTo(k)
<1> DEFINE new == <<id[1], r>>
           j == <<id, k[2]>>
<1>1. /\ new \in PeriodId /\ ~Present(new) /\ Current(id)
      /\ row' = WithCopies(id, new)
  BY RevisionOpens DEF Revise, CreateRevision, MayRevise
<1>2. Wanted(k)' = {s \in Skill : <<k, s>> \in Inherited(id, new)}
  BY DEF Revise, Wanted
<1>3. /\ k[1] # new => Wanted(k)' = Wanted(k)
      /\ k[1] = new /\ Live(j) => Wanted(k)' = Wanted(j)
  BY <1>1, <1>2, DemandOfCopies
<1>4. period[k[1]].status = "PUBLISHED" => k[1] # new
  BY <1>1 DEF Present
<1>5. ASSUME ~Present(k[1]), Live(k)'
      PROVE  \E i \in Sources(k, row'[k].work) : Wanted(k)' = Wanted(i)
  <2>1. j \in RowId /\ j[1] = id /\ id[1] = new[1]
    BY RowKeys DEF RowId
  <2> HIDE DEF new
  <2>2. row[k] = NoRow
    BY <1>5 DEF Rooted
  <2>3. k[1] = new /\ Live(j)
    BY <1>1, <1>5, <2>2, CopiesWritten DEF Live, NoRow
  <2>4. row'[k].work = row[j].work
    <3>1. row'[k] = NewRow(row[j].work, j)
      BY <1>1, <2>3, CopiesWritten
    <3> QED
      BY <3>1 DEF NewRow
  <2>5. j \in Sources(k, row'[k].work)
    BY <1>1, <2>1, <2>3, <2>4, WorkIsSource
  <2> QED
    BY <1>3, <2>3, <2>5
<1> QED
  BY <1>3, <1>4, <1>5 DEF CarriedTo

LEMMA InPlaceCarries ==
  ASSUME TypeOK, Rooted, NEW k \in RowId, NEW e \in Employee, NEW l \in Line,
         CarryInPlace(k, e, l), NEW j \in RowId
  PROVE  CarriedTo(j)
<1> DEFINE added == <<k[1], l>>
<1>1. Editable(k[1]) /\ k = <<k[1], k[2]>> /\ row' = Staffed(row, k, e, l)
  BY RowKeys DEF CarryInPlace, ReplaceInPlace
<1>2. Wanted(j)' = {s \in Skill : <<j, s>> \in Joined(demand, k, l)}
  BY DEF CarryInPlace, Wanted
<1>3. j[1] # k[1] => Wanted(j)' = Wanted(j)
  <2>1. j[1] # k[1] => j # added
    OBVIOUS
  <2>2. {s \in Skill : <<j, s>> \in Joined(demand, k, l)} =
          {s \in Skill : <<j, s>> \in demand}
            \cup (IF j = added THEN {s \in Skill : <<k, s>> \in demand} ELSE {})
    BY DemandOfJoining
  <2> HIDE DEF added
  <2> QED
    BY <1>2, <2>1, <2>2 DEF Wanted
<1>4. period[j[1]].status = "PUBLISHED" => j[1] # k[1]
  BY <1>1 DEF Editable
<1>5. ASSUME ~Present(j[1]), Live(j)'
      PROVE  FALSE
  <2>1. row[j] = NoRow /\ j[1] # k[1]
    BY <1>1, <1>5 DEF Rooted, Present, Editable
  <2>2. row'[j] = row[j]
    BY <1>1, <2>1 DEF Staffed, TypeOK
  <2> QED
    BY <1>5, <2>1, <2>2 DEF Live, NoRow
<1> QED
  BY <1>3, <1>4, <1>5 DEF CarriedTo

LEMMA IntoRevisionCarries ==
  ASSUME TypeOK, Rooted, DemandOnRows, NEW k \in RowId, NEW e \in Employee, NEW l \in Line,
         NEW r \in Revision, CarryIntoRevision(k, e, l, r), NEW j \in RowId
  PROVE  CarriedTo(j)
<1> DEFINE new == <<k[1][1], r>>
           copies == WithCopies(k[1], new)
           c == <<new, k[2]>>
           added == <<new, l>>
           from == <<k[1], j[2]>>
<1>1. /\ k[1] \in PeriodId /\ k[2] \in Line /\ k = <<k[1], k[2]>>
      /\ new \in PeriodId /\ ~Present(new) /\ Current(k[1]) /\ Live(k)
      /\ l = k[2] \/ ~Live(<<k[1], l>>)
      /\ row' = Staffed(copies, c, e, l)
  BY RowKeys, RevisionOpens DEF CarryIntoRevision, ReplaceInRevision, MayRevise, Live
<1>2. c \in RowId /\ added \in RowId /\ from \in RowId
  BY <1>1, RowKeys DEF RowId
<1>3. copies \in [RowId -> RowRec \cup {NoRow}]
  BY <1>1, CopiesType
<1>4. /\ c[1] = new /\ c[2] = k[2] /\ added[1] = new /\ added[2] = l
      /\ from[1] = k[1] /\ new[1] = k[1][1] /\ j = <<j[1], j[2]>>
      /\ added = <<c[1], l>>
  BY RowKeys
<1>5. Wanted(j)' = {s \in Skill : <<j, s>> \in Joined(Inherited(k[1], new), c, l)}
  BY DEF CarryIntoRevision, Wanted
<1> DEFINE carried(i) == {s \in Skill : <<i, s>> \in Inherited(k[1], new)}
<1>6. Wanted(j)' = carried(j) \cup (IF j = added THEN carried(c) ELSE {})
  <2> DEFINE D == Inherited(k[1], new)
  <2> HIDE DEF D, c
  <2>1. {s \in Skill : <<j, s>> \in Joined(D, c, l)} =
          {s \in Skill : <<j, s>> \in D}
            \cup (IF j = <<c[1], l>> THEN {s \in Skill : <<c, s>> \in D} ELSE {})
    BY <1>2, DemandOfJoining
  <2>2. added = <<c[1], l>>
    BY <1>4
  <2> HIDE DEF added
  <2> QED
    BY <1>5, <2>1, <2>2 DEF D
<1>7. carried(c) = Wanted(k)
  BY <1>1, <1>2, <1>4, DemandOfCopies
<1>8. carried(j) = IF j[1] # new THEN Wanted(j) ELSE IF Live(from) THEN Wanted(from) ELSE {}
  BY <1>1, DemandOfCopies
<1>9. copies[c] = NewRow(row[k].work, k)
  BY <1>1, <1>2, <1>4, CopiesWritten
<1>10. k[1] # new
  BY <1>1 DEF Current, Present
<1> HIDE DEF carried, copies, c, added, from, new
<1>11. period[j[1]].status = "PUBLISHED" => Wanted(j)' = Wanted(j)
  <2>1. period[j[1]].status = "PUBLISHED" => j[1] # new
    BY <1>1 DEF Present
  <2> QED
    BY <1>4, <1>6, <1>8, <2>1
<1>12. ASSUME NEW i \in RowId, Live(i), i[1] = k[1], Wanted(j)' = Wanted(i),
              row'[j].work = row[i].work \/ row'[j].work = For(e, row[i].work),
              j[1] = new
       PROVE  \E h \in Sources(j, row'[j].work) : Wanted(j)' = Wanted(h)
  <2>1. i \in Sources(j, row'[j].work)
    BY <1>1, <1>4, <1>12, WorkIsSource
  <2> QED
    BY <1>12, <2>1
<1>13. ASSUME l = k[2], j = c
       PROVE  Wanted(j)' = Wanted(k) /\ row'[j].work = For(e, row[k].work)
  <2>1. row'[c] = [copies[c] EXCEPT !.work = For(e, @), !.version = @ + 1]
    BY <1>1, <1>2, <1>3, <1>4, <1>13 DEF Staffed
  <2>2. \A f, v : [copies[c] EXCEPT !.work = f, !.version = v].work = f
    BY <1>9 DEF NewRow
  <2>3. row'[c].work = For(e, copies[c].work)
    BY <2>1, <2>2
  <2>4. copies[c].work = row[k].work
    BY <1>9 DEF NewRow
  <2>5. Wanted(j)' = Wanted(k)
    BY <1>6, <1>7, <1>13
  <2> QED
    BY <1>13, <2>3, <2>4, <2>5
<1>14. ASSUME l # k[2], j = added
       PROVE  Wanted(j)' = Wanted(k) /\ row'[j].work = For(e, row[k].work)
  <2>1. row'[j] = NewRow(For(e, copies[c].work), NoCopy)
    BY <1>1, <1>2, <1>3, <1>4, <1>14 DEF Staffed
  <2>2. copies[c].work = row[k].work
    BY <1>9 DEF NewRow
  <2>3. ~Live(from)
    BY <1>1, <1>4, <1>14 DEF from
  <2>4. carried(j) = {}
    BY <1>4, <1>8, <1>14, <2>3
  <2>5. Wanted(j)' = Wanted(k)
    BY <1>6, <1>7, <1>14, <2>4
  <2> QED
    BY <2>1, <2>2, <2>5 DEF NewRow
<1>15. ASSUME Live(j)', row[j] = NoRow, j # added
       PROVE  \/ l = k[2] /\ j = c
              \/ /\ Live(from) /\ j[1] = new
                 /\ Wanted(j)' = Wanted(from) /\ row'[j].work = row[from].work
  <2> SUFFICES ASSUME ~(l = k[2] /\ j = c)
               PROVE  /\ Live(from) /\ j[1] = new
                      /\ Wanted(j)' = Wanted(from) /\ row'[j].work = row[from].work
    OBVIOUS
  <2>1. row'[j] = copies[j]
    BY <1>1, <1>2, <1>3, <1>4, <1>15 DEF Staffed
  <2>2. j[1] = new /\ Live(<<k[1], j[2]>>)
    BY <1>1, <1>15, <2>1, CopiesWritten DEF Live, NoRow, copies
  <2>3. copies[j] = NewRow(row[<<k[1], j[2]>>].work, <<k[1], j[2]>>)
    BY <1>1, <2>2, CopiesWritten DEF copies
  <2>4. row'[j].work = row[from].work
    BY <2>1, <2>3 DEF NewRow, from
  <2>5. Wanted(j)' = Wanted(from)
    BY <1>6, <1>8, <1>15, <2>2 DEF from
  <2> QED
    BY <2>2, <2>4, <2>5 DEF from
<1>16. ASSUME ~Present(j[1]), Live(j)'
       PROVE  \E h \in Sources(j, row'[j].work) : Wanted(j)' = Wanted(h)
  <2>1. row[j] = NoRow
    BY <1>16 DEF Rooted
  <2>2. CASE j = added
    <3>1. l = k[2] => j = c
      BY <1>4, <2>2 DEF added, c
    <3>2. Wanted(j)' = Wanted(k) /\ row'[j].work = For(e, row[k].work)
      BY <1>13, <1>14, <2>2, <3>1
    <3> QED
      BY <1>1, <1>4, <1>12, <2>2, <3>2
  <2>3. CASE j # added /\ l = k[2] /\ j = c
    BY <1>1, <1>4, <1>12, <1>13, <2>3
  <2>4. CASE j # added /\ ~(l = k[2] /\ j = c)
    <3>1. /\ Live(from) /\ j[1] = new
          /\ Wanted(j)' = Wanted(from) /\ row'[j].work = row[from].work
      BY <1>15, <1>16, <2>1, <2>4
    <3> QED
      BY <1>2, <1>4, <1>12, <3>1
  <2> QED
    BY <2>2, <2>3, <2>4
<1> QED
  BY <1>11, <1>16 DEF CarriedTo

(* Every other step creates no row in a new period, and asks only of drafts. *)
LEMMA OthersCarry ==
  ASSUME TypeOK, Rooted, EditingNext \/ UNCHANGED row, NEW k \in RowId,
         period[k[1]].status # "DRAFT" => Wanted(k)' = Wanted(k)
  PROVE  CarriedTo(k)
<1>1. ASSUME ~Present(k[1]), EditingNext
      PROVE  row'[k] = row[k]
  <2>1. row[k] = NoRow
    BY <1>1 DEF Rooted
  <2>2. ASSUME NEW i \in RowId, NEW w \in Work, AddAssignment(i, period[i[1]].version, w)
        PROVE  row'[k] = row[k]
    BY <1>1, <2>2 DEF AddAssignment, Present, TypeOK
  <2>3. ASSUME NEW i \in RowId, NEW w \in Work, Live(i),
               UpdateAssignment(i, period[i[1]].version, row[i].version, w)
        PROVE  row'[k] = row[k]
    BY <2>1, <2>3 DEF UpdateAssignment, Live, NoRow, TypeOK
  <2>4. ASSUME NEW i \in RowId, Live(i), RemoveAssignment(i, period[i[1]].version, row[i].version)
        PROVE  row'[k] = row[k]
    BY <2>1, <2>4 DEF RemoveAssignment, Live, NoRow, TypeOK
  <2> QED
    BY <1>1, <2>2, <2>3, <2>4 DEF EditingNext, CreatePeriod, Propose, ReturnToDraft, Publish
<1>2. ~(~Present(k[1]) /\ Live(k)')
  BY <1>1 DEF Rooted, Live, NoRow
<1> QED
  BY <1>2 DEF CarriedTo

LEMMA StepCarries ==
  ASSUME TypeOK, Rooted, DemandOnRows, [CapabilityNext]_allVars, NEW k \in RowId
  PROVE  CarriedTo(k)
<1>1. ASSUME NEW id \in PeriodId, NEW r \in Revision, Revise(id, r)
      PROVE  CarriedTo(k)
  BY <1>1, RevisionCarries
<1>2. ASSUME NEW j \in RowId, NEW e \in Employee, NEW l \in Line, CarryInPlace(j, e, l)
      PROVE  CarriedTo(k)
  BY <1>2, InPlaceCarries
<1>3. ASSUME NEW j \in RowId, NEW e \in Employee, NEW l \in Line, NEW r \in Revision,
             CarryIntoRevision(j, e, l, r)
      PROVE  CarriedTo(k)
  BY <1>3, IntoRevisionCarries
<1>4. ASSUME NEW j \in RowId, NEW s \in Skill,
             AddAssignmentRequirement(j, s) \/ ArchiveAssignmentRequirement(j, s)
      PROVE  CarriedTo(k)
  <2>1. row' = row /\ period[j[1]].status = "DRAFT"
    BY <1>4 DEF AddAssignmentRequirement, ArchiveAssignmentRequirement, Manageable, vars
  <2>2. demand' = demand \cup {<<j, s>>} \/ demand' = demand \ {<<j, s>>}
    BY <1>4 DEF AddAssignmentRequirement, ArchiveAssignmentRequirement
  <2>3. k # j => Wanted(k)' = Wanted(k)
    BY <2>2 DEF Wanted
  <2>4. period[k[1]].status # "DRAFT" => Wanted(k)' = Wanted(k)
    BY <2>1, <2>3
  <2> QED
    BY <2>1, <2>4, OthersCarry
<1>5. ASSUME demand' = demand, EditingNext \/ UNCHANGED row
      PROVE  CarriedTo(k)
  <2>1. Wanted(k)' = Wanted(k)
    BY <1>5 DEF Wanted
  <2> QED
    BY <1>5, <2>1, OthersCarry
<1>6. ASSUME NEW s \in Skill, NEW active \in BOOLEAN, SetSkillActive(s, active)
      PROVE  CarriedTo(k)
  BY <1>5, <1>6 DEF SetSkillActive, vars
<1>7. (LeaveNext \/ OutsourcingNext \/ DirectoryNext) /\ UNCHANGED capabilityVars => CarriedTo(k)
  BY <1>5, OthersKeepSchedule DEF capabilityVars, scheduleVars
<1>8. UNCHANGED allVars => CarriedTo(k)
  BY <1>5 DEF allVars, vars
<1>9. EditingNext /\ UNCHANGED capabilityVars => CarriedTo(k)
  BY <1>5 DEF capabilityVars
<1>10. RecordsNext => CarriedTo(k)
  BY <1>5, RecordsOnly DEF vars
<1> QED
  BY <1>1, <1>2, <1>3, <1>4, <1>6, <1>7, <1>8, <1>9, <1>10 DEF CapabilityNext

(* What a replacement asks for: what was asked before, and the outgoing row's skills on the incoming one. *)
LEMMA JoinedRows ==
  ASSUME NEW D, NEW k, NEW l, <<k[1], l>> \in RowId
  PROVE  \A d \in Joined(D, k, l) : d \in D \/ (d[1] = <<k[1], l>> /\ d \in RowId \X Skill)
<1> DEFINE added == <<k[1], l>>
           S == {t \in Skill : <<k, t>> \in D}
<1>1. added \in RowId /\ Joined(D, k, l) = D \cup {<<added, s>> : s \in S}
  BY DEF Joined
<1>2. \A s \in S : s \in Skill
  OBVIOUS
<1> HIDE DEF added, S
<1>3. \A d \in Joined(D, k, l) : d \in D \/ (d[1] = added /\ d \in RowId \X Skill)
  BY <1>1, <1>2
<1> QED
  BY <1>3 DEF added

(* Requirements stay with rows that exist. *)
LEMMA DemandStep ==
  ASSUME TypeOK, Rooted, DemandOnRows, [CapabilityNext]_allVars
  PROVE  DemandOnRows'
<1>1. \A k \in RowId : row[k] # NoRow => row'[k] # NoRow
  <2>1. [Next]_vars
    BY CapabilityIsPlanning DEF allVars
  <2> QED
    BY <2>1, StepGrows DEF RowGrows
<1>2. ASSUME demand' \subseteq demand
      PROVE  DemandOnRows'
  BY <1>1, <1>2 DEF DemandOnRows
<1>3. ASSUME NEW id \in PeriodId, NEW new \in PeriodId, ~Present(new), NEW d \in Inherited(id, new)
      PROVE  d \in RowId \X Skill /\ WithCopies(id, new)[d[1]] # NoRow
  <2>1. CASE d \in demand
    BY <1>3, <2>1, CopiesGrow DEF DemandOnRows
  <2>2. CASE d \notin demand
    <3>1. PICK c \in demand : c[1] \in LiveRows(id) /\ d = <<<<new, c[1][2]>>, c[2]>>
      BY <2>2 DEF Inherited
    <3>2. c[1] \in RowId /\ c[2] \in Skill /\ c[1][1] = id /\ Live(c[1])
      BY <3>1 DEF DemandOnRows, LiveRows
    <3>3. c[1] = <<id, c[1][2]>> /\ c[1][2] \in Line
      BY <3>2, RowKeys
    <3>4. d[1] \in RowId /\ d[2] \in Skill /\ d[1][1] = new /\ d[1][2] = c[1][2] /\ d = <<d[1], d[2]>>
      BY <1>3, <3>1, <3>2, <3>3 DEF RowId
    <3>5. Live(<<id, d[1][2]>>)
      BY <3>2, <3>3, <3>4
    <3>6. WithCopies(id, new)[d[1]] = NewRow(row[<<id, d[1][2]>>].work, <<id, d[1][2]>>)
      BY <1>3, <3>4, <3>5, CopiesWritten
    <3> QED
      BY <3>4, <3>6 DEF NewRow, NoRow
  <2> QED
    BY <2>1, <2>2
<1>4. ASSUME NEW id \in PeriodId, NEW r \in Revision, Revise(id, r)
      PROVE  DemandOnRows'
  <2> DEFINE new == <<id[1], r>>
  <2>1. new \in PeriodId /\ ~Present(new) /\ row' = WithCopies(id, new) /\ demand' = Inherited(id, new)
    BY <1>4, RevisionOpens DEF Revise, CreateRevision
  <2> HIDE DEF new
  <2> QED
    BY <1>3, <2>1 DEF DemandOnRows
<1>5. ASSUME NEW k \in RowId, NEW e \in Employee, NEW l \in Line, CarryInPlace(k, e, l)
      PROVE  DemandOnRows'
  <2> DEFINE added == <<k[1], l>>
  <2>1. /\ row' = Staffed(row, k, e, l) /\ demand' = Joined(demand, k, l)
        /\ Live(k) /\ k = <<k[1], k[2]>> /\ added \in RowId
    BY <1>5, RowKeys DEF CarryInPlace, ReplaceInPlace, RowId
  <2>2. row'[added] # NoRow
    <3>1. CASE l = k[2]
      BY <1>1, <2>1, <3>1 DEF Live, NoRow
    <3>2. CASE l # k[2]
      BY <2>1, <3>2 DEF Staffed, TypeOK, NewRow, NoRow
    <3> QED
      BY <3>1, <3>2
  <2>3. \A d \in demand' : d \in demand \/ (d[1] = added /\ d \in RowId \X Skill)
    BY <2>1, JoinedRows
  <2> HIDE DEF added
  <2> QED
    BY <1>1, <2>2, <2>3 DEF DemandOnRows
<1>6. ASSUME NEW k \in RowId, NEW e \in Employee, NEW l \in Line, NEW r \in Revision,
             CarryIntoRevision(k, e, l, r)
      PROVE  DemandOnRows'
  <2> DEFINE new == <<k[1][1], r>>
             copies == WithCopies(k[1], new)
             c == <<new, k[2]>>
             added == <<new, l>>
             D == Inherited(k[1], new)
  <2>1. /\ k[1] \in PeriodId /\ k[2] \in Line /\ k = <<k[1], k[2]>>
        /\ new \in PeriodId /\ ~Present(new) /\ Live(k)
        /\ row' = Staffed(copies, c, e, l) /\ demand' = Joined(D, c, l)
    BY <1>6, RowKeys, RevisionOpens DEF CarryIntoRevision, ReplaceInRevision
  <2>2. c \in RowId /\ added \in RowId /\ c[1] = new /\ c[2] = k[2] /\ added = <<c[1], l>>
    BY <2>1 DEF RowId
  <2>3. copies \in [RowId -> RowRec \cup {NoRow}]
    BY <2>1, CopiesType
  <2>4. \A d \in D : d \in RowId \X Skill /\ copies[d[1]] # NoRow
    BY <1>3, <2>1
  <2>5. copies[c] = NewRow(row[k].work, k)
    BY <2>1, <2>2, CopiesWritten
  <2> HIDE DEF copies, c, added, D, new
  <2>6. \A j \in RowId : copies[j] # NoRow \/ j = added => row'[j] # NoRow
    <3>1. CASE l = k[2]
      <4>1. added = c
        BY <2>2, <3>1 DEF added, c
      <4>2. \A j \in RowId : row'[j] = IF j = c THEN [copies[c] EXCEPT !.work = For(e, @), !.version = @ + 1]
                                       ELSE copies[j]
        BY <2>1, <2>2, <2>3, <3>1 DEF Staffed
      <4>3. row'[c] = [copies[c] EXCEPT !.work = For(e, @), !.version = @ + 1]
        BY <2>2, <4>2
      <4>4. row'[c] # NoRow
        BY <2>5, <4>3 DEF NewRow, NoRow
      <4>5. \A j \in RowId : j # c => row'[j] = copies[j]
        BY <4>2
      <4> QED
        BY <4>1, <4>4, <4>5
    <3>2. CASE l # k[2]
      <4>1. \A j \in RowId : row'[j] = IF j = added THEN NewRow(For(e, copies[c].work), NoCopy) ELSE copies[j]
        BY <2>1, <2>2, <2>3, <3>2 DEF Staffed
      <4> QED
        BY <4>1 DEF NewRow, NoRow
    <3> QED
      BY <3>1, <3>2
  <2>7. \A d \in demand' : d \in D \/ (d[1] = added /\ d \in RowId \X Skill)
    <3>1. /\ demand' = Joined(D, <<new, k[2]>>, l)
          /\ <<<<new, k[2]>>[1], l>> = added /\ added \in RowId
      BY <2>1, <2>2 DEF c
    <3> QED
      BY <3>1, JoinedRows
  <2> QED
    BY <2>2, <2>4, <2>6, <2>7 DEF DemandOnRows
<1>7. ASSUME NEW k \in RowId, NEW s \in Skill, AddAssignmentRequirement(k, s)
      PROVE  DemandOnRows'
  <2>1. row[k] # NoRow /\ row' = row /\ demand' = demand \cup {<<k, s>>}
    BY <1>7 DEF AddAssignmentRequirement, Manageable, Live, NoRow, vars
  <2> QED
    BY <2>1 DEF DemandOnRows
<1>8. ASSUME NEW k \in RowId, NEW s \in Skill, ArchiveAssignmentRequirement(k, s)
      PROVE  DemandOnRows'
  BY <1>2, <1>8 DEF ArchiveAssignmentRequirement
<1>9. demand' = demand => DemandOnRows'
  BY <1>2
<1>10. RecordsNext => DemandOnRows'
  BY <1>9, RecordsOnly
<1> QED
  BY <1>4, <1>5, <1>6, <1>7, <1>8, <1>9, <1>10 DEF CapabilityNext, capabilityVars, allVars, SetSkillActive

(* A published revision's requirements and rows stay: while the records do, its warnings do. *)
LEMMA WarningsStay ==
  ASSUME FinalStep, NEW id \in PeriodId, period[id].status = "PUBLISHED",
         \A k \in RowId : CarriedTo(k), UNCHANGED recordVars
  PROVE  WarningsForPeriod(id)' = WarningsForPeriod(id)
<1>1. \A k \in RowId : k[1] = id => row'[k] = row[k] /\ Wanted(k)' = Wanted(k)
  BY DEF FinalStep, CarriedTo
<1>2. LiveRows(id)' = LiveRows(id)
  BY <1>1 DEF LiveRows, Live
<1>3. \A k \in LiveRows(id) : MissingSkills(k)' = MissingSkills(k)
  BY <1>1 DEF LiveRows, MissingSkills, EffectiveRequirements, SkillsOf, SiteSkills, recordVars
<1> QED
  BY <1>2, <1>3 DEF WarningsForPeriod

CapabilityInv == TypeOK /\ ScheduleInv /\ Apart /\ DemandOnRows

LEMMA CapabilityInvInit == CapabilityInit => CapabilityInv
<1>1. CapabilityInit => DemandOnRows
  BY DEF CapabilityInit, DemandOnRows
<1> QED
  BY <1>1, TypeInit, ScheduleInit, ApartInit DEF CapabilityInit, CapabilityInv

LEMMA CapabilityInvStep == CapabilityInv /\ [CapabilityNext]_allVars => CapabilityInv'
<1>1. [CapabilityNext]_allVars => [Next]_vars
  BY CapabilityIsPlanning DEF allVars
<1>2. TypeOK /\ [Next]_vars => TypeOK'
  <2>1. TypeOK /\ UNCHANGED vars => TypeOK'
    BY DEF TypeOK, vars
  <2> QED
    BY <2>1, SchedulingType, LeaveType, OutsourcingType, DirectoryType DEF Next
<1> QED
  BY <1>1, <1>2, ScheduleStep, ApartStep, DemandStep DEF CapabilityInv, ScheduleInv

FollowStep ==
  \A k \in RowId :
    /\ period[k[1]].status = "ABSENT" /\ row'[k].state = "LIVE" =>
         \E j \in Sources(k, row'[k].work) : Wanted(k)' = Wanted(j)
    /\ period[k[1]].status = "PUBLISHED" =>
         /\ Wanted(k)' = Wanted(k)
         /\ UNCHANGED recordVars => WarningsForPeriod(k[1])' = WarningsForPeriod(k[1])

(***************************************************************************)
(* Requirements follow the work: a row of a new revision asks for what the *)
(* row it comes from asked for, whatever replaces whom, and what a         *)
(* published revision asks for never changes again.  It comes to warn of   *)
(* anything else only when an employee's skills or a site's requirements   *)
(* are recorded anew.                                                      *)
(***************************************************************************)
THEOREM RequirementsFollow == CapabilitySpec => DemandFollowsWork
<1>1. CapabilityInv /\ [CapabilityNext]_allVars => FollowStep
  <2> SUFFICES ASSUME CapabilityInv, [CapabilityNext]_allVars, NEW k \in RowId
               PROVE  /\ ~Present(k[1]) /\ Live(k)' =>
                           \E j \in Sources(k, row'[k].work) : Wanted(k)' = Wanted(j)
                      /\ period[k[1]].status = "PUBLISHED" =>
                           /\ Wanted(k)' = Wanted(k)
                           /\ UNCHANGED recordVars => WarningsForPeriod(k[1])' = WarningsForPeriod(k[1])
    BY DEF FollowStep, Present, Live
  <2>1. [Next]_vars
    BY CapabilityIsPlanning DEF allVars
  <2>2. FinalStep
    <3>1. UNCHANGED vars => UNCHANGED scheduleVars
      BY DEF vars, scheduleVars
    <3> QED
      BY <2>1, <3>1, SchedulingFinal, ScheduleFinal, OthersKeepSchedule DEF Next, CapabilityInv, ScheduleInv
  <2>3. \A j \in RowId : CarriedTo(j)
    BY StepCarries DEF CapabilityInv, ScheduleInv
  <2>4. k[1] \in PeriodId
    BY RowKeys
  <2> QED
    BY <2>2, <2>3, <2>4, WarningsStay DEF CarriedTo
<1>2. CapabilityInv /\ [CapabilityNext]_allVars => [FollowStep]_allVars
  BY <1>1
<1> QED
  BY <1>2, CapabilityInvInit, CapabilityInvStep, PTL DEF CapabilitySpec, DemandFollowsWork, FollowStep

-----------------------------------------------------------------------------
(* Reports *)

(***************************************************************************)
(* A report adds queries to the services and writes nothing, so the        *)
(* invariants of planning hold while one is being read.                    *)
(***************************************************************************)
LEMMA ReportReadsOnly == [ReportNext]_reportingVars => [Next]_vars
<1>1. [CapabilityNext]_allVars => [Next]_vars
  BY CapabilityIsPlanning DEF allVars
<1>2. ReportNext => [CapabilityNext]_allVars
  BY DEF ReportNext, AskReport, ReadOnLeave, ReadOnSchedule
<1> QED
  BY <1>1, <1>2 DEF reportingVars

ReportRec ==
  [date : Date, start : Time, end : Time, read : SUBSET {"leave", "schedule"},
   onLeave : SUBSET Employee, onSchedule : SUBSET Employee]

(* Whoever a report found on leave still is: approved leave cannot be withdrawn. *)
ReportInv == report \in ReportRec /\ report.onLeave \subseteq LeaveOnDate(report.date)

(* No step ends approved leave or moves it. *)
LEMMA ApprovedStays ==
  ASSUME TypeOK, [Next]_vars, NEW l \in LeaveId, Approved(l)
  PROVE  Approved(l)' /\ leave'[l].employee = leave[l].employee
           /\ leave'[l].first = leave[l].first /\ leave'[l].last = leave[l].last
<1>1. CASE UNCHANGED leave
  BY <1>1 DEF Approved
<1>2. CASE LeaveNext
  <2>1. \A m \in LeaveId, e \in Employee, first, last \in Date :
          SubmitLeave(m, e, first, last) => leave'[l] = leave[l]
    BY DEF SubmitLeave, Approved, NoLeave, TypeOK
  <2>2. \A m \in LeaveId :
          CancelLeave(m, leave[m].version) \/ ApproveLeave(m, leave[m].version)
            \/ RejectLeave(m, leave[m].version) => leave'[l] = leave[l]
    BY DEF CancelLeave, ApproveLeave, RejectLeave, Settle, Approved, Pending, TypeOK
  <2>3. \A days \in Allowance : UpdateAllowance(days, allowance.version) => leave'[l] = leave[l]
    BY DEF UpdateAllowance
  <2>4. leave'[l] = leave[l]
    BY <1>2, <2>1, <2>2, <2>3 DEF LeaveNext
  <2> QED
    BY <2>4 DEF Approved
<1>3. SchedulingNext \/ OutsourcingNext \/ DirectoryNext \/ UNCHANGED vars => UNCHANGED leave
  <2>1. SchedulingNext => UNCHANGED leave
    BY PlanningKeepsLeave DEF leaveVars
  <2>2. OutsourcingNext => UNCHANGED leave
    BY DEF OutsourcingNext, CreateBooking, CancelBooking, leaveVars
  <2>3. DirectoryNext => UNCHANGED leave
    BY DEF DirectoryNext, SetEmployeeActive, UpdateProject, SetReachable, SetClientArchived, leaveVars
  <2> QED
    BY <2>1, <2>2, <2>3 DEF vars
<1> QED
  BY <1>1, <1>2, <1>3 DEF Next

LEMMA OnLeaveStays ==
  ASSUME TypeOK, [Next]_vars, NEW d
  PROVE  LeaveOnDate(d) \subseteq LeaveOnDate(d)'
<1> SUFFICES ASSUME NEW l \in LeaveId, Approved(l), Covers(leave[l], d)
             PROVE  leave[l].employee \in LeaveOnDate(d)'
  BY DEF LeaveOnDate
<1>1. Approved(l)' /\ leave'[l].employee = leave[l].employee /\ Covers(leave'[l], d)
  BY ApprovedStays DEF Covers
<1> QED
  BY <1>1 DEF LeaveOnDate

LEMMA QueriesNameEmployees ==
  ASSUME TypeOK, NEW d, NEW s, NEW e
  PROVE  /\ LeaveOnDate(d) \subseteq Employee
         /\ PublishedInHours(Everything, d, s, e) \subseteq Employee
<1>1. \A l \in LeaveId : Approved(l) => leave[l].employee \in Employee
  BY DEF TypeOK, LeaveRec, NoLeave, Approved
<1>2. \A k \in RowId : Live(k) => row[k].work.employee \in Employee
  BY DEF TypeOK, RowRec, NoRow, Live, Work
<1> QED
  BY <1>1, <1>2 DEF LeaveOnDate, PublishedInHours, Workers, PublishedWindow, Assignments

LEMMA ReportInvInit == ReportInit => ReportInv
<1> SUFFICES ASSUME ReportInit
             PROVE  ReportInv
  OBVIOUS
<1>1. PICK d \in Date, s \in Time, e \in Time : report = AskedOf(d, s, e)
  BY DEF ReportInit
<1> QED
  BY <1>1 DEF AskedOf, ReportInv, ReportRec

LEMMA ReportInvStep == TypeOK /\ ReportInv /\ [ReportNext]_reportingVars => ReportInv'
<1> SUFFICES ASSUME TypeOK, ReportInv, [ReportNext]_reportingVars
             PROVE  ReportInv'
  OBVIOUS
<1>d. PICK d : d = report.date
  OBVIOUS
<1>1. LeaveOnDate(d) \subseteq LeaveOnDate(d)'
  <2>1. [Next]_vars
    BY ReportReadsOnly
  <2> QED
    BY <2>1, OnLeaveStays
<1>m. ASSUME report' \in ReportRec, report'.date = d, report'.onLeave \subseteq LeaveOnDate(d)
      PROVE  ReportInv'
  <2>1. LeaveOnDate(report.date)' = LeaveOnDate(d)'
    BY <1>m DEF LeaveOnDate
  <2>2. report'.onLeave \subseteq LeaveOnDate(report.date)'
    BY <1>1, <1>m, <2>1
  <2> QED
    BY <1>m, <2>2 DEF ReportInv
<1>2. ASSUME UNCHANGED report
      PROVE  ReportInv'
  <2>1. report.onLeave \subseteq LeaveOnDate(d)
    BY <1>d DEF ReportInv
  <2> QED
    BY <1>2, <1>d, <1>m, <2>1 DEF ReportInv
<1>3. ASSUME NEW date \in Date, NEW start \in Time, NEW end \in Time, AskReport(date, start, end)
      PROVE  ReportInv'
  <2>1. report' = AskedOf(date, start, end)
    BY <1>3 DEF AskReport
  <2>2. report'.onLeave = {} /\ report' \in ReportRec
    BY <2>1 DEF AskedOf, ReportRec
  <2> QED
    BY <2>2 DEF ReportInv
<1>4. ASSUME ReadOnLeave
      PROVE  ReportInv'
  <2> DEFINE found == LeaveOnDate(d)
  <2>1. found \subseteq Employee
    BY QueriesNameEmployees
  <2>2. report' = [report EXCEPT !.read = @ \cup {"leave"}, !.onLeave = found]
    BY <1>4, <1>d DEF ReadOnLeave
  <2> HIDE DEF found
  <2>3. report' \in ReportRec /\ report'.onLeave = found /\ report'.date = d
    BY <1>d, <2>1, <2>2 DEF ReportInv, ReportRec
  <2> QED
    BY <1>m, <2>3 DEF found
<1>5. ASSUME ReadOnSchedule
      PROVE  ReportInv'
  <2> DEFINE found == PublishedInHours(Everything, report.date, report.start, report.end)
  <2>1. found \subseteq Employee
    BY QueriesNameEmployees
  <2>2. report' = [report EXCEPT !.read = @ \cup {"schedule"}, !.onSchedule = found]
    BY <1>5 DEF ReadOnSchedule
  <2> HIDE DEF found
  <2>3. report' \in ReportRec /\ report'.onLeave = report.onLeave /\ report'.date = d
    BY <1>d, <2>1, <2>2 DEF ReportInv, ReportRec
  <2>4. report.onLeave \subseteq LeaveOnDate(d)
    BY <1>d DEF ReportInv
  <2> QED
    BY <1>m, <2>3, <2>4
<1> QED
  BY <1>2, <1>3, <1>4, <1>5 DEF ReportNext, reportingVars

(***************************************************************************)
(* Whoever the approved-leave report shows on leave and at work at once is *)
(* no longer at work in that hour, whatever was committed between its two  *)
(* queries and since, and whichever of them read first: the leave it found *)
(* stands, and no plan in force schedules anybody on leave.                *)
(***************************************************************************)
THEOREM ShownConflictsAreOver == ReportSpec => []ShownConflictIsOver
<1>1. ReportSpec => Spec
  <2>1. ReportInit => Init
    BY DEF ReportInit, CapabilityInit
  <2> QED
    BY <2>1, ReportReadsOnly, PTL DEF ReportSpec, Spec
<1>2. ReportSpec => []TypeOK /\ []LeaveKeepsPublishedPlan
  BY <1>1, TypeCorrect, LeaveAndPlansApart, PTL
<1>3. ReportSpec => []ReportInv
  BY <1>2, ReportInvInit, ReportInvStep, PTL DEF ReportSpec
<1>4. LeaveKeepsPublishedPlan /\ ReportInv => ShownConflictIsOver
  <2> SUFFICES ASSUME LeaveKeepsPublishedPlan, ReportInv, NEW e \in Employee,
                      e \in report.onLeave,
                      e \in PublishedInHours(Everything, report.date, report.start, report.end)
               PROVE  FALSE
    BY DEF ShownConflictIsOver, ConflictValue
  <2>1. PICK k \in RowId : /\ Live(k) /\ Current(k[1])
                           /\ row[k].work.date = report.date /\ row[k].work.employee = e
    BY DEF PublishedInHours, PublishedWindow, Assignments, Workers
  <2>2. OnLeave(e, report.date, report.date)
    BY DEF ReportInv, LeaveOnDate, OnLeave, Covers, Meets
  <2> QED
    BY <2>1, <2>2 DEF LeaveKeepsPublishedPlan
<1> QED
  BY <1>2, <1>3, <1>4, PTL

-----------------------------------------------------------------------------
(* The hours of a report *)

(* Work ends after it begins, whoever wrote or copied its row. *)
Forward == \A k \in RowId : row[k] # NoRow => row[k].work.start < row[k].work.end

LEMMA ForwardWrites ==
  ASSUME TypeOK, Forward, NEW k \in RowId, NEW w \in Work, w.start < w.end,
         \A j \in RowId : j # k /\ row'[j] # NoRow =>
            row[j] # NoRow /\ row'[j].work = row[j].work,
         row'[k].work = w
  PROVE  Forward'
BY DEF Forward

LEMMA SchedulingForward == TypeOK /\ Rooted /\ Forward /\ SchedulingNext => Forward'
<1> SUFFICES ASSUME TypeOK, Rooted, Forward, SchedulingNext
             PROVE  Forward'
  OBVIOUS
<1>1. ASSUME row' = row
      PROVE  Forward'
  BY <1>1 DEF Forward
<1>2. ASSUME NEW k \in RowId, NEW w \in Work, AddAssignment(k, period[k[1]].version, w)
      PROVE  Forward'
  <2>1. w.start < w.end
    BY <1>2, CalendarAssumption DEF AddAssignment, ValidReferences, Work
  <2>2. row'[k].work = w /\ \A j \in RowId : j # k => row'[j] = row[j]
    BY <1>2 DEF AddAssignment, NewRow, TypeOK
  <2> QED
    BY <2>1, <2>2, ForwardWrites
<1>3. ASSUME NEW k \in RowId, NEW w \in Work, Live(k),
             UpdateAssignment(k, period[k[1]].version, row[k].version, w)
      PROVE  Forward'
  <2>1. w.start < w.end
    BY <1>3, CalendarAssumption DEF UpdateAssignment, ValidReferences, Work
  <2>2. row[k] \in RowRec
    BY <1>3, LiveIsRow
  <2>3. row'[k].work = w /\ \A j \in RowId : j # k => row'[j] = row[j]
    BY <1>3, <2>2 DEF UpdateAssignment, RowRec, TypeOK
  <2> QED
    BY <2>1, <2>3, ForwardWrites
<1>4. ASSUME NEW k \in RowId, Live(k), RemoveAssignment(k, period[k[1]].version, row[k].version)
      PROVE  Forward'
  <2>1. row[k] \in RowRec
    BY <1>4, LiveIsRow
  <2>2. row'[k].work = row[k].work /\ \A j \in RowId : j # k => row'[j] = row[j]
    BY <1>4, <2>1 DEF RemoveAssignment, RowRec, TypeOK
  <2> QED
    BY <1>4, <2>2 DEF Forward, Live, NoRow
<1>5. ASSUME NEW id \in PeriodId, NEW new \in PeriodId, ~Present(new), NEW k \in RowId,
             WithCopies(id, new)[k] # NoRow
      PROVE  WithCopies(id, new)[k].work.start < WithCopies(id, new)[k].work.end
  <2>1. CASE k[1] # new
    BY <1>5, <2>1, CopiesWritten DEF Forward
  <2>2. CASE k[1] = new
    <3>1. Live(<<id, k[2]>>) /\ WithCopies(id, new)[k] = NewRow(row[<<id, k[2]>>].work, <<id, k[2]>>)
      BY <1>5, <2>2, CopiesWritten
    <3>2. <<id, k[2]>> \in RowId
      BY RowKeys DEF RowId
    <3>3. row[<<id, k[2]>>] # NoRow
      BY <3>1 DEF Live, NoRow
    <3>4. PICK w : w = row[<<id, k[2]>>].work
      OBVIOUS
    <3>5. w.start < w.end
      BY <3>2, <3>3, <3>4 DEF Forward
    <3>6. WithCopies(id, new)[k].work = w
      BY <3>1, <3>4 DEF NewRow
    <3> QED
      BY <3>5, <3>6
  <2> QED
    BY <2>1, <2>2
<1>6. ASSUME NEW id \in PeriodId, NEW r \in Revision, CreateRevision(id, period[id].version, r)
      PROVE  Forward'
  <2>1. row' = WithCopies(id, <<id[1], r>>) /\ <<id[1], r>> \in PeriodId /\ ~Present(<<id[1], r>>)
    BY <1>6, RevisionOpens DEF CreateRevision
  <2> QED
    BY <1>5, <2>1 DEF Forward
<1>7. ASSUME NEW rows \in [RowId -> RowRec \cup {NoRow}], NEW k \in RowId, rows[k] \in RowRec,
             NEW e \in Employee, NEW l \in Line, rows[k].work.start < rows[k].work.end,
             row' = Staffed(rows, k, e, l),
             \A j \in RowId : rows[j] # NoRow => rows[j].work.start < rows[j].work.end
      PROVE  Forward'
  <2>1. PICK w : w = For(e, rows[k].work)
    OBVIOUS
  <2>2. w.start < w.end
    BY <1>7, <2>1 DEF For
  <2>3. <<k[1], l>> \in RowId
    BY RowKeys DEF RowId
  <2>4. CASE l = k[2]
    <3>1. row'[k].work = w /\ \A j \in RowId : j # k => row'[j] = rows[j]
      BY <1>7, <2>1, <2>4 DEF Staffed, RowRec
    <3> QED
      BY <1>7, <2>2, <3>1 DEF Forward
  <2>5. CASE l # k[2]
    <3>1. row'[<<k[1], l>>].work = w /\ \A j \in RowId : j # <<k[1], l>> => row'[j] = rows[j]
      BY <1>7, <2>1, <2>3, <2>5 DEF Staffed, NewRow
    <3> QED
      BY <1>7, <2>2, <3>1 DEF Forward
  <2> QED
    BY <2>4, <2>5
<1>8. ASSUME NEW k \in RowId, NEW e \in Employee, NEW l \in Line, ReplaceInPlace(k, e, l)
      PROVE  Forward'
  <2>1. Live(k) /\ row' = Staffed(row, k, e, l) /\ row[k] # NoRow
    BY <1>8 DEF ReplaceInPlace, Live, NoRow
  <2>2. row[k] \in RowRec /\ row \in [RowId -> RowRec \cup {NoRow}]
    BY <2>1 DEF TypeOK
  <2> QED
    BY <1>7, <2>1, <2>2 DEF Forward
<1>9. ASSUME NEW k \in RowId, NEW e \in Employee, NEW l \in Line, NEW r \in Revision,
             ReplaceInRevision(k, e, l, r)
      PROVE  Forward'
  <2>1. PICK new : new = <<k[1][1], r>>
    OBVIOUS
  <2>2. PICK copies : copies = WithCopies(k[1], new)
    OBVIOUS
  <2>3. Live(k) /\ k[1] \in PeriodId /\ new \in PeriodId /\ ~Present(new)
    BY <1>9, <2>1, RowKeys, RevisionOpens DEF ReplaceInRevision
  <2>4. row' = Staffed(copies, <<new, k[2]>>, e, l)
    BY <1>9, <2>1, <2>2 DEF ReplaceInRevision
  <2>5. copies \in [RowId -> RowRec \cup {NoRow}]
    BY <2>2, <2>3, CopiesType
  <2>6. PICK c \in RowId : c = <<new, k[2]>>
    BY <2>3, RowKeys DEF RowId
  <2>7. copies[c] # NoRow
    <3>1. c[1] = new /\ Live(<<k[1], c[2]>>)
      BY <2>3, <2>6, RowKeys
    <3>2. PICK w, source : copies[c] = NewRow(w, source)
      BY <2>2, <2>3, <3>1, CopiesWritten
    <3> QED
      BY <3>2 DEF NewRow, NoRow
  <2>8. \A j \in RowId : copies[j] # NoRow => copies[j].work.start < copies[j].work.end
    BY <1>5, <2>2, <2>3
  <2>9. copies[c] \in RowRec /\ row' = Staffed(copies, c, e, l)
    BY <2>4, <2>5, <2>6, <2>7
  <2> QED
    BY <1>7, <2>5, <2>7, <2>8, <2>9
<1> QED
  BY <1>1, <1>2, <1>3, <1>4, <1>6, <1>8, <1>9
     DEF SchedulingNext, EditingNext, PlanningNext, ReplacementNext, CreatePeriod, Propose,
         ReturnToDraft, Publish

LEMMA WorkGoesForward == Spec => []Forward
<1>1. Init => Forward
  BY DEF Init, Forward
<1>2. TypeOK /\ ScheduleInv /\ Forward /\ [Next]_vars => Forward'
  <2> SUFFICES ASSUME TypeOK, Rooted, Forward, [Next]_vars
               PROVE  Forward'
    BY DEF ScheduleInv
  <2>1. CASE SchedulingNext
    BY <2>1, SchedulingForward
  <2>2. CASE LeaveNext \/ OutsourcingNext \/ DirectoryNext \/ UNCHANGED vars
    <3>1. row' = row
      BY <2>2, OthersKeepSchedule DEF scheduleVars, vars
    <3> QED
      BY <3>1 DEF Forward
  <2> QED
    BY <2>1, <2>2 DEF Next
<1>3. Spec => []ScheduleInv
  <2>1. TypeOK /\ ScheduleInv /\ [Next]_vars => ScheduleInv'
    BY ScheduleStep
  <2> QED
    BY <2>1, ScheduleInit, TypeCorrect, PTL DEF Spec
<1> QED
  BY <1>1, <1>2, <1>3, TypeCorrect, PTL DEF Spec

-----------------------------------------------------------------------------
(* Sums over finite sets *)

(* The parts of finitely many rows, taken together. *)
Together(part, s) == UNION {part[k] : k \in s}

Some(s) == CHOOSE x \in s : TRUE

Span(k) == row[k].work.end - row[k].work.start

(* A set of subsets of a finite set has a smallest member. *)
LEMMA SmallestSubset ==
  ASSUME NEW S, IsFiniteSet(S), NEW T \in SUBSET (SUBSET S), T # {}
  PROVE  \E s \in T : \A x \in s : s \ {x} \notin T
<1>1. IsWellFoundedOn(StrictSubsetOrdering(S), FiniteSubsetsOf(S))
  BY FS_StrictSubsetOrderingWellFounded
<1>2. T \subseteq FiniteSubsetsOf(S)
  BY FS_Subset DEF FiniteSubsetsOf
<1>3. PICK s \in T : \A y \in T : ~(<<y, s>> \in StrictSubsetOrdering(S))
  BY <1>1, <1>2, WFMin
<1>4. ASSUME NEW x \in s, s \ {x} \in T
      PROVE  FALSE
  BY <1>3, <1>4 DEF StrictSubsetOrdering
<1> QED
  BY <1>4

LEMMA TogetherFinite ==
  ASSUME NEW S, IsFiniteSet(S), NEW part, \A k \in S : IsFiniteSet(part[k])
  PROVE  \A s \in SUBSET S : IsFiniteSet(Together(part, s))
<1> SUFFICES ASSUME {s \in SUBSET S : ~IsFiniteSet(Together(part, s))} # {}
             PROVE  FALSE
  OBVIOUS
<1> DEFINE T == {s \in SUBSET S : ~IsFiniteSet(Together(part, s))}
<1>1. PICK s \in T : \A x \in s : s \ {x} \notin T
  <2> T \in SUBSET (SUBSET S) /\ T # {}
    OBVIOUS
  <2> HIDE DEF T
  <2> QED
    BY SmallestSubset
<1>2. s # {}
  BY <1>1, FS_EmptySet DEF Together
<1>3. PICK x \in s : TRUE
  BY <1>2
<1>4. PICK rest, first : rest = Together(part, s \ {x}) /\ first = part[x]
  OBVIOUS
<1>5. IsFiniteSet(rest) /\ IsFiniteSet(first)
  BY <1>1, <1>3, <1>4
<1>6. Together(part, s) = first \cup rest
  <2>1. x \in s
    BY <1>3
  <2>2. Together(part, s) = part[x] \cup Together(part, s \ {x})
    BY <2>1 DEF Together
  <2> QED
    BY <1>4, <2>2
<1>7. IsFiniteSet(first \cup rest)
  BY <1>5, FS_Union
<1> QED
  BY <1>1, <1>6, <1>7

(* Counting disjoint parts together is summing their sizes. *)
LEMMA CountingSums ==
  ASSUME NEW S, IsFiniteSet(S), NEW part,
         \A k \in S : IsFiniteSet(part[k]) /\ Cardinality(part[k]) = Span(k),
         \A j, k \in S : j # k => part[j] \cap part[k] = {},
         NEW s \in SUBSET S
  PROVE  Cardinality(Together(part, s)) =
           IF s = {} THEN 0 ELSE Span(Some(s)) + Cardinality(Together(part, s \ {Some(s)}))
<1>1. CASE s = {}
  BY <1>1, FS_EmptySet DEF Together
<1>2. CASE s # {}
  <2>1. PICK x : x = Some(s)
    OBVIOUS
  <2>2. x \in s
    BY <1>2, <2>1 DEF Some
  <2>3. PICK rest : rest = Together(part, s \ {x})
    OBVIOUS
  <2>4. IsFiniteSet(rest) /\ IsFiniteSet(part[x])
    BY <2>2, <2>3, TogetherFinite
  <2>5. part[x] \cap rest = {}
    BY <2>2, <2>3 DEF Together
  <2>6. Together(part, s) = part[x] \cup rest
    <3>1. Together(part, s) = part[x] \cup Together(part, s \ {x})
      BY <2>2 DEF Together
    <3> QED
      BY <2>3, <3>1
  <2>7. Cardinality(part[x] \cup rest) = Cardinality(part[x]) + Cardinality(rest) - Cardinality({})
    BY <2>4, <2>5, FS_Union
  <2>8. Cardinality(part[x]) \in Nat /\ Cardinality(rest) \in Nat /\ Cardinality({}) = 0
    BY <2>4, FS_CardinalityType, FS_EmptySet
  <2>9. Cardinality(Together(part, s)) = Span(x) + Cardinality(rest)
    BY <2>2, <2>6, <2>7, <2>8
  <2> QED
    BY <1>2, <2>1, <2>3, <2>9
<1> QED
  BY <1>1, <1>2

(* f sums the hours of rows over the subsets of S, one element after the other. *)
Summed(S, f) ==
  f = [s \in SUBSET S |-> IF s = {} THEN 0 ELSE Span(Some(s)) + f[s \ {Some(s)}]]

LEMMA SumsAgree ==
  ASSUME NEW S, IsFiniteSet(S), NEW f, Summed(S, f), NEW g, Summed(S, g)
  PROVE  f[S] = g[S]
<1> SUFFICES ASSUME f[S] # g[S]
             PROVE  FALSE
  OBVIOUS
<1> DEFINE T == {s \in SUBSET S : f[s] # g[s]}
<1>1. PICK s \in T : \A x \in s : s \ {x} \notin T
  <2> T \in SUBSET (SUBSET S) /\ T # {}
    OBVIOUS
  <2> HIDE DEF T
  <2> QED
    BY SmallestSubset
<1>2. /\ f[s] = IF s = {} THEN 0 ELSE Span(Some(s)) + f[s \ {Some(s)}]
      /\ g[s] = IF s = {} THEN 0 ELSE Span(Some(s)) + g[s \ {Some(s)}]
  BY <1>1 DEF Summed
<1>3. s # {} /\ Some(s) \in s
  BY <1>1, <1>2 DEF Some
<1>4. f[s \ {Some(s)}] = g[s \ {Some(s)}]
  BY <1>1, <1>3
<1> QED
  BY <1>1, <1>2, <1>3, <1>4

LEMMA SumIsCount ==
  ASSUME NEW S, IsFiniteSet(S), NEW part,
         \A k \in S : IsFiniteSet(part[k]) /\ Cardinality(part[k]) = Span(k),
         \A j, k \in S : j # k => part[j] \cap part[k] = {}
  PROVE  MapThenSumSet(LAMBDA k : row[k].work.end - row[k].work.start, S) = Cardinality(Together(part, S))
<1> DEFINE f == CHOOSE h : Summed(S, h)
           g == [s \in SUBSET S |-> Cardinality(Together(part, s))]
<1>1. Summed(S, g)
  <2> SUFFICES ASSUME NEW s \in SUBSET S
               PROVE  g[s] = IF s = {} THEN 0 ELSE Span(Some(s)) + g[s \ {Some(s)}]
    BY DEF Summed
  <2>1. s \ {Some(s)} \in SUBSET S
    OBVIOUS
  <2>2. g[s] = Cardinality(Together(part, s)) /\ g[s \ {Some(s)}] = Cardinality(Together(part, s \ {Some(s)}))
    BY <2>1
  <2>3. Cardinality(Together(part, s)) =
          IF s = {} THEN 0 ELSE Span(Some(s)) + Cardinality(Together(part, s \ {Some(s)}))
    BY CountingSums
  <2> HIDE DEF g
  <2> QED
    BY <2>2, <2>3
<1>2. Summed(S, f)
  BY <1>1
<1>3. MapThenSumSet(LAMBDA k : row[k].work.end - row[k].work.start, S) = f[S]
  BY DEF MapThenSumSet, MapThenFoldSet, Summed, Some, Span
<1> HIDE DEF f, g
<1>4. f[S] = g[S]
  BY <1>1, <1>2, SumsAgree
<1> QED
  BY <1>3, <1>4 DEF g

(* The moments of one row are as many as its hours. *)
MomentsOf(k) == {<<row[k].work.date, t>> : t \in row[k].work.start .. row[k].work.end - 1}

LEMMA HoursOfRow ==
  ASSUME TypeOK, Forward, NEW k \in RowId, Live(k)
  PROVE  IsFiniteSet(MomentsOf(k)) /\ Cardinality(MomentsOf(k)) = Span(k)
<1>1. PICK d, a, b : d = row[k].work.date /\ a = row[k].work.start /\ b = row[k].work.end
  OBVIOUS
<1>2. a \in Nat /\ b \in Nat /\ a < b
  <2>1. row[k] # NoRow
    BY DEF Live, NoRow
  <2>2. row[k] \in RowRec
    BY <2>1 DEF TypeOK
  <2>3. row[k].work \in Work
    BY <2>2 DEF RowRec
  <2> QED
    BY <1>1, <2>1, <2>3, CalendarAssumption DEF Forward, Work
<1>3. MomentsOf(k) = {<<d, t>> : t \in a .. b - 1}
  BY <1>1 DEF MomentsOf
<1>4. PICK S, T : S = a .. b - 1 /\ T = {<<d, t>> : t \in S}
  OBVIOUS
<1>5. IsFiniteSet(S) /\ Cardinality(S) = b - a
  <2>1. a \in Int /\ b - 1 \in Int /\ ~(a > b - 1) /\ (b - 1) - a + 1 = b - a
    BY <1>2
  <2> QED
    BY <1>4, <2>1, FS_Interval
<1>6. ExistsBijection(S, T)
  <2>1. PICK F : F = [t \in S |-> <<d, t>>]
    OBVIOUS
  <2>2. F \in [S -> T] /\ \A x, y \in S : F[x] = F[y] => x = y
    BY <1>4, <2>1
  <2>3. \A y \in T : \E x \in S : F[x] = y
    BY <1>4, <2>1
  <2> QED
    BY <2>2, <2>3 DEF ExistsBijection, Bijection, Injection, IsInjective, Surjection
<1>7. IsFiniteSet(T) /\ Cardinality(T) = Cardinality(S)
  BY <1>5, <1>6, FS_Bijection
<1> QED
  BY <1>1, <1>3, <1>4, <1>5, <1>7 DEF Span

LEMMA RowsFinite == IsFiniteSet(RowId)
<1>1. IsFiniteSet(Revision)
  BY OwnershipAssumption, FS_Interval DEF Revision
<1>2. IsFiniteSet(PeriodId)
  BY <1>1, RowsAssumption, FS_Product DEF PeriodId
<1> QED
  BY <1>2, RowsAssumption, FS_Product DEF RowId

(***************************************************************************)
(* The hours reported for an employee are as many as the employee has      *)
(* moments of published work: the rows counted never overlap, and each     *)
(* contributes the moments it covers.                                      *)
(***************************************************************************)
THEOREM HoursAddUp == Spec => []HoursCountedOnce
<1>1. TypeOK /\ ShiftsApart /\ Forward => HoursCountedOnce
  <2> SUFFICES ASSUME TypeOK, ShiftsApart, Forward, NEW e \in Employee
               PROVE  ScheduledHours(Everything, Always, Unfiltered, e).hours = Cardinality(Moments(e))
    BY DEF HoursCountedOnce
  <2>1. PICK own : own = {k \in PublishedWindow(Everything, Always, Unfiltered) : row[k].work.employee = e}
    OBVIOUS
  <2>2. own = {j \in RowId : Live(j) /\ Current(j[1]) /\ row[j].work.employee = e}
    <3>1. ASSUME NEW k \in RowId, Live(k)
          PROVE  k \in Assignments(Everything, Always, Unfiltered)
      <4>1. row[k].work \in Work
        BY <3>1 DEF TypeOK, Live, RowRec, NoRow
      <4>2. row[k].work.date \in Date /\ row[k].work.site \in Site
        BY <4>1 DEF Work
      <4>3. ClientOf[k[1][1]] \in Client
        BY RowKeys, OwnershipAssumption DEF PeriodId
      <4> QED
        BY <3>1, <4>2, <4>3
           DEF Assignments, Everything, Always, Unfiltered, AssignmentScope, ClientScope, Selected
    <3>2. \A k \in Assignments(Everything, Always, Unfiltered) : k \in RowId /\ Live(k)
      BY DEF Assignments
    <3> QED
      BY <2>1, <3>1, <3>2 DEF PublishedWindow
  <2>3. IsFiniteSet(own)
    BY <2>2, RowsFinite, FS_Subset
  <2>4. PICK part : part = [k \in own |-> MomentsOf(k)]
    OBVIOUS
  <2>5. \A k \in own : IsFiniteSet(part[k]) /\ Cardinality(part[k]) = Span(k)
    BY <2>2, <2>4, HoursOfRow
  <2>6. \A j, k \in own : j # k => part[j] \cap part[k] = {}
    <3> SUFFICES ASSUME NEW j \in own, NEW k \in own, j # k
                 PROVE  MomentsOf(j) \cap MomentsOf(k) = {}
      BY <2>4
    <3>1. row[j].work.date = row[k].work.date =>
            (row[j].work.start .. row[j].work.end - 1) \cap (row[k].work.start .. row[k].work.end - 1) = {}
      BY <2>2 DEF ShiftsApart
    <3>2. PICK J, K : J = row[j].work.start .. row[j].work.end - 1 /\ K = row[k].work.start .. row[k].work.end - 1
      OBVIOUS
    <3>3. MomentsOf(j) = {<<row[j].work.date, t>> : t \in J} /\ MomentsOf(k) = {<<row[k].work.date, t>> : t \in K}
      BY <3>2 DEF MomentsOf
    <3> QED
      BY <3>1, <3>2, <3>3
  <2>7. MapThenSumSet(LAMBDA k : row[k].work.end - row[k].work.start, own) = Cardinality(Together(part, own))
    BY <2>3, <2>5, <2>6, SumIsCount
  <2>8. Together(part, own) = Moments(e)
    <3>1. Together(part, own) = UNION {MomentsOf(k) : k \in own}
      BY <2>4 DEF Together
    <3> QED
      BY <2>2, <3>1 DEF Moments, MomentsOf
  <2>9. ScheduledHours(Everything, Always, Unfiltered, e).hours =
          MapThenSumSet(LAMBDA k : row[k].work.end - row[k].work.start, own)
    BY <2>1 DEF ScheduledHours
  <2> QED
    BY <2>7, <2>8, <2>9
<1> QED
  BY <1>1, TypeCorrect, ShiftsStandApart, WorkGoesForward, PTL
=============================================================================
