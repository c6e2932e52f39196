-------------------------- MODULE WorkforceProofs --------------------------
(***************************************************************************)
(* What Workforce keeps for all clients, employees, plans, dates and times:*)
(* types, one line of revisions for a plan, and nobody booked twice, with  *)
(* the steps of every service that keep them.                              *)
(***************************************************************************)
EXTENDS Workforce, TLAPS

(* A row's key is its period and its line, and is not the mark of an uncopied row. *)
LEMMA RowKeys ==
  ASSUME NEW k \in RowId
  PROVE  /\ k[1] \in PeriodId
         /\ k[2] \in Line
         /\ k = <<k[1], k[2]>>
         /\ k # NoCopy
  BY DEF RowId, NoCopy

LEMMA PeriodKeys ==
  ASSUME NEW id \in PeriodId
  PROVE  /\ id[1] \in Plan
         /\ id[2] \in Revision
         /\ id = <<id[1], id[2]>>
  BY DEF PeriodId

(* A row that is not absent is a record of the table. *)
LEMMA LiveIsRow ==
  ASSUME TypeOK, NEW k \in RowId, Live(k)
  PROVE  row[k] \in RowRec
  BY DEF TypeOK, Live, NoRow

LEMMA NewRowType ==
  ASSUME NEW w \in Work, NEW c \in RowId \cup {NoCopy}
  PROVE  NewRow(w, c) \in RowRec
  BY DEF NewRow, RowRec

LEMMA CopiesType ==
  ASSUME TypeOK, NEW id \in PeriodId, NEW new
  PROVE  WithCopies(id, new) \in [RowId -> RowRec \cup {NoRow}]
<1>1. ASSUME NEW k \in RowId, Live(<<id, k[2]>>)
      PROVE  NewRow(row[<<id, k[2]>>].work, <<id, k[2]>>) \in RowRec
  <2>1. <<id, k[2]>> \in RowId
    BY DEF RowId
  <2>2. row[<<id, k[2]>>].work \in Work
    BY <1>1, <2>1, LiveIsRow DEF RowRec
  <2> QED
    BY <2>1, <2>2, NewRowType
<1> QED
  BY <1>1 DEF WithCopies, TypeOK

LEMMA StaffedType ==
  ASSUME NEW rows \in [RowId -> RowRec \cup {NoRow}],
         NEW k \in RowId, rows[k] \in RowRec, NEW e \in Employee, NEW l \in Line,
         NEW g, g = Staffed(rows, k, e, l)
  PROVE  g \in [RowId -> RowRec \cup {NoRow}]
<1>1. For(e, rows[k].work) \in Work
  BY DEF RowRec, Work, For
<1>2. NewRow(For(e, rows[k].work), NoCopy) \in RowRec
  BY <1>1, NewRowType
<1>3. CASE l = k[2]
  BY <1>1, <1>3 DEF Staffed, RowRec
<1>4. CASE l # k[2]
  BY <1>2, <1>4 DEF Staffed
<1> QED
  BY <1>3, <1>4

-----------------------------------------------------------------------------
(* Types *)

LEMMA TypeInit == Init => TypeOK
<1> SUFFICES ASSUME Init
             PROVE  TypeOK
  OBVIOUS
<1>1. NoPeriod \in PeriodRec
  BY OwnershipAssumption DEF NoPeriod, PeriodRec, PeriodStatus
<1>2. allowance \in [days : Nat, version : Nat]
  BY AllowanceAssumption DEF Init
<1> QED
  BY <1>1, <1>2 DEF Init, TypeOK, ProjectStatus

LEMMA SchedulingType == TypeOK /\ SchedulingNext => TypeOK'
<1> SUFFICES ASSUME TypeOK, SchedulingNext
             PROVE  TypeOK'
  OBVIOUS
<1> USE DEF leaveVars, bookingVars, directoryVars
<1>1. ASSUME period' \in [PeriodId -> PeriodRec], row' \in [RowId -> RowRec \cup {NoRow}],
             UNCHANGED <<leaveVars, bookingVars, directoryVars>>
      PROVE  TypeOK'
  BY <1>1 DEF TypeOK
<1>2. \A id \in PeriodId : Bumped(id) \in [PeriodId -> PeriodRec]
  BY DEF Bumped, TypeOK, PeriodRec
<1>3. ASSUME NEW p \in Plan, CreatePeriod(p)
      PROVE  TypeOK'
  <2>1. [status |-> "DRAFT", current |-> FALSE, parent |-> 0, version |-> 1] \in PeriodRec
    BY OwnershipAssumption DEF PeriodRec, PeriodStatus
  <2> QED
    BY <1>1, <1>3, <2>1 DEF CreatePeriod, TypeOK
<1>4. ASSUME NEW k \in RowId, NEW w \in Work, AddAssignment(k, period[k[1]].version, w)
      PROVE  TypeOK'
  <2>1. row' \in [RowId -> RowRec \cup {NoRow}]
    BY <1>4, NewRowType DEF AddAssignment, TypeOK
  <2> QED
    BY <1>1, <1>2, <1>4, <2>1, RowKeys DEF AddAssignment
<1>5. ASSUME NEW k \in RowId, NEW w \in Work,
             UpdateAssignment(k, period[k[1]].version, row[k].version, w)
      PROVE  TypeOK'
  <2>1. row[k] \in RowRec
    BY <1>5, LiveIsRow DEF UpdateAssignment
  <2>2. row' \in [RowId -> RowRec \cup {NoRow}]
    BY <1>5, <2>1 DEF UpdateAssignment, TypeOK, RowRec
  <2> QED
    BY <1>1, <1>2, <1>5, <2>2, RowKeys DEF UpdateAssignment
<1>6. ASSUME NEW k \in RowId,
             RemoveAssignment(k, period[k[1]].version, row[k].version)
      PROVE  TypeOK'
  <2>1. row[k] \in RowRec
    BY <1>6, LiveIsRow DEF RemoveAssignment
  <2>2. row' \in [RowId -> RowRec \cup {NoRow}]
    BY <1>6, <2>1 DEF RemoveAssignment, TypeOK, RowRec
  <2> QED
    BY <1>1, <1>2, <1>6, <2>2, RowKeys DEF RemoveAssignment
<1>7. ASSUME NEW id \in PeriodId, Propose(id, period[id].version)
      PROVE  TypeOK'
  BY <1>1, <1>7 DEF Propose, TypeOK, PeriodRec, PeriodStatus
<1>8. ASSUME NEW id \in PeriodId, ReturnToDraft(id, period[id].version)
      PROVE  TypeOK'
  BY <1>1, <1>8 DEF ReturnToDraft, TypeOK, PeriodRec, PeriodStatus
<1>9. ASSUME NEW id \in PeriodId, Publish(id, period[id].version)
      PROVE  TypeOK'
  <2>1. Superseded(id[1]) \in [PeriodId -> PeriodRec]
    BY DEF Superseded, TypeOK, PeriodRec
  <2>2. ASSUME NEW f \in [PeriodId -> PeriodRec], NEW g,
               g = [f EXCEPT ![id].status = "PUBLISHED", ![id].current = TRUE,
                             ![id].version = @ + 1]
        PROVE  g \in [PeriodId -> PeriodRec]
    BY <2>2 DEF PeriodRec, PeriodStatus
  <2>3. period' \in [PeriodId -> PeriodRec]
    BY <1>9, <2>1, <2>2 DEF Publish
  <2> QED
    BY <1>1, <1>9, <2>3 DEF Publish, TypeOK
<1>10. ASSUME NEW id \in PeriodId, NEW r \in Revision, NEW v \in Nat
       PROVE  Revised(id, r, v) \in [PeriodId -> PeriodRec]
  BY OwnershipAssumption DEF Revised, TypeOK, PeriodRec, PeriodStatus, PeriodId, Revision
<1>12. ASSUME NEW id \in PeriodId, NEW r \in Revision, CreateRevision(id, period[id].version, r)
       PROVE  TypeOK'
  BY <1>1, <1>10, <1>12, CopiesType DEF CreateRevision
<1>14. ASSUME NEW k \in RowId, NEW e \in Employee, NEW l \in Line, ReplaceInPlace(k, e, l)
       PROVE  TypeOK'
  <2>1. row[k] \in RowRec
    BY <1>14, LiveIsRow DEF ReplaceInPlace
  <2>2. row' \in [RowId -> RowRec \cup {NoRow}]
    BY <1>14, <2>1, StaffedType DEF ReplaceInPlace, TypeOK
  <2>3. period' \in [PeriodId -> PeriodRec]
    BY <1>14, RowKeys DEF ReplaceInPlace, TypeOK, PeriodRec, PeriodStatus
  <2> QED
    BY <1>1, <1>14, <2>2, <2>3 DEF ReplaceInPlace
<1>15. ASSUME NEW k \in RowId, NEW e \in Employee, NEW l \in Line, NEW r \in Revision,
              ReplaceInRevision(k, e, l, r)
       PROVE  TypeOK'
  <2> DEFINE new == <<k[1][1], r>>
             copies == WithCopies(k[1], new)
  <2>1. k[1] \in PeriodId /\ k[2] \in Line /\ k = <<k[1], k[2]>>
    BY RowKeys
  <2>2. new \in PeriodId /\ <<new, k[2]>> \in RowId
    BY <2>1 DEF PeriodId, RowId
  <2>3. copies \in [RowId -> RowRec \cup {NoRow}]
    BY <2>1, CopiesType
  <2>4. copies[<<new, k[2]>>] \in RowRec
    <3>1. Live(<<k[1], k[2]>>)
      BY <1>15, <2>1 DEF ReplaceInRevision
    <3>2. copies[<<new, k[2]>>].state = "LIVE"
      BY <2>2, <3>1 DEF WithCopies, NewRow
    <3> QED
      BY <2>2, <2>3, <3>2 DEF NoRow
  <2>5. row' \in [RowId -> RowRec \cup {NoRow}]
    <3> HIDE DEF new, copies
    <3>1. row' = Staffed(copies, <<new, k[2]>>, e, l)
      BY <1>15 DEF ReplaceInRevision, new, copies
    <3> QED
      BY <2>2, <2>3, <2>4, <3>1, StaffedType
  <2> QED
    BY <1>1, <1>10, <1>15, <2>1, <2>5 DEF ReplaceInRevision
<1> QED
  BY <1>3, <1>4, <1>5, <1>6, <1>7, <1>8, <1>9, <1>12, <1>14, <1>15 DEF SchedulingNext, EditingNext, PlanningNext, ReplacementNext

LEMMA LeaveType == TypeOK /\ LeaveNext => TypeOK'
<1> SUFFICES ASSUME TypeOK, LeaveNext
             PROVE  TypeOK'
  OBVIOUS
<1> USE DEF scheduleVars, bookingVars, directoryVars
<1>1. ASSUME NEW l \in LeaveId, NEW e \in Employee, NEW first \in Date, NEW last \in Date,
             SubmitLeave(l, e, first, last)
      PROVE  TypeOK'
  <2>1. [status |-> "PENDING", employee |-> e, first |-> first, last |-> last, version |-> 1]
          \in LeaveRec
    BY DEF LeaveRec
  <2> QED
    BY <1>1, <2>1 DEF SubmitLeave, TypeOK
<1>2. ASSUME NEW l \in LeaveId, Pending(l),
             NEW s \in {"CANCELLED", "APPROVED", "REJECTED"}, Settle(l, s)
      PROVE  TypeOK'
  <2>1. leave[l] \in LeaveRec
    BY <1>2 DEF Pending, TypeOK, NoLeave
  <2>2. leave' \in [LeaveId -> LeaveRec \cup {NoLeave}]
    BY <1>2, <2>1 DEF Settle, TypeOK, LeaveRec
  <2> QED
    BY <1>2, <2>2 DEF Settle, TypeOK
<1>3. ASSUME NEW days \in Allowance, UpdateAllowance(days, allowance.version)
      PROVE  TypeOK'
  BY <1>3, AllowanceAssumption DEF UpdateAllowance, TypeOK
<1> QED
  BY <1>1, <1>2, <1>3 DEF LeaveNext, CancelLeave, ApproveLeave, RejectLeave

LEMMA OutsourcingType == TypeOK /\ OutsourcingNext => TypeOK'
<1> SUFFICES ASSUME TypeOK, OutsourcingNext
             PROVE  TypeOK'
  OBVIOUS
<1> USE DEF scheduleVars, leaveVars, directoryVars
<1>1. ASSUME NEW n \in Batch, NEW client \in Client, NEW team \in SUBSET Employee,
             NEW first \in Date, NEW last \in Date,
             CreateBooking(n, client, team, first, last)
      PROVE  TypeOK'
  <2>1. [state |-> "ACTIVE", client |-> client, first |-> first, last |-> last, version |-> 1]
          \in BookingRec
    BY DEF BookingRec
  <2> QED
    BY <1>1, <2>1 DEF CreateBooking, TypeOK
<1>2. ASSUME NEW b \in BookingId, CancelBooking(b, booking[b].version)
      PROVE  TypeOK'
  <2>1. booking[b] \in BookingRec
    BY <1>2 DEF CancelBooking, ActiveBooking, TypeOK, NoBooking
  <2>2. booking' \in [BookingId -> BookingRec \cup {NoBooking}]
    BY <1>2, <2>1 DEF CancelBooking, TypeOK, BookingRec
  <2> QED
    BY <1>2, <2>2 DEF CancelBooking, TypeOK
<1> QED
  BY <1>1, <1>2 DEF OutsourcingNext

LEMMA DirectoryType == TypeOK /\ DirectoryNext => TypeOK'
  BY DEF TypeOK, DirectoryNext, SetEmployeeActive, UpdateProject, SetReachable,
         SetClientArchived, scheduleVars, leaveVars, bookingVars

(* Every table keeps its columns' types. *)
THEOREM TypeCorrect == Spec => []TypeOK
<1>1. TypeOK /\ UNCHANGED vars => TypeOK'
  BY DEF TypeOK, vars
<1>2. TypeOK /\ [Next]_vars => TypeOK'
  BY <1>1, SchedulingType, LeaveType, OutsourcingType, DirectoryType DEF Next
<1> QED
  BY <1>2, TypeInit, PTL DEF Spec

-----------------------------------------------------------------------------
(* Revisions and their rows *)

Present(id) == period[id].status # "ABSENT"

(* Rows belong to periods, parents are earlier revisions, revision 1 is the first. *)
Rooted ==
  /\ \A k \in RowId : row[k] # NoRow => Present(k[1])
  /\ \A id \in PeriodId :
       /\ period[id].parent < id[2]
       /\ Present(id) => Present(<<id[1], 1>>)

(***************************************************************************)
(* What publication and the opening of a revision write, period by period. *)
(***************************************************************************)
LEMMA PublishWrites ==
  ASSUME TypeOK, NEW id \in PeriodId, Publish(id, period[id].version), NEW i \in PeriodId
  PROVE  /\ period'[i].parent = period[i].parent
         /\ period'[i].status = (IF i = id THEN "PUBLISHED" ELSE period[i].status)
         /\ period'[i].current = (i = id \/ (period[i].current /\ i[1] # id[1]))
<1> DEFINE old == Superseded(id[1])
<1>1. /\ old \in [PeriodId -> PeriodRec]
      /\ old[i].parent = period[i].parent
      /\ old[i].status = period[i].status
      /\ old[i].current = (period[i].current /\ i[1] # id[1])
  BY DEF Superseded, TypeOK, PeriodRec
<1>2. period' = [old EXCEPT ![id].status = "PUBLISHED", ![id].current = TRUE, ![id].version = @ + 1]
  BY DEF Publish
<1> HIDE DEF old
<1>3. CASE i = id
  BY <1>1, <1>2, <1>3 DEF PeriodRec
<1>4. CASE i # id
  BY <1>1, <1>2, <1>4 DEF PeriodRec
<1> QED
  BY <1>3, <1>4

LEMMA RevisionOpens ==
  ASSUME TypeOK, NEW id \in PeriodId, NEW r \in Revision, NEW v \in Nat,
         MayRevise(id, r), period' = Revised(id, r, v)
  PROVE  /\ <<id[1], r>> \in PeriodId
         /\ ~Present(<<id[1], r>>)
         /\ Present(id)
         /\ id[2] < r
         /\ id # <<id[1], r>>
         /\ \A i \in PeriodId : i # <<id[1], r>> => period'[i] = period[i]
         /\ period'[<<id[1], r>>] =
              [status |-> "DRAFT", current |-> FALSE, parent |-> id[2], version |-> v]
<1> DEFINE new == <<id[1], r>>
<1>1. id[1] \in Plan /\ id[2] \in Revision /\ id = <<id[1], id[2]>> /\ new \in PeriodId
  BY DEF PeriodId
<1>2. Present(id) /\ period[id].status = "PUBLISHED"
  BY DEF MayRevise, Current, Present
<1>3. \A s \in Revision : s >= r => ~Present(<<id[1], s>>)
  BY DEF MayRevise, IsNextRevision, Present
<1>4. id[2] < r
  <2>1. ~(id[2] >= r)
    BY <1>1, <1>2, <1>3
  <2> QED
    BY <1>1, <2>1 DEF Revision
<1>5. ~Present(new)
  BY <1>3 DEF Revision
<1>6. \A i \in PeriodId : i # new => period'[i] = period[i]
  BY DEF Revised, TypeOK
<1>7. period'[new] = [status |-> "DRAFT", current |-> FALSE, parent |-> id[2], version |-> v]
  BY <1>1 DEF Revised, TypeOK
<1> QED
  BY <1>1, <1>2, <1>4, <1>5, <1>6, <1>7

LEMMA CopiesWritten ==
  ASSUME TypeOK, Rooted, NEW id \in PeriodId, NEW new \in PeriodId, ~Present(new),
         NEW k \in RowId
  PROVE  /\ k[1] # new => WithCopies(id, new)[k] = row[k]
         /\ k[1] = new /\ Live(<<id, k[2]>>) =>
              WithCopies(id, new)[k] = NewRow(row[<<id, k[2]>>].work, <<id, k[2]>>)
         /\ k[1] = new /\ ~Live(<<id, k[2]>>) => WithCopies(id, new)[k] = NoRow
  BY DEF WithCopies, Rooted

LEMMA RevisedRooted ==
  ASSUME TypeOK, Rooted, NEW id \in PeriodId, NEW r \in Revision, NEW v \in Nat,
         MayRevise(id, r), period' = Revised(id, r, v),
         \A k \in RowId : row'[k] # NoRow => k[1] = <<id[1], r>> \/ row[k] # NoRow
  PROVE  Rooted'
<1> DEFINE new == <<id[1], r>>
<1> HIDE DEF new
<1>0. /\ new \in PeriodId
      /\ Present(id)
      /\ id[2] < r
      /\ \A i \in PeriodId : i # new => period'[i] = period[i]
      /\ period'[new] = [status |-> "DRAFT", current |-> FALSE, parent |-> id[2], version |-> v]
      /\ new[2] = r
      /\ new[1] = id[1]
  BY RevisionOpens DEF new
<1>1. \A i \in PeriodId : Present(i)' <=> i = new \/ Present(i)
  BY <1>0 DEF Present
<1>2. \A k \in RowId : row'[k] # NoRow => Present(k[1])'
  BY <1>1, RowKeys DEF Rooted, new
<1>3. \A i \in PeriodId : period'[i].parent < i[2]
  <2> SUFFICES ASSUME NEW i \in PeriodId
               PROVE  period'[i].parent < i[2]
    OBVIOUS
  <2>1. CASE i = new
    BY <1>0, <2>1
  <2>2. CASE i # new
    BY <1>0, <2>2 DEF Rooted
  <2> QED
    BY <2>1, <2>2
<1>4. \A i \in PeriodId : Present(i)' => Present(<<i[1], 1>>)'
  <2> SUFFICES ASSUME NEW i \in PeriodId, Present(i)'
               PROVE  Present(<<i[1], 1>>)'
    OBVIOUS
  <2>1. <<i[1], 1>> \in PeriodId
    BY OwnershipAssumption DEF PeriodId, Revision
  <2>2. Present(<<i[1], 1>>)
    BY <1>0, <1>1 DEF Rooted
  <2> QED
    BY <1>1, <2>1, <2>2
<1> QED
  BY <1>2, <1>3, <1>4, <1>0 DEF Rooted, new

LEMMA SchedulingRooted == TypeOK /\ Rooted /\ SchedulingNext => Rooted'
<1> SUFFICES ASSUME TypeOK, Rooted, SchedulingNext
             PROVE  Rooted'
  OBVIOUS
<1>1. ASSUME NEW p \in Plan, CreatePeriod(p)
      PROVE  Rooted'
  BY <1>1 DEF CreatePeriod, Rooted, Present, TypeOK, PeriodId, Revision
<1>2. ASSUME NEW k \in RowId, NEW w \in Work, AddAssignment(k, period[k[1]].version, w)
      PROVE  Rooted'
  BY <1>2, RowKeys DEF AddAssignment, Bumped, Rooted, Present, TypeOK, PeriodRec
<1>3. ASSUME NEW k \in RowId, NEW w \in Work,
             UpdateAssignment(k, period[k[1]].version, row[k].version, w)
      PROVE  Rooted'
  BY <1>3, RowKeys DEF UpdateAssignment, Bumped, Rooted, Present, TypeOK, PeriodRec, Live, NoRow
<1>4. ASSUME NEW k \in RowId,
             RemoveAssignment(k, period[k[1]].version, row[k].version)
      PROVE  Rooted'
  BY <1>4, RowKeys DEF RemoveAssignment, Bumped, Rooted, Present, TypeOK, PeriodRec, Live, NoRow
<1>5. ASSUME NEW id \in PeriodId, Propose(id, period[id].version)
      PROVE  Rooted'
  BY <1>5 DEF Propose, Rooted, Present, TypeOK, PeriodRec
<1>6. ASSUME NEW id \in PeriodId, ReturnToDraft(id, period[id].version)
      PROVE  Rooted'
  BY <1>6 DEF ReturnToDraft, Rooted, Present, TypeOK, PeriodRec
<1>7. ASSUME NEW id \in PeriodId, Publish(id, period[id].version)
      PROVE  Rooted'
  <2>0. period[id].status = "PROPOSED"
    BY <1>7 DEF Publish
  <2>1. \A i \in PeriodId : /\ period'[i].parent = period[i].parent
                            /\ Present(i)' <=> Present(i)
    BY <1>7, <2>0, PublishWrites DEF Present
  <2>2. \A i \in PeriodId : <<i[1], 1>> \in PeriodId
    BY OwnershipAssumption DEF PeriodId, Revision
  <2>3. row' = row
    BY <1>7 DEF Publish
  <2> QED
    BY <2>1, <2>2, <2>3, RowKeys DEF Rooted
<1>8. ASSUME NEW id \in PeriodId, NEW r \in Revision, CreateRevision(id, period[id].version, r)
      PROVE  Rooted'
  <2> DEFINE new == <<id[1], r>>
  <2>1. row' = WithCopies(id, new) /\ new \in PeriodId /\ ~Present(new)
    BY <1>8, RevisionOpens DEF CreateRevision
  <2>2. \A k \in RowId : row'[k] # NoRow => k[1] = new \/ row[k] # NoRow
    BY <2>1, CopiesWritten
  <2> QED
    BY <1>8, <2>2, RevisedRooted DEF CreateRevision
<1>9. ASSUME NEW k \in RowId, NEW e \in Employee, NEW l \in Line, ReplaceInPlace(k, e, l)
      PROVE  Rooted'
  BY <1>9, RowKeys DEF ReplaceInPlace, Staffed, Rooted, Present, TypeOK, PeriodRec, Live, NoRow
<1>10. ASSUME NEW k \in RowId, NEW e \in Employee, NEW l \in Line, NEW r \in Revision,
              ReplaceInRevision(k, e, l, r)
       PROVE  Rooted'
  <2> DEFINE new == <<k[1][1], r>>
             copies == WithCopies(k[1], new)
  <2>1. k[1] \in PeriodId /\ new \in PeriodId /\ ~Present(new)
    BY <1>10, RowKeys, RevisionOpens DEF ReplaceInRevision
  <2>2. row' = Staffed(copies, <<new, k[2]>>, e, l)
    BY <1>10 DEF ReplaceInRevision
  <2>3. \A j \in RowId : j[1] # new => row'[j] = copies[j]
    <3>1. copies \in [RowId -> RowRec \cup {NoRow}]
      BY <2>1, CopiesType
    <3> HIDE DEF new, copies
    <3> QED
      BY <2>2, <3>1 DEF Staffed
  <2>4. \A j \in RowId : row'[j] # NoRow => j[1] = new \/ row[j] # NoRow
    BY <2>1, <2>3, CopiesWritten
  <2> QED
    BY <1>10, <2>1, <2>4, RevisedRooted DEF ReplaceInRevision
<1> QED
  BY <1>1, <1>2, <1>3, <1>4, <1>5, <1>6, <1>7, <1>8, <1>9, <1>10 DEF SchedulingNext, EditingNext, PlanningNext, ReplacementNext

-----------------------------------------------------------------------------
(* One current and one editable revision *)

LEMMA LineageKept ==
  ASSUME OneLineage,
         \A i \in PeriodId : /\ Editable(i)' <=> Editable(i)
                             /\ Current(i)' <=> Current(i)
                             /\ period'[i].parent = period[i].parent
  PROVE  OneLineage'
<1> QED
  BY DEF OneLineage, PeriodId

LEMMA RevisedLineage ==
  ASSUME TypeOK, OneLineage, NEW id \in PeriodId, NEW r \in Revision, NEW v \in Nat,
         MayRevise(id, r), period' = Revised(id, r, v)
  PROVE  OneLineage'
<1> DEFINE new == <<id[1], r>>
<1>1. /\ new \in PeriodId
      /\ ~Editable(new) /\ ~Current(new)
      /\ \A i \in PeriodId : i # new => period'[i] = period[i]
      /\ period'[new] = [status |-> "DRAFT", current |-> FALSE, parent |-> id[2], version |-> v]
  BY RevisionOpens DEF Present, Editable, Current
<1>2. \A i \in PeriodId : Current(i)' <=> Current(i)
  BY <1>1 DEF Current
<1>3. \A i \in PeriodId : Editable(i)' <=> i = new \/ Editable(i)
  BY <1>1 DEF Editable
<1>4. Current(id) /\ NoEditable(id[1])
  BY DEF MayRevise
<1>5. \A p \in Plan, s, t \in Revision :
        (Current(<<p, s>>)' /\ Current(<<p, t>>)') \/ (Editable(<<p, s>>)' /\ Editable(<<p, t>>)')
          => s = t
  BY <1>2, <1>3, <1>4 DEF OneLineage, NoEditable, PeriodId
<1>6. ASSUME NEW i \in PeriodId, Editable(i)', NEW s \in Revision
      PROVE  Current(<<i[1], s>>)' <=> s = period'[i].parent
  <2>1. <<i[1], s>> \in PeriodId
    BY DEF PeriodId
  <2>2. CASE i = new
    <3>1. period'[i].parent = id[2]
      BY <1>1, <2>2
    <3>2. \A t \in Revision : Current(<<id[1], t>>) <=> t = id[2]
      BY <1>4 DEF OneLineage, PeriodId
    <3> QED
      BY <1>2, <2>1, <2>2, <3>1, <3>2
  <2>3. CASE i # new
    BY <1>1, <1>2, <1>3, <1>6, <2>1, <2>3 DEF OneLineage
  <2> QED
    BY <2>2, <2>3
<1> QED
  BY <1>5, <1>6 DEF OneLineage

LEMMA SchedulingLineage == TypeOK /\ Rooted /\ OneLineage /\ SchedulingNext => OneLineage'
<1> SUFFICES ASSUME TypeOK, Rooted, OneLineage, SchedulingNext
             PROVE  OneLineage'
  OBVIOUS
<1>1. ASSUME NEW p \in Plan, CreatePeriod(p)
      PROVE  OneLineage'
  <2> DEFINE new == <<p, 1>>
  <2>1. /\ new \in PeriodId
        /\ ~Present(new)
        /\ NoEditable(p)
        /\ \A i \in PeriodId : i # new => period'[i] = period[i]
        /\ period'[new] = [status |-> "DRAFT", current |-> FALSE, parent |-> 0, version |-> 1]
    BY <1>1 DEF CreatePeriod, Present, TypeOK, PeriodId, Revision
  <2>2. \A s \in Revision : ~Present(<<p, s>>)
    BY <2>1 DEF Rooted, PeriodId
  <2>3. \A i \in PeriodId : /\ Current(i)' <=> Current(i)
                            /\ Editable(i)' <=> i = new \/ Editable(i)
    BY <2>1 DEF Current, Editable, Present
  <2>4. \A q \in Plan, s, t \in Revision :
          (Current(<<q, s>>)' /\ Current(<<q, t>>)') \/ (Editable(<<q, s>>)' /\ Editable(<<q, t>>)')
            => s = t
    BY <2>1, <2>3 DEF OneLineage, NoEditable, PeriodId
  <2>5. ASSUME NEW i \in PeriodId, Editable(i)', NEW s \in Revision
        PROVE  Current(<<i[1], s>>)' <=> s = period'[i].parent
    <3>1. <<i[1], s>> \in PeriodId
      BY DEF PeriodId
    <3>2. CASE i = new
      BY <2>1, <2>2, <2>3, <3>1, <3>2 DEF Current, Present, Revision
    <3>3. CASE i # new
      BY <2>1, <2>3, <2>5, <3>1, <3>3 DEF OneLineage
    <3> QED
      BY <3>2, <3>3
  <2> QED
    BY <2>4, <2>5 DEF OneLineage
<1>2. ASSUME NEW k \in RowId, period' = Bumped(k[1])
      PROVE  OneLineage'
  BY <1>2, LineageKept, RowKeys DEF Bumped, TypeOK, PeriodRec, Editable, Current
<1>3. ASSUME NEW id \in PeriodId, Propose(id, period[id].version)
      PROVE  OneLineage'
  BY <1>3, LineageKept DEF Propose, TypeOK, PeriodRec, Editable, Current
<1>4. ASSUME NEW id \in PeriodId, ReturnToDraft(id, period[id].version)
      PROVE  OneLineage'
  BY <1>4, LineageKept DEF ReturnToDraft, TypeOK, PeriodRec, Editable, Current
<1>5. ASSUME NEW id \in PeriodId, Publish(id, period[id].version)
      PROVE  OneLineage'
  <2>1. Editable(id) /\ ~Current(id)
    BY <1>5 DEF Publish, Editable, Current
  <2>2. \A i \in PeriodId : /\ period'[i].parent = period[i].parent
                            /\ Editable(i)' <=> i # id /\ Editable(i)
                            /\ Current(i)' <=> i = id \/ (i[1] # id[1] /\ Current(i))
    BY <1>5, <2>1, PublishWrites DEF Editable, Current
  <2>3. \A p \in Plan, s, t \in Revision :
          (Current(<<p, s>>)' /\ Current(<<p, t>>)') \/ (Editable(<<p, s>>)' /\ Editable(<<p, t>>)')
            => s = t
    BY <2>2 DEF OneLineage, PeriodId
  <2>4. ASSUME NEW i \in PeriodId, Editable(i)', NEW s \in Revision
        PROVE  Current(<<i[1], s>>)' <=> s = period'[i].parent
    <3>1. <<i[1], s>> \in PeriodId /\ i = <<i[1], i[2]>> /\ id = <<id[1], id[2]>>
      BY DEF PeriodId
    <3>2. i[1] # id[1]
      BY <2>1, <2>2, <2>4, <3>1 DEF OneLineage, PeriodId
    <3> QED
      BY <2>2, <2>4, <3>1, <3>2 DEF OneLineage
  <2> QED
    BY <2>3, <2>4 DEF OneLineage
<1>6. ASSUME NEW id \in PeriodId, NEW r \in Revision, CreateRevision(id, period[id].version, r)
      PROVE  OneLineage'
  BY <1>6, RevisedLineage DEF CreateRevision
<1>7. ASSUME NEW k \in RowId, NEW e \in Employee, NEW l \in Line, ReplaceInPlace(k, e, l)
      PROVE  OneLineage'
  BY <1>7, LineageKept, RowKeys DEF ReplaceInPlace, TypeOK, PeriodRec, Editable, Current
<1>8. ASSUME NEW k \in RowId, NEW e \in Employee, NEW l \in Line, NEW r \in Revision,
             ReplaceInRevision(k, e, l, r)
      PROVE  OneLineage'
  BY <1>8, RevisedLineage, RowKeys DEF ReplaceInRevision
<1> QED
  BY <1>1, <1>2, <1>3, <1>4, <1>5, <1>6, <1>7, <1>8
     DEF SchedulingNext, EditingNext, PlanningNext, ReplacementNext, AddAssignment, UpdateAssignment, RemoveAssignment

-----------------------------------------------------------------------------
(* Nobody stands on two clashing rows *)

(* Rows that stand after a step stood before it, with the same work. *)
LEMMA OverlapKept ==
  ASSUME NoDoubleBooking,
         \A k \in RowId : Standing(k)' =>
           /\ Standing(k)
           /\ row'[k].work = row[k].work
           /\ row'[k].copiedFrom = row[k].copiedFrom,
         \A i \in PeriodId :
           /\ period'[i].parent = period[i].parent
           /\ period[i].status = "PUBLISHED" => period'[i].status = "PUBLISHED"
  PROVE  NoDoubleBooking'
<1> SUFFICES ASSUME NEW j \in RowId, NEW k \in RowId, j # k, Standing(j)', Standing(k)',
                    Clash(row'[j].work, row'[k].work)
             PROVE  IsPredecessor(j, k)' \/ IsPredecessor(k, j)'
  BY DEF NoDoubleBooking
<1>1. IsPredecessor(j, k) \/ IsPredecessor(k, j)
  BY DEF NoDoubleBooking
<1> QED
  BY <1>1, RowKeys DEF IsPredecessor, UnchangedPredecessor, ParentOf

(* One row x is written, and whatever stands and clashes with it is its predecessor. *)
LEMMA OverlapOneRow ==
  ASSUME NoDoubleBooking, NEW x \in RowId,
         \A k \in RowId \ {x} : Standing(k)' =>
           /\ Standing(k)
           /\ row'[k].work = row[k].work
           /\ row'[k].copiedFrom = row[k].copiedFrom
           /\ Clash(row[k].work, row'[x].work) =>
                UnchangedPredecessor(k, x[1], row'[x].work, row'[x].copiedFrom),
         \A i \in PeriodId :
           /\ period'[i].parent = period[i].parent
           /\ period[i].status = "PUBLISHED" => period'[i].status = "PUBLISHED"
  PROVE  NoDoubleBooking'
<1>1. ASSUME NEW k \in RowId \ {x}, Standing(k)', Clash(row'[k].work, row'[x].work)
      PROVE  IsPredecessor(k, x)'
  BY <1>1, RowKeys DEF IsPredecessor, UnchangedPredecessor, ParentOf
<1>2. ASSUME NEW j \in RowId \ {x}, NEW k \in RowId \ {x}, j # k, Standing(j)', Standing(k)',
             Clash(row'[j].work, row'[k].work)
      PROVE  IsPredecessor(j, k)' \/ IsPredecessor(k, j)'
  <2>1. IsPredecessor(j, k) \/ IsPredecessor(k, j)
    BY <1>2 DEF NoDoubleBooking
  <2> QED
    BY <1>2, <2>1, RowKeys DEF IsPredecessor, UnchangedPredecessor, ParentOf
<1>3. ASSUME NEW j \in RowId, NEW k \in RowId, Clash(row'[j].work, row'[k].work)
      PROVE  Clash(row'[k].work, row'[j].work)
  BY <1>3 DEF Clash
<1> QED
  BY <1>1, <1>2, <1>3 DEF NoDoubleBooking

(* A current revision stands alone in its plan while a new revision may open. *)
LEMMA CurrentStandsAlone ==
  ASSUME TypeOK, Rooted, OneLineage, NEW id \in PeriodId, NEW r \in Revision, MayRevise(id, r),
         NEW i \in PeriodId, Active(i), i[1] = id[1]
  PROVE  /\ i = id
         /\ ParentOf(i) # i
<1>1. Current(i) /\ Current(id)
  BY DEF MayRevise, NoEditable, Active, PeriodId
<1>2. i = id
  BY <1>1 DEF OneLineage, PeriodId
<1>3. period[i].parent < i[2]
  BY DEF Rooted
<1>4. period[i].parent \in Int /\ i[2] \in Int
  BY PeriodKeys DEF TypeOK, PeriodRec, Revision
<1>5. ParentOf(i)[2] # i[2]
  BY <1>3, <1>4 DEF ParentOf
<1> QED
  BY <1>2, <1>5

(* A row that stands once a revision opens has a standing source: itself, or what it copies. *)
Source(id, new, x) == IF x[1] = new THEN <<id, x[2]>> ELSE x

LEMMA CopyStands ==
  ASSUME TypeOK, Rooted,
         NEW id \in PeriodId, NEW r \in Revision, NEW v \in Nat,
         MayRevise(id, r), period' = Revised(id, r, v),
         NEW x \in RowId, row'[x] = WithCopies(id, <<id[1], r>>)[x], Standing(x)'
  PROVE  LET s == Source(id, <<id[1], r>>, x) IN
         /\ s \in RowId
         /\ Standing(s)
         /\ row'[x].work = row[s].work
         /\ row'[x].copiedFrom = (IF x[1] = <<id[1], r>> THEN s ELSE row[x].copiedFrom)
<1> DEFINE new == <<id[1], r>>
<1>1. /\ new \in PeriodId
      /\ ~Present(new)
      /\ \A i \in PeriodId : i # new => period'[i] = period[i]
      /\ Current(id)
  <2>1. Current(id)
    BY DEF MayRevise
  <2>2. new \in PeriodId /\ ~Present(new) /\ \A i \in PeriodId : i # new => period'[i] = period[i]
    BY RevisionOpens
  <2> QED
    BY <2>1, <2>2
<1>2. x[1] \in PeriodId /\ x[2] \in Line /\ x = <<x[1], x[2]>>
  BY RowKeys
<1>3. CASE x[1] # new
  <2>1. row'[x] = row[x] /\ (Active(x[1])' => Active(x[1]))
    BY <1>1, <1>2, <1>3, CopiesWritten DEF Active, Editable, Current
  <2> QED
    BY <1>3, <2>1 DEF Standing, Live, Source
<1>4. CASE x[1] = new
  <2>1. <<id, x[2]>> \in RowId
    BY <1>2 DEF RowId
  <2>2. Live(<<id, x[2]>>)
    BY <1>1, <1>4, CopiesWritten DEF Standing, Live, NoRow
  <2>3. row'[x] = NewRow(row[<<id, x[2]>>].work, <<id, x[2]>>)
    BY <1>1, <1>4, <2>2, CopiesWritten
  <2> QED
    BY <1>1, <1>4, <2>1, <2>2, <2>3 DEF Standing, Active, NewRow, Source
<1> QED
  BY <1>3, <1>4

(***************************************************************************)
(* Two rows of the plan as a new revision opens, copies among them: a copy *)
(* stands where its source stands, and the source is its predecessor.      *)
(***************************************************************************)
LEMMA CopiesClash ==
  ASSUME TypeOK, Rooted, OneLineage, NoDoubleBooking,
         NEW id \in PeriodId, NEW r \in Revision, NEW v \in Nat,
         MayRevise(id, r), period' = Revised(id, r, v),
         NEW j \in RowId, NEW k \in RowId, j # k,
         row'[j] = WithCopies(id, <<id[1], r>>)[j],
         row'[k] = WithCopies(id, <<id[1], r>>)[k],
         Standing(j)', Standing(k)', Clash(row'[j].work, row'[k].work)
  PROVE  IsPredecessor(j, k)' \/ IsPredecessor(k, j)'
<1> DEFINE new == <<id[1], r>>
           source(x) == Source(id, new, x)
<1>1. /\ new \in PeriodId
      /\ ~Present(new)
      /\ id # new
      /\ \A i \in PeriodId : i # new => period'[i] = period[i]
      /\ period'[new].parent = id[2]
      /\ Current(id)
  <2>1. Current(id)
    BY DEF MayRevise
  <2>2. /\ new \in PeriodId
        /\ ~Present(new)
        /\ id # new
        /\ \A i \in PeriodId : i # new => period'[i] = period[i]
        /\ period'[new] = [status |-> "DRAFT", current |-> FALSE, parent |-> id[2], version |-> v]
    BY RevisionOpens
  <2> QED
    BY <2>1, <2>2
<1>2. \A i \in PeriodId : i # new => (Active(i)' <=> Active(i)) /\ ParentOf(i)' = ParentOf(i)
  BY <1>1 DEF Active, Editable, Current, ParentOf
<1>3. ParentOf(new)' = id
  BY <1>1 DEF ParentOf, PeriodId
<1>4. ASSUME NEW x \in RowId, row'[x] = WithCopies(id, new)[x], Standing(x)'
      PROVE  /\ source(x) \in RowId
             /\ Standing(source(x))
             /\ row'[x].work = row[source(x)].work
             /\ x[1] = new => row'[x].copiedFrom = source(x)
             /\ x[1] # new => row'[x].copiedFrom = row[x].copiedFrom
  BY <1>4, CopyStands DEF Source
<1>5. ASSUME NEW x \in RowId, Standing(x), x[1] # id
      PROVE  /\ x[1][1] # id[1]
             /\ ~(x[1] = ParentOf(id))
             /\ ~(id = ParentOf(x[1]))
  <2>1. x[1] \in PeriodId /\ Active(x[1])
    BY <1>5, RowKeys DEF Standing
  <2>2. x[1][1] # id[1]
    BY <1>5, <2>1, CurrentStandsAlone
  <2> QED
    BY <2>2 DEF ParentOf
<1>6. id # ParentOf(id)
  BY <1>1, CurrentStandsAlone DEF Active
<1>7. CASE j[1] = new /\ k[1] = new
  <2>1. source(j) # source(k) /\ source(j)[1] = id /\ source(k)[1] = id
    BY <1>7, RowKeys DEF Source
  <2>2. IsPredecessor(source(j), source(k)) \/ IsPredecessor(source(k), source(j))
    BY <1>4, <2>1 DEF NoDoubleBooking
  <2> QED
    BY <1>6, <2>1, <2>2 DEF IsPredecessor, UnchangedPredecessor
<1>8. ASSUME NEW a \in RowId, NEW b \in RowId, a[1] = new, b[1] # new,
             row'[a] = WithCopies(id, new)[a], row'[b] = WithCopies(id, new)[b],
             Standing(a)', Standing(b)', Clash(row'[a].work, row'[b].work)
      PROVE  IsPredecessor(b, a)'
  <2> DEFINE s == source(a)
  <2>1. /\ s \in RowId /\ s[1] = id /\ Standing(s)
        /\ row'[a].work = row[s].work /\ row'[a].copiedFrom = s
        /\ Standing(b) /\ row'[b].work = row[b].work
    BY <1>4, <1>8 DEF Source
  <2> HIDE DEF s
  <2>2. CASE b = s
    <3>1. /\ b[1] = id /\ ParentOf(a[1])' = id /\ row'[a].copiedFrom = b
          /\ SameSlot(row'[b].work, row'[a].work)
      BY <1>3, <1>8, <2>1, <2>2 DEF SameSlot
    <3>2. period'[b[1]].status = "PUBLISHED"
      BY <1>1, <3>1 DEF Current
    <3> QED
      BY <3>1, <3>2 DEF IsPredecessor, UnchangedPredecessor
  <2>3. CASE b # s
    <3>1. IsPredecessor(s, b) \/ IsPredecessor(b, s)
      BY <1>8, <2>1, <2>3 DEF NoDoubleBooking
    <3>2. s[1] = ParentOf(b[1]) \/ b[1] = ParentOf(s[1])
      BY <3>1 DEF IsPredecessor, UnchangedPredecessor
    <3> QED
      BY <1>5, <1>6, <2>1, <3>2
  <2> QED
    BY <2>2, <2>3
<1>9. CASE j[1] # new /\ k[1] # new
  <2>1. IsPredecessor(j, k) \/ IsPredecessor(k, j)
    BY <1>4, <1>9 DEF NoDoubleBooking, Source
  <2> QED
    BY <1>1, <1>2, <1>4, <1>9, <2>1, RowKeys DEF IsPredecessor, UnchangedPredecessor, Source
<1>10. Clash(row'[k].work, row'[j].work)
  BY DEF Clash
<1> QED
  BY <1>7, <1>8, <1>9, <1>10

LEMMA SchedulingOverlap ==
  TypeOK /\ Rooted /\ OneLineage /\ NoDoubleBooking /\ SchedulingNext => NoDoubleBooking'
<1> SUFFICES ASSUME TypeOK, Rooted, OneLineage, NoDoubleBooking, SchedulingNext
             PROVE  NoDoubleBooking'
  OBVIOUS
<1>1. ASSUME NEW k \in RowId, period' = Bumped(k[1])
      PROVE  \A i \in PeriodId : /\ period'[i].parent = period[i].parent
                                 /\ period'[i].status = period[i].status
                                 /\ Active(i)' <=> Active(i)
  BY <1>1, RowKeys DEF Bumped, TypeOK, PeriodRec, Active, Editable, Current
<1>2. ASSUME NEW p \in Plan, CreatePeriod(p)
      PROVE  NoDoubleBooking'
  <2> DEFINE new == <<p, 1>>
  <2>1. /\ new \in PeriodId
        /\ ~Present(new)
        /\ \A i \in PeriodId : i # new => period'[i] = period[i]
        /\ period'[new].parent = 0
        /\ row' = row
    BY <1>2 DEF CreatePeriod, Present, TypeOK, PeriodId, Revision
  <2>2. period[new].parent = 0
    BY <2>1, OwnershipAssumption DEF Rooted, TypeOK, PeriodRec
  <2>3. \A k \in RowId : k[1] = new => row[k] = NoRow
    BY <2>1 DEF Rooted
  <2>4. \A k \in RowId : Standing(k)' => Standing(k)
    BY <2>1, <2>3, RowKeys DEF Standing, Live, NoRow, Active, Editable, Current
  <2> QED
    BY <2>1, <2>2, <2>4, OverlapKept DEF Present
<1>3. ASSUME NEW k \in RowId, NEW w \in Work, AddAssignment(k, period[k[1]].version, w)
      PROVE  NoDoubleBooking'
  <2>1. /\ \A j \in RowId \ {k} : row'[j] = row[j]
        /\ row'[k].work = w /\ row'[k].copiedFrom = NoCopy
        /\ NoOverlap(k[1], w, NoCopy, {})
        /\ period' = Bumped(k[1])
    BY <1>3 DEF AddAssignment, TypeOK, NewRow
  <2>2. \A j \in RowId \ {k} : Standing(j)' => Standing(j)
    BY <1>1, <2>1, RowKeys DEF Standing, Live
  <2>3. \A j \in RowId : Standing(j) /\ Clash(row[j].work, w) => UnchangedPredecessor(j, k[1], w, NoCopy)
    BY <2>1 DEF NoOverlap
  <2> QED
    BY <1>1, <2>1, <2>2, <2>3, OverlapOneRow
<1>4. ASSUME NEW k \in RowId, NEW w \in Work,
             UpdateAssignment(k, period[k[1]].version, row[k].version, w)
      PROVE  NoDoubleBooking'
  <2>1. row[k] \in RowRec
    BY <1>4, LiveIsRow DEF UpdateAssignment
  <2>2. /\ \A j \in RowId \ {k} : row'[j] = row[j]
        /\ row'[k].work = w /\ row'[k].copiedFrom = row[k].copiedFrom
        /\ NoOverlap(k[1], w, row[k].copiedFrom, {k})
        /\ period' = Bumped(k[1])
    BY <1>4, <2>1 DEF UpdateAssignment, TypeOK, RowRec
  <2>3. \A j \in RowId \ {k} : Standing(j)' => Standing(j)
    BY <1>1, <2>2, RowKeys DEF Standing, Live
  <2>4. \A j \in RowId \ {k} :
          Standing(j) /\ Clash(row[j].work, w) => UnchangedPredecessor(j, k[1], w, row[k].copiedFrom)
    BY <2>2 DEF NoOverlap
  <2> QED
    BY <1>1, <2>2, <2>3, <2>4, OverlapOneRow
<1>5. ASSUME NEW k \in RowId,
             RemoveAssignment(k, period[k[1]].version, row[k].version)
      PROVE  NoDoubleBooking'
  <2>1. row[k] \in RowRec
    BY <1>5, LiveIsRow DEF RemoveAssignment
  <2>2. /\ \A j \in RowId \ {k} : row'[j] = row[j]
        /\ ~Live(k)'
        /\ period' = Bumped(k[1])
    BY <1>5, <2>1 DEF RemoveAssignment, TypeOK, RowRec, Live
  <2>3. \A j \in RowId : Standing(j)' => Standing(j) /\ row'[j] = row[j]
    BY <1>1, <2>2, RowKeys DEF Standing, Live
  <2> QED
    BY <1>1, <2>2, <2>3, OverlapKept
<1>6. ASSUME NEW id \in PeriodId,
             Propose(id, period[id].version) \/ ReturnToDraft(id, period[id].version)
      PROVE  NoDoubleBooking'
  <2>1. \A i \in PeriodId : /\ period'[i].parent = period[i].parent
                            /\ period[i].status = "PUBLISHED" => period'[i].status = "PUBLISHED"
                            /\ Active(i)' => Active(i)
    BY <1>6 DEF Propose, ReturnToDraft, TypeOK, PeriodRec, Active, Editable, Current
  <2>2. row' = row
    BY <1>6 DEF Propose, ReturnToDraft
  <2> QED
    BY <2>1, <2>2, RowKeys, OverlapKept DEF Standing, Live
<1>7. ASSUME NEW id \in PeriodId, Publish(id, period[id].version)
      PROVE  NoDoubleBooking'
  <2>1. period[id].status = "PROPOSED" /\ row' = row
    BY <1>7 DEF Publish
  <2>2. \A i \in PeriodId : /\ period'[i].parent = period[i].parent
                            /\ period[i].status = "PUBLISHED" => period'[i].status = "PUBLISHED"
                            /\ Active(i)' => Active(i)
    BY <1>7, <2>1, PublishWrites DEF Active, Editable, Current
  <2> QED
    BY <2>1, <2>2, RowKeys, OverlapKept DEF Standing, Live
<1>8. ASSUME NEW id \in PeriodId, NEW r \in Revision, CreateRevision(id, period[id].version, r)
      PROVE  NoDoubleBooking'
  <2>1. MayRevise(id, r) /\ period' = Revised(id, r, 1) /\ row' = WithCopies(id, <<id[1], r>>)
    BY <1>8 DEF CreateRevision
  <2> QED
    BY <2>1, CopiesClash DEF NoDoubleBooking
<1>9. ASSUME NEW k \in RowId, NEW e \in Employee, NEW l \in Line, ReplaceInPlace(k, e, l)
      PROVE  NoDoubleBooking'
  <2> DEFINE x == <<k[1], l>>
             w == For(e, row[k].work)
  <2>1. row[k] \in RowRec /\ x \in RowId /\ x[1] = k[1] /\ (l = k[2] => x = k)
    BY <1>9, LiveIsRow, RowKeys DEF ReplaceInPlace, RowId
  <2>2. /\ \A j \in RowId \ {x} : row'[j] = row[j]
        /\ row'[x].work = w
    BY <1>9, <2>1 DEF ReplaceInPlace, Staffed, TypeOK, RowRec, NewRow
  <2>3. \A i \in PeriodId : /\ period'[i].parent = period[i].parent
                            /\ period[i].status = "PUBLISHED" => period'[i].status = "PUBLISHED"
                            /\ Active(i)' => Active(i)
    BY <1>9, RowKeys DEF ReplaceInPlace, TypeOK, PeriodRec, Active, Editable, Current
  <2>4. \A j \in RowId \ {x} : Standing(j)' => Standing(j)
    BY <2>2, <2>3, RowKeys DEF Standing, Live
  <2>5. \A j \in RowId \ {x} : Standing(j) => ~Clash(row[j].work, w)
    BY <1>9, <2>1, RowKeys DEF ReplaceInPlace, Available, NoOverlap, UnchangedPredecessor
  <2> HIDE DEF x, w
  <2>6. \A j \in RowId \ {x} : Standing(j)' =>
          /\ Standing(j)
          /\ row'[j].work = row[j].work
          /\ row'[j].copiedFrom = row[j].copiedFrom
          /\ ~Clash(row[j].work, row'[x].work)
    BY <2>2, <2>4, <2>5
  <2> QED
    BY <2>1, <2>3, <2>6, OverlapOneRow
<1>10. ASSUME NEW k \in RowId, NEW e \in Employee, NEW l \in Line, NEW r \in Revision,
              ReplaceInRevision(k, e, l, r)
       PROVE  NoDoubleBooking'
  <2> DEFINE new == <<k[1][1], r>>
             copies == WithCopies(k[1], new)
             x == <<new, l>>
             w == For(e, row[k].work)
  <2>1. /\ k[1] \in PeriodId /\ k[2] \in Line /\ k = <<k[1], k[2]>>
        /\ MayRevise(k[1], r) /\ period' = Revised(k[1], r, 2)
        /\ Live(k)
        /\ row' = Staffed(copies, <<new, k[2]>>, e, l)
    BY <1>10, RowKeys DEF ReplaceInRevision
  <2>2. new \in PeriodId /\ ~Present(new)
    BY <2>1, RevisionOpens
  <2>3. copies \in [RowId -> RowRec \cup {NoRow}] /\ <<new, k[2]>> \in RowId /\ x \in RowId
    BY <2>1, <2>2, CopiesType DEF RowId
  <2>4. copies[<<new, k[2]>>] = NewRow(row[k].work, k)
    BY <2>1, <2>2, <2>3, CopiesWritten
  <2>5. /\ \A j \in RowId \ {x} : row'[j] = copies[j]
        /\ row'[x].work = w
    <3>1. ASSUME NEW c \in [RowId -> RowRec \cup {NoRow}], NEW a \in RowId,
                 c[a] = NewRow(row[k].work, k), a = <<new, k[2]>>, row' = Staffed(c, a, e, l)
          PROVE  /\ \A j \in RowId \ {x} : row'[j] = c[j]
                 /\ row'[x].work = w
      <4> HIDE DEF new
      <4>1. CASE l = k[2]
        BY <2>3, <3>1, <4>1 DEF Staffed, NewRow
      <4>2. CASE l # k[2]
        BY <2>3, <3>1, <4>2 DEF Staffed, NewRow
      <4> QED
        BY <4>1, <4>2
    <3> QED
      BY <2>1, <2>3, <2>4, <3>1
  <2>6. \A j \in RowId : Standing(j) => ~Clash(row[j].work, w)
    BY <1>10, RowKeys DEF ReplaceInRevision, Available, NoOverlap, UnchangedPredecessor
  <2>7. ASSUME NEW j \in RowId \ {x}, Standing(j)'
        PROVE  ~Clash(row'[j].work, row'[x].work) /\ ~Clash(row'[x].work, row'[j].work)
    <3>1. /\ Source(k[1], new, j) \in RowId
          /\ Standing(Source(k[1], new, j))
          /\ row'[j].work = row[Source(k[1], new, j)].work
      BY <2>1, <2>5, <2>7, CopyStands
    <3>2. ~Clash(row'[j].work, w)
      BY <2>6, <3>1
    <3> QED
      BY <2>5, <3>2 DEF Clash
  <2>8. ASSUME NEW i \in RowId \ {x}, NEW j \in RowId \ {x}, i # j,
               Standing(i)', Standing(j)', Clash(row'[i].work, row'[j].work)
        PROVE  IsPredecessor(i, j)' \/ IsPredecessor(j, i)'
    BY <2>1, <2>5, <2>8, CopiesClash
  <2> QED
    BY <2>7, <2>8 DEF NoDoubleBooking
<1> QED
  BY <1>2, <1>3, <1>4, <1>5, <1>6, <1>7, <1>8, <1>9, <1>10 DEF SchedulingNext, EditingNext, PlanningNext, ReplacementNext

(* The other services do not write the schedule tables. *)
LEMMA OthersKeepSchedule ==
  LeaveNext \/ OutsourcingNext \/ DirectoryNext => UNCHANGED scheduleVars
  BY DEF LeaveNext, SubmitLeave, CancelLeave, ApproveLeave, RejectLeave, Settle, UpdateAllowance,
         OutsourcingNext, CreateBooking, CancelBooking,
         DirectoryNext, SetEmployeeActive, UpdateProject, SetReachable, SetClientArchived,
         scheduleVars

ScheduleInv == Rooted /\ OneLineage /\ NoDoubleBooking

LEMMA ScheduleInit == Init => ScheduleInv
  BY OwnershipAssumption
     DEF Init, ScheduleInv, Rooted, Present, NoPeriod, NoRow, OneLineage, NoDoubleBooking,
         Standing, Live, Current, Editable, PeriodId, RowId, Revision

LEMMA ScheduleUnchanged == ScheduleInv /\ UNCHANGED scheduleVars => ScheduleInv'
  BY DEF ScheduleInv, scheduleVars, Rooted, Present, OneLineage, NoDoubleBooking, IsPredecessor,
         UnchangedPredecessor, ParentOf, Standing, Live, Active, Current, Editable

LEMMA ScheduleStep == TypeOK /\ ScheduleInv /\ [Next]_vars => ScheduleInv'
<1>1. ASSUME TypeOK, ScheduleInv, SchedulingNext
      PROVE  ScheduleInv'
  BY <1>1, SchedulingRooted, SchedulingLineage, SchedulingOverlap DEF ScheduleInv
<1>2. UNCHANGED vars => UNCHANGED scheduleVars
  BY DEF vars, scheduleVars
<1> QED
  BY <1>1, <1>2, OthersKeepSchedule, ScheduleUnchanged DEF Next

(* Revisions of a plan form one line with one current and one editable end. *)
THEOREM LineageHolds == Spec => []OneLineage
<1>1. TypeOK /\ ScheduleInv /\ [Next]_vars => ScheduleInv'
  BY ScheduleStep
<1>2. ScheduleInv => OneLineage
  BY DEF ScheduleInv
<1> QED
  BY <1>1, <1>2, ScheduleInit, TypeCorrect, PTL DEF Spec

(* Nobody is booked twice, whatever the services do and in whatever order. *)
THEOREM NobodyBookedTwice == Spec => []NoDoubleBooking
<1>1. TypeOK /\ ScheduleInv /\ [Next]_vars => ScheduleInv'
  BY ScheduleStep
<1>2. ScheduleInv => NoDoubleBooking
  BY DEF ScheduleInv
<1> QED
  BY <1>1, <1>2, ScheduleInit, TypeCorrect, PTL DEF Spec

(***************************************************************************)
(* Published work leaves no exemption: nobody has two current rows at one  *)
(* time, for a copy and the row it was copied from are in two revisions of *)
(* one plan, and only one of those is current.  So the hours of a report   *)
(* are hours of different moments.                                         *)
(***************************************************************************)
ShiftsApart ==
  \A j, k \in RowId :
    /\ j # k /\ Live(j) /\ Current(j[1]) /\ Live(k) /\ Current(k[1])
    /\ row[j].work.employee = row[k].work.employee /\ row[j].work.date = row[k].work.date
    => (row[j].work.start .. row[j].work.end - 1) \cap (row[k].work.start .. row[k].work.end - 1) = {}

LEMMA SourceIsNotCurrent ==
  ASSUME TypeOK, Rooted, OneLineage, NEW j \in RowId, NEW k \in RowId, IsPredecessor(j, k), Current(k[1])
  PROVE  ~Current(j[1])
<1>1. k[1] \in PeriodId /\ j[1] \in PeriodId /\ j[1] = <<k[1][1], period[k[1]].parent>>
  BY RowKeys DEF IsPredecessor, UnchangedPredecessor, ParentOf
<1>2. PICK p \in Plan, r \in Revision : k[1] = <<p, r>>
  BY <1>1 DEF PeriodId
<1>3. PICK q \in Plan, s \in Revision : j[1] = <<q, s>>
  BY <1>1 DEF PeriodId
<1>4. q = p /\ s = period[k[1]].parent
  BY <1>1, <1>2, <1>3
<1>5. s < r
  <2>1. period[k[1]].parent < k[1][2]
    BY <1>1 DEF Rooted
  <2>2. k[1][2] = r
    BY <1>2
  <2> QED
    BY <2>1, <2>2, <1>4
<1>6. s # r
  BY <1>5, OwnershipAssumption DEF Revision
<1>7. ~(Current(<<p, r>>) /\ Current(<<p, s>>))
  BY <1>6 DEF OneLineage
<1> QED
  BY <1>2, <1>3, <1>4, <1>7

(* The rows of current revisions never cover one moment of one employee.   *)
THEOREM ShiftsStandApart == Spec => []ShiftsApart
<1>1. ASSUME TypeOK, ScheduleInv PROVE ShiftsApart
  <2> SUFFICES ASSUME NEW j \in RowId, NEW k \in RowId, j # k,
                      Live(j), Current(j[1]), Live(k), Current(k[1]),
                      row[j].work.employee = row[k].work.employee,
                      row[j].work.date = row[k].work.date
               PROVE  (row[j].work.start .. row[j].work.end - 1) \cap
                        (row[k].work.start .. row[k].work.end - 1) = {}
    BY DEF ShiftsApart
  <2>1. ~IsPredecessor(j, k) /\ ~IsPredecessor(k, j)
    BY <1>1, SourceIsNotCurrent DEF ScheduleInv
  <2>2. Standing(j) /\ Standing(k)
    BY DEF Standing, Active
  <2>3. ~Clash(row[j].work, row[k].work)
    BY <1>1, <2>1, <2>2 DEF ScheduleInv, NoDoubleBooking
  <2>4. \A i \in RowId : Live(i) => row[i].work \in Work
    BY <1>1 DEF TypeOK, Live, RowRec, NoRow
  <2>5. \A w \in Work : w.start \in Nat /\ w.end \in Nat
    BY CalendarAssumption DEF Work
  <2>6. PICK w, v : w = row[j].work /\ v = row[k].work
    OBVIOUS
  <2>7. /\ w.start \in Nat /\ w.end \in Nat /\ v.start \in Nat /\ v.end \in Nat
        /\ ~(w.start < v.end /\ v.start < w.end)
    BY <2>3, <2>4, <2>5, <2>6 DEF Clash
  <2>8. (w.start .. w.end - 1) \cap (v.start .. v.end - 1) = {}
    BY <2>7
  <2> QED
    BY <2>6, <2>8
<1>2. TypeOK /\ ScheduleInv /\ [Next]_vars => ScheduleInv'
  BY ScheduleStep
<1>3. TypeOK /\ ScheduleInv => ShiftsApart
  BY <1>1
<1> QED
  BY <1>2, <1>3, ScheduleInit, TypeCorrect, PTL DEF Spec

-----------------------------------------------------------------------------
(* Rows stay *)

(* A row that exists stays, and a write to it increments its version. *)
RowGrows(k) ==
  row[k] # NoRow =>
    row'[k] # NoRow /\ (row'[k] = row[k] \/ row'[k].version > row[k].version)

LEMMA CopiesGrow ==
  ASSUME TypeOK, Rooted, NEW id \in PeriodId, NEW new \in PeriodId, ~Present(new),
         NEW k \in RowId, row[k] # NoRow
  PROVE  k[1] # new /\ WithCopies(id, new)[k] = row[k]
BY CopiesWritten DEF Rooted

LEMMA SchedulingGrows ==
  ASSUME TypeOK, Rooted, SchedulingNext, NEW j \in RowId
  PROVE  RowGrows(j)
<1>1. UNCHANGED row => RowGrows(j)
  BY DEF RowGrows
<1>2. ASSUME NEW k \in RowId, NEW w \in Work, AddAssignment(k, period[k[1]].version, w)
      PROVE  RowGrows(j)
  BY <1>2 DEF AddAssignment, RowGrows, TypeOK
<1>3. ASSUME NEW k \in RowId, NEW w \in Work,
             UpdateAssignment(k, period[k[1]].version, row[k].version, w)
      PROVE  RowGrows(j)
  <2>1. row[k] \in RowRec
    BY <1>3, LiveIsRow DEF UpdateAssignment
  <2>2. CASE j = k
    BY <1>3, <2>1, <2>2 DEF UpdateAssignment, RowGrows, TypeOK, RowRec, NoRow
  <2>3. CASE j # k
    BY <1>3, <2>3 DEF UpdateAssignment, RowGrows, TypeOK
  <2> QED
    BY <2>2, <2>3
<1>4. ASSUME NEW k \in RowId, RemoveAssignment(k, period[k[1]].version, row[k].version)
      PROVE  RowGrows(j)
  <2>1. row[k] \in RowRec
    BY <1>4, LiveIsRow DEF RemoveAssignment
  <2>2. CASE j = k
    BY <1>4, <2>1, <2>2 DEF RemoveAssignment, RowGrows, TypeOK, RowRec, NoRow
  <2>3. CASE j # k
    BY <1>4, <2>3 DEF RemoveAssignment, RowGrows, TypeOK
  <2> QED
    BY <2>2, <2>3
<1>5. ASSUME NEW id \in PeriodId, NEW r \in Revision, CreateRevision(id, period[id].version, r)
      PROVE  RowGrows(j)
  <2> DEFINE new == <<id[1], r>>
  <2>1. row' = WithCopies(id, new) /\ new \in PeriodId /\ ~Present(new)
    BY <1>5, RevisionOpens DEF CreateRevision
  <2> QED
    BY <2>1, CopiesGrow DEF RowGrows
<1>6. ASSUME NEW k \in RowId, NEW e \in Employee, NEW l \in Line, ReplaceInPlace(k, e, l)
      PROVE  RowGrows(j)
  <2>1. row[k] \in RowRec /\ (l = k[2] \/ row[<<k[1], l>>] = NoRow)
    BY <1>6, LiveIsRow DEF ReplaceInPlace
  <2>2. row' = Staffed(row, k, e, l)
    BY <1>6 DEF ReplaceInPlace
  <2>3. CASE l = k[2] /\ j = k
    BY <2>1, <2>2, <2>3 DEF Staffed, RowGrows, TypeOK, RowRec, NoRow
  <2>4. CASE l = k[2] /\ j # k
    BY <2>2, <2>4 DEF Staffed, RowGrows, TypeOK
  <2>5. CASE l # k[2]
    BY <2>1, <2>2, <2>5 DEF Staffed, RowGrows, TypeOK
  <2> QED
    BY <2>3, <2>4, <2>5
<1>7. ASSUME NEW k \in RowId, NEW e \in Employee, NEW l \in Line, NEW r \in Revision,
             ReplaceInRevision(k, e, l, r), row[j] # NoRow
      PROVE  RowGrows(j)
  <2> DEFINE new == <<k[1][1], r>>
             copies == WithCopies(k[1], new)
  <2>1. k[1] \in PeriodId /\ new \in PeriodId /\ ~Present(new)
    BY <1>7, RowKeys, RevisionOpens DEF ReplaceInRevision
  <2>2. row' = Staffed(copies, <<new, k[2]>>, e, l)
    BY <1>7 DEF ReplaceInRevision
  <2>3. copies \in [RowId -> RowRec \cup {NoRow}]
    BY <2>1, CopiesType
  <2>4. j[1] # new /\ copies[j] = row[j]
    BY <1>7, <2>1, CopiesGrow
  <2> HIDE DEF new, copies
  <2> QED
    BY <1>7, <2>2, <2>3, <2>4 DEF Staffed, RowGrows
<1> QED
  BY <1>1, <1>2, <1>3, <1>4, <1>5, <1>6, <1>7
     DEF SchedulingNext, EditingNext, PlanningNext, ReplacementNext, RowGrows,
         CreatePeriod, Propose, ReturnToDraft, Publish

LEMMA StepGrows ==
  ASSUME TypeOK, Rooted, [Next]_vars, NEW k \in RowId
  PROVE  RowGrows(k)
<1>1. UNCHANGED row => RowGrows(k)
  BY DEF RowGrows
<1> QED
  BY <1>1, SchedulingGrows, OthersKeepSchedule DEF Next, vars, scheduleVars
=============================================================================
