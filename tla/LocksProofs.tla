----------------------------- MODULE LocksProofs -----------------------------
(***************************************************************************)
(* The locks of PlanningLocks make every commit a step of Workforce, and   *)
(* leave no cycle of waits without a validation of a timetable, for any    *)
(* number of calls, people, plans and days.                                *)
(*                                                                         *)
(* The inductive invariant says of every open transaction, at each of its  *)
(* steps, which locks it holds and which of its checks still hold.  What a *)
(* commit may change is bounded by the locks of whoever commits (Spares),  *)
(* so it never undoes what another transaction has checked.                *)
(***************************************************************************)
EXTENDS PlanningLocks, WorkforceProofs, FiniteSetTheorems, SequenceTheorems,
        WellFoundedInduction

-----------------------------------------------------------------------------
(* What each transaction has locked and checked *)

OverlapOf(w) == OverlapLock(w.employee, w.date)
LeaveOf(w)   == LeaveLock(w.employee)

Fitting(id, w, copiedFrom, exclude) ==
  ValidReferences(id, w) /\ NoOverlap(id, w, copiedFrom, exclude)

MayOpen(id) == \E r \in Revision : MayRevise(id, r)

(* Locks taken stand before those still to take. *)
Passed(taken, left) == \A a \in taken, b \in left : Before(a, b)

AddAt(c, s, H) ==
  \/ s = AddSteps(c) /\ H = {}
  \/ /\ s = << Check("draft"), Take({OverlapOf(c.work)}), Take({LeaveOf(c.work)}), Check("fits") >>
     /\ H = {PeriodLock(c.period)}
  \/ /\ period[c.period].status = "DRAFT"
     /\ \/ /\ s = << Take({OverlapOf(c.work)}), Take({LeaveOf(c.work)}), Check("fits") >>
           /\ H = {PeriodLock(c.period)}
        \/ /\ s = << Take({LeaveOf(c.work)}), Check("fits") >>
           /\ H = {PeriodLock(c.period), OverlapOf(c.work)}
        \/ /\ H = {PeriodLock(c.period), OverlapOf(c.work), LeaveOf(c.work)}
           /\ \/ s = << Check("fits") >>
              \/ /\ s = <<>>
                 /\ FreeLines(c.period) # {}
                 /\ Fitting(c.period, c.work, NoCopy, {})

(* The steps of a validation, before whatever comes after it. *)
Rest(op) == IF op = "propose" THEN <<>> ELSE << Decide("previous") >>
Rest1(op, a) == IF op = "propose" THEN << a >> ELSE << a, Decide("previous") >>
Rest2(op, a, b) == IF op = "propose" THEN << a, b >> ELSE << a, b, Decide("previous") >>
Rest3(op, a, b, d) == IF op = "propose" THEN << a, b, d >> ELSE << a, b, d, Decide("previous") >>

Checked(id, H, left) ==
  \A k \in LiveRows(id) \ left : LeaveOf(row[k].work) \in H /\ ValidRow(k)

Validating(c, s, H) ==
  \/ \E k \in LiveRows(c.period), K \in SUBSET TimetableKeys(c.period) :
       /\ s = Rest3(c.op, Take(K), Take({LeaveOf(row[k].work)}), CheckRow(k, LiveRows(c.period) \ {k}))
       /\ TimetableKeys(c.period) \ K \subseteq H
  \/ /\ TimetableKeys(c.period) \subseteq H
     /\ \/ \E k \in LiveRows(c.period), left \in SUBSET LiveRows(c.period) :
             /\ Checked(c.period, H, left \cup {k})
             /\ \/ s = Rest2(c.op, Take({LeaveOf(row[k].work)}), CheckRow(k, left))
                \/ s = Rest1(c.op, CheckRow(k, left)) /\ LeaveOf(row[k].work) \in H
        \/ /\ Checked(c.period, H, {})
           /\ \/ s = Rest(c.op)
              \/ c.op = "publish" /\ s = <<>>
              \/ c.op = "publish" /\ \E locks \in SUBSET {PeriodLock(id) : id \in PeriodId} : s = << Take(locks) >>

ProposeAt(c, s, H) ==
  \/ s = ProposeSteps(c)
  \/ /\ PeriodLock(c.period) \in H
     /\ \/ s = << Check("draft"), Decide("rows") >>
        \/ /\ period[c.period].status = "DRAFT"
           /\ s = << Decide("rows") >> \/ Validating(c, s, H)

PublishAt(c, s, H) ==
  \/ s = PublishSteps(c)
  \/ /\ PeriodLock(c.period) \in H
     /\ \/ s = << Check("proposed"), Take({PlanLock(c.period[1])}), Decide("rows"), Decide("previous") >>
        \/ /\ period[c.period].status = "PROPOSED"
           /\ \/ s = << Take({PlanLock(c.period[1])}), Decide("rows"), Decide("previous") >>
              \/ /\ PlanLock(c.period[1]) \in H
                 /\ s = << Decide("rows"), Decide("previous") >> \/ Validating(c, s, H)

ReviseAt(c, s, H) ==
  \/ s = ReviseSteps(c) /\ H = {}
  \/ /\ s = << Check("current"), Take({PlanLock(c.period[1])}), Check("revisable") >>
     /\ H = {PeriodLock(c.period)}
  \/ /\ s = << Take({PlanLock(c.period[1])}), Check("revisable") >>
     /\ H = {PeriodLock(c.period)}
  \/ /\ H = {PeriodLock(c.period), PlanLock(c.period[1])}
     /\ \/ s = << Check("revisable") >>
        \/ s = <<>> /\ MayOpen(c.period)

(* The row to change is in a locked editable period, or in a current one   *)
(* from which a revision may be opened under the lock of the plan.         *)
Based(k, B) ==
  /\ Live(k)
  /\ \/ B = {PeriodLock(k[1])} /\ Editable(k[1])
     \/ B = {PeriodLock(k[1]), PlanLock(k[1][1])} /\ MayOpen(k[1])

CoverAt(c, k, s, H) ==
  \/ s = CoverSteps(c) /\ H = {}
  \/ /\ k \in RowId
     /\ \/ s = << Take({PeriodLock(k[1])}), Check("copied"), Decide("staff") >> /\ H = {}
        \/ s = << Check("copied"), Decide("staff") >> /\ H = {PeriodLock(k[1])}
        \/ /\ s = << Take({PeriodLock(k[1])}), Check("anchored"), Decide("plan"), Decide("staff") >>
           /\ H = {}
        \/ /\ s = << Check("anchored"), Decide("plan"), Decide("staff") >>
           /\ H = {PeriodLock(k[1])}
        \/ s = << Decide("plan"), Decide("staff") >> /\ H = {PeriodLock(k[1])} /\ Live(k)
        \/ /\ s = << Take({PlanLock(k[1][1])}), Check("uncopied"), Decide("staff") >>
           /\ H = {PeriodLock(k[1])} /\ Live(k)
        \/ /\ s = << Check("uncopied"), Decide("staff") >>
           /\ H = {PeriodLock(k[1]), PlanLock(k[1][1])} /\ Live(k)
        \/ \E B \in SUBSET H : Based(k, B) /\
             LET w == For(c.employee, row[k].work) IN
             \/ s = << Decide("staff") >> /\ H = B
             \/ s = << Take({OverlapOf(w)}), Take({LeaveOf(w)}), Check("available") >> /\ H = B
             \/ s = << Take({LeaveOf(w)}), Check("available") >> /\ H = B \cup {OverlapOf(w)}
             \/ /\ H = B \cup {OverlapOf(w), LeaveOf(w)}
                /\ \/ s = << Check("available") >>
                   \/ s = <<>> /\ Available(k, c.employee, IF Editable(k[1]) THEN {k} ELSE {})

BookAt(c, s, H) ==
  LET A == OverlapLocks(c.team, BookedDays(c)) B == LeaveLocks(c.team) IN
  \/ \E K \in SUBSET A :
       /\ s = << Take(K), Take(B), Check("bookable") >> /\ K # {}
       /\ H = A \ K /\ Passed(H, K)
  \/ \E K \in SUBSET B :
       /\ s = << Take(K), Check("bookable") >> /\ K # {}
       /\ H = A \cup (B \ K) /\ Passed(B \ K, K)
  \/ /\ H = A \cup B
     /\ \/ s = << Check("bookable") >>
        \/ s = <<>> /\ \A e \in c.team : Bookable(e, c.first, c.last)

FreeOf(c) ==
  /\ leave[c.leave] = NoLeave
  /\ \A m \in LeaveId :
       Approved(m) \/ Pending(m) =>
         ~(leave[m].employee = c.employee /\ Meets(leave[m], c.first, c.last))

SubmitAt(c, s, H) ==
  \/ s = SubmitSteps(c) /\ H = {}
  \/ /\ H = {LeaveLock(c.employee)}
     /\ s = << Check("free") >> \/ (s = <<>> /\ FreeOf(c))

Approvable(l) ==
  /\ Pending(l)
  /\ ~Booked(leave[l].employee, leave[l].first, leave[l].last)
  /\ ~PublishedImpact(leave[l].employee, leave[l].first, leave[l].last)
  /\ WithinBalance(l)

ApproveAt(c, s, H) ==
  \/ s = ApproveLeaveSteps(c) /\ H = {}
  \/ /\ s = << Take({LeaveOf(leave[c.leave])}), Take({RequestLock(c.leave)}), Check("approvable") >>
     /\ H = {AllowanceLock}
  \/ /\ s = << Take({RequestLock(c.leave)}), Check("approvable") >>
     /\ H = {AllowanceLock, LeaveOf(leave[c.leave])}
  \/ /\ H = {AllowanceLock, LeaveOf(leave[c.leave]), RequestLock(c.leave)}
     /\ s = << Check("approvable") >> \/ (s = <<>> /\ Approvable(c.leave))

CancelAt(c, s, H) ==
  \/ s = CancelLeaveSteps(c) /\ H = {}
  \/ /\ s = << Take({RequestLock(c.leave)}), Check("pending") >>
     /\ H = {LeaveOf(leave[c.leave])}
  \/ /\ H = {LeaveOf(leave[c.leave]), RequestLock(c.leave)}
     /\ s = << Check("pending") >> \/ (s = <<>> /\ Pending(c.leave))

Reducible(c) == c.days < allowance.days => \A e \in Employee : Taken(e, ThisYear) <= c.days

AllowAt(c, s, H) ==
  \/ s = AllowanceSteps(c) /\ H = {}
  \/ /\ H = {AllowanceLock}
     /\ s = << Check("reducible") >> \/ (s = <<>> /\ Reducible(c))

(* c is the call, k the row a cover approval has chosen, s the steps to do *)
(* and H the locks held.                                                   *)
At(c, k, s, H) ==
  \/ c.op = "add" /\ AddAt(c, s, H)
  \/ c.op = "propose" /\ ProposeAt(c, s, H)
  \/ c.op = "publish" /\ PublishAt(c, s, H)
  \/ c.op = "revise" /\ ReviseAt(c, s, H)
  \/ c.op = "cover" /\ CoverAt(c, k, s, H)
  \/ c.op = "book" /\ BookAt(c, s, H)
  \/ c.op = "submit" /\ SubmitAt(c, s, H)
  \/ c.op = "approve" /\ ApproveAt(c, s, H)
  \/ c.op = "cancel" /\ CancelAt(c, s, H)
  \/ c.op = "allow" /\ AllowAt(c, s, H)

(* A booking is active and was made by a call that names it. *)
BookingsMade ==
  \A b \in BookingId : booking[b] # NoBooking =>
    /\ ActiveBooking(b)
    /\ \E t \in Txn :
         /\ call[t].op = "book" /\ call[t].batch = b[1] /\ b[2] \in call[t].team
         /\ booking[b].first = call[t].first /\ booking[b].last = call[t].last

Tables ==
  /\ DOMAIN stage = Txn /\ DOMAIN todo = Txn /\ DOMAIN seen = Txn
  /\ DOMAIN target = Txn /\ DOMAIN held = Txn

CallsAsked ==
  /\ \A t \in Txn : WellFormed(call[t], leave)
  /\ \A t, u \in Txn : SameInsertion(call[t], call[u]) => call[t] = call[u]

Exclusive == \A t, u \in Txn : t # u => held[t] \cap held[u] = {}

ProgressOf(t) ==
  IF Open(t) THEN At(call[t], target[t], todo[t], held[t]) ELSE held[t] = {}

Progress == \A t \in Txn : ProgressOf(t)

LocksInv ==
  /\ TypeOK
  /\ Rooted
  /\ Tables
  /\ \A c \in Client : clientLive[c]
  /\ CallsAsked
  /\ Exclusive
  /\ BookingsMade
  /\ Progress

-----------------------------------------------------------------------------
(* What a commit leaves alone for whoever holds the locks H *)

SparesPeriods(H) ==
  /\ \A id \in PeriodId : period[id].status = "PUBLISHED" => period'[id].status = "PUBLISHED"
  /\ \A id \in PeriodId : PeriodLock(id) \in H /\ Present(id) =>
       /\ period'[id].status = period[id].status
       /\ period'[id].parent = period[id].parent
       /\ \A k \in RowId : k[1] = id => row'[k] = row[k]

SparesPlans(H) ==
  \A id \in PeriodId : PlanLock(id[1]) \in H =>
    /\ Current(id)' <=> Current(id)
    /\ Present(id)' <=> Present(id)
    /\ Editable(id)' => Editable(id)

(* A row that comes to stand is under its writer's overlap lock, or it is  *)
(* a copy of a standing row of a plan that nobody was editing.             *)
SparesStanding(H) ==
  \A j \in RowId : Standing(j)' =>
    \/ OverlapOf(row'[j].work) \notin H
    \/ Standing(j) /\ row'[j].work = row[j].work
    \/ \E i \in RowId : /\ Standing(i) /\ row'[j].work = row[i].work
                        /\ PeriodLock(i[1]) \notin H /\ NoEditable(i[1][1])

SparesCurrent(H) ==
  \A k \in RowId : Live(k)' /\ Current(k[1])' =>
    \/ LeaveOf(row'[k].work) \notin H
    \/ Live(k) /\ Current(k[1]) /\ row'[k].work = row[k].work

SparesLeave(H) ==
  \A l \in LeaveId : leave'[l] # leave[l] =>
    /\ leave'[l] # NoLeave
    /\ LeaveOf(leave'[l]) \notin H
    /\ leave[l] # NoLeave =>
         /\ leave'[l].employee = leave[l].employee
         /\ leave'[l].first = leave[l].first
         /\ leave'[l].last = leave[l].last

SparesAllowance(H) ==
  AllowanceLock \in H =>
    allowance' = allowance /\ \A l \in LeaveId : Approved(l)' <=> Approved(l)

SparesBookings(H) ==
  \A b \in BookingId : booking'[b] # booking[b] =>
    /\ LeaveLock(b[2]) \notin H
    /\ \A d \in Date : Covers(booking'[b], d) => OverlapLock(b[2], d) \notin H

Spares(H) ==
  /\ UNCHANGED directoryVars
  /\ SparesPeriods(H)
  /\ SparesPlans(H)
  /\ SparesStanding(H)
  /\ SparesCurrent(H)
  /\ SparesLeave(H)
  /\ SparesAllowance(H)
  /\ SparesBookings(H)

LEMMA IdleSpares ==
  ASSUME NEW H, UNCHANGED vars
  PROVE  Spares(H)
<1>1. /\ period' = period /\ row' = row /\ leave' = leave /\ allowance' = allowance
      /\ booking' = booking /\ UNCHANGED directoryVars
  BY DEF vars, directoryVars
<1>2. SparesPeriods(H) /\ SparesPlans(H)
  BY <1>1 DEF SparesPeriods, SparesPlans, Current, Present, Editable
<1>3. SparesStanding(H) /\ SparesCurrent(H)
  BY <1>1 DEF SparesStanding, SparesCurrent, Standing, Live, Active, Current, Editable
<1>4. SparesLeave(H) /\ SparesAllowance(H) /\ SparesBookings(H)
  BY <1>1 DEF SparesLeave, SparesAllowance, SparesBookings, Approved
<1> QED
  BY <1>1, <1>2, <1>3, <1>4 DEF Spares

(* What has been checked under a lock stays so while the lock is held. *)
LEMMA DayStaysFree ==
  ASSUME NEW H, Spares(H), NEW e \in Employee, NEW d \in Date,
         OverlapLock(e, d) \in H, ~Booked(e, d, d)
  PROVE  ~Booked(e, d, d)'
<1> SUFFICES ASSUME NEW b \in BookingId, b[2] = e, ActiveBooking(b)', Meets(booking[b], d, d)'
             PROVE  FALSE
  BY DEF Booked
<1>1. Covers(booking'[b], d)
  BY DEF Meets, Covers
<1>2. booking'[b] = booking[b]
  BY <1>1 DEF Spares, SparesBookings
<1> QED
  BY <1>2 DEF Booked, ActiveBooking, Meets

LEMMA NobodyBooks ==
  ASSUME NEW H, Spares(H), NEW e, NEW first, NEW last,
         LeaveLock(e) \in H, ~Booked(e, first, last)
  PROVE  ~Booked(e, first, last)'
<1> SUFFICES ASSUME NEW b \in BookingId, b[2] = e, ActiveBooking(b)', Meets(booking[b], first, last)'
             PROVE  FALSE
  BY DEF Booked
<1>1. booking'[b] = booking[b]
  BY DEF Spares, SparesBookings
<1> QED
  BY <1>1 DEF Booked, ActiveBooking, Meets

LEMMA NobodyTakesLeave ==
  ASSUME NEW H, Spares(H), NEW e, NEW first, NEW last,
         LeaveLock(e) \in H, ~OnLeave(e, first, last)
  PROVE  ~OnLeave(e, first, last)'
<1> SUFFICES ASSUME NEW l \in LeaveId, Approved(l)', leave'[l].employee = e,
                    Meets(leave[l], first, last)'
             PROVE  FALSE
  BY DEF OnLeave
<1>1. leave'[l] = leave[l]
  BY DEF Spares, SparesLeave, LeaveOf
<1> QED
  BY <1>1 DEF OnLeave, Approved, Meets

LEMMA ReferencesStay ==
  ASSUME NEW H, Spares(H), NEW id, NEW w, LeaveOf(w) \in H, ValidReferences(id, w)
  PROVE  ValidReferences(id, w)'
<1>1. ~OnLeave(w.employee, w.date, w.date)'
  BY NobodyTakesLeave DEF ValidReferences, LeaveOf
<1> QED
  BY <1>1 DEF ValidReferences, Usable, Spares, directoryVars

LEMMA NobodyOverlaps ==
  ASSUME TypeOK, NEW H, Spares(H), NEW id \in PeriodId, NEW w \in Work,
         NEW copiedFrom, NEW exclude,
         PeriodLock(id) \in H, Present(id), OverlapOf(w) \in H,
         copiedFrom # NoCopy => Editable(id),
         \A k \in exclude : k[1] = id,
         NoOverlap(id, w, copiedFrom, exclude)
  PROVE  NoOverlap(id, w, copiedFrom, exclude)'
<1>1. ~Booked(w.employee, w.date, w.date)'
  BY DayStaysFree DEF NoOverlap, OverlapOf, Work
<1>2. ASSUME NEW j \in RowId \ exclude, Standing(j)', Clash(row[j].work, w)'
      PROVE  UnchangedPredecessor(j, id, w, copiedFrom)'
  <2>1. Clash(row'[j].work, w)
    BY <1>2 DEF Clash
  <2>2. OverlapOf(row'[j].work) = OverlapOf(w)
    BY <2>1 DEF Clash, OverlapOf
  <2>3. ParentOf(id)' = ParentOf(id)
    BY DEF Spares, SparesPeriods, ParentOf
  <2>4. CASE Standing(j) /\ row'[j].work = row[j].work
    <3>1. UnchangedPredecessor(j, id, w, copiedFrom)
      BY <2>1, <2>4 DEF NoOverlap
    <3>2. j[1] \in PeriodId
      BY RowKeys
    <3> QED
      BY <2>3, <2>4, <3>1, <3>2 DEF UnchangedPredecessor, Spares, SparesPeriods
  <2>5. ASSUME NEW i \in RowId, Standing(i), row'[j].work = row[i].work,
               PeriodLock(i[1]) \notin H, NoEditable(i[1][1])
        PROVE  FALSE
    <3>1. i \notin exclude
      BY <2>5
    <3>2. UnchangedPredecessor(i, id, w, copiedFrom)
      BY <2>1, <2>5, <3>1 DEF NoOverlap
    <3>3. i[1] = ParentOf(id) /\ copiedFrom = i
      BY <3>2 DEF UnchangedPredecessor
    <3>4. Editable(id)
      BY <3>3, RowKeys
    <3>5. i[1][1] = id[1]
      BY <3>3 DEF ParentOf
    <3>6. id[2] \in Revision /\ id = <<id[1], id[2]>>
      BY PeriodKeys
    <3> QED
      BY <2>5, <3>4, <3>5, <3>6 DEF NoEditable
  <2> QED
    BY <1>2, <2>2, <2>4, <2>5 DEF Spares, SparesStanding
<1> QED
  BY <1>1, <1>2 DEF NoOverlap

LEMMA FittingStays ==
  ASSUME TypeOK, NEW H, Spares(H), NEW id \in PeriodId, NEW w \in Work,
         NEW copiedFrom, NEW exclude,
         {PeriodLock(id), OverlapOf(w), LeaveOf(w)} \subseteq H, Present(id),
         copiedFrom # NoCopy => Editable(id),
         \A k \in exclude : k[1] = id,
         Fitting(id, w, copiedFrom, exclude)
  PROVE  Fitting(id, w, copiedFrom, exclude)'
<1>1. ValidReferences(id, w)'
  BY ReferencesStay DEF Fitting
<1>2. NoOverlap(id, w, copiedFrom, exclude)'
  BY NobodyOverlaps DEF Fitting
<1> QED
  BY <1>1, <1>2 DEF Fitting

-----------------------------------------------------------------------------
(* What a transaction has checked survives what the others commit. *)

LEMMA PeriodStays ==
  ASSUME NEW H, Spares(H), NEW id \in PeriodId, PeriodLock(id) \in H, Present(id)
  PROVE  /\ period'[id].status = period[id].status
         /\ Present(id)'
         /\ Editable(id)' <=> Editable(id)
         /\ \A k \in RowId : k[1] = id => row'[k] = row[k]
         /\ LiveRows(id)' = LiveRows(id)
BY DEF Spares, SparesPeriods, Present, Editable, LiveRows, Live

LEMMA AddKept ==
  ASSUME TypeOK, NEW c, c.op = "add", WellFormed(c, leave), NEW s, NEW H, Spares(H),
         AddAt(c, s, H)
  PROVE  AddAt(c, s, H)'
<1>1. c.period \in PeriodId /\ c.work \in Work
  BY DEF WellFormed
<1>2. AddSteps(c)' = AddSteps(c)
  BY DEF AddSteps
<1>3. CASE /\ period[c.period].status = "DRAFT"
           /\ PeriodLock(c.period) \in H
  <2>1. Present(c.period)
    BY <1>3 DEF Present
  <2>2. period'[c.period].status = "DRAFT" /\ FreeLines(c.period)' = FreeLines(c.period)
    BY <1>1, <1>3, <2>1, PeriodStays DEF FreeLines, RowId
  <2>3. ASSUME H = {PeriodLock(c.period), OverlapOf(c.work), LeaveOf(c.work)},
               Fitting(c.period, c.work, NoCopy, {})
        PROVE  Fitting(c.period, c.work, NoCopy, {})'
    <3>1. {PeriodLock(c.period), OverlapOf(c.work), LeaveOf(c.work)} \subseteq H
      BY <2>3
    <3> QED
      BY <1>1, <2>1, <2>3, <3>1, FittingStays
  <2> QED
    BY <1>2, <2>2, <2>3 DEF AddAt
<1>4. CASE ~(period[c.period].status = "DRAFT" /\ PeriodLock(c.period) \in H)
  BY <1>2, <1>4 DEF AddAt
<1> QED
  BY <1>3, <1>4

(* The rows of a locked timetable, and the checks they have passed. *)
LEMMA RowStays ==
  ASSUME TypeOK, NEW H, Spares(H), NEW k \in RowId, PeriodLock(k[1]) \in H, Editable(k[1]),
         Live(k), OverlapOf(row[k].work) \in H, LeaveOf(row[k].work) \in H, ValidRow(k)
  PROVE  ValidRow(k)'
<1>1. k[1] \in PeriodId /\ Present(k[1])
  BY RowKeys DEF Editable, Present
<1>2. PICK w : w = row[k].work
  OBVIOUS
<1>3. PICK copiedFrom : copiedFrom = row[k].copiedFrom
  OBVIOUS
<1>4. w \in Work
  BY <1>2, LiveIsRow DEF RowRec
<1>5. Fitting(k[1], w, copiedFrom, {k})
  BY <1>2, <1>3 DEF ValidRow, Fitting
<1>6. {PeriodLock(k[1]), OverlapOf(w), LeaveOf(w)} \subseteq H
  BY <1>2
<1>7. Fitting(k[1], w, copiedFrom, {k})'
  BY <1>1, <1>4, <1>5, <1>6, FittingStays
<1>8. row'[k].work = w /\ row'[k].copiedFrom = copiedFrom
  BY <1>1, <1>2, <1>3, PeriodStays
<1> QED
  BY <1>7, <1>8 DEF ValidRow, Fitting

LEMMA ValidatingKept ==
  ASSUME TypeOK, NEW c, c.period \in PeriodId, NEW s, NEW H, Spares(H),
         PeriodLock(c.period) \in H, Editable(c.period), Validating(c, s, H)
  PROVE  Validating(c, s, H)'
<1>1. Present(c.period)
  BY DEF Editable, Present
<1>2. /\ LiveRows(c.period)' = LiveRows(c.period)
      /\ \A k \in LiveRows(c.period) : row'[k] = row[k]
  BY <1>1, PeriodStays DEF LiveRows
<1>3. TimetableKeys(c.period)' = TimetableKeys(c.period)
  BY <1>2 DEF TimetableKeys
<1>4. ASSUME NEW left, TimetableKeys(c.period) \subseteq H, Checked(c.period, H, left)
      PROVE  Checked(c.period, H, left)'
  <2> SUFFICES ASSUME NEW k \in LiveRows(c.period) \ left
               PROVE  LeaveOf(row'[k].work) \in H /\ ValidRow(k)'
    BY <1>2 DEF Checked
  <2>1. k \in RowId /\ k[1] = c.period /\ Live(k)
    BY DEF LiveRows
  <2>2. OverlapOf(row[k].work) \in H
    BY <1>4 DEF TimetableKeys, OverlapOf
  <2>3. LeaveOf(row[k].work) \in H /\ ValidRow(k)
    BY <1>4 DEF Checked
  <2> QED
    BY <1>2, <2>1, <2>2, <2>3, RowStays
<1> HIDE DEF Checked
<1>5. ASSUME NEW k \in LiveRows(c.period), NEW K \in SUBSET TimetableKeys(c.period),
             s = Rest3(c.op, Take(K), Take({LeaveOf(row[k].work)}), CheckRow(k, LiveRows(c.period) \ {k})),
             TimetableKeys(c.period) \ K \subseteq H
      PROVE  Validating(c, s, H)'
  BY <1>2, <1>3, <1>5 DEF Validating, Rest3
<1>6. ASSUME TimetableKeys(c.period) \subseteq H,
             NEW k \in LiveRows(c.period), NEW left \in SUBSET LiveRows(c.period),
             Checked(c.period, H, left \cup {k}),
             \/ s = Rest2(c.op, Take({LeaveOf(row[k].work)}), CheckRow(k, left))
             \/ s = Rest1(c.op, CheckRow(k, left)) /\ LeaveOf(row[k].work) \in H
      PROVE  Validating(c, s, H)'
  <2>1. Checked(c.period, H, left \cup {k})'
    BY <1>4, <1>6
  <2> QED
    BY <1>2, <1>3, <1>6, <2>1 DEF Validating, Rest2, Rest1
<1>7. ASSUME TimetableKeys(c.period) \subseteq H, Checked(c.period, H, {}),
             \/ s = Rest(c.op)
             \/ c.op = "publish" /\ s = <<>>
             \/ c.op = "publish" /\
                  \E locks \in SUBSET {PeriodLock(id) : id \in PeriodId} : s = << Take(locks) >>
      PROVE  Validating(c, s, H)'
  <2>1. Checked(c.period, H, {})'
    BY <1>4, <1>7
  <2> QED
    BY <1>3, <1>7, <2>1 DEF Validating, Rest
<1> QED
  BY <1>5, <1>6, <1>7 DEF Validating

LEMMA ProposeKept ==
  ASSUME TypeOK, NEW c, c.op = "propose", WellFormed(c, leave), NEW s, NEW H, Spares(H),
         ProposeAt(c, s, H)
  PROVE  ProposeAt(c, s, H)'
<1>1. c.period \in PeriodId /\ ProposeSteps(c)' = ProposeSteps(c)
  BY DEF WellFormed, ProposeSteps
<1>2. CASE period[c.period].status = "DRAFT" /\ PeriodLock(c.period) \in H
  <2>1. Present(c.period) /\ Editable(c.period)
    BY <1>2 DEF Present, Editable
  <2>2. period'[c.period].status = "DRAFT"
    BY <1>1, <1>2, <2>1, PeriodStays
  <2>3. Validating(c, s, H) => Validating(c, s, H)'
    BY <1>1, <1>2, <2>1, ValidatingKept
  <2> QED
    BY <1>1, <2>2, <2>3 DEF ProposeAt
<1>3. CASE ~(period[c.period].status = "DRAFT" /\ PeriodLock(c.period) \in H)
  BY <1>1, <1>3 DEF ProposeAt
<1> QED
  BY <1>2, <1>3

LEMMA PublishKept ==
  ASSUME TypeOK, NEW c, c.op = "publish", WellFormed(c, leave), NEW s, NEW H, Spares(H),
         PublishAt(c, s, H)
  PROVE  PublishAt(c, s, H)'
<1>1. c.period \in PeriodId /\ PublishSteps(c)' = PublishSteps(c)
  BY DEF WellFormed, PublishSteps
<1>2. CASE period[c.period].status = "PROPOSED" /\ PeriodLock(c.period) \in H
  <2>1. Present(c.period) /\ Editable(c.period)
    BY <1>2 DEF Present, Editable
  <2>2. period'[c.period].status = "PROPOSED"
    BY <1>1, <1>2, <2>1, PeriodStays
  <2>3. Validating(c, s, H) => Validating(c, s, H)'
    BY <1>1, <1>2, <2>1, ValidatingKept
  <2> QED
    BY <1>1, <2>2, <2>3 DEF PublishAt
<1>3. CASE ~(period[c.period].status = "PROPOSED" /\ PeriodLock(c.period) \in H)
  BY <1>1, <1>3 DEF PublishAt
<1> QED
  BY <1>2, <1>3

(* Under the plan's lock no revision is opened or superseded. *)
LEMMA OpeningStays ==
  ASSUME NEW H, Spares(H), NEW id \in PeriodId, PlanLock(id[1]) \in H, MayOpen(id)
  PROVE  MayOpen(id)'
<1>1. PICK r \in Revision : MayRevise(id, r)
  BY DEF MayOpen
<1>2. \A s \in Revision : /\ <<id[1], s>> \in PeriodId
                          /\ <<id[1], s>>[1] = id[1]
  BY PeriodKeys DEF PeriodId
<1>3. Current(id)'
  BY <1>1 DEF Spares, SparesPlans, MayRevise
<1>4. NoEditable(id[1])'
  BY <1>1, <1>2 DEF Spares, SparesPlans, MayRevise, NoEditable
<1>5. IsNextRevision(id[1], r)'
  <2>1. \A s \in Revision : Present(<<id[1], s>>)' <=> Present(<<id[1], s>>)
    BY <1>2 DEF Spares, SparesPlans
  <2>2. IsNextRevision(id[1], r)
    BY <1>1 DEF MayRevise
  <2>3. r > 1 => r - 1 \in Revision
    BY OwnershipAssumption DEF Revision
  <2> QED
    BY <2>1, <2>2, <2>3 DEF IsNextRevision, Present
<1> QED
  BY <1>3, <1>4, <1>5 DEF MayOpen, MayRevise

LEMMA ReviseKept ==
  ASSUME NEW c, c.op = "revise", WellFormed(c, leave), NEW s, NEW H, Spares(H), ReviseAt(c, s, H)
  PROVE  ReviseAt(c, s, H)'
<1>1. c.period \in PeriodId /\ ReviseSteps(c)' = ReviseSteps(c)
  BY DEF WellFormed, ReviseSteps
<1>2. H = {PeriodLock(c.period), PlanLock(c.period[1])} /\ MayOpen(c.period) => MayOpen(c.period)'
  BY <1>1, OpeningStays
<1> QED
  BY <1>1, <1>2 DEF ReviseAt

LEMMA BasedStays ==
  ASSUME TypeOK, Rooted, NEW H, Spares(H), NEW k \in RowId, PeriodLock(k[1]) \in H, Live(k)
  PROVE  /\ Live(k)' /\ row'[k] = row[k]
         /\ Present(k[1])
         /\ Editable(k[1])' <=> Editable(k[1])
         /\ \A B : B \subseteq H /\ Based(k, B) => Based(k, B)'
<1>1. k[1] \in PeriodId /\ Present(k[1])
  BY RowKeys DEF Rooted, Live, NoRow
<1>2. row'[k] = row[k] /\ (Editable(k[1])' <=> Editable(k[1]))
  BY <1>1, PeriodStays
<1>3. Live(k)'
  BY <1>2 DEF Live
<1>4. ASSUME NEW B, B \subseteq H, Based(k, B)
      PROVE  Based(k, B)'
  <2>1. PlanLock(k[1][1]) \in B /\ MayOpen(k[1]) => MayOpen(k[1])'
    BY <1>1, <1>4, OpeningStays
  <2> QED
    BY <1>2, <1>3, <1>4, <2>1 DEF Based
<1> QED
  BY <1>1, <1>2, <1>3, <1>4

LEMMA ForWork ==
  ASSUME TypeOK, NEW k \in RowId, Live(k), NEW e \in Employee
  PROVE  For(e, row[k].work) \in Work
<1>1. row[k].work \in Work
  BY LiveIsRow DEF RowRec
<1> QED
  BY <1>1 DEF For, Work

LEMMA AvailableStays ==
  ASSUME TypeOK, Rooted, NEW H, Spares(H), NEW k \in RowId, PeriodLock(k[1]) \in H, Live(k),
         NEW e \in Employee, NEW w, w = For(e, row[k].work),
         OverlapOf(w) \in H, LeaveOf(w) \in H,
         Available(k, e, IF Editable(k[1]) THEN {k} ELSE {})
  PROVE  Available(k, e, IF Editable(k[1]) THEN {k} ELSE {})'
<1>1. PICK exclude : exclude = IF Editable(k[1]) THEN {k} ELSE {}
  OBVIOUS
<1>2. row'[k] = row[k] /\ Present(k[1]) /\ (Editable(k[1])' <=> Editable(k[1]))
  BY BasedStays
<1>3. w \in Work /\ k[1] \in PeriodId
  BY ForWork, RowKeys
<1>4. Fitting(k[1], w, NoCopy, exclude)
  BY <1>1 DEF Available, Fitting
<1>5. {PeriodLock(k[1]), OverlapOf(w), LeaveOf(w)} \subseteq H /\ \A j \in exclude : j[1] = k[1]
  BY <1>1
<1>6. Fitting(k[1], w, NoCopy, exclude)'
  BY <1>2, <1>3, <1>4, <1>5, FittingStays
<1>7. row[k].work.employee # e
  BY DEF Available
<1>8. For(e, row'[k].work) = w
  BY <1>2
<1>9. Available(k, e, exclude)'
  BY <1>2, <1>6, <1>7, <1>8 DEF Available, Fitting
<1> QED
  BY <1>1, <1>2, <1>9

LEMMA CoverKept ==
  ASSUME TypeOK, Rooted, NEW c, c.op = "cover", WellFormed(c, leave), NEW k, NEW s, NEW H,
         Spares(H), CoverAt(c, k, s, H)
  PROVE  CoverAt(c, k, s, H)'
<1>1. c.employee \in Employee
  BY DEF WellFormed
<1>2. CASE k \in RowId /\ PeriodLock(k[1]) \in H /\ Live(k)
  <2>1. /\ Live(k)' /\ row'[k] = row[k]
        /\ Editable(k[1])' <=> Editable(k[1])
        /\ \A B : B \subseteq H /\ Based(k, B) => Based(k, B)'
    BY <1>2, BasedStays
  <2>2. PICK w : w = For(c.employee, row[k].work)
    OBVIOUS
  <2>3. w = For(c.employee, row'[k].work)
    BY <2>1, <2>2
  <2>4. ASSUME OverlapOf(w) \in H, LeaveOf(w) \in H,
               Available(k, c.employee, IF Editable(k[1]) THEN {k} ELSE {})
        PROVE  Available(k, c.employee, IF Editable(k[1]) THEN {k} ELSE {})'
    BY <1>1, <1>2, <2>2, <2>4, AvailableStays
  <2>5. ASSUME NEW B \in SUBSET H, Based(k, B),
               \/ s = << Decide("staff") >> /\ H = B
               \/ s = << Take({OverlapOf(w)}), Take({LeaveOf(w)}), Check("available") >> /\ H = B
               \/ s = << Take({LeaveOf(w)}), Check("available") >> /\ H = B \cup {OverlapOf(w)}
               \/ /\ H = B \cup {OverlapOf(w), LeaveOf(w)}
                  /\ \/ s = << Check("available") >>
                     \/ s = <<>> /\ Available(k, c.employee, IF Editable(k[1]) THEN {k} ELSE {})
        PROVE  CoverAt(c, k, s, H)'
    <3>1. Based(k, B)'
      BY <2>1, <2>5
    <3>2. \/ s = << Decide("staff") >> /\ H = B
          \/ s = << Take({OverlapOf(w)}), Take({LeaveOf(w)}), Check("available") >> /\ H = B
          \/ s = << Take({LeaveOf(w)}), Check("available") >> /\ H = B \cup {OverlapOf(w)}
          \/ /\ H = B \cup {OverlapOf(w), LeaveOf(w)}
             /\ \/ s = << Check("available") >>
                \/ s = <<>> /\ Available(k, c.employee, IF Editable(k[1]) THEN {k} ELSE {})'
      BY <2>4, <2>5
    <3> QED
      BY <1>2, <2>3, <3>1, <3>2 DEF CoverAt
  <2> QED
    BY <1>2, <2>1, <2>2, <2>5 DEF CoverAt, CoverSteps
<1>3. CASE ~(k \in RowId /\ PeriodLock(k[1]) \in H /\ Live(k))
  BY <1>3 DEF CoverAt, CoverSteps, Based
<1> QED
  BY <1>2, <1>3

LEMMA BookableStays ==
  ASSUME TypeOK', NEW H, Spares(H), NEW e, NEW first, NEW last,
         LeaveLock(e) \in H,
         \A d \in Date : first <= d /\ d <= last => OverlapLock(e, d) \in H,
         Bookable(e, first, last)
  PROVE  Bookable(e, first, last)'
<1>1. ~Booked(e, first, last)' /\ ~OnLeave(e, first, last)'
  BY NobodyBooks, NobodyTakesLeave DEF Bookable
<1>2. ASSUME NEW k \in RowId, Standing(k)', row'[k].work.employee = e,
             first <= row'[k].work.date, row'[k].work.date <= last
      PROVE  FALSE
  <2>1. row'[k].work.date \in Date
    BY <1>2 DEF Standing, Live, TypeOK, RowRec, Work, NoRow
  <2>2. OverlapOf(row'[k].work) \in H
    BY <1>2, <2>1 DEF OverlapOf
  <2>3. PICK i \in RowId : Standing(i) /\ row'[k].work = row[i].work
    BY <1>2, <2>2 DEF Spares, SparesStanding
  <2> QED
    BY <1>2, <2>3 DEF Bookable, Scheduled
<1>3. ~Scheduled(e, first, last)'
  BY <1>2 DEF Scheduled
<1> QED
  BY <1>1, <1>3 DEF Bookable, Spares, directoryVars

LEMMA BookKept ==
  ASSUME TypeOK', NEW c, c.op = "book", WellFormed(c, leave), NEW s, NEW H, Spares(H),
         BookAt(c, s, H)
  PROVE  BookAt(c, s, H)'
<1>1. CASE /\ H = OverlapLocks(c.team, BookedDays(c)) \cup LeaveLocks(c.team)
           /\ \A e \in c.team : Bookable(e, c.first, c.last)
  <2>1. ASSUME NEW e \in c.team
        PROVE  Bookable(e, c.first, c.last)'
    <3>1. LeaveLock(e) \in H
      BY <1>1 DEF LeaveLocks
    <3>2. \A d \in Date : c.first <= d /\ d <= c.last => OverlapLock(e, d) \in H
      BY <1>1 DEF OverlapLocks, BookedDays, Covers
    <3> QED
      BY <1>1, <3>1, <3>2, BookableStays
  <2> QED
    BY <2>1 DEF BookAt
<1>2. CASE ~ /\ H = OverlapLocks(c.team, BookedDays(c)) \cup LeaveLocks(c.team)
             /\ \A e \in c.team : Bookable(e, c.first, c.last)
  BY <1>2 DEF BookAt
<1> QED
  BY <1>1, <1>2

(* The one call that inserts a request is this one. *)
LEMMA SubmitKept ==
  ASSUME NEW c, c.op = "submit", WellFormed(c, leave), NEW s, NEW H, Spares(H),
         leave[c.leave] = NoLeave /\ leave'[c.leave] # NoLeave =>
           leave'[c.leave].employee = c.employee,
         SubmitAt(c, s, H)
  PROVE  SubmitAt(c, s, H)'
<1>1. SubmitSteps(c)' = SubmitSteps(c) /\ c.leave \in LeaveId
  BY DEF SubmitSteps, WellFormed
<1>2. ASSUME LeaveLock(c.employee) \in H, FreeOf(c)
      PROVE  FreeOf(c)'
  <2>1. leave'[c.leave] = NoLeave
    BY <1>1, <1>2 DEF FreeOf, Spares, SparesLeave, LeaveOf
  <2>2. ASSUME NEW m \in LeaveId, Approved(m)' \/ Pending(m)', leave'[m].employee = c.employee
        PROVE  ~Meets(leave'[m], c.first, c.last)
    <3>1. leave'[m] = leave[m]
      BY <1>2, <2>2 DEF Spares, SparesLeave, LeaveOf
    <3> QED
      BY <1>2, <2>2, <3>1 DEF FreeOf, Approved, Pending
  <2> QED
    BY <2>1, <2>2 DEF FreeOf, Meets
<1> QED
  BY <1>1, <1>2 DEF SubmitAt

(* A request keeps its employee; under that employee's lock it is unchanged. *)
LEMMA RequestStays ==
  ASSUME NEW H, Spares(H), NEW l \in LeaveId, leave[l] # NoLeave
  PROVE  /\ LeaveOf(leave'[l]) = LeaveOf(leave[l])
         /\ leave'[l] # NoLeave
         /\ LeaveOf(leave[l]) \in H => leave'[l] = leave[l]
BY DEF Spares, SparesLeave, LeaveOf

LEMMA TakenStays ==
  ASSUME NEW H, Spares(H), NEW e, NEW y, LeaveLock(e) \in H
  PROVE  Taken(e, y)' = Taken(e, y)
<1>1. ASSUME NEW l \in LeaveId
      PROVE  /\ Approved(l)' /\ leave'[l].employee = e <=> Approved(l) /\ leave[l].employee = e
             /\ leave[l].employee = e /\ Approved(l) => leave'[l] = leave[l]
  <2>1. CASE leave'[l] = leave[l]
    BY <2>1 DEF Approved
  <2>2. CASE leave'[l] # leave[l]
    BY <2>2 DEF Spares, SparesLeave, LeaveOf, Approved, NoLeave
  <2> QED
    BY <2>1, <2>2
<1>2. \A ld \in LeaveId \X Date :
        (/\ Approved(ld[1])' /\ leave'[ld[1]].employee = e /\ Covers(leave'[ld[1]], ld[2])
         /\ ld[2] \in WorkDay /\ YearOf[ld[2]] = y)
        <=> (/\ Approved(ld[1]) /\ leave[ld[1]].employee = e /\ Covers(leave[ld[1]], ld[2])
             /\ ld[2] \in WorkDay /\ YearOf[ld[2]] = y)
  BY <1>1 DEF Covers
<1> QED
  BY <1>2 DEF Taken, Covers

LEMMA ApprovableStays ==
  ASSUME TypeOK, NEW H, Spares(H), NEW l \in LeaveId, leave[l] # NoLeave,
         LeaveOf(leave[l]) \in H, AllowanceLock \in H, Approvable(l)
  PROVE  Approvable(l)'
<1>1. leave'[l] = leave[l] /\ allowance' = allowance
  BY RequestStays DEF Spares, SparesAllowance
<1>2. PICK r : r = leave[l]
  OBVIOUS
<1>3. ~Booked(r.employee, r.first, r.last)'
  BY <1>2, NobodyBooks DEF Approvable, LeaveOf
<1>4. ~PublishedImpact(r.employee, r.first, r.last)'
  <2> SUFFICES ASSUME NEW k \in RowId, Live(k)', Current(k[1])', row'[k].work.employee = r.employee,
                      r.first <= row'[k].work.date, row'[k].work.date <= r.last
               PROVE  FALSE
    BY DEF PublishedImpact
  <2>1. LeaveOf(row'[k].work) \in H
    BY <1>2 DEF LeaveOf
  <2>2. Live(k) /\ Current(k[1]) /\ row'[k].work = row[k].work
    BY <2>1 DEF Spares, SparesCurrent
  <2> QED
    BY <1>2, <2>2 DEF Approvable, PublishedImpact
<1>5. \A y : Taken(r.employee, y)' = Taken(r.employee, y)
  BY <1>2, TakenStays DEF LeaveOf
<1>6. WithinBalance(l)'
  <2>1. YearsOf(l)' = YearsOf(l) /\ \A y : Asked(l, y)' = Asked(l, y)
    BY <1>1 DEF YearsOf, Asked, Covers
  <2>2. \A y : Taken(leave[l].employee, y)' = Taken(leave[l].employee, y)
    BY <1>1, <1>2, <1>5
  <2> QED
    BY <1>1, <2>1, <2>2 DEF Approvable, WithinBalance
<1> QED
  BY <1>1, <1>2, <1>3, <1>4, <1>6 DEF Approvable, Pending

LEMMA ApproveKept ==
  ASSUME TypeOK, NEW c, c.op = "approve", WellFormed(c, leave), NEW s, NEW H, Spares(H),
         ApproveAt(c, s, H)
  PROVE  ApproveAt(c, s, H)'
<1>1. c.leave \in LeaveId /\ leave[c.leave] # NoLeave
  BY DEF WellFormed
<1>2. LeaveOf(leave'[c.leave]) = LeaveOf(leave[c.leave])
  BY <1>1, RequestStays
<1>3. ApproveLeaveSteps(c)' = ApproveLeaveSteps(c)
  BY <1>2 DEF ApproveLeaveSteps, LeaveOf
<1>4. H = {AllowanceLock, LeaveOf(leave[c.leave]), RequestLock(c.leave)} /\ Approvable(c.leave)
        => Approvable(c.leave)'
  BY <1>1, ApprovableStays
<1> QED
  BY <1>2, <1>3, <1>4 DEF ApproveAt

LEMMA CancelKept ==
  ASSUME NEW c, c.op = "cancel", WellFormed(c, leave), NEW s, NEW H, Spares(H), CancelAt(c, s, H)
  PROVE  CancelAt(c, s, H)'
<1>1. c.leave \in LeaveId /\ leave[c.leave] # NoLeave
  BY DEF WellFormed
<1>2. LeaveOf(leave'[c.leave]) = LeaveOf(leave[c.leave])
  BY <1>1, RequestStays
<1>3. CancelLeaveSteps(c)' = CancelLeaveSteps(c)
  BY <1>2 DEF CancelLeaveSteps, LeaveOf
<1>4. H = {LeaveOf(leave[c.leave]), RequestLock(c.leave)} /\ Pending(c.leave) => Pending(c.leave)'
  BY <1>1, RequestStays DEF Pending
<1> QED
  BY <1>2, <1>3, <1>4 DEF CancelAt

LEMMA AllowKept ==
  ASSUME NEW c, NEW s, NEW H, Spares(H), AllowAt(c, s, H)
  PROVE  AllowAt(c, s, H)'
<1>1. ASSUME AllowanceLock \in H, NEW e, NEW y
      PROVE  Taken(e, y)' = Taken(e, y)
  <2>1. ASSUME NEW l \in LeaveId
        PROVE  /\ Approved(l)' <=> Approved(l)
               /\ Approved(l) => /\ leave'[l].employee = leave[l].employee
                                 /\ leave'[l].first = leave[l].first
                                 /\ leave'[l].last = leave[l].last
    <3>1. Approved(l)' <=> Approved(l)
      BY <1>1 DEF Spares, SparesAllowance
    <3>2. CASE leave'[l] # leave[l]
      BY <3>1, <3>2 DEF Spares, SparesLeave, Approved, NoLeave
    <3>3. CASE leave'[l] = leave[l]
      BY <3>1, <3>3
    <3> QED
      BY <3>2, <3>3
  <2>2. \A ld \in LeaveId \X Date :
          (/\ Approved(ld[1])' /\ leave'[ld[1]].employee = e /\ Covers(leave'[ld[1]], ld[2])
           /\ ld[2] \in WorkDay /\ YearOf[ld[2]] = y)
          <=> (/\ Approved(ld[1]) /\ leave[ld[1]].employee = e /\ Covers(leave[ld[1]], ld[2])
               /\ ld[2] \in WorkDay /\ YearOf[ld[2]] = y)
    BY <2>1 DEF Covers
  <2> QED
    BY <2>2 DEF Taken, Covers
<1>2. AllowanceLock \in H => allowance' = allowance
  BY DEF Spares, SparesAllowance
<1>3. AllowanceLock \in H /\ Reducible(c) => Reducible(c)'
  BY <1>1, <1>2 DEF Reducible
<1> QED
  BY <1>3 DEF AllowAt, AllowanceSteps

LEMMA AtKept ==
  ASSUME TypeOK, TypeOK', Rooted, NEW c, WellFormed(c, leave), NEW k, NEW s, NEW H, Spares(H),
         c.op = "submit" /\ leave[c.leave] = NoLeave /\ leave'[c.leave] # NoLeave =>
           leave'[c.leave].employee = c.employee,
         At(c, k, s, H)
  PROVE  At(c, k, s, H)'
<1>1. CASE c.op = "add" /\ AddAt(c, s, H)
  BY <1>1, AddKept DEF At
<1>2. CASE c.op = "propose" /\ ProposeAt(c, s, H)
  BY <1>2, ProposeKept DEF At
<1>3. CASE c.op = "publish" /\ PublishAt(c, s, H)
  BY <1>3, PublishKept DEF At
<1>4. CASE c.op = "revise" /\ ReviseAt(c, s, H)
  BY <1>4, ReviseKept DEF At
<1>5. CASE c.op = "cover" /\ CoverAt(c, k, s, H)
  BY <1>5, CoverKept DEF At
<1>6. CASE c.op = "book" /\ BookAt(c, s, H)
  BY <1>6, BookKept DEF At
<1>7. CASE c.op = "submit" /\ SubmitAt(c, s, H)
  BY <1>7, SubmitKept DEF At
<1>8. CASE c.op = "approve" /\ ApproveAt(c, s, H)
  BY <1>8, ApproveKept DEF At
<1>9. CASE c.op = "cancel" /\ CancelAt(c, s, H)
  BY <1>9, CancelKept DEF At
<1>10. CASE c.op = "allow" /\ AllowAt(c, s, H)
  BY <1>10, AllowKept DEF At
<1> QED
  BY <1>1, <1>2, <1>3, <1>4, <1>5, <1>6, <1>7, <1>8, <1>9, <1>10 DEF At

-----------------------------------------------------------------------------
(* Lists of steps *)

LEMMA ListEnds ==
  ASSUME NEW a, NEW b, NEW d, NEW e, NEW f
  PROVE  /\ << a >> # <<>> /\ Head(<< a >>) = a /\ Tail(<< a >>) = <<>>
         /\ << a, b >> # <<>> /\ Head(<< a, b >>) = a /\ Tail(<< a, b >>) = << b >>
         /\ << a, b, d >> # <<>> /\ Head(<< a, b, d >>) = a /\ Tail(<< a, b, d >>) = << b, d >>
         /\ << a, b, d, e >> # <<>> /\ Head(<< a, b, d, e >>) = a
         /\ Tail(<< a, b, d, e >>) = << b, d, e >>
         /\ << a, b, d, e, f >> # <<>> /\ Head(<< a, b, d, e, f >>) = a
         /\ Tail(<< a, b, d, e, f >>) = << b, d, e, f >>
  OBVIOUS

LEMMA NothingBefore ==
  ASSUME NEW a, NEW b, NEW d, NEW e
  PROVE  /\ <<>> \o <<>> = <<>>
         /\ <<>> \o << a >> = << a >>
         /\ <<>> \o << a, b >> = << a, b >>
         /\ <<>> \o << a, b, d >> = << a, b, d >>
         /\ <<>> \o << a, b, d, e >> = << a, b, d, e >>
<1>1. /\ <<>> \in Seq({a, b, d, e}) /\ << a >> \in Seq({a, b, d, e})
      /\ << a, b >> \in Seq({a, b, d, e}) /\ << a, b, d >> \in Seq({a, b, d, e})
      /\ << a, b, d, e >> \in Seq({a, b, d, e})
  OBVIOUS
<1> QED
  BY <1>1, ConcatEmptySeq

LEMMA NothingAfter ==
  ASSUME NEW a, NEW b, NEW d, NEW e
  PROVE  /\ << a >> \o <<>> = << a >>
         /\ << a, b >> \o <<>> = << a, b >>
         /\ << a, b, d >> \o <<>> = << a, b, d >>
         /\ << a, b, d, e >> \o <<>> = << a, b, d, e >>
<1>1. /\ << a >> \in Seq({a, b, d, e}) /\ << a, b >> \in Seq({a, b, d, e})
      /\ << a, b, d >> \in Seq({a, b, d, e}) /\ << a, b, d, e >> \in Seq({a, b, d, e})
  OBVIOUS
<1> QED
  BY <1>1, ConcatEmptySeq

(* The first of a list of steps replaced by others. *)
LEMMA OneBeforeOne ==
  ASSUME NEW a, NEW b
  PROVE  << a >> \o << b >> = << a, b >>
<1> DEFINE s == << a >> \o << b >>
           r == << a, b >>
<1>1. << a >> \in Seq({a, b}) /\ << b >> \in Seq({a, b}) /\ r \in Seq({a, b}) /\ Len(r) = 2
  OBVIOUS
<1>2. s \in Seq({a, b}) /\ Len(s) = 2 /\ s[1] = r[1] /\ s[2] = r[2]
  BY <1>1, ConcatProperties
<1> HIDE DEF s, r
<1>3. \A i \in 1 .. 2 : i = 1 \/ i = 2
  OBVIOUS
<1>4. s = r
  BY <1>1, <1>2, <1>3, SeqEqual
<1> QED
  BY <1>4 DEF s, r

LEMMA OneBeforeTwo ==
  ASSUME NEW a, NEW b, NEW d
  PROVE  << a >> \o << b, d >> = << a, b, d >>
<1> DEFINE s == << a >> \o << b, d >>
           r == << a, b, d >>
<1>1. /\ << a >> \in Seq({a, b, d}) /\ << b, d >> \in Seq({a, b, d})
      /\ r \in Seq({a, b, d}) /\ Len(r) = 3
  OBVIOUS
<1>2. s \in Seq({a, b, d}) /\ Len(s) = 3 /\ s[1] = r[1] /\ s[2] = r[2] /\ s[3] = r[3]
  BY <1>1, ConcatProperties
<1> HIDE DEF s, r
<1>3. \A i \in 1 .. 3 : i = 1 \/ i = 2 \/ i = 3
  OBVIOUS
<1>4. s = r
  BY <1>1, <1>2, <1>3, SeqEqual
<1> QED
  BY <1>4 DEF s, r

LEMMA TwoBeforeOne ==
  ASSUME NEW a, NEW b, NEW d
  PROVE  << a, b >> \o << d >> = << a, b, d >>
<1> DEFINE s == << a, b >> \o << d >>
           r == << a, b, d >>
<1>1. /\ << a, b >> \in Seq({a, b, d}) /\ << d >> \in Seq({a, b, d})
      /\ r \in Seq({a, b, d}) /\ Len(r) = 3
  OBVIOUS
<1>2. s \in Seq({a, b, d}) /\ Len(s) = 3 /\ s[1] = r[1] /\ s[2] = r[2] /\ s[3] = r[3]
  BY <1>1, ConcatProperties
<1> HIDE DEF s, r
<1>3. \A i \in 1 .. 3 : i = 1 \/ i = 2 \/ i = 3
  OBVIOUS
<1>4. s = r
  BY <1>1, <1>2, <1>3, SeqEqual
<1> QED
  BY <1>4 DEF s, r

LEMMA ThreeBeforeOne ==
  ASSUME NEW a, NEW b, NEW d, NEW e
  PROVE  /\ << a, b, d >> \o << e >> = << a, b, d, e >>
         /\ << a >> \o << b, d, e >> = << a, b, d, e >>
<1> DEFINE s == << a, b, d >> \o << e >>
           u == << a >> \o << b, d, e >>
           r == << a, b, d, e >>
           S == {a, b, d, e}
<1>1. /\ << a >> \in Seq(S) /\ << b, d, e >> \in Seq(S)
      /\ << a, b, d >> \in Seq(S) /\ << e >> \in Seq(S) /\ r \in Seq(S) /\ Len(r) = 4
  OBVIOUS
<1>2. s \in Seq(S) /\ Len(s) = 4 /\ s[1] = r[1] /\ s[2] = r[2] /\ s[3] = r[3] /\ s[4] = r[4]
  BY <1>1, ConcatProperties
<1>3. u \in Seq(S) /\ Len(u) = 4 /\ u[1] = r[1] /\ u[2] = r[2] /\ u[3] = r[3] /\ u[4] = r[4]
  BY <1>1, ConcatProperties
<1> HIDE DEF s, u, r, S
<1>4. \A i \in 1 .. 4 : i = 1 \/ i = 2 \/ i = 3 \/ i = 4
  OBVIOUS
<1>5. s = r
  BY <1>1, <1>2, <1>4, SeqEqual
<1>6. u = r
  BY <1>1, <1>3, <1>4, SeqEqual
<1> QED
  BY <1>5, <1>6 DEF s, u, r

LEMMA OneBeforeThree ==
  ASSUME NEW a, NEW b, NEW d, NEW e
  PROVE  << a >> \o << b, d, e >> = << a, b, d, e >>
BY ThreeBeforeOne

-----------------------------------------------------------------------------
(* One step of a transaction that does not end it *)

Moves(t) == TakeLock(t) \/ Pass(t) \/ ChooseTarget(t) \/ Choose(t)

LEMMA TakeOneMoves ==
  ASSUME Tables, NEW t \in Txn, Moves(t), NEW a, NEW r,
         todo[t] # <<>>, Head(todo[t]) = Take({a}), Tail(todo[t]) = r, <<>> \o r = r
  PROVE  todo'[t] = r /\ held'[t] = held[t] \cup {a} /\ target'[t] = target[t]
<1>1. Head(todo[t]).do = "take" /\ Head(todo[t]).locks = {a}
  BY DEF Take
<1>2. TakeLock(t)
  BY <1>1 DEF Moves, Pass, ChooseTarget, Choose, AtStep
<1>3. PICK lock \in NextLock({a}) :
        /\ held' = [held EXCEPT ![t] = @ \cup {lock}]
        /\ todo' = [todo EXCEPT ![t] = TakeAll({a} \ {lock}) \o Tail(@)]
  BY <1>1, <1>2 DEF TakeLock
<1>4. lock = a /\ TakeAll({a} \ {lock}) = <<>>
  BY <1>3 DEF NextLock, TakeAll
<1>5. held'[t] = held[t] \cup {a}
  BY <1>3, <1>4 DEF Tables
<1>6. todo'[t] = <<>> \o Tail(todo[t])
  BY <1>3, <1>4 DEF Tables
<1>7. todo'[t] = r
  BY <1>6
<1>8. target'[t] = target[t]
  BY <1>2 DEF TakeLock
<1> QED
  BY <1>5, <1>7, <1>8

LEMMA CheckMoves ==
  ASSUME Tables, NEW t \in Txn, Moves(t), NEW name, NEW r,
         todo[t] # <<>>, Head(todo[t]) = Check(name), Tail(todo[t]) = r, <<>> \o r = r
  PROVE  Holds(t, name) /\ todo'[t] = r /\ held'[t] = held[t] /\ target'[t] = target[t]
<1>1. Head(todo[t]).do = "check" /\ Head(todo[t]).name = name
  BY DEF Check
<1>2. Pass(t)
  BY <1>1 DEF Moves, TakeLock, ChooseTarget, Choose, AtStep
<1>3. Holds(t, name)
  BY <1>1, <1>2 DEF Pass, Passes
<1>4. todo' = [todo EXCEPT ![t] = <<>> \o Tail(@)]
  BY <1>1, <1>2 DEF Pass, Following
<1>5. todo'[t] = r
  BY <1>4 DEF Tables
<1> QED
  BY <1>2, <1>3, <1>5 DEF Pass

LEMMA RowMoves ==
  ASSUME Tables, NEW t \in Txn, Moves(t), NEW k, NEW left, NEW r,
         todo[t] # <<>>, Head(todo[t]) = CheckRow(k, left), Tail(todo[t]) = r
  PROVE  /\ ValidRow(k)
         /\ \E steps \in RowSteps(left) : todo'[t] = steps \o r
         /\ held'[t] = held[t] /\ target'[t] = target[t]
<1>1. Head(todo[t]).do = "row" /\ Head(todo[t]).row = k /\ Head(todo[t]).rest = left
  BY DEF CheckRow
<1>2. Pass(t)
  BY <1>1 DEF Moves, TakeLock, ChooseTarget, Choose, AtStep
<1>3. ValidRow(k)
  BY <1>1, <1>2 DEF Pass, Passes
<1>4. PICK steps \in RowSteps(left) : todo' = [todo EXCEPT ![t] = steps \o Tail(@)]
  BY <1>1, <1>2 DEF Pass, Following
<1>5. todo'[t] = steps \o r
  BY <1>4 DEF Tables
<1> QED
  BY <1>2, <1>3, <1>5 DEF Pass

LEMMA DecideMoves ==
  ASSUME Tables, NEW t \in Txn, Moves(t), NEW name, name # "editable", NEW r,
         todo[t] # <<>>, Head(todo[t]) = Decide(name), Tail(todo[t]) = r
  PROVE  /\ \E steps \in Decided(t, name) : todo'[t] = steps \o r
         /\ held'[t] = held[t] /\ target'[t] = target[t]
<1>1. Head(todo[t]).do = "decide" /\ Head(todo[t]).name = name
  BY DEF Decide
<1>2. Choose(t)
  BY <1>1 DEF Moves, TakeLock, ChooseTarget, Pass, AtStep
<1>3. PICK steps \in Decided(t, name) : todo' = [todo EXCEPT ![t] = steps \o Tail(@)]
  BY <1>1, <1>2 DEF Choose
<1>4. todo'[t] = steps \o r
  BY <1>3 DEF Tables
<1> QED
  BY <1>2, <1>4 DEF Choose

LEMMA TargetMoves ==
  ASSUME Tables, NEW t \in Txn, Moves(t), NEW r,
         todo[t] # <<>>, Head(todo[t]) = Decide("editable"), Tail(todo[t]) = r
  PROVE  /\ target'[t] = Target(call[t].row)
         /\ todo'[t] = AnchorSteps(call[t].row, target'[t]) \o r
         /\ held'[t] = held[t]
<1>1. Head(todo[t]).do = "decide" /\ Head(todo[t]).name = "editable"
  BY DEF Decide
<1>2. ChooseTarget(t)
  BY <1>1 DEF Moves, TakeLock, Choose, Pass, AtStep
<1>3. target'[t] = Target(call[t].row)
  BY <1>2 DEF ChooseTarget, Tables
<1>4. todo' = [todo EXCEPT ![t] = AnchorSteps(call[t].row, Target(call[t].row)) \o Tail(@)]
  BY <1>2 DEF ChooseTarget
<1>5. todo'[t] = AnchorSteps(call[t].row, Target(call[t].row)) \o r
  BY <1>4 DEF Tables
<1> QED
  BY <1>2, <1>3, <1>5 DEF ChooseTarget

LEMMA DoneMovesNot ==
  ASSUME NEW t \in Txn, todo[t] = <<>>
  PROVE  ~Moves(t)
BY DEF Moves, TakeLock, Pass, ChooseTarget, Choose, AtStep
(* After its step t has the steps s to do and holds the locks H. *)
Moved(t, s, H) == todo'[t] = s /\ held'[t] = H /\ target'[t] = target[t]

LEMMA TakesOne ==
  ASSUME Tables, NEW t \in Txn, Moves(t), NEW a
  PROVE  /\ \A b : todo[t] = << Take({a}), b >> => Moved(t, << b >>, held[t] \cup {a})
         /\ \A b, d : todo[t] = << Take({a}), b, d >> => Moved(t, << b, d >>, held[t] \cup {a})
         /\ \A b, d, e : todo[t] = << Take({a}), b, d, e >> =>
              Moved(t, << b, d, e >>, held[t] \cup {a})
         /\ \A b, d, e, f : todo[t] = << Take({a}), b, d, e, f >> =>
              Moved(t, << b, d, e, f >>, held[t] \cup {a})
<1>1. ASSUME NEW r, todo[t] # <<>>, Head(todo[t]) = Take({a}), Tail(todo[t]) = r, <<>> \o r = r
      PROVE  Moved(t, r, held[t] \cup {a})
  BY <1>1, TakeOneMoves DEF Moved
<1>2. ASSUME NEW b, todo[t] = << Take({a}), b >>
      PROVE  Moved(t, << b >>, held[t] \cup {a})
  BY <1>1, <1>2, NothingBefore
<1>3. ASSUME NEW b, NEW d, todo[t] = << Take({a}), b, d >>
      PROVE  Moved(t, << b, d >>, held[t] \cup {a})
  BY <1>1, <1>3, NothingBefore
<1>4. ASSUME NEW b, NEW d, NEW e, todo[t] = << Take({a}), b, d, e >>
      PROVE  Moved(t, << b, d, e >>, held[t] \cup {a})
  BY <1>1, <1>4, NothingBefore
<1>5. ASSUME NEW b, NEW d, NEW e, NEW f, todo[t] = << Take({a}), b, d, e, f >>
      PROVE  Moved(t, << b, d, e, f >>, held[t] \cup {a})
  BY <1>1, <1>5, NothingBefore
<1> QED
  BY <1>2, <1>3, <1>4, <1>5

LEMMA Checks ==
  ASSUME Tables, NEW t \in Txn, Moves(t), NEW name
  PROVE  /\ todo[t] = << Check(name) >> => Holds(t, name) /\ Moved(t, <<>>, held[t])
         /\ \A b : todo[t] = << Check(name), b >> => Holds(t, name) /\ Moved(t, << b >>, held[t])
         /\ \A b, d : todo[t] = << Check(name), b, d >> =>
              Holds(t, name) /\ Moved(t, << b, d >>, held[t])
         /\ \A b, d, e : todo[t] = << Check(name), b, d, e >> =>
              Holds(t, name) /\ Moved(t, << b, d, e >>, held[t])
<1>1. ASSUME NEW r, todo[t] # <<>>, Head(todo[t]) = Check(name), Tail(todo[t]) = r, <<>> \o r = r
      PROVE  Holds(t, name) /\ Moved(t, r, held[t])
  BY <1>1, CheckMoves DEF Moved
<1>2. ASSUME todo[t] = << Check(name) >>
      PROVE  Holds(t, name) /\ Moved(t, <<>>, held[t])
  BY <1>1, <1>2, NothingBefore
<1>3. ASSUME NEW b, todo[t] = << Check(name), b >>
      PROVE  Holds(t, name) /\ Moved(t, << b >>, held[t])
  BY <1>1, <1>3, NothingBefore
<1>4. ASSUME NEW b, NEW d, todo[t] = << Check(name), b, d >>
      PROVE  Holds(t, name) /\ Moved(t, << b, d >>, held[t])
  BY <1>1, <1>4, NothingBefore
<1>5. ASSUME NEW b, NEW d, NEW e, todo[t] = << Check(name), b, d, e >>
      PROVE  Holds(t, name) /\ Moved(t, << b, d, e >>, held[t])
  BY <1>1, <1>5, NothingBefore
<1> QED
  BY <1>2, <1>3, <1>4, <1>5

LEMMA AddMoves ==
  ASSUME Tables, NEW t \in Txn, Moves(t), NEW c, c = call[t],
         AddAt(c, todo[t], held[t]), NEW s, s = todo'[t], NEW H, H = held'[t]
  PROVE  AddAt(c, s, H)
<1> DEFINE a == OverlapOf(c.work) b == LeaveOf(c.work) fits == Check("fits")
<1>1. CASE todo[t] = AddSteps(c) /\ held[t] = {}
  <2>1. Moved(t, << Check("draft"), Take({a}), Take({b}), fits >>, held[t] \cup {PeriodLock(c.period)})
    BY <1>1, TakesOne DEF AddSteps, OverlapOf, LeaveOf
  <2> QED
    BY <1>1, <2>1 DEF AddAt, Moved
<1>2. CASE todo[t] = << Check("draft"), Take({a}), Take({b}), fits >> /\ held[t] = {PeriodLock(c.period)}
  <2>1. Holds(t, "draft") /\ Moved(t, << Take({a}), Take({b}), fits >>, held[t])
    BY <1>2, Checks
  <2> QED
    BY <1>2, <2>1 DEF AddAt, Holds, Moved
<1>3. CASE /\ period[c.period].status = "DRAFT" /\ held[t] = {PeriodLock(c.period)}
           /\ todo[t] = << Take({a}), Take({b}), fits >>
  <2>1. Moved(t, << Take({b}), fits >>, held[t] \cup {a})
    BY <1>3, TakesOne
  <2> QED
    BY <1>3, <2>1 DEF AddAt, Moved
<1>4. CASE /\ period[c.period].status = "DRAFT" /\ held[t] = {PeriodLock(c.period), a}
           /\ todo[t] = << Take({b}), fits >>
  <2>1. Moved(t, << fits >>, held[t] \cup {b})
    BY <1>4, TakesOne
  <2> QED
    BY <1>4, <2>1 DEF AddAt, Moved
<1>5. CASE /\ period[c.period].status = "DRAFT" /\ held[t] = {PeriodLock(c.period), a, b}
           /\ todo[t] = << fits >>
  <2>1. Holds(t, "fits") /\ Moved(t, <<>>, held[t])
    BY <1>5, Checks
  <2> QED
    BY <1>5, <2>1 DEF AddAt, Holds, Fitting, Moved
<1> QED
  BY <1>1, <1>2, <1>3, <1>4, <1>5, DoneMovesNot DEF AddAt
LEMMA Decides ==
  ASSUME Tables, NEW t \in Txn, Moves(t), NEW name, name # "editable"
  PROVE  /\ todo[t] = << Decide(name) >> =>
              \E steps \in Decided(t, name) : Moved(t, steps \o <<>>, held[t])
         /\ \A b : todo[t] = << Decide(name), b >> =>
              \E steps \in Decided(t, name) : Moved(t, steps \o << b >>, held[t])
<1>1. ASSUME NEW r, todo[t] # <<>>, Head(todo[t]) = Decide(name), Tail(todo[t]) = r
      PROVE  \E steps \in Decided(t, name) : Moved(t, steps \o r, held[t])
  BY <1>1, DecideMoves DEF Moved
<1>2. ASSUME todo[t] = << Decide(name) >>
      PROVE  \E steps \in Decided(t, name) : Moved(t, steps \o <<>>, held[t])
  <2>1. todo[t] # <<>> /\ Head(todo[t]) = Decide(name) /\ Tail(todo[t]) = <<>>
    BY <1>2
  <2> QED
    BY <1>1, <2>1
<1>3. ASSUME NEW b, todo[t] = << Decide(name), b >>
      PROVE  \E steps \in Decided(t, name) : Moved(t, steps \o << b >>, held[t])
  BY <1>1, <1>3
<1> QED
  BY <1>2, <1>3

LEMMA ReviseMoves ==
  ASSUME Tables, NEW t \in Txn, Moves(t), NEW c, c = call[t],
         ReviseAt(c, todo[t], held[t]), NEW s, s = todo'[t], NEW H, H = held'[t]
  PROVE  ReviseAt(c, s, H)
<1> DEFINE a == PlanLock(c.period[1]) revisable == Check("revisable")
<1>1. CASE todo[t] = ReviseSteps(c) /\ held[t] = {}
  <2>1. Moved(t, << Check("current"), Take({a}), revisable >>, held[t] \cup {PeriodLock(c.period)})
    BY <1>1, TakesOne DEF ReviseSteps
  <2> QED
    BY <1>1, <2>1 DEF ReviseAt, Moved
<1>2. CASE todo[t] = << Check("current"), Take({a}), revisable >> /\ held[t] = {PeriodLock(c.period)}
  <2>1. Moved(t, << Take({a}), revisable >>, held[t])
    BY <1>2, Checks
  <2> QED
    BY <1>2, <2>1 DEF ReviseAt, Moved
<1>3. CASE todo[t] = << Take({a}), revisable >> /\ held[t] = {PeriodLock(c.period)}
  <2>1. Moved(t, << revisable >>, held[t] \cup {a})
    BY <1>3, TakesOne
  <2> QED
    BY <1>3, <2>1 DEF ReviseAt, Moved
<1>4. CASE todo[t] = << revisable >> /\ held[t] = {PeriodLock(c.period), a}
  <2>1. Holds(t, "revisable") /\ Moved(t, <<>>, held[t])
    BY <1>4, Checks
  <2> QED
    BY <1>4, <2>1 DEF ReviseAt, Holds, MayOpen, Moved
<1> QED
  BY <1>1, <1>2, <1>3, <1>4, DoneMovesNot DEF ReviseAt

LEMMA SubmitMoves ==
  ASSUME Tables, NEW t \in Txn, Moves(t), NEW c, c = call[t],
         SubmitAt(c, todo[t], held[t]), NEW s, s = todo'[t], NEW H, H = held'[t]
  PROVE  SubmitAt(c, s, H)
<1>1. CASE todo[t] = SubmitSteps(c) /\ held[t] = {}
  <2>1. Moved(t, << Check("free") >>, held[t] \cup {LeaveLock(c.employee)})
    BY <1>1, TakesOne DEF SubmitSteps
  <2> QED
    BY <1>1, <2>1 DEF SubmitAt, Moved
<1>2. CASE todo[t] = << Check("free") >> /\ held[t] = {LeaveLock(c.employee)}
  <2>1. Holds(t, "free") /\ Moved(t, <<>>, held[t])
    BY <1>2, Checks
  <2> QED
    BY <1>2, <2>1 DEF SubmitAt, Holds, FreeOf, Moved
<1> QED
  BY <1>1, <1>2, DoneMovesNot DEF SubmitAt

LEMMA ApproveMoves ==
  ASSUME Tables, NEW t \in Txn, Moves(t), NEW c, c = call[t],
         ApproveAt(c, todo[t], held[t]), NEW s, s = todo'[t], NEW H, H = held'[t]
  PROVE  ApproveAt(c, s, H)
<1> DEFINE a == LeaveOf(leave[c.leave]) b == RequestLock(c.leave) approvable == Check("approvable")
<1>1. CASE todo[t] = ApproveLeaveSteps(c) /\ held[t] = {}
  <2>1. Moved(t, << Take({a}), Take({b}), approvable >>, held[t] \cup {AllowanceLock})
    BY <1>1, TakesOne DEF ApproveLeaveSteps, LeaveOf
  <2> QED
    BY <1>1, <2>1 DEF ApproveAt, Moved
<1>2. CASE todo[t] = << Take({a}), Take({b}), approvable >> /\ held[t] = {AllowanceLock}
  <2>1. Moved(t, << Take({b}), approvable >>, held[t] \cup {a})
    BY <1>2, TakesOne
  <2> QED
    BY <1>2, <2>1 DEF ApproveAt, Moved
<1>3. CASE todo[t] = << Take({b}), approvable >> /\ held[t] = {AllowanceLock, a}
  <2>1. Moved(t, << approvable >>, held[t] \cup {b})
    BY <1>3, TakesOne
  <2> QED
    BY <1>3, <2>1 DEF ApproveAt, Moved
<1>4. CASE todo[t] = << approvable >> /\ held[t] = {AllowanceLock, a, b}
  <2>1. Holds(t, "approvable") /\ Moved(t, <<>>, held[t])
    BY <1>4, Checks
  <2> QED
    BY <1>4, <2>1 DEF ApproveAt, Holds, Approvable, Moved
<1> QED
  BY <1>1, <1>2, <1>3, <1>4, DoneMovesNot DEF ApproveAt

LEMMA CancelMoves ==
  ASSUME Tables, NEW t \in Txn, Moves(t), NEW c, c = call[t],
         CancelAt(c, todo[t], held[t]), NEW s, s = todo'[t], NEW H, H = held'[t]
  PROVE  CancelAt(c, s, H)
<1> DEFINE a == LeaveOf(leave[c.leave]) b == RequestLock(c.leave) pending == Check("pending")
<1>1. CASE todo[t] = CancelLeaveSteps(c) /\ held[t] = {}
  <2>1. Moved(t, << Take({b}), pending >>, held[t] \cup {a})
    BY <1>1, TakesOne DEF CancelLeaveSteps, LeaveOf
  <2> QED
    BY <1>1, <2>1 DEF CancelAt, Moved
<1>2. CASE todo[t] = << Take({b}), pending >> /\ held[t] = {a}
  <2>1. Moved(t, << pending >>, held[t] \cup {b})
    BY <1>2, TakesOne
  <2> QED
    BY <1>2, <2>1 DEF CancelAt, Moved
<1>3. CASE todo[t] = << pending >> /\ held[t] = {a, b}
  <2>1. Holds(t, "pending") /\ Moved(t, <<>>, held[t])
    BY <1>3, Checks
  <2> QED
    BY <1>3, <2>1 DEF CancelAt, Holds, Moved
<1> QED
  BY <1>1, <1>2, <1>3, DoneMovesNot DEF CancelAt

LEMMA AllowMoves ==
  ASSUME Tables, NEW t \in Txn, Moves(t), NEW c, c = call[t],
         AllowAt(c, todo[t], held[t]), NEW s, s = todo'[t], NEW H, H = held'[t]
  PROVE  AllowAt(c, s, H)
<1>1. CASE todo[t] = AllowanceSteps(c) /\ held[t] = {}
  <2>1. Moved(t, << Check("reducible") >>, held[t] \cup {AllowanceLock})
    BY <1>1, TakesOne DEF AllowanceSteps
  <2> QED
    BY <1>1, <2>1 DEF AllowAt, Moved
<1>2. CASE todo[t] = << Check("reducible") >> /\ held[t] = {AllowanceLock}
  <2>1. Holds(t, "reducible") /\ Moved(t, <<>>, held[t])
    BY <1>2, Checks
  <2> QED
    BY <1>2, <2>1 DEF AllowAt, Holds, Reducible, Moved
<1> QED
  BY <1>1, <1>2, DoneMovesNot DEF AllowAt
(* A set of locks is taken in order, one at a time. *)
LEMMA TakesNext ==
  ASSUME Tables, NEW t \in Txn, Moves(t), NEW K, NEW r,
         todo[t] # <<>>, Head(todo[t]) = Take(K), Tail(todo[t]) = r, <<>> \o r = r
  PROVE  \E lock \in K :
           /\ \A a \in K \ {lock} : Before(lock, a)
           /\ \/ K = {lock} /\ Moved(t, r, held[t] \cup {lock})
              \/ K # {lock} /\ Moved(t, << Take(K \ {lock}) >> \o r, held[t] \cup {lock})
<1>1. Head(todo[t]).do = "take" /\ Head(todo[t]).locks = K
  BY DEF Take
<1>2. TakeLock(t)
  BY <1>1 DEF Moves, Pass, ChooseTarget, Choose, AtStep
<1>3. PICK lock \in NextLock(K) :
        /\ held' = [held EXCEPT ![t] = @ \cup {lock}]
        /\ todo' = [todo EXCEPT ![t] = TakeAll(K \ {lock}) \o Tail(@)]
  BY <1>1, <1>2 DEF TakeLock
<1>4. held'[t] = held[t] \cup {lock} /\ todo'[t] = TakeAll(K \ {lock}) \o r
  BY <1>3 DEF Tables
<1>5. target'[t] = target[t] /\ lock \in K /\ \A a \in K \ {lock} : Before(lock, a)
  BY <1>2, <1>3 DEF TakeLock, NextLock
<1>6. CASE K = {lock}
  <2>1. TakeAll(K \ {lock}) = <<>>
    BY <1>6 DEF TakeAll
  <2> QED
    BY <1>4, <1>5, <1>6, <2>1 DEF Moved
<1>7. CASE K # {lock}
  <2>1. TakeAll(K \ {lock}) = << Take(K \ {lock}) >>
    BY <1>5, <1>7 DEF TakeAll
  <2> QED
    BY <1>4, <1>5, <1>7, <2>1 DEF Moved
<1> QED
  BY <1>6, <1>7

(* lock is the first of the locks K; if it is also the last, the steps in    *)
(* last are left to do, else those in more.                                *)
Took(t, K, lock, last, more) ==
  /\ lock \in K
  /\ \A a \in K \ {lock} : Before(lock, a)
  /\ \/ K = {lock} /\ Moved(t, last, held[t] \cup {lock})
     \/ K # {lock} /\ Moved(t, more, held[t] \cup {lock})

LEMMA TakesAlone ==
  ASSUME Tables, NEW t \in Txn, Moves(t), NEW K, todo[t] = << Take(K) >>
  PROVE  \E lock : Took(t, K, lock, <<>>, << Take(K \ {lock}) >>)
<1>1. PICK r : r = <<>>
  OBVIOUS
<1>2. todo[t] # <<>> /\ Head(todo[t]) = Take(K) /\ Tail(todo[t]) = r
  BY <1>1
<1>3. <<>> \o r = r /\ \A a : << a >> \o r = << a >>
  BY <1>1, NothingBefore, NothingAfter
<1>4. PICK lock \in K :
        /\ \A a \in K \ {lock} : Before(lock, a)
        /\ \/ K = {lock} /\ Moved(t, r, held[t] \cup {lock})
           \/ K # {lock} /\ Moved(t, << Take(K \ {lock}) >> \o r, held[t] \cup {lock})
  BY <1>2, <1>3, TakesNext
<1> QED
  BY <1>1, <1>3, <1>4 DEF Took

LEMMA TakesBeforeOne ==
  ASSUME Tables, NEW t \in Txn, Moves(t), NEW K, NEW b, todo[t] = << Take(K), b >>
  PROVE  \E lock : Took(t, K, lock, << b >>, << Take(K \ {lock}), b >>)
<1>1. PICK r : r = << b >>
  OBVIOUS
<1>2. todo[t] # <<>> /\ Head(todo[t]) = Take(K) /\ Tail(todo[t]) = r
  BY <1>1
<1>3. <<>> \o r = r /\ \A a : << a >> \o r = << a, b >>
  BY <1>1, NothingBefore, OneBeforeOne
<1>4. PICK lock \in K :
        /\ \A a \in K \ {lock} : Before(lock, a)
        /\ \/ K = {lock} /\ Moved(t, r, held[t] \cup {lock})
           \/ K # {lock} /\ Moved(t, << Take(K \ {lock}) >> \o r, held[t] \cup {lock})
  BY <1>2, <1>3, TakesNext
<1> QED
  BY <1>1, <1>3, <1>4 DEF Took

LEMMA TakesBeforeTwo ==
  ASSUME Tables, NEW t \in Txn, Moves(t), NEW K, NEW b, NEW d, todo[t] = << Take(K), b, d >>
  PROVE  \E lock : Took(t, K, lock, << b, d >>, << Take(K \ {lock}), b, d >>)
<1>1. PICK r : r = << b, d >>
  OBVIOUS
<1>2. todo[t] # <<>> /\ Head(todo[t]) = Take(K) /\ Tail(todo[t]) = r
  BY <1>1
<1>3. <<>> \o r = r /\ \A a : << a >> \o r = << a, b, d >>
  BY <1>1, NothingBefore, OneBeforeTwo
<1>4. PICK lock \in K :
        /\ \A a \in K \ {lock} : Before(lock, a)
        /\ \/ K = {lock} /\ Moved(t, r, held[t] \cup {lock})
           \/ K # {lock} /\ Moved(t, << Take(K \ {lock}) >> \o r, held[t] \cup {lock})
  BY <1>2, <1>3, TakesNext
<1> QED
  BY <1>1, <1>3, <1>4 DEF Took

LEMMA TakesBeforeThree ==
  ASSUME Tables, NEW t \in Txn, Moves(t), NEW K, NEW b, NEW d, NEW e, todo[t] = << Take(K), b, d, e >>
  PROVE  \E lock : Took(t, K, lock, << b, d, e >>, << Take(K \ {lock}), b, d, e >>)
<1>1. PICK r : r = << b, d, e >>
  OBVIOUS
<1>2. todo[t] # <<>> /\ Head(todo[t]) = Take(K) /\ Tail(todo[t]) = r
  BY <1>1
<1>3. <<>> \o r = r /\ \A a : << a >> \o r = << a, b, d, e >>
  BY <1>1, NothingBefore, OneBeforeThree
<1>4. PICK lock \in K :
        /\ \A a \in K \ {lock} : Before(lock, a)
        /\ \/ K = {lock} /\ Moved(t, r, held[t] \cup {lock})
           \/ K # {lock} /\ Moved(t, << Take(K \ {lock}) >> \o r, held[t] \cup {lock})
  BY <1>2, <1>3, TakesNext
<1> QED
  BY <1>1, <1>3, <1>4 DEF Took

LEMMA BookMoves ==
  ASSUME Tables, NEW t \in Txn, Moves(t), NEW c, c = call[t], c.team # {},
         BookAt(c, todo[t], held[t]),
         NEW s, s = todo'[t], NEW H, H = held'[t]
  PROVE  BookAt(c, s, H)
<1>1. PICK A : A = OverlapLocks(c.team, BookedDays(c))
  OBVIOUS
<1>2. PICK B : B = LeaveLocks(c.team) /\ B # {}
  <2>1. PICK e : e \in c.team
    OBVIOUS
  <2>2. LeaveLock(e) \in LeaveLocks(c.team)
    BY <2>1 DEF LeaveLocks
  <2> QED
    BY <2>2
<1>3. PICK d : d = Check("bookable")
  OBVIOUS
<1>4. PICK b : b = Take(B)
  OBVIOUS
<1>5. ASSUME NEW K \in SUBSET A, todo[t] = << Take(K), Take(B), Check("bookable") >>,
             held[t] = A \ K, Passed(held[t], K)
      PROVE  BookAt(c, s, H)
  <2>1. todo[t] = << Take(K), b, d >>
    BY <1>3, <1>4, <1>5
  <2>2. PICK lock : Took(t, K, lock, << b, d >>, << Take(K \ {lock}), b, d >>)
    BY <2>1, TakesBeforeTwo
  <2>3. CASE K = {lock}
    <3>1. H = A \cup (B \ B) /\ Passed(B \ B, B)
      BY <1>5, <2>2, <2>3 DEF Took, Moved, Passed
    <3>2. s = << Take(B), Check("bookable") >>
      BY <1>3, <1>4, <2>2, <2>3 DEF Took, Moved
    <3> QED
      BY <1>1, <1>2, <3>1, <3>2 DEF BookAt, Took
  <2>4. CASE K # {lock}
    <3>1. H = A \ (K \ {lock}) /\ Passed(H, K \ {lock})
      BY <1>5, <2>2, <2>4 DEF Took, Moved, Passed
    <3>2. s = << Take(K \ {lock}), Take(B), Check("bookable") >>
      BY <1>3, <1>4, <2>2, <2>4 DEF Took, Moved
    <3> QED
      BY <1>1, <1>2, <2>2, <2>4, <3>1, <3>2 DEF BookAt, Took
  <2> QED
    BY <2>3, <2>4
<1>6. ASSUME NEW K \in SUBSET B, todo[t] = << Take(K), Check("bookable") >>,
             held[t] = A \cup (B \ K), Passed(B \ K, K)
      PROVE  BookAt(c, s, H)
  <2>1. todo[t] = << Take(K), d >>
    BY <1>3, <1>6
  <2>2. PICK lock : Took(t, K, lock, << d >>, << Take(K \ {lock}), d >>)
    BY <2>1, TakesBeforeOne
  <2>3. CASE K = {lock}
    <3>1. H = A \cup B /\ s = << Check("bookable") >>
      BY <1>3, <1>6, <2>2, <2>3 DEF Took, Moved
    <3> QED
      BY <1>1, <1>2, <3>1 DEF BookAt
  <2>4. CASE K # {lock}
    <3>1. H = A \cup (B \ (K \ {lock})) /\ Passed(B \ (K \ {lock}), K \ {lock})
      BY <1>6, <2>2, <2>4 DEF Took, Moved, Passed
    <3>2. s = << Take(K \ {lock}), Check("bookable") >>
      BY <1>3, <1>4, <2>2, <2>4 DEF Took, Moved
    <3> QED
      BY <1>1, <1>2, <2>2, <2>4, <3>1, <3>2 DEF BookAt, Took
  <2> QED
    BY <2>3, <2>4
<1>7. CASE held[t] = A \cup B /\ todo[t] = << Check("bookable") >>
  <2>1. Holds(t, "bookable") /\ Moved(t, <<>>, held[t])
    BY <1>7, Checks
  <2> QED
    BY <1>1, <1>2, <1>7, <2>1 DEF BookAt, Holds, Moved
<1> QED
  BY <1>1, <1>2, <1>5, <1>6, <1>7, DoneMovesNot DEF BookAt
LEMMA TargetIsRow ==
  ASSUME NEW k \in RowId
  PROVE  Target(k) \in RowId
<1>1. k[1] \in PeriodId /\ k[1][1] \in Plan /\ k[2] \in Line
  BY RowKeys, PeriodKeys DEF RowId
<1>2. CASE period[k[1]].status = "PUBLISHED" /\ EditableOf(k[1][1]) # {}
  <2>1. PICK id : id = CHOOSE x \in EditableOf(k[1][1]) : TRUE
    OBVIOUS
  <2>2. id \in EditableOf(k[1][1])
    BY <1>2, <2>1
  <2>3. id \in PeriodId
    <3>1. PICK r \in Revision : id = <<k[1][1], r>>
      BY <2>2 DEF EditableOf
    <3> QED
      BY <1>1, <3>1 DEF PeriodId
  <2>4. Target(k) = <<id, k[2]>>
    BY <1>2, <2>1 DEF Target
  <2> QED
    BY <1>1, <2>3, <2>4 DEF RowId
<1>3. CASE ~(period[k[1]].status = "PUBLISHED" /\ EditableOf(k[1][1]) # {})
  BY <1>3 DEF Target
<1> QED
  BY <1>2, <1>3

LEMMA Staffing ==
  ASSUME NEW c, NEW k \in RowId, NEW H, NEW B \in SUBSET H, Based(k, B),
         NEW w, w = For(c.employee, row[k].work)
  PROVE  /\ H = B => /\ CoverAt(c, k, << Decide("staff") >>, H)
                     /\ CoverAt(c, k, << Take({OverlapOf(w)}), Take({LeaveOf(w)}), Check("available") >>, H)
         /\ H = B \cup {OverlapOf(w)} => CoverAt(c, k, << Take({LeaveOf(w)}), Check("available") >>, H)
         /\ H = B \cup {OverlapOf(w), LeaveOf(w)} => CoverAt(c, k, << Check("available") >>, H)
<1>1. ASSUME H = B
      PROVE  /\ CoverAt(c, k, << Decide("staff") >>, H)
             /\ CoverAt(c, k, << Take({OverlapOf(w)}), Take({LeaveOf(w)}), Check("available") >>, H)
  BY <1>1 DEF CoverAt
<1>2. ASSUME H = B \cup {OverlapOf(w)}
      PROVE  CoverAt(c, k, << Take({LeaveOf(w)}), Check("available") >>, H)
  BY <1>2 DEF CoverAt
<1>3. ASSUME H = B \cup {OverlapOf(w), LeaveOf(w)}
      PROVE  CoverAt(c, k, << Check("available") >>, H)
  BY <1>3 DEF CoverAt
<1> QED
  BY <1>1, <1>2, <1>3

LEMMA ReadyToStaff ==
  ASSUME NEW c, NEW k \in RowId, NEW H, NEW B \in SUBSET H, Based(k, B),
         NEW w, w = For(c.employee, row[k].work), H = B \cup {OverlapOf(w), LeaveOf(w)},
         Available(k, c.employee, IF Editable(k[1]) THEN {k} ELSE {})
  PROVE  CoverAt(c, k, <<>>, H)
BY DEF CoverAt

LEMMA CoverMoves ==
  ASSUME TypeOK, Rooted, Tables, NEW t \in Txn, Moves(t), NEW c, c = call[t],
         c.row \in RowId, NEW k, k = target[t], CoverAt(c, k, todo[t], held[t]),
         NEW s, s = todo'[t], NEW H, H = held'[t], NEW k2, k2 = target'[t]
  PROVE  CoverAt(c, k2, s, H)
<1> DEFINE a == PeriodLock(k[1]) b == PlanLock(k[1][1]) staff == Decide("staff")
<1>1. CASE todo[t] = CoverSteps(c) /\ held[t] = {}
  <2>1. todo[t] # <<>> /\ Head(todo[t]) = Decide("editable") /\ Tail(todo[t]) = <<>>
    BY <1>1 DEF CoverSteps
  <2>2. k2 = Target(c.row) /\ s = AnchorSteps(c.row, k2) \o <<>> /\ H = {}
    BY <1>1, <2>1, TargetMoves
  <2>3. k2 \in RowId
    BY <2>2, TargetIsRow
  <2>4. CASE k2 # c.row
    <3>1. AnchorSteps(c.row, k2) = << Take({PeriodLock(k2[1])}), Check("copied"), Decide("staff") >>
      BY <2>4 DEF AnchorSteps
    <3>2. s = << Take({PeriodLock(k2[1])}), Check("copied"), Decide("staff") >>
      BY <2>2, <3>1, NothingAfter
    <3> QED
      BY <2>2, <2>3, <3>2 DEF CoverAt
  <2>5. CASE k2 = c.row
    <3>1. AnchorSteps(c.row, k2)
            = << Take({PeriodLock(k2[1])}), Check("anchored"), Decide("plan"), Decide("staff") >>
      BY <2>5 DEF AnchorSteps
    <3>2. s = << Take({PeriodLock(k2[1])}), Check("anchored"), Decide("plan"), Decide("staff") >>
      BY <2>2, <3>1, NothingAfter
    <3> QED
      BY <2>2, <2>3, <3>2 DEF CoverAt
  <2> QED
    BY <2>4, <2>5
<1>2. CASE k \in RowId /\ todo[t] = << Take({a}), Check("copied"), staff >> /\ held[t] = {}
  <2>1. Moved(t, << Check("copied"), staff >>, held[t] \cup {a})
    BY <1>2, TakesOne
  <2> QED
    BY <1>2, <2>1 DEF CoverAt, Moved
<1>3. CASE k \in RowId /\ todo[t] = << Check("copied"), staff >> /\ held[t] = {a}
  <2>1. Holds(t, "copied") /\ Moved(t, << staff >>, held[t])
    BY <1>3, Checks
  <2>2. Based(k, {a})
    BY <2>1 DEF Holds, Based
  <2>3. s = << staff >> /\ H = {a} /\ k2 = k
    BY <1>3, <2>1 DEF Moved
  <2> QED
    BY <1>3, <2>2, <2>3 DEF CoverAt
<1>4. CASE /\ k \in RowId /\ held[t] = {}
           /\ todo[t] = << Take({a}), Check("anchored"), Decide("plan"), staff >>
  <2>1. Moved(t, << Check("anchored"), Decide("plan"), staff >>, held[t] \cup {a})
    BY <1>4, TakesOne
  <2> QED
    BY <1>4, <2>1 DEF CoverAt, Moved
<1>5. CASE /\ k \in RowId /\ held[t] = {a}
           /\ todo[t] = << Check("anchored"), Decide("plan"), staff >>
  <2>1. Holds(t, "anchored") /\ Moved(t, << Decide("plan"), staff >>, held[t])
    BY <1>5, Checks
  <2> QED
    BY <1>5, <2>1 DEF CoverAt, Moved, Holds
<1>6. CASE /\ k \in RowId /\ held[t] = {a} /\ Live(k)
           /\ todo[t] = << Decide("plan"), staff >>
  <2>1. Decided(t, "plan") = {LockPlan(k)}
    BY DEF Decided
  <2>2. Moved(t, LockPlan(k) \o << staff >>, held[t])
    BY <1>6, <2>1, Decides
  <2>3. CASE period[k[1]].status = "PUBLISHED"
    <3>1. LockPlan(k) = << Take({b}), Check("uncopied") >>
      BY <2>3 DEF LockPlan
    <3>2. s = << Take({b}), Check("uncopied"), staff >> /\ H = {a} /\ k2 = k
      BY <1>6, <2>2, <3>1, TwoBeforeOne DEF Moved
    <3> QED
      BY <1>6, <3>2 DEF CoverAt
  <2>4. CASE period[k[1]].status # "PUBLISHED"
    <3>1. LockPlan(k) = <<>>
      BY <2>4 DEF LockPlan
    <3>2. s = << staff >> /\ H = {a} /\ k2 = k
      BY <1>6, <2>2, <3>1, NothingBefore DEF Moved
    <3>3. k[1] \in PeriodId /\ Present(k[1])
      BY <1>6, RowKeys DEF Rooted, Live, NoRow
    <3>4. Editable(k[1])
      BY <2>4, <3>3 DEF Editable, Present, TypeOK, PeriodRec, PeriodStatus
    <3>5. Based(k, {a})
      BY <1>6, <3>4 DEF Based
    <3> QED
      BY <1>6, <3>2, <3>5 DEF CoverAt
  <2> QED
    BY <2>3, <2>4
<1>7. CASE /\ k \in RowId /\ held[t] = {a} /\ Live(k)
           /\ todo[t] = << Take({b}), Check("uncopied"), staff >>
  <2>1. Moved(t, << Check("uncopied"), staff >>, held[t] \cup {b})
    BY <1>7, TakesOne
  <2> QED
    BY <1>7, <2>1 DEF CoverAt, Moved
<1>8. CASE /\ k \in RowId /\ held[t] = {a, b} /\ Live(k)
           /\ todo[t] = << Check("uncopied"), staff >>
  <2>1. Holds(t, "uncopied") /\ Moved(t, << staff >>, held[t])
    BY <1>8, Checks
  <2>2. Based(k, {a, b})
    BY <1>8, <2>1 DEF Holds, Based, MayOpen
  <2>3. s = << staff >> /\ H = {a, b} /\ k2 = k
    BY <1>8, <2>1 DEF Moved
  <2>4. CoverAt(c, k, << staff >>, H)
    BY <1>8, <2>2, <2>3, Staffing
  <2> QED
    BY <2>3, <2>4
<1>9. ASSUME k \in RowId, NEW B \in SUBSET held[t], Based(k, B),
             NEW w, w = For(c.employee, row[k].work),
             \/ todo[t] = << staff >> /\ held[t] = B
             \/ todo[t] = << Take({OverlapOf(w)}), Take({LeaveOf(w)}), Check("available") >> /\ held[t] = B
             \/ todo[t] = << Take({LeaveOf(w)}), Check("available") >> /\ held[t] = B \cup {OverlapOf(w)}
             \/ todo[t] = << Check("available") >> /\ held[t] = B \cup {OverlapOf(w), LeaveOf(w)}
      PROVE  CoverAt(c, k2, s, H)
  <2>1. CASE todo[t] = << staff >> /\ held[t] = B
    <3>1. Decided(t, "staff") = {Staff(k, c.employee)}
      BY DEF Decided
    <3>2. Moved(t, Staff(k, c.employee) \o <<>>, held[t])
      BY <2>1, <3>1, Decides
    <3>3. Staff(k, c.employee)
            = << Take({OverlapOf(w)}), Take({LeaveOf(w)}), Check("available") >>
      BY <1>9 DEF Staff, OverlapOf, LeaveOf, For
    <3>4. s = << Take({OverlapOf(w)}), Take({LeaveOf(w)}), Check("available") >> /\ H = B /\ k2 = k
      BY <2>1, <3>2, <3>3, NothingAfter DEF Moved
    <3>5. CoverAt(c, k, << Take({OverlapOf(w)}), Take({LeaveOf(w)}), Check("available") >>, H)
      BY <1>9, <3>4, Staffing
    <3> QED
      BY <3>4, <3>5
  <2>2. CASE /\ todo[t] = << Take({OverlapOf(w)}), Take({LeaveOf(w)}), Check("available") >>
             /\ held[t] = B
    <3>1. Moved(t, << Take({LeaveOf(w)}), Check("available") >>, held[t] \cup {OverlapOf(w)})
      BY <2>2, TakesOne
    <3>2. /\ s = << Take({LeaveOf(w)}), Check("available") >> /\ k2 = k
          /\ H = B \cup {OverlapOf(w)} /\ B \in SUBSET H
      BY <2>2, <3>1 DEF Moved
    <3>3. CoverAt(c, k, << Take({LeaveOf(w)}), Check("available") >>, H)
      BY <1>9, <3>2, Staffing
    <3> QED
      BY <3>2, <3>3
  <2>3. CASE /\ todo[t] = << Take({LeaveOf(w)}), Check("available") >>
             /\ held[t] = B \cup {OverlapOf(w)}
    <3>1. Moved(t, << Check("available") >>, held[t] \cup {LeaveOf(w)})
      BY <2>3, TakesOne
    <3>2. /\ s = << Check("available") >> /\ k2 = k
          /\ H = B \cup {OverlapOf(w), LeaveOf(w)} /\ B \in SUBSET H
      BY <2>3, <3>1 DEF Moved
    <3>3. CoverAt(c, k, << Check("available") >>, H)
      BY <1>9, <3>2, Staffing
    <3> QED
      BY <3>2, <3>3
  <2>4. CASE todo[t] = << Check("available") >> /\ held[t] = B \cup {OverlapOf(w), LeaveOf(w)}
    <3>1. Holds(t, "available") /\ Moved(t, <<>>, held[t])
      BY <2>4, Checks
    <3>2. /\ s = <<>> /\ k2 = k
          /\ H = B \cup {OverlapOf(w), LeaveOf(w)} /\ B \in SUBSET H
      BY <2>4, <3>1 DEF Moved
    <3>3. Available(k, c.employee, IF Editable(k[1]) THEN {k} ELSE {})
      BY <3>1 DEF Holds
    <3>4. CoverAt(c, k, <<>>, H)
      BY <1>9, <3>2, <3>3, ReadyToStaff
    <3> QED
      BY <3>2, <3>4
  <2> QED
    BY <1>9, <2>1, <2>2, <2>3, <2>4
<1> QED
  BY <1>1, <1>2, <1>3, <1>4, <1>5, <1>6, <1>7, <1>8, <1>9, DoneMovesNot DEF CoverAt
LEMMA RowStepsOf ==
  ASSUME NEW rows, NEW steps \in RowSteps(rows)
  PROVE  \/ rows = {} /\ steps = <<>>
         \/ \E k \in rows :
              steps = << Take({LeaveOf(row[k].work)}), CheckRow(k, rows \ {k}) >>
BY DEF RowSteps, LeaveOf

LEMMA RestAfter ==
  ASSUME NEW op \in {"propose", "publish"}, NEW a, NEW b, NEW d
  PROVE  /\ <<>> \o Rest(op) = Rest(op)
         /\ << a >> \o Rest(op) = Rest1(op, a)
         /\ << a, b >> \o Rest(op) = Rest2(op, a, b)
         /\ << a >> \o Rest2(op, b, d) = Rest3(op, a, b, d)
<1>1. CASE op = "propose"
  <2>1. /\ <<>> \o <<>> = <<>> /\ << a >> \o <<>> = << a >>
        /\ << a, b >> \o <<>> = << a, b >> /\ << a >> \o << b, d >> = << a, b, d >>
    BY NothingBefore, NothingAfter, OneBeforeTwo
  <2> QED
    BY <1>1, <2>1 DEF Rest, Rest1, Rest2, Rest3
<1>2. CASE op = "publish"
  <2>1. PICK e : e = Decide("previous")
    OBVIOUS
  <2>2. /\ <<>> \o << e >> = << e >> /\ << a >> \o << e >> = << a, e >>
        /\ << a, b >> \o << e >> = << a, b, e >> /\ << a >> \o << b, d, e >> = << a, b, d, e >>
    BY NothingBefore, OneBeforeOne, TwoBeforeOne, OneBeforeThree
  <2> QED
    BY <1>2, <2>1, <2>2 DEF Rest, Rest1, Rest2, Rest3
<1> QED
  BY <1>1, <1>2

LEMMA RestTakes ==
  ASSUME Tables, NEW t \in Txn, Moves(t), NEW op \in {"propose", "publish"}, NEW a, NEW b
  PROVE  /\ \A K : todo[t] = Rest3(op, Take(K), a, b) =>
              \E lock : Took(t, K, lock, Rest2(op, a, b), Rest3(op, Take(K \ {lock}), a, b))
         /\ \A x : todo[t] = Rest2(op, Take({x}), a) => Moved(t, Rest1(op, a), held[t] \cup {x})
<1>1. PICK d : d = Decide("previous")
  OBVIOUS
<1>2. ASSUME NEW K, todo[t] = Rest3(op, Take(K), a, b)
      PROVE  \E lock : Took(t, K, lock, Rest2(op, a, b), Rest3(op, Take(K \ {lock}), a, b))
  <2>1. CASE op = "propose"
    <3>1. todo[t] = << Take(K), a, b >>
      BY <1>2, <2>1 DEF Rest3
    <3>2. PICK lock : Took(t, K, lock, << a, b >>, << Take(K \ {lock}), a, b >>)
      BY <3>1, TakesBeforeTwo
    <3> QED
      BY <2>1, <3>2 DEF Rest2, Rest3
  <2>2. CASE op = "publish"
    <3>1. todo[t] = << Take(K), a, b, d >>
      BY <1>1, <1>2, <2>2 DEF Rest3
    <3>2. PICK lock : Took(t, K, lock, << a, b, d >>, << Take(K \ {lock}), a, b, d >>)
      BY <3>1, TakesBeforeThree
    <3> QED
      BY <1>1, <2>2, <3>2 DEF Rest2, Rest3
  <2> QED
    BY <2>1, <2>2
<1>3. ASSUME NEW x, todo[t] = Rest2(op, Take({x}), a)
      PROVE  Moved(t, Rest1(op, a), held[t] \cup {x})
  <2>1. CASE op = "propose"
    <3>1. todo[t] = << Take({x}), a >>
      BY <1>3, <2>1 DEF Rest2
    <3> QED
      BY <2>1, <3>1, TakesOne DEF Rest1
  <2>2. CASE op = "publish"
    <3>1. todo[t] = << Take({x}), a, d >>
      BY <1>1, <1>3, <2>2 DEF Rest2
    <3> QED
      BY <1>1, <2>2, <3>1, TakesOne DEF Rest1
  <2> QED
    BY <2>1, <2>2
<1> QED
  BY <1>2, <1>3

LEMMA RestChecksRow ==
  ASSUME Tables, NEW t \in Txn, Moves(t), NEW op \in {"propose", "publish"}, NEW k, NEW left,
         todo[t] = Rest1(op, CheckRow(k, left))
  PROVE  /\ ValidRow(k)
         /\ \E steps \in RowSteps(left) : Moved(t, steps \o Rest(op), held[t])
<1>1. todo[t] # <<>> /\ Head(todo[t]) = CheckRow(k, left) /\ Tail(todo[t]) = Rest(op)
  BY DEF Rest1, Rest
<1>2. PICK r : r = Rest(op)
  OBVIOUS
<1>3. /\ ValidRow(k)
      /\ \E steps \in RowSteps(left) : todo'[t] = steps \o r
      /\ held'[t] = held[t] /\ target'[t] = target[t]
  BY <1>1, <1>2, RowMoves
<1> QED
  BY <1>2, <1>3 DEF Moved

LEMMA ValidationStarts ==
  ASSUME Tables, NEW t \in Txn, Moves(t), NEW c, c = call[t], c.op \in {"propose", "publish"},
         todo[t] = Rest1(c.op, Decide("rows")),
         NEW s, s = todo'[t], NEW H, H = held'[t]
  PROVE  Validating(c, s, H) /\ held[t] \subseteq H
<1> DEFINE rows == LiveRows(c.period) keys == TimetableKeys(c.period)
<1>1. Decided(t, "rows") = ValidateRows(c.period)
  BY DEF Decided
<1>2. PICK steps \in ValidateRows(c.period) : Moved(t, steps \o Rest(c.op), held[t])
  <2>1. CASE c.op = "propose"
    BY <1>1, <2>1, Decides DEF Rest1, Rest
  <2>2. CASE c.op = "publish"
    BY <1>1, <2>2, Decides DEF Rest1, Rest
  <2> QED
    BY <2>1, <2>2
<1>3. PICK st \in RowSteps(rows) : steps = TakeAll(keys) \o st
  BY DEF ValidateRows
<1>4. H = held[t] /\ s = steps \o Rest(c.op)
  BY <1>2 DEF Moved
<1>5. CASE rows = {} /\ st = <<>>
  <2>1. keys = {}
    BY <1>5 DEF TimetableKeys
  <2>2. TakeAll(keys) = <<>>
    BY <2>1 DEF TakeAll
  <2>3. s = Rest(c.op)
    BY <1>3, <1>4, <1>5, <2>2, NothingBefore, RestAfter
  <2>4. Checked(c.period, H, {})
    BY <1>5 DEF Checked
  <2> QED
    BY <1>4, <2>1, <2>3, <2>4 DEF Validating
<1>6. ASSUME NEW k \in rows, st = << Take({LeaveOf(row[k].work)}), CheckRow(k, rows \ {k}) >>
      PROVE  Validating(c, s, H) /\ held[t] \subseteq H
  <2>1. PICK a, b : a = Take({LeaveOf(row[k].work)}) /\ b = CheckRow(k, rows \ {k})
    OBVIOUS
  <2>2. keys # {}
    BY DEF TimetableKeys
  <2>3. TakeAll(keys) = << Take(keys) >>
    BY <2>2 DEF TakeAll
  <2>4. PICK d : d = Take(keys)
    OBVIOUS
  <2>5. steps = << d, a, b >>
    BY <1>3, <1>6, <2>1, <2>3, <2>4, OneBeforeTwo
  <2>6. << d, a, b >> \o Rest(c.op) = Rest3(c.op, d, a, b)
    <3>1. PICK e : e = Decide("previous")
      OBVIOUS
    <3>2. << d, a, b >> \o <<>> = << d, a, b >>
      BY NothingAfter
    <3>3. << d, a, b >> \o << e >> = << d, a, b, e >>
      BY ThreeBeforeOne
    <3> QED
      BY <3>1, <3>2, <3>3 DEF Rest, Rest3
  <2>7. s = Rest3(c.op, Take(keys), Take({LeaveOf(row[k].work)}), CheckRow(k, rows \ {k}))
    BY <1>4, <2>1, <2>4, <2>5, <2>6
  <2> QED
    BY <1>4, <1>6, <2>7 DEF Validating
<1> QED
  BY <1>3, <1>5, <1>6, RowStepsOf

LEMMA ValidatingMoves ==
  ASSUME Tables, NEW t \in Txn, Moves(t), NEW c, c = call[t], c.op \in {"propose", "publish"},
         c.period \in PeriodId, Validating(c, todo[t], held[t]),
         NEW s, s = todo'[t], NEW H, H = held'[t]
  PROVE  Validating(c, s, H) /\ held[t] \subseteq H
<1> DEFINE rows == LiveRows(c.period) keys == TimetableKeys(c.period)
<1>1. ASSUME NEW k \in rows, NEW K \in SUBSET keys, keys \ K \subseteq held[t],
             todo[t] = Rest3(c.op, Take(K), Take({LeaveOf(row[k].work)}), CheckRow(k, rows \ {k}))
      PROVE  Validating(c, s, H) /\ held[t] \subseteq H
  <2>1. PICK a, b : a = Take({LeaveOf(row[k].work)}) /\ b = CheckRow(k, rows \ {k})
    OBVIOUS
  <2>2. PICK lock : Took(t, K, lock, Rest2(c.op, a, b), Rest3(c.op, Take(K \ {lock}), a, b))
    BY <1>1, <2>1, RestTakes
  <2>3. H = held[t] \cup {lock} /\ lock \in K
    BY <2>2 DEF Took, Moved
  <2>4. CASE K = {lock}
    <3>1. s = Rest2(c.op, a, b)
      BY <2>2, <2>4 DEF Took, Moved
    <3>2. keys \subseteq H
      BY <1>1, <2>3, <2>4
    <3>3. Checked(c.period, H, (rows \ {k}) \cup {k})
      BY DEF Checked
    <3> QED
      BY <1>1, <2>1, <2>3, <3>1, <3>2, <3>3 DEF Validating
  <2>5. CASE K # {lock}
    <3>1. s = Rest3(c.op, Take(K \ {lock}), a, b)
      BY <2>2, <2>5 DEF Took, Moved
    <3>2. keys \ (K \ {lock}) \subseteq H /\ K \ {lock} \in SUBSET keys
      BY <1>1, <2>3
    <3> QED
      BY <1>1, <2>1, <2>3, <3>1, <3>2 DEF Validating
  <2> QED
    BY <2>4, <2>5
<1>2. ASSUME keys \subseteq held[t], NEW k \in rows, NEW left \in SUBSET rows,
             Checked(c.period, held[t], left \cup {k}),
             todo[t] = Rest2(c.op, Take({LeaveOf(row[k].work)}), CheckRow(k, left))
      PROVE  Validating(c, s, H) /\ held[t] \subseteq H
  <2>1. PICK a : a = CheckRow(k, left)
    OBVIOUS
  <2>2. Moved(t, Rest1(c.op, a), held[t] \cup {LeaveOf(row[k].work)})
    BY <1>2, <2>1, RestTakes
  <2>3. s = Rest1(c.op, a) /\ H = held[t] \cup {LeaveOf(row[k].work)}
    BY <2>2 DEF Moved
  <2>4. Checked(c.period, H, left \cup {k})
    BY <1>2, <2>3 DEF Checked
  <2> QED
    BY <1>2, <2>1, <2>3, <2>4 DEF Validating
<1>3. ASSUME keys \subseteq held[t], NEW k \in rows, NEW left \in SUBSET rows,
             Checked(c.period, held[t], left \cup {k}), LeaveOf(row[k].work) \in held[t],
             todo[t] = Rest1(c.op, CheckRow(k, left))
      PROVE  Validating(c, s, H) /\ held[t] \subseteq H
  <2>1. ValidRow(k)
    BY <1>3, RestChecksRow
  <2>2. PICK steps \in RowSteps(left) : Moved(t, steps \o Rest(c.op), held[t])
    BY <1>3, RestChecksRow
  <2>3. H = held[t] /\ s = steps \o Rest(c.op)
    BY <2>2 DEF Moved
  <2>4. Checked(c.period, H, left)
    BY <1>3, <2>1, <2>3 DEF Checked
  <2>5. CASE left = {} /\ steps = <<>>
    <3>1. s = Rest(c.op)
      BY <2>3, <2>5, RestAfter
    <3>2. TimetableKeys(c.period) \subseteq H /\ Checked(c.period, H, {})
      BY <1>3, <2>3, <2>4, <2>5
    <3>3. Validating(c, s, H)
      BY <3>1, <3>2 DEF Validating
    <3> QED
      BY <2>3, <3>3
  <2>6. ASSUME NEW j \in left,
               steps = << Take({LeaveOf(row[j].work)}), CheckRow(j, left \ {j}) >>
        PROVE  Validating(c, s, H) /\ held[t] \subseteq H
    <3>1. s = Rest2(c.op, Take({LeaveOf(row[j].work)}), CheckRow(j, left \ {j}))
      BY <2>3, <2>6, RestAfter
    <3>2. (left \ {j}) \cup {j} = left
      OBVIOUS
    <3>3. Checked(c.period, H, (left \ {j}) \cup {j})
      BY <2>4, <3>2
    <3>4. j \in rows /\ left \ {j} \in SUBSET rows
      OBVIOUS
    <3> QED
      BY <1>3, <2>3, <3>1, <3>3, <3>4 DEF Validating
  <2> QED
    BY <2>2, <2>5, <2>6, RowStepsOf
<1>4. ASSUME keys \subseteq held[t], Checked(c.period, held[t], {}), todo[t] = Rest(c.op)
      PROVE  Validating(c, s, H) /\ held[t] \subseteq H
  <2>1. c.op = "publish" /\ todo[t] = << Decide("previous") >>
    BY <1>4, DoneMovesNot DEF Rest
  <2>2. Decided(t, "previous") = {LockPrevious(c.period)}
    BY DEF Decided
  <2>3. Moved(t, LockPrevious(c.period) \o <<>>, held[t])
    BY <2>1, <2>2, Decides
  <2>4. PICK locks : locks = {PeriodLock(<<c.period[1], r>>) : r \in {x \in Revision : Current(<<c.period[1], x>>)}}
    OBVIOUS
  <2>5. locks \in SUBSET {PeriodLock(id) : id \in PeriodId}
    BY <2>4, PeriodKeys DEF PeriodId
  <2>6. LockPrevious(c.period) = TakeAll(locks)
    BY <2>4 DEF LockPrevious
  <2>7. s = <<>> \/ s = << Take(locks) >>
    BY <2>3, <2>6, NothingBefore, NothingAfter DEF TakeAll, Moved
  <2>8. H = held[t]
    BY <2>3 DEF Moved
  <2> QED
    BY <1>4, <2>1, <2>5, <2>7, <2>8 DEF Validating
<1>5. ASSUME keys \subseteq held[t], Checked(c.period, held[t], {}), c.op = "publish",
             NEW locks \in SUBSET {PeriodLock(id) : id \in PeriodId}, todo[t] = << Take(locks) >>
      PROVE  Validating(c, s, H) /\ held[t] \subseteq H
  <2>1. PICK lock : Took(t, locks, lock, <<>>, << Take(locks \ {lock}) >>)
    BY <1>5, TakesAlone
  <2>2. H = held[t] \cup {lock} /\ (s = <<>> \/ s = << Take(locks \ {lock}) >>)
    BY <2>1 DEF Took, Moved
  <2>3. Checked(c.period, H, {})
    BY <1>5, <2>2 DEF Checked
  <2>4. locks \ {lock} \in SUBSET {PeriodLock(id) : id \in PeriodId}
    BY <1>5
  <2> QED
    BY <1>5, <2>2, <2>3, <2>4 DEF Validating
<1> QED
  BY <1>1, <1>2, <1>3, <1>4, <1>5, DoneMovesNot DEF Validating
LEMMA ProposeMoves ==
  ASSUME Tables, NEW t \in Txn, Moves(t), NEW c, c = call[t], c.op = "propose",
         c.period \in PeriodId, ProposeAt(c, todo[t], held[t]),
         NEW s, s = todo'[t], NEW H, H = held'[t]
  PROVE  ProposeAt(c, s, H)
<1>1. CASE todo[t] = ProposeSteps(c)
  <2>1. Moved(t, << Check("draft"), Decide("rows") >>, held[t] \cup {PeriodLock(c.period)})
    BY <1>1, TakesOne DEF ProposeSteps
  <2> QED
    BY <2>1 DEF ProposeAt, Moved
<1>2. CASE PeriodLock(c.period) \in held[t] /\ todo[t] = << Check("draft"), Decide("rows") >>
  <2>1. Holds(t, "draft") /\ Moved(t, << Decide("rows") >>, held[t])
    BY <1>2, Checks
  <2> QED
    BY <1>2, <2>1 DEF ProposeAt, Holds, Moved
<1>3. CASE /\ PeriodLock(c.period) \in held[t] /\ period[c.period].status = "DRAFT"
           /\ todo[t] = << Decide("rows") >>
  <2>1. todo[t] = Rest1(c.op, Decide("rows"))
    BY <1>3 DEF Rest1
  <2>2. Validating(c, s, H) /\ held[t] \subseteq H
    BY <2>1, ValidationStarts
  <2> QED
    BY <1>3, <2>2 DEF ProposeAt
<1>4. CASE /\ PeriodLock(c.period) \in held[t] /\ period[c.period].status = "DRAFT"
           /\ Validating(c, todo[t], held[t])
  <2>1. Validating(c, s, H) /\ held[t] \subseteq H
    BY <1>4, ValidatingMoves
  <2> QED
    BY <1>4, <2>1 DEF ProposeAt
<1> QED
  BY <1>1, <1>2, <1>3, <1>4 DEF ProposeAt

LEMMA PublishMoves ==
  ASSUME Tables, NEW t \in Txn, Moves(t), NEW c, c = call[t], c.op = "publish",
         c.period \in PeriodId, PublishAt(c, todo[t], held[t]),
         NEW s, s = todo'[t], NEW H, H = held'[t]
  PROVE  PublishAt(c, s, H)
<1> DEFINE a == PlanLock(c.period[1])
<1>1. CASE todo[t] = PublishSteps(c)
  <2>1. Moved(t, << Check("proposed"), Take({a}), Decide("rows"), Decide("previous") >>,
              held[t] \cup {PeriodLock(c.period)})
    BY <1>1, TakesOne DEF PublishSteps
  <2> QED
    BY <2>1 DEF PublishAt, Moved
<1>2. CASE /\ PeriodLock(c.period) \in held[t]
           /\ todo[t] = << Check("proposed"), Take({a}), Decide("rows"), Decide("previous") >>
  <2>1. Holds(t, "proposed") /\ Moved(t, << Take({a}), Decide("rows"), Decide("previous") >>, held[t])
    BY <1>2, Checks
  <2> QED
    BY <1>2, <2>1 DEF PublishAt, Holds, Moved
<1>3. CASE /\ PeriodLock(c.period) \in held[t] /\ period[c.period].status = "PROPOSED"
           /\ todo[t] = << Take({a}), Decide("rows"), Decide("previous") >>
  <2>1. Moved(t, << Decide("rows"), Decide("previous") >>, held[t] \cup {a})
    BY <1>3, TakesOne
  <2> QED
    BY <1>3, <2>1 DEF PublishAt, Moved
<1>4. CASE /\ {PeriodLock(c.period), a} \subseteq held[t] /\ period[c.period].status = "PROPOSED"
           /\ todo[t] = << Decide("rows"), Decide("previous") >>
  <2>1. todo[t] = Rest1(c.op, Decide("rows"))
    BY <1>4 DEF Rest1
  <2>2. Validating(c, s, H) /\ held[t] \subseteq H
    BY <2>1, ValidationStarts
  <2> QED
    BY <1>4, <2>2 DEF PublishAt
<1>5. CASE /\ {PeriodLock(c.period), a} \subseteq held[t] /\ period[c.period].status = "PROPOSED"
           /\ Validating(c, todo[t], held[t])
  <2>1. Validating(c, s, H) /\ held[t] \subseteq H
    BY <1>5, ValidatingMoves
  <2> QED
    BY <1>5, <2>1 DEF PublishAt
<1> QED
  BY <1>1, <1>2, <1>3, <1>4, <1>5 DEF PublishAt

(* A transaction's own steps lead from one of its positions to another. *)
LEMMA AtMoves ==
  ASSUME TypeOK, Rooted, Tables, NEW t \in Txn, Moves(t), WellFormed(call[t], leave),
         At(call[t], target[t], todo[t], held[t]),
         NEW k, k = target'[t], NEW s, s = todo'[t], NEW H, H = held'[t]
  PROVE  At(call[t], k, s, H)
<1>1. PICK c : c = call[t]
  OBVIOUS
<1>2. CASE c.op = "add" /\ AddAt(c, todo[t], held[t])
  <2>1. AddAt(c, s, H)
    BY <1>1, <1>2, AddMoves
  <2> QED
    BY <1>1, <1>2, <2>1 DEF At
<1>3. CASE c.op = "propose" /\ ProposeAt(c, todo[t], held[t])
  <2>1. c.period \in PeriodId
    BY <1>1, <1>3 DEF WellFormed
  <2>2. ProposeAt(c, s, H)
    BY <1>1, <1>3, <2>1, ProposeMoves
  <2> QED
    BY <1>1, <1>3, <2>2 DEF At
<1>4. CASE c.op = "publish" /\ PublishAt(c, todo[t], held[t])
  <2>1. c.period \in PeriodId
    BY <1>1, <1>4 DEF WellFormed
  <2>2. PublishAt(c, s, H)
    BY <1>1, <1>4, <2>1, PublishMoves
  <2> QED
    BY <1>1, <1>4, <2>2 DEF At
<1>5. CASE c.op = "revise" /\ ReviseAt(c, todo[t], held[t])
  <2>1. ReviseAt(c, s, H)
    BY <1>1, <1>5, ReviseMoves
  <2> QED
    BY <1>1, <1>5, <2>1 DEF At
<1>6. CASE c.op = "cover" /\ CoverAt(c, target[t], todo[t], held[t])
  <2>1. c.row \in RowId
    BY <1>1, <1>6 DEF WellFormed
  <2>2. CoverAt(c, k, s, H)
    BY <1>1, <1>6, <2>1, CoverMoves
  <2> QED
    BY <1>1, <1>6, <2>2 DEF At
<1>7. CASE c.op = "book" /\ BookAt(c, todo[t], held[t])
  <2>1. c.team # {}
    BY <1>1, <1>7 DEF WellFormed
  <2>2. BookAt(c, s, H)
    BY <1>1, <1>7, <2>1, BookMoves
  <2> QED
    BY <1>1, <1>7, <2>2 DEF At
<1>8. CASE c.op = "submit" /\ SubmitAt(c, todo[t], held[t])
  <2>1. SubmitAt(c, s, H)
    BY <1>1, <1>8, SubmitMoves
  <2> QED
    BY <1>1, <1>8, <2>1 DEF At
<1>9. CASE c.op = "approve" /\ ApproveAt(c, todo[t], held[t])
  <2>1. ApproveAt(c, s, H)
    BY <1>1, <1>9, ApproveMoves
  <2> QED
    BY <1>1, <1>9, <2>1 DEF At
<1>10. CASE c.op = "cancel" /\ CancelAt(c, todo[t], held[t])
  <2>1. CancelAt(c, s, H)
    BY <1>1, <1>10, CancelMoves
  <2> QED
    BY <1>1, <1>10, <2>1 DEF At
<1>11. CASE c.op = "allow" /\ AllowAt(c, todo[t], held[t])
  <2>1. AllowAt(c, s, H)
    BY <1>1, <1>11, AllowMoves
  <2> QED
    BY <1>1, <1>11, <2>1 DEF At
<1> QED
  BY <1>1, <1>2, <1>3, <1>4, <1>5, <1>6, <1>7, <1>8, <1>9, <1>10, <1>11 DEF At

(* An opened transaction is at its first step and holds nothing. *)
LEMMA AtBegin ==
  ASSUME NEW c, WellFormed(c, leave), NEW k
  PROVE  At(c, k, Steps(c), {})
<1>1. CASE c.op = "book"
  <2>1. PICK A : A = OverlapLocks(c.team, BookedDays(c))
    OBVIOUS
  <2>2. PICK e \in c.team : TRUE
    BY <1>1 DEF WellFormed
  <2>3. c.first \in BookedDays(c)
    BY <1>1, CalendarAssumption DEF WellFormed, BookedDays, Covers
  <2>4. OverlapLock(e, c.first) \in A
    BY <2>1, <2>3 DEF OverlapLocks
  <2>5. A \in SUBSET A /\ A # {} /\ {} = A \ A /\ Passed({}, A)
    BY <2>4 DEF Passed
  <2>6. BookSteps(c) = << Take(A), Take(LeaveLocks(c.team)), Check("bookable") >>
    BY <2>1 DEF BookSteps
  <2>7. BookAt(c, BookSteps(c), {})
    BY <2>1, <2>5, <2>6 DEF BookAt
  <2> QED
    BY <1>1, <2>7 DEF At, Steps
<1>2. CASE c.op \in {"add", "propose", "publish", "revise", "cover"}
  BY <1>2 DEF At, Steps, AddAt, ProposeAt, PublishAt, ReviseAt, CoverAt
<1>3. CASE c.op \in {"submit", "approve", "cancel", "allow"}
  BY <1>3 DEF At, Steps, SubmitAt, ApproveAt, CancelAt, AllowAt
<1> QED
  BY <1>1, <1>2, <1>3 DEF WellFormed
-----------------------------------------------------------------------------
(* A commit is a step of Workforce, and spares what others have locked *)

LEMMA ScheduleSpares ==
  ASSUME UNCHANGED <<leaveVars, bookingVars>>, NEW H
  PROVE  SparesLeave(H) /\ SparesAllowance(H) /\ SparesBookings(H)
<1>1. leave' = leave /\ allowance' = allowance /\ booking' = booking
  BY DEF leaveVars, bookingVars
<1> QED
  BY <1>1 DEF SparesLeave, SparesAllowance, SparesBookings, Approved

LEMMA OthersSpare ==
  ASSUME UNCHANGED scheduleVars, NEW H
  PROVE  SparesPeriods(H) /\ SparesPlans(H) /\ SparesStanding(H) /\ SparesCurrent(H)
<1>1. period' = period /\ row' = row
  BY DEF scheduleVars
<1>2. SparesPeriods(H) /\ SparesPlans(H)
  BY <1>1 DEF SparesPeriods, SparesPlans, Current, Present, Editable
<1>3. SparesStanding(H) /\ SparesCurrent(H)
  BY <1>1 DEF SparesStanding, SparesCurrent, Standing, Live, Active, Current, Editable
<1> QED
  BY <1>2, <1>3

LEMMA AddCommits ==
  ASSUME TypeOK, NEW c, c.op = "add", WellFormed(c, leave), NEW L, AddAt(c, <<>>, L),
         WriteRow(c), UNCHANGED directoryVars, NEW H, H \cap L = {}
  PROVE  Next /\ Spares(H)
<1>1. /\ c.period \in PeriodId /\ c.work \in Work
      /\ period[c.period].status = "DRAFT"
      /\ L = {PeriodLock(c.period), OverlapOf(c.work), LeaveOf(c.work)}
      /\ Fitting(c.period, c.work, NoCopy, {})
  BY DEF AddAt, AddSteps, WellFormed
<1>2. PICK l \in FreeLines(c.period) :
        row' = [row EXCEPT ![<<c.period, l>>] = NewRow(c.work, NoCopy)]
  BY DEF WriteRow
<1>3. PICK k \in RowId : k[1] = c.period /\ row[k] = NoRow
                         /\ row' = [row EXCEPT ![k] = NewRow(c.work, NoCopy)]
  BY <1>1, <1>2 DEF FreeLines, RowId
<1>4. period' = Bumped(c.period) /\ UNCHANGED <<leaveVars, bookingVars>>
  BY DEF WriteRow
<1>5. Next
  <2>1. AddAssignment(k, period[k[1]].version, c.work)
    BY <1>1, <1>3, <1>4 DEF AddAssignment, Fitting
  <2> QED
    BY <1>1, <2>1 DEF Next, SchedulingNext, PlanningNext, EditingNext
<1>6. \A id \in PeriodId : /\ period'[id].status = period[id].status
                           /\ period'[id].current = period[id].current
                           /\ period'[id].parent = period[id].parent
  BY <1>1, <1>4 DEF Bumped, TypeOK, PeriodRec
<1>7. \A j \in RowId : j # k => row'[j] = row[j]
  BY <1>3 DEF TypeOK
<1>8. row'[k].work = c.work
  BY <1>3 DEF TypeOK, NewRow
<1>9. SparesPeriods(H)
  BY <1>1, <1>3, <1>6, <1>7 DEF SparesPeriods
<1>10. SparesPlans(H)
  BY <1>6 DEF SparesPlans, Current, Present, Editable
<1>11. SparesStanding(H)
  <2> SUFFICES ASSUME NEW j \in RowId, Standing(j)', j # k
               PROVE  Standing(j) /\ row'[j].work = row[j].work
    BY <1>1, <1>8 DEF SparesStanding
  <2> QED
    BY <1>6, <1>7, RowKeys DEF Standing, Live, Active, Current, Editable
<1>12. SparesCurrent(H)
  <2> SUFFICES ASSUME NEW j \in RowId, Live(j)', Current(j[1])', j # k
               PROVE  Live(j) /\ Current(j[1]) /\ row'[j].work = row[j].work
    BY <1>1, <1>8 DEF SparesCurrent
  <2> QED
    BY <1>6, <1>7, RowKeys DEF Live, Current
<1> QED
  BY <1>4, <1>5, <1>9, <1>10, <1>11, <1>12, ScheduleSpares DEF Spares

LEMMA ProposeCommits ==
  ASSUME TypeOK, NEW c, c.op = "propose", WellFormed(c, leave), NEW L, ProposeAt(c, <<>>, L),
         WriteStatus(c), UNCHANGED directoryVars, NEW H, H \cap L = {}
  PROVE  Next /\ Spares(H)
<1>1. /\ c.period \in PeriodId /\ period[c.period].status = "DRAFT" /\ PeriodLock(c.period) \in L
      /\ Checked(c.period, L, {})
  BY DEF ProposeAt, ProposeSteps, WellFormed, Validating, Rest, Rest1, Rest2, Rest3
<1>2. /\ period' = [period EXCEPT ![c.period].status = "PROPOSED", ![c.period].version = @ + 1]
      /\ row' = row /\ UNCHANGED <<leaveVars, bookingVars>>
  BY DEF WriteStatus
<1>3. Next
  <2>1. Propose(c.period, period[c.period].version)
    BY <1>1, <1>2 DEF Propose, Checked
  <2> QED
    BY <1>1, <2>1 DEF Next, SchedulingNext, PlanningNext, EditingNext
<1>4. \A id \in PeriodId :
        /\ period'[id].status = IF id = c.period THEN "PROPOSED" ELSE period[id].status
        /\ period'[id].current = period[id].current
        /\ period'[id].parent = period[id].parent
  BY <1>1, <1>2 DEF TypeOK, PeriodRec
<1>5. SparesPeriods(H)
  BY <1>1, <1>2, <1>4 DEF SparesPeriods
<1>6. SparesPlans(H)
  BY <1>1, <1>4 DEF SparesPlans, Current, Present, Editable
<1>7. SparesStanding(H) /\ SparesCurrent(H)
  <2>1. \A id \in PeriodId : (Active(id)' => Active(id)) /\ (Current(id)' => Current(id))
    BY <1>1, <1>4 DEF Active, Current, Editable
  <2>2. SparesStanding(H)
    BY <1>2, <2>1, RowKeys DEF SparesStanding, Standing, Live
  <2>3. SparesCurrent(H)
    BY <1>2, <2>1, RowKeys DEF SparesCurrent, Live
  <2> QED
    BY <2>2, <2>3
<1> QED
  BY <1>2, <1>3, <1>5, <1>6, <1>7, ScheduleSpares DEF Spares

LEMMA PublishCommits ==
  ASSUME TypeOK, NEW c, c.op = "publish", WellFormed(c, leave), NEW L, PublishAt(c, <<>>, L),
         WriteStatus(c), UNCHANGED directoryVars, NEW H, H \cap L = {}
  PROVE  Next /\ Spares(H)
<1>1. /\ c.period \in PeriodId /\ period[c.period].status = "PROPOSED" /\ PeriodLock(c.period) \in L
      /\ PlanLock(c.period[1]) \in L /\ Checked(c.period, L, {})
  BY DEF PublishAt, PublishSteps, WellFormed, Validating, Rest, Rest1, Rest2, Rest3
<1>2. /\ period' = [Superseded(c.period[1]) EXCEPT
           ![c.period].status = "PUBLISHED", ![c.period].current = TRUE, ![c.period].version = @ + 1]
      /\ row' = row /\ UNCHANGED <<leaveVars, bookingVars>>
  BY DEF WriteStatus
<1>3. Publish(c.period, period[c.period].version)
  BY <1>1, <1>2 DEF Publish, Checked
<1>4. Next
  BY <1>1, <1>3 DEF Next, SchedulingNext, PlanningNext, EditingNext
<1>5. \A id \in PeriodId :
        /\ period'[id].status = IF id = c.period THEN "PUBLISHED" ELSE period[id].status
        /\ period'[id].current = (id = c.period \/ (period[id].current /\ id[1] # c.period[1]))
        /\ period'[id].parent = period[id].parent
  BY <1>1, <1>3, PublishWrites
<1>6. SparesPeriods(H)
  BY <1>1, <1>2, <1>5 DEF SparesPeriods
<1>7. SparesPlans(H)
  BY <1>1, <1>5 DEF SparesPlans, Current, Present, Editable
<1>8. SparesStanding(H)
  <2> SUFFICES ASSUME NEW j \in RowId, Standing(j)'
               PROVE  Standing(j) /\ row'[j].work = row[j].work
    BY DEF SparesStanding
  <2>1. Live(j) /\ row'[j] = row[j] /\ j[1] \in PeriodId
    BY <1>2, RowKeys DEF Standing, Live
  <2>2. Active(j[1])
    BY <1>1, <1>5, <2>1 DEF Standing, Active, Current, Editable
  <2> QED
    BY <2>1, <2>2 DEF Standing
<1>9. SparesCurrent(H)
  <2> SUFFICES ASSUME NEW k \in RowId, Live(k)', Current(k[1])', LeaveOf(row'[k].work) \in H
               PROVE  Live(k) /\ Current(k[1]) /\ row'[k].work = row[k].work
    BY DEF SparesCurrent
  <2>1. Live(k) /\ row'[k] = row[k] /\ k[1] \in PeriodId
    BY <1>2, RowKeys DEF Live
  <2>2. CASE k[1] = c.period
    BY <1>1, <2>1, <2>2 DEF Checked, LiveRows
  <2>3. CASE k[1] # c.period
    BY <1>5, <2>1, <2>3 DEF Current
  <2> QED
    BY <2>2, <2>3
<1> QED
  BY <1>2, <1>4, <1>6, <1>7, <1>8, <1>9, ScheduleSpares DEF Spares
(* A new revision, whose rows are copies or under their writer's locks. *)
LEMMA RevisionSpares ==
  ASSUME TypeOK, Rooted, NEW id \in PeriodId, NEW r \in Revision, NEW v \in Nat,
         MayRevise(id, r), period' = Revised(id, r, v),
         NEW H, PeriodLock(id) \notin H, PlanLock(id[1]) \notin H,
         NEW new, new = <<id[1], r>>,
         \A j \in RowId : j[1] # new => row'[j] = row[j],
         \A j \in RowId : j[1] = new /\ Live(j)' =>
           \/ OverlapOf(row'[j].work) \notin H
           \/ Live(<<id, j[2]>>) /\ row'[j].work = row[<<id, j[2]>>].work
  PROVE  SparesPeriods(H) /\ SparesPlans(H) /\ SparesStanding(H) /\ SparesCurrent(H)
<1>1. /\ new \in PeriodId /\ ~Present(new) /\ new[1] = id[1]
      /\ \A i \in PeriodId : i # new => period'[i] = period[i]
      /\ period'[new] = [status |-> "DRAFT", current |-> FALSE, parent |-> id[2], version |-> v]
  BY RevisionOpens
<1>2. Current(id) /\ NoEditable(id[1])
  BY DEF MayRevise
<1>3. SparesPeriods(H)
  <2>1. \A i \in PeriodId : Present(i) => period'[i] = period[i]
    BY <1>1
  <2>2. \A k \in RowId : Present(k[1]) => row'[k] = row[k]
    BY <1>1
  <2> QED
    BY <2>1, <2>2, RowKeys DEF SparesPeriods, Present
<1>4. SparesPlans(H)
  <2> SUFFICES ASSUME NEW i \in PeriodId, PlanLock(i[1]) \in H
               PROVE  period'[i] = period[i]
    BY DEF SparesPlans, Current, Present, Editable
  <2>1. i # new
    BY <1>1
  <2> QED
    BY <1>1, <2>1
<1>5. SparesStanding(H)
  <2> SUFFICES ASSUME NEW j \in RowId, Standing(j)', OverlapOf(row'[j].work) \in H
               PROVE  \/ Standing(j) /\ row'[j].work = row[j].work
                      \/ \E i \in RowId : /\ Standing(i) /\ row'[j].work = row[i].work
                                          /\ PeriodLock(i[1]) \notin H /\ NoEditable(i[1][1])
    BY DEF SparesStanding
  <2>1. CASE j[1] = new
    <3>1. PICK i : i = <<id, j[2]>>
      OBVIOUS
    <3>2. i \in RowId /\ i[1] = id
      BY <3>1, RowKeys DEF RowId
    <3>3. Live(i) /\ row'[j].work = row[i].work
      BY <2>1, <3>1 DEF Standing
    <3>4. Standing(i)
      BY <1>2, <3>2, <3>3 DEF Standing, Active
    <3> QED
      BY <1>2, <3>2, <3>3, <3>4
  <2>2. CASE j[1] # new
    <3>1. row'[j] = row[j] /\ j[1] \in PeriodId
      BY <2>2, RowKeys
    <3>2. period'[j[1]] = period[j[1]]
      BY <1>1, <2>2, <3>1
    <3> QED
      BY <3>1, <3>2 DEF Standing, Live, Active, Editable, Current
  <2> QED
    BY <2>1, <2>2
<1>6. SparesCurrent(H)
  <2> SUFFICES ASSUME NEW k \in RowId, Live(k)', Current(k[1])'
               PROVE  Live(k) /\ Current(k[1]) /\ row'[k].work = row[k].work
    BY DEF SparesCurrent
  <2>1. k[1] \in PeriodId /\ k[1] # new
    BY <1>1, RowKeys DEF Current
  <2> QED
    BY <1>1, <2>1 DEF Live, Current
<1> QED
  BY <1>3, <1>4, <1>5, <1>6

LEMMA NextRevisionOpens ==
  ASSUME NEW id, MayOpen(id)
  PROVE  NextRevision(id[1]) \in Revision /\ MayRevise(id, NextRevision(id[1]))
<1>1. PICK s \in Revision : MayRevise(id, s)
  BY DEF MayOpen
<1>2. PICK r : r = NextRevision(id[1])
  OBVIOUS
<1>3. r \in Revision /\ IsNextRevision(id[1], r)
  BY <1>1, <1>2 DEF NextRevision, MayRevise
<1> QED
  BY <1>1, <1>2, <1>3 DEF MayRevise

LEMMA ReviseCommits ==
  ASSUME TypeOK, Rooted, NEW c, c.op = "revise", WellFormed(c, leave), NEW L, ReviseAt(c, <<>>, L),
         WriteRevision(c), UNCHANGED directoryVars, NEW H, H \cap L = {}
  PROVE  Next /\ Spares(H)
<1>1. PICK id : id = c.period
  OBVIOUS
<1>2. id \in PeriodId /\ PeriodLock(id) \notin H /\ PlanLock(id[1]) \notin H /\ MayOpen(id)
  BY <1>1 DEF ReviseAt, ReviseSteps, WellFormed
<1>3. PICK r : r = NextRevision(id[1])
  OBVIOUS
<1>4. r \in Revision /\ MayRevise(id, r)
  BY <1>2, <1>3, NextRevisionOpens
<1>5. PICK new : new = <<id[1], r>>
  OBVIOUS
<1>6. /\ period' = Revised(id, r, 1) /\ row' = WithCopies(id, new)
      /\ UNCHANGED <<leaveVars, bookingVars>>
  BY <1>1, <1>3, <1>5 DEF WriteRevision
<1>7. Next
  <2>1. CreateRevision(id, period[id].version, r)
    BY <1>4, <1>5, <1>6 DEF CreateRevision
  <2> QED
    BY <1>2, <1>4, <2>1 DEF Next, SchedulingNext, PlanningNext
<1>8. new \in PeriodId /\ ~Present(new)
  BY <1>2, <1>4, <1>5, <1>6, RevisionOpens
<1>9. \A j \in RowId : j[1] # new => row'[j] = row[j]
  BY <1>2, <1>6, <1>8, CopiesWritten
<1>10. ASSUME NEW j \in RowId, j[1] = new, Live(j)'
       PROVE  Live(<<id, j[2]>>) /\ row'[j].work = row[<<id, j[2]>>].work
  <2>1. CASE Live(<<id, j[2]>>)
    <3>1. WithCopies(id, new)[j] = NewRow(row[<<id, j[2]>>].work, <<id, j[2]>>)
      BY <1>2, <1>8, <1>10, <2>1, CopiesWritten
    <3> QED
      BY <1>6, <2>1, <3>1 DEF NewRow
  <2>2. CASE ~Live(<<id, j[2]>>)
    BY <1>2, <1>6, <1>8, <1>10, <2>2, CopiesWritten DEF Live, NoRow
  <2> QED
    BY <2>1, <2>2
<1>11. SparesPeriods(H) /\ SparesPlans(H) /\ SparesStanding(H) /\ SparesCurrent(H)
  BY <1>2, <1>4, <1>5, <1>6, <1>9, <1>10, RevisionSpares
<1> QED
  BY <1>6, <1>7, <1>11, ScheduleSpares DEF Spares

LEMMA CoverInPlace ==
  ASSUME TypeOK, NEW k \in RowId, NEW e \in Employee, Live(k), Editable(k[1]),
         Available(k, e, {k}),
         row' = Staffed(row, k, e, k[2]),
         period' = [period EXCEPT ![k[1]].status = "DRAFT",
                    ![k[1]].version = @ + (IF period[k[1]].status = "PROPOSED" THEN 2 ELSE 1)],
         UNCHANGED <<leaveVars, bookingVars, directoryVars>>,
         NEW H, PeriodLock(k[1]) \notin H, NEW w, w = For(e, row[k].work), OverlapOf(w) \notin H
  PROVE  Next /\ Spares(H)
<1>1. k[1] \in PeriodId /\ k[2] \in Line /\ k = <<k[1], k[2]>>
  BY RowKeys
<1>2. Next
  <2>1. ReplaceInPlace(k, e, k[2])
    BY DEF ReplaceInPlace
  <2> QED
    BY <1>1, <2>1 DEF Next, SchedulingNext, ReplacementNext
<1>3. \A id \in PeriodId :
        /\ period'[id].status = IF id = k[1] THEN "DRAFT" ELSE period[id].status
        /\ period'[id].current = period[id].current
        /\ period'[id].parent = period[id].parent
  BY <1>1 DEF TypeOK, PeriodRec
<1>4. \A j \in RowId : j # k => row'[j] = row[j]
  BY DEF Staffed, TypeOK
<1>5. row'[k].work = w
  <2>1. row[k] \in RowRec
    BY LiveIsRow
  <2>2. row' = [row EXCEPT ![k].work = For(e, @), ![k].version = @ + 1]
    BY DEF Staffed
  <2> QED
    BY <2>1, <2>2 DEF TypeOK, RowRec
<1>6. \A id \in PeriodId : /\ Active(id)' => Active(id)
                           /\ Current(id)' <=> Current(id)
                           /\ Present(id)' <=> Present(id)
                           /\ Editable(id)' => Editable(id)
  <2>1. period'[k[1]].status = "DRAFT" /\ period[k[1]].status \in {"DRAFT", "PROPOSED"}
    BY <1>1, <1>3 DEF Editable
  <2>2. \A id \in PeriodId \ {k[1]} : period'[id].status = period[id].status
    BY <1>3
  <2> QED
    BY <1>1, <1>3, <2>1, <2>2 DEF Active, Current, Editable, Present
<1>7. SparesPeriods(H)
  BY <1>1, <1>3, <1>4 DEF SparesPeriods, Editable
<1>8. SparesPlans(H)
  BY <1>6 DEF SparesPlans
<1>9. SparesStanding(H)
  BY <1>4, <1>5, <1>6, RowKeys DEF SparesStanding, Standing, Live
<1>10. SparesCurrent(H)
  <2>1. ~Current(k[1])'
    BY <1>1, <1>6 DEF Current, Editable
  <2> QED
    BY <1>4, <1>6, <2>1, RowKeys DEF SparesCurrent, Live
<1> QED
  BY <1>2, <1>7, <1>8, <1>9, <1>10, ScheduleSpares DEF Spares

LEMMA CoverInRevision ==
  ASSUME TypeOK, Rooted, NEW k \in RowId, NEW e \in Employee, Live(k), MayOpen(k[1]),
         Available(k, e, {}),
         NEW r, r = NextRevision(k[1][1]), NEW new, new = <<k[1][1], r>>,
         row' = Staffed(WithCopies(k[1], new), <<new, k[2]>>, e, k[2]),
         period' = Revised(k[1], r, 2),
         UNCHANGED <<leaveVars, bookingVars, directoryVars>>,
         NEW H, PeriodLock(k[1]) \notin H, PlanLock(k[1][1]) \notin H,
         NEW w, w = For(e, row[k].work), OverlapOf(w) \notin H
  PROVE  Next /\ Spares(H)
<1>1. k[1] \in PeriodId /\ k[2] \in Line /\ k = <<k[1], k[2]>>
  BY RowKeys
<1>2. r \in Revision /\ MayRevise(k[1], r)
  BY NextRevisionOpens
<1>3. Next
  <2>1. ReplaceInRevision(k, e, k[2], r)
    BY <1>2 DEF ReplaceInRevision
  <2> QED
    BY <1>1, <1>2, <2>1 DEF Next, SchedulingNext, ReplacementNext
<1>4. new \in PeriodId /\ ~Present(new)
  BY <1>1, <1>2, RevisionOpens
<1>5. PICK copies : copies = WithCopies(k[1], new)
  OBVIOUS
<1>6. PICK n : n = <<new, k[2]>>
  OBVIOUS
<1>7. n \in RowId /\ n[1] = new /\ n[2] = k[2]
  BY <1>1, <1>4, <1>6 DEF RowId
<1>8. copies \in [RowId -> RowRec \cup {NoRow}]
  BY <1>1, <1>5, CopiesType
<1>9. copies[n] = NewRow(row[k].work, k)
  BY <1>1, <1>4, <1>5, <1>7, CopiesWritten
<1>10. row' = [copies EXCEPT ![n].work = For(e, @), ![n].version = @ + 1]
  BY <1>5, <1>6, <1>7 DEF Staffed
<1>11. \A j \in RowId : j # n => row'[j] = copies[j]
  BY <1>8, <1>10
<1>12. row'[n].work = w
  BY <1>7, <1>8, <1>9, <1>10 DEF NewRow
<1>13. \A j \in RowId : j[1] # new => row'[j] = row[j]
  BY <1>1, <1>4, <1>5, <1>7, <1>11, CopiesWritten
<1>14. ASSUME NEW j \in RowId, j[1] = new, Live(j)', j # n
       PROVE  Live(<<k[1], j[2]>>) /\ row'[j].work = row[<<k[1], j[2]>>].work
  <2>1. CASE Live(<<k[1], j[2]>>)
    <3>1. copies[j] = NewRow(row[<<k[1], j[2]>>].work, <<k[1], j[2]>>)
      BY <1>1, <1>4, <1>5, <1>14, <2>1, CopiesWritten
    <3> QED
      BY <1>11, <1>14, <2>1, <3>1 DEF NewRow
  <2>2. CASE ~Live(<<k[1], j[2]>>)
    BY <1>1, <1>4, <1>5, <1>11, <1>14, <2>2, CopiesWritten DEF Live, NoRow
  <2> QED
    BY <2>1, <2>2
<1>15. SparesPeriods(H) /\ SparesPlans(H) /\ SparesStanding(H) /\ SparesCurrent(H)
  BY <1>1, <1>2, <1>12, <1>13, <1>14, RevisionSpares
<1> QED
  BY <1>3, <1>15, ScheduleSpares DEF Spares

LEMMA CoverCommits ==
  ASSUME TypeOK, Rooted, NEW c, c.op = "cover", WellFormed(c, leave), NEW k, NEW L,
         CoverAt(c, k, <<>>, L), WriteCover(k, c.employee), UNCHANGED directoryVars,
         NEW H, H \cap L = {}
  PROVE  Next /\ Spares(H)
<1>1. PICK e \in Employee : e = c.employee
  BY DEF WellFormed
<1>2. PICK w : w = For(e, row[k].work)
  OBVIOUS
<1>3. k \in RowId /\ \E B \in SUBSET L :
        /\ Based(k, B) /\ OverlapOf(w) \in L
        /\ Available(k, e, IF Editable(k[1]) THEN {k} ELSE {})
  BY <1>1, <1>2 DEF CoverAt, CoverSteps
<1>4. PICK B \in SUBSET L :
        /\ Based(k, B) /\ OverlapOf(w) \notin H
        /\ Available(k, e, IF Editable(k[1]) THEN {k} ELSE {})
  BY <1>3
<1>5. Live(k) /\ PeriodLock(k[1]) \notin H
  BY <1>4 DEF Based
<1>6. UNCHANGED <<leaveVars, bookingVars, directoryVars>>
  BY DEF WriteCover
<1>7. CASE Editable(k[1])
  <2>1. /\ row' = Staffed(row, k, e, k[2])
        /\ period' = [period EXCEPT ![k[1]].status = "DRAFT",
                      ![k[1]].version = @ + (IF period[k[1]].status = "PROPOSED" THEN 2 ELSE 1)]
    BY <1>1, <1>7 DEF WriteCover
  <2> QED
    BY <1>2, <1>3, <1>4, <1>5, <1>6, <1>7, <2>1, CoverInPlace
<1>8. CASE ~Editable(k[1])
  <2>1. PICK r : r = NextRevision(k[1][1])
    OBVIOUS
  <2>2. PICK new : new = <<k[1][1], r>>
    OBVIOUS
  <2>3. /\ row' = Staffed(WithCopies(k[1], new), <<new, k[2]>>, e, k[2])
        /\ period' = Revised(k[1], r, 2)
    BY <1>1, <1>8, <2>1, <2>2 DEF WriteCover
  <2>4. MayOpen(k[1]) /\ PlanLock(k[1][1]) \notin H
    BY <1>4, <1>8 DEF Based
  <2>5. Available(k, e, {})
    BY <1>4, <1>8
  <2> QED
    BY <1>2, <1>3, <1>4, <1>5, <1>6, <2>1, <2>2, <2>3, <2>4, <2>5, CoverInRevision
<1> QED
  BY <1>7, <1>8
(* No booking of this call's batch was made before. *)
LEMMA BatchIsFree ==
  ASSUME BookingsMade, CallsAsked, NEW t \in Txn, NEW c, c = call[t], c.op = "book",
         c.batch \in Batch, c.first <= c.last,
         \A e \in c.team : Bookable(e, c.first, c.last),
         NEW e \in Employee
  PROVE  booking[<<c.batch, e>>] = NoBooking
<1> SUFFICES ASSUME booking[<<c.batch, e>>] # NoBooking
             PROVE  FALSE
  OBVIOUS
<1>1. PICK b : b = <<c.batch, e>>
  OBVIOUS
<1>2. b \in BookingId /\ b[1] = c.batch /\ b[2] = e
  BY <1>1 DEF BookingId
<1>3. ActiveBooking(b)
  BY <1>1, <1>2 DEF BookingsMade
<1>4. PICK u \in Txn : /\ call[u].op = "book" /\ call[u].batch = c.batch /\ e \in call[u].team
                       /\ booking[b].first = call[u].first /\ booking[b].last = call[u].last
  BY <1>1, <1>2 DEF BookingsMade
<1>5. call[u] = c
  BY <1>4 DEF CallsAsked, SameInsertion
<1>6. Meets(booking[b], c.first, c.last)
  BY <1>4, <1>5 DEF Meets
<1> QED
  BY <1>2, <1>3, <1>4, <1>5, <1>6 DEF Bookable, Booked

LEMMA BookCommits ==
  ASSUME TypeOK, BookingsMade, CallsAsked, \A x \in Client : clientLive[x],
         NEW t \in Txn, NEW c, c = call[t], c.op = "book",
         WellFormed(c, leave), NEW L, BookAt(c, <<>>, L),
         WriteBooking(c), UNCHANGED directoryVars, NEW H, H \cap L = {}
  PROVE  Next /\ Spares(H)
<1>1. /\ c.batch \in Batch /\ c.client \in Client /\ c.team \subseteq Employee /\ c.team # {}
      /\ c.first \in Date /\ c.last \in Date /\ c.first <= c.last
  BY DEF WellFormed
<1>2. /\ L = OverlapLocks(c.team, BookedDays(c)) \cup LeaveLocks(c.team)
      /\ \A e \in c.team : Bookable(e, c.first, c.last)
  BY DEF BookAt
<1>3. /\ booking' = [b \in BookingId |->
           IF b[1] = c.batch /\ b[2] \in c.team
             THEN [state |-> "ACTIVE", client |-> c.client, first |-> c.first, last |-> c.last, version |-> 1]
             ELSE booking[b]]
      /\ UNCHANGED <<scheduleVars, leaveVars>>
  BY DEF WriteBooking
<1>4. Next
  <2>1. CreateBooking(c.batch, c.client, c.team, c.first, c.last)
    <3>1. \A e \in Employee : booking[<<c.batch, e>>] = NoBooking
      BY <1>1, <1>2, BatchIsFree
    <3> QED
      BY <1>1, <1>2, <1>3, <3>1 DEF CreateBooking
  <2>2. c.team \in SUBSET Employee
    BY <1>1
  <2>3. OutsourcingNext
    BY <1>1, <2>1, <2>2 DEF OutsourcingNext
  <2> QED
    BY <2>3 DEF Next
<1>5. SparesBookings(H)
  <2> SUFFICES ASSUME NEW b \in BookingId, booking'[b] # booking[b]
               PROVE  /\ LeaveLock(b[2]) \notin H
                      /\ \A d \in Date : Covers(booking'[b], d) => OverlapLock(b[2], d) \notin H
    BY DEF SparesBookings
  <2>1. /\ b[2] \in c.team
        /\ booking'[b] = [state |-> "ACTIVE", client |-> c.client,
                          first |-> c.first, last |-> c.last, version |-> 1]
    BY <1>3
  <2>2. LeaveLock(b[2]) \in L
    BY <1>2, <2>1 DEF LeaveLocks
  <2>3. ASSUME NEW d \in Date, Covers(booking'[b], d)
        PROVE  OverlapLock(b[2], d) \in L
    <3>1. d \in BookedDays(c)
      BY <2>1, <2>3 DEF BookedDays, Covers
    <3> QED
      BY <1>2, <2>1, <3>1 DEF OverlapLocks
  <2> QED
    BY <2>2, <2>3
<1>6. leave' = leave /\ allowance' = allowance /\ UNCHANGED scheduleVars
  BY <1>3 DEF leaveVars
<1>7. SparesLeave(H) /\ SparesAllowance(H)
  BY <1>6 DEF SparesLeave, SparesAllowance, Approved
<1> QED
  BY <1>4, <1>5, <1>6, <1>7, OthersSpare DEF Spares

LEMMA SubmitCommits ==
  ASSUME TypeOK, NEW c, c.op = "submit", WellFormed(c, leave), NEW L, SubmitAt(c, <<>>, L),
         WriteRequest(c), UNCHANGED directoryVars, NEW H, H \cap L = {}
  PROVE  Next /\ Spares(H)
<1>1. /\ c.leave \in LeaveId /\ c.employee \in Employee
      /\ c.first \in Date /\ c.last \in Date /\ c.first <= c.last
  BY DEF WellFormed
<1>2. L = {LeaveLock(c.employee)} /\ FreeOf(c)
  BY DEF SubmitAt, SubmitSteps
<1>3. /\ leave' = [leave EXCEPT ![c.leave] =
           [status |-> "PENDING", employee |-> c.employee, first |-> c.first, last |-> c.last, version |-> 1]]
      /\ allowance' = allowance /\ UNCHANGED <<scheduleVars, bookingVars>>
  BY DEF WriteRequest
<1>4. Next
  <2>1. SubmitLeave(c.leave, c.employee, c.first, c.last)
    BY <1>1, <1>2, <1>3 DEF SubmitLeave, FreeOf
  <2> QED
    BY <1>1, <2>1 DEF Next, LeaveNext
<1>5. /\ leave[c.leave] = NoLeave
      /\ \A l \in LeaveId : l # c.leave => leave'[l] = leave[l]
      /\ leave'[c.leave] =
           [status |-> "PENDING", employee |-> c.employee, first |-> c.first, last |-> c.last, version |-> 1]
  BY <1>1, <1>2, <1>3 DEF TypeOK, FreeOf
<1>6. leave'[c.leave].status = "PENDING" /\ leave'[c.leave].employee = c.employee
  BY <1>5
<1>7. SparesLeave(H)
  BY <1>2, <1>5, <1>6 DEF SparesLeave, LeaveOf, NoLeave
<1>8. SparesAllowance(H)
  BY <1>3, <1>5, <1>6 DEF SparesAllowance, Approved, NoLeave
<1>9. SparesBookings(H) /\ UNCHANGED scheduleVars
  BY <1>3 DEF SparesBookings, bookingVars
<1> QED
  BY <1>4, <1>7, <1>8, <1>9, OthersSpare DEF Spares

(* A pending request gets another status under its employee's lock. *)
LEMMA SettleSpares ==
  ASSUME TypeOK, NEW l \in LeaveId, Pending(l), NEW status \in {"APPROVED", "CANCELLED"},
         Settle(l, status), NEW H, LeaveOf(leave[l]) \notin H,
         status = "CANCELLED" \/ AllowanceLock \notin H
  PROVE  Spares(H)
<1>1. leave[l] \in LeaveRec
  BY DEF TypeOK, Pending, NoLeave
<1>2. /\ leave' = [leave EXCEPT ![l].status = status, ![l].version = @ + 1]
      /\ allowance' = allowance /\ UNCHANGED <<scheduleVars, bookingVars, directoryVars>>
  BY DEF Settle
<1>3. /\ leave'[l].status = status /\ leave'[l].employee = leave[l].employee
      /\ leave'[l].first = leave[l].first /\ leave'[l].last = leave[l].last
      /\ \A m \in LeaveId : m # l => leave'[m] = leave[m]
  BY <1>1, <1>2 DEF TypeOK, LeaveRec
<1>4. SparesLeave(H)
  BY <1>3 DEF SparesLeave, LeaveOf, NoLeave
<1>5. SparesAllowance(H)
  BY <1>2, <1>3 DEF SparesAllowance, Approved, Pending
<1>6. SparesBookings(H) /\ UNCHANGED scheduleVars /\ UNCHANGED directoryVars
  BY <1>2 DEF SparesBookings, bookingVars
<1> QED
  BY <1>4, <1>5, <1>6, OthersSpare DEF Spares

LEMMA ApproveCommits ==
  ASSUME TypeOK, NEW c, c.op = "approve", WellFormed(c, leave), NEW L, ApproveAt(c, <<>>, L),
         WriteLeave(c), UNCHANGED directoryVars, NEW H, H \cap L = {}
  PROVE  Next /\ Spares(H) /\ Pending(c.leave)
<1>1. /\ c.leave \in LeaveId /\ leave[c.leave] # NoLeave /\ Approvable(c.leave)
      /\ LeaveOf(leave[c.leave]) \notin H /\ AllowanceLock \notin H
  BY DEF WellFormed, ApproveAt, ApproveLeaveSteps
<1>2. Settle(c.leave, "APPROVED")
  BY DEF WriteLeave, Settle
<1>3. ApproveLeave(c.leave, leave[c.leave].version)
  BY <1>1, <1>2 DEF ApproveLeave, Approvable
<1>4. Next
  BY <1>1, <1>3 DEF Next, LeaveNext
<1>5. Spares(H)
  BY <1>1, <1>2, SettleSpares DEF Approvable
<1> QED
  BY <1>1, <1>4, <1>5 DEF Approvable

LEMMA CancelCommits ==
  ASSUME TypeOK, NEW c, c.op = "cancel", WellFormed(c, leave), NEW L, CancelAt(c, <<>>, L),
         WriteLeave(c), UNCHANGED directoryVars, NEW H, H \cap L = {}
  PROVE  Next /\ Spares(H) /\ Pending(c.leave)
<1>1. /\ c.leave \in LeaveId /\ leave[c.leave] # NoLeave /\ Pending(c.leave)
      /\ LeaveOf(leave[c.leave]) \notin H
  BY DEF WellFormed, CancelAt, CancelLeaveSteps
<1>2. Settle(c.leave, "CANCELLED")
  BY DEF WriteLeave, Settle
<1>3. CancelLeave(c.leave, leave[c.leave].version)
  BY <1>1, <1>2 DEF CancelLeave
<1>4. Next
  BY <1>1, <1>3 DEF Next, LeaveNext
<1>5. Spares(H)
  BY <1>1, <1>2, SettleSpares
<1> QED
  BY <1>1, <1>4, <1>5

LEMMA AllowCommits ==
  ASSUME TypeOK, NEW c, c.op = "allow", WellFormed(c, leave), NEW L, AllowAt(c, <<>>, L),
         WriteAllowance(c), UNCHANGED directoryVars, NEW H, H \cap L = {}
  PROVE  Next /\ Spares(H)
<1>1. c.days \in Allowance /\ AllowanceLock \notin H /\ Reducible(c)
  BY DEF WellFormed, AllowAt, AllowanceSteps
<1>2. /\ allowance' = [days |-> c.days, version |-> allowance.version + 1]
      /\ leave' = leave /\ UNCHANGED <<scheduleVars, bookingVars>>
  BY DEF WriteAllowance
<1>3. UpdateAllowance(c.days, allowance.version)
  BY <1>1, <1>2 DEF UpdateAllowance, Reducible
<1>4. Next
  BY <1>1, <1>3 DEF Next, LeaveNext
<1>5. SparesLeave(H) /\ SparesAllowance(H) /\ SparesBookings(H)
  BY <1>1, <1>2 DEF SparesLeave, SparesAllowance, SparesBookings, bookingVars
<1> QED
  BY <1>2, <1>4, <1>5, OthersSpare DEF Spares
-----------------------------------------------------------------------------
(* The inductive invariant *)

LEMMA ProgressKept ==
  ASSUME LocksInv, TypeOK', call' = call, NEW u \in Txn, Open(u)' <=> Open(u),
         target'[u] = target[u], todo'[u] = todo[u], held'[u] = held[u], Spares(held[u]),
         \A l \in LeaveId : leave[l] = NoLeave /\ leave'[l] # NoLeave =>
           (call[u].op = "submit" /\ call[u].leave = l => leave'[l].employee = call[u].employee)
  PROVE  ProgressOf(u)'
<1>1. PICK c, k, s, H : c = call[u] /\ k = target[u] /\ s = todo[u] /\ H = held[u]
  OBVIOUS
<1>2. CASE Open(u)
  <2>1. At(c, k, s, H)
    BY <1>1, <1>2 DEF LocksInv, Progress, ProgressOf
  <2>2. WellFormed(c, leave)
    BY <1>1 DEF LocksInv, CallsAsked
  <2>3. c.op = "submit" /\ leave[c.leave] = NoLeave /\ leave'[c.leave] # NoLeave =>
          leave'[c.leave].employee = c.employee
    BY <1>1, <2>2 DEF WellFormed
  <2>4. TypeOK /\ Rooted /\ Spares(H)
    BY <1>1 DEF LocksInv
  <2>5. At(c, k, s, H)'
    BY <2>1, <2>2, <2>3, <2>4, AtKept
  <2>6. c = call'[u] /\ k = target'[u] /\ s = todo'[u] /\ H = held'[u]
    BY <1>1
  <2>7. At(call[u], target[u], todo[u], held[u])'
    BY <2>5, <2>6
  <2> QED
    BY <1>2, <2>7 DEF ProgressOf
<1>3. CASE ~Open(u)
  BY <1>3 DEF LocksInv, Progress, ProgressOf
<1> QED
  BY <1>2, <1>3

LEMMA CommitSpares ==
  ASSUME LocksInv, NEW t \in Txn, Commit(t), NEW H, H \cap held[t] = {}
  PROVE  Next /\ Spares(H)
<1>1. PICK c, k, L : c = call[t] /\ k = target[t] /\ L = held[t]
  OBVIOUS
<1>2. At(c, k, <<>>, L)
  BY <1>1 DEF LocksInv, Progress, ProgressOf, Commit
<1>3. /\ TypeOK /\ Rooted /\ (\A x \in Client : clientLive[x]) /\ CallsAsked /\ BookingsMade
      /\ WellFormed(c, leave) /\ UNCHANGED directoryVars /\ H \cap L = {}
  BY <1>1 DEF LocksInv, CallsAsked, Commit
<1>4. Write(t)
  BY DEF Commit
<1>5. CASE c.op = "add"
  <2>1. AddAt(c, <<>>, L) /\ WriteRow(c)
    BY <1>1, <1>2, <1>4, <1>5 DEF At, Write
  <2> QED
    BY <1>3, <1>5, <2>1, AddCommits
<1>6. CASE c.op = "propose"
  <2>1. ProposeAt(c, <<>>, L) /\ WriteStatus(c)
    BY <1>1, <1>2, <1>4, <1>6 DEF At, Write
  <2> QED
    BY <1>3, <1>6, <2>1, ProposeCommits
<1>7. CASE c.op = "publish"
  <2>1. PublishAt(c, <<>>, L) /\ WriteStatus(c)
    BY <1>1, <1>2, <1>4, <1>7 DEF At, Write
  <2> QED
    BY <1>3, <1>7, <2>1, PublishCommits
<1>8. CASE c.op = "revise"
  <2>1. ReviseAt(c, <<>>, L) /\ WriteRevision(c)
    BY <1>1, <1>2, <1>4, <1>8 DEF At, Write
  <2> QED
    BY <1>3, <1>8, <2>1, ReviseCommits
<1>9. CASE c.op = "cover"
  <2>1. CoverAt(c, k, <<>>, L) /\ WriteCover(k, c.employee)
    BY <1>1, <1>2, <1>4, <1>9 DEF At, Write
  <2> QED
    BY <1>3, <1>9, <2>1, CoverCommits
<1>10. CASE c.op = "book"
  <2>1. BookAt(c, <<>>, L) /\ WriteBooking(c)
    BY <1>1, <1>2, <1>4, <1>10 DEF At, Write
  <2> QED
    BY <1>1, <1>3, <1>10, <2>1, BookCommits
<1>11. CASE c.op = "submit"
  <2>1. SubmitAt(c, <<>>, L) /\ WriteRequest(c)
    BY <1>1, <1>2, <1>4, <1>11 DEF At, Write
  <2> QED
    BY <1>3, <1>11, <2>1, SubmitCommits
<1>12. CASE c.op = "approve"
  <2>1. ApproveAt(c, <<>>, L) /\ WriteLeave(c)
    BY <1>1, <1>2, <1>4, <1>12 DEF At, Write
  <2> QED
    BY <1>3, <1>12, <2>1, ApproveCommits
<1>13. CASE c.op = "cancel"
  <2>1. CancelAt(c, <<>>, L) /\ WriteLeave(c)
    BY <1>1, <1>2, <1>4, <1>13 DEF At, Write
  <2> QED
    BY <1>3, <1>13, <2>1, CancelCommits
<1>14. CASE c.op = "allow"
  <2>1. AllowAt(c, <<>>, L) /\ WriteAllowance(c)
    BY <1>1, <1>2, <1>4, <1>14 DEF At, Write
  <2> QED
    BY <1>3, <1>14, <2>1, AllowCommits
<1> QED
  BY <1>2, <1>5, <1>6, <1>7, <1>8, <1>9, <1>10, <1>11, <1>12, <1>13, <1>14 DEF At
(* A request is inserted by the one call that was asked for it. *)
LEMMA RequestInserted ==
  ASSUME LocksInv, NEW t \in Txn, Commit(t),
         NEW l \in LeaveId, leave[l] = NoLeave, leave'[l] # NoLeave,
         NEW u \in Txn, call[u].op = "submit", call[u].leave = l
  PROVE  leave'[l].employee = call[u].employee
<1>1. PICK c : c = call[t]
  OBVIOUS
<1>2. WellFormed(c, leave) /\ Write(t) /\ TypeOK
  BY <1>1 DEF LocksInv, CallsAsked, Commit
<1>3. leave' # leave
  OBVIOUS
<1>4. c.op = "submit" /\ WriteRequest(c)
  <2>1. ASSUME c.op \in {"approve", "cancel"}, WriteLeave(c)
        PROVE  FALSE
    <3>1. c.leave \in LeaveId /\ leave[c.leave] # NoLeave
      BY <1>2, <2>1 DEF WellFormed
    <3>2. \A m \in LeaveId : m # c.leave => leave'[m] = leave[m]
      BY <1>2, <2>1, <3>1 DEF WriteLeave, TypeOK
    <3> QED
      BY <3>1, <3>2
  <2> QED
    BY <1>1, <1>2, <1>3, <2>1
       DEF Write, WriteRow, WriteStatus, WriteRevision, WriteCover, WriteBooking, WriteAllowance, leaveVars
<1>5. /\ c.leave \in LeaveId
      /\ leave' = [leave EXCEPT ![c.leave] =
           [status |-> "PENDING", employee |-> c.employee, first |-> c.first, last |-> c.last, version |-> 1]]
  BY <1>2, <1>4 DEF WellFormed, WriteRequest
<1>6. c.leave = l /\ leave'[l].employee = c.employee
  BY <1>2, <1>5 DEF TypeOK
<1>7. call[u] = c
  BY <1>1, <1>4, <1>6 DEF LocksInv, CallsAsked, SameInsertion
<1> QED
  BY <1>6, <1>7

LEMMA BookingsStay ==
  ASSUME LocksInv, NEW t \in Txn, Commit(t)
  PROVE  BookingsMade'
<1>1. PICK c : c = call[t]
  OBVIOUS
<1>2. call' = call /\ Write(t) /\ BookingsMade
  BY DEF Commit, Ends, LocksInv
<1>3. ASSUME NEW b \in BookingId, booking'[b] = booking[b], booking'[b] # NoBooking
      PROVE  /\ ActiveBooking(b)'
             /\ \E u \in Txn :
                  /\ call'[u].op = "book" /\ call'[u].batch = b[1] /\ b[2] \in call'[u].team
                  /\ booking'[b].first = call'[u].first /\ booking'[b].last = call'[u].last
  BY <1>2, <1>3 DEF BookingsMade, ActiveBooking
<1>4. ASSUME NEW b \in BookingId, booking'[b] # booking[b]
      PROVE  /\ ActiveBooking(b)'
             /\ call'[t].op = "book" /\ call'[t].batch = b[1] /\ b[2] \in call'[t].team
             /\ booking'[b].first = call'[t].first /\ booking'[b].last = call'[t].last
  <2>1. c.op = "book" /\ WriteBooking(c)
    BY <1>1, <1>2, <1>4
       DEF Write, WriteRow, WriteStatus, WriteRevision, WriteCover, WriteRequest, WriteLeave,
           WriteAllowance, bookingVars
  <2>2. /\ b[1] = c.batch /\ b[2] \in c.team
        /\ booking'[b] = [state |-> "ACTIVE", client |-> c.client,
                          first |-> c.first, last |-> c.last, version |-> 1]
    BY <1>4, <2>1 DEF WriteBooking
  <2> QED
    BY <1>1, <1>2, <2>1, <2>2 DEF ActiveBooking
<1> QED
  BY <1>3, <1>4 DEF BookingsMade

LEMMA InvInit == LocksInit => LocksInv
<1> SUFFICES ASSUME LocksInit
             PROVE  LocksInv
  OBVIOUS
<1>1. PICK scene \in Scene :
        /\ period = scene.period /\ row = scene.row /\ leave = scene.leave
        /\ \E days \in scene.days : allowance = [days |-> days, version |-> 1]
        /\ \E calls \in scene.calls : call = [t \in Txn |-> calls[t]]
  BY DEF LocksInit
<1>2. /\ stage = [t \in Txn |-> "new"] /\ todo = [t \in Txn |-> <<>>] /\ seen = [t \in Txn |-> 0]
      /\ target = [t \in Txn |-> <<>>] /\ held = [t \in Txn |-> {}]
      /\ booking = [b \in BookingId |-> NoBooking] /\ employed = [e \in Employee |-> TRUE]
      /\ project = [s \in Site |-> "UNFINISHED"] /\ reachable = [s \in Site |-> TRUE]
      /\ clientLive = [c \in Client |-> TRUE]
  BY DEF LocksInit
<1>3. /\ scene.period \in [PeriodId -> PeriodRec]
      /\ scene.row \in [RowId -> RowRec \cup {NoRow}]
      /\ scene.leave \in [LeaveId -> LeaveRec \cup {NoLeave}]
      /\ scene.days \subseteq Nat
  BY SceneAssumption
<1>4. TypeOK
  <2>1. allowance \in [days : Nat, version : Nat]
    BY <1>1, <1>3
  <2> QED
    BY <1>1, <1>2, <1>3, <2>1 DEF TypeOK, ProjectStatus
<1>5. Rooted
  <2>1. \A k \in RowId : scene.row[k] # NoRow => scene.period[k[1]].status # "ABSENT"
    BY SceneAssumption
  <2>2. \A id \in PeriodId :
          /\ scene.period[id].parent < id[2]
          /\ scene.period[id].status # "ABSENT" => scene.period[<<id[1], 1>>].status # "ABSENT"
    BY SceneAssumption
  <2> QED
    BY <1>1, <2>1, <2>2 DEF Rooted, Present
<1>6. CallsAsked
  <2>1. PICK calls \in scene.calls : call = [t \in Txn |-> calls[t]]
    BY <1>1
  <2>2. /\ \A t \in Txn : WellFormed(calls[t], scene.leave)
        /\ \A t, u \in Txn : SameInsertion(calls[t], calls[u]) => calls[t] = calls[u]
    BY SceneAssumption
  <2>3. \A t \in Txn : call[t] = calls[t]
    BY <2>1
  <2>4. \A t \in Txn : WellFormed(call[t], leave)
    BY <1>1, <2>2, <2>3
  <2>5. \A t, u \in Txn : SameInsertion(call[t], call[u]) => call[t] = call[u]
    BY <2>2, <2>3
  <2> QED
    BY <2>4, <2>5 DEF CallsAsked
<1>7. Tables /\ Exclusive /\ Progress /\ BookingsMade /\ \A c \in Client : clientLive[c]
  BY <1>2 DEF Tables, Exclusive, Progress, ProgressOf, Open, BookingsMade
<1> QED
  BY <1>4, <1>5, <1>6, <1>7 DEF LocksInv

(* Steps that write no table. *)
LEMMA IdleKeeps ==
  ASSUME LocksInv, UNCHANGED vars, call' = call
  PROVE  /\ TypeOK' /\ Rooted' /\ (\A c \in Client : clientLive'[c]) /\ CallsAsked' /\ BookingsMade'
         /\ \A u \in Txn : /\ Open(u)' <=> Open(u)
                           /\ target'[u] = target[u] /\ todo'[u] = todo[u] /\ held'[u] = held[u]
                           => ProgressOf(u)'
<1>1. TypeOK'
  BY DEF LocksInv, TypeOK, vars
<1>2. Rooted' /\ (\A c \in Client : clientLive'[c])
  BY DEF LocksInv, Rooted, Present, vars
<1>3. leave' = leave /\ booking' = booking
  BY DEF vars
<1>4. CallsAsked' /\ BookingsMade'
  BY <1>3 DEF LocksInv, CallsAsked, BookingsMade, ActiveBooking
<1>5. ASSUME NEW u \in Txn, Open(u)' <=> Open(u),
             target'[u] = target[u], todo'[u] = todo[u], held'[u] = held[u]
      PROVE  ProgressOf(u)'
  BY <1>1, <1>3, <1>5, IdleSpares, ProgressKept
<1> QED
  BY <1>1, <1>2, <1>4, <1>5

LEMMA BeginKeeps ==
  ASSUME LocksInv, NEW t \in Txn, Begin(t)
  PROVE  LocksInv'
<1>1. /\ UNCHANGED vars /\ call' = call /\ target' = target /\ held' = held
      /\ stage' = [stage EXCEPT ![t] = "open"]
      /\ todo' = [todo EXCEPT ![t] = Steps(call[t])]
      /\ seen' = [seen EXCEPT ![t] = Seen(call[t])] /\ stage[t] = "new"
  BY DEF Begin
<1>2. Tables'
  BY <1>1 DEF LocksInv, Tables
<1>3. Exclusive'
  BY <1>1 DEF LocksInv, Exclusive
<1>4. ASSUME NEW u \in Txn, u # t
      PROVE  ProgressOf(u)'
  <2>1. (Open(u)' <=> Open(u)) /\ todo'[u] = todo[u]
    BY <1>1, <1>4 DEF LocksInv, Tables, Open
  <2> QED
    BY <1>1, <2>1, IdleKeeps
<1>5. ProgressOf(t)'
  <2>1. held[t] = {} /\ TypeOK /\ Rooted /\ WellFormed(call[t], leave)
    BY <1>1 DEF LocksInv, Progress, ProgressOf, Open, CallsAsked
  <2>2. PICK c, k, s : c = call[t] /\ k = target[t] /\ s = Steps(call[t])
    OBVIOUS
  <2>3. At(c, k, s, {})
    BY <2>1, <2>2, AtBegin
  <2>4. TypeOK' /\ leave' = leave /\ Spares({})
    BY <1>1, IdleKeeps, IdleSpares DEF vars
  <2>5. At(c, k, s, {})'
    BY <2>1, <2>2, <2>3, <2>4, AtKept
  <2>6. c = call'[t] /\ k = target'[t] /\ s = todo'[t] /\ held'[t] = {} /\ Open(t)'
    BY <1>1, <2>1, <2>2 DEF LocksInv, Tables, Open
  <2>7. At(call[t], target[t], todo[t], held[t])'
    BY <2>5, <2>6
  <2> QED
    BY <2>6, <2>7 DEF ProgressOf
<1>6. Progress'
  BY <1>4, <1>5 DEF Progress
<1> QED
  BY <1>1, <1>2, <1>3, <1>6, IdleKeeps DEF LocksInv

LEMMA MovesKeep ==
  ASSUME LocksInv, NEW t \in Txn, Moves(t)
  PROVE  LocksInv'
<1>1. /\ UNCHANGED vars /\ call' = call /\ stage' = stage /\ seen' = seen
      /\ Open(t)
  BY DEF Moves, TakeLock, Pass, ChooseTarget, Choose, AtStep
<1>2. Tables' /\ \A u \in Txn : u # t => /\ target'[u] = target[u] /\ todo'[u] = todo[u]
                                         /\ held'[u] = held[u]
  BY DEF LocksInv, Tables, Moves, TakeLock, Pass, ChooseTarget, Choose
<1>3. Exclusive'
  <2>1. \A u \in Txn : u # t => held'[t] \cap held[u] = {}
    <3>1. CASE TakeLock(t)
      <4>1. PICK lock : /\ \A u \in Txn \ {t} : lock \notin held[u]
                        /\ held' = [held EXCEPT ![t] = @ \cup {lock}]
        BY <3>1 DEF TakeLock
      <4>2. held'[t] = held[t] \cup {lock}
        BY <4>1 DEF LocksInv, Tables
      <4> QED
        BY <4>1, <4>2 DEF LocksInv, Exclusive
    <3>2. CASE Pass(t) \/ ChooseTarget(t) \/ Choose(t)
      <4>1. held' = held
        BY <3>2 DEF Pass, ChooseTarget, Choose
      <4> QED
        BY <4>1 DEF LocksInv, Exclusive
    <3> QED
      BY <3>1, <3>2 DEF Moves
  <2> QED
    BY <1>2, <2>1 DEF LocksInv, Exclusive
<1>4. ASSUME NEW u \in Txn, u # t
      PROVE  ProgressOf(u)'
  <2>1. Open(u)' <=> Open(u)
    BY <1>1 DEF Open
  <2> QED
    BY <1>1, <1>2, <1>4, <2>1, IdleKeeps
<1>5. ProgressOf(t)'
  <2>1. TypeOK /\ Rooted /\ Tables /\ WellFormed(call[t], leave)
    BY DEF LocksInv, CallsAsked
  <2>2. At(call[t], target[t], todo[t], held[t])
    BY <1>1 DEF LocksInv, Progress, ProgressOf
  <2>3. PICK c, k, s, H : c = call[t] /\ k = target'[t] /\ s = todo'[t] /\ H = held'[t]
    OBVIOUS
  <2>4. At(c, k, s, H)
    BY <2>1, <2>2, <2>3, AtMoves
  <2>5. TypeOK' /\ leave' = leave /\ Spares(H)
    BY <1>1, IdleKeeps, IdleSpares DEF vars
  <2>6. WellFormed(c, leave)
    BY <2>1, <2>3
  <2>7. At(c, k, s, H)'
    BY <2>1, <2>4, <2>5, <2>6, AtKept
  <2>8. c = call'[t] /\ Open(t)'
    BY <1>1, <2>3 DEF Open
  <2>9. At(call[t], target[t], todo[t], held[t])'
    BY <2>3, <2>7, <2>8
  <2> QED
    BY <2>8, <2>9 DEF ProgressOf
<1>6. Progress'
  BY <1>4, <1>5 DEF Progress
<1> QED
  BY <1>1, <1>2, <1>3, <1>6, IdleKeeps DEF LocksInv

(* A transaction that ends holds nothing. *)
LEMMA EndKeeps ==
  ASSUME LocksInv, NEW t \in Txn, NEW how \in {"done", "refused", "victim"}, Ends(t, how)
  PROVE  /\ call' = call /\ Tables' /\ Exclusive' /\ ProgressOf(t)'
         /\ \A u \in Txn : u # t => /\ Open(u)' <=> Open(u)
                                    /\ target'[u] = target[u] /\ todo'[u] = todo[u]
                                    /\ held'[u] = held[u]
<1>1. /\ stage' = [stage EXCEPT ![t] = how]
      /\ todo' = [todo EXCEPT ![t] = <<>>]
      /\ held' = [held EXCEPT ![t] = {}]
      /\ UNCHANGED <<call, seen, target>>
  BY DEF Ends
<1>2. Tables' /\ stage'[t] = how /\ held'[t] = {}
      /\ \A u \in Txn : u # t => /\ stage'[u] = stage[u]
                                 /\ target'[u] = target[u] /\ todo'[u] = todo[u]
                                 /\ held'[u] = held[u]
  BY <1>1 DEF LocksInv, Tables
<1>3. Exclusive'
  BY <1>2 DEF LocksInv, Exclusive
<1>4. ProgressOf(t)'
  BY <1>2 DEF ProgressOf, Open
<1> QED
  BY <1>1, <1>2, <1>3, <1>4 DEF Open

LEMMA RolledBackKeeps ==
  ASSUME LocksInv, NEW t \in Txn, Refuse(t) \/ Abort(t)
  PROVE  LocksInv'
<1>1. PICK how \in {"done", "refused", "victim"} : Ends(t, how)
  BY DEF Refuse, Abort
<1>2. UNCHANGED vars
  BY DEF Refuse, Abort
<1>3. /\ call' = call /\ Tables' /\ Exclusive' /\ ProgressOf(t)'
      /\ \A u \in Txn : u # t => /\ Open(u)' <=> Open(u)
                                 /\ target'[u] = target[u] /\ todo'[u] = todo[u]
                                 /\ held'[u] = held[u]
  BY <1>1, EndKeeps
<1>4. Progress'
  BY <1>2, <1>3, IdleKeeps DEF Progress
<1> QED
  BY <1>2, <1>3, <1>4, IdleKeeps DEF LocksInv

LEMMA CommitKeeps ==
  ASSUME LocksInv, NEW t \in Txn, Commit(t)
  PROVE  LocksInv' /\ Next
<1>1. TypeOK /\ Rooted /\ BookingsMade /\ CallsAsked /\ \A c \in Client : clientLive[c]
  BY DEF LocksInv
<1>2. Next /\ Spares({})
  BY CommitSpares
<1>3. TypeOK'
  BY <1>1, <1>2, SchedulingType, LeaveType, OutsourcingType, DirectoryType DEF Next
<1>4. Rooted'
  <2>1. CASE SchedulingNext
    BY <1>1, <2>1, SchedulingRooted
  <2>2. CASE LeaveNext \/ OutsourcingNext \/ DirectoryNext
    <3>1. period' = period /\ row' = row
      BY <2>2, OthersKeepSchedule DEF scheduleVars
    <3> QED
      BY <1>1, <3>1 DEF Rooted, Present
  <2> QED
    BY <1>2, <2>1, <2>2 DEF Next
<1>5. Ends(t, "done") /\ UNCHANGED directoryVars
  BY DEF Commit
<1>6. /\ call' = call /\ Tables' /\ Exclusive' /\ ProgressOf(t)'
      /\ \A u \in Txn : u # t => /\ Open(u)' <=> Open(u)
                                 /\ target'[u] = target[u] /\ todo'[u] = todo[u]
                                 /\ held'[u] = held[u]
  BY <1>5, EndKeeps
<1>7. \A c \in Client : clientLive'[c]
  BY <1>1, <1>5 DEF directoryVars
<1>8. CallsAsked'
  <2>1. \A l \in LeaveId : leave[l] # NoLeave => leave'[l] # NoLeave
    BY <1>2 DEF Spares, SparesLeave
  <2>2. ASSUME NEW u \in Txn
        PROVE  WellFormed(call[u], leave')
    <3>1. WellFormed(call[u], leave)
      BY <1>1 DEF CallsAsked
    <3> QED
      BY <2>1, <3>1 DEF WellFormed
  <2> QED
    BY <1>1, <1>6, <2>2 DEF CallsAsked
<1>9. BookingsMade'
  BY BookingsStay
<1>10. ASSUME NEW u \in Txn, u # t
       PROVE  ProgressOf(u)'
  <2>1. held[u] \cap held[t] = {}
    BY <1>10 DEF LocksInv, Exclusive
  <2>2. Spares(held[u])
    BY <2>1, CommitSpares
  <2>3. \A l \in LeaveId : leave[l] = NoLeave /\ leave'[l] # NoLeave =>
          (call[u].op = "submit" /\ call[u].leave = l => leave'[l].employee = call[u].employee)
    BY RequestInserted
  <2> QED
    BY <1>3, <1>6, <1>10, <2>2, <2>3, ProgressKept
<1>11. Progress'
  BY <1>6, <1>10 DEF Progress
<1> QED
  BY <1>2, <1>3, <1>4, <1>6, <1>7, <1>8, <1>9, <1>11 DEF LocksInv

LEMMA InvStep == LocksInv /\ [LocksNext]_<<vars, lockVars>> => LocksInv' /\ [Next]_vars
<1> SUFFICES ASSUME LocksInv, [LocksNext]_<<vars, lockVars>>
             PROVE  LocksInv' /\ [Next]_vars
  OBVIOUS
<1>1. ASSUME NEW t \in Txn, Begin(t)
      PROVE  LocksInv' /\ UNCHANGED vars
  BY <1>1, BeginKeeps DEF Begin
<1>2. ASSUME NEW t \in Txn, Moves(t)
      PROVE  LocksInv' /\ UNCHANGED vars
  BY <1>2, MovesKeep DEF Moves, TakeLock, Pass, ChooseTarget, Choose
<1>3. ASSUME NEW t \in Txn, Refuse(t) \/ Abort(t)
      PROVE  LocksInv' /\ UNCHANGED vars
  BY <1>3, RolledBackKeeps DEF Refuse, Abort
<1>4. ASSUME NEW t \in Txn, Commit(t)
      PROVE  LocksInv' /\ Next
  BY <1>4, CommitKeeps
<1>5. CASE UNCHANGED <<vars, lockVars>>
  <2>1. UNCHANGED vars
    BY <1>5
  <2>2. UNCHANGED <<call, stage, todo, seen, target, held>>
    BY <1>5 DEF lockVars
  <2>3. Tables' /\ Exclusive'
    BY <2>2 DEF LocksInv, Tables, Exclusive
  <2>4. Progress'
    BY <2>1, <2>2, IdleKeeps DEF Progress, Open
  <2> QED
    BY <2>1, <2>2, <2>3, <2>4, IdleKeeps DEF LocksInv
<1> QED
  BY <1>1, <1>2, <1>3, <1>4, <1>5 DEF LocksNext, Advance, Moves

LEMMA LocksInvariant == LocksSpec => []LocksInv
  BY InvInit, InvStep, PTL DEF LocksSpec

(***************************************************************************)
(* Every commit of a transaction is one step of Workforce, whatever other  *)
(* transactions have committed between its checks and its writes: the      *)
(* locks of the services make each call atomic.                            *)
(***************************************************************************)
THEOREM CommitsAreAtomic == LocksSpec => Atomic
<1>1. LocksInv /\ [LocksNext]_<<vars, lockVars>> => [vars' # vars => Next]_vars
  BY InvStep
<1> QED
  BY <1>1, LocksInvariant, PTL DEF LocksSpec, Atomic
(***************************************************************************)
(* Nobody is booked twice either when calls interleave: their commits keep *)
(* the invariant of the schedule that Workforce's own steps keep.          *)
(***************************************************************************)
THEOREM InterleavedNobodyBookedTwice ==
  ScheduleInv /\ LocksSpec => []NoDoubleBooking
<1>1. LocksInv /\ ScheduleInv /\ [LocksNext]_<<vars, lockVars>> => ScheduleInv'
  <2>1. LocksInv => TypeOK
    BY DEF LocksInv
  <2> QED
    BY <2>1, InvStep, ScheduleStep
<1>2. ScheduleInv => NoDoubleBooking
  BY DEF ScheduleInv
<1> QED
  BY <1>1, <1>2, LocksInvariant, PTL DEF LocksSpec

-----------------------------------------------------------------------------
(* The order in which locks are taken *)

Locks ==
  {AllowanceLock} \cup {PeriodLock(id) : id \in PeriodId} \cup {PlanLock(p) : p \in Plan}
    \cup OverlapLocks(Employee, Date) \cup LeaveLocks(Employee)
    \cup {RequestLock(l) : l \in LeaveId}

Level(a) ==
  CASE a[1] = "leave_allowance_settings" -> 1
    [] a[1] = "schedule_periods" -> 2
    [] a[1] = "schedule-period"  -> 3
    [] a[1] = "schedule-overlap" -> 4
    [] a[1] = "leave"            -> 5
    [] a[1] = "leave_requests"   -> 6

(* All locks of one level before those of the next; on the two levels of   *)
(* which a call takes several locks, in key order.                         *)
Below(a, b) ==
  \/ Level(a) < Level(b)
  \/ Level(a) = Level(b) /\ Level(a) \in {4, 5} /\ Before(a, b)

LEMMA Levels ==
  /\ Level(AllowanceLock) = 1
  /\ \A id : Level(PeriodLock(id)) = 2
  /\ \A p : Level(PlanLock(p)) = 3
  /\ \A e, d : Level(OverlapLock(e, d)) = 4
  /\ \A e : Level(LeaveLock(e)) = 5
  /\ \A l : Level(RequestLock(l)) = 6
BY DEF Level, AllowanceLock, PeriodLock, PlanLock, OverlapLock, LeaveLock, RequestLock

LEMMA KeyOrder ==
  /\ \A e, f \in Employee, d, x \in Date :
       Before(OverlapLock(e, d), OverlapLock(f, x)) <=> Rank[e] < Rank[f] \/ (e = f /\ d < x)
  /\ \A e, f \in Employee : Before(LeaveLock(e), LeaveLock(f)) <=> Rank[e] < Rank[f]
BY DEF Before, OverlapLock, LeaveLock

LEMMA LockKinds ==
  ASSUME NEW a \in Locks
  PROVE  /\ Level(a) \in 1 .. 6
         /\ Level(a) = 4 => \E e \in Employee, d \in Date : a = OverlapLock(e, d)
         /\ Level(a) = 5 => \E e \in Employee : a = LeaveLock(e)
BY Levels DEF Locks, OverlapLocks, LeaveLocks

LEMMA BelowIrreflexive ==
  ASSUME NEW a \in Locks
  PROVE  ~Below(a, a)
<1>1. Level(a) \in 1 .. 6
  BY LockKinds
<1>2. ASSUME NEW e \in Employee, NEW d \in Date, a = OverlapLock(e, d)
      PROVE  ~Before(a, a)
  BY <1>2, KeyOrder, RankAssumption, CalendarAssumption
<1>3. ASSUME NEW e \in Employee, a = LeaveLock(e)
      PROVE  ~Before(a, a)
  BY <1>3, KeyOrder, RankAssumption
<1> QED
  BY <1>1, <1>2, <1>3, LockKinds DEF Below

LEMMA BelowTransitive ==
  ASSUME NEW a \in Locks, NEW b \in Locks, NEW c \in Locks, Below(a, b), Below(b, c)
  PROVE  Below(a, c)
<1>1. /\ Level(a) \in 1 .. 6 /\ Level(b) \in 1 .. 6 /\ Level(c) \in 1 .. 6
  BY LockKinds
<1>2. CASE Level(a) < Level(b) \/ Level(b) < Level(c)
  BY <1>1, <1>2 DEF Below
<1>3. CASE Level(a) = 4 /\ Level(b) = 4 /\ Level(c) = 4 /\ Before(a, b) /\ Before(b, c)
  <2>1. PICK e \in Employee, d \in Date : a = OverlapLock(e, d)
    BY <1>3, LockKinds
  <2>2. PICK f \in Employee, x \in Date : b = OverlapLock(f, x)
    BY <1>3, LockKinds
  <2>3. PICK g \in Employee, y \in Date : c = OverlapLock(g, y)
    BY <1>3, LockKinds
  <2>4. /\ Rank[e] < Rank[f] \/ (e = f /\ d < x)
        /\ Rank[f] < Rank[g] \/ (f = g /\ x < y)
    BY <1>3, <2>1, <2>2, <2>3, KeyOrder
  <2>5. Rank[e] < Rank[g] \/ (e = g /\ d < y)
    BY <2>4, RankAssumption, CalendarAssumption
  <2>6. Before(a, c)
    BY <2>1, <2>3, <2>5, KeyOrder
  <2> QED
    BY <1>3, <2>6 DEF Below
<1>4. CASE Level(a) = 5 /\ Level(b) = 5 /\ Level(c) = 5 /\ Before(a, b) /\ Before(b, c)
  <2>1. PICK e, f, g \in Employee : a = LeaveLock(e) /\ b = LeaveLock(f) /\ c = LeaveLock(g)
    BY <1>4, LockKinds
  <2>2. Before(a, c)
    BY <1>4, <2>1, KeyOrder, RankAssumption
  <2> QED
    BY <1>4, <2>2 DEF Below
<1> QED
  BY <1>1, <1>2, <1>3, <1>4 DEF Below

(* Of finitely many who each want a lock, one wants none below another's.  *)
LEMMA SomeoneWantsTheTop ==
  ASSUME NEW S, IsFiniteSet(S), S # {}, NEW W \in [S -> Locks]
  PROVE  \E t \in S : \A u \in S : ~Below(W[t], W[u])
<1> DEFINE Up(t) == {v \in S : Below(W[t], W[v])}
           ups == {Up(t) : t \in S}
<1>1. ups # {} /\ ups \subseteq FiniteSubsetsOf(S)
  <2>1. \A t \in S : Up(t) \subseteq S
    OBVIOUS
  <2>2. \A t \in S : IsFiniteSet(Up(t))
    BY <2>1, FS_Subset
  <2> HIDE DEF Up
  <2>3. \A t \in S : Up(t) \in FiniteSubsetsOf(S)
    BY <2>1, <2>2 DEF FiniteSubsetsOf
  <2> QED
    BY <2>3
<1>2. PICK x \in ups : \A y \in ups : ~(<<y, x>> \in StrictSubsetOrdering(S))
  <2> HIDE DEF ups
  <2>1. IsWellFoundedOn(StrictSubsetOrdering(S), FiniteSubsetsOf(S))
    BY FS_StrictSubsetOrderingWellFounded
  <2> QED
    BY <1>1, <2>1, WFMin
<1>3. PICK t \in S : x = Up(t)
  OBVIOUS
<1>4. ASSUME NEW u \in S, Below(W[t], W[u])
      PROVE  FALSE
  <2>1. Up(u) \subseteq Up(t)
    BY <1>4, BelowTransitive
  <2>2. u \in Up(t) /\ u \notin Up(u)
    BY <1>4, BelowIrreflexive
  <2>3. Up(u) \in ups /\ Up(t) \subseteq S /\ Up(u) \subseteq S
    OBVIOUS
  <2> QED
    BY <1>2, <1>3, <2>1, <2>2, <2>3 DEF StrictSubsetOrdering
<1> QED
  BY <1>4
(* What a transaction waits for stands above all it holds. *)
Ascends(s, H) ==
  s # <<>> /\ Head(s).do = "take" =>
    \A lock \in NextLock(Head(s).locks) : lock \in Locks /\ \A a \in H : Below(a, lock)

LEMMA NoTakeAscends ==
  ASSUME NEW name, NEW b, NEW d, NEW H
  PROVE  /\ Ascends(<<>>, H)
         /\ Ascends(<< Check(name) >>, H) /\ Ascends(<< Check(name), b >>, H)
         /\ Ascends(<< Check(name), b, d >>, H)
         /\ Ascends(<< Decide(name) >>, H) /\ Ascends(<< Decide(name), b >>, H)
BY ListEnds DEF Ascends, Check, Decide

LEMMA FourAscend ==
  ASSUME NEW name, NEW b, NEW d, NEW e, NEW H
  PROVE  Ascends(<< Check(name), b, d, e >>, H)
BY ListEnds DEF Ascends, Check

LEMMA TakeAscends ==
  ASSUME NEW lock \in Locks, NEW H, \A a \in H : Below(a, lock), NEW b, NEW d, NEW e, NEW f
  PROVE  /\ Ascends(<< Take({lock}), b >>, H) /\ Ascends(<< Take({lock}), b, d >>, H)
         /\ Ascends(<< Take({lock}), b, d, e >>, H)
         /\ Ascends(<< Take({lock}), b, d, e, f >>, H)
<1>1. Take({lock}).locks = {lock}
  BY DEF Take
<1>2. NextLock({lock}) \subseteq {lock}
  BY DEF NextLock
<1>3. \A x \in NextLock({lock}) : x \in Locks /\ \A a \in H : Below(a, x)
  BY <1>2
<1>4. PICK a : a = Take({lock})
  OBVIOUS
<1> QED
  BY <1>1, <1>3, <1>4, ListEnds DEF Ascends

LEMMA TakesAscend ==
  ASSUME NEW K, NEW H, \A x \in K : x \in Locks /\ \A a \in H : Below(a, x), NEW b, NEW d
  PROVE  Ascends(<< Take(K), b >>, H) /\ Ascends(<< Take(K), b, d >>, H)
<1>1. Take(K).locks = K
  BY DEF Take
<1>2. \A x \in NextLock(K) : x \in Locks /\ \A a \in H : Below(a, x)
  BY DEF NextLock
<1> QED
  BY <1>1, <1>2, ListEnds DEF Ascends

LEMMA LocksAre ==
  /\ AllowanceLock \in Locks
  /\ \A id \in PeriodId : PeriodLock(id) \in Locks /\ PlanLock(id[1]) \in Locks
  /\ \A e \in Employee : LeaveLock(e) \in Locks
  /\ \A e \in Employee, d \in Date : OverlapLock(e, d) \in Locks
  /\ \A w \in Work : OverlapOf(w) \in Locks /\ LeaveOf(w) \in Locks
  /\ \A l \in LeaveId : RequestLock(l) \in Locks
BY PeriodKeys DEF Locks, OverlapLocks, LeaveLocks, OverlapOf, LeaveOf, Work

LEMMA LevelBelow ==
  /\ \A l : Below(AllowanceLock, RequestLock(l))
  /\ \A e : Below(AllowanceLock, LeaveLock(e))
  /\ \A id, p : Below(PeriodLock(id), PlanLock(p))
  /\ \A id, e, d : Below(PeriodLock(id), OverlapLock(e, d))
  /\ \A id, e : Below(PeriodLock(id), LeaveLock(e))
  /\ \A p, e, d : Below(PlanLock(p), OverlapLock(e, d))
  /\ \A p, e : Below(PlanLock(p), LeaveLock(e))
  /\ \A e, d, f : Below(OverlapLock(e, d), LeaveLock(f))
  /\ \A e, l : Below(LeaveLock(e), RequestLock(l))
BY Levels DEF Below

LEMMA WorkBelow ==
  ASSUME NEW id, NEW p, NEW w
  PROVE  /\ Below(PeriodLock(id), OverlapOf(w)) /\ Below(PeriodLock(id), LeaveOf(w))
         /\ Below(PlanLock(p), OverlapOf(w)) /\ Below(PlanLock(p), LeaveOf(w))
         /\ Below(OverlapOf(w), LeaveOf(w))
BY LevelBelow DEF OverlapOf, LeaveOf

LEMMA AddAscends ==
  ASSUME NEW c, c.op = "add", WellFormed(c, leave), NEW s, NEW H, AddAt(c, s, H)
  PROVE  Ascends(s, H)
<1>1. PeriodLock(c.period) \in Locks /\ OverlapOf(c.work) \in Locks /\ LeaveOf(c.work) \in Locks
  BY LocksAre DEF WellFormed
<1>2. CASE s = AddSteps(c) /\ H = {}
  BY <1>1, <1>2, TakeAscends DEF AddSteps
<1>3. CASE s = << Take({OverlapOf(c.work)}), Take({LeaveOf(c.work)}), Check("fits") >>
           /\ H = {PeriodLock(c.period)}
  BY <1>1, <1>3, TakeAscends, WorkBelow
<1>4. CASE s = << Take({LeaveOf(c.work)}), Check("fits") >>
           /\ H = {PeriodLock(c.period), OverlapOf(c.work)}
  BY <1>1, <1>4, TakeAscends, WorkBelow
<1>5. CASE \/ s = << Check("draft"), Take({OverlapOf(c.work)}), Take({LeaveOf(c.work)}), Check("fits") >>
           \/ s = << Check("fits") >> \/ s = <<>>
  BY <1>5, NoTakeAscends, FourAscend
<1> QED
  BY <1>2, <1>3, <1>4, <1>5 DEF AddAt

LEMMA ReviseAscends ==
  ASSUME NEW c, c.op = "revise", WellFormed(c, leave), NEW s, NEW H, ReviseAt(c, s, H)
  PROVE  Ascends(s, H)
<1>1. PeriodLock(c.period) \in Locks /\ PlanLock(c.period[1]) \in Locks
  BY LocksAre DEF WellFormed
<1>2. CASE s = ReviseSteps(c) /\ H = {}
  BY <1>1, <1>2, TakeAscends DEF ReviseSteps
<1>3. CASE s = << Take({PlanLock(c.period[1])}), Check("revisable") >> /\ H = {PeriodLock(c.period)}
  BY <1>1, <1>3, TakeAscends, LevelBelow
<1> QED
  BY <1>2, <1>3, NoTakeAscends DEF ReviseAt

LEMMA CoverAscends ==
  ASSUME TypeOK, NEW c, c.op = "cover", WellFormed(c, leave), NEW k, NEW s, NEW H, CoverAt(c, k, s, H)
  PROVE  Ascends(s, H)
<1>1. CASE s = CoverSteps(c) /\ H = {}
  BY <1>1, NoTakeAscends DEF CoverSteps
<1>2. ASSUME k \in RowId
      PROVE  PeriodLock(k[1]) \in Locks /\ PlanLock(k[1][1]) \in Locks
  BY <1>2, LocksAre, RowKeys
<1>3. CASE k \in RowId /\ s = << Take({PeriodLock(k[1])}), Check("copied"), Decide("staff") >> /\ H = {}
  BY <1>2, <1>3, TakeAscends
<1>4. CASE /\ k \in RowId /\ H = {}
           /\ s = << Take({PeriodLock(k[1])}), Check("anchored"), Decide("plan"), Decide("staff") >>
  BY <1>2, <1>4, TakeAscends
<1>5. CASE /\ k \in RowId /\ H = {PeriodLock(k[1])}
           /\ s = << Take({PlanLock(k[1][1])}), Check("uncopied"), Decide("staff") >>
  BY <1>2, <1>5, TakeAscends, LevelBelow
<1>6. ASSUME k \in RowId, NEW B, Based(k, B), NEW w, w = For(c.employee, row[k].work),
             \/ s = << Take({OverlapOf(w)}), Take({LeaveOf(w)}), Check("available") >> /\ H = B
             \/ s = << Take({LeaveOf(w)}), Check("available") >> /\ H = B \cup {OverlapOf(w)}
      PROVE  Ascends(s, H)
  <2>1. w \in Work
    BY <1>6, ForWork DEF WellFormed, Based
  <2>2. OverlapOf(w) \in Locks /\ LeaveOf(w) \in Locks
    BY <2>1, LocksAre
  <2>3. \A a \in B : Below(a, OverlapOf(w)) /\ Below(a, LeaveOf(w))
    BY <1>6, WorkBelow DEF Based
  <2>4. CASE s = << Take({OverlapOf(w)}), Take({LeaveOf(w)}), Check("available") >> /\ H = B
    BY <2>2, <2>3, <2>4, TakeAscends
  <2>5. CASE s = << Take({LeaveOf(w)}), Check("available") >> /\ H = B \cup {OverlapOf(w)}
    BY <2>2, <2>3, <2>5, TakeAscends, WorkBelow
  <2> QED
    BY <1>6, <2>4, <2>5
<1>7. CASE \/ s = << Check("copied"), Decide("staff") >>
           \/ s = << Check("anchored"), Decide("plan"), Decide("staff") >>
           \/ s = << Decide("plan"), Decide("staff") >>
           \/ s = << Check("uncopied"), Decide("staff") >>
           \/ s = << Decide("staff") >> \/ s = << Check("available") >> \/ s = <<>>
  BY <1>7, NoTakeAscends
<1>8. CASE k \in RowId /\ \E B \in SUBSET H : Based(k, B) /\
             LET w == For(c.employee, row[k].work) IN
             \/ s = << Take({OverlapOf(w)}), Take({LeaveOf(w)}), Check("available") >> /\ H = B
             \/ s = << Take({LeaveOf(w)}), Check("available") >> /\ H = B \cup {OverlapOf(w)}
  BY <1>6, <1>8
<1> QED
  BY <1>1, <1>3, <1>4, <1>5, <1>7, <1>8 DEF CoverAt

LEMMA BookAscends ==
  ASSUME NEW c, c.op = "book", WellFormed(c, leave), NEW s, NEW H, BookAt(c, s, H)
  PROVE  Ascends(s, H)
<1>1. PICK A : A = OverlapLocks(c.team, BookedDays(c))
  OBVIOUS
<1>2. PICK B : B = LeaveLocks(c.team)
  OBVIOUS
<1>3. \A a \in A : \E e \in Employee, d \in Date : a = OverlapLock(e, d)
  BY <1>1 DEF WellFormed, OverlapLocks, BookedDays
<1>4. \A b \in B : \E e \in Employee : b = LeaveLock(e)
  BY <1>2 DEF WellFormed, LeaveLocks
<1>5. /\ \A a \in A : a \in Locks /\ Level(a) = 4
      /\ \A b \in B : b \in Locks /\ Level(b) = 5
  BY <1>3, <1>4, LocksAre, Levels
<1>6. ASSUME NEW K \in SUBSET A, s = << Take(K), Take(B), Check("bookable") >>,
             H = A \ K, Passed(H, K)
      PROVE  Ascends(s, H)
  <2>1. \A x \in K : x \in Locks /\ \A a \in H : Below(a, x)
    BY <1>5, <1>6 DEF Passed, Below
  <2> QED
    BY <1>6, <2>1, TakesAscend
<1>7. ASSUME NEW K \in SUBSET B, s = << Take(K), Check("bookable") >>,
             H = A \cup (B \ K), Passed(B \ K, K)
      PROVE  Ascends(s, H)
  <2>1. \A x \in K : x \in Locks /\ \A a \in H : Below(a, x)
    BY <1>5, <1>7 DEF Passed, Below
  <2> QED
    BY <1>7, <2>1, TakesAscend
<1>8. CASE s = << Check("bookable") >> \/ s = <<>>
  BY <1>8, NoTakeAscends
<1>9. \/ \E K \in SUBSET A : s = << Take(K), Take(B), Check("bookable") >> /\ H = A \ K /\ Passed(H, K)
      \/ \E K \in SUBSET B : s = << Take(K), Check("bookable") >> /\ H = A \cup (B \ K) /\ Passed(B \ K, K)
      \/ s = << Check("bookable") >> \/ s = <<>>
  BY <1>1, <1>2 DEF BookAt
<1> QED
  BY <1>6, <1>7, <1>8, <1>9

LEMMA SubmitAscends ==
  ASSUME NEW c, c.op = "submit", WellFormed(c, leave), NEW s, NEW H, SubmitAt(c, s, H)
  PROVE  Ascends(s, H)
<1>1. CASE s = SubmitSteps(c) /\ H = {}
  <2>1. LeaveLock(c.employee) \in Locks
    BY LocksAre DEF WellFormed
  <2> QED
    BY <1>1, <2>1, TakeAscends DEF SubmitSteps
<1> QED
  BY <1>1, NoTakeAscends DEF SubmitAt

LEMMA RequestLocks ==
  ASSUME TypeOK, NEW c, c.op \in {"approve", "cancel"}, WellFormed(c, leave)
  PROVE  LeaveOf(leave[c.leave]) \in Locks /\ RequestLock(c.leave) \in Locks
<1>1. c.leave \in LeaveId /\ leave[c.leave] # NoLeave
  BY DEF WellFormed
<1>2. leave[c.leave].employee \in Employee
  BY <1>1 DEF TypeOK, LeaveRec
<1> QED
  BY <1>1, <1>2, LocksAre DEF LeaveOf

LEMMA ApproveAscends ==
  ASSUME TypeOK, NEW c, c.op = "approve", WellFormed(c, leave), NEW s, NEW H, ApproveAt(c, s, H)
  PROVE  Ascends(s, H)
<1>1. LeaveOf(leave[c.leave]) \in Locks /\ RequestLock(c.leave) \in Locks
  BY RequestLocks
<1>2. /\ Below(AllowanceLock, LeaveOf(leave[c.leave])) /\ Below(AllowanceLock, RequestLock(c.leave))
      /\ Below(LeaveOf(leave[c.leave]), RequestLock(c.leave))
  BY LevelBelow DEF LeaveOf
<1>3. CASE s = ApproveLeaveSteps(c) /\ H = {}
  BY <1>3, LocksAre, TakeAscends DEF ApproveLeaveSteps
<1>4. CASE /\ s = << Take({LeaveOf(leave[c.leave])}), Take({RequestLock(c.leave)}), Check("approvable") >>
           /\ H = {AllowanceLock}
  BY <1>1, <1>2, <1>4, TakeAscends
<1>5. CASE /\ s = << Take({RequestLock(c.leave)}), Check("approvable") >>
           /\ H = {AllowanceLock, LeaveOf(leave[c.leave])}
  BY <1>1, <1>2, <1>5, TakeAscends
<1> QED
  BY <1>3, <1>4, <1>5, NoTakeAscends DEF ApproveAt

LEMMA CancelAscends ==
  ASSUME TypeOK, NEW c, c.op = "cancel", WellFormed(c, leave), NEW s, NEW H, CancelAt(c, s, H)
  PROVE  Ascends(s, H)
<1>1. LeaveOf(leave[c.leave]) \in Locks /\ RequestLock(c.leave) \in Locks
  BY RequestLocks
<1>2. Below(LeaveOf(leave[c.leave]), RequestLock(c.leave))
  BY LevelBelow DEF LeaveOf
<1>3. CASE s = CancelLeaveSteps(c) /\ H = {}
  BY <1>1, <1>3, TakeAscends DEF CancelLeaveSteps, LeaveOf
<1>4. CASE s = << Take({RequestLock(c.leave)}), Check("pending") >> /\ H = {LeaveOf(leave[c.leave])}
  BY <1>1, <1>2, <1>4, TakeAscends
<1> QED
  BY <1>3, <1>4, NoTakeAscends DEF CancelAt

LEMMA AllowAscends ==
  ASSUME NEW c, NEW s, NEW H, AllowAt(c, s, H)
  PROVE  Ascends(s, H)
<1>1. CASE s = AllowanceSteps(c) /\ H = {}
  BY <1>1, LocksAre, TakeAscends DEF AllowanceSteps
<1> QED
  BY <1>1, NoTakeAscends DEF AllowAt

LEMMA AtAscends ==
  ASSUME TypeOK, NEW c, WellFormed(c, leave), c.op \notin {"propose", "publish"},
         NEW k, NEW s, NEW H, At(c, k, s, H)
  PROVE  Ascends(s, H)
BY AddAscends, ReviseAscends, CoverAscends, BookAscends, SubmitAscends, ApproveAscends,
   CancelAscends, AllowAscends DEF At

(***************************************************************************)
(* Calls that are neither a proposal nor a publication never wait for each *)
(* other in a cycle: each wants a lock above all it holds.                 *)
(***************************************************************************)
THEOREM ValidationClosesCycles == LocksSpec => []ValidationInEveryCycle
<1>1. ASSUME LocksInv, NEW S \in SUBSET Txn, Deadlocked(S),
             \A t \in S : call[t].op \notin {"propose", "publish"}
      PROVE  FALSE
  <2> DEFINE Wants(t, lock) ==
               /\ lock \in NextLock(Head(todo[t]).locks)
               /\ \E u \in S : lock \in held[u]
             W == [t \in S |-> CHOOSE lock : Wants(t, lock)]
  <2>1. \A t \in S : Ascends(todo[t], held[t])
    BY <1>1, AtAscends DEF LocksInv, Progress, ProgressOf, CallsAsked, Deadlocked, WaitsFor, AtStep
  <2>2. \A t \in S : AtStep(t, {"take"}) /\ \E lock : Wants(t, lock)
    BY <1>1 DEF Deadlocked, WaitsFor
  <2>3. \A t \in S : Wants(t, W[t])
    BY <2>2
  <2> HIDE DEF W
  <2>4. \A t \in S : W[t] \in Locks /\ \A a \in held[t] : Below(a, W[t])
    BY <2>1, <2>2, <2>3 DEF Ascends, AtStep
  <2>5. \A t \in S : \E u \in S : Below(W[t], W[u])
    BY <2>3, <2>4
  <2>6. IsFiniteSet(S) /\ S # {}
    BY <1>1, TxnAssumption, FS_Subset DEF Deadlocked
  <2>7. W \in [S -> Locks]
    BY <2>4 DEF W
  <2>8. \E t \in S : \A u \in S : ~Below(W[t], W[u])
    BY <2>6, <2>7, SomeoneWantsTheTop
  <2> QED
    BY <2>5, <2>8
<1>2. LocksInv => ValidationInEveryCycle
  BY <1>1 DEF ValidationInEveryCycle
<1> QED
  BY <1>2, LocksInvariant, PTL
=============================================================================
