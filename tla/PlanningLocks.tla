--------------------------- MODULE PlanningLocks ---------------------------
(***************************************************************************)
(* The transactions of Workforce one lock at a time.  A call opens a       *)
(* transaction, takes row locks and advisory locks in the order of the     *)
(* service's statements, reads what others have committed in between, and  *)
(* ends by a commit that writes everything and releases every lock.  The   *)
(* variables of Workforce hold the committed rows; the database aborts one *)
(* transaction of a cycle of waits.                                        *)
(*                                                                         *)
(* Operations whose locks are a prefix of another's (removal and update of *)
(* a row, return to draft, a rejection) are left to Workforce.  The        *)
(* identity rows locked FOR SHARE, and the directory tables read without   *)
(* a lock, do not change here.  Rows of equal date and start, which the    *)
(* code orders by creation, come in an arbitrary order.                    *)
(***************************************************************************)
EXTENDS Workforce, Sequences

CONSTANTS
  Txn,                    \* bound: calls, each served by one transaction
  Rank,                   \* the order of employee ids
  Scene                   \* what has been committed before, and what is asked then

ASSUME RankAssumption ==
  /\ Rank \in [Employee -> Nat]
  /\ \A e, f \in Employee : Rank[e] = Rank[f] => e = f

(***************************************************************************)
(* What may be asked.  An id that the database generates (of a request, of *)
(* the bookings of one call) is inserted by one call only; a decision or a *)
(* cancellation is about a request that exists.                            *)
(***************************************************************************)
WellFormed(c, requests) ==
  CASE c.op = "add" -> c.period \in PeriodId /\ c.work \in Work
    [] c.op \in {"propose", "publish", "revise"} -> c.period \in PeriodId
    [] c.op = "cover" -> c.row \in RowId /\ c.employee \in Employee
    [] c.op = "book" ->
         /\ c.batch \in Batch /\ c.client \in Client
         /\ c.team \subseteq Employee /\ c.team # {}
         /\ c.first \in Date /\ c.last \in Date /\ c.first <= c.last
    [] c.op = "submit" ->
         /\ c.leave \in LeaveId /\ c.employee \in Employee
         /\ c.first \in Date /\ c.last \in Date /\ c.first <= c.last
    [] c.op \in {"approve", "cancel"} -> c.leave \in LeaveId /\ requests[c.leave] # NoLeave
    [] c.op = "allow" -> c.days \in Allowance
    [] OTHER -> FALSE

SameInsertion(c, d) ==
  \/ c.op = "book" /\ d.op = "book" /\ c.batch = d.batch
  \/ c.op = "submit" /\ d.op = "submit" /\ c.leave = d.leave

(* A scene is made of rows that calls of the services leave behind. *)
ASSUME SceneAssumption ==
  \A scene \in Scene :
    /\ scene.period \in [PeriodId -> PeriodRec]
    /\ scene.row \in [RowId -> RowRec \cup {NoRow}]
    /\ scene.leave \in [LeaveId -> LeaveRec \cup {NoLeave}]
    /\ scene.days \subseteq Nat
    /\ \A k \in RowId : scene.row[k] # NoRow => scene.period[k[1]].status # "ABSENT"
    /\ \A id \in PeriodId :
         /\ scene.period[id].parent < id[2]
         /\ scene.period[id].status # "ABSENT" => scene.period[<<id[1], 1>>].status # "ABSENT"
    /\ \A calls \in scene.calls :
         /\ \A t \in Txn : WellFormed(calls[t], scene.leave)
         /\ \A t, u \in Txn : SameInsertion(calls[t], calls[u]) => calls[t] = calls[u]

ASSUME TxnAssumption == IsFiniteSet(Txn)

VARIABLES
  call,    \* what each transaction was asked
  stage,   \* "new", "open", or how it ended
  todo,    \* its steps still to do
  seen,    \* the version on its caller's screen
  target,  \* the row a cover approval has chosen to change
  held     \* the locks it holds

lockVars == <<call, stage, todo, seen, target, held>>

-----------------------------------------------------------------------------
(* Locks *)

PeriodLock(id)    == <<"schedule_periods", id>>
PlanLock(p)       == <<"schedule-period", p>>
OverlapLock(e, d) == <<"schedule-overlap", e, d>>
LeaveLock(e)      == <<"leave", e>>
RequestLock(l)    == <<"leave_requests", l>>
AllowanceLock     == <<"leave_allowance_settings">>

OverlapLocks(team, days) == {OverlapLock(e, d) : e \in team, d \in days}
LeaveLocks(team) == {LeaveLock(e) : e \in team}

(* Keys of one kind in the order of their text, periods by revision. *)
Before(a, b) ==
  CASE a[1] = "schedule-overlap" -> Rank[a[2]] < Rank[b[2]] \/ (a[2] = b[2] /\ a[3] < b[3])
    [] a[1] = "leave"            -> Rank[a[2]] < Rank[b[2]]
    [] OTHER                     -> a[2][2] < b[2][2]

(* Steps of a transaction: take some locks in order, check what is         *)
(* committed, check a row before the rest of its timetable, or decide from *)
(* what is committed which steps come next.                                *)
Take(locks) == [do |-> "take", locks |-> locks]
Check(name) == [do |-> "check", name |-> name]
CheckRow(k, rest) == [do |-> "row", row |-> k, rest |-> rest]
Decide(name) == [do |-> "decide", name |-> name]

TakeAll(locks) == IF locks = {} THEN <<>> ELSE << Take(locks) >>

(* The lock a taking step comes to next. *)
NextLock(locks) == {a \in locks : \A b \in locks \ {a} : Before(a, b)}

-----------------------------------------------------------------------------
(* The steps of each operation *)

AddSteps(c) ==
  << Take({PeriodLock(c.period)}), Check("draft"),
     Take({OverlapLock(c.work.employee, c.work.date)}), Take({LeaveLock(c.work.employee)}),
     Check("fits") >>

ProposeSteps(c) == << Take({PeriodLock(c.period)}), Check("draft"), Decide("rows") >>

PublishSteps(c) ==
  << Take({PeriodLock(c.period)}), Check("proposed"), Take({PlanLock(c.period[1])}),
     Decide("rows"), Decide("previous") >>

ReviseSteps(c) ==
  << Take({PeriodLock(c.period)}), Check("current"), Take({PlanLock(c.period[1])}),
     Check("revisable") >>

(* Approval of a replacement: the editable revision is looked up before    *)
(* any period is locked.                                                   *)
CoverSteps(c) == << Decide("editable") >>

BookedDays(c) == {d \in Date : Covers(c, d)}

BookSteps(c) ==
  << Take(OverlapLocks(c.team, BookedDays(c))), Take(LeaveLocks(c.team)), Check("bookable") >>

SubmitSteps(c) == << Take({LeaveLock(c.employee)}), Check("free") >>

(* Mutant of ApproveLeaveSteps: the request is locked before its employee. *)
ApproveStepsByRequest(c) ==
  << Take({AllowanceLock}), Take({RequestLock(c.leave)}),
     Take({LeaveLock(leave[c.leave].employee)}), Check("approvable") >>

ApproveLeaveSteps(c) ==
  << Take({AllowanceLock}), Take({LeaveLock(leave[c.leave].employee)}),
     Take({RequestLock(c.leave)}), Check("approvable") >>

CancelLeaveSteps(c) ==
  << Take({LeaveLock(leave[c.leave].employee)}), Take({RequestLock(c.leave)}), Check("pending") >>

AllowanceSteps(c) == << Take({AllowanceLock}), Check("reducible") >>

Steps(c) ==
  CASE c.op = "add"     -> AddSteps(c)
    [] c.op = "propose" -> ProposeSteps(c)
    [] c.op = "publish" -> PublishSteps(c)
    [] c.op = "revise"  -> ReviseSteps(c)
    [] c.op = "cover"   -> CoverSteps(c)
    [] c.op = "book"    -> BookSteps(c)
    [] c.op = "approve" -> ApproveLeaveSteps(c)
    [] c.op = "submit"  -> SubmitSteps(c)
    [] c.op = "cancel"  -> CancelLeaveSteps(c)
    [] c.op = "allow"   -> AllowanceSteps(c)

(* The version on the caller's screen. *)
Seen(c) ==
  CASE c.op \in {"add", "propose", "publish", "revise"} -> period[c.period].version
    [] c.op \in {"approve", "cancel"} -> leave[c.leave].version
    [] c.op = "allow" -> allowance.version
    [] OTHER -> 0

(***************************************************************************)
(* validatePeriodAssignments: every overlap lock first, in key order, then *)
(* row by row in timetable order the leave lock and the checks.            *)
(***************************************************************************)
RowOrder(j, k) ==
  \/ row[j].work.date < row[k].work.date
  \/ row[j].work.date = row[k].work.date /\ row[j].work.start < row[k].work.start

RowSteps(rows) ==
  IF rows = {} THEN {<<>>}
  ELSE {<< Take({LeaveLock(row[k].work.employee)}), CheckRow(k, rows \ {k}) >> :
          k \in {j \in rows : \A i \in rows : ~RowOrder(i, j)}}

TimetableKeys(id) == {OverlapLock(row[k].work.employee, row[k].work.date) : k \in LiveRows(id)}

ValidateRows(id) == {TakeAll(TimetableKeys(id)) \o steps : steps \in RowSteps(LiveRows(id))}

(* The published period is updated, so locked, before the new one is.      *)
LockPrevious(id) ==
  TakeAll({PeriodLock(<<id[1], r>>) : r \in {s \in Revision : Current(<<id[1], s>>)}})

(***************************************************************************)
(* currentAnchor: what will be changed is the copy of the anchor in an     *)
(* editable revision that was seen before any lock, else the anchor.       *)
(***************************************************************************)
EditableOf(p) == {<<p, r>> : r \in {s \in Revision : Editable(<<p, s>>)}}

Target(k) ==
  IF period[k[1]].status = "PUBLISHED" /\ EditableOf(k[1][1]) # {}
    THEN <<CHOOSE id \in EditableOf(k[1][1]) : TRUE, k[2]>>
    ELSE k

AnchorSteps(k, chosen) ==
  IF chosen # k
    THEN << Take({PeriodLock(chosen[1])}), Check("copied"), Decide("staff") >>
    ELSE << Take({PeriodLock(k[1])}), Check("anchored"), Decide("plan"), Decide("staff") >>

(* Mutant of LockPlan: the lock is taken, the anchor is not read again. *)
LockPlanOnly(k) ==
  IF period[k[1]].status = "PUBLISHED" THEN << Take({PlanLock(k[1][1])}) >> ELSE <<>>

LockPlan(k) ==
  IF period[k[1]].status = "PUBLISHED"
    THEN << Take({PlanLock(k[1][1])}), Check("uncopied") >>
    ELSE <<>>

Staff(k, e) ==
  << Take({OverlapLock(e, row[k].work.date)}), Take({LeaveLock(e)}), Check("available") >>

-----------------------------------------------------------------------------
(* What is checked, and what is written *)

FreeLines(id) == {l \in Line : row[<<id, l>>] = NoRow}

Holds(t, name) ==
  LET c == call[t] k == target[t] IN
  CASE name = "draft"    -> period[c.period].version = seen[t] /\ period[c.period].status = "DRAFT"
    [] name = "proposed" -> period[c.period].version = seen[t] /\ period[c.period].status = "PROPOSED"
    [] name = "current"  -> period[c.period].version = seen[t] /\ Current(c.period)
    [] name = "revisable" -> \E r \in Revision : MayRevise(c.period, r)
    [] name = "fits" ->
         /\ FreeLines(c.period) # {}
         /\ ValidReferences(c.period, c.work)
         /\ NoOverlap(c.period, c.work, NoCopy, {})
    [] name = "copied" ->
         /\ Live(c.row) /\ Current(c.row[1])
         /\ Editable(k[1]) /\ period[k[1]].parent = c.row[1][2]
         /\ Live(k) /\ row[k].copiedFrom = c.row /\ row[k].work = row[c.row].work
    [] name = "anchored" -> Live(k)
    [] name = "uncopied" -> Current(k[1]) /\ \E r \in Revision : MayRevise(k[1], r)
    [] name = "available" -> Available(k, c.employee, IF Editable(k[1]) THEN {k} ELSE {})
    [] name = "bookable" -> \A e \in c.team : Bookable(e, c.first, c.last)
    [] name = "free" ->
         /\ leave[c.leave] = NoLeave
         /\ \A m \in LeaveId :
              Approved(m) \/ Pending(m) => ~(leave[m].employee = c.employee /\ Meets(leave[m], c.first, c.last))
    [] name = "pending" -> leave[c.leave].version = seen[t] /\ Pending(c.leave)
    [] name = "approvable" ->
         LET l == leave[c.leave] IN
         /\ l.version = seen[t] /\ Pending(c.leave)
         /\ ~Booked(l.employee, l.first, l.last)
         /\ ~PublishedImpact(l.employee, l.first, l.last)
         /\ WithinBalance(c.leave)
    [] name = "reducible" ->
         /\ allowance.version = seen[t]
         /\ c.days < allowance.days => \A e \in Employee : Taken(e, ThisYear) <= c.days

Passes(t, step) ==
  IF step.do = "row" THEN ValidRow(step.row) ELSE Holds(t, step.name)

NextRevision(p) == CHOOSE r \in Revision : IsNextRevision(p, r)

WriteRow(c) ==
  /\ \E l \in FreeLines(c.period) : row' = [row EXCEPT ![<<c.period, l>>] = NewRow(c.work, NoCopy)]
  /\ period' = Bumped(c.period)
  /\ UNCHANGED <<leaveVars, bookingVars>>

WriteStatus(c) ==
  /\ period' =
       IF c.op = "propose"
         THEN [period EXCEPT ![c.period].status = "PROPOSED", ![c.period].version = @ + 1]
         ELSE [Superseded(c.period[1]) EXCEPT
                 ![c.period].status = "PUBLISHED", ![c.period].current = TRUE, ![c.period].version = @ + 1]
  /\ UNCHANGED <<row, leaveVars, bookingVars>>

WriteRevision(c) ==
  LET r == NextRevision(c.period[1]) IN
  /\ period' = Revised(c.period, r, 1)
  /\ row' = WithCopies(c.period, <<c.period[1], r>>)
  /\ UNCHANGED <<leaveVars, bookingVars>>

WriteCover(k, e) ==
  /\ IF Editable(k[1])
       THEN /\ row' = Staffed(row, k, e, k[2])
            /\ period' = [period EXCEPT ![k[1]].status = "DRAFT",
                 ![k[1]].version = @ + (IF period[k[1]].status = "PROPOSED" THEN 2 ELSE 1)]
       ELSE LET new == <<k[1][1], NextRevision(k[1][1])>> IN
            /\ row' = Staffed(WithCopies(k[1], new), <<new, k[2]>>, e, k[2])
            /\ period' = Revised(k[1], new[2], 2)
  /\ UNCHANGED <<leaveVars, bookingVars>>

WriteBooking(c) ==
  /\ booking' = [b \in BookingId |->
       IF b[1] = c.batch /\ b[2] \in c.team
         THEN [state |-> "ACTIVE", client |-> c.client, first |-> c.first, last |-> c.last, version |-> 1]
         ELSE booking[b]]
  /\ UNCHANGED <<scheduleVars, leaveVars>>

WriteRequest(c) ==
  /\ leave' = [leave EXCEPT ![c.leave] =
       [status |-> "PENDING", employee |-> c.employee, first |-> c.first, last |-> c.last, version |-> 1]]
  /\ UNCHANGED <<allowance, scheduleVars, bookingVars>>

WriteLeave(c) ==
  /\ leave' = [leave EXCEPT ![c.leave].status = IF c.op = "approve" THEN "APPROVED" ELSE "CANCELLED",
                             ![c.leave].version = @ + 1]
  /\ UNCHANGED <<allowance, scheduleVars, bookingVars>>

WriteAllowance(c) ==
  /\ allowance' = [days |-> c.days, version |-> allowance.version + 1]
  /\ UNCHANGED <<leave, scheduleVars, bookingVars>>

Write(t) ==
  LET c == call[t] IN
  \/ c.op = "add" /\ WriteRow(c)
  \/ c.op \in {"propose", "publish"} /\ WriteStatus(c)
  \/ c.op = "revise" /\ WriteRevision(c)
  \/ c.op = "cover" /\ WriteCover(target[t], c.employee)
  \/ c.op = "book" /\ WriteBooking(c)
  \/ c.op = "submit" /\ WriteRequest(c)
  \/ c.op \in {"approve", "cancel"} /\ WriteLeave(c)
  \/ c.op = "allow" /\ WriteAllowance(c)

-----------------------------------------------------------------------------
Open(t) == stage[t] = "open"
AtStep(t, do) == Open(t) /\ todo[t] # <<>> /\ Head(todo[t]).do \in do

(* Mutant of Ends: a transaction that ends keeps its locks. *)
EndsHolding(t, how) ==
  /\ stage' = [stage EXCEPT ![t] = how]
  /\ todo' = [todo EXCEPT ![t] = <<>>]
  /\ UNCHANGED <<call, seen, target, held>>

Ends(t, how) ==
  /\ stage' = [stage EXCEPT ![t] = how]
  /\ todo' = [todo EXCEPT ![t] = <<>>]
  /\ held' = [held EXCEPT ![t] = {}]
  /\ UNCHANGED <<call, seen, target>>

Begin(t) ==
  /\ stage[t] = "new"
  /\ stage' = [stage EXCEPT ![t] = "open"]
  /\ todo' = [todo EXCEPT ![t] = Steps(call[t])]
  /\ seen' = [seen EXCEPT ![t] = Seen(call[t])]
  /\ UNCHANGED <<call, target, held, vars>>

TakeLock(t) ==
  /\ AtStep(t, {"take"})
  /\ LET locks == Head(todo[t]).locks IN
     \E lock \in NextLock(locks) :
       /\ \A u \in Txn \ {t} : lock \notin held[u]
       /\ held' = [held EXCEPT ![t] = @ \cup {lock}]
       /\ todo' = [todo EXCEPT ![t] = TakeAll(locks \ {lock}) \o Tail(@)]
  /\ UNCHANGED <<call, stage, seen, target, vars>>

(* What comes between a passed check and the steps after it. *)
Following(step) == IF step.do = "row" THEN RowSteps(step.rest) ELSE {<<>>}

Pass(t) ==
  /\ AtStep(t, {"check", "row"})
  /\ Passes(t, Head(todo[t]))
  /\ \E steps \in Following(Head(todo[t])) : todo' = [todo EXCEPT ![t] = steps \o Tail(@)]
  /\ UNCHANGED <<call, stage, seen, target, held, vars>>

(* A domain error: the transaction rolls back. *)
Refuse(t) ==
  /\ AtStep(t, {"check", "row"})
  /\ ~Passes(t, Head(todo[t]))
  /\ Ends(t, "refused")
  /\ UNCHANGED vars

Decided(t, name) ==
  LET c == call[t] k == target[t] IN
  CASE name = "rows"     -> ValidateRows(c.period)
    [] name = "previous" -> {LockPrevious(c.period)}
    [] name = "plan"     -> {LockPlan(k)}
    [] name = "staff"    -> {Staff(k, c.employee)}

ChooseTarget(t) ==
  LET k == call[t].row chosen == Target(k) IN
  /\ AtStep(t, {"decide"})
  /\ Head(todo[t]).name = "editable"
  /\ target' = [target EXCEPT ![t] = chosen]
  /\ todo' = [todo EXCEPT ![t] = AnchorSteps(k, chosen) \o Tail(@)]
  /\ UNCHANGED <<call, stage, seen, held, vars>>

Choose(t) ==
  /\ AtStep(t, {"decide"})
  /\ Head(todo[t]).name # "editable"
  /\ \E steps \in Decided(t, Head(todo[t]).name) : todo' = [todo EXCEPT ![t] = steps \o Tail(@)]
  /\ UNCHANGED <<call, stage, seen, target, held, vars>>

Commit(t) ==
  /\ Open(t)
  /\ todo[t] = <<>>
  /\ Write(t)
  /\ UNCHANGED directoryVars
  /\ Ends(t, "done")

(* t waits for a lock that u holds. *)
WaitsFor(t, u) ==
  /\ t # u
  /\ AtStep(t, {"take"})
  /\ \E lock \in NextLock(Head(todo[t]).locks) : lock \in held[u]

(* Transactions each of which waits for another of them. *)
Deadlocked(S) == S # {} /\ \A t \in S : \E u \in S : WaitsFor(t, u)

(* The database ends a deadlock by aborting a transaction of it. *)
Abort(t) ==
  /\ \E S \in SUBSET Txn : t \in S /\ Deadlocked(S)
  /\ Ends(t, "victim")
  /\ UNCHANGED vars

Advance(t) == TakeLock(t) \/ Pass(t) \/ Refuse(t) \/ ChooseTarget(t) \/ Choose(t) \/ Commit(t)

LocksInit ==
  /\ \E scene \in Scene :
       /\ period = scene.period
       /\ row = scene.row
       /\ leave = scene.leave
       /\ \E days \in scene.days : allowance = [days |-> days, version |-> 1]
       /\ \E calls \in scene.calls : call = [t \in Txn |-> calls[t]]
  /\ stage = [t \in Txn |-> "new"]
  /\ todo = [t \in Txn |-> <<>>]
  /\ seen = [t \in Txn |-> 0]
  /\ target = [t \in Txn |-> <<>>]
  /\ booking = [b \in BookingId |-> NoBooking]
  /\ employed = [e \in Employee |-> TRUE]
  /\ project = [s \in Site |-> "UNFINISHED"]
  /\ reachable = [s \in Site |-> TRUE]
  /\ clientLive = [c \in Client |-> TRUE]
  /\ held = [t \in Txn |-> {}]

LocksNext == \E t \in Txn : Begin(t) \/ Advance(t) \/ Abort(t)

(***************************************************************************)
(* The server runs every statement of a transaction it has opened, and the *)
(* database resolves every deadlock; nobody has to make a call.            *)
(***************************************************************************)
LocksSpec ==
  /\ LocksInit /\ [][LocksNext]_<<vars, lockVars>>
  /\ \A t \in Txn : WF_<<vars, lockVars>>(Advance(t)) /\ WF_<<vars, lockVars>>(Abort(t))

-----------------------------------------------------------------------------
(***************************************************************************)
(* Every commit is one step of Workforce on what is committed at that      *)
(* moment: the locks keep what a transaction has checked true until it     *)
(* writes, so what holds of Workforce holds of the interleaved services.   *)
(* The antecedent spares TLC the search of Next on steps that write        *)
(* nothing: [Next]_vars allows those.                                      *)
(***************************************************************************)
Atomic == [][vars' # vars => Next]_vars

(***************************************************************************)
(* Every call but a proposal and a publication takes its locks in one      *)
(* order for all services, so no cycle of waits is without one of these    *)
(* two, which lock the people of a timetable row by row.                   *)
(***************************************************************************)
ValidationInEveryCycle ==
  \A S \in SUBSET Txn : Deadlocked(S) => \E t \in S : call[t].op \in {"propose", "publish"}

(***************************************************************************)
(* No transactions wait for each other in a cycle, so the database never   *)
(* has to abort one.                                                       *)
(***************************************************************************)
NoWaitCycle == \A S \in SUBSET Txn : ~Deadlocked(S)

(***************************************************************************)
(* A cover approval and a publication are never in one cycle of waits:     *)
(* why currentAnchor locks the child instead of its published parent.      *)
(***************************************************************************)
ApprovalSparesPublication ==
  \A S \in SUBSET Txn :
    Deadlocked(S) => ~\E t, u \in S : call[t].op = "cover" /\ call[u].op = "publish"

(***************************************************************************)
(* Every call that has opened a transaction is answered: it commits, is    *)
(* refused, or is aborted to end a deadlock.                               *)
(***************************************************************************)
EveryCallAnswered == \A t \in Txn : Open(t) ~> ~Open(t)
=============================================================================
