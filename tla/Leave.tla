------------------------------- MODULE Leave -------------------------------
(***************************************************************************)
(* The leave service: requests, decisions and the yearly allowance that    *)
(* every employee shares.                                                  *)
(***************************************************************************)
EXTENDS Plans

CONSTANTS Allowance, \* the allowances that may be set
          ThisYear   \* the current calendar year in Dubai

ASSUME AllowanceAssumption == Allowance \subseteq Nat /\ Allowance # {} /\ ThisYear \in Nat

(* Years go on with the days; requests and days can be counted. *)
ASSUME CountingAssumption ==
  /\ IsFiniteSet(LeaveId)
  /\ IsFiniteSet(Date)
  /\ \A d, e \in Date : d <= e => YearOf[d] <= YearOf[e]

(* workingDays summed over the approved requests of e, in the year y. *)
Taken(e, y) ==
  Cardinality({ld \in LeaveId \X Date :
                 /\ Approved(ld[1])
                 /\ leave[ld[1]].employee = e
                 /\ Covers(leave[ld[1]], ld[2])
                 /\ ld[2] \in WorkDay
                 /\ YearOf[ld[2]] = y})

(* workingDaysByYear of one request. *)
Asked(l, y) ==
  Cardinality({d \in WorkDay : Covers(leave[l], d) /\ YearOf[d] = y})

(* The years from a request's first to its last day. *)
YearsOf(l) == YearOf[leave[l].first] .. YearOf[leave[l].last]

(* Mutant of WithinBalance: what is already taken is forgotten. *)
WithinAllowance(l) ==
  \A y \in YearsOf(l) : Asked(l, y) <= allowance.days

WithinBalance(l) ==
  \A y \in YearsOf(l) : Asked(l, y) <= allowance.days - Taken(leave[l].employee, y)

(* Mutant of PublishedImpact: work on the first day is missed. *)
PublishedImpactAfter(e, first, last) ==
  \E k \in RowId :
    /\ Live(k)
    /\ Current(k[1])
    /\ row[k].work.employee = e
    /\ first < row[k].work.date
    /\ row[k].work.date <= last

PublishedImpact(e, first, last) ==
  \E k \in RowId :
    /\ Live(k)
    /\ Current(k[1])
    /\ row[k].work.employee = e
    /\ first <= row[k].work.date
    /\ row[k].work.date <= last

-----------------------------------------------------------------------------
SubmitLeave(l, e, first, last) ==
  /\ leave[l] = NoLeave
  /\ first <= last
  /\ \A m \in LeaveId :
       Approved(m) \/ Pending(m) => ~(leave[m].employee = e /\ Meets(leave[m], first, last))
  /\ leave' = [leave EXCEPT ![l] =
                 [status |-> "PENDING", employee |-> e, first |-> first, last |-> last, version |-> 1]]
  /\ UNCHANGED <<allowance, scheduleVars, bookingVars, directoryVars>>

Settle(l, status) ==
  /\ leave' = [leave EXCEPT ![l].status = status, ![l].version = @ + 1]
  /\ UNCHANGED <<allowance, scheduleVars, bookingVars, directoryVars>>

(* Mutant of CancelLeave: approved leave can be withdrawn too. *)
WithdrawLeave(l, seen) ==
  /\ Pending(l) \/ Approved(l)
  /\ leave[l].version = seen
  /\ Settle(l, "CANCELLED")

CancelLeave(l, seen) ==
  /\ Pending(l)
  /\ leave[l].version = seen
  /\ Settle(l, "CANCELLED")

ApproveLeave(l, seen) ==
  /\ Pending(l)
  /\ leave[l].version = seen
  /\ ~Booked(leave[l].employee, leave[l].first, leave[l].last)
  /\ ~PublishedImpact(leave[l].employee, leave[l].first, leave[l].last)
  /\ WithinBalance(l)
  /\ Settle(l, "APPROVED")

RejectLeave(l, seen) ==
  /\ Pending(l)
  /\ leave[l].version = seen
  /\ Settle(l, "REJECTED")

(* Only a reduction is checked, and only against the current year. *)
UpdateAllowance(days, seen) ==
  /\ allowance.version = seen
  /\ days < allowance.days =>
       \A e \in Employee :
         (\E l \in LeaveId : Approved(l) /\ leave[l].employee = e) => Taken(e, ThisYear) <= days
  /\ allowance' = [days |-> days, version |-> allowance.version + 1]
  /\ UNCHANGED <<leave, scheduleVars, bookingVars, directoryVars>>

LeaveNext ==
  \/ \E l \in LeaveId, e \in Employee, first, last \in Date : SubmitLeave(l, e, first, last)
  \/ \E l \in LeaveId : leave[l] # NoLeave /\ CancelLeave(l, leave[l].version)
  \/ \E l \in LeaveId : leave[l] # NoLeave /\ ApproveLeave(l, leave[l].version)
  \/ \E l \in LeaveId : leave[l] # NoLeave /\ RejectLeave(l, leave[l].version)
  \/ \E days \in Allowance : UpdateAllowance(days, allowance.version)
=============================================================================
