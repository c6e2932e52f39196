----------------------------- MODULE Workforce -----------------------------
(***************************************************************************)
(* Scheduling, leave, client bookings and the directory over one database. *)
(* Each action is a committed transaction; the locks that make the         *)
(* transactions of one employee, plan or request behave one after another  *)
(* are the subject of PlanningLocks.                                       *)
(***************************************************************************)
EXTENDS Scheduling, Leave, Outsourcing, Directory

Init ==
  /\ period = [id \in PeriodId |-> NoPeriod]
  /\ row = [k \in RowId |-> NoRow]
  /\ leave = [l \in LeaveId |-> NoLeave]
  /\ \E days \in Allowance : allowance = [days |-> days, version |-> 1]
  /\ booking = [b \in BookingId |-> NoBooking]
  /\ employed = [e \in Employee |-> TRUE]
  /\ project = [s \in Site |-> "UNFINISHED"]
  /\ reachable = [s \in Site |-> TRUE]
  /\ clientLive = [c \in Client |-> TRUE]

Next == SchedulingNext \/ LeaveNext \/ OutsourcingNext \/ DirectoryNext

Spec == Init /\ [][Next]_vars

-----------------------------------------------------------------------------
(* Safety *)

(***************************************************************************)
(* An employee never stands on two clashing rows, over all plans and over  *)
(* draft, proposed and published work together, but for a copied row and   *)
(* the published row it was copied from, in the same slot: the overlap     *)
(* check of scheduling/service.ts and its exemption.                       *)
(***************************************************************************)
IsPredecessor(j, k) == UnchangedPredecessor(j, k[1], row[k].work, row[k].copiedFrom)

NoDoubleBooking ==
  \A j, k \in RowId :
    j # k /\ Standing(j) /\ Standing(k) /\ Clash(row[j].work, row[k].work)
      => IsPredecessor(j, k) \/ IsPredecessor(k, j)

(***************************************************************************)
(* A plan has one current published revision and one editable one at most, *)
(* and an editable revision continues the current one: what makes          *)
(* publication replace the right plan.                                     *)
(***************************************************************************)
OneLineage ==
  /\ \A p \in Plan, r, s \in Revision :
       \/ Current(<<p, r>>) /\ Current(<<p, s>>)
       \/ Editable(<<p, r>>) /\ Editable(<<p, s>>)
       => r = s
  /\ \A id \in PeriodId : Editable(id) =>
       \A r \in Revision : Current(<<id[1], r>>) <=> r = period[id].parent

(***************************************************************************)
(* Nobody is on approved leave on a day of current published work, though  *)
(* leave may be approved over drafts: publication and the leave decision   *)
(* each check what the other has committed.                                *)
(***************************************************************************)
LeaveKeepsPublishedPlan ==
  \A k \in RowId :
    Live(k) /\ Current(k[1]) => ~OnLeave(row[k].work.employee, row[k].work.date, row[k].work.date)

(***************************************************************************)
(* A booking has its employee to itself on all its days: no other booking, *)
(* no approved leave, no standing row, draft ones included.                *)
(***************************************************************************)
BookingExclusive ==
  \A b \in BookingId : ActiveBooking(b) =>
    LET e == b[2] first == booking[b].first last == booking[b].last IN
    /\ \A c \in BookingId :
         c # b /\ c[2] = e /\ ActiveBooking(c) => ~Meets(booking[c], first, last)
    /\ ~OnLeave(e, first, last)
    /\ ~Scheduled(e, first, last)

(***************************************************************************)
(* In the current year nobody has more approved leave than the allowance,  *)
(* whatever order approvals and reductions of the allowance come in.       *)
(***************************************************************************)
AllowanceHonoured == \A e \in Employee : Taken(e, ThisYear) <= allowance.days

-----------------------------------------------------------------------------
(* What no step may do *)

(***************************************************************************)
(* History is final: a published revision stays published, its rows never  *)
(* change, it yields only to a newer revision that becomes current in the  *)
(* same step, and once it has yielded it is never current again.           *)
(***************************************************************************)
PublishedIsFinal ==
  [][\A id \in PeriodId : period[id].status = "PUBLISHED" =>
       /\ period'[id].status = "PUBLISHED"
       /\ period'[id].current => period[id].current
       /\ Current(id) /\ ~Current(id)' =>
            \E r \in Revision : r > id[2] /\ Current(<<id[1], r>>)'
       /\ \A k \in RowId : k[1] = id => row'[k] = row[k]]_vars

(***************************************************************************)
(* The revision that becomes current is fit for work when it does: every   *)
(* row on an active employee, a usable site of its client and a date of    *)
(* its month, whatever was archived while it was being drafted.            *)
(***************************************************************************)
PublishedFit ==
  [][\A k \in RowId : ~Current(k[1]) /\ Current(k[1])' /\ Live(k)' =>
       /\ employed[row[k].work.employee]
       /\ Usable(row[k].work.site)
       /\ OwnerOf[row[k].work.site] = ClientOf[k[1][1]]
       /\ row[k].work.date \in DatesOf[k[1][1]]]_vars
=============================================================================
