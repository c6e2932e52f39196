---------------------------- MODULE Outsourcing ----------------------------
(***************************************************************************)
(* Client bookings: whole days of employees lent to a client.  One call    *)
(* inserts a row for each employee it names, or none.                      *)
(***************************************************************************)
EXTENDS Plans

(* scheduledConflict: work planned or published on one of the days. *)
Scheduled(e, first, last) ==
  \E k \in RowId :
    /\ Standing(k)
    /\ row[k].work.employee = e
    /\ first <= row[k].work.date
    /\ row[k].work.date <= last

(* Mutant of Bookable: leave is not looked at. *)
BookableOnLeave(e, first, last) ==
  /\ employed[e]
  /\ ~Booked(e, first, last)
  /\ ~Scheduled(e, first, last)

Bookable(e, first, last) ==
  /\ employed[e]
  /\ ~Booked(e, first, last)
  /\ ~OnLeave(e, first, last)
  /\ ~Scheduled(e, first, last)

CreateBooking(n, client, team, first, last) ==
  /\ team # {}
  /\ first <= last
  /\ \A e \in Employee : booking[<<n, e>>] = NoBooking
  /\ clientLive[client]
  /\ \A e \in team : Bookable(e, first, last)
  /\ booking' = [b \in BookingId |->
       IF b[1] = n /\ b[2] \in team
         THEN [state |-> "ACTIVE", client |-> client, first |-> first, last |-> last, version |-> 1]
         ELSE booking[b]]
  /\ UNCHANGED <<scheduleVars, leaveVars, directoryVars>>

CancelBooking(b, seen) ==
  /\ ActiveBooking(b)
  /\ booking[b].version = seen
  /\ booking' = [booking EXCEPT ![b].state = "CANCELLED", ![b].version = @ + 1]
  /\ UNCHANGED <<scheduleVars, leaveVars, directoryVars>>

OutsourcingNext ==
  \/ \E n \in Batch, client \in Client, team \in SUBSET Employee, first, last \in Date :
       CreateBooking(n, client, team, first, last)
  \/ \E b \in BookingId : booking[b] # NoBooking /\ CancelBooking(b, booking[b].version)
=============================================================================
