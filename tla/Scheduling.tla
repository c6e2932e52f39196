----------------------------- MODULE Scheduling -----------------------------
(***************************************************************************)
(* The scheduling service: revisions of a client-month and their rows.     *)
(* Every action is one committed transaction; seen (and seenRow) are the   *)
(* versions the caller sends, which a stale caller gets wrong.             *)
(***************************************************************************)
EXTENDS Plans

(* Mutant of NoEditable: a second editable revision is not refused. *)
AnyEditable(p) == TRUE

NoEditable(p) == \A r \in Revision : ~Editable(<<p, r>>)

(* r is coalesce(max(revisionNumber), 0) + 1. *)
IsNextRevision(p, r) ==
  /\ \A s \in Revision : s >= r => period[<<p, s>>].status = "ABSENT"
  /\ r > 1 => period[<<p, r - 1>>].status # "ABSENT"

ValidReferences(id, w) ==
  /\ w.date \in DatesOf[id[1]]
  /\ w.end > w.start
  /\ Usable(w.site)
  /\ OwnerOf[w.site] = ClientOf[id[1]]
  /\ employed[w.employee]
  /\ ~OnLeave(w.employee, w.date, w.date)

(* Mutant of NoOverlap: other plans are not searched. *)
NoOverlapInPlan(id, w, copiedFrom, exclude) ==
  /\ ~Booked(w.employee, w.date, w.date)
  /\ \A k \in RowId \ exclude :
       k[1][1] = id[1] /\ Standing(k) /\ Clash(row[k].work, w)
         => UnchangedPredecessor(k, id, w, copiedFrom)

(* The row k itself is left out of the check; a new row leaves out nothing. *)
NoOverlap(id, w, copiedFrom, exclude) ==
  /\ ~Booked(w.employee, w.date, w.date)
  /\ \A k \in RowId \ exclude :
       Standing(k) /\ Clash(row[k].work, w) => UnchangedPredecessor(k, id, w, copiedFrom)

ValidRow(k) ==
  /\ ValidReferences(k[1], row[k].work)
  /\ NoOverlap(k[1], row[k].work, row[k].copiedFrom, {k})

NewRow(w, copiedFrom) == [state |-> "LIVE", work |-> w, copiedFrom |-> copiedFrom, version |-> 1]

(* updatePeriod with no other column than the version: bumpPeriod. *)
Bumped(id) == [period EXCEPT ![id].version = @ + 1]

(* The plan p without a current revision; no version moves. *)
Superseded(p) ==
  [i \in PeriodId |-> [status |-> period[i].status, current |-> period[i].current /\ i[1] # p,
                       parent |-> period[i].parent, version |-> period[i].version]]

-----------------------------------------------------------------------------
CreatePeriod(p) ==
  /\ clientLive[ClientOf[p]]
  /\ MaxRevision >= 1
  /\ period[<<p, 1>>].status = "ABSENT"
  /\ NoEditable(p)
  /\ period' = [period EXCEPT ![<<p, 1>>] =
                  [status |-> "DRAFT", current |-> FALSE, parent |-> 0, version |-> 1]]
  /\ UNCHANGED <<row, leaveVars, bookingVars, directoryVars>>

AddAssignment(k, seen, w) ==
  /\ period[k[1]].version = seen
  /\ period[k[1]].status = "DRAFT"
  /\ row[k] = NoRow
  /\ ValidReferences(k[1], w)
  /\ NoOverlap(k[1], w, NoCopy, {})
  /\ row' = [row EXCEPT ![k] = NewRow(w, NoCopy)]
  /\ period' = Bumped(k[1])
  /\ UNCHANGED <<leaveVars, bookingVars, directoryVars>>

UpdateAssignment(k, seen, seenRow, w) ==
  /\ Live(k)
  /\ period[k[1]].version = seen
  /\ row[k].version = seenRow
  /\ period[k[1]].status = "DRAFT"
  /\ ValidReferences(k[1], w)
  /\ NoOverlap(k[1], w, row[k].copiedFrom, {k})
  /\ row' = [row EXCEPT ![k].work = w, ![k].version = @ + 1]
  /\ period' = Bumped(k[1])
  /\ UNCHANGED <<leaveVars, bookingVars, directoryVars>>

(* Mutant of RemoveAssignment: the period need not be a draft. *)
RemoveAnyAssignment(k, seen, seenRow) ==
  /\ Live(k)
  /\ period[k[1]].version = seen
  /\ row[k].version = seenRow
  /\ row' = [row EXCEPT ![k].state = "OMITTED", ![k].version = @ + 1]
  /\ period' = Bumped(k[1])
  /\ UNCHANGED <<leaveVars, bookingVars, directoryVars>>

RemoveAssignment(k, seen, seenRow) ==
  /\ Live(k)
  /\ period[k[1]].version = seen
  /\ row[k].version = seenRow
  /\ period[k[1]].status = "DRAFT"
  /\ row' = [row EXCEPT ![k].state = "OMITTED", ![k].version = @ + 1]
  /\ period' = Bumped(k[1])
  /\ UNCHANGED <<leaveVars, bookingVars, directoryVars>>

Propose(id, seen) ==
  /\ period[id].version = seen
  /\ period[id].status = "DRAFT"
  /\ \A k \in LiveRows(id) : ValidRow(k)
  /\ period' = [period EXCEPT ![id].status = "PROPOSED", ![id].version = @ + 1]
  /\ UNCHANGED <<row, leaveVars, bookingVars, directoryVars>>

(* Mutant of ReturnToDraft: a status no other operation knows. *)
Return(id, seen) ==
  /\ period[id].status = "PROPOSED"
  /\ period[id].version = seen
  /\ period' = [period EXCEPT ![id].status = "RETURNED", ![id].version = @ + 1]
  /\ UNCHANGED <<row, leaveVars, bookingVars, directoryVars>>

ReturnToDraft(id, seen) ==
  /\ period[id].status = "PROPOSED"
  /\ period[id].version = seen
  /\ period' = [period EXCEPT ![id].status = "DRAFT", ![id].version = @ + 1]
  /\ UNCHANGED <<row, leaveVars, bookingVars, directoryVars>>

(* Mutant of Publish: what was valid when proposed is taken to be valid. *)
PublishAsProposed(id, seen) ==
  /\ period[id].status = "PROPOSED"
  /\ period[id].version = seen
  /\ period' = [Superseded(id[1]) EXCEPT
                  ![id].status = "PUBLISHED", ![id].current = TRUE, ![id].version = @ + 1]
  /\ UNCHANGED <<row, leaveVars, bookingVars, directoryVars>>

(* The superseded period loses its flag but keeps its version. *)
Publish(id, seen) ==
  /\ period[id].status = "PROPOSED"
  /\ period[id].version = seen
  /\ \A k \in LiveRows(id) : ValidRow(k)
  /\ period' = [Superseded(id[1]) EXCEPT
                  ![id].status = "PUBLISHED", ![id].current = TRUE, ![id].version = @ + 1]
  /\ UNCHANGED <<row, leaveVars, bookingVars, directoryVars>>

(* The live rows of period src, copied into the period new. *)
WithCopies(src, new) ==
  [k \in RowId |-> IF k[1] = new /\ Live(<<src, k[2]>>)
                     THEN NewRow(row[<<src, k[2]>>].work, <<src, k[2]>>)
                     ELSE row[k]]

(* lockPeriod on a current period, then one more revision of its plan. *)
MayRevise(id, r) ==
  /\ Current(id)
  /\ IsNextRevision(id[1], r)
  /\ NoEditable(id[1])

Revised(id, r, version) ==
  [period EXCEPT ![<<id[1], r>>] =
     [status |-> "DRAFT", current |-> FALSE, parent |-> id[2], version |-> version]]

CreateRevision(id, seen, r) ==
  /\ MayRevise(id, r)
  /\ period[id].version = seen
  /\ period' = Revised(id, r, 1)
  /\ row' = WithCopies(id, <<id[1], r>>)
  /\ UNCHANGED <<leaveVars, bookingVars, directoryVars>>

-----------------------------------------------------------------------------
(***************************************************************************)
(* applyReplacementEffect: the employee e takes over the row k, or joins   *)
(* it on a free line l of the same period.  Replacing is l = k[2].         *)
(***************************************************************************)
For(e, w) == [employee |-> e, date |-> w.date, start |-> w.start, end |-> w.end, site |-> w.site]

Available(k, e, exclude) ==
  /\ row[k].work.employee # e
  /\ ValidReferences(k[1], For(e, row[k].work))
  /\ NoOverlap(k[1], For(e, row[k].work), NoCopy, exclude)

Staffed(rows, k, e, l) ==
  IF l = k[2]
    THEN [rows EXCEPT ![k].work = For(e, @), ![k].version = @ + 1]
    ELSE [rows EXCEPT ![<<k[1], l>>] = NewRow(For(e, rows[k].work), NoCopy)]

(* A draft is changed where it is; a proposed revision returns to draft first. *)
ReplaceInPlace(k, e, l) ==
  /\ Live(k)
  /\ Editable(k[1])
  /\ l = k[2] \/ row[<<k[1], l>>] = NoRow
  /\ Available(k, e, IF l = k[2] THEN {k} ELSE {})
  /\ row' = Staffed(row, k, e, l)
  /\ period' = [period EXCEPT ![k[1]].status = "DRAFT",
                               ![k[1]].version = @ + (IF period[k[1]].status = "PROPOSED" THEN 2 ELSE 1)]
  /\ UNCHANGED <<leaveVars, bookingVars, directoryVars>>

(***************************************************************************)
(* A published row is changed in a new revision.  The code checks e after  *)
(* it has copied the rows; a copy clashes with e exactly when its source   *)
(* does, and the source stands, so the check reads the same before.        *)
(***************************************************************************)
ReplaceInRevision(k, e, l, r) ==
  LET new == <<k[1][1], r>> IN
  /\ Live(k)
  /\ MayRevise(k[1], r)
  /\ l = k[2] \/ row[<<k[1], l>>].state # "LIVE"
  /\ Available(k, e, {})
  /\ row' = Staffed(WithCopies(k[1], new), <<new, k[2]>>, e, l)
  /\ period' = Revised(k[1], r, 2)
  /\ UNCHANGED <<leaveVars, bookingVars, directoryVars>>

EditingNext ==
  \/ \E p \in Plan : CreatePeriod(p)
  \/ \E k \in RowId, w \in Work : AddAssignment(k, period[k[1]].version, w)
  \/ \E k \in RowId, w \in Work :
       Live(k) /\ UpdateAssignment(k, period[k[1]].version, row[k].version, w)
  \/ \E k \in RowId : Live(k) /\ RemoveAssignment(k, period[k[1]].version, row[k].version)
  \/ \E id \in PeriodId : Propose(id, period[id].version)
  \/ \E id \in PeriodId : ReturnToDraft(id, period[id].version)
  \/ \E id \in PeriodId : Publish(id, period[id].version)

PlanningNext ==
  \/ EditingNext
  \/ \E id \in PeriodId, r \in Revision : CreateRevision(id, period[id].version, r)

(* Which replacements are asked for and approved is the subject of Coverage. *)
ReplacementNext ==
  \/ \E k \in RowId, e \in Employee, l \in Line : ReplaceInPlace(k, e, l)
  \/ \E k \in RowId, e \in Employee, l \in Line, r \in Revision : ReplaceInRevision(k, e, l, r)

SchedulingNext == PlanningNext \/ ReplacementNext
=============================================================================
