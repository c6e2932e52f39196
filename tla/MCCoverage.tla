----------------------------- MODULE MCCoverage -----------------------------
(***************************************************************************)
(* Small instances of Coverage: one plan, one staffing rule for its only   *)
(* site.  The view hides versions and nominees, which decide nothing, and  *)
(* of the work asked for keeps whether the anchor still has it.            *)
(***************************************************************************)
EXTENDS Coverage, TLC

CONSTANTS acme       \* client, plan and site
CONSTANTS ann, ben, cat
CONSTANTS l1, l2, l3
CONSTANTS q1, q2     \* replacement requests
CONSTANT  guards     \* the staffing rule
CONSTANT  Need       \* how many it requires
CONSTANT  Guards     \* who has its skill

MCClientOf  == [p \in Plan |-> p]
MCOwnerOf   == [s \in Site |-> s]
MCDatesOf   == [p \in Plan |-> {1}]
MCYearOf    == [d \in Date |-> 2026]
MCRuleSites == [g \in Rule |-> Site]
MCRequired  == [g \in Rule |-> Need]
MCSkilled   == [g \in Rule |-> Guards]

Symmetry ==
  Permutations(Guards \ Leavers) \cup Permutations(Employee \ (Guards \cup Leavers))
    \cup Permutations(Line) \cup Permutations(RequestId)

RowView(k) == IF Live(k) THEN <<row[k].work, row[k].copiedFrom>> ELSE row[k].state
PeriodView(id) == <<period[id].status, period[id].current, period[id].parent>>
RequestView(q) ==
  IF Waiting(q)
    THEN LET r == request[q] k == r.anchor IN
         <<r.intent, r.rule, k, row[k].work, row[k].copiedFrom, Changed(q), r.asked = row[k].work>>
    ELSE request[q].status

(* The comparison makes TLC evaluate the functions a state holds. *)
View ==
  <<<<period, row, request>> = <<period, row, request>>, [id \in PeriodId |-> PeriodView(id)], [k \in RowId |-> RowView(k)],
    [q \in RequestId |-> RequestView(q)], leave, employed>>
=============================================================================
