------------------------------ MODULE Coverage ------------------------------
(***************************************************************************)
(* Replacement requests: somebody else is asked for on a row (REPLACE), or *)
(* one more person beside it where a staffing rule is short (ADD).  A      *)
(* request is anchored to one row and may be decided long after it was     *)
(* made, when the row has been copied, changed, removed or superseded.     *)
(*                                                                         *)
(* The specification composes Workforce: its replacement steps happen only *)
(* through an approval, and all its other steps happen beside the requests.*)
(***************************************************************************)
EXTENDS Workforce

CONSTANTS
  RequestId,
  Rule,      \* active staffing requirements
  RuleSites, \* the sites a rule is for: those of a client, project or location
  Required,  \* how many people with the rule's skill a slot needs
  Skilled    \* the employees who have the rule's skill

CONSTANTS NoRule, Nobody

ASSUME CoverageAssumption ==
  /\ RuleSites \in [Rule -> SUBSET Site]
  /\ Required \in [Rule -> Nat \ {0}]
  /\ Skilled \in [Rule -> SUBSET Employee]
  /\ \A rule \in Rule : IsFiniteSet(Skilled[rule])
  /\ NoRule \notin Rule
  /\ Nobody \notin Employee

VARIABLE request  \* replacement_requests

coverageVars == <<vars, request>>

Intent == {"REPLACE", "ADD"}

(***************************************************************************)
(* Two fields stand for createdAt: the version the anchor had, which every *)
(* write of the row's updatedAt increments, and late, for an updatedAt     *)
(* that was already later.  asked is no column: it remembers the work of   *)
(* the anchor as the requester saw it.                                     *)
(***************************************************************************)
NoRequest == [status |-> "ABSENT"]
RequestRec == [status : {"PENDING", "APPROVED", "REJECTED"}, intent : Intent,
               rule : Rule \cup {NoRule}, anchor : RowId, asked : Work, made : Nat,
               late : BOOLEAN, nominee : Employee \cup {Nobody}, version : Nat]

Waiting(q) == request[q].status = "PENDING"

CoverageTypeOK ==
  TypeOK /\ request \in [RequestId -> RequestRec \cup {NoRequest}]

(* original.assignment.updatedAt > current.createdAt *)
Changed(q) == request[q].late \/ row[request[q].anchor].version # request[q].made

-----------------------------------------------------------------------------
(* The work a request is about *)

(***************************************************************************)
(* currentAnchor for a super administrator, as the set of the row it       *)
(* finds: an editable row is itself; a current published row is itself     *)
(* until its plan has a draft, and then its unchanged live copy.           *)
(***************************************************************************)
CurrentAnchor(k) ==
  {j \in RowId :
     /\ Live(k)
     /\ Live(j)
     /\ \/ j = k /\ (Editable(k[1]) \/ (Current(k[1]) /\ NoEditable(k[1][1])))
        \/ /\ Current(k[1])
           /\ Editable(j[1])
           /\ row[j].copiedFrom = k
           /\ ParentOf(j[1]) = k[1]
           /\ row[j].work = row[k].work}

(* Administrators see published work only, and their requests stay on it. *)
AnchorFor(k, byAdmin) ==
  IF byAdmin THEN {j \in {k} : Live(k) /\ Current(k[1])} ELSE CurrentAnchor(k)

AppliesTo(rule, k) == row[k].work.site \in RuleSites[rule]

SameShift(w, v) == w.date = v.date /\ w.start = v.start /\ w.end = v.end

(* The people who count for the rule in the slot of the row k. *)
Counted(rule, k) ==
  {e \in Skilled[rule] :
     /\ employed[e]
     /\ ~OnLeave(e, row[k].work.date, row[k].work.date)
     /\ \E j \in LiveRows(k[1]) :
          /\ row[j].work.employee = e
          /\ AppliesTo(rule, j)
          /\ SameShift(row[j].work, row[k].work)}

Gap(rule, k) ==
  rule # NoRule /\ AppliesTo(rule, k) /\ Cardinality(Counted(rule, k)) < Required[rule]

(* Replacing somebody needs no shortage; every other request does. *)
Wanted(intent, rule, k) == (intent = "REPLACE" /\ rule = NoRule) \/ Gap(rule, k)

Eligible(e, k) ==
  /\ employed[e]
  /\ \A rule \in Rule : AppliesTo(rule, k) => e \in Skilled[rule]
  /\ ~OnLeave(e, row[k].work.date, row[k].work.date)
  /\ NoOverlap(k[1], For(e, row[k].work), NoCopy, {})

Candidate(e, k) == e # row[k].work.employee /\ Eligible(e, k)

(* Mutant of Around: requests on other revisions of the plan are not seen. *)
OwnPeriod(k) == {k[1]}

(* pendingForPeriods: the row's own period, its parent and the plan's draft. *)
Around(k) ==
  {k[1], ParentOf(k[1])} \cup {id \in PeriodId : id[1] = k[1][1] /\ Editable(id)}

(* Mutant of SameWork: a copy is not recognised as the work it was copied from. *)
SameRow(j, k) == j = k

SameWork(j, k) ==
  LET work == {k, row[k].copiedFrom} IN j \in work \/ row[j].copiedFrom \in work \ {NoCopy}

Duplicate(q, intent, rule, k) ==
  /\ Waiting(q)
  /\ request[q].anchor[1] \in Around(k)
  /\ request[q].intent = intent
  /\ IF intent = "REPLACE"
       THEN SameWork(request[q].anchor, k)
       ELSE request[q].rule = rule /\ SameShift(row[request[q].anchor].work, row[k].work)

-----------------------------------------------------------------------------
(* A call of the service *)

(***************************************************************************)
(* The requester names the row a; the request is anchored to the row k the *)
(* service finds for it.  createdAt is the time the transaction began, so  *)
(* a change that commits while the call waits for the period's lock may be *)
(* later than it, though the call has seen it: late.                       *)
(***************************************************************************)
CreateRequest(q, byAdmin, a, intent, rule, nominee, late) ==
  /\ request[q] = NoRequest
  /\ \E k \in AnchorFor(a, byAdmin) :
       /\ Wanted(intent, rule, k)
       /\ \A p \in RequestId : ~Duplicate(p, intent, rule, k)
       /\ nominee # Nobody => Candidate(nominee, k)
       /\ request' = [request EXCEPT ![q] =
            [status |-> "PENDING", intent |-> intent, rule |-> rule, anchor |-> k,
             asked |-> row[k].work, made |-> row[k].version, late |-> late,
             nominee |-> nominee, version |-> 1]]
  /\ UNCHANGED vars

EditRequest(q, seen, byAdmin, nominee) ==
  /\ Waiting(q)
  /\ request[q].version = seen
  /\ \E k \in AnchorFor(request[q].anchor, byAdmin) : nominee # Nobody => Candidate(nominee, k)
  /\ request' = [request EXCEPT ![q].nominee = nominee, ![q].version = @ + 1]
  /\ UNCHANGED vars

(* Withdrawn by its requester or rejected by a super administrator. *)
CloseRequest(q, seen) ==
  /\ Waiting(q)
  /\ request[q].version = seen
  /\ request' = [request EXCEPT ![q].status = "REJECTED", ![q].version = @ + 1]
  /\ UNCHANGED vars

(* Mutant of StillAsked: only the shortage is looked at again. *)
StillWanted(q, k) == Wanted(request[q].intent, request[q].rule, k)

(* Mutant of StillAsked: the shortage seen by the requester is taken to last. *)
StillUnchanged(q, k) == ~Changed(q)

StillAsked(q, k) == ~Changed(q) /\ Wanted(request[q].intent, request[q].rule, k)

(* Mutant of ApproveRequest: the row is updated without the scheduling service. *)
ApproveDirectly(q, seen, e, l) ==
  /\ Waiting(q)
  /\ request[q].version = seen
  /\ \E k \in CurrentAnchor(request[q].anchor) :
       /\ StillAsked(q, k)
       /\ Candidate(e, k)
       /\ request[q].intent = "REPLACE" /\ l = k[2]
       /\ row' = Staffed(row, k, e, l)
  /\ request' = [request EXCEPT ![q].status = "APPROVED", ![q].version = @ + 1]
  /\ UNCHANGED <<period, leaveVars, bookingVars, directoryVars>>

(***************************************************************************)
(* e is the employee the decision names or else the nominee, checked       *)
(* again either way; an addition takes the free line l.                    *)
(***************************************************************************)
ApproveRequest(q, seen, e, l) ==
  /\ Waiting(q)
  /\ request[q].version = seen
  /\ \E k \in CurrentAnchor(request[q].anchor) :
       /\ StillAsked(q, k)
       /\ Candidate(e, k)
       /\ request[q].intent = "REPLACE" <=> l = k[2]
       /\ ReplaceInPlace(k, e, l) \/ \E r \in Revision : ReplaceInRevision(k, e, l, r)
  /\ request' = [request EXCEPT ![q].status = "APPROVED", ![q].version = @ + 1]

CoverageCalls ==
  \/ \E q \in RequestId, byAdmin, late \in BOOLEAN, a \in RowId, intent \in Intent,
        rule \in Rule \cup {NoRule}, nominee \in Employee \cup {Nobody} :
       CreateRequest(q, byAdmin, a, intent, rule, nominee, late)
  \/ \E q \in RequestId, byAdmin \in BOOLEAN, nominee \in Employee \cup {Nobody} :
       Waiting(q) /\ EditRequest(q, request[q].version, byAdmin, nominee)
  \/ \E q \in RequestId : Waiting(q) /\ CloseRequest(q, request[q].version)
  \/ \E q \in RequestId, e \in Employee, l \in Line :
       Waiting(q) /\ ApproveRequest(q, request[q].version, e, l)

OtherCalls ==
  /\ PlanningNext \/ LeaveNext \/ OutsourcingNext \/ DirectoryNext
  /\ UNCHANGED request

CoverageInit == Init /\ request = [q \in RequestId |-> NoRequest]

CoverageNext == CoverageCalls \/ OtherCalls

CoverageSpec == CoverageInit /\ [][CoverageNext]_coverageVars

-----------------------------------------------------------------------------
(***************************************************************************)
(* Two pending requests to replace somebody never come down to the same    *)
(* row, whichever revision each was anchored in: the search for duplicates *)
(* in create sees through copies.                                          *)
(***************************************************************************)
OnePendingPerWork ==
  \A p, q \in RequestId :
    /\ p # q
    /\ Waiting(p) /\ request[p].intent = "REPLACE"
    /\ Waiting(q) /\ request[q].intent = "REPLACE"
    => CurrentAnchor(request[p].anchor) \cap CurrentAnchor(request[q].anchor) = {}

(***************************************************************************)
(* Two pending requests for one more person that can both still be granted *)
(* are never about the same shortage: one rule in one slot of one period.  *)
(***************************************************************************)
OneSupportPerShortage ==
  \A p, q \in RequestId :
    /\ p # q
    /\ Waiting(p) /\ request[p].intent = "ADD" /\ ~Changed(p)
    /\ Waiting(q) /\ request[q].intent = "ADD" /\ ~Changed(q)
    /\ request[p].rule = request[q].rule
    => \A j \in CurrentAnchor(request[p].anchor), k \in CurrentAnchor(request[q].anchor) :
         j[1] = k[1] => ~SameShift(row[j].work, row[k].work)

Approves(q) == Waiting(q) /\ request'[q].status = "APPROVED"

(***************************************************************************)
(* What is approved is what was asked for: the work the requester saw      *)
(* still stands unchanged in the plan, and the same work is given to       *)
(* somebody else, in an editable revision.                                 *)
(***************************************************************************)
ApprovalFitsRequest ==
  [][\A q \in RequestId : Approves(q) =>
       LET w == request[q].asked IN
       /\ \E k \in RowId : Standing(k) /\ row[k].work = w
       /\ \E j \in RowId, e \in Employee \ {w.employee} :
            Editable(j[1])' /\ row'[j] # row[j] /\ row'[j].work = For(e, w)]_coverageVars

(***************************************************************************)
(* Granting one more person never puts more people in a slot than its rule *)
(* needs, though the draft may have been staffed since the request.        *)
(***************************************************************************)
NoOverstaffing ==
  [][\A q \in RequestId : Approves(q) /\ request[q].intent = "ADD" =>
       \A k \in RowId :
         /\ Live(k)'
         /\ Editable(k[1])'
         /\ k[1][1] = request[q].anchor[1][1]
         /\ SameShift(row'[k].work, request[q].asked)
         => Cardinality(Counted(request[q].rule, k)') <= Required[request[q].rule]]_coverageVars
=============================================================================
