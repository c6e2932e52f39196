--------------------------- MODULE CoverageProofs ---------------------------
(***************************************************************************)
(* The composition of the requests with the planning services: what the    *)
(* planning services guarantee still holds, requests that are pending      *)
(* together are about different work, and an approval acts on the work     *)
(* that was asked for and staffs no slot beyond its rule.                  *)
(***************************************************************************)
EXTENDS Coverage, WorkforceProofs, FiniteSetTheorems

-----------------------------------------------------------------------------
(* The composition is a Workforce *)

LEMMA AnchorIsLive ==
  ASSUME TypeOK, NEW a \in RowId, NEW byAdmin \in BOOLEAN, NEW k \in AnchorFor(a, byAdmin)
  PROVE  k \in RowId /\ Live(k) /\ row[k] \in RowRec
<1>1. k \in RowId /\ Live(k)
  BY DEF AnchorFor, CurrentAnchor
<1> QED
  BY <1>1, LiveIsRow

LEMMA ApprovalStaffs ==
  ASSUME NEW q \in RequestId, NEW e \in Employee, NEW l \in Line,
         ApproveRequest(q, request[q].version, e, l)
  PROVE  ReplacementNext
<1>1. PICK k \in CurrentAnchor(request[q].anchor) :
        ReplaceInPlace(k, e, l) \/ \E r \in Revision : ReplaceInRevision(k, e, l, r)
  BY DEF ApproveRequest
<1>2. k \in RowId
  BY DEF CurrentAnchor
<1> QED
  BY <1>1, <1>2 DEF ReplacementNext

LEMMA CallsArePlanning == CoverageNext => [Next]_vars
<1>1. ASSUME NEW q \in RequestId, NEW e \in Employee, NEW l \in Line,
             ApproveRequest(q, request[q].version, e, l)
      PROVE  Next
  BY <1>1, ApprovalStaffs DEF Next, SchedulingNext
<1>2. CoverageCalls => [Next]_vars
  BY <1>1 DEF CoverageCalls, CreateRequest, EditRequest, CloseRequest
<1>3. OtherCalls => Next
  BY DEF OtherCalls, Next, SchedulingNext
<1> QED
  BY <1>2, <1>3 DEF CoverageNext

(***************************************************************************)
(* Requests change nothing but what an approval does through the           *)
(* scheduling service: without them the system is the one of Workforce.    *)
(***************************************************************************)
THEOREM CoverageRefinesWorkforce == CoverageSpec => Spec
<1>1. CoverageInit => Init
  BY DEF CoverageInit
<1>2. [CoverageNext]_coverageVars => [Next]_vars
  BY CallsArePlanning DEF coverageVars
<1> QED
  BY <1>1, <1>2, PTL DEF CoverageSpec, Spec

(* With requests in the system still nobody is booked twice. *)
COROLLARY CoverageNobodyBookedTwice == CoverageSpec => []NoDoubleBooking
  BY CoverageRefinesWorkforce, NobodyBookedTwice, PTL

-----------------------------------------------------------------------------
(* Types *)

RequestsOK == request \in [RequestId -> RequestRec \cup {NoRequest}]

LEMMA WaitingIsRequest ==
  ASSUME RequestsOK, NEW q \in RequestId, Waiting(q)
  PROVE  request[q] \in RequestRec
  BY DEF RequestsOK, Waiting, NoRequest

LEMMA RequestsStep == TypeOK /\ RequestsOK /\ [CoverageNext]_coverageVars => RequestsOK'
<1> SUFFICES ASSUME TypeOK, RequestsOK, [CoverageNext]_coverageVars
             PROVE  RequestsOK'
  OBVIOUS
<1>1. ASSUME NEW q \in RequestId, NEW byAdmin \in BOOLEAN, NEW late \in BOOLEAN, NEW a \in RowId,
             NEW intent \in Intent, NEW rule \in Rule \cup {NoRule},
             NEW nominee \in Employee \cup {Nobody},
             CreateRequest(q, byAdmin, a, intent, rule, nominee, late)
      PROVE  RequestsOK'
  <2>1. PICK k \in AnchorFor(a, byAdmin) :
          request' = [request EXCEPT ![q] =
            [status |-> "PENDING", intent |-> intent, rule |-> rule, anchor |-> k,
             asked |-> row[k].work, made |-> row[k].version, late |-> late,
             nominee |-> nominee, version |-> 1]]
    BY <1>1 DEF CreateRequest
  <2>2. k \in RowId /\ row[k].work \in Work /\ row[k].version \in Nat
    BY AnchorIsLive DEF RowRec
  <2> QED
    BY <2>1, <2>2 DEF RequestsOK, RequestRec
<1>2. ASSUME NEW q \in RequestId, Waiting(q), NEW byAdmin \in BOOLEAN,
             NEW nominee \in Employee \cup {Nobody},
             EditRequest(q, request[q].version, byAdmin, nominee)
      PROVE  RequestsOK'
  <2>1. request[q] \in RequestRec
    BY <1>2, WaitingIsRequest
  <2> QED
    BY <1>2, <2>1 DEF EditRequest, RequestsOK, RequestRec
<1>3. ASSUME NEW q \in RequestId, Waiting(q), CloseRequest(q, request[q].version)
      PROVE  RequestsOK'
  <2>1. request[q] \in RequestRec
    BY <1>3, WaitingIsRequest
  <2> QED
    BY <1>3, <2>1 DEF CloseRequest, RequestsOK, RequestRec
<1>4. ASSUME NEW q \in RequestId, NEW e \in Employee, NEW l \in Line, Waiting(q),
             ApproveRequest(q, request[q].version, e, l)
      PROVE  RequestsOK'
  <2>1. request[q] \in RequestRec
    BY <1>4, WaitingIsRequest
  <2> QED
    BY <1>4, <2>1 DEF ApproveRequest, RequestsOK, RequestRec
<1>5. UNCHANGED request => RequestsOK'
  BY DEF RequestsOK
<1> QED
  BY <1>1, <1>2, <1>3, <1>4, <1>5 DEF CoverageNext, CoverageCalls, OtherCalls, coverageVars

LEMMA CoverageTypeStep ==
  TypeOK /\ RequestsOK /\ [CoverageNext]_coverageVars => (TypeOK /\ RequestsOK)'
<1>1. TypeOK /\ [Next]_vars => TypeOK'
  <2>1. TypeOK /\ UNCHANGED vars => TypeOK'
    BY DEF TypeOK, vars
  <2> QED
    BY <2>1, SchedulingType, LeaveType, OutsourcingType, DirectoryType DEF Next
<1>2. [CoverageNext]_coverageVars => [Next]_vars
  BY CallsArePlanning DEF coverageVars
<1> QED
  BY <1>1, <1>2, RequestsStep

(* Every table keeps its columns' types, replacement requests included. *)
THEOREM CoverageTypeCorrect == CoverageSpec => []CoverageTypeOK
<1>1. CoverageInit => TypeOK /\ RequestsOK
  BY TypeInit DEF CoverageInit, RequestsOK
<1>2. TypeOK /\ RequestsOK <=> CoverageTypeOK
  BY DEF CoverageTypeOK, RequestsOK
<1> QED
  BY <1>1, <1>2, CoverageTypeStep, PTL DEF CoverageSpec

-----------------------------------------------------------------------------
(* An approval is for the work that was asked for *)

(* The version a request remembers still tells whether its work is the one asked for. *)
Remembers(q) ==
  LET k == request[q].anchor IN
  /\ row[k] # NoRow
  /\ row[k].version >= request[q].made
  /\ row[k].version = request[q].made => row[k].work = request[q].asked

AskedInv == \A q \in RequestId : Waiting(q) => Remembers(q)

SameAsk(q) ==
  /\ request'[q].anchor = request[q].anchor
  /\ request'[q].made = request[q].made
  /\ request'[q].asked = request[q].asked

LEMMA RequestsKept ==
  ASSUME TypeOK, RequestsOK, [CoverageNext]_coverageVars, NEW q \in RequestId, Waiting(q)'
  PROVE  (Waiting(q) /\ SameAsk(q)) \/ Remembers(q)'
<1>1. ASSUME NEW p \in RequestId, NEW byAdmin \in BOOLEAN, NEW late \in BOOLEAN, NEW a \in RowId,
             NEW intent \in Intent, NEW rule \in Rule \cup {NoRule},
             NEW nominee \in Employee \cup {Nobody},
             CreateRequest(p, byAdmin, a, intent, rule, nominee, late)
      PROVE  (Waiting(q) /\ SameAsk(q)) \/ Remembers(q)'
  <2>1. PICK k \in AnchorFor(a, byAdmin) :
          request' = [request EXCEPT ![p] =
            [status |-> "PENDING", intent |-> intent, rule |-> rule, anchor |-> k,
             asked |-> row[k].work, made |-> row[k].version, late |-> late,
             nominee |-> nominee, version |-> 1]]
    BY <1>1 DEF CreateRequest
  <2>2. row[k] \in RowRec /\ row' = row
    BY <1>1, AnchorIsLive DEF CreateRequest, vars
  <2>3. CASE p = q
    BY <2>1, <2>2, <2>3 DEF Remembers, RequestsOK, RowRec, NoRow
  <2>4. CASE p # q
    BY <2>1, <2>4 DEF Waiting, SameAsk, RequestsOK
  <2> QED
    BY <2>3, <2>4
<1>2. ASSUME NEW p \in RequestId, Waiting(p), NEW byAdmin \in BOOLEAN,
             NEW nominee \in Employee \cup {Nobody},
             EditRequest(p, request[p].version, byAdmin, nominee)
      PROVE  Waiting(q) /\ SameAsk(q)
  <2>1. request[p] \in RequestRec
    BY <1>2, WaitingIsRequest
  <2> QED
    BY <1>2, <2>1 DEF EditRequest, Waiting, SameAsk, RequestsOK, RequestRec
<1>3. ASSUME NEW p \in RequestId, Waiting(p), CloseRequest(p, request[p].version)
      PROVE  Waiting(q) /\ SameAsk(q)
  <2>1. request[p] \in RequestRec
    BY <1>3, WaitingIsRequest
  <2> QED
    BY <1>3, <2>1 DEF CloseRequest, Waiting, SameAsk, RequestsOK, RequestRec
<1>4. ASSUME NEW p \in RequestId, NEW e \in Employee, NEW l \in Line, Waiting(p),
             ApproveRequest(p, request[p].version, e, l)
      PROVE  Waiting(q) /\ SameAsk(q)
  <2>1. request[p] \in RequestRec
    BY <1>4, WaitingIsRequest
  <2> QED
    BY <1>4, <2>1 DEF ApproveRequest, Waiting, SameAsk, RequestsOK, RequestRec
<1>5. UNCHANGED request => Waiting(q) /\ SameAsk(q)
  BY DEF Waiting, SameAsk
<1> QED
  BY <1>1, <1>2, <1>3, <1>4, <1>5 DEF CoverageNext, CoverageCalls, OtherCalls, coverageVars

LEMMA AskedStep ==
  ASSUME TypeOK, RequestsOK, Rooted, AskedInv, [CoverageNext]_coverageVars
  PROVE  AskedInv'
<1> SUFFICES ASSUME NEW q \in RequestId, Waiting(q)'
             PROVE  Remembers(q)'
  BY DEF AskedInv
<1>1. CASE Waiting(q) /\ SameAsk(q)
  <2> DEFINE k == request[q].anchor
  <2>1. request[q] \in RequestRec /\ Remembers(q)
    BY <1>1, WaitingIsRequest DEF AskedInv
  <2>2. k \in RowId /\ request[q].made \in Nat
    BY <2>1 DEF RequestRec
  <2>3. RowGrows(k)
    BY <2>2, CallsArePlanning, StepGrows DEF coverageVars
  <2>4. TypeOK'
    BY CoverageTypeStep
  <2>5. row[k] \in RowRec /\ row'[k] \in RowRec
    BY <2>1, <2>2, <2>3, <2>4 DEF TypeOK, Remembers, RowGrows
  <2>6. row[k].version \in Nat /\ row'[k].version \in Nat
    BY <2>5 DEF RowRec
  <2> QED
    BY <1>1, <2>1, <2>2, <2>3, <2>6 DEF Remembers, RowGrows, SameAsk
<1> QED
  BY <1>1, RequestsKept

Granted(w) ==
  /\ \E k \in RowId : Standing(k) /\ row[k].work = w
  /\ \E j \in RowId, e \in Employee \ {w.employee} :
       Editable(j[1])' /\ row'[j] # row[j] /\ row'[j].work = For(e, w)

LEMMA GrantedInPlace ==
  ASSUME TypeOK, NEW k \in RowId, Standing(k), NEW e \in Employee, NEW l \in Line,
         e # row[k].work.employee, ReplaceInPlace(k, e, l)
  PROVE  Granted(row[k].work)
<1> DEFINE w == row[k].work
           j == <<k[1], l>>
<1>1. row[k] \in RowRec /\ w \in Work /\ j \in RowId /\ k = <<k[1], k[2]>> /\ k[1] \in PeriodId
  BY LiveIsRow, RowKeys DEF Standing, RowRec, RowId
<1>2. Editable(k[1])'
  BY <1>1 DEF ReplaceInPlace, Editable, TypeOK, PeriodRec
<1>3. row' = Staffed(row, k, e, l)
  BY DEF ReplaceInPlace
<1>4. CASE l = k[2]
  <2>1. row'[k].work = For(e, w) /\ row'[k].version = row[k].version + 1
    BY <1>1, <1>3, <1>4 DEF Staffed, TypeOK, RowRec
  <2>2. row'[k] # row[k]
    BY <1>1, <2>1 DEF RowRec
  <2> QED
    BY <1>1, <1>2, <2>1, <2>2 DEF Granted
<1>5. CASE l # k[2]
  <2>1. row'[j] = NewRow(For(e, w), NoCopy) /\ row[j] = NoRow
    BY <1>1, <1>3, <1>5 DEF Staffed, TypeOK, ReplaceInPlace
  <2>2. row'[j] # row[j] /\ row'[j].work = For(e, w)
    BY <2>1 DEF NewRow, NoRow
  <2> QED
    BY <1>1, <1>2, <2>2 DEF Granted
<1> QED
  BY <1>4, <1>5

LEMMA GrantedInRevision ==
  ASSUME TypeOK, Rooted, NEW k \in RowId, Standing(k), NEW e \in Employee, NEW l \in Line,
         NEW r \in Revision, e # row[k].work.employee, ReplaceInRevision(k, e, l, r)
  PROVE  Granted(row[k].work)
<1> DEFINE w == row[k].work
           new == <<k[1][1], r>>
           copies == WithCopies(k[1], new)
           j == <<new, l>>
           c == <<new, k[2]>>
<1>1. row[k] \in RowRec /\ w \in Work /\ k = <<k[1], k[2]>> /\ k[1] \in PeriodId /\ k[2] \in Line
  BY LiveIsRow, RowKeys DEF Standing, RowRec
<1>2. /\ new \in PeriodId /\ ~Present(new)
      /\ period'[new] = [status |-> "DRAFT", current |-> FALSE, parent |-> k[1][2], version |-> 2]
  BY <1>1, RevisionOpens DEF ReplaceInRevision
<1>3. j \in RowId /\ c \in RowId
  BY <1>1, <1>2 DEF RowId
<1>4. copies \in [RowId -> RowRec \cup {NoRow}]
  BY <1>1, CopiesType
<1>5. copies[c] = NewRow(w, k)
  BY <1>1, <1>2, <1>3, CopiesWritten DEF Standing
<1>6. row' = Staffed(copies, c, e, l)
  BY DEF ReplaceInRevision
<1>7. row[j] = NoRow
  BY <1>2, <1>3 DEF Rooted
<1>8. c[2] = k[2] /\ c[1] = new /\ j[1] = new
  OBVIOUS
<1> HIDE DEF copies, c
<1>9. row'[j] # NoRow /\ row'[j].work = For(e, w)
  <2>1. CASE l = k[2]
    <3>1. j = c
      BY <2>1 DEF c
    <3>2. row'[c] = [copies[c] EXCEPT !.work = For(e, @), !.version = @ + 1]
      BY <1>3, <1>4, <1>6, <1>8, <2>1 DEF Staffed
    <3>3. copies[c] \in RowRec /\ copies[c].work = w /\ copies[c].state = "LIVE"
      BY <1>1, <1>5, NewRowType DEF NewRow
    <3>4. row'[c].state = "LIVE" /\ row'[c].work = For(e, copies[c].work)
      <4> DEFINE f == For(e, copies[c].work)
      <4>1. row'[c] = [copies[c] EXCEPT !.work = f, !.version = @ + 1]
        BY <3>2
      <4> HIDE DEF f
      <4>2. row'[c].state = "LIVE" /\ row'[c].work = f
        BY <3>3, <4>1 DEF RowRec
      <4> QED
        BY <4>2 DEF f
    <3>5. row'[c] # NoRow
      BY <3>4 DEF NoRow
    <3> HIDE DEF j
    <3> QED
      BY <3>1, <3>3, <3>4, <3>5
  <2>2. CASE l # k[2]
    <3>1. row'[j] = NewRow(For(e, copies[c].work), NoCopy)
      BY <1>3, <1>4, <1>6, <1>8, <2>2 DEF Staffed
    <3> QED
      BY <1>5, <3>1 DEF NewRow, NoRow
  <2> QED
    BY <2>1, <2>2
<1>10. Editable(new)'
  BY <1>2 DEF Editable
<1> QED
  BY <1>1, <1>3, <1>7, <1>8, <1>9, <1>10 DEF Granted

(* Only an approval approves. *)
LEMMA ApprovalIsACall ==
  ASSUME TypeOK, RequestsOK, [CoverageNext]_coverageVars, NEW q \in RequestId, Approves(q)
  PROVE  \E e \in Employee, l \in Line : ApproveRequest(q, request[q].version, e, l)
<1>1. ASSUME NEW p \in RequestId, NEW byAdmin \in BOOLEAN, NEW late \in BOOLEAN, NEW a \in RowId,
             NEW intent \in Intent, NEW rule \in Rule \cup {NoRule},
             NEW nominee \in Employee \cup {Nobody},
             CreateRequest(p, byAdmin, a, intent, rule, nominee, late)
      PROVE  FALSE
  BY <1>1 DEF CreateRequest, Approves, Waiting, RequestsOK
<1>2. ASSUME NEW p \in RequestId, Waiting(p), NEW byAdmin \in BOOLEAN,
             NEW nominee \in Employee \cup {Nobody},
             EditRequest(p, request[p].version, byAdmin, nominee)
      PROVE  FALSE
  <2>1. request[p] \in RequestRec
    BY <1>2, WaitingIsRequest
  <2> QED
    BY <1>2, <2>1 DEF EditRequest, Approves, Waiting, RequestsOK, RequestRec
<1>3. ASSUME NEW p \in RequestId, Waiting(p), CloseRequest(p, request[p].version)
      PROVE  FALSE
  <2>1. request[p] \in RequestRec
    BY <1>3, WaitingIsRequest
  <2> QED
    BY <1>3, <2>1 DEF CloseRequest, Approves, Waiting, RequestsOK, RequestRec
<1>4. ASSUME NEW p \in RequestId, NEW e \in Employee, NEW l \in Line, p # q,
             ApproveRequest(p, request[p].version, e, l)
      PROVE  FALSE
  BY <1>4 DEF ApproveRequest, Approves, Waiting, RequestsOK
<1>5. UNCHANGED request => FALSE
  BY DEF Approves, Waiting
<1> QED
  BY <1>1, <1>2, <1>3, <1>4, <1>5 DEF CoverageNext, CoverageCalls, OtherCalls, coverageVars

LEMMA ApprovalGrants ==
  ASSUME TypeOK, RequestsOK, Rooted, AskedInv, [CoverageNext]_coverageVars,
         NEW q \in RequestId, Approves(q)
  PROVE  Granted(request[q].asked)
<1>1. PICK e \in Employee, l \in Line : ApproveRequest(q, request[q].version, e, l)
  BY ApprovalIsACall
<1> DEFINE a == request[q].anchor
<1>2. PICK k \in CurrentAnchor(a) :
        /\ StillAsked(q, k)
        /\ Candidate(e, k)
        /\ ReplaceInPlace(k, e, l) \/ \E r \in Revision : ReplaceInRevision(k, e, l, r)
  BY <1>1 DEF ApproveRequest
<1>3. k \in RowId /\ Standing(k) /\ row[k].work = row[a].work
  BY <1>2 DEF CurrentAnchor, Standing, Active
<1>4. row[k].work = request[q].asked
  BY <1>2, <1>3 DEF StillAsked, Changed, AskedInv, Remembers, Approves
<1>5. e # row[k].work.employee
  BY <1>2 DEF Candidate
<1> QED
  BY <1>2, <1>3, <1>4, <1>5, GrantedInPlace, GrantedInRevision

(***************************************************************************)
(* What is approved is what was asked for, however long the request has    *)
(* waited and whatever has become of the row it was made for.              *)
(***************************************************************************)
THEOREM ApprovalsFitRequests == CoverageSpec => ApprovalFitsRequest
<1> DEFINE Inv == TypeOK /\ RequestsOK /\ ScheduleInv /\ AskedInv
<1>1. CoverageInit => Inv
  BY TypeInit, ScheduleInit DEF CoverageInit, RequestsOK, AskedInv, Waiting, NoRequest
<1>2. Inv /\ [CoverageNext]_coverageVars => Inv'
  <2>1. [CoverageNext]_coverageVars => [Next]_vars
    BY CallsArePlanning DEF coverageVars
  <2> QED
    BY <2>1, CoverageTypeStep, ScheduleStep, AskedStep DEF ScheduleInv
<1>3. Inv /\ [CoverageNext]_coverageVars
        => [\A q \in RequestId : Approves(q) => Granted(request[q].asked)]_coverageVars
  BY ApprovalGrants DEF ScheduleInv
<1> QED
  BY <1>1, <1>2, <1>3, PTL DEF CoverageSpec, ApprovalFitsRequest, Granted

-----------------------------------------------------------------------------
(* What a request can come down to *)

(* A row keeps the source it was copied from; a new copy is of the parent's row. *)
RowSourced(j) ==
  /\ row[j] # NoRow => row'[j].copiedFrom = row[j].copiedFrom
  /\ row[j] = NoRow /\ row'[j] # NoRow =>
       \/ row'[j].copiedFrom = NoCopy
       \/ row'[j].copiedFrom \in RowId /\ row'[j].copiedFrom[1] = ParentOf(j[1])'

LEMMA RevisionSources ==
  ASSUME TypeOK, Rooted, NEW id \in PeriodId, NEW r \in Revision, NEW v \in Nat,
         MayRevise(id, r), period' = Revised(id, r, v), NEW j \in RowId, row[j] = NoRow,
         WithCopies(id, <<id[1], r>>)[j] # NoRow
  PROVE  LET c == WithCopies(id, <<id[1], r>>)[j].copiedFrom IN
         c \in RowId /\ c[1] = ParentOf(j[1])'
<1> DEFINE new == <<id[1], r>>
<1>1. /\ new \in PeriodId /\ ~Present(new)
      /\ period'[new] = [status |-> "DRAFT", current |-> FALSE, parent |-> id[2], version |-> v]
      /\ id = <<id[1], id[2]>> /\ new[1] = id[1]
  BY RevisionOpens DEF PeriodId
<1>2. j[1] \in PeriodId /\ j[2] \in Line
  BY RowKeys
<1> HIDE DEF new
<1>3. j[1] = new /\ Live(<<id, j[2]>>)
  BY <1>1, CopiesWritten DEF new
<1>4. WithCopies(id, new)[j] = NewRow(row[<<id, j[2]>>].work, <<id, j[2]>>)
  BY <1>1, <1>3, CopiesWritten
<1>5. <<id, j[2]>> \in RowId
  BY <1>2 DEF RowId
<1>6. ParentOf(j[1])' = id
  BY <1>1, <1>3 DEF ParentOf
<1> QED
  BY <1>4, <1>5, <1>6 DEF NewRow, new

LEMMA SchedulingSourced ==
  ASSUME TypeOK, Rooted, SchedulingNext, NEW j \in RowId
  PROVE  RowSourced(j)
<1>1. UNCHANGED row => RowSourced(j)
  BY DEF RowSourced
<1>2. ASSUME NEW k \in RowId, NEW w \in Work, AddAssignment(k, period[k[1]].version, w)
      PROVE  RowSourced(j)
  BY <1>2 DEF AddAssignment, RowSourced, TypeOK, NewRow
<1>3. ASSUME NEW k \in RowId, NEW w \in Work,
             UpdateAssignment(k, period[k[1]].version, row[k].version, w)
      PROVE  RowSourced(j)
  <2>1. row[k] \in RowRec
    BY <1>3, LiveIsRow DEF UpdateAssignment
  <2> QED
    BY <1>3, <2>1 DEF UpdateAssignment, RowSourced, TypeOK, RowRec, NoRow
<1>4. ASSUME NEW k \in RowId, RemoveAssignment(k, period[k[1]].version, row[k].version)
      PROVE  RowSourced(j)
  <2>1. row[k] \in RowRec
    BY <1>4, LiveIsRow DEF RemoveAssignment
  <2> QED
    BY <1>4, <2>1 DEF RemoveAssignment, RowSourced, TypeOK, RowRec, NoRow
<1>5. ASSUME NEW id \in PeriodId, NEW r \in Revision, CreateRevision(id, period[id].version, r)
      PROVE  RowSourced(j)
  <2>1. /\ row' = WithCopies(id, <<id[1], r>>) /\ MayRevise(id, r) /\ period' = Revised(id, r, 1)
        /\ <<id[1], r>> \in PeriodId /\ ~Present(<<id[1], r>>)
    BY <1>5, RevisionOpens DEF CreateRevision
  <2>2. row[j] # NoRow => row'[j] = row[j]
    BY <2>1, CopiesGrow
  <2>3. ASSUME row[j] = NoRow, row'[j] # NoRow
        PROVE  row'[j].copiedFrom \in RowId /\ row'[j].copiedFrom[1] = ParentOf(j[1])'
    BY <2>1, <2>3, RevisionSources
  <2> QED
    BY <2>2, <2>3 DEF RowSourced
<1>6. ASSUME NEW k \in RowId, NEW e \in Employee, NEW l \in Line, ReplaceInPlace(k, e, l)
      PROVE  RowSourced(j)
  <2>1. row[k] \in RowRec /\ (l = k[2] \/ row[<<k[1], l>>] = NoRow)
    BY <1>6, LiveIsRow DEF ReplaceInPlace
  <2>2. row' = Staffed(row, k, e, l)
    BY <1>6 DEF ReplaceInPlace
  <2>3. CASE l = k[2]
    BY <2>1, <2>2, <2>3 DEF Staffed, RowSourced, TypeOK, RowRec, NoRow
  <2>4. CASE l # k[2]
    BY <2>1, <2>2, <2>4 DEF Staffed, RowSourced, TypeOK, NewRow
  <2> QED
    BY <2>3, <2>4
<1>7. ASSUME NEW k \in RowId, NEW e \in Employee, NEW l \in Line, NEW r \in Revision,
             ReplaceInRevision(k, e, l, r)
      PROVE  RowSourced(j)
  <2> DEFINE new == <<k[1][1], r>>
             copies == WithCopies(k[1], new)
             c == <<new, k[2]>>
  <2>1. /\ k[1] \in PeriodId /\ new \in PeriodId /\ ~Present(new) /\ k[2] \in Line
        /\ MayRevise(k[1], r) /\ period' = Revised(k[1], r, 2)
        /\ Live(k) /\ k = <<k[1], k[2]>>
    BY <1>7, RowKeys, RevisionOpens DEF ReplaceInRevision
  <2>2. row' = Staffed(copies, c, e, l)
    BY <1>7 DEF ReplaceInRevision
  <2>3. copies \in [RowId -> RowRec \cup {NoRow}]
    BY <2>1, CopiesType
  <2>4. row[j] # NoRow => j[1] # new /\ copies[j] = row[j]
    BY <2>1, CopiesGrow
  <2>5. c \in RowId /\ row[c] = NoRow /\ c[1] = new /\ c[2] = k[2]
    BY <2>1 DEF RowId, Rooted
  <2>6. row[j] = NoRow /\ copies[j] # NoRow =>
          copies[j].copiedFrom \in RowId /\ copies[j].copiedFrom[1] = ParentOf(j[1])'
    BY <2>1, RevisionSources
  <2>7. copies[c] \in RowRec
    <3>1. copies[c] = NewRow(row[k].work, k)
      BY <2>1, <2>5, CopiesWritten
    <3>2. row[k].work \in Work
      BY <2>1, LiveIsRow DEF RowRec
    <3> QED
      BY <3>1, <3>2, NewRowType
  <2> HIDE DEF new, copies, c
  <2>8. \A f : /\ [copies[c] EXCEPT !.work = f, !.version = @ + 1] # NoRow
               /\ [copies[c] EXCEPT !.work = f, !.version = @ + 1].copiedFrom = copies[c].copiedFrom
    BY <2>7 DEF RowRec, NoRow
  <2>9. CASE l = k[2] /\ j = c
    <3>1. row'[j] = [copies[c] EXCEPT !.work = For(e, @), !.version = @ + 1]
      BY <2>2, <2>3, <2>5, <2>9 DEF Staffed
    <3>2. row'[j].copiedFrom = copies[j].copiedFrom /\ row[j] = NoRow /\ copies[j] # NoRow
      BY <3>1, <2>5, <2>7, <2>8, <2>9 DEF RowRec, NoRow
    <3> QED
      BY <3>2, <2>6 DEF RowSourced
  <2>10. CASE l = k[2] /\ j # c
    <3>1. row'[j] = copies[j]
      BY <2>2, <2>3, <2>5, <2>10 DEF Staffed
    <3> QED
      BY <3>1, <2>4, <2>6 DEF RowSourced
  <2>11. CASE l # k[2]
    <3>1. row'[j] = copies[j] \/ (j[1] = new /\ row'[j] = NewRow(For(e, copies[c].work), NoCopy))
      BY <2>2, <2>3, <2>5, <2>11 DEF Staffed
    <3> QED
      BY <3>1, <2>4, <2>6 DEF RowSourced, NewRow
  <2> QED
    BY <2>9, <2>10, <2>11
<1> QED
  BY <1>1, <1>2, <1>3, <1>4, <1>5, <1>6, <1>7
     DEF SchedulingNext, EditingNext, PlanningNext, ReplacementNext,
         CreatePeriod, Propose, ReturnToDraft, Publish

(* A period that is there stays, with its parent, and is never opened again. *)
PeriodAges(id) ==
  Present(id) => /\ period'[id].parent = period[id].parent
                 /\ Editable(id)' => Editable(id)

LEMMA SchedulingAges ==
  ASSUME TypeOK, Rooted, SchedulingNext, NEW id \in PeriodId
  PROVE  PeriodAges(id)
<1>1. ASSUME NEW p \in Plan, CreatePeriod(p)
      PROVE  PeriodAges(id)
  BY <1>1 DEF CreatePeriod, PeriodAges, Present, Editable, TypeOK
<1>2. ASSUME NEW k \in RowId, period' = Bumped(k[1])
      PROVE  PeriodAges(id)
  BY <1>2, RowKeys DEF Bumped, PeriodAges, TypeOK, PeriodRec, Editable
<1>3. ASSUME NEW i \in PeriodId, Propose(i, period[i].version)
      PROVE  PeriodAges(id)
  BY <1>3 DEF Propose, PeriodAges, TypeOK, PeriodRec, Editable
<1>4. ASSUME NEW i \in PeriodId, ReturnToDraft(i, period[i].version)
      PROVE  PeriodAges(id)
  BY <1>4 DEF ReturnToDraft, PeriodAges, TypeOK, PeriodRec, Editable
<1>5. ASSUME NEW i \in PeriodId, Publish(i, period[i].version)
      PROVE  PeriodAges(id)
  BY <1>5, PublishWrites DEF PeriodAges, Editable
<1>6. ASSUME NEW i \in PeriodId, NEW r \in Revision, CreateRevision(i, period[i].version, r)
      PROVE  PeriodAges(id)
  BY <1>6, RevisionOpens DEF CreateRevision, PeriodAges, Editable
<1>7. ASSUME NEW k \in RowId, NEW e \in Employee, NEW l \in Line, ReplaceInPlace(k, e, l)
      PROVE  PeriodAges(id)
  BY <1>7, RowKeys DEF ReplaceInPlace, PeriodAges, TypeOK, PeriodRec, Editable
<1>8. ASSUME NEW k \in RowId, NEW e \in Employee, NEW l \in Line, NEW r \in Revision,
             ReplaceInRevision(k, e, l, r)
      PROVE  PeriodAges(id)
  BY <1>8, RevisionOpens, RowKeys DEF ReplaceInRevision, PeriodAges, Editable
<1> QED
  BY <1>1, <1>2, <1>3, <1>4, <1>5, <1>6, <1>7, <1>8
     DEF SchedulingNext, EditingNext, PlanningNext, ReplacementNext, AddAssignment, UpdateAssignment, RemoveAssignment

LEMMA ScheduleAges ==
  ASSUME TypeOK, Rooted, [Next]_vars
  PROVE  /\ \A j \in RowId : RowSourced(j)
         /\ \A id \in PeriodId : PeriodAges(id)
<1>1. UNCHANGED scheduleVars => /\ \A j \in RowId : RowSourced(j)
                                /\ \A id \in PeriodId : PeriodAges(id)
  BY DEF scheduleVars, RowSourced, PeriodAges, Editable
<1> QED
  BY <1>1, SchedulingSourced, SchedulingAges, OthersKeepSchedule DEF Next, vars, scheduleVars

-----------------------------------------------------------------------------
(* Requests that are pending together *)

(* A row with a source was copied from the parent of its own period. *)
Sourced ==
  \A k \in RowId : row[k] # NoRow =>
    \/ row[k].copiedFrom = NoCopy
    \/ row[k].copiedFrom \in RowId /\ row[k].copiedFrom[1] = ParentOf(k[1])

LEMMA SourcedStep ==
  ASSUME TypeOK, Rooted, Sourced, [Next]_vars
  PROVE  Sourced'
<1> SUFFICES ASSUME NEW k \in RowId, row'[k] # NoRow
             PROVE  \/ row'[k].copiedFrom = NoCopy
                    \/ row'[k].copiedFrom \in RowId /\ row'[k].copiedFrom[1] = ParentOf(k[1])'
  BY DEF Sourced
<1>1. RowSourced(k) /\ k[1] \in PeriodId /\ PeriodAges(k[1])
  BY ScheduleAges, RowKeys
<1>2. CASE row[k] = NoRow
  BY <1>1, <1>2 DEF RowSourced
<1>3. CASE row[k] # NoRow
  BY <1>1, <1>3 DEF RowSourced, PeriodAges, Rooted, Sourced, ParentOf
<1> QED
  BY <1>2, <1>3

(* The step asks for the row k. *)
Asks(q, k) ==
  /\ UNCHANGED vars
  /\ k \in RowId /\ row[k] \in RowRec
  /\ request'[q].anchor = k
  /\ \A p \in RequestId : p # q => request'[p] = request[p]
  /\ \A p \in RequestId : ~Duplicate(p, request'[q].intent, request'[q].rule, k)

(* The request was pending before the step, for the same row and the same work. *)
Lasts(q) ==
  /\ Waiting(q)
  /\ SameAsk(q)
  /\ request'[q].intent = request[q].intent
  /\ request'[q].rule = request[q].rule
  /\ request'[q].late = request[q].late

LEMMA RequestsLast ==
  ASSUME TypeOK, RequestsOK, [CoverageNext]_coverageVars
  PROVE  \/ \E q \in RequestId, k \in RowId : Asks(q, k)
         \/ \A q \in RequestId : Waiting(q)' => Lasts(q)
<1> DEFINE AllLast == \A q \in RequestId : Waiting(q)' => Lasts(q)
<1>1. ASSUME NEW p \in RequestId, NEW byAdmin \in BOOLEAN, NEW late \in BOOLEAN, NEW a \in RowId,
             NEW intent \in Intent, NEW rule \in Rule \cup {NoRule},
             NEW nominee \in Employee \cup {Nobody},
             CreateRequest(p, byAdmin, a, intent, rule, nominee, late)
      PROVE  \E q \in RequestId, k \in RowId : Asks(q, k)
  <2>1. PICK k \in AnchorFor(a, byAdmin) :
          /\ \A q \in RequestId : ~Duplicate(q, intent, rule, k)
          /\ request' = [request EXCEPT ![p] =
               [status |-> "PENDING", intent |-> intent, rule |-> rule, anchor |-> k,
                asked |-> row[k].work, made |-> row[k].version, late |-> late,
                nominee |-> nominee, version |-> 1]]
    BY <1>1 DEF CreateRequest
  <2>2. k \in RowId /\ row[k] \in RowRec /\ UNCHANGED vars
    BY <1>1, AnchorIsLive DEF CreateRequest
  <2>3. /\ request'[p].anchor = k /\ request'[p].intent = intent /\ request'[p].rule = rule
        /\ \A q \in RequestId : q # p => request'[q] = request[q]
    BY <2>1 DEF RequestsOK
  <2> QED
    BY <2>1, <2>2, <2>3 DEF Asks
<1>2. ASSUME NEW p \in RequestId, Waiting(p), NEW byAdmin \in BOOLEAN,
             NEW nominee \in Employee \cup {Nobody},
             EditRequest(p, request[p].version, byAdmin, nominee)
      PROVE  AllLast
  <2>1. request[p] \in RequestRec
    BY <1>2, WaitingIsRequest
  <2> QED
    BY <1>2, <2>1 DEF EditRequest, Waiting, Lasts, SameAsk, RequestsOK, RequestRec
<1>3. ASSUME NEW p \in RequestId, Waiting(p), CloseRequest(p, request[p].version)
      PROVE  AllLast
  <2>1. request[p] \in RequestRec
    BY <1>3, WaitingIsRequest
  <2> QED
    BY <1>3, <2>1 DEF CloseRequest, Waiting, Lasts, SameAsk, RequestsOK, RequestRec
<1>4. ASSUME NEW p \in RequestId, NEW e \in Employee, NEW l \in Line, Waiting(p),
             ApproveRequest(p, request[p].version, e, l)
      PROVE  AllLast
  <2>1. request[p] \in RequestRec
    BY <1>4, WaitingIsRequest
  <2> QED
    BY <1>4, <2>1 DEF ApproveRequest, Waiting, Lasts, SameAsk, RequestsOK, RequestRec
<1>5. UNCHANGED request => AllLast
  BY DEF Waiting, Lasts, SameAsk
<1> QED
  BY <1>1, <1>2, <1>3, <1>4, <1>5 DEF CoverageNext, CoverageCalls, OtherCalls, coverageVars

(* A request that is new to the row k has looked through its own period, the parent and the draft. *)
LEMMA AroundSeen ==
  ASSUME TypeOK, NEW k \in RowId, NEW b \in RowId,
         \/ b[1] = k[1]
         \/ Editable(k[1]) /\ b[1] = ParentOf(k[1])
         \/ Editable(b[1]) /\ k[1] = ParentOf(b[1])
  PROVE  b[1] \in Around(k)
<1>1. b[1] \in PeriodId
  BY RowKeys
<1> QED
  BY <1>1 DEF Around, ParentOf

(***************************************************************************)
(* Requests to replace somebody.  Two that are pending are never anchored  *)
(* to the same row, nor one to the draft's copy of the other's row.        *)
(***************************************************************************)
Apart(p, q) ==
  LET a == request[p].anchor b == request[q].anchor IN
  a # b /\ ~(row[a].copiedFrom = b /\ Editable(a[1]))

Replaces(q) == Waiting(q) /\ request[q].intent = "REPLACE"

ApartInv == \A p, q \in RequestId : p # q /\ Replaces(p) /\ Replaces(q) => Apart(p, q)

LEMMA ApartAsked ==
  ASSUME TypeOK, RequestsOK, Rooted, Sourced, AskedInv, NEW q \in RequestId, NEW k \in RowId,
         Asks(q, k), NEW p \in RequestId, p # q, Replaces(p), request'[q].intent = "REPLACE"
  PROVE  LET b == request[p].anchor IN
         /\ b # k
         /\ ~(row[k].copiedFrom = b /\ Editable(k[1]))
         /\ ~(row[b].copiedFrom = k /\ Editable(b[1]))
<1> DEFINE b == request[p].anchor
<1>1. b \in RowId /\ row[b] # NoRow
  BY WaitingIsRequest DEF Replaces, RequestRec, AskedInv, Remembers
<1>2. ~Duplicate(p, "REPLACE", request'[q].rule, k) /\ row[k] \in RowRec
  BY DEF Asks
<1>3. b[1] \in Around(k) => ~SameWork(b, k)
  BY <1>2 DEF Duplicate, Replaces
<1>4. k # NoCopy /\ b # NoCopy /\ row[k] # NoRow
  <2>1. \A j \in RowId : j # NoCopy
    BY RowKeys
  <2>2. row[k] # NoRow
    BY <1>2 DEF RowRec, NoRow
  <2> QED
    BY <1>1, <2>1, <2>2
<1>5. b # k
  BY <1>1, <1>3, AroundSeen DEF SameWork
<1>6. ~(row[k].copiedFrom = b /\ Editable(k[1]))
  <2> SUFFICES ASSUME row[k].copiedFrom = b, Editable(k[1])
               PROVE  FALSE
    OBVIOUS
  <2>1. b[1] = ParentOf(k[1])
    BY <1>1, <1>4 DEF Sourced
  <2> QED
    BY <1>1, <1>3, <2>1, AroundSeen DEF SameWork
<1>7. ~(row[b].copiedFrom = k /\ Editable(b[1]))
  <2> SUFFICES ASSUME row[b].copiedFrom = k, Editable(b[1])
               PROVE  FALSE
    OBVIOUS
  <2>1. k[1] = ParentOf(b[1])
    BY <1>1, <1>4 DEF Sourced
  <2> QED
    BY <1>1, <1>3, <1>4, <2>1, AroundSeen DEF SameWork
<1> QED
  BY <1>5, <1>6, <1>7

LEMMA ApartStep ==
  ASSUME TypeOK, RequestsOK, Rooted, Sourced, AskedInv, ApartInv, [CoverageNext]_coverageVars
  PROVE  ApartInv'
<1>1. ASSUME NEW n \in RequestId, NEW k \in RowId, Asks(n, k)
      PROVE  ApartInv'
  <2> SUFFICES ASSUME NEW p \in RequestId, NEW q \in RequestId, p # q, Replaces(p)', Replaces(q)'
               PROVE  Apart(p, q)'
    BY DEF ApartInv
  <2>1. row' = row /\ period' = period
    BY <1>1 DEF Asks, vars
  <2>2. request'[n].anchor = k /\ \A i \in RequestId : i # n => request'[i] = request[i]
    BY <1>1 DEF Asks
  <2>3. CASE p = n
    <3>1. Replaces(q) /\ request'[q] = request[q] /\ request'[p].intent = "REPLACE"
      BY <2>2, <2>3 DEF Replaces, Waiting
    <3> QED
      BY <1>1, <2>1, <2>2, <2>3, <3>1, ApartAsked DEF Apart, Editable
  <2>4. CASE q = n
    <3>1. Replaces(p) /\ request'[p] = request[p] /\ request'[q].intent = "REPLACE"
      BY <2>2, <2>4 DEF Replaces, Waiting
    <3> QED
      BY <1>1, <2>1, <2>2, <2>4, <3>1, ApartAsked DEF Apart, Editable
  <2>5. CASE p # n /\ q # n
    BY <2>1, <2>2, <2>5 DEF ApartInv, Apart, Replaces, Waiting, Editable
  <2> QED
    BY <2>3, <2>4, <2>5
<1>2. ASSUME \A q \in RequestId : Waiting(q)' => Lasts(q)
      PROVE  ApartInv'
  <2> SUFFICES ASSUME NEW p \in RequestId, NEW q \in RequestId, p # q, Replaces(p)', Replaces(q)'
               PROVE  Apart(p, q)'
    BY DEF ApartInv
  <2>0. PICK a, b : a = request[p].anchor /\ b = request[q].anchor
    OBVIOUS
  <2>1. /\ Replaces(p) /\ request'[p].anchor = a
        /\ Replaces(q) /\ request'[q].anchor = b
    BY <1>2, <2>0 DEF Replaces, Lasts, SameAsk
  <2>2. Apart(p, q)
    BY <2>1 DEF ApartInv
  <2>3. a \in RowId /\ row[a] # NoRow /\ a[1] \in PeriodId /\ Present(a[1])
    <3>1. a \in RowId /\ row[a] # NoRow
      BY <2>0, <2>1, WaitingIsRequest DEF Replaces, RequestRec, AskedInv, Remembers
    <3> QED
      BY <3>1, RowKeys DEF Rooted
  <2>4. RowSourced(a) /\ PeriodAges(a[1])
    BY <2>3, CallsArePlanning, ScheduleAges DEF coverageVars
  <2>5. row'[a].copiedFrom = row[a].copiedFrom /\ (Editable(a[1])' => Editable(a[1]))
    BY <2>3, <2>4 DEF RowSourced, PeriodAges
  <2>6. a # b /\ ~(row[a].copiedFrom = b /\ Editable(a[1]))
    BY <2>0, <2>2 DEF Apart
  <2> QED
    BY <2>1, <2>5, <2>6 DEF Apart, Editable
<1> QED
  BY <1>1, <1>2, RequestsLast

(* What a request comes down to is its own row, or the draft's copy of it. *)
LEMMA AnchorOrCopy ==
  ASSUME NEW a \in RowId, NEW j \in CurrentAnchor(a)
  PROVE  /\ j \in RowId
         /\ row[j].work = row[a].work
         /\ \/ j = a
            \/ row[j].copiedFrom = a /\ Editable(j[1]) /\ ParentOf(j[1]) = a[1]
  BY DEF CurrentAnchor

CoverageInv == TypeOK /\ RequestsOK /\ ScheduleInv /\ AskedInv /\ Sourced

LEMMA CoverageInvInit == CoverageInit => CoverageInv
<1>1. CoverageInit => Sourced
  BY DEF CoverageInit, Init, Sourced
<1> QED
  BY <1>1, TypeInit, ScheduleInit
     DEF CoverageInv, CoverageInit, RequestsOK, AskedInv, Waiting, NoRequest

LEMMA CoverageInvStep == CoverageInv /\ [CoverageNext]_coverageVars => CoverageInv'
<1>1. [CoverageNext]_coverageVars => [Next]_vars
  BY CallsArePlanning DEF coverageVars
<1> QED
  BY <1>1, CoverageTypeStep, ScheduleStep, AskedStep, SourcedStep DEF CoverageInv, ScheduleInv

(***************************************************************************)
(* Two pending requests to replace somebody never come down to the same    *)
(* row, however many there are and whichever revisions they were made in.  *)
(***************************************************************************)
THEOREM OneRequestPerWork == CoverageSpec => []OnePendingPerWork
<1>1. CoverageInit => CoverageInv /\ ApartInv
  BY CoverageInvInit DEF CoverageInit, ApartInv, Replaces, Waiting, NoRequest
<1>2. CoverageInv /\ ApartInv /\ [CoverageNext]_coverageVars => (CoverageInv /\ ApartInv)'
  BY CoverageInvStep, ApartStep DEF CoverageInv, ScheduleInv
<1>3. CoverageInv /\ ApartInv => OnePendingPerWork
  <2> SUFFICES ASSUME CoverageInv, ApartInv, NEW p \in RequestId, NEW q \in RequestId, p # q,
                      Replaces(p), Replaces(q),
                      NEW j \in CurrentAnchor(request[p].anchor),
                      j \in CurrentAnchor(request[q].anchor)
               PROVE  FALSE
    BY DEF OnePendingPerWork, Replaces
  <2> DEFINE a == request[p].anchor
             b == request[q].anchor
  <2>1. a \in RowId /\ b \in RowId
    BY WaitingIsRequest DEF CoverageInv, Replaces, RequestRec
  <2>2. Apart(p, q) /\ Apart(q, p)
    BY DEF ApartInv
  <2>3. /\ j = a \/ (row[j].copiedFrom = a /\ Editable(j[1]))
        /\ j = b \/ (row[j].copiedFrom = b /\ Editable(j[1]))
    BY <2>1, AnchorOrCopy
  <2> QED
    BY <2>2, <2>3 DEF Apart
<1> QED
  BY <1>1, <1>2, <1>3, PTL DEF CoverageSpec

(***************************************************************************)
(* Requests for one more person.  Two that can still be granted for one    *)
(* rule are not in the same slot of one period, nor of a draft and the     *)
(* period it revises.                                                      *)
(***************************************************************************)
Supports(q) == Waiting(q) /\ request[q].intent = "ADD" /\ ~Changed(q)

Related(i, j) == i = j \/ (Editable(i) /\ j = ParentOf(i))

Separate(p, q) ==
  LET a == request[p].anchor b == request[q].anchor IN
  Related(a[1], b[1]) => ~SameShift(row[a].work, row[b].work)

SeparateInv ==
  \A p, q \in RequestId :
    p # q /\ Supports(p) /\ Supports(q) /\ request[p].rule = request[q].rule => Separate(p, q)

LEMMA SeparateAsked ==
  ASSUME TypeOK, RequestsOK, NEW q \in RequestId, NEW k \in RowId, Asks(q, k),
         NEW p \in RequestId, p # q, Supports(p),
         request'[q].intent = "ADD", request'[q].rule = request[p].rule
  PROVE  LET b == request[p].anchor IN
         Related(k[1], b[1]) \/ Related(b[1], k[1]) =>
           /\ ~SameShift(row[k].work, row[b].work)
           /\ ~SameShift(row[b].work, row[k].work)
<1> DEFINE b == request[p].anchor
<1>1. b \in RowId
  BY WaitingIsRequest DEF Supports, RequestRec
<1>2. ~Duplicate(p, "ADD", request[p].rule, k)
  BY DEF Asks
<1>3. b[1] \in Around(k) => ~SameShift(row[b].work, row[k].work)
  BY <1>2 DEF Duplicate, Supports
<1>4. Related(k[1], b[1]) \/ Related(b[1], k[1]) => b[1] \in Around(k)
  BY <1>1, AroundSeen DEF Related
<1> QED
  BY <1>3, <1>4 DEF SameShift

(* While a request lasts, it can be granted only if it could be before, on unchanged work. *)
LEMMA SupportLasts ==
  ASSUME TypeOK, RequestsOK, Rooted, AskedInv, [CoverageNext]_coverageVars,
         NEW q \in RequestId, Lasts(q), Supports(q)', NEW a, a = request[q].anchor
  PROVE  /\ Supports(q)
         /\ a \in RowId
         /\ request'[q].anchor = a
         /\ row'[a].work = row[a].work
         /\ Present(a[1])
         /\ PeriodAges(a[1])
<1>1. Waiting(q) /\ request'[q].anchor = a /\ request[q].intent = "ADD"
  BY DEF Lasts, SameAsk, Supports
<1>2. request[q] \in RequestRec /\ Remembers(q)
  BY <1>1, WaitingIsRequest DEF AskedInv
<1>3. a \in RowId /\ request[q].made \in Nat /\ row[a] # NoRow
  BY <1>2 DEF RequestRec, Remembers
<1>4. RowGrows(a)
  BY <1>3, CallsArePlanning, StepGrows DEF coverageVars
<1>5. a[1] \in PeriodId /\ Present(a[1]) /\ PeriodAges(a[1])
  BY <1>3, RowKeys, CallsArePlanning, ScheduleAges DEF coverageVars, Rooted
<1>6. TypeOK'
  BY CoverageTypeStep
<1>7. row[a].version \in Nat /\ row'[a].version \in Nat
  BY <1>3, <1>4, <1>6 DEF TypeOK, RowGrows, RowRec
<1>8. ~request[q].late /\ row'[a].version = request[q].made
  BY <1>1 DEF Supports, Changed, Lasts, SameAsk
<1>9. row'[a] = row[a]
  BY <1>2, <1>3, <1>4, <1>7, <1>8 DEF Remembers, RowGrows
<1> QED
  BY <1>1, <1>3, <1>5, <1>8, <1>9 DEF Supports, Changed

LEMMA SeparateStep ==
  ASSUME TypeOK, RequestsOK, Rooted, AskedInv, SeparateInv, [CoverageNext]_coverageVars
  PROVE  SeparateInv'
<1>1. ASSUME NEW n \in RequestId, NEW k \in RowId, Asks(n, k)
      PROVE  SeparateInv'
  <2> SUFFICES ASSUME NEW p \in RequestId, NEW q \in RequestId, p # q, Supports(p)', Supports(q)',
                      request'[p].rule = request'[q].rule
               PROVE  Separate(p, q)'
    BY DEF SeparateInv
  <2>1. row' = row /\ period' = period
    BY <1>1 DEF Asks, vars
  <2>2. request'[n].anchor = k /\ \A i \in RequestId : i # n => request'[i] = request[i]
    BY <1>1 DEF Asks
  <2>3. CASE p = n
    <3>1. Supports(q) /\ request'[q] = request[q] /\ request'[p].intent = "ADD"
      BY <2>1, <2>2, <2>3 DEF Supports, Waiting, Changed
    <3>2. LET b == request[q].anchor IN
            Related(k[1], b[1]) \/ Related(b[1], k[1]) =>
              /\ ~SameShift(row[k].work, row[b].work)
              /\ ~SameShift(row[b].work, row[k].work)
      <4>1. request'[n].intent = "ADD" /\ request'[n].rule = request[q].rule /\ q # n
        BY <2>3, <3>1
      <4> QED
        BY <1>1, <3>1, <4>1, SeparateAsked
    <3> QED
      BY <2>1, <2>2, <2>3, <3>1, <3>2 DEF Separate, Related, Editable, SameShift, ParentOf
  <2>4. CASE q = n
    <3>1. Supports(p) /\ request'[p] = request[p] /\ request'[q].intent = "ADD"
      BY <2>1, <2>2, <2>4 DEF Supports, Waiting, Changed
    <3>2. LET b == request[p].anchor IN
            Related(k[1], b[1]) \/ Related(b[1], k[1]) =>
              /\ ~SameShift(row[k].work, row[b].work)
              /\ ~SameShift(row[b].work, row[k].work)
      <4>1. request'[n].intent = "ADD" /\ request'[n].rule = request[p].rule /\ p # n
        BY <2>4, <3>1
      <4> QED
        BY <1>1, <3>1, <4>1, SeparateAsked
    <3> QED
      BY <2>1, <2>2, <2>4, <3>1, <3>2 DEF Separate, Related, Editable, SameShift, ParentOf
  <2>5. CASE p # n /\ q # n
    <3>1. /\ Supports(p) /\ request'[p] = request[p]
          /\ Supports(q) /\ request'[q] = request[q]
      BY <2>1, <2>2, <2>5 DEF Supports, Waiting, Changed
    <3>2. Separate(p, q)
      BY <3>1 DEF SeparateInv
    <3> QED
      BY <2>1, <3>1, <3>2 DEF Separate, Related, Editable, SameShift, ParentOf
  <2> QED
    BY <2>3, <2>4, <2>5
<1>2. ASSUME \A q \in RequestId : Waiting(q)' => Lasts(q)
      PROVE  SeparateInv'
  <2> SUFFICES ASSUME NEW p \in RequestId, NEW q \in RequestId, p # q, Supports(p)', Supports(q)',
                      request'[p].rule = request'[q].rule
               PROVE  Separate(p, q)'
    BY DEF SeparateInv
  <2>1. PICK a, b : a = request[p].anchor /\ b = request[q].anchor
    OBVIOUS
  <2>2. Lasts(p) /\ Lasts(q)
    BY <1>2 DEF Supports
  <2>3. /\ Supports(p) /\ request'[p].anchor = a /\ row'[a].work = row[a].work
        /\ Present(a[1]) /\ PeriodAges(a[1])
    BY <2>1, <2>2, SupportLasts
  <2>4. Supports(q) /\ request'[q].anchor = b /\ row'[b].work = row[b].work
    BY <2>1, <2>2, SupportLasts
  <2>5. request[p].rule = request[q].rule
    BY <2>2 DEF Lasts
  <2>6. Related(a[1], b[1]) => ~SameShift(row[a].work, row[b].work)
    BY <2>1, <2>3, <2>4, <2>5 DEF SeparateInv, Separate
  <2>7. Related(a[1], b[1])' => Related(a[1], b[1])
    BY <2>3 DEF PeriodAges, Related, ParentOf
  <2> QED
    BY <2>3, <2>4, <2>6, <2>7 DEF Separate, SameShift
<1> QED
  BY <1>1, <1>2, RequestsLast

(***************************************************************************)
(* Two pending requests for one more person that can both still be granted *)
(* are never about the same shortage, in the plan or in its draft.         *)
(***************************************************************************)
THEOREM OneRequestPerShortage == CoverageSpec => []OneSupportPerShortage
<1>1. CoverageInit => CoverageInv /\ SeparateInv
  BY CoverageInvInit DEF CoverageInit, SeparateInv, Supports, Waiting, NoRequest
<1>2. CoverageInv /\ SeparateInv /\ [CoverageNext]_coverageVars => (CoverageInv /\ SeparateInv)'
  BY CoverageInvStep, SeparateStep DEF CoverageInv, ScheduleInv
<1>3. CoverageInv /\ SeparateInv => OneSupportPerShortage
  <2> SUFFICES ASSUME CoverageInv, SeparateInv, NEW p \in RequestId, NEW q \in RequestId, p # q,
                      Supports(p), Supports(q), request[p].rule = request[q].rule,
                      NEW j \in CurrentAnchor(request[p].anchor),
                      NEW k \in CurrentAnchor(request[q].anchor), j[1] = k[1]
               PROVE  ~SameShift(row[j].work, row[k].work)
    BY DEF OneSupportPerShortage, Supports
  <2>1. PICK a, b : a = request[p].anchor /\ b = request[q].anchor
    OBVIOUS
  <2>2. a \in RowId /\ b \in RowId
    BY <2>1, WaitingIsRequest DEF CoverageInv, Supports, RequestRec
  <2>3. /\ Related(a[1], b[1]) => ~SameShift(row[a].work, row[b].work)
        /\ Related(b[1], a[1]) => ~SameShift(row[b].work, row[a].work)
    BY <2>1 DEF SeparateInv, Separate
  <2>4. /\ row[j].work = row[a].work
        /\ j = a \/ (Editable(j[1]) /\ ParentOf(j[1]) = a[1])
        /\ row[k].work = row[b].work
        /\ k = b \/ (Editable(k[1]) /\ ParentOf(k[1]) = b[1])
    BY <2>1, <2>2, AnchorOrCopy
  <2>5. Related(a[1], b[1]) \/ Related(b[1], a[1])
    BY <2>4 DEF Related
  <2> QED
    BY <2>3, <2>4, <2>5 DEF SameShift
<1> QED
  BY <1>1, <1>2, <1>3, PTL DEF CoverageSpec

-----------------------------------------------------------------------------
(* An addition is for a slot that is still short *)

(* After one more person has joined the row k, the draft t holds them and k's period, no more. *)
Joined(k, e, t) ==
  /\ UNCHANGED <<leaveVars, bookingVars, directoryVars>>
  /\ t \in PeriodId /\ t[1] = k[1][1] /\ Editable(t)'
  /\ \A j \in RowId : j[1] = t /\ Live(j)' =>
       \/ row'[j].work.employee = e
       \/ \E i \in RowId : i[1] = k[1] /\ Live(i) /\ row[i].work = row'[j].work

LEMMA JoinInPlace ==
  ASSUME TypeOK, NEW k \in RowId, NEW e \in Employee, NEW l \in Line, l # k[2],
         ReplaceInPlace(k, e, l)
  PROVE  Joined(k, e, k[1])
<1>1. k[1] \in PeriodId /\ k[1][1] = k[1][1]
  BY RowKeys
<1>2. Editable(k[1])'
  BY <1>1 DEF ReplaceInPlace, Editable, TypeOK, PeriodRec
<1>3. row' = [row EXCEPT ![<<k[1], l>>] = NewRow(For(e, row[k].work), NoCopy)]
  BY DEF ReplaceInPlace, Staffed
<1>4. ASSUME NEW j \in RowId, j[1] = k[1], Live(j)'
      PROVE  \/ row'[j].work.employee = e
             \/ \E i \in RowId : i[1] = k[1] /\ Live(i) /\ row[i].work = row'[j].work
  <2>1. CASE j = <<k[1], l>>
    BY <1>3, <2>1 DEF TypeOK, NewRow, For
  <2>2. CASE j # <<k[1], l>>
    BY <1>3, <1>4, <2>2 DEF TypeOK, Live
  <2> QED
    BY <2>1, <2>2
<1> QED
  BY <1>1, <1>2, <1>4 DEF ReplaceInPlace, Joined

LEMMA JoinInRevision ==
  ASSUME TypeOK, Rooted, NEW k \in RowId, NEW e \in Employee, NEW l \in Line, l # k[2],
         NEW r \in Revision, ReplaceInRevision(k, e, l, r)
  PROVE  Joined(k, e, <<k[1][1], r>>)
<1> DEFINE new == <<k[1][1], r>>
           copies == WithCopies(k[1], new)
           c == <<new, k[2]>>
           added == <<new, l>>
<1>1. /\ k[1] \in PeriodId /\ k[2] \in Line /\ new \in PeriodId /\ ~Present(new)
      /\ period'[new] = [status |-> "DRAFT", current |-> FALSE, parent |-> k[1][2], version |-> 2]
  BY RowKeys, RevisionOpens DEF ReplaceInRevision
<1>2. Editable(new)'
  BY <1>1 DEF Editable
<1>3. copies \in [RowId -> RowRec \cup {NoRow}]
  BY <1>1, CopiesType
<1>4. row' = [copies EXCEPT ![added] = NewRow(For(e, copies[c].work), NoCopy)]
  BY DEF ReplaceInRevision, Staffed
<1>5. ASSUME NEW j \in RowId, j[1] = new, Live(j)'
      PROVE  \/ row'[j].work.employee = e
             \/ \E i \in RowId : i[1] = k[1] /\ Live(i) /\ row[i].work = row'[j].work
  <2> HIDE DEF copies, added, c
  <2>1. CASE j = added
    <3>1. row'[j] = NewRow(For(e, copies[c].work), NoCopy)
      BY <1>3, <1>4, <2>1
    <3> QED
      BY <3>1 DEF NewRow, For
  <2>2. CASE j # added
    <3>1. row'[j] = copies[j]
      BY <1>3, <1>4, <2>2
    <3>2. Live(<<k[1], j[2]>>)
      BY <1>1, <1>5, <3>1, CopiesWritten DEF copies, Live, NoRow
    <3>3. copies[j] = NewRow(row[<<k[1], j[2]>>].work, <<k[1], j[2]>>)
      BY <1>1, <1>5, <3>2, CopiesWritten DEF copies
    <3>4. <<k[1], j[2]>> \in RowId
      BY <1>1, RowKeys DEF RowId
    <3> QED
      BY <3>1, <3>2, <3>3, <3>4 DEF NewRow
  <2> QED
    BY <2>1, <2>2
<1>6. UNCHANGED <<leaveVars, bookingVars, directoryVars>>
  BY DEF ReplaceInRevision
<1> QED
  BY <1>1, <1>2, <1>5, <1>6 DEF Joined

(* So a slot of the draft counts the people of the slot of k, and the one who joined, at most. *)
LEMMA OneMoreCounts ==
  ASSUME NEW k \in RowId, NEW e \in Employee, NEW t, Joined(k, e, t), NEW rule \in Rule,
         Cardinality(Counted(rule, k)) < Required[rule],
         NEW h \in RowId, h[1] = t, SameShift(row'[h].work, row[k].work)
  PROVE  Cardinality(Counted(rule, h)') <= Required[rule]
<1> DEFINE before == Counted(rule, k)
           after == Counted(rule, h)'
<1>1. after \subseteq before \cup {e}
  <2> SUFFICES ASSUME NEW x \in after, x # e
               PROVE  x \in before
    OBVIOUS
  <2>1. /\ x \in Skilled[rule] /\ employed'[x]
        /\ ~OnLeave(x, row[h].work.date, row[h].work.date)'
    BY DEF Counted
  <2>2. PICK j \in RowId :
          /\ j[1] = t /\ Live(j)'
          /\ row'[j].work.employee = x
          /\ row'[j].work.site \in RuleSites[rule]
          /\ SameShift(row'[j].work, row'[h].work)
    BY DEF Counted, LiveRows, AppliesTo, SameShift
  <2>3. PICK i \in RowId : i[1] = k[1] /\ Live(i) /\ row[i].work = row'[j].work
    BY <2>2 DEF Joined
  <2>4. ~OnLeave(x, row[k].work.date, row[k].work.date)
    <3>1. row'[h].work.date = row[k].work.date /\ leave' = leave
      BY DEF Joined, leaveVars, SameShift
    <3> QED
      BY <2>1, <3>1 DEF OnLeave, Approved, Meets
  <2>5. employed[x]
    BY <2>1 DEF Joined, directoryVars
  <2> QED
    BY <2>1, <2>2, <2>3, <2>4, <2>5 DEF Counted, LiveRows, AppliesTo, SameShift
<1>2. IsFiniteSet(before)
  <2>1. before \subseteq Skilled[rule]
    BY DEF Counted
  <2> QED
    BY <2>1, CoverageAssumption, FS_Subset
<1>3. Required[rule] \in Nat
  BY CoverageAssumption
<1> HIDE DEF before, after
<1>4. Cardinality(before) \in Nat
  BY <1>2, FS_CardinalityType
<1>5. /\ IsFiniteSet(before \cup {e})
      /\ Cardinality(before \cup {e}) <= Cardinality(before) + 1
  <2>1. /\ IsFiniteSet(before \cup {e})
        /\ Cardinality(before \cup {e}) = IF e \in before THEN Cardinality(before) ELSE Cardinality(before) + 1
    BY <1>2, FS_AddElement, Zenon
  <2> QED
    BY <1>4, <2>1
<1>6. Cardinality(before \cup {e}) \in Nat
  BY <1>5, FS_CardinalityType
<1>7. Cardinality(after) \in Nat /\ Cardinality(after) <= Cardinality(before \cup {e})
  <2>1. IsFiniteSet(after) /\ Cardinality(after) <= Cardinality(before \cup {e})
    BY <1>1, <1>5, FS_Subset
  <2> QED
    BY <2>1, FS_CardinalityType
<1>8. Cardinality(before) < Required[rule]
  BY DEF before
<1>9. Cardinality(after) <= Required[rule]
  BY <1>3, <1>4, <1>5, <1>6, <1>7, <1>8
<1> QED
  BY <1>9 DEF after

FitsItsRule(q) ==
  \A k \in RowId :
    /\ Live(k)'
    /\ Editable(k[1])'
    /\ k[1][1] = request[q].anchor[1][1]
    /\ SameShift(row'[k].work, request[q].asked)
    => Cardinality(Counted(request[q].rule, k)') <= Required[request[q].rule]

LEMMA ApprovalFitsItsRule ==
  ASSUME TypeOK, RequestsOK, ScheduleInv, AskedInv, [CoverageNext]_coverageVars, OneLineage',
         NEW q \in RequestId, Approves(q), request[q].intent = "ADD"
  PROVE  FitsItsRule(q)
<1>1. PICK e \in Employee, l \in Line : ApproveRequest(q, request[q].version, e, l)
  BY ApprovalIsACall
<1>2. PICK a, w, rule : a = request[q].anchor /\ w = request[q].asked /\ rule = request[q].rule
  OBVIOUS
<1>3. PICK k \in CurrentAnchor(a) :
        /\ StillAsked(q, k)
        /\ l # k[2]
        /\ ReplaceInPlace(k, e, l) \/ \E r \in Revision : ReplaceInRevision(k, e, l, r)
  BY <1>1, <1>2 DEF ApproveRequest
<1>4. /\ k \in RowId /\ row[k].work = row[a].work
      /\ k = a \/ ParentOf(k[1]) = a[1]
  BY <1>3 DEF CurrentAnchor
<1>5. k[1][1] = a[1][1]
  BY <1>4 DEF ParentOf
<1>6. row[k].work = w
  BY <1>2, <1>3, <1>4 DEF StillAsked, Changed, AskedInv, Remembers, Approves
<1>7. request[q] \in RequestRec /\ request'[q].rule = rule
  <2>1. request[q] \in RequestRec
    BY WaitingIsRequest DEF Approves
  <2> QED
    BY <1>1, <1>2, <2>1 DEF ApproveRequest, RequestsOK, RequestRec
<1>8. rule \in Rule /\ Cardinality(Counted(rule, k)) < Required[rule]
  BY <1>2, <1>3, <1>7 DEF StillAsked, Wanted, Gap, RequestRec
<1>9. PICK t : Joined(k, e, t)
  BY <1>3, <1>4, JoinInPlace, JoinInRevision DEF ScheduleInv
<1>10. ASSUME NEW h \in RowId, Editable(h[1])', h[1][1] = a[1][1], SameShift(row'[h].work, w)
       PROVE  Cardinality(Counted(rule, h)') <= Required[rule]
  <2>1. h[1] = t
    <3>1. /\ h[1] = <<h[1][1], h[1][2]>> /\ h[1][1] \in Plan /\ h[1][2] \in Revision
          /\ t = <<t[1], t[2]>> /\ t[1] \in Plan /\ t[2] \in Revision
          /\ Editable(t)' /\ t[1] = h[1][1]
      BY <1>5, <1>9, <1>10, RowKeys DEF Joined, PeriodId
    <3> QED
      BY <1>10, <3>1 DEF OneLineage
  <2> QED
    BY <1>4, <1>6, <1>8, <1>9, <1>10, <2>1, OneMoreCounts
<1>11. \A h \in RowId : Counted(request[q].rule, h)' = Counted(rule, h)'
  BY <1>7 DEF Counted, AppliesTo
<1> QED
  BY <1>2, <1>10, <1>11 DEF FitsItsRule

(***************************************************************************)
(* Granting one more person never puts more people in a slot than its rule *)
(* needs, however the plan was staffed while the request waited.           *)
(***************************************************************************)
THEOREM AdditionsFitTheirRule == CoverageSpec => NoOverstaffing
<1>1. CoverageInit => CoverageInv
  BY CoverageInvInit
<1>2. CoverageInv /\ [CoverageNext]_coverageVars => CoverageInv'
  BY CoverageInvStep
<1>3. CoverageInv /\ CoverageInv' /\ [CoverageNext]_coverageVars
        => [\A q \in RequestId : Approves(q) /\ request[q].intent = "ADD" => FitsItsRule(q)]_coverageVars
  BY ApprovalFitsItsRule DEF CoverageInv, ScheduleInv
<1> QED
  BY <1>1, <1>2, <1>3, PTL DEF CoverageSpec, NoOverstaffing, FitsItsRule
=============================================================================
