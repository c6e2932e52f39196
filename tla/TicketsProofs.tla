--------------------------- MODULE TicketsProofs ---------------------------
(***************************************************************************)
(* The tickets keep their promises for all people, workspaces, boards,     *)
(* tickets and files, and any number of commands and reads at once.        *)
(***************************************************************************)
EXTENDS Tickets, TLAPS

-----------------------------------------------------------------------------
(* What a request carries *)

TicketOps == {"EDIT", "LOG", "ARCHIVE", "RESTORE", "ATTACH", "DOWNLOAD", "ARCHIVE_FILE",
              "RESTORE_FILE", "PARTICIPANTS"}
FileOps == {"ATTACH", "DOWNLOAD", "ARCHIVE_FILE", "RESTORE_FILE"}
MemberOps == {"ADD_MEMBER", "REMOVE_MEMBER"}

Carries(q) ==
  /\ OfTicket(q) <=> q.op \in TicketOps
  /\ q.op \in TicketOps => q.ticket \in Ticket
  /\ q.op \in FileOps => q.file \in TFile
  /\ q.op \in {"CREATE", "PARTICIPANTS"} => q.assignees \subseteq Person /\ q.observers \subseteq Person
  /\ q.op = "CREATE" => q.new \in Ticket
  /\ q.op \in {"CREATE", "BOARD", "NEW_BOARD"} => q.board \in Board
  /\ q.op \in {"BOARD", "NEW_BOARD"} => q.status \in BoardStatus \ {"NONE"}
  /\ q.op \in MemberOps => q.person \in Person
  /\ q.op \in MemberOps \cup {"NEW_SPACE", "RENAME"} => q.space \in Space
  /\ q.op \in TicketOps \cup MemberOps \cup {"CREATE", "BOARD", "NEW_BOARD", "NEW_SPACE", "RENAME"}

LEMMA RequestCarries ==
  ASSUME NEW q \in TicketRequest
  PROVE  Carries(q)
<1> USE AccessAssumption DEF Carries, OfTicket, TicketOps, FileOps, MemberOps
<1>1. CASE q \in TicketOp
  BY <1>1 DEF TicketOp
<1>2. CASE q \in FileOp
  BY <1>2 DEF FileOp
<1>3. CASE q \in PeopleOp
  BY <1>3 DEF PeopleOp, AskedOnce
<1>4. CASE q \in CreateOp
  BY <1>4 DEF CreateOp, AskedOnce
<1>5. CASE q \in BoardOp
  BY <1>5 DEF BoardOp
<1>6. CASE q \in SpaceOp
  BY <1>6 DEF SpaceOp
<1> QED
  BY <1>1, <1>2, <1>3, <1>4, <1>5, <1>6 DEF TicketRequest

(* The workspace that a request locks: that of its ticket, its own, or that of its board. *)
LEMMA RequestSpace ==
  ASSUME NEW q \in TicketRequest
  PROVE  /\ q.op \in TicketOps => TargetSpace(q) = SpaceOf(q.ticket)
         /\ q.op \in MemberOps \cup {"NEW_SPACE", "RENAME"} => TargetSpace(q) = q.space
         /\ q.op \in {"CREATE", "BOARD", "NEW_BOARD"} => TargetSpace(q) = BoardSpace[q.board]
<1> USE DEF TargetSpace, OfTicket, TicketOps, MemberOps
<1>1. CASE q \in TicketOp
  BY <1>1 DEF TicketOp
<1>2. CASE q \in FileOp
  BY <1>2 DEF FileOp
<1>3. CASE q \in PeopleOp
  BY <1>3 DEF PeopleOp, AskedOnce
<1>4. CASE q \in CreateOp
  BY <1>4 DEF CreateOp, AskedOnce
<1>5. CASE q \in BoardOp
  BY <1>5 DEF BoardOp
<1>6. CASE q \in SpaceOp
  BY <1>6 DEF SpaceOp
<1> QED
  BY <1>1, <1>2, <1>3, <1>4, <1>5, <1>6 DEF TicketRequest
-----------------------------------------------------------------------------
(* Tables *)

TxRec ==
  {Idle}
    \cup [stage : {"command"}, actor : Operator, request : TicketRequest]
    \cup [stage : {"snapshot", "locked"}, actor : Operator, scope : Ticket \cup {"all"},
          view : SUBSET Ticket, stale : BOOLEAN, attempt : Nat]

TablesOK ==
  /\ person \in [Person -> PersonRec]
  /\ space \in [Space -> {"none", "closed", "present"}]
  /\ board \in [Board -> BoardStatus]
  /\ ticket \in [Ticket -> TicketRec \cup {NoTicket}]
  /\ told \in [Ticket -> SUBSET Person]
  /\ tfile \in [TFile -> FileRec]
  /\ tx \in [Tx -> TxRec]

LEMMA CommandType ==
  ASSUME TablesOK, NEW i \in Tx, InCommand(i)
  PROVE  /\ Actor(i) \in Person
         /\ Asked(i) \in TicketRequest
         /\ tx[i] = Command(Actor(i), Asked(i))
  BY AccessAssumption DEF TablesOK, TxRec, InCommand, Actor, Asked, Idle, Command

LEMMA ReadingType ==
  ASSUME TablesOK, NEW i \in Tx, IsReading(i)
  PROVE  /\ tx[i].actor \in Person
         /\ tx[i].scope \in Ticket \cup {"all"}
         /\ tx[i].view \in SUBSET Ticket
         /\ tx[i].stale \in BOOLEAN
         /\ tx[i].attempt \in Nat
  BY AccessAssumption DEF TablesOK, TxRec, IsReading, Idle

LEMMA TicketType ==
  ASSUME TablesOK, NEW t \in Ticket, IsTicket(t)
  PROVE  ticket[t] \in TicketRec
  BY DEF TablesOK, IsTicket

(***************************************************************************)
(* What a step leaves alone of the rows it has not written: the fields     *)
(* each row stands for, but for what only gives people more.               *)
(***************************************************************************)
PeopleUnwritten(rows) ==
  \A p \in Person :
    /\ <<"user", p>> \notin rows =>
         person'[p].role = person[p].role /\ person'[p].active = person[p].active
    /\ <<"session", p>> \notin rows => (person[p].session => person'[p].session)
    /\ <<"profile", p>> \notin rows => person'[p].team = person[p].team
    /\ <<"grants", p>> \notin rows =>
         person[p].teams \subseteq person'[p].teams /\ person[p].spaces \subseteq person'[p].spaces

TablesUnwritten(rows) ==
  /\ \A t \in Ticket : IsTicket(t) /\ <<"ticket", t>> \notin rows =>
       ticket'[t] = ticket[t] /\ PeopleOf(t)' = PeopleOf(t)
  /\ \A b \in Board : board[b] # "NONE" /\ <<"board", b>> \notin rows => board'[b] = board[b]
  /\ \A w \in Space, p \in Person :
       <<"space", w>> \notin rows /\ <<w, p>> \in member => <<w, p>> \in member'

Unwritten(rows) == PeopleUnwritten(rows) /\ TablesUnwritten(rows)

(* The rows of a workspace, its boards and its tickets. *)
SpaceRows(w) ==
  {<<"space", w>>} \cup {<<"board", b>> : b \in {c \in Board : BoardSpace[c] = w}}
    \cup {<<"ticket", t>> : t \in {u \in Ticket : IsTicket(u) /\ SpaceOf(u) = w}}

-----------------------------------------------------------------------------
(* What may be done stays allowed while its rows are not written *)

LEMMA ManagingKept ==
  ASSUME TablesOK, NEW rows, Unwritten(rows), NEW a \in Person,
         <<"user", a>> \notin rows, <<"grants", a>> \notin rows
  PROVE  /\ person'[a].role = person[a].role
         /\ person'[a].active = person[a].active
         /\ \A w : ManagesIfMember(a, w) => ManagesIfMember(a, w)'
         /\ \A w \in Space : <<"space", w>> \notin rows /\ ManagesSpace(a, w) => ManagesSpace(a, w)'
         /\ \A p \in Person :
              /\ <<"user", p>> \notin rows /\ <<"profile", p>> \notin rows
              /\ InScope(a, p)
              => InScope(a, p)'
<1>1. /\ person'[a].role = person[a].role
      /\ person'[a].active = person[a].active
      /\ person[a].teams \subseteq person'[a].teams
      /\ person[a].spaces \subseteq person'[a].spaces
  BY DEF Unwritten, PeopleUnwritten
<1>2. \A w : ManagesIfMember(a, w) => ManagesIfMember(a, w)'
  BY <1>1 DEF ManagesIfMember
<1>3. \A w \in Space : <<"space", w>> \notin rows /\ ManagesSpace(a, w) => ManagesSpace(a, w)'
  BY <1>1, <1>2 DEF ManagesSpace, Unwritten, TablesUnwritten
<1>4. \A p \in Person :
        /\ <<"user", p>> \notin rows /\ <<"profile", p>> \notin rows
        /\ InScope(a, p)
        => InScope(a, p)'
  BY <1>1 DEF InScope, Unwritten, PeopleUnwritten
<1> QED
  BY <1>1, <1>2, <1>3, <1>4

(* The rows that decide who manages and reads the ticket t. *)
TicketRows(t) ==
  {<<"space", SpaceOf(t)>>, <<"board", ticket[t].board>>, <<"ticket", t>>} \cup PersonRows(PeopleOf(t))

LEMMA TicketPeople ==
  ASSUME TablesOK, NEW t \in Ticket, IsTicket(t),
         \A f \in TFile : tfile[f].row # "none" => tfile[f].by \in Person
  PROVE  PeopleOf(t) \subseteq Person
<1>1. ticket[t] \in TicketRec
  BY TicketType
<1> QED
  BY <1>1 DEF PeopleOf, Takers, FilesOf, TicketRec

LEMMA ReadingKept ==
  ASSUME TablesOK, NEW rows, Unwritten(rows), NEW a \in Person, NEW t \in Ticket, IsTicket(t),
         board[ticket[t].board] # "NONE", PeopleOf(t) \subseteq Person,
         <<"user", a>> \notin rows, <<"grants", a>> \notin rows, rows \cap TicketRows(t) = {}
  PROVE  /\ ticket'[t] = ticket[t]
         /\ board'[ticket[t].board] = board[ticket[t].board]
         /\ SpaceOf(t) \in Space
         /\ SpaceOf(t)' = SpaceOf(t)
         /\ ManagesTicket(a, t) => ManagesTicket(a, t)'
         /\ Reads(a, t) => Reads(a, t)'
<1>1. ticket[t] \in TicketRec /\ ticket[t].board \in Board /\ SpaceOf(t) \in Space
  BY TicketType, AccessAssumption DEF TicketRec, SpaceOf
<1>2. <<"ticket", t>> \notin rows /\ <<"board", ticket[t].board>> \notin rows /\ <<"space", SpaceOf(t)>> \notin rows
  BY DEF TicketRows
<1>3. /\ ticket'[t] = ticket[t]
      /\ PeopleOf(t)' = PeopleOf(t)
      /\ board'[ticket[t].board] = board[ticket[t].board]
  BY <1>1, <1>2 DEF Unwritten, TablesUnwritten
<1>4. SpaceOf(t)' = SpaceOf(t)
  BY <1>3 DEF SpaceOf
<1>5. /\ person'[a].role = person[a].role
      /\ ManagesSpace(a, SpaceOf(t)) => ManagesSpace(a, SpaceOf(t))'
      /\ \A p \in Person :
           /\ <<"user", p>> \notin rows /\ <<"profile", p>> \notin rows
           /\ InScope(a, p)
           => InScope(a, p)'
  <2>1. \A w \in Space : <<"space", w>> \notin rows /\ ManagesSpace(a, w) => ManagesSpace(a, w)'
    BY ManagingKept
  <2>2. ManagesSpace(a, SpaceOf(t)) => ManagesSpace(a, SpaceOf(t))'
    BY <1>1, <1>2, <1>4, <2>1 DEF ManagesSpace, ManagesIfMember
  <2> QED
    BY <2>2, ManagingKept
<1>6. \A p \in PeopleOf(t) : <<"user", p>> \notin rows /\ <<"profile", p>> \notin rows
  BY DEF TicketRows, PersonRows
<1>7. \A p \in PeopleOf(t) : person'[p].role = person[p].role
  BY <1>6 DEF Unwritten, PeopleUnwritten
<1>8. ManagesTicket(a, t) => ManagesTicket(a, t)'
  BY <1>3, <1>5, <1>6, <1>7 DEF ManagesTicket
<1>9. Reads(a, t) => Reads(a, t)'
  BY <1>3, <1>8 DEF Reads, Takers
<1> QED
  BY <1>1, <1>3, <1>4, <1>8, <1>9
LEMMA WorkKept ==
  ASSUME NEW a, NEW t, ticket'[t] = ticket[t],
         board'[ticket[t].board] = board[ticket[t].board],
         ManagesTicket(a, t) => ManagesTicket(a, t)',
         Reads(a, t) => Reads(a, t)'
  PROVE  /\ MayWork(a, t) => MayWork(a, t)'
         /\ MayManagePeople(a, t) => MayManagePeople(a, t)'
         /\ MayArchive(a, t) => MayArchive(a, t)'
         /\ MayRestore(a, t) => MayRestore(a, t)'
         /\ \A f : tfile'[f].by = tfile[f].by /\ MayChangeFile(a, t, f) => MayChangeFile(a, t, f)'
<1>1. Owns(a, t) => Owns(a, t)'
  BY DEF Owns
<1>2. OnLiveBoard(t)' <=> OnLiveBoard(t)
  BY DEF OnLiveBoard
<1>3. MayWork(a, t) => MayWork(a, t)'
  BY <1>1, <1>2 DEF MayWork
<1> QED
  BY <1>1, <1>2, <1>3 DEF MayManagePeople, MayArchive, MayRestore, MayChangeFile

(* A command keeps its permission while nobody writes its rows or its workspace's. *)
LEMMA PermissionKept ==
  ASSUME TablesOK, NEW rows, Unwritten(rows), NEW a \in Person, NEW q \in TicketRequest,
         Permitted(a, q),
         \A t \in Ticket : IsTicket(t) => PeopleOf(t) \subseteq Person,
         \A t \in Ticket : IsTicket(t) => board[ticket[t].board] # "NONE",
         rows \cap CommandRows(a, q) = {}, rows \cap SpaceRows(TargetSpace(q)) = {},
         q.op = "NEW_SPACE" => space'[q.space] = space[q.space],
         q.op \in {"ARCHIVE_FILE", "RESTORE_FILE"} => tfile'[q.file].by = tfile[q.file].by
  PROVE  Permitted(a, q)' /\ TargetSpace(q)' = TargetSpace(q)
<1>0. Carries(q)
  BY RequestCarries
<1>1. <<"user", a>> \notin rows /\ <<"session", a>> \notin rows /\ <<"grants", a>> \notin rows
  BY DEF CommandRows, ActorRows
<1>2. Authentic(a) /\ Authentic(a)'
  <2>1. person'[a].active = person[a].active /\ (person[a].session => person'[a].session)
    BY <1>1 DEF Unwritten, PeopleUnwritten
  <2> QED
    BY <2>1 DEF Permitted, Authentic
<1>3. /\ \A w : ManagesIfMember(a, w) => ManagesIfMember(a, w)'
      /\ \A w \in Space : <<"space", w>> \notin rows /\ ManagesSpace(a, w) => ManagesSpace(a, w)'
      /\ \A p \in Person :
           /\ <<"user", p>> \notin rows /\ <<"profile", p>> \notin rows
           /\ InScope(a, p)
           => InScope(a, p)'
  BY <1>1, ManagingKept
<1>4. TargetSpace(q) \in Space => <<"space", TargetSpace(q)>> \notin rows
  BY DEF SpaceRows
<1>5. CASE q.op \in TicketOps
  <2> DEFINE t == q.ticket
  <2>1. OfTicket(q) /\ t \in Ticket /\ IsTicket(t) /\ Reads(a, t)
    BY <1>0, <1>5 DEF Carries, Permitted
  <2>2. TargetSpace(q) = SpaceOf(t) /\ TargetSpace(q)' = SpaceOf(t)'
    BY <1>5, <2>1, RequestSpace DEF TargetSpace
  <2>3. ticket[t] \in TicketRec /\ ticket[t].board \in Board
    BY <2>1, TicketType DEF TicketRec
  <2>4. rows \cap TicketRows(t) = {}
    <3>1. {<<"space", SpaceOf(t)>>, <<"board", ticket[t].board>>, <<"ticket", t>>} \subseteq SpaceRows(SpaceOf(t))
      BY <2>1, <2>3 DEF SpaceRows, SpaceOf
    <3>2. PersonRows(PeopleOf(t)) \subseteq CommandRows(a, q)
      BY <2>1 DEF CommandRows
    <3> QED
      BY <2>2, <3>1, <3>2 DEF TicketRows
  <2>5. /\ ticket'[t] = ticket[t]
        /\ board'[ticket[t].board] = board[ticket[t].board]
        /\ SpaceOf(t)' = SpaceOf(t)
        /\ ManagesTicket(a, t) => ManagesTicket(a, t)'
        /\ Reads(a, t) => Reads(a, t)'
    BY <1>1, <2>1, <2>4, ReadingKept
  <2>6. /\ MayWork(a, t) => MayWork(a, t)'
        /\ MayManagePeople(a, t) => MayManagePeople(a, t)'
        /\ MayArchive(a, t) => MayArchive(a, t)'
        /\ MayRestore(a, t) => MayRestore(a, t)'
        /\ \A f : tfile'[f].by = tfile[f].by /\ MayChangeFile(a, t, f) => MayChangeFile(a, t, f)'
    BY <2>5, WorkKept
  <2>7. IsTicket(t)'
    BY <2>1, <2>5 DEF IsTicket
  <2>8. q.op \notin MemberOps \cup {"CREATE", "RENAME", "BOARD", "NEW_BOARD", "NEW_SPACE"}
    BY <1>5 DEF TicketOps, MemberOps
  <2> QED
    BY <1>2, <2>1, <2>2, <2>5, <2>6, <2>7, <2>8 DEF Permitted, MemberOps
<1>6. CASE q.op \notin TicketOps
  <2>1. ~OfTicket(q)
    BY <1>0, <1>6 DEF Carries
  <2>2. TargetSpace(q)' = TargetSpace(q)
    BY <2>1 DEF TargetSpace
  <2>3. TargetSpace(q) \in Space
    BY <1>0, <1>6, RequestSpace, AccessAssumption DEF Carries
  <2>4. ManagesSpace(a, TargetSpace(q)) => ManagesSpace(a, TargetSpace(q))'
    <3>1. ManagesSpace(a, TargetSpace(q)) => <<TargetSpace(q), a>> \in member' \/ person'[a].role = "SUPER_ADMIN"
      <4>1. person'[a].role = person[a].role
        BY <1>1, ManagingKept
      <4> QED
        BY <1>4, <2>3, <4>1 DEF ManagesSpace, Unwritten, TablesUnwritten
    <3> QED
      BY <1>3, <2>2, <3>1 DEF ManagesSpace, ManagesIfMember
  <2>5. CASE q.op = "CREATE"
    <3>1. q.board \in Board /\ TargetSpace(q) = BoardSpace[q.board]
      BY <1>0, <2>5, RequestSpace DEF Carries
    <3>2. <<"board", q.board>> \notin rows
      BY <3>1 DEF SpaceRows
    <3>3. board'[q.board] = board[q.board]
      BY <2>5, <3>1, <3>2 DEF Permitted, Unwritten, TablesUnwritten
    <3>4. ManagesSpace(a, BoardSpace[q.board]) => ManagesSpace(a, BoardSpace[q.board])'
      BY <1>3, <1>4, <2>3, <3>1
    <3> QED
      BY <1>2, <2>1, <2>2, <2>5, <3>3, <3>4 DEF Permitted
  <2>6. CASE q.op \in {"RENAME", "BOARD", "NEW_BOARD"}
    BY <1>2, <2>1, <2>2, <2>4, <2>6 DEF Permitted
  <2>7. CASE q.op = "NEW_SPACE"
    BY <1>2, <1>3, <2>1, <2>2, <2>7 DEF Permitted
  <2>8. CASE q.op \in MemberOps
    <3>1. q.person \in Person
      BY <1>0, <2>8 DEF Carries
    <3>2. <<"user", q.person>> \notin rows /\ <<"profile", q.person>> \notin rows
      BY <2>8 DEF CommandRows, PersonRows, MemberOps
    <3>3. InScope(a, q.person) => InScope(a, q.person)'
      BY <1>3, <3>1, <3>2
    <3>4. ASSUME q.op = "ADD_MEMBER", MayGrant(a, q.space, q.person)
          PROVE  MayGrant(a, q.space, q.person)'
      <4>1. person'[q.person].role = person[q.person].role /\ person'[q.person].active = person[q.person].active
        BY <3>1, <3>2 DEF Unwritten, PeopleUnwritten
      <4>2. person[q.person].role = "ADMIN" /\ ManagesIfMember(q.person, q.space) => ManagesIfMember(q.person, q.space)'
        <5>1. person[q.person].role = "ADMIN" => <<"grants", q.person>> \notin rows
          BY <3>4 DEF CommandRows
        <5> QED
          BY <3>1, <3>2, <5>1, ManagingKept
      <4> QED
        BY <3>3, <3>4, <4>1, <4>2 DEF MayGrant
    <3> QED
      BY <1>2, <2>1, <2>2, <2>4, <2>8, <3>3, <3>4 DEF Permitted, MemberOps
  <2> QED
    BY <1>0, <1>6, <2>2, <2>5, <2>6, <2>7, <2>8 DEF Carries
<1> QED
  BY <1>5, <1>6
-----------------------------------------------------------------------------
(* The inductive invariant *)

(* An upload that is not yet listed, unless no answer to its COMMIT will come;
   what is stored, or was answered for, has its object. *)
FileOK(file) ==
  /\ file.row # "none" \/ file.upload # "none" => file.by \in Person
  /\ file.row # "none" => file.upload \in {"none", "unsure"}
  /\ file.upload = "stored" => file.object
  /\ file.answered => file.row # "none" /\ file.upload = "none" /\ file.object
FilesInv == \A f \in TFile : FileOK(tfile[f])

BoardsInv == \A t \in Ticket : IsTicket(t) => board[ticket[t].board] # "NONE"

LapsedInv == \A p \in Person : person[p].active \/ person[p].lapsed

(* The file or the board that a command has looked at is as it was. *)
Ready(q) ==
  /\ q.op = "ATTACH" =>
       /\ tfile[q.file].row = "none" /\ tfile[q.file].upload # "checked"
       /\ tfile[q.file].of = q.ticket /\ tfile[q.file].by \in Person
  /\ q.op \in {"ARCHIVE_FILE", "RESTORE_FILE"} =>
       tfile[q.file].row # "none" /\ tfile[q.file].of = q.ticket
  /\ q.op = "NEW_BOARD" => board[q.board] = "NONE"

CommandOK(i) == InCommand(i) => Permitted(Actor(i), Asked(i)) /\ Ready(Asked(i))
CommandInv == \A i \in Tx : CommandOK(i)

(* A workspace has one command, or reads. *)
LockInv ==
  /\ \A i, j \in Tx :
       InCommand(i) /\ InCommand(j) /\ TargetSpace(Asked(i)) = TargetSpace(Asked(j)) => i = j
  /\ \A i, j \in Tx :
       tx[i].stage = "locked" /\ InCommand(j) => TargetSpace(Asked(j)) \notin SpacesOf(tx[i].scope)

(* A snapshot that is not stale shows what may be seen now. *)
Shown(a, view) == Authentic(a) /\ \A t \in view : IsTicket(t) /\ Reads(a, t)

ViewOK(i) ==
  IsReading(i) =>
    /\ \A t \in tx[i].view : tx[i].scope = "all" \/ tx[i].scope = t
    /\ tx[i].scope # "all" => IsTicket(tx[i].scope)
    /\ tx[i].stage = "locked" \/ ~tx[i].stale => Shown(tx[i].actor, tx[i].view)
ViewInv == \A i \in Tx : ViewOK(i)

TicketsInv == TablesOK /\ FilesInv /\ BoardsInv /\ LapsedInv /\ CommandInv /\ LockInv /\ ViewInv

LEMMA PeopleArePersons ==
  ASSUME TablesOK, FilesInv, NEW t \in Ticket, IsTicket(t)
  PROVE  PeopleOf(t) \subseteq Person
<1>1. \A f \in TFile : tfile[f].row # "none" => tfile[f].by \in Person
  BY DEF FilesInv, FileOK
<1> QED
  BY <1>1, TicketPeople

-----------------------------------------------------------------------------
(* What the end of a command writes *)

LEMMA BumpedKeeps ==
  ASSUME NEW files \in [TFile -> FileRec], NEW t
  PROVE  /\ Bumped(files, t) \in [TFile -> FileRec]
         /\ \A f \in TFile :
              /\ Bumped(files, t)[f].object = files[f].object
              /\ Bumped(files, t)[f].row = files[f].row
              /\ Bumped(files, t)[f].of = files[f].of
              /\ Bumped(files, t)[f].by = files[f].by
              /\ Bumped(files, t)[f].upload = files[f].upload
              /\ Bumped(files, t)[f].answered = files[f].answered
<1>1. ASSUME NEW f \in TFile
      PROVE  /\ Bumped(files, t)[f] \in FileRec
             /\ Bumped(files, t)[f].object = files[f].object
             /\ Bumped(files, t)[f].row = files[f].row
             /\ Bumped(files, t)[f].of = files[f].of
             /\ Bumped(files, t)[f].by = files[f].by
             /\ Bumped(files, t)[f].upload = files[f].upload
             /\ Bumped(files, t)[f].answered = files[f].answered
  <2>1. files[f] \in FileRec
    OBVIOUS
  <2> DEFINE r == files[f]
  <2>2. [r EXCEPT !.fresh = FALSE] \in FileRec
    BY <2>1 DEF FileRec
  <2> QED
    BY <2>1, <2>2 DEF Bumped, FileRec
<1> QED
  BY <1>1 DEF Bumped

LEMMA PeopleOfKept ==
  ASSUME NEW t, ticket'[t] = ticket[t],
         \A f \in TFile :
           /\ tfile'[f].row # "none" /\ tfile'[f].of = t <=> tfile[f].row # "none" /\ tfile[f].of = t
           /\ tfile[f].row # "none" => tfile'[f].by = tfile[f].by
  PROVE  PeopleOf(t)' = PeopleOf(t)
<1>1. FilesOf(t)' = FilesOf(t)
  BY DEF FilesOf
<1>2. {tfile'[f].by : f \in FilesOf(t)'} = {tfile[f].by : f \in FilesOf(t)}
  BY <1>1 DEF FilesOf
<1> QED
  BY <1>2 DEF PeopleOf, Takers

(* The command k lists a file, or no file is listed and no upload ends. *)
Listing(k, f) ==
  /\ Doing(k, "ATTACH") /\ f = Asked(k).file
  /\ tfile'[f].row = "active" /\ tfile'[f].answered = (tfile[f].upload = "stored")
  /\ tfile'[f].upload = IF tfile[f].upload = "stored" THEN "none" ELSE tfile[f].upload
FilesKept(k) ==
  \A f \in TFile :
    /\ tfile'[f].of = tfile[f].of
    /\ tfile'[f].by = tfile[f].by
    /\ tfile'[f].object = tfile[f].object
    /\ \/ /\ tfile'[f].upload = tfile[f].upload
          /\ tfile'[f].answered = tfile[f].answered
          /\ tfile'[f].row = "none" <=> tfile[f].row = "none"
       \/ Listing(k, f)

Written(k, rows) ==
  LET w == TargetSpace(Asked(k)) IN
  /\ TablesUnwritten(rows)
  /\ rows \subseteq SpaceRows(w)
  /\ tx' = Overtaken([tx EXCEPT ![k] = Idle], rows)
  /\ person' = person
  /\ \A v \in Space : v # w => space'[v] = space[v]
  /\ \A b \in Board : BoardSpace[b] # w => board'[b] = board[b]
  /\ \A b \in Board : board[b] # "NONE" => board'[b] # "NONE"
  /\ \A t \in Ticket : IsTicket(t) => IsTicket(t)' /\ ticket'[t].board = ticket[t].board
  /\ FilesKept(k)

TypesWritten ==
  /\ space' \in [Space -> {"none", "closed", "present"}]
  /\ board' \in [Board -> BoardStatus]
  /\ ticket' \in [Ticket -> TicketRec \cup {NoTicket}]
  /\ told' \in [Ticket -> SUBSET Person]
  /\ tfile' \in [TFile -> FileRec]

LEMMA TellType ==
  ASSUME TablesOK, NEW k \in Tx, InCommand(k), NEW ts, Tell(k, ts)
  PROVE  /\ told' \in [Ticket -> SUBSET Person]
         /\ \A t \in Ticket : told[t] \subseteq told'[t]
  BY CommandType DEF Tell, Readers, TablesOK

(* Commands on a ticket that write the ticket and its version. *)
LEMMA TicketWritten ==
  ASSUME TicketsInv, NEW k \in Tx, InCommand(k), Asked(k).op \in TicketOps, NEW new \in TicketRec,
         new.board = Old(k).board, TicketDone(k, new)
  PROVE  TypesWritten /\ Written(k, {<<"ticket", Asked(k).ticket>>})
<1> DEFINE q == Asked(k)
           t == q.ticket
           rows == {<<"ticket", t>>}
<1>1. TablesOK /\ q \in TicketRequest
  BY CommandType DEF TicketsInv
<1>2. OfTicket(q) /\ t \in Ticket /\ TargetSpace(q) = SpaceOf(t)
  BY <1>1, RequestCarries, RequestSpace DEF Carries
<1>3. IsTicket(t) /\ ticket[t] \in TicketRec
  BY <1>1, <1>2, TicketType DEF TicketsInv, CommandInv, CommandOK, Permitted
<1>4. ticket' = [ticket EXCEPT ![t] = new] /\ tfile' = Bumped(tfile, t)
  BY DEF TicketDone
<1>5. /\ ticket' \in [Ticket -> TicketRec \cup {NoTicket}]
      /\ ticket'[t] = new
      /\ \A u \in Ticket : u # t => ticket'[u] = ticket[u]
  BY <1>1, <1>2, <1>4 DEF TablesOK
<1>6. /\ tfile' \in [TFile -> FileRec]
      /\ \A f \in TFile :
           /\ tfile'[f].object = tfile[f].object
           /\ tfile'[f].row = tfile[f].row
           /\ tfile'[f].of = tfile[f].of
           /\ tfile'[f].by = tfile[f].by
           /\ tfile'[f].upload = tfile[f].upload
           /\ tfile'[f].answered = tfile[f].answered
  <2>1. tfile \in [TFile -> FileRec]
    BY <1>1 DEF TablesOK
  <2> QED
    BY <1>4, <2>1, BumpedKeeps
<1>7. \A u \in Ticket : IsTicket(u) => IsTicket(u)' /\ ticket'[u].board = ticket[u].board
  <2>1. new # NoTicket
    BY DEF TicketRec, NoTicket
  <2> QED
    BY <1>5, <2>1 DEF IsTicket, Old
<1>8. TablesUnwritten(rows)
  <2>1. \A u \in Ticket : u # t => ticket'[u] = ticket[u] /\ PeopleOf(u)' = PeopleOf(u)
    BY <1>5, <1>6, PeopleOfKept
  <2> QED
    BY <2>1 DEF TablesUnwritten, TicketDone
<1>9. rows \subseteq SpaceRows(TargetSpace(q))
  BY <1>2, <1>3 DEF SpaceRows
<1>10. told' \in [Ticket -> SUBSET Person]
  BY <1>1, TellType DEF TicketDone
<1>11. TypesWritten
  BY <1>1, <1>5, <1>6, <1>10 DEF TypesWritten, TicketDone, TablesOK
<1>12. FilesKept(k)
  BY <1>6 DEF FilesKept
<1> QED
  BY <1>7, <1>8, <1>9, <1>11, <1>12 DEF Written, TicketDone, Finish

(* Commands on a file, which write the ticket's version. *)
LEMMA FileWritten ==
  ASSUME TicketsInv, NEW k \in Tx, InCommand(k), Attach(k) \/ ChangeFile(k)
  PROVE  TypesWritten /\ Written(k, {<<"ticket", Asked(k).ticket>>})
<1> DEFINE q == Asked(k)
           t == q.ticket
           rows == {<<"ticket", t>>}
<1>1. TablesOK /\ q \in TicketRequest /\ q.op \in {"ATTACH", "ARCHIVE_FILE", "RESTORE_FILE"}
  BY CommandType DEF TicketsInv, Attach, ChangeFile, Doing, Asked
<1>2. OfTicket(q) /\ t \in Ticket /\ TargetSpace(q) = SpaceOf(t) /\ q.file \in TFile
  BY <1>1, RequestCarries, RequestSpace DEF Carries, TicketOps, FileOps
<1>3. /\ IsTicket(t)
      /\ tfile[q.file].of = t
      /\ q.op # "ATTACH" => tfile[q.file].row # "none"
  BY <1>1, <1>2 DEF TicketsInv, CommandInv, CommandOK, Permitted, Ready
<1>4. tfile \in [TFile -> FileRec]
  BY <1>1, Zenon DEF TablesOK
<1> DEFINE old == tfile[q.file]
           answered == IF q.op = "ATTACH" THEN old.upload = "stored" ELSE old.answered
           upload == IF q.op = "ATTACH" /\ answered THEN "none" ELSE old.upload
<1>5. PICK status \in {"active", "archived"}, files \in [TFile -> FileRec] :
        /\ files = [tfile EXCEPT ![q.file] = [old EXCEPT !.upload = upload, !.row = status, !.answered = answered]]
        /\ tfile' = Bumped(files, t)
        /\ q.op = "ATTACH" => status = "active"
  <2>0. old \in FileRec
    BY <1>2, <1>4
  <2>1. ASSUME NEW status \in {"active", "archived"}
        PROVE  [tfile EXCEPT ![q.file] = [old EXCEPT !.upload = upload, !.row = status, !.answered = answered]]
                 \in [TFile -> FileRec]
    <3> DEFINE new == [old EXCEPT !.upload = upload, !.row = status, !.answered = answered]
    <3>1. new \in FileRec
      <4>1. upload \in {"none", "checked", "stored", "unsure"} /\ answered \in BOOLEAN
        BY <2>0 DEF FileRec
      <4> HIDE DEF old, upload, answered
      <4> QED
        BY <2>0, <4>1 DEF FileRec
    <3> QED
      BY <1>4, <3>1
  <2>2. CASE Attach(k)
    <3>1. q.op = "ATTACH"
      BY <2>2 DEF Attach, Doing, Asked
    <3>2. tfile' = Bumped([tfile EXCEPT ![q.file].row = "active", ![q.file].answered = (old.upload = "stored"),
                             ![q.file].upload = IF old.upload = "stored" THEN "none" ELSE @], t)
      BY <2>2 DEF Attach, Asked
    <3>3. [tfile EXCEPT ![q.file].row = "active", ![q.file].answered = (old.upload = "stored"),
                        ![q.file].upload = IF old.upload = "stored" THEN "none" ELSE @]
            = [tfile EXCEPT ![q.file] = [old EXCEPT !.upload = upload, !.row = "active", !.answered = answered]]
      BY <1>2, <1>4, <3>1 DEF FileRec
    <3> QED
      BY <2>1, <3>1, <3>2, <3>3
  <2>3. CASE ChangeFile(k)
    <3>1. /\ q.op # "ATTACH"
          /\ \E status \in {"active", "archived"} : tfile' = Bumped([tfile EXCEPT ![q.file].row = status], t)
      BY <2>3 DEF ChangeFile, Doing, Asked
    <3>2. \A status : [tfile EXCEPT ![q.file].row = status]
                        = [tfile EXCEPT ![q.file] = [old EXCEPT !.upload = upload, !.row = status, !.answered = answered]]
      BY <1>2, <1>4, <3>1 DEF FileRec
    <3> QED
      BY <2>1, <3>1, <3>2
  <2> QED
    BY <2>2, <2>3
<1>6. /\ tfile' \in [TFile -> FileRec]
      /\ \A f \in TFile :
           /\ tfile'[f].object = files[f].object
           /\ tfile'[f].row = files[f].row
           /\ tfile'[f].of = files[f].of
           /\ tfile'[f].by = files[f].by
           /\ tfile'[f].upload = files[f].upload
           /\ tfile'[f].answered = files[f].answered
  <2>1. files \in [TFile -> FileRec] /\ tfile' = Bumped(files, t)
    BY <1>5
  <2> QED
    BY <2>1, BumpedKeeps
<1>7. \A f \in TFile :
        /\ files[f].object = tfile[f].object
        /\ files[f].of = tfile[f].of
        /\ files[f].by = tfile[f].by
        /\ f # q.file => files[f] = tfile[f]
        /\ f = q.file => files[f].row = status /\ files[f].upload = upload /\ files[f].answered = answered
  <2> HIDE DEF upload, answered
  <2>1. files = [tfile EXCEPT ![q.file] = [old EXCEPT !.upload = upload, !.row = status, !.answered = answered]]
    BY <1>5
  <2>2. \A f \in TFile : f # q.file => files[f] = tfile[f]
    BY <1>4, <2>1
  <2>3. files[q.file] = [old EXCEPT !.upload = upload, !.row = status, !.answered = answered]
    BY <1>2, <1>4, <2>1
  <2>4. old \in FileRec
    BY <1>2, <1>4
  <2>5. /\ files[q.file].object = old.object /\ files[q.file].of = old.of /\ files[q.file].by = old.by
        /\ files[q.file].row = status /\ files[q.file].upload = upload /\ files[q.file].answered = answered
    <3> HIDE DEF old
    <3> QED
      BY <2>3, <2>4 DEF FileRec
  <2> QED
    BY <2>2, <2>5
<1>8. FilesKept(k)
  <2> SUFFICES ASSUME NEW f \in TFile
               PROVE  \/ /\ tfile'[f].upload = tfile[f].upload
                         /\ tfile'[f].answered = tfile[f].answered
                         /\ tfile'[f].row = "none" <=> tfile[f].row = "none"
                      \/ Listing(k, f)
    BY <1>6, <1>7 DEF FilesKept
  <2>1. CASE f # q.file
    BY <1>6, <1>7, <2>1
  <2>2. CASE f = q.file /\ q.op = "ATTACH"
    <3>1. Doing(k, "ATTACH") /\ f = Asked(k).file
      BY <2>2 DEF Doing, Asked
    <3>2. tfile'[f].row = "active" /\ tfile'[f].upload = upload
      <4>1. status = "active"
        BY <1>5, <2>2
      <4>2. files[f].row = status /\ files[f].upload = upload
        BY <1>7, <2>2, Zenon
      <4> HIDE DEF upload, answered
      <4> QED
        BY <1>6, <4>1, <4>2
    <3>3. tfile'[f].answered = (tfile[f].upload = "stored")
      BY <1>6, <1>7, <2>2, Zenon
    <3>4. upload = IF tfile[f].upload = "stored" THEN "none" ELSE tfile[f].upload
      BY <2>2
    <3> QED
      BY <3>1, <3>2, <3>3, <3>4 DEF Listing
  <2>3. CASE f = q.file /\ q.op # "ATTACH"
    <3>1. status # "none" /\ tfile[f].row # "none"
      BY <1>3, <1>5, <2>3
    <3>2. tfile'[f].row = status /\ tfile'[f].upload = tfile[f].upload /\ tfile'[f].answered = tfile[f].answered
      BY <1>6, <1>7, <2>3
    <3> QED
      BY <3>1, <3>2
  <2> QED
    BY <2>1, <2>2, <2>3
<1>9. UNCHANGED <<person, space, member, board, ticket>>
  BY DEF Attach, ChangeFile
<1>10. TablesUnwritten(rows)
  <2>1. ASSUME NEW u \in Ticket, u # t
        PROVE  PeopleOf(u)' = PeopleOf(u)
    <3>1. \A f \in TFile : tfile'[f].row # "none" /\ tfile'[f].of = u <=> tfile[f].row # "none" /\ tfile[f].of = u
      BY <1>3, <1>6, <1>7, <2>1
    <3>2. \A f \in TFile : tfile'[f].by = tfile[f].by
      BY <1>6, <1>7
    <3> QED
      BY <1>9, <3>1, <3>2, PeopleOfKept
  <2> QED
    BY <1>9, <2>1 DEF TablesUnwritten
<1>11. rows \subseteq SpaceRows(TargetSpace(q))
  BY <1>2, <1>3 DEF SpaceRows
<1>12. Tell(k, {t}) /\ Finish(k, rows)
  BY DEF Attach, ChangeFile
<1>13. told' \in [Ticket -> SUBSET Person]
  BY <1>1, <1>12, TellType
<1>14. TypesWritten
  BY <1>1, <1>6, <1>9, <1>13 DEF TypesWritten, TablesOK
<1> HIDE DEF rows
<1>15. tx' = Overtaken([tx EXCEPT ![k] = Idle], rows)
  BY <1>12 DEF Finish
<1>16. \A u \in Ticket : IsTicket(u) => IsTicket(u)' /\ ticket'[u].board = ticket[u].board
  BY <1>9 DEF IsTicket
<1>17. Written(k, rows)
  BY <1>8, <1>9, <1>10, <1>11, <1>15, <1>16 DEF Written
<1> QED
  BY <1>14, <1>17, Zenon DEF rows

(* Commands that write no file and no ticket there was. *)
LEMMA PlainWritten ==
  ASSUME TablesOK, NEW k \in Tx, NEW rows,
         rows \subseteq SpaceRows(TargetSpace(Asked(k))),
         tx' = Overtaken([tx EXCEPT ![k] = Idle], rows),
         person' = person, tfile' = tfile,
         \A t \in Ticket : IsTicket(t) => ticket'[t] = ticket[t],
         \A b \in Board : board[b] # "NONE" =>
           board'[b] # "NONE" /\ (<<"board", b>> \notin rows => board'[b] = board[b]),
         \A b \in Board : BoardSpace[b] # TargetSpace(Asked(k)) => board'[b] = board[b],
         \A v \in Space : v # TargetSpace(Asked(k)) => space'[v] = space[v],
         \A w \in Space, p \in Person :
           <<"space", w>> \notin rows /\ <<w, p>> \in member => <<w, p>> \in member'
  PROVE  Written(k, rows)
<1>1. \A t \in Ticket : IsTicket(t) => PeopleOf(t)' = PeopleOf(t)
  <2>1. \A t \in Ticket : IsTicket(t) => ticket'[t] = ticket[t]
    OBVIOUS
  <2>2. \A f \in TFile : tfile'[f] = tfile[f]
    OBVIOUS
  <2> QED
    BY <2>1, <2>2, PeopleOfKept
<1>2. TablesUnwritten(rows)
  BY <1>1 DEF TablesUnwritten
<1>3. FilesKept(k)
  BY DEF FilesKept
<1>4. \A t \in Ticket : IsTicket(t) => IsTicket(t)' /\ ticket'[t].board = ticket[t].board
  BY DEF IsTicket
<1> QED
  BY <1>2, <1>3, <1>4 DEF Written

LEMMA CreateTicketWritten ==
  ASSUME TicketsInv, NEW k \in Tx, CreateTicket(k)
  PROVE  TypesWritten /\ Written(k, {})
<1> DEFINE q == Asked(k)
           new == [board |-> q.board, creator |-> Actor(k), authors |-> {}, archived |-> FALSE,
                   assignees |-> q.assignees, observers |-> q.observers]
<1>1. TablesOK /\ InCommand(k) /\ q \in TicketRequest /\ q.op = "CREATE" /\ Actor(k) \in Person
  BY CommandType DEF TicketsInv, CreateTicket, Doing, Asked
<1>2. q.new \in Ticket /\ q.board \in Board /\ q.assignees \subseteq Person /\ q.observers \subseteq Person
  BY <1>1, RequestCarries DEF Carries
<1>3. ~IsTicket(q.new) /\ ticket' = [ticket EXCEPT ![q.new] = new]
  BY DEF CreateTicket
<1>4. new \in TicketRec
  BY <1>1, <1>2 DEF TicketRec
<1>5. /\ ticket' \in [Ticket -> TicketRec \cup {NoTicket}]
      /\ \A t \in Ticket : IsTicket(t) => ticket'[t] = ticket[t]
  BY <1>1, <1>3, <1>4 DEF TablesOK
<1>6. UNCHANGED <<person, space, member, board, tfile>> /\ Tell(k, {q.new}) /\ Finish(k, {})
  BY DEF CreateTicket
<1>7. told' \in [Ticket -> SUBSET Person]
  BY <1>1, <1>6, TellType
<1>8. TypesWritten
  BY <1>1, <1>5, <1>6, <1>7 DEF TypesWritten, TablesOK
<1>9. tx' = Overtaken([tx EXCEPT ![k] = Idle], {})
  BY <1>6 DEF Finish
<1>10. Written(k, {})
  BY <1>1, <1>5, <1>6, <1>9, PlainWritten
<1> QED
  BY <1>8, <1>10

LEMMA BoardWritten ==
  ASSUME TicketsInv, NEW k \in Tx, UpdateBoard(k) \/ CreateBoard(k)
  PROVE  TypesWritten /\ \E rows : Written(k, rows)
<1> DEFINE q == Asked(k)
           w == TargetSpace(q)
<1>1. TablesOK /\ InCommand(k) /\ q \in TicketRequest /\ q.op \in {"BOARD", "NEW_BOARD"}
  BY CommandType DEF TicketsInv, UpdateBoard, CreateBoard, Doing, Asked
<1>2. q.board \in Board /\ q.status \in BoardStatus \ {"NONE"} /\ w = BoardSpace[q.board]
  BY <1>1, RequestCarries, RequestSpace DEF Carries
<1>3. /\ board' = [board EXCEPT ![q.board] = q.status]
      /\ UNCHANGED <<person, space, member, ticket, tfile>>
  BY DEF UpdateBoard, CreateBoard
<1>4. told' \in [Ticket -> SUBSET Person]
  <2>1. CASE UpdateBoard(k)
    BY <1>1, <2>1, TellType DEF UpdateBoard
  <2>2. CASE CreateBoard(k)
    BY <1>1, <2>2 DEF CreateBoard, TablesOK
  <2> QED
    BY <2>1, <2>2
<1>5. /\ board' \in [Board -> BoardStatus]
      /\ \A b \in Board : board[b] # "NONE" => board'[b] # "NONE"
      /\ \A b \in Board : b # q.board => board'[b] = board[b]
  BY <1>1, <1>2, <1>3 DEF TablesOK
<1>6. TypesWritten
  BY <1>1, <1>3, <1>4, <1>5 DEF TypesWritten, TablesOK
<1>7. ASSUME NEW rows, rows \subseteq SpaceRows(w), tx' = Overtaken([tx EXCEPT ![k] = Idle], rows),
             board[q.board] # "NONE" => <<"board", q.board>> \in rows
      PROVE  Written(k, rows)
  BY <1>1, <1>2, <1>3, <1>5, <1>7, PlainWritten
<1>8. CASE UpdateBoard(k)
  <2> DEFINE rows == {<<"board", q.board>>}
  <2>1. rows \subseteq SpaceRows(w)
    BY <1>2 DEF SpaceRows
  <2>2. tx' = Overtaken([tx EXCEPT ![k] = Idle], rows)
    BY <1>8 DEF UpdateBoard, Finish
  <2> QED
    BY <1>6, <1>7, <2>1, <2>2
<1>9. CASE CreateBoard(k)
  <2> DEFINE rows == {<<"space", w>>}
  <2>1. rows \subseteq SpaceRows(w)
    BY DEF SpaceRows
  <2>2. tx' = Overtaken([tx EXCEPT ![k] = Idle], rows)
    BY <1>2, <1>9 DEF CreateBoard, Finish
  <2>3. board[q.board] = "NONE"
    BY <1>1, <1>9 DEF CreateBoard, Doing, Asked, TicketsInv, CommandInv, CommandOK, Ready
  <2> QED
    BY <1>6, <1>7, <2>1, <2>2, <2>3
<1> QED
  BY <1>8, <1>9

LEMMA SpaceWritten ==
  ASSUME TicketsInv, NEW k \in Tx,
         CreateWorkspace(k) \/ RenameWorkspace(k) \/ SetWorkspaceMember(k)
  PROVE  TypesWritten /\ \E rows : Written(k, rows)
<1> DEFINE q == Asked(k)
           w == TargetSpace(q)
<1>1. /\ TablesOK /\ InCommand(k) /\ q \in TicketRequest
      /\ q.op \in MemberOps \cup {"NEW_SPACE", "RENAME"}
  BY CommandType DEF TicketsInv, CreateWorkspace, RenameWorkspace, SetWorkspaceMember, Doing, Asked, MemberOps
<1>2. q.space \in Space /\ w = q.space
  BY <1>1, RequestCarries, RequestSpace DEF Carries
<1>3. /\ UNCHANGED <<person, board, ticket, told, tfile>>
      /\ space' = space \/ space' = [space EXCEPT ![q.space] = "present"]
  BY DEF CreateWorkspace, RenameWorkspace, SetWorkspaceMember
<1>4. /\ space' \in [Space -> {"none", "closed", "present"}]
      /\ \A v \in Space : v # w => space'[v] = space[v]
  BY <1>1, <1>2, <1>3 DEF TablesOK
<1>5. TypesWritten
  BY <1>1, <1>3, <1>4 DEF TypesWritten, TablesOK
<1>6. ASSUME NEW rows, rows \subseteq SpaceRows(w), tx' = Overtaken([tx EXCEPT ![k] = Idle], rows),
             \A v \in Space, p \in Person :
               <<"space", v>> \notin rows /\ <<v, p>> \in member => <<v, p>> \in member'
      PROVE  Written(k, rows)
  BY <1>1, <1>3, <1>4, <1>6, PlainWritten
<1>7. CASE CreateWorkspace(k)
  <2>1. tx' = Overtaken([tx EXCEPT ![k] = Idle], {}) /\ member \subseteq member'
    BY <1>7 DEF CreateWorkspace, Finish
  <2> QED
    BY <1>5, <1>6, <2>1
<1>8. CASE RenameWorkspace(k) \/ SetWorkspaceMember(k)
  <2> DEFINE rows == {<<"space", w>>}
  <2>1. rows \subseteq SpaceRows(w)
    BY DEF SpaceRows
  <2>2. tx' = Overtaken([tx EXCEPT ![k] = Idle], rows)
    BY <1>2, <1>8 DEF RenameWorkspace, SetWorkspaceMember, Finish
  <2>3. \A v \in Space, p \in Person : v # w /\ <<v, p>> \in member => <<v, p>> \in member'
    BY <1>2, <1>8 DEF RenameWorkspace, SetWorkspaceMember
  <2> QED
    BY <1>5, <1>6, <2>1, <2>2, <2>3
<1> QED
  BY <1>7, <1>8

(* Whatever a command ends with, it writes rows of its workspace only. *)
LEMMA FinishingWrites ==
  ASSUME TicketsInv, NEW k \in Tx, Finishing(k)
  PROVE  InCommand(k) /\ TypesWritten /\ \E rows : Written(k, rows)
<1>1. InCommand(k)
  BY DEF Finishing, EditTicket, WriteLog, ArchiveTicket, RestoreTicket, SetParticipants, CreateTicket,
         UpdateBoard, CreateBoard, CreateWorkspace, RenameWorkspace, SetWorkspaceMember, Attach,
         ChangeFile, Download, Abort, Doing
<1>2. TablesOK /\ Asked(k) \in TicketRequest /\ Actor(k) \in Person
  BY <1>1, CommandType DEF TicketsInv
<1>3. ASSUME EditTicket(k) \/ WriteLog(k) \/ ArchiveTicket(k) \/ RestoreTicket(k) \/ SetParticipants(k)
      PROVE  TypesWritten /\ \E rows : Written(k, rows)
  <2>1. Asked(k).op \in {"EDIT", "LOG", "ARCHIVE", "RESTORE", "PARTICIPANTS"}
    BY <1>3 DEF EditTicket, WriteLog, ArchiveTicket, RestoreTicket, SetParticipants, Doing, Asked
  <2>2. Carries(Asked(k)) /\ Asked(k).op \in TicketOps
    BY <1>2, <2>1, RequestCarries DEF TicketOps
  <2>3. Old(k) \in TicketRec
    BY <1>1, <1>2, <2>2, TicketType DEF Carries, TicketsInv, CommandInv, CommandOK, Permitted, Old
  <2>4. \E new \in TicketRec : new.board = Old(k).board /\ TicketDone(k, new)
    <3>1. CASE EditTicket(k)
      BY <2>3, <3>1 DEF EditTicket
    <3>2. CASE WriteLog(k)
      <4> DEFINE new == [Old(k) EXCEPT !.authors = @ \cup {Actor(k)}]
      <4>1. new \in TicketRec /\ new.board = Old(k).board
        BY <1>2, <2>3 DEF TicketRec
      <4> QED
        BY <3>2, <4>1 DEF WriteLog
    <3>3. CASE ArchiveTicket(k)
      <4> DEFINE new == [Old(k) EXCEPT !.archived = TRUE]
      <4>1. new \in TicketRec /\ new.board = Old(k).board
        BY <2>3 DEF TicketRec
      <4> QED
        BY <3>3, <4>1 DEF ArchiveTicket
    <3>4. CASE RestoreTicket(k)
      <4> DEFINE new == [Old(k) EXCEPT !.archived = FALSE]
      <4>1. new \in TicketRec /\ new.board = Old(k).board
        BY <2>3 DEF TicketRec
      <4> QED
        BY <3>4, <4>1 DEF RestoreTicket
    <3>5. CASE SetParticipants(k)
      <4> DEFINE new == [Old(k) EXCEPT !.assignees = Asked(k).assignees, !.observers = Asked(k).observers]
      <4>1. Asked(k).assignees \subseteq Person /\ Asked(k).observers \subseteq Person
        BY <2>2, <3>5 DEF Carries, SetParticipants, Doing, Asked
      <4>2. new \in TicketRec /\ new.board = Old(k).board
        BY <2>3, <4>1 DEF TicketRec
      <4> QED
        BY <3>5, <4>2 DEF SetParticipants
    <3> QED
      BY <1>3, <3>1, <3>2, <3>3, <3>4, <3>5
  <2> QED
    BY <1>1, <2>2, <2>4, TicketWritten
<1>4. ASSUME Download(k) \/ Abort(k)
      PROVE  TypesWritten /\ \E rows : Written(k, rows)
  <2>1. /\ UNCHANGED <<person, space, member, board, ticket, told, tfile>>
        /\ tx' = Overtaken([tx EXCEPT ![k] = Idle], {})
    BY <1>4 DEF Download, Abort, Finish
  <2>2. Written(k, {})
    BY <1>2, <2>1, PlainWritten
  <2> QED
    BY <1>2, <2>1, <2>2 DEF TypesWritten, TablesOK
<1> QED
  BY <1>1, <1>3, <1>4, FileWritten, CreateTicketWritten, BoardWritten, SpaceWritten DEF Finishing
-----------------------------------------------------------------------------
(* What other services write *)

LEMMA PersonWritten ==
  ASSUME TablesOK, NEW p \in Person, NEW new \in PersonRec, NEW rows, WritePerson(p, new, rows),
         <<"user", p>> \notin rows => new.role = person[p].role /\ new.active = person[p].active,
         <<"session", p>> \notin rows => (person[p].session => new.session),
         <<"profile", p>> \notin rows => new.team = person[p].team,
         <<"grants", p>> \notin rows =>
           person[p].teams \subseteq new.teams /\ person[p].spaces \subseteq new.spaces
  PROVE  PeopleUnwritten(rows) /\ person' \in [Person -> PersonRec]
<1>1. /\ person' = [person EXCEPT ![p] = new]
      /\ person \in [Person -> PersonRec]
  BY DEF WritePerson, TablesOK
<1>2. \A x \in Person : person'[x] = IF x = p THEN new ELSE person[x]
  BY <1>1
<1>3. person' \in [Person -> PersonRec]
  BY <1>1
<1>4. PeopleUnwritten(rows)
  <2> SUFFICES ASSUME NEW x \in Person
               PROVE  /\ <<"user", x>> \notin rows =>
                           person'[x].role = person[x].role /\ person'[x].active = person[x].active
                      /\ <<"session", x>> \notin rows => (person[x].session => person'[x].session)
                      /\ <<"profile", x>> \notin rows => person'[x].team = person[x].team
                      /\ <<"grants", x>> \notin rows =>
                           person[x].teams \subseteq person'[x].teams /\ person[x].spaces \subseteq person'[x].spaces
    BY DEF PeopleUnwritten
  <2>1. CASE x = p
    BY <1>2, <2>1
  <2>2. CASE x # p
    BY <1>2, <2>2
  <2> QED
    BY <2>1, <2>2
<1> QED
  BY <1>3, <1>4

LEMMA PersonStepWrites ==
  ASSUME TicketsInv, NEW p \in Person, PersonStep(p)
  PROVE  /\ person' \in [Person -> PersonRec]
         /\ LapsedInv'
         /\ \A x \in Person : ~person'[x].lapsed => ~person[x].lapsed
         /\ UNCHANGED <<space, member, board, ticket, told, tfile>>
         /\ \E rows :
              /\ PeopleUnwritten(rows)
              /\ \A row \in rows : ~Held(row)
              /\ tx' = Overtaken(tx, rows)
<1> DEFINE old == person[p]
           Goal == /\ person' \in [Person -> PersonRec]
                   /\ LapsedInv'
                   /\ \A x \in Person : ~person'[x].lapsed => ~person[x].lapsed
                   /\ UNCHANGED <<space, member, board, ticket, told, tfile>>
                   /\ \E rows :
                        /\ PeopleUnwritten(rows)
                        /\ \A row \in rows : ~Held(row)
                        /\ tx' = Overtaken(tx, rows)
<1>0. TablesOK /\ LapsedInv /\ old \in PersonRec
  BY DEF TicketsInv, TablesOK
<1>1. ASSUME NEW new \in PersonRec, NEW rows, WritePerson(p, new, rows),
             PeopleUnwritten(rows), new.active \/ new.lapsed, old.lapsed => new.lapsed
      PROVE  Goal
  <2>1. /\ person' = [person EXCEPT ![p] = new]
        /\ \A row \in rows : ~Held(row)
        /\ tx' = Overtaken(tx, rows)
        /\ UNCHANGED <<space, member, board, ticket, told, tfile>>
    BY <1>1 DEF WritePerson
  <2>2. \A x \in Person : person'[x] = IF x = p THEN new ELSE person[x]
    BY <1>0, <2>1 DEF TablesOK
  <2>3. person' \in [Person -> PersonRec]
    BY <1>0, <1>1, <2>1 DEF TablesOK
  <2>4. LapsedInv'
    BY <1>0, <1>1, <2>2 DEF LapsedInv
  <2>5. \A x \in Person : ~person'[x].lapsed => ~person[x].lapsed
    BY <1>1, <2>2
  <2> QED
    BY <1>1, <2>1, <2>3, <2>4, <2>5
<1>2. old.active \/ old.lapsed
  BY <1>0 DEF LapsedInv
<1> HIDE DEF Goal
<1>3. ASSUME NEW active \in BOOLEAN, SetActive(p, active)
      PROVE  Goal
  <2> DEFINE new == [old EXCEPT !.active = active, !.session = @ /\ active, !.lapsed = TRUE]
             rows == {<<"user", p>>, <<"session", p>>}
  <2>1. /\ new \in PersonRec
        /\ new.team = old.team /\ new.teams = old.teams /\ new.spaces = old.spaces
        /\ new.lapsed
    BY <1>0 DEF PersonRec
  <2>2. WritePerson(p, new, rows)
    BY <1>3 DEF SetActive
  <2> HIDE DEF new
  <2>3. PeopleUnwritten(rows)
    BY <1>0, <2>1, <2>2, PersonWritten
  <2> QED
    BY <1>1, <2>1, <2>2, <2>3
<1>4. ASSUME NEW role \in {"EMPLOYEE", "ADMIN"}, SetRole(p, role)
      PROVE  Goal
  <2> DEFINE new == [old EXCEPT !.role = role, !.session = FALSE]
             rows == {<<"user", p>>, <<"session", p>>}
  <2>1. /\ new \in PersonRec
        /\ new.team = old.team /\ new.teams = old.teams /\ new.spaces = old.spaces
        /\ new.lapsed = old.lapsed /\ new.active = old.active
    BY <1>0 DEF PersonRec
  <2>2. WritePerson(p, new, rows)
    BY <1>4 DEF SetRole
  <2> HIDE DEF new
  <2>3. PeopleUnwritten(rows)
    BY <1>0, <2>1, <2>2, PersonWritten
  <2> QED
    BY <1>1, <1>2, <2>1, <2>2, <2>3
<1>5. ASSUME EndOfSession(p) \/ NewSession(p)
      PROVE  Goal
  <2>1. PICK open \in BOOLEAN, rows \in {{}, {<<"session", p>>}} :
          /\ WritePerson(p, [old EXCEPT !.session = open], rows)
          /\ <<"session", p>> \notin rows => (old.session => open)
    <3>1. CASE EndOfSession(p)
      BY <3>1 DEF EndOfSession
    <3>2. CASE NewSession(p)
      BY <3>2 DEF NewSession
    <3> QED
      BY <1>5, <3>1, <3>2
  <2> DEFINE new == [old EXCEPT !.session = open]
  <2>2. /\ new \in PersonRec /\ new.session = open
        /\ new.role = old.role /\ new.active = old.active /\ new.lapsed = old.lapsed
        /\ new.team = old.team /\ new.teams = old.teams /\ new.spaces = old.spaces
    BY <1>0 DEF PersonRec
  <2>3. WritePerson(p, new, rows)
    BY <2>1
  <2> HIDE DEF new
  <2>4. PeopleUnwritten(rows)
    BY <1>0, <2>1, <2>2, <2>3, PersonWritten
  <2> QED
    BY <1>1, <1>2, <2>2, <2>3, <2>4
<1>6. ASSUME NEW m \in Team \cup {NoOne}, SetTeam(p, m)
      PROVE  Goal
  <2> DEFINE new == [old EXCEPT !.team = m]
             rows == {<<"profile", p>>}
  <2>1. /\ new \in PersonRec
        /\ new.session = old.session /\ new.teams = old.teams /\ new.spaces = old.spaces
        /\ new.role = old.role /\ new.lapsed = old.lapsed /\ new.active = old.active
    BY <1>0 DEF PersonRec
  <2>2. WritePerson(p, new, rows)
    BY <1>6 DEF SetTeam
  <2> HIDE DEF new
  <2>3. PeopleUnwritten(rows)
    BY <1>0, <2>1, <2>2, PersonWritten
  <2> QED
    BY <1>1, <1>2, <2>1, <2>2, <2>3
<1>7. ASSUME NEW teams \in SUBSET Team, NEW spaces \in SUBSET Space, NEW rows,
             WritePerson(p, [old EXCEPT !.teams = teams, !.spaces = spaces], rows),
             <<"grants", p>> \notin rows => old.teams \subseteq teams /\ old.spaces \subseteq spaces
      PROVE  Goal
  <2> DEFINE new == [old EXCEPT !.teams = teams, !.spaces = spaces]
  <2>1. /\ new \in PersonRec /\ new.teams = teams /\ new.spaces = spaces
        /\ new.session = old.session /\ new.team = old.team
        /\ new.role = old.role /\ new.lapsed = old.lapsed /\ new.active = old.active
    BY <1>0 DEF PersonRec
  <2>2. WritePerson(p, new, rows)
    BY <1>7
  <2> HIDE DEF new
  <2>3. PeopleUnwritten(rows)
    BY <1>0, <1>7, <2>1, <2>2, PersonWritten
  <2> QED
    BY <1>1, <1>2, <2>1, <2>2, <2>3
<1>8. ASSUME RevokeGrant(p) \/ NewGrant(p)
      PROVE  Goal
  <2>1. \A teams, spaces :
          /\ [old EXCEPT !.teams = teams] = [old EXCEPT !.teams = teams, !.spaces = old.spaces]
          /\ [old EXCEPT !.spaces = spaces] = [old EXCEPT !.teams = old.teams, !.spaces = spaces]
    BY <1>0 DEF PersonRec
  <2>2. old.teams \in SUBSET Team /\ old.spaces \in SUBSET Space
    BY <1>0 DEF PersonRec
  <2> DEFINE out(ts, ss, rows) == WritePerson(p, [old EXCEPT !.teams = ts, !.spaces = ss], rows)
  <2>3. CASE RevokeGrant(p)
    <3>1. \/ \E m \in old.teams : out(old.teams \ {m}, old.spaces, {<<"grants", p>>})
          \/ \E w \in old.spaces : out(old.teams, old.spaces \ {w}, {<<"grants", p>>})
      BY <2>1, <2>3 DEF RevokeGrant
    <3> QED
      BY <1>7, <2>2, <3>1
  <2>4. CASE NewGrant(p)
    <3>1. \/ \E m \in Team : out(old.teams \cup {m}, old.spaces, {})
          \/ \E w \in Space : out(old.teams, old.spaces \cup {w}, {})
      BY <2>1, <2>4 DEF NewGrant
    <3> QED
      BY <1>7, <2>2, <3>1
  <2> QED
    BY <1>8, <2>3, <2>4
<1> QED
  BY <1>3, <1>4, <1>5, <1>6, <1>8 DEF PersonStep, Goal
-----------------------------------------------------------------------------
(* Commands, reads and locks that a step does not end *)

(* Tickets and their boards stay. *)
TicketsStay == \A t \in Ticket : IsTicket(t) => IsTicket(t)' /\ ticket'[t].board = ticket[t].board

(* The file or the board that the request q has looked at stays as it was. *)
ReadyStays(q) ==
  /\ q.op \in {"ARCHIVE_FILE", "RESTORE_FILE"} /\ tfile[q.file].row # "none" =>
       /\ tfile'[q.file].row # "none"
       /\ tfile'[q.file].of = tfile[q.file].of
       /\ tfile'[q.file].by = tfile[q.file].by
  /\ q.op = "ATTACH" /\ tfile[q.file].row = "none" /\ tfile[q.file].upload # "checked" =>
       /\ tfile'[q.file].row = "none" /\ tfile'[q.file].upload # "checked"
       /\ tfile'[q.file].of = tfile[q.file].of
       /\ tfile'[q.file].by = tfile[q.file].by
  /\ q.op = "NEW_BOARD" => board'[q.board] = board[q.board]
  /\ q.op = "NEW_SPACE" => space'[q.space] = space[q.space]

LEMMA CommandStays ==
  ASSUME TicketsInv, NEW rows, Unwritten(rows), NEW i \in Tx, InCommand(i), tx'[i] = tx[i],
         rows \cap CommandRows(Actor(i), Asked(i)) = {},
         rows \cap SpaceRows(TargetSpace(Asked(i))) = {},
         ReadyStays(Asked(i))
  PROVE  CommandOK(i)' /\ TargetSpace(Asked(i))' = TargetSpace(Asked(i))
<1>1. PICK a \in Person, q \in TicketRequest : a = Actor(i) /\ q = Asked(i)
  BY CommandType DEF TicketsInv
<1>2. Permitted(a, q) /\ Ready(q)
  BY <1>1 DEF TicketsInv, CommandInv, CommandOK
<1>3. /\ \A t \in Ticket : IsTicket(t) => PeopleOf(t) \subseteq Person
      /\ \A t \in Ticket : IsTicket(t) => board[ticket[t].board] # "NONE"
  BY PeopleArePersons DEF TicketsInv, BoardsInv
<1>4. /\ q.op = "NEW_SPACE" => space'[q.space] = space[q.space]
      /\ q.op \in {"ARCHIVE_FILE", "RESTORE_FILE"} => tfile'[q.file].by = tfile[q.file].by
  BY <1>1, <1>2 DEF ReadyStays, Ready
<1>5. Permitted(a, q)' /\ TargetSpace(q)' = TargetSpace(q)
  <2>1. TablesOK /\ rows \cap CommandRows(a, q) = {} /\ rows \cap SpaceRows(TargetSpace(q)) = {}
    BY <1>1 DEF TicketsInv
  <2> QED
    BY <1>2, <1>3, <1>4, <2>1, PermissionKept
<1>6. Ready(q)'
  BY <1>1, <1>2 DEF ReadyStays, Ready
<1>7. Actor(i)' = a /\ Asked(i)' = q
  BY <1>1 DEF Actor, Asked
<1>8. CommandOK(i)'
  BY <1>5, <1>6, <1>7 DEF CommandOK
<1>9. TargetSpace(Asked(i))' = TargetSpace(Asked(i))
  BY <1>1, <1>5, <1>7 DEF TargetSpace, SpaceOf, OfTicket
<1> QED
  BY <1>8, <1>9

(* What a reader was shown stays visible while nobody writes the rows of the read. *)
LEMMA ViewStays ==
  ASSUME TicketsInv, NEW rows, Unwritten(rows), NEW i \in Tx, IsReading(i),
         rows \cap ReadRows(tx[i].actor, tx[i].scope) = {},
         tx[i].stage = "locked" \/ ~tx[i].stale
  PROVE  \A a, view : a = tx[i].actor /\ view = tx[i].view => Shown(a, view)'
<1>1. PICK a \in Person, scope \in Ticket \cup {"all"}, view \in SUBSET Ticket :
        a = tx[i].actor /\ scope = tx[i].scope /\ view = tx[i].view
  BY ReadingType DEF TicketsInv
<1>2. /\ Shown(a, view)
      /\ \A t \in view : scope = "all" \/ scope = t
      /\ rows \cap ReadRows(a, scope) = {}
  BY <1>1 DEF TicketsInv, ViewInv, ViewOK
<1>3. <<"user", a>> \notin rows /\ <<"session", a>> \notin rows /\ <<"grants", a>> \notin rows
  BY <1>2 DEF ReadRows, ActorRows
<1>4. Authentic(a)'
  BY <1>2, <1>3 DEF Shown, Authentic, Unwritten, PeopleUnwritten
<1>5. ASSUME NEW t \in view
      PROVE  IsTicket(t)' /\ Reads(a, t)'
  <2>1. IsTicket(t) /\ Reads(a, t)
    BY <1>2, <1>5 DEF Shown
  <2>2. PeopleOf(t) \subseteq Person /\ board[ticket[t].board] # "NONE"
    BY <2>1, PeopleArePersons DEF TicketsInv, BoardsInv
  <2>3. ticket[t].board \in Board /\ SpaceOf(t) \in Space
    BY <2>1, TicketType, AccessAssumption DEF TicketRec, SpaceOf, TicketsInv
  <2>4. rows \cap TicketRows(t) = {}
    <3>1. CASE scope = "all"
      <4>1. TicketRows(t) \subseteq ReadRows(a, scope)
        BY <2>2, <2>3, <3>1 DEF TicketRows, ReadRows, PersonRows
      <4> QED
        BY <1>2, <4>1
    <3>2. CASE scope = t /\ scope # "all"
      BY <1>2, <3>2 DEF TicketRows, ReadRows
    <3> QED
      BY <1>2, <1>5, <3>1, <3>2
  <2>5. ticket'[t] = ticket[t] /\ Reads(a, t)'
    BY <1>3, <2>1, <2>2, <2>4, ReadingKept DEF TicketsInv
  <2> QED
    BY <2>1, <2>5 DEF IsTicket
<1> QED
  BY <1>1, <1>4, <1>5 DEF Shown

LEMMA OvertakenKeeps ==
  ASSUME NEW txs \in [Tx -> TxRec], NEW rows, NEW f, f = Overtaken(txs, rows)
  PROVE  /\ f \in [Tx -> TxRec]
         /\ \A i \in Tx :
              /\ f[i].stage = txs[i].stage
              /\ txs[i].stage # "snapshot" => f[i] = txs[i]
              /\ txs[i].stage = "snapshot" =>
                   /\ f[i].actor = txs[i].actor
                   /\ f[i].scope = txs[i].scope
                   /\ f[i].view = txs[i].view
                   /\ ~f[i].stale => ~txs[i].stale /\ rows \cap ReadRows(txs[i].actor, txs[i].scope) = {}
<1>1. ASSUME NEW i \in Tx
      PROVE  /\ f[i] \in TxRec
             /\ f[i].stage = txs[i].stage
             /\ txs[i].stage # "snapshot" => f[i] = txs[i]
             /\ txs[i].stage = "snapshot" =>
                  /\ f[i].actor = txs[i].actor
                  /\ f[i].scope = txs[i].scope
                  /\ f[i].view = txs[i].view
                  /\ ~f[i].stale => ~txs[i].stale /\ rows \cap ReadRows(txs[i].actor, txs[i].scope) = {}
  <2> DEFINE r == txs[i]
             ReadRec == [stage : {"snapshot", "locked"}, actor : Operator, scope : Ticket \cup {"all"},
                         view : SUBSET Ticket, stale : BOOLEAN, attempt : Nat]
  <2>1. CASE r.stage # "snapshot"
    BY <2>1 DEF Overtaken
  <2>2. CASE r.stage = "snapshot"
    <3>1. r \in ReadRec
      <4>1. r \in TxRec
        OBVIOUS
      <4> QED
        BY <2>2, <4>1 DEF TxRec, Idle
    <3> DEFINE g == [r EXCEPT !.stale = TRUE]
    <3>2. /\ g \in ReadRec /\ g.stage = r.stage /\ g.actor = r.actor /\ g.scope = r.scope
          /\ g.view = r.view /\ g.stale
      BY <3>1
    <3>3. f[i] = IF rows \cap ReadRows(r.actor, r.scope) # {} THEN g ELSE r
      BY <2>2 DEF Overtaken
    <3> HIDE DEF g
    <3>4. f[i] \in TxRec
      BY <3>1, <3>2, <3>3 DEF TxRec
    <3> QED
      BY <2>2, <3>1, <3>2, <3>3, <3>4
  <2> QED
    BY <2>1, <2>2
<1>2. f \in [Tx -> TxRec]
  BY <1>1 DEF Overtaken
<1> QED
  BY <1>1, <1>2

(* Reads that go on after rows were written: a snapshot is stale or shows what may be seen. *)
LEMMA ReadsStay ==
  ASSUME TicketsInv, NEW rows, Unwritten(rows), TicketsStay, NEW i \in Tx,
         NEW txs \in [Tx -> TxRec], txs[i] = tx[i], tx' = Overtaken(txs, rows),
         tx[i].stage = "locked" => rows \cap ReadRows(tx[i].actor, tx[i].scope) = {}
  PROVE  ViewOK(i)'
<1>1. /\ tx'[i].stage = tx[i].stage
      /\ tx[i].stage # "snapshot" => tx'[i] = tx[i]
      /\ tx[i].stage = "snapshot" =>
           /\ tx'[i].actor = tx[i].actor
           /\ tx'[i].scope = tx[i].scope
           /\ tx'[i].view = tx[i].view
           /\ ~tx'[i].stale => ~tx[i].stale /\ rows \cap ReadRows(tx[i].actor, tx[i].scope) = {}
  BY OvertakenKeeps
<1>2. CASE ~IsReading(i)
  BY <1>1, <1>2 DEF ViewOK, IsReading
<1>3. CASE IsReading(i)
  <2>1. PICK a \in Person, scope \in Ticket \cup {"all"}, view \in SUBSET Ticket :
          a = tx[i].actor /\ scope = tx[i].scope /\ view = tx[i].view
    BY <1>3, ReadingType DEF TicketsInv
  <2>2. /\ \A t \in view : scope = "all" \/ scope = t
        /\ scope # "all" => IsTicket(scope)
    BY <1>3, <2>1 DEF TicketsInv, ViewInv, ViewOK
  <2>3. a = tx'[i].actor /\ scope = tx'[i].scope /\ view = tx'[i].view
    BY <1>1, <1>3, <2>1 DEF IsReading
  <2>4. scope # "all" => IsTicket(scope)'
    BY <2>2 DEF TicketsStay
  <2>5. tx'[i].stage = "locked" \/ ~tx'[i].stale => Shown(a, view)'
    <3>1. ASSUME tx'[i].stage = "locked" \/ ~tx'[i].stale
          PROVE  rows \cap ReadRows(tx[i].actor, tx[i].scope) = {} /\ (tx[i].stage = "locked" \/ ~tx[i].stale)
      BY <1>1, <1>3, <3>1 DEF IsReading
    <3> QED
      BY <1>3, <2>1, <3>1, ViewStays
  <2> QED
    BY <2>2, <2>3, <2>4, <2>5 DEF ViewOK, Shown, IsTicket
<1> QED
  BY <1>2, <1>3

LEMMA SpacesStay ==
  ASSUME TicketsStay, NEW scope \in Ticket \cup {"all"}, scope # "all" => IsTicket(scope)
  PROVE  SpacesOf(scope)' = SpacesOf(scope)
  BY DEF SpacesOf, SpaceOf, TicketsStay

(* Commands and reads that go on keep their workspaces to themselves. *)
LEMMA LocksStay ==
  ASSUME TicketsInv, TicketsStay,
         \A i \in Tx : InCommand(i)' => tx'[i] = tx[i] /\ TargetSpace(Asked(i))' = TargetSpace(Asked(i)),
         \A i \in Tx : tx'[i].stage = "locked" => tx'[i] = tx[i]
  PROVE  LockInv'
<1>1. ASSUME NEW i \in Tx, InCommand(i)'
      PROVE  InCommand(i) /\ TargetSpace(Asked(i))' = TargetSpace(Asked(i))
  BY <1>1 DEF InCommand
<1>2. ASSUME NEW i \in Tx, tx'[i].stage = "locked"
      PROVE  tx[i].stage = "locked" /\ SpacesOf(tx[i].scope)' = SpacesOf(tx[i].scope)
  <2>1. PICK scope \in Ticket \cup {"all"} : scope = tx[i].scope /\ scope = tx'[i].scope
    BY <1>2, ReadingType DEF TicketsInv, IsReading
  <2>2. tx[i].stage = "locked" /\ (scope # "all" => IsTicket(scope))
    BY <1>2, <2>1 DEF TicketsInv, ViewInv, ViewOK, IsReading
  <2>3. SpacesOf(scope)' = SpacesOf(scope)
    BY <2>2, SpacesStay
  <2> QED
    BY <2>1, <2>2, <2>3 DEF SpacesOf, SpaceOf
<1> QED
  BY <1>1, <1>2 DEF TicketsInv, LockInv

(* The rows of people and links are none of a workspace's. *)
LEMMA RowsApart ==
  ASSUME NEW v, NEW w, NEW a, NEW q
  PROVE  /\ CommandRows(a, q) \cap SpaceRows(w) = {}
         /\ v # w => SpaceRows(v) \cap SpaceRows(w) = {}
  BY DEF CommandRows, ActorRows, PersonRows, SpaceRows

LEMMA ReadRowsApart ==
  ASSUME NEW w \in Space, NEW a, NEW scope \in Ticket \cup {"all"}, w \notin SpacesOf(scope)
  PROVE  ReadRows(a, scope) \cap SpaceRows(w) = {}
<1>1. scope # "all" /\ SpaceOf(scope) # w
  BY DEF SpacesOf
<1> QED
  BY <1>1 DEF ReadRows, ActorRows, PersonRows, SpaceRows, SpaceOf

LEMMA NothingOvertaken ==
  ASSUME NEW txs \in [Tx -> TxRec]
  PROVE  Overtaken(txs, {}) = txs
  BY DEF Overtaken

LEMMA TablesStay ==
  ASSUME UNCHANGED <<member, board, ticket, tfile>>, NEW rows
  PROVE  TablesUnwritten(rows) /\ TicketsStay
<1>1. \A t \in Ticket : PeopleOf(t)' = PeopleOf(t)
  <2>1. \A f \in TFile : tfile'[f] = tfile[f]
    OBVIOUS
  <2> QED
    BY <2>1, PeopleOfKept
<1> QED
  BY <1>1 DEF TablesUnwritten, TicketsStay, IsTicket

-----------------------------------------------------------------------------
(* The steps *)

LEMMA PersonStepKeeps ==
  ASSUME TicketsInv, NEW p \in Person, PersonStep(p)
  PROVE  TicketsInv'
<1>1. PICK rows :
        /\ PeopleUnwritten(rows)
        /\ \A row \in rows : ~Held(row)
        /\ tx' = Overtaken(tx, rows)
  BY PersonStepWrites
<1>2. /\ person' \in [Person -> PersonRec]
      /\ LapsedInv'
      /\ UNCHANGED <<space, member, board, ticket, told, tfile>>
  BY PersonStepWrites
<1>3. tx \in [Tx -> TxRec] /\ TablesOK
  BY DEF TicketsInv, TablesOK
<1>4. /\ tx' \in [Tx -> TxRec]
      /\ \A i \in Tx : tx'[i].stage = tx[i].stage
      /\ \A i \in Tx : tx[i].stage # "snapshot" => tx'[i] = tx[i]
  BY <1>1, <1>3, OvertakenKeeps
<1>5. TablesOK'
  BY <1>2, <1>3, <1>4 DEF TablesOK
<1>6. FilesInv' /\ BoardsInv'
  BY <1>2 DEF TicketsInv, FilesInv, BoardsInv, IsTicket
<1>7. /\ TicketsStay
      /\ \A r : Unwritten(r) <=> PeopleUnwritten(r)
  BY <1>2, TablesStay DEF Unwritten
<1>8. ASSUME NEW i \in Tx, InCommand(i)'
      PROVE  /\ CommandOK(i)'
             /\ tx'[i] = tx[i]
             /\ TargetSpace(Asked(i))' = TargetSpace(Asked(i))
  <2> DEFINE tags == {<<kind, x>> : kind \in {"user", "session", "profile", "grants"}, x \in Person}
             own == rows \cap tags
  <2>1. InCommand(i) /\ tx'[i] = tx[i]
    BY <1>4, <1>8 DEF InCommand
  <2>2. PeopleUnwritten(own)
    <3>1. \A x \in Person, kind \in {"user", "session", "profile", "grants"} :
            <<kind, x>> \in own <=> <<kind, x>> \in rows
      OBVIOUS
    <3> HIDE DEF own
    <3>2. \A x \in Person :
            /\ <<"user", x>> \in own <=> <<"user", x>> \in rows
            /\ <<"session", x>> \in own <=> <<"session", x>> \in rows
            /\ <<"profile", x>> \in own <=> <<"profile", x>> \in rows
            /\ <<"grants", x>> \in own <=> <<"grants", x>> \in rows
      BY <3>1
    <3> QED
      BY <1>1, <3>2 DEF PeopleUnwritten
  <2>3. own \cap CommandRows(Actor(i), Asked(i)) = {}
    BY <1>1, <2>1 DEF Held, Actor, Asked
  <2>4. own \cap SpaceRows(TargetSpace(Asked(i))) = {}
    BY DEF SpaceRows
  <2>5. ReadyStays(Asked(i))
    BY <1>2 DEF ReadyStays
  <2> HIDE DEF own
  <2> QED
    BY <1>7, <2>1, <2>2, <2>3, <2>4, <2>5, CommandStays
<1>9. CommandInv'
  BY <1>8 DEF CommandInv, CommandOK
<1>10. LockInv'
  BY <1>4, <1>7, <1>8, LocksStay
<1>11. ASSUME NEW i \in Tx
       PROVE  ViewOK(i)'
  <2>1. tx[i].stage = "locked" => rows \cap ReadRows(tx[i].actor, tx[i].scope) = {}
    BY <1>1 DEF Held
  <2> QED
    BY <1>1, <1>3, <1>7, <2>1, ReadsStay
<1> QED
  BY <1>2, <1>5, <1>6, <1>9, <1>10, <1>11 DEF TicketsInv, ViewInv

(* Tickets that are new are on a board that is there. *)
LEMMA NewTickets ==
  ASSUME TicketsInv, NEW k \in Tx, Finishing(k), NEW t \in Ticket, ~IsTicket(t), IsTicket(t)'
  PROVE  board[ticket'[t].board] # "NONE" /\ ticket'[t].board \in Board
<1>1. InCommand(k)
  BY FinishingWrites
<1>2. Carries(Asked(k)) /\ Permitted(Actor(k), Asked(k))
  BY <1>1, CommandType, RequestCarries DEF TicketsInv, CommandInv, CommandOK
<1>3. CASE CreateTicket(k)
  <2>1. Asked(k).op = "CREATE"
    BY <1>3 DEF CreateTicket, Doing, Asked
  <2>2. /\ Asked(k).board \in Board /\ Asked(k).new \in Ticket
        /\ board[Asked(k).board] # "NONE"
    BY <1>2, <2>1 DEF Carries, Permitted
  <2>3. t = Asked(k).new /\ ticket'[t].board = Asked(k).board
    BY <1>3, <2>2 DEF CreateTicket, IsTicket, TicketsInv, TablesOK
  <2> QED
    BY <2>2, <2>3
<1>4. CASE ~CreateTicket(k)
  <2>1. ticket' = ticket \/ \E new : ticket' = [ticket EXCEPT ![Asked(k).ticket] = new] /\ Asked(k).op \in TicketOps
    BY <1>4 DEF Finishing, EditTicket, WriteLog, ArchiveTicket, RestoreTicket, SetParticipants, TicketDone,
         UpdateBoard, CreateBoard, CreateWorkspace, RenameWorkspace, SetWorkspaceMember, Attach,
         ChangeFile, Download, Abort, Doing, Asked, TicketOps
  <2>2. Asked(k).op \in TicketOps => IsTicket(Asked(k).ticket)
    BY <1>2 DEF Carries, Permitted
  <2>3. t # Asked(k).ticket \/ Asked(k).op \notin TicketOps
    BY <2>2
  <2>4. ticket \in [Ticket -> TicketRec \cup {NoTicket}]
    BY Zenon DEF TicketsInv, TablesOK
  <2>5. ticket'[t] = ticket[t]
    BY <2>1, <2>3, <2>4
  <2> QED
    BY <2>5 DEF IsTicket
<1> QED
  BY <1>3, <1>4

(* What a command has looked at is not written by a command in another workspace. *)
LEMMA ReadyKept ==
  ASSUME TicketsInv, NEW k \in Tx, InCommand(k), NEW rows, Written(k, rows),
         NEW i \in Tx, InCommand(i), TargetSpace(Asked(i)) # TargetSpace(Asked(k))
  PROVE  ReadyStays(Asked(i))
<1> DEFINE q == Asked(i)
           p == Asked(k)
<1>1. Ready(q) /\ Ready(p) /\ q \in TicketRequest /\ p \in TicketRequest
  BY CommandType DEF TicketsInv, CommandInv, CommandOK
<1>2. Carries(q) /\ Carries(p)
  BY <1>1, RequestCarries
<1>3. FilesKept(k)
  BY DEF Written
<1>4. ASSUME q.op \in {"ARCHIVE_FILE", "RESTORE_FILE"}
      PROVE  /\ tfile'[q.file].row # "none"
             /\ tfile'[q.file].of = tfile[q.file].of
             /\ tfile'[q.file].by = tfile[q.file].by
  <2>1. q.file \in TFile /\ tfile[q.file].row # "none"
    BY <1>1, <1>2, <1>4 DEF Carries, Ready, FileOps
  <2> QED
    BY <1>3, <2>1 DEF FilesKept, Listing
<1>5. ASSUME q.op = "ATTACH"
      PROVE  /\ tfile'[q.file].row = "none" /\ tfile'[q.file].upload # "checked"
             /\ tfile'[q.file].of = tfile[q.file].of
             /\ tfile'[q.file].by = tfile[q.file].by
  <2>1. /\ q.file \in TFile /\ tfile[q.file].row = "none" /\ tfile[q.file].upload # "checked"
        /\ tfile[q.file].of = q.ticket /\ q.op \in TicketOps
    BY <1>1, <1>2, <1>5 DEF Carries, Ready, FileOps, TicketOps
  <2>2. ASSUME Doing(k, "ATTACH"), q.file = p.file
        PROVE  FALSE
    <3>1. p.op = "ATTACH" /\ p.op \in TicketOps
      BY <2>2 DEF Doing, Asked, TicketOps
    <3>2. tfile[p.file].of = p.ticket
      BY <1>1, <3>1 DEF Ready
    <3>3. p.ticket = q.ticket
      BY <2>1, <2>2, <3>2
    <3>4. TargetSpace(p) = TargetSpace(q)
      BY <1>1, <2>1, <3>1, <3>3, RequestSpace
    <3> QED
      BY <3>4
  <2> QED
    BY <1>3, <2>1, <2>2 DEF FilesKept, Listing
<1>6. ASSUME q.op = "NEW_BOARD"
      PROVE  board'[q.board] = board[q.board]
  <2>1. q.board \in Board /\ BoardSpace[q.board] = TargetSpace(q)
    BY <1>1, <1>2, <1>6, RequestSpace DEF Carries
  <2> QED
    BY <2>1 DEF Written
<1>7. ASSUME q.op = "NEW_SPACE"
      PROVE  space'[q.space] = space[q.space]
  <2>1. q.space \in Space /\ q.space = TargetSpace(q)
    BY <1>1, <1>2, <1>7, RequestSpace DEF Carries
  <2> QED
    BY <2>1 DEF Written
<1> QED
  BY <1>4, <1>5, <1>6, <1>7 DEF ReadyStays

LEMMA FilesInvKept ==
  ASSUME TicketsInv, NEW k \in Tx, InCommand(k), NEW rows, Written(k, rows)
  PROVE  FilesInv'
<1>1. FilesKept(k) /\ FilesInv
  BY DEF Written, TicketsInv
<1>2. SUFFICES ASSUME NEW f \in TFile
               PROVE  FileOK(tfile'[f])
  BY DEF FilesInv
<1>3. FileOK(tfile[f])
  BY <1>1 DEF FilesInv
<1>4. CASE /\ tfile'[f].upload = tfile[f].upload
           /\ tfile'[f].answered = tfile[f].answered
           /\ tfile'[f].row = "none" <=> tfile[f].row = "none"
  BY <1>1, <1>3, <1>4 DEF FileOK, FilesKept
<1>5. CASE Listing(k, f)
  <2>1. tfile[f].row = "none" /\ tfile[f].upload # "checked" /\ tfile[f].by \in Person
    BY <1>5 DEF TicketsInv, CommandInv, CommandOK, Ready, Doing, Asked, Listing
  <2>2. tfile[f].upload \in {"none", "stored", "unsure"}
    BY <2>1 DEF TicketsInv, TablesOK, FileRec
  <2> QED
    BY <1>1, <1>3, <1>5, <2>1, <2>2 DEF FileOK, FilesKept, Listing
<1> QED
  BY <1>1, <1>4, <1>5 DEF FilesKept

LEMMA FinishingKeeps ==
  ASSUME TicketsInv, NEW k \in Tx, Finishing(k)
  PROVE  TicketsInv'
<1> DEFINE w == TargetSpace(Asked(k))
           txs == [tx EXCEPT ![k] = Idle]
<1>1. PICK rows : InCommand(k) /\ TypesWritten /\ Written(k, rows)
  BY FinishingWrites
<1>2. tx \in [Tx -> TxRec] /\ TablesOK /\ txs \in [Tx -> TxRec]
  BY DEF TicketsInv, TablesOK, TxRec
<1>3. tx' = Overtaken(txs, rows) /\ person' = person
  BY <1>1 DEF Written
<1> HIDE DEF txs
<1>4. /\ tx' \in [Tx -> TxRec]
      /\ \A i \in Tx : tx'[i].stage = txs[i].stage
      /\ \A i \in Tx : txs[i].stage # "snapshot" => tx'[i] = txs[i]
  BY <1>2, <1>3, OvertakenKeeps
<1>5. txs[k] = Idle /\ \A i \in Tx : i # k => txs[i] = tx[i]
  BY <1>2 DEF txs
<1>6. TablesOK'
  BY <1>1, <1>2, <1>3, <1>4 DEF TablesOK, TypesWritten
<1>7. FilesInv'
  BY <1>1, FilesInvKept
<1>8. TicketsStay /\ \A b \in Board : board[b] # "NONE" => board'[b] # "NONE"
  BY <1>1 DEF Written, TicketsStay
<1>9. BoardsInv'
  <2>1. SUFFICES ASSUME NEW t \in Ticket, IsTicket(t)'
                 PROVE  board'[ticket'[t].board] # "NONE"
    BY DEF BoardsInv
  <2>2. CASE IsTicket(t)
    <3>1. ticket[t].board \in Board /\ board[ticket[t].board] # "NONE" /\ ticket'[t].board = ticket[t].board
      BY <1>8, <2>2, TicketType DEF TicketsInv, BoardsInv, TicketsStay, TicketRec
    <3> QED
      BY <1>8, <3>1
  <2>3. CASE ~IsTicket(t)
    BY <1>8, <2>1, <2>3, NewTickets
  <2> QED
    BY <2>2, <2>3
<1>10. LapsedInv'
  BY <1>3 DEF TicketsInv, LapsedInv
<1>11. Unwritten(rows) /\ rows \subseteq SpaceRows(w)
  BY <1>1, <1>3 DEF Written, Unwritten, PeopleUnwritten
<1>12. Carries(Asked(k)) /\ w \in Space
  <2>1. Asked(k) \in TicketRequest /\ Carries(Asked(k))
    BY <1>1, <1>2, CommandType, RequestCarries
  <2>2. CASE Asked(k).op \in TicketOps
    <3>1. Asked(k).ticket \in Ticket /\ IsTicket(Asked(k).ticket)
      BY <1>1, <2>1, <2>2 DEF Carries, TicketsInv, CommandInv, CommandOK, Permitted
    <3> QED
      BY <1>2, <2>1, <2>2, <3>1, TicketType, RequestSpace, AccessAssumption DEF SpaceOf, TicketRec
  <2>3. CASE Asked(k).op \notin TicketOps
    BY <2>1, <2>3, RequestSpace, AccessAssumption DEF Carries
  <2> QED
    BY <2>1, <2>2, <2>3
<1>13. ASSUME NEW i \in Tx, InCommand(i)'
       PROVE  /\ CommandOK(i)'
              /\ tx'[i] = tx[i]
              /\ TargetSpace(Asked(i))' = TargetSpace(Asked(i))
  <2>1. i # k /\ InCommand(i) /\ tx'[i] = tx[i]
    BY <1>4, <1>5, <1>13 DEF InCommand, Idle
  <2>2. TargetSpace(Asked(i)) # w
    BY <1>1, <2>1 DEF TicketsInv, LockInv
  <2>3. rows \cap CommandRows(Actor(i), Asked(i)) = {}
    BY <1>11, RowsApart
  <2>4. rows \cap SpaceRows(TargetSpace(Asked(i))) = {}
    BY <1>11, <2>2, RowsApart
  <2>5. ReadyStays(Asked(i))
    BY <1>1, <2>1, <2>2, ReadyKept
  <2> QED
    BY <1>11, <2>1, <2>3, <2>4, <2>5, CommandStays
<1>14. CommandInv'
  BY <1>13 DEF CommandInv, CommandOK
<1>15. LockInv'
  <2>1. \A i \in Tx : tx'[i].stage = "locked" => tx'[i] = tx[i]
    BY <1>4, <1>5 DEF Idle
  <2> QED
    BY <1>8, <1>13, <2>1, LocksStay
<1>16. ASSUME NEW i \in Tx
       PROVE  ViewOK(i)'
  <2>1. CASE i = k
    BY <1>4, <1>5, <2>1 DEF ViewOK, IsReading, Idle
  <2>2. CASE i # k
    <3>1. ASSUME tx[i].stage = "locked"
          PROVE  rows \cap ReadRows(tx[i].actor, tx[i].scope) = {}
      <4>1. tx[i].scope \in Ticket \cup {"all"} /\ w \notin SpacesOf(tx[i].scope)
        BY <1>1, <1>2, <3>1, ReadingType DEF TicketsInv, LockInv, IsReading
      <4> QED
        BY <1>11, <1>12, <4>1, ReadRowsApart
    <3> QED
      BY <1>2, <1>3, <1>5, <1>8, <1>11, <2>2, <3>1, ReadsStay
  <2> QED
    BY <2>1, <2>2
<1> QED
  BY <1>6, <1>7, <1>9, <1>10, <1>14, <1>15, <1>16 DEF TicketsInv, ViewInv

(* Steps of one command or read that write no table. *)
QuietStep(k) ==
  /\ UNCHANGED <<person, space, member, board, ticket, told, tfile>>
  /\ tx' \in [Tx -> TxRec]
  /\ \A i \in Tx : i # k => tx'[i] = tx[i]

LEMMA QuietKeeps ==
  ASSUME TicketsInv, NEW k \in Tx, QuietStep(k)
  PROVE  /\ TablesOK' /\ FilesInv' /\ BoardsInv' /\ LapsedInv'
         /\ Unwritten({}) /\ TicketsStay
         /\ \A i \in Tx : i # k => CommandOK(i)' /\ ViewOK(i)'
         /\ \A i \in Tx : i # k /\ InCommand(i) => TargetSpace(Asked(i))' = TargetSpace(Asked(i))
<1>1. /\ UNCHANGED <<person, space, member, board, ticket, told, tfile>>
      /\ tx' \in [Tx -> TxRec]
      /\ \A i \in Tx : i # k => tx'[i] = tx[i]
  BY DEF QuietStep
<1>2. Unwritten({}) /\ TicketsStay
  BY <1>1, TablesStay DEF Unwritten, PeopleUnwritten
<1>3. TablesOK' /\ FilesInv' /\ BoardsInv' /\ LapsedInv'
  BY <1>1 DEF TicketsInv, TablesOK, FilesInv, BoardsInv, LapsedInv, IsTicket
<1>4. ASSUME NEW i \in Tx, i # k, InCommand(i)
      PROVE  CommandOK(i)' /\ TargetSpace(Asked(i))' = TargetSpace(Asked(i))
  <2>1. ReadyStays(Asked(i))
    BY <1>1 DEF ReadyStays
  <2> QED
    BY <1>1, <1>2, <1>4, <2>1, CommandStays
<1>5. ASSUME NEW i \in Tx, i # k
      PROVE  CommandOK(i)' /\ ViewOK(i)'
  <2>1. CommandOK(i)'
    BY <1>1, <1>4, <1>5 DEF CommandOK, InCommand
  <2>2. ViewOK(i)'
    <3> DEFINE txs == tx'
    <3>1. txs \in [Tx -> TxRec] /\ txs[i] = tx[i] /\ tx' = Overtaken(txs, {})
      BY <1>1, <1>5, NothingOvertaken
    <3> HIDE DEF txs
    <3> QED
      BY <1>2, <3>1, ReadsStay
  <2> QED
    BY <2>1, <2>2
<1> QED
  BY <1>2, <1>3, <1>4, <1>5

LEMMA EnterKeeps ==
  ASSUME TicketsInv, NEW k \in Writer, NEW a \in Operator, NEW q \in TicketRequest, Enter(k, a, q)
  PROVE  TicketsInv'
<1>1. /\ TablesOK /\ k \in Tx /\ a \in Person
      /\ tx' = [tx EXCEPT ![k] = Command(a, q)]
      /\ Permitted(a, q) /\ Possible(a, q) /\ (OfTicket(q) => IsTicket(q.ticket))
      /\ FreeForUs(TargetSpace(q))
      /\ UNCHANGED <<person, space, member, board, ticket, told, tfile>>
  BY AccessAssumption DEF Enter, TicketsInv, Tx
<1>2. /\ tx'[k] = Command(a, q)
      /\ Command(a, q) \in TxRec
      /\ \A i \in Tx : i # k => tx'[i] = tx[i]
  BY <1>1 DEF TablesOK, TxRec, Command
<1>3. QuietStep(k)
  BY <1>1, <1>2 DEF QuietStep, TablesOK
<1>4. /\ TablesOK' /\ FilesInv' /\ BoardsInv' /\ LapsedInv'
      /\ Unwritten({}) /\ TicketsStay
      /\ \A i \in Tx : i # k => CommandOK(i)' /\ ViewOK(i)'
      /\ \A i \in Tx : i # k /\ InCommand(i) => TargetSpace(Asked(i))' = TargetSpace(Asked(i))
  BY <1>1, <1>3, QuietKeeps
<1>5. Actor(k)' = a /\ Asked(k)' = q /\ tx'[k].stage = "command"
  BY <1>2 DEF Actor, Asked, Command
<1>6. Ready(q)
  <2>1. q.op = "ATTACH" => FileOK(tfile[q.file])
    BY <1>1, RequestCarries DEF Carries, FileOps, TicketsInv, FilesInv
  <2> QED
    BY <1>1, <2>1 DEF Possible, Ready, FileOK
<1>7. Permitted(a, q)' /\ TargetSpace(q)' = TargetSpace(q)
  <2>1. /\ \A t \in Ticket : IsTicket(t) => PeopleOf(t) \subseteq Person
        /\ \A t \in Ticket : IsTicket(t) => board[ticket[t].board] # "NONE"
    BY PeopleArePersons DEF TicketsInv, BoardsInv
  <2> QED
    BY <1>1, <1>4, <2>1, PermissionKept
<1>8. CommandInv'
  <2>1. Ready(q)'
    BY <1>1, <1>6 DEF Ready
  <2>2. CommandOK(k)'
    BY <1>5, <1>7, <2>1 DEF CommandOK
  <2> QED
    BY <1>4, <2>2 DEF CommandInv
<1>9. ViewInv'
  BY <1>4, <1>5 DEF ViewInv, ViewOK, IsReading
<1>10. TargetSpace(Asked(k))' = TargetSpace(q)
  BY <1>5, <1>7 DEF TargetSpace, SpaceOf, OfTicket
<1>11. LockInv'
  <2>1. ASSUME NEW i \in Tx, i # k, InCommand(i)'
        PROVE  /\ InCommand(i)
               /\ TargetSpace(Asked(i))' = TargetSpace(Asked(i))
               /\ TargetSpace(Asked(i))' # TargetSpace(Asked(k))'
    <3>1. InCommand(i)
      BY <1>2, <2>1 DEF InCommand
    <3>2. TargetSpace(Asked(i)) # TargetSpace(q)
      BY <1>1, <3>1 DEF FreeForUs, Exclusive, Asked
    <3> QED
      BY <1>4, <1>10, <2>1, <3>1, <3>2
  <2>2. ASSUME NEW i \in Tx, tx'[i].stage = "locked"
        PROVE  /\ tx[i].stage = "locked"
               /\ SpacesOf(tx[i].scope)' = SpacesOf(tx[i].scope)
               /\ TargetSpace(Asked(k))' \notin SpacesOf(tx[i].scope)'
    <3>1. i # k /\ tx'[i] = tx[i]
      BY <1>2, <1>5, <2>2
    <3>2. PICK scope \in Ticket \cup {"all"} : scope = tx[i].scope /\ scope = tx'[i].scope
      BY <1>1, <2>2, <3>1, ReadingType DEF IsReading
    <3>3. tx[i].stage = "locked" /\ (scope # "all" => IsTicket(scope))
      BY <2>2, <3>1, <3>2 DEF TicketsInv, ViewInv, ViewOK, IsReading
    <3>4. SpacesOf(scope)' = SpacesOf(scope)
      BY <1>4, <3>3, SpacesStay
    <3>5. TargetSpace(q) \notin SpacesOf(scope)
      BY <1>1, <3>2, <3>3 DEF FreeForUs, Shared
    <3> QED
      BY <1>10, <3>2, <3>3, <3>4, <3>5 DEF SpacesOf, SpaceOf
  <2> QED
    BY <2>1, <2>2 DEF TicketsInv, LockInv
<1> QED
  BY <1>4, <1>8, <1>9, <1>11 DEF TicketsInv

LEMMA ReadStepKeeps ==
  ASSUME TicketsInv, NEW k \in Reader,
         \/ \E a \in Operator, scope \in Ticket \cup {"all"} : TakeSnapshot(k, a, scope)
         \/ Restart(k) \/ Answer(k)
  PROVE  TicketsInv'
<1>1. /\ k \in Tx /\ TablesOK /\ tx \in [Tx -> TxRec]
      /\ UNCHANGED <<person, space, member, board, ticket, told, tfile>>
  BY DEF Tx, TicketsInv, TablesOK, TakeSnapshot, Restart, Answer
<1>2. \/ tx' = [tx EXCEPT ![k] = Idle]
      \/ \E a \in Operator, scope \in Ticket \cup {"all"}, n \in Nat :
           MayAsk(a, scope) /\ tx' = [tx EXCEPT ![k] = Reading(a, scope, Visible(a, scope), n)]
  <2>1. CASE \E a \in Operator, scope \in Ticket \cup {"all"} : TakeSnapshot(k, a, scope)
    BY <2>1 DEF TakeSnapshot
  <2>2. CASE Restart(k)
    <3>1. tx[k].actor \in Operator /\ tx[k].scope \in Ticket \cup {"all"} /\ tx[k].attempt \in Nat
      BY <1>1, <2>2 DEF Restart, Overrun, TxRec, Idle
    <3> QED
      BY <2>2, <3>1 DEF Restart
  <2>3. CASE Answer(k)
    <3>1. [tx EXCEPT ![k] = Idle] \in [Tx -> TxRec]
      BY <1>1 DEF TxRec
    <3> QED
      BY <2>3, <3>1, NothingOvertaken DEF Answer, Finish
  <2> QED
    BY <2>1, <2>2, <2>3
<1>3. /\ tx'[k] \in TxRec
      /\ tx'[k].stage \in {"idle", "snapshot"}
      /\ \A i \in Tx : i # k => tx'[i] = tx[i]
      /\ tx' \in [Tx -> TxRec]
  <2>1. CASE tx' = [tx EXCEPT ![k] = Idle]
    BY <1>1, <2>1 DEF TxRec, Idle
  <2>2. ASSUME NEW a \in Operator, NEW scope \in Ticket \cup {"all"}, NEW n \in Nat,
               tx' = [tx EXCEPT ![k] = Reading(a, scope, Visible(a, scope), n)]
        PROVE  /\ tx'[k] \in TxRec
               /\ tx'[k].stage \in {"idle", "snapshot"}
               /\ \A i \in Tx : i # k => tx'[i] = tx[i]
               /\ tx' \in [Tx -> TxRec]
    <3>1. Reading(a, scope, Visible(a, scope), n) \in TxRec
      BY DEF TxRec, Reading, Visible
    <3>2. tx'[k] = Reading(a, scope, Visible(a, scope), n)
      BY <1>1, <2>2
    <3> QED
      BY <1>1, <2>2, <3>1, <3>2 DEF Reading
  <2> QED
    BY <1>2, <2>1, <2>2
<1>4. QuietStep(k)
  BY <1>1, <1>3 DEF QuietStep
<1>5. /\ TablesOK' /\ FilesInv' /\ BoardsInv' /\ LapsedInv'
      /\ Unwritten({}) /\ TicketsStay
      /\ \A i \in Tx : i # k => CommandOK(i)' /\ ViewOK(i)'
      /\ \A i \in Tx : i # k /\ InCommand(i) => TargetSpace(Asked(i))' = TargetSpace(Asked(i))
  BY <1>1, <1>4, QuietKeeps
<1>6. CommandInv'
  BY <1>3, <1>5 DEF CommandInv, CommandOK, InCommand
<1>7. LockInv'
  <2>1. ASSUME NEW i \in Tx, InCommand(i)'
        PROVE  tx'[i] = tx[i] /\ TargetSpace(Asked(i))' = TargetSpace(Asked(i))
    BY <1>3, <1>5, <2>1 DEF InCommand
  <2>2. \A i \in Tx : tx'[i].stage = "locked" => tx'[i] = tx[i]
    BY <1>3
  <2> QED
    BY <1>5, <2>1, <2>2, LocksStay
<1>8. ViewOK(k)'
  <2>1. CASE tx' = [tx EXCEPT ![k] = Idle]
    <3>1. tx'[k] = Idle
      BY <1>1, <2>1
    <3> QED
      BY <3>1 DEF ViewOK, IsReading, Idle
  <2>2. ASSUME NEW a \in Operator, NEW scope \in Ticket \cup {"all"}, NEW n \in Nat, MayAsk(a, scope),
               tx' = [tx EXCEPT ![k] = Reading(a, scope, Visible(a, scope), n)]
        PROVE  ViewOK(k)'
    <3>1. PICK view : view = Visible(a, scope)
      OBVIOUS
    <3>2. tx'[k] = Reading(a, scope, view, n)
      BY <1>1, <2>2, <3>1
    <3>3. /\ \A t \in view : scope = "all" \/ scope = t
          /\ scope # "all" => IsTicket(scope)
          /\ Authentic(a) /\ \A t \in view : IsTicket(t) /\ Reads(a, t)
      BY <2>2, <3>1 DEF MayAsk, Visible
    <3>4. /\ scope # "all" => IsTicket(scope)'
          /\ Authentic(a)' /\ \A t \in view : IsTicket(t)' /\ Reads(a, t)'
      BY <1>1, <3>3 DEF IsTicket, Authentic, Reads, Takers, ManagesTicket, ManagesSpace, ManagesIfMember,
           InScope, SpaceOf, PeopleOf, FilesOf
    <3> QED
      BY <3>2, <3>3, <3>4 DEF ViewOK, Reading, Shown, IsTicket, Authentic
  <2> QED
    BY <1>2, <2>1, <2>2
<1> QED
  BY <1>5, <1>6, <1>7, <1>8 DEF TicketsInv, ViewInv

LEMMA LockSnapshotKeeps ==
  ASSUME TicketsInv, NEW k \in Reader, LockSnapshot(k)
  PROVE  TicketsInv'
<1>1. /\ k \in Tx /\ TablesOK /\ tx \in [Tx -> TxRec]
      /\ UNCHANGED <<person, space, member, board, ticket, told, tfile>>
      /\ tx[k].stage = "snapshot" /\ ~tx[k].stale /\ Reachable(k)
      /\ tx' = [tx EXCEPT ![k].stage = "locked"]
  BY DEF Tx, TicketsInv, TablesOK, LockSnapshot, Overrun
<1>2. PICK a \in Operator, scope \in Ticket \cup {"all"}, view \in SUBSET Ticket, n \in Nat :
        /\ a = tx[k].actor /\ scope = tx[k].scope /\ view = tx[k].view
        /\ tx[k] = Reading(a, scope, view, n)
  BY <1>1 DEF TxRec, Idle, Reading
<1>3. /\ tx'[k] = [Reading(a, scope, view, n) EXCEPT !.stage = "locked"]
      /\ \A i \in Tx : i # k => tx'[i] = tx[i]
  BY <1>1, <1>2
<1>4. [Reading(a, scope, view, n) EXCEPT !.stage = "locked"] \in TxRec
  BY <1>2 DEF Reading, TxRec
<1>5. QuietStep(k)
  BY <1>1, <1>3, <1>4 DEF QuietStep
<1>6. /\ TablesOK' /\ FilesInv' /\ BoardsInv' /\ LapsedInv'
      /\ Unwritten({}) /\ TicketsStay
      /\ \A i \in Tx : i # k => CommandOK(i)' /\ ViewOK(i)'
      /\ \A i \in Tx : i # k /\ InCommand(i) => TargetSpace(Asked(i))' = TargetSpace(Asked(i))
  BY <1>1, <1>5, QuietKeeps
<1>7. tx'[k].stage = "locked" /\ a = tx'[k].actor /\ scope = tx'[k].scope /\ view = tx'[k].view
  BY <1>3 DEF Reading
<1>8. /\ \A t \in view : scope = "all" \/ scope = t
      /\ scope # "all" => IsTicket(scope)
      /\ Shown(a, view)
  BY <1>1, <1>2 DEF TicketsInv, ViewInv, ViewOK, IsReading
<1>9. ViewOK(k)'
  <2>1. /\ scope # "all" => IsTicket(scope)'
        /\ Authentic(a)' /\ \A t \in view : IsTicket(t)' /\ Reads(a, t)'
    BY <1>1, <1>8 DEF Shown, IsTicket, Authentic, Reads, Takers, ManagesTicket, ManagesSpace, ManagesIfMember,
         InScope, SpaceOf, PeopleOf, FilesOf
  <2> QED
    BY <1>7, <1>8, <2>1 DEF ViewOK, Shown, IsTicket, Authentic
<1>10. CommandInv'
  BY <1>6, <1>7 DEF CommandInv, CommandOK, InCommand
<1>11. LockInv'
  <2>1. ASSUME NEW i \in Tx, InCommand(i)'
        PROVE  /\ InCommand(i)
               /\ TargetSpace(Asked(i))' = TargetSpace(Asked(i))
               /\ TargetSpace(Asked(i))' \notin SpacesOf(tx[k].scope)'
    <3>1. i # k /\ InCommand(i)
      BY <1>3, <1>7, <2>1 DEF InCommand
    <3>2. TargetSpace(Asked(i)) \notin SpacesOf(scope)
      BY <1>1, <1>2, <3>1 DEF Reachable, Exclusive, Asked
    <3>3. SpacesOf(scope)' = SpacesOf(scope)
      BY <1>6, <1>8, SpacesStay
    <3> QED
      BY <1>6, <1>7, <3>1, <3>2, <3>3 DEF SpacesOf, SpaceOf
  <2>2. ASSUME NEW i \in Tx, i # k, tx'[i].stage = "locked"
        PROVE  tx[i].stage = "locked" /\ SpacesOf(tx[i].scope)' = SpacesOf(tx[i].scope)
    <3>1. PICK s \in Ticket \cup {"all"} : s = tx[i].scope /\ s = tx'[i].scope
      BY <1>1, <1>3, <2>2, ReadingType DEF IsReading
    <3>2. tx[i].stage = "locked" /\ (s # "all" => IsTicket(s))
      BY <1>3, <2>2, <3>1 DEF TicketsInv, ViewInv, ViewOK, IsReading
    <3>3. SpacesOf(s)' = SpacesOf(s)
      BY <1>6, <3>2, SpacesStay
    <3> QED
      BY <3>1, <3>2, <3>3 DEF SpacesOf, SpaceOf
  <2> QED
    BY <2>1, <2>2 DEF TicketsInv, LockInv
<1> QED
  BY <1>6, <1>9, <1>10, <1>11 DEF TicketsInv, ViewInv

(* Steps of an upload: no row is written. *)
LEMMA UploadKeeps ==
  ASSUME TicketsInv, NEW f \in TFile, NEW new \in FileRec,
         tfile' = [tfile EXCEPT ![f] = new],
         UNCHANGED <<person, space, member, board, ticket, told, tx>>,
         FileOK(new), new.row = tfile[f].row,
         \/ new.of = tfile[f].of /\ new.by = tfile[f].by /\ new.upload # "checked"
         \/ tfile[f].row = "none" /\ ~Attaching(f)
  PROVE  TicketsInv'
<1>1. TablesOK /\ FilesInv /\ tfile'[f] = new /\ \A g \in TFile : g # f => tfile'[g] = tfile[g]
  BY DEF TicketsInv, TablesOK
<1>2. TablesOK'
  BY <1>1 DEF TablesOK
<1>3. FilesInv'
  <2> SUFFICES ASSUME NEW g \in TFile
               PROVE  FileOK(tfile'[g])
    BY DEF FilesInv
  <2>1. CASE g = f
    BY <1>1, <2>1
  <2>2. CASE g # f
    <3>1. tfile'[g] = tfile[g] /\ FileOK(tfile[g])
      BY <1>1, <2>2 DEF FilesInv
    <3> QED
      BY <3>1
  <2> QED
    BY <2>1, <2>2
<1>4. BoardsInv' /\ LapsedInv'
  BY DEF TicketsInv, BoardsInv, LapsedInv, IsTicket
<1>5. \A t \in Ticket : PeopleOf(t)' = PeopleOf(t)
  <2>1. \A t \in Ticket, g \in TFile :
          /\ tfile'[g].row # "none" /\ tfile'[g].of = t <=> tfile[g].row # "none" /\ tfile[g].of = t
          /\ tfile[g].row # "none" => tfile'[g].by = tfile[g].by
    BY <1>1
  <2> QED
    BY <2>1, PeopleOfKept
<1>6. Unwritten({}) /\ TicketsStay
  BY <1>5 DEF Unwritten, PeopleUnwritten, TablesUnwritten, TicketsStay, IsTicket
<1>7. ASSUME NEW i \in Tx, InCommand(i)
      PROVE  CommandOK(i)' /\ TargetSpace(Asked(i))' = TargetSpace(Asked(i))
  <2>1. Carries(Asked(i)) /\ Ready(Asked(i))
    BY <1>1, <1>7, CommandType, RequestCarries DEF TicketsInv, CommandInv, CommandOK
  <2>2. ReadyStays(Asked(i))
    <3>1. ASSUME Asked(i).op = "ATTACH", Asked(i).file = f
          PROVE  Attaching(f)
      BY <1>7, <3>1 DEF Attaching, Doing, Asked
    <3>2. ASSUME Asked(i).op \in {"ATTACH", "ARCHIVE_FILE", "RESTORE_FILE"}
          PROVE  /\ Asked(i).file \in TFile
                 /\ Asked(i).op = "ATTACH" => tfile[Asked(i).file].row = "none"
                 /\ Asked(i).op # "ATTACH" => tfile[Asked(i).file].row # "none"
      BY <2>1, <3>2 DEF Carries, FileOps, Ready
    <3> QED
      BY <1>1, <3>1, <3>2 DEF ReadyStays
  <2> QED
    BY <1>6, <1>7, <2>2, CommandStays
<1>8. CommandInv'
  BY <1>7 DEF CommandInv, CommandOK, InCommand
<1>9. LockInv'
  BY <1>6, <1>7, LocksStay DEF InCommand
<1>10. ViewInv'
  <2>1. tx \in [Tx -> TxRec] /\ tx' = Overtaken(tx, {})
    BY <1>1, NothingOvertaken DEF TablesOK
  <2> QED
    BY <1>6, <2>1, ReadsStay DEF ViewInv
<1> QED
  BY <1>2, <1>3, <1>4, <1>8, <1>9, <1>10 DEF TicketsInv

LEMMA UploadStepKeeps ==
  ASSUME TicketsInv, NEW f \in TFile,
         \/ \E a \in Operator, t \in Ticket : CheckUpload(a, t, f)
         \/ PutObject(f) \/ LoseAnswer(f) \/ RemoveObject(f) \/ AbandonUpload(f)
  PROVE  TicketsInv'
<1> DEFINE old == tfile[f]
<1>1. old \in FileRec /\ tfile \in [TFile -> FileRec] /\ FileOK(old)
  BY DEF TicketsInv, TablesOK, FilesInv
<1>3. Attaching(f) => old.row = "none" /\ old.upload # "checked" /\ old.by \in Person
  BY DEF TicketsInv, CommandInv, CommandOK, Ready, Attaching, Doing, Asked, Actor, InCommand
<1>4. UNCHANGED <<person, space, member, board, ticket, told, tx>>
  BY DEF CheckUpload, PutObject, LoseAnswer, RemoveObject, AbandonUpload
<1>5. ASSUME NEW a \in Operator, NEW t \in Ticket, CheckUpload(a, t, f)
      PROVE  TicketsInv'
  <2> DEFINE new == [NoFile EXCEPT !.of = t, !.upload = "checked", !.by = a, !.fresh = TRUE]
  <2>1. tfile' = [tfile EXCEPT ![f] = new] /\ old = NoFile
    BY <1>5 DEF CheckUpload
  <2>2. a \in Person /\ NoOne \notin Person
    BY AccessAssumption
  <2>3. new \in FileRec /\ FileOK(new) /\ new.row = "none"
    BY <2>2 DEF FileRec, NoFile, FileOK
  <2>4. old.row = "none" /\ old.by = NoOne
    BY <2>1 DEF NoFile
  <2>5. ~Attaching(f)
    BY <1>3, <2>2, <2>4
  <2> HIDE DEF new
  <2> QED
    BY <1>4, <2>1, <2>3, <2>4, <2>5, UploadKeeps
<1>6. CASE PutObject(f)
  <2> DEFINE new == [old EXCEPT !.upload = "stored", !.object = TRUE]
  <2>1. tfile' = [tfile EXCEPT ![f] = new] /\ old.upload = "checked"
    BY <1>1, <1>6 DEF PutObject, FileRec
  <2>2. old.row = "none" /\ ~Attaching(f) /\ ~old.answered /\ old.by \in Person
    BY <1>1, <1>3, <2>1 DEF FileOK
  <2>3. new \in FileRec /\ FileOK(new) /\ new.row = old.row
    BY <1>1, <2>2 DEF FileRec, FileOK
  <2> HIDE DEF new
  <2> QED
    BY <1>4, <2>1, <2>2, <2>3, UploadKeeps
<1>7. CASE LoseAnswer(f)
  <2> DEFINE new == [old EXCEPT !.upload = "unsure"]
  <2>1. tfile' = [tfile EXCEPT ![f] = new] /\ old.upload = "stored"
    BY <1>1, <1>7 DEF LoseAnswer, FileRec
  <2>2. /\ new \in FileRec /\ FileOK(new) /\ new.upload # "checked"
        /\ new.row = old.row /\ new.of = old.of /\ new.by = old.by
    BY <1>1, <2>1 DEF FileRec, FileOK
  <2> HIDE DEF new
  <2> QED
    BY <1>4, <2>1, <2>2, UploadKeeps
<1>8. CASE RemoveObject(f)
  <2> DEFINE new == [old EXCEPT !.upload = "none", !.object = FALSE]
  <2>1. tfile' = [tfile EXCEPT ![f] = new] /\ old.upload \in {"unsure", "stored"}
    BY <1>1, <1>8 DEF RemoveObject, Removed, FileRec
  <2>2. /\ new \in FileRec /\ FileOK(new) /\ new.upload # "checked"
        /\ new.row = old.row /\ new.of = old.of /\ new.by = old.by
    BY <1>1, <2>1 DEF FileRec, FileOK
  <2> HIDE DEF new
  <2> QED
    BY <1>4, <2>1, <2>2, UploadKeeps
<1>9. CASE AbandonUpload(f)
  <2> DEFINE new == [old EXCEPT !.upload = "none"]
  <2>1. tfile' = [tfile EXCEPT ![f] = new] /\ old.upload # "none"
    BY <1>1, <1>9 DEF AbandonUpload, Removed, FileRec
  <2>2. /\ new \in FileRec /\ FileOK(new) /\ new.upload # "checked"
        /\ new.row = old.row /\ new.of = old.of /\ new.by = old.by
    BY <1>1, <2>1 DEF FileRec, FileOK
  <2> HIDE DEF new
  <2> QED
    BY <1>4, <2>1, <2>2, UploadKeeps
<1> QED
  BY <1>5, <1>6, <1>7, <1>8, <1>9

LEMMA CloseLinkKeeps ==
  ASSUME TicketsInv, NEW w \in Space, CloseLink(w)
  PROVE  TicketsInv'
<1>1. /\ space[w] = "none" /\ ~Held(<<"link", w>>)
      /\ space' = [space EXCEPT ![w] = "closed"]
      /\ UNCHANGED <<person, member, board, ticket, told, tfile, tx>>
  BY DEF CloseLink
<1>2. TablesOK' /\ FilesInv' /\ BoardsInv' /\ LapsedInv'
  BY <1>1 DEF TicketsInv, TablesOK, FilesInv, BoardsInv, LapsedInv, IsTicket
<1>3. Unwritten({}) /\ TicketsStay
  BY <1>1, TablesStay DEF Unwritten, PeopleUnwritten
<1>4. ASSUME NEW i \in Tx, InCommand(i)
      PROVE  CommandOK(i)' /\ TargetSpace(Asked(i))' = TargetSpace(Asked(i))
  <2>1. Carries(Asked(i))
    BY <1>4, CommandType, RequestCarries DEF TicketsInv
  <2>2. Asked(i).op = "NEW_SPACE" => Asked(i).space # w
    BY <1>1, <1>4 DEF Held, CommandRows, Asked
  <2>3. ReadyStays(Asked(i))
    BY <1>1, <2>1, <2>2 DEF ReadyStays, Carries, TicketsInv, TablesOK
  <2> QED
    BY <1>1, <1>3, <1>4, <2>3, CommandStays
<1>5. CommandInv'
  BY <1>1, <1>4 DEF CommandInv, CommandOK, InCommand
<1>6. LockInv'
  BY <1>1, <1>3, <1>4, LocksStay DEF InCommand
<1>7. ViewInv'
  <2>1. tx \in [Tx -> TxRec] /\ tx' = Overtaken(tx, {})
    BY <1>1, NothingOvertaken DEF TicketsInv, TablesOK
  <2> QED
    BY <1>3, <2>1, ReadsStay DEF ViewInv
<1> QED
  BY <1>2, <1>5, <1>6, <1>7 DEF TicketsInv

LEMMA TicketsInitially ==
  ASSUME TicketsInit
  PROVE  TicketsInv
<1> USE DEF TicketsInit
<1>1. TablesOK
  BY AccessAssumption DEF TablesOK, TxRec, NoTicket, TicketRec, FileRec, NoFile, BoardStatus
<1>2. \A t \in Ticket : ~IsTicket(t)
  BY DEF IsTicket
<1>3. FilesInv /\ BoardsInv
  BY <1>2 DEF FilesInv, FileOK, BoardsInv, NoFile
<1>4. LapsedInv
  BY AccessAssumption DEF LapsedInv
<1>5. CommandInv /\ LockInv /\ ViewInv
  BY DEF CommandInv, CommandOK, InCommand, LockInv, ViewInv, ViewOK, IsReading, Idle
<1> QED
  BY <1>1, <1>3, <1>4, <1>5 DEF TicketsInv

LEMMA TicketsInvUnchanged ==
  ASSUME TicketsInv, UNCHANGED ticketVars
  PROVE  TicketsInv'
<1>1. UNCHANGED <<person, space, member, board, ticket, told, tfile, tx>>
  BY DEF ticketVars
<1>2. TablesOK' /\ FilesInv' /\ BoardsInv' /\ LapsedInv'
  BY <1>1 DEF TicketsInv, TablesOK, FilesInv, BoardsInv, LapsedInv, IsTicket
<1>3. Unwritten({}) /\ TicketsStay
  BY <1>1, TablesStay DEF Unwritten, PeopleUnwritten
<1>4. ASSUME NEW i \in Tx, InCommand(i)
      PROVE  CommandOK(i)' /\ TargetSpace(Asked(i))' = TargetSpace(Asked(i))
  <2>1. ReadyStays(Asked(i))
    BY <1>1 DEF ReadyStays
  <2> QED
    BY <1>1, <1>3, <1>4, <2>1, CommandStays
<1>5. CommandInv'
  BY <1>1, <1>4 DEF CommandInv, CommandOK, InCommand
<1>6. LockInv'
  BY <1>1, <1>3, <1>4, LocksStay DEF InCommand
<1>7. ViewInv'
  <2>1. tx \in [Tx -> TxRec] /\ tx' = Overtaken(tx, {})
    BY <1>1, NothingOvertaken DEF TicketsInv, TablesOK
  <2> QED
    BY <1>3, <2>1, ReadsStay DEF ViewInv
<1> QED
  BY <1>2, <1>5, <1>6, <1>7 DEF TicketsInv

-----------------------------------------------------------------------------
(* What the tickets promise *)

LEMMA TicketsInductive ==
  ASSUME TicketsInv, [TicketsNext]_ticketVars
  PROVE  TicketsInv'
<1>1. CASE \E i \in Writer, a \in Operator, q \in TicketRequest : Enter(i, a, q)
  BY <1>1, EnterKeeps
<1>2. CASE \E i \in Writer : Finishing(i)
  BY <1>2, FinishingKeeps DEF Tx
<1>3. CASE \E i \in Reader, a \in Operator, scope \in Ticket \cup {"all"} : TakeSnapshot(i, a, scope)
  BY <1>3, ReadStepKeeps
<1>4. CASE \E i \in Reader : LockSnapshot(i) \/ Restart(i) \/ Answer(i)
  BY <1>4, ReadStepKeeps, LockSnapshotKeeps
<1>5. CASE \/ \E a \in Operator, t \in Ticket, f \in TFile : CheckUpload(a, t, f)
           \/ \E f \in TFile : PutObject(f) \/ LoseAnswer(f) \/ RemoveObject(f) \/ AbandonUpload(f)
  BY <1>5, UploadStepKeeps
<1>6. CASE \E p \in Changing : PersonStep(p)
  BY <1>6, PersonStepKeeps, AccessAssumption
<1>7. CASE \E w \in Space : CloseLink(w)
  BY <1>7, CloseLinkKeeps
<1>8. CASE UNCHANGED ticketVars
  BY <1>8, TicketsInvUnchanged
<1> QED
  BY <1>1, <1>2, <1>3, <1>4, <1>5, <1>6, <1>7, <1>8 DEF TicketsNext

LEMMA TicketsInvAlways == TicketsSpec => []TicketsInv
<1>1. TicketsInit => TicketsInv
  BY TicketsInitially
<1>2. TicketsInv /\ [TicketsNext]_ticketVars => TicketsInv'
  BY TicketsInductive
<1> QED
  BY <1>1, <1>2, PTL DEF TicketsSpec

(***************************************************************************)
(* A command that was allowed when it read its rows is allowed until it    *)
(* has written, however many others run and whatever happens to the people *)
(* meanwhile: the locks it took cover all that its permission depends on.  *)
(***************************************************************************)
THEOREM CommandsAreHonoured == TicketsSpec => []CommandsStayPermitted
<1>1. TicketsInv => CommandsStayPermitted
  BY DEF TicketsInv, CommandInv, CommandOK, CommandsStayPermitted, Actor, Asked
<1> QED
  BY <1>1, TicketsInvAlways, PTL

(***************************************************************************)
(* A read that has its locks shows nothing that its reader may not see,    *)
(* though its snapshot is older than the locks: a snapshot that a row of   *)
(* it was written after is never answered.                                 *)
(***************************************************************************)
THEOREM NothingStaleIsAnswered == TicketsSpec => []AnswersAreCurrent
<1>1. TicketsInv => AnswersAreCurrent
  BY DEF TicketsInv, ViewInv, ViewOK, IsReading, Shown, AnswersAreCurrent
<1> QED
  BY <1>1, TicketsInvAlways, PTL

(* A ticket is told of, or what has to be told of it is as it was. *)
LEMMA WhoIsTold ==
  ASSUME TicketsInv, NEW k \in Tx, Finishing(k), NEW t \in Ticket, IsTicket(t)',
         board'[ticket'[t].board] = "PUBLISHED", ~ticket'[t].archived
  PROVE  \/ \E ts : t \in ts /\ Tell(k, ts)
         \/ /\ IsTicket(t) /\ ticket'[t] = ticket[t]
            /\ board[ticket[t].board] = "PUBLISHED"
            /\ told[t] \subseteq told'[t]
<1>1. TablesOK /\ InCommand(k) /\ Carries(Asked(k)) /\ Ready(Asked(k))
  BY FinishingWrites, CommandType, RequestCarries DEF TicketsInv, CommandInv, CommandOK
<1>2. ASSUME NEW ts, Tell(k, ts)
      PROVE  told[t] \subseteq told'[t]
  BY <1>2 DEF Tell
<1>3. ASSUME NEW u, NEW new, ticket' = [ticket EXCEPT ![u] = new], board' = board, Tell(k, {u})
      PROVE  \/ \E ts : t \in ts /\ Tell(k, ts)
             \/ /\ IsTicket(t) /\ ticket'[t] = ticket[t]
                /\ board[ticket[t].board] = "PUBLISHED"
                /\ told[t] \subseteq told'[t]
  <2>1. CASE t = u
    BY <1>3, <2>1
  <2>2. CASE t # u
    <3>1. ticket'[t] = ticket[t]
      BY <1>1, <1>3, <2>2 DEF TablesOK
    <3> QED
      BY <1>2, <1>3, <3>1 DEF IsTicket
  <2> QED
    BY <2>1, <2>2
<1>4. CASE EditTicket(k) \/ WriteLog(k) \/ ArchiveTicket(k) \/ RestoreTicket(k) \/ SetParticipants(k)
  BY <1>3, <1>4 DEF EditTicket, WriteLog, ArchiveTicket, RestoreTicket, SetParticipants, TicketDone
<1>5. CASE CreateTicket(k)
  BY <1>3, <1>5 DEF CreateTicket
<1>6. CASE UpdateBoard(k)
  <2> DEFINE b == Asked(k).board
             status == Asked(k).status
  <2>1. /\ ticket' = ticket /\ board' = [board EXCEPT ![b] = status]
        /\ Tell(k, Announced(b, status))
    BY <1>6 DEF UpdateBoard
  <2>2. IsTicket(t) /\ ticket'[t] = ticket[t] /\ ticket[t].board \in Board
    BY <1>1, <2>1, TicketType DEF IsTicket, TicketRec
  <2>3. CASE board[ticket[t].board] = "PUBLISHED"
    BY <1>2, <2>1, <2>2, <2>3
  <2>4. CASE board[ticket[t].board] # "PUBLISHED"
    <3>1. ticket[t].board = b /\ status = "PUBLISHED"
      BY <1>1, <2>1, <2>2, <2>4 DEF TablesOK
    <3>2. t \in Announced(b, status)
      BY <2>2, <2>4, <3>1 DEF Announced
    <3> QED
      BY <2>1, <3>2
  <2> QED
    BY <2>3, <2>4
<1>7. CASE CreateBoard(k)
  <2>1. /\ board' = [board EXCEPT ![Asked(k).board] = Asked(k).status]
        /\ ticket' = ticket /\ told' = told
        /\ board[Asked(k).board] = "NONE"
    BY <1>1, <1>7 DEF CreateBoard, Doing, Asked, Ready
  <2>2. IsTicket(t) /\ ticket'[t] = ticket[t] /\ ticket[t].board \in Board
    BY <1>1, <2>1, TicketType DEF IsTicket, TicketRec
  <2>3. ticket[t].board # Asked(k).board
    BY <2>1, <2>2 DEF TicketsInv, BoardsInv
  <2> QED
    BY <1>1, <2>1, <2>2, <2>3 DEF TablesOK
<1>8. CASE Attach(k) \/ ChangeFile(k)
  BY <1>2, <1>8 DEF Attach, ChangeFile, IsTicket
<1>9. CASE CreateWorkspace(k) \/ RenameWorkspace(k) \/ SetWorkspaceMember(k) \/ Download(k) \/ Abort(k)
  BY <1>9 DEF CreateWorkspace, RenameWorkspace, SetWorkspaceMember, Download, Abort, IsTicket
<1> QED
  BY <1>4, <1>5, <1>6, <1>7, <1>8, <1>9 DEF Finishing

(***************************************************************************)
(* Whoever takes part in a ticket on a published board has been told of it *)
(* by its creation, its change or the publication, or was away meanwhile.  *)
(***************************************************************************)
THEOREM EveryParticipantHears == TicketsSpec => []ParticipantsHaveHeard
<1>1. TicketsInit => ParticipantsHaveHeard
  BY DEF TicketsInit, ParticipantsHaveHeard, IsTicket
<1>2. ASSUME TicketsInv, TicketsInv', ParticipantsHaveHeard, [TicketsNext]_ticketVars
      PROVE  ParticipantsHaveHeard'
  <2>1. ASSUME UNCHANGED <<board, ticket, told>>,
               \A x \in Person : ~person'[x].lapsed => ~person[x].lapsed
        PROVE  ParticipantsHaveHeard'
    <3>1. ASSUME NEW t \in Ticket, IsTicket(t)
          PROVE  Takers(t) \subseteq Person
      BY <1>2, <3>1, TicketType DEF TicketsInv, Takers, TicketRec
    <3> QED
      BY <1>2, <2>1, <3>1 DEF ParticipantsHaveHeard, IsTicket, Takers
  <2>2. ASSUME NEW p \in Changing, PersonStep(p)
        PROVE  ParticipantsHaveHeard'
    <3>1. /\ UNCHANGED <<board, ticket, told>>
          /\ \A x \in Person : ~person'[x].lapsed => ~person[x].lapsed
      BY <1>2, <2>2, PersonStepWrites, AccessAssumption
    <3> QED
      BY <2>1, <3>1
  <2>3. ASSUME NEW k \in Writer, Finishing(k)
        PROVE  ParticipantsHaveHeard'
    <3>1. k \in Tx /\ person' = person
      BY <1>2, <2>3, FinishingWrites DEF Tx, Written
    <3>2. SUFFICES ASSUME NEW t \in Ticket, IsTicket(t)', board'[ticket'[t].board] = "PUBLISHED",
                          ~ticket'[t].archived, NEW p \in Takers(t)', ~person'[p].lapsed
                   PROVE  p \in told'[t]
      BY DEF ParticipantsHaveHeard
    <3>3. ASSUME NEW ts, t \in ts, Tell(k, ts)
          PROVE  p \in told'[t]
      <4>1. ticket'[t] \in TicketRec
        BY <1>2, <3>2 DEF TicketsInv, TablesOK, IsTicket
      <4>2. p \in Person
        BY <3>2, <4>1 DEF Takers, TicketRec
      <4>3. person'[p].active
        BY <1>2, <3>2, <4>2 DEF TicketsInv, LapsedInv
      <4>4. p \in Readers(t)'
        BY <3>2, <4>2, <4>3 DEF Readers, Reads
      <4> QED
        BY <3>3, <4>4 DEF Tell
    <3>4. ASSUME IsTicket(t), ticket'[t] = ticket[t], board[ticket[t].board] = "PUBLISHED",
                 told[t] \subseteq told'[t]
          PROVE  p \in told'[t]
      BY <1>2, <3>1, <3>2, <3>4 DEF ParticipantsHaveHeard, Takers
    <3> QED
      BY <1>2, <2>3, <3>1, <3>2, <3>3, <3>4, WhoIsTold
  <2>4. ASSUME NEW w \in Space, CloseLink(w)
        PROVE  ParticipantsHaveHeard'
    BY <2>1, <2>4 DEF CloseLink
  <2>5. CASE UNCHANGED ticketVars
    BY <2>1, <2>5 DEF ticketVars
  <2>6. CASE \E i \in Writer, a \in Operator, q \in TicketRequest : Enter(i, a, q)
    BY <2>1, <2>6 DEF Enter
  <2>7. CASE \/ \E i \in Reader, a \in Operator, scope \in Ticket \cup {"all"} : TakeSnapshot(i, a, scope)
             \/ \E i \in Reader : LockSnapshot(i) \/ Restart(i) \/ Answer(i)
    BY <2>1, <2>7 DEF TakeSnapshot, LockSnapshot, Restart, Answer
  <2>8. CASE \/ \E a \in Operator, t \in Ticket, f \in TFile : CheckUpload(a, t, f)
             \/ \E f \in TFile : PutObject(f) \/ LoseAnswer(f) \/ RemoveObject(f) \/ AbandonUpload(f)
    BY <2>1, <2>8 DEF CheckUpload, PutObject, LoseAnswer, RemoveObject, AbandonUpload
  <2> QED
    BY <1>2, <2>2, <2>3, <2>4, <2>5, <2>6, <2>7, <2>8 DEF TicketsNext
<1> QED
  BY <1>1, <1>2, TicketsInvAlways, PTL DEF TicketsSpec

(***************************************************************************)
(* Attachments implement private file storage: what an uploader was told   *)
(* is attached was listed in one step together with its object and keeps   *)
(* it; only an upload whose answer was lost may lose its object.           *)
(***************************************************************************)
Content == {f \in Listed : tfile[f].object}
Told == {f \in Listed : tfile[f].answered}

LEMMA OneFileStep ==
  ASSUME NEW f \in TFile,
         \A g \in TFile : g # f =>
           /\ tfile'[g].row = "none" <=> tfile[g].row = "none"
           /\ tfile'[g].object = tfile[g].object
           /\ tfile'[g].answered = tfile[g].answered,
         \/ /\ tfile'[f].row = "none" <=> tfile[f].row = "none"
            /\ tfile[f].row = "none" \/ tfile'[f].object = tfile[f].object
            /\ tfile[f].row = "none" \/ tfile'[f].answered = tfile[f].answered
         \/ /\ tfile[f].row = "none" /\ tfile'[f].row # "none"
            /\ tfile'[f].answered => tfile'[f].object
         \/ /\ tfile[f].row # "none" /\ tfile'[f].row # "none"
            /\ ~tfile[f].answered /\ ~tfile'[f].answered /\ ~tfile'[f].object
  PROVE  [TicketStore!Next]_<<Listed, Content, Told>>
<1>1. CASE /\ tfile'[f].row = "none" <=> tfile[f].row = "none"
           /\ tfile[f].row = "none" \/ tfile'[f].object = tfile[f].object
           /\ tfile[f].row = "none" \/ tfile'[f].answered = tfile[f].answered
  <2>1. Listed' = Listed
    BY <1>1 DEF Listed
  <2>2. Content' = Content /\ Told' = Told
    BY <1>1, <2>1 DEF Content, Told, Listed
  <2> QED
    BY <2>1, <2>2
<1>2. CASE /\ tfile[f].row = "none" /\ tfile'[f].row # "none"
           /\ tfile'[f].answered => tfile'[f].object
  <2>1. f \notin Listed /\ Listed' = Listed \cup {f}
    BY <1>2 DEF Listed
  <2>2. IF tfile'[f].object THEN Content' = Content \cup {f} ELSE Content' = Content
    BY <1>2 DEF Content, Listed
  <2>3. IF tfile'[f].answered THEN Told' = Told \cup {f} ELSE Told' = Told
    BY <1>2 DEF Told, Listed
  <2>4. TicketStore!Add(f)
    BY <1>2, <2>1, <2>2, <2>3 DEF TicketStore!Add, Content, Told
  <2> QED
    BY <2>4 DEF TicketStore!Next
<1>3. CASE /\ tfile[f].row # "none" /\ tfile'[f].row # "none"
           /\ ~tfile[f].answered /\ ~tfile'[f].answered /\ ~tfile'[f].object
  <2>1. Listed' = Listed /\ Told' = Told /\ f \notin Told /\ f \in Listed
    BY <1>3 DEF Listed, Told
  <2>2. Content' = Content \ {f}
    BY <1>3 DEF Content, Listed
  <2>3. CASE f \in Content
    <3>1. TicketStore!Lose(f)
      BY <2>1, <2>2, <2>3 DEF TicketStore!Lose, Content, Told
    <3> QED
      BY <3>1 DEF TicketStore!Next
  <2>4. CASE f \notin Content
    BY <2>1, <2>2, <2>4
  <2> QED
    BY <2>3, <2>4
<1> QED
  BY <1>1, <1>2, <1>3

LEMMA FilesStep ==
  ASSUME TicketsInv, TicketsInv', [TicketsNext]_ticketVars
  PROVE  [TicketStore!Next]_<<Listed, Content, Told>>
<1>0. tfile \in [TFile -> FileRec] /\ FilesInv /\ FilesInv'
  BY DEF TicketsInv, TablesOK
<1>1. ASSUME \A f \in TFile :
               /\ tfile'[f].row = "none" <=> tfile[f].row = "none"
               /\ tfile'[f].object = tfile[f].object
               /\ tfile'[f].answered = tfile[f].answered
      PROVE  [TicketStore!Next]_<<Listed, Content, Told>>
  BY <1>1 DEF Listed, Content, Told
<1>2. CASE \E k \in Writer : Finishing(k)
  <2>1. PICK k \in Writer : Finishing(k)
    BY <1>2
  <2>2. PICK rows : InCommand(k) /\ Written(k, rows)
    BY <2>1, FinishingWrites DEF Tx
  <2>3. FilesKept(k)
    BY <2>2 DEF Written
  <2>4. CASE \E f \in TFile : Listing(k, f)
    <3>1. PICK f \in TFile : Listing(k, f)
      BY <2>4
    <3>2. tfile[f].row = "none"
      BY <2>1, <2>2, <3>1 DEF TicketsInv, CommandInv, CommandOK, Ready, Doing, Asked, Listing, Tx
    <3>3. tfile'[f].row # "none" /\ (tfile'[f].answered => tfile'[f].object)
      BY <1>0, <3>1 DEF Listing, FilesInv, FileOK
    <3>4. \A g \in TFile : g # f =>
            /\ tfile'[g].row = "none" <=> tfile[g].row = "none"
            /\ tfile'[g].object = tfile[g].object
            /\ tfile'[g].answered = tfile[g].answered
      BY <2>3, <3>1 DEF FilesKept, Listing
    <3> QED
      BY <3>2, <3>3, <3>4, OneFileStep
  <2>5. CASE ~\E f \in TFile : Listing(k, f)
    BY <1>1, <2>3, <2>5 DEF FilesKept
  <2> QED
    BY <2>4, <2>5
<1>3. CASE \E a \in Operator, t \in Ticket, f \in TFile : CheckUpload(a, t, f)
  <2>1. PICK f \in TFile : \E a \in Operator, t \in Ticket : CheckUpload(a, t, f)
    BY <1>3
  <2>2. /\ tfile[f].row = "none" /\ tfile'[f].row = "none"
        /\ \A g \in TFile : g # f => tfile'[g] = tfile[g]
    BY <1>0, <2>1 DEF CheckUpload, NoFile
  <2> QED
    BY <2>2, OneFileStep
<1>4. CASE \E f \in TFile : PutObject(f) \/ LoseAnswer(f) \/ RemoveObject(f) \/ AbandonUpload(f)
  <2>1. PICK f \in TFile : PutObject(f) \/ LoseAnswer(f) \/ RemoveObject(f) \/ AbandonUpload(f)
    BY <1>4
  <2>2. FileOK(tfile[f]) /\ tfile[f] \in FileRec
    BY <1>0 DEF FilesInv
  <2>3. /\ tfile'[f].row = tfile[f].row /\ tfile'[f].answered = tfile[f].answered
        /\ \A g \in TFile : g # f => tfile'[g] = tfile[g]
    BY <1>0, <2>1 DEF PutObject, LoseAnswer, RemoveObject, AbandonUpload, FileRec
  <2>4. CASE LoseAnswer(f) \/ AbandonUpload(f)
    <3>1. tfile'[f].object = tfile[f].object
      BY <1>0, <2>4 DEF LoseAnswer, AbandonUpload, FileRec
    <3> QED
      BY <2>3, <3>1, OneFileStep
  <2>5. CASE PutObject(f)
    <3>1. tfile[f].row = "none"
      BY <2>2, <2>5 DEF PutObject, FileOK
    <3> QED
      BY <2>3, <3>1, OneFileStep
  <2>6. CASE RemoveObject(f)
    <3>1. ~tfile'[f].object
      BY <1>0, <2>6 DEF RemoveObject, FileRec
    <3>2. ~tfile[f].answered
      BY <2>2, <2>6 DEF RemoveObject, Removed, FileOK
    <3> QED
      BY <2>3, <3>1, <3>2, OneFileStep
  <2> QED
    BY <2>1, <2>4, <2>5, <2>6
<1>5. CASE \/ \E i \in Writer, a \in Operator, q \in TicketRequest : Enter(i, a, q)
           \/ \E i \in Reader, a \in Operator, scope \in Ticket \cup {"all"} : TakeSnapshot(i, a, scope)
           \/ \E i \in Reader : LockSnapshot(i) \/ Restart(i) \/ Answer(i)
           \/ \E w \in Space : CloseLink(w)
           \/ UNCHANGED ticketVars
  BY <1>1, <1>5 DEF Enter, TakeSnapshot, LockSnapshot, Restart, Answer, CloseLink, ticketVars
<1>6. CASE \E p \in Changing : PersonStep(p)
  <2>1. tfile' = tfile
    BY <1>6, PersonStepWrites, AccessAssumption
  <2> QED
    BY <1>1, <2>1
<1> QED
  BY <1>2, <1>3, <1>4, <1>5, <1>6 DEF TicketsNext

(* TicketFilesAreKept: what an uploader was told is attached stays readable. *)
THEOREM TicketFilesRefine == TicketsSpec => TicketFilesAreKept
<1>1. TicketsInit => TicketStore!Init
  BY DEF TicketsInit, TicketStore!Init, Listed, NoFile
<1>2. ASSUME TicketsInv, TicketsInv', [TicketsNext]_ticketVars
      PROVE  [TicketStore!Next]_<<Listed, Content, Told>>
  BY <1>2, FilesStep
<1> QED
  BY <1>1, <1>2, TicketsInvAlways, PTL DEF TicketsSpec, TicketFilesAreKept, TicketStore!Spec, Content, Told
=============================================================================
