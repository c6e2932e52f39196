------------------------------ MODULE Tickets -------------------------------
(***************************************************************************)
(* The company tickets: workspaces, boards, tickets, participants, work    *)
(* logs and files, and the transactions that read and change them while    *)
(* people lose and regain access.                                          *)
(*                                                                         *)
(* A command locks its workspace, board and ticket for itself and the rows *)
(* that say who its actor and the ticket's people are against change, then *)
(* reads and decides, then writes.  A read of several tables works on one  *)
(* snapshot, shares all those locks, and starts again when a row it locks  *)
(* was written after the snapshot.  The version a form was filled in with  *)
(* is an input: some form carries the current one, any other is refused.   *)
(***************************************************************************)
EXTENDS Naturals, FiniteSets

CONSTANTS
  Person, Team, Space, Board, Ticket,
  BoardSpace,    \* the workspace of each board there may be
  TFile,
  Writer,        \* how many commands may be open at once (bound)
  Reader,        \* and how many reads (bound)
  StartPerson,
  Changing,      \* whose access other services change (bound)
  MaxAttempts,   \* how often a read is tried: 3
  Operator,      \* who sends commands and reads (bound)
  Invited        \* who is asked to take part in tickets (bound)

CONSTANT NoOne

VARIABLES
  person,    \* users, sessions, admin_scope_grants and employee_profiles, by user
  space,     \* ticket_workspaces, and whether the client or project to link is closed
  member,    \* ticket_workspace_members, the active ones
  board,     \* ticket_boards: their status
  ticket,
  told,      \* who has a notification of the ticket, or acted on it
  tfile,     \* ticket_files, the objects in storage and the uploads in flight
  tx

Tx == Writer \cup Reader
ticketVars == <<person, space, member, board, ticket, told, tfile, tx>>

\* teams and spaces are the TEAM grants and the CLIENT or PROJECT grants that
\* match a workspace; session says whether the session, its version and the
\* credential would be accepted.  lapsed is no column: it was inactive once.
PersonRec == [role : {"EMPLOYEE", "ADMIN", "SUPER_ADMIN"}, active : BOOLEAN, session : BOOLEAN,
              teams : SUBSET Team, spaces : SUBSET Space, team : Team \cup {NoOne}, lapsed : BOOLEAN]
BoardStatus == {"NONE", "DRAFT", "PUBLISHED", "ARCHIVED"}

ASSUME AccessAssumption ==
  /\ BoardSpace \in [Board -> Space]
  /\ Operator \subseteq Person /\ Changing \subseteq Person /\ Invited \subseteq Person
  /\ StartPerson \in [Person -> PersonRec]
  /\ \A p \in Person : StartPerson[p].active \/ StartPerson[p].lapsed
  /\ "all" \notin Ticket /\ NoOne \notin Person

TicketRec == [board : Board, creator : Person, assignees : SUBSET Person, observers : SUBSET Person,
              authors : SUBSET Person, archived : BOOLEAN]
NoTicket == [creator |-> NoOne]
IsTicket(t) == ticket[t] # NoTicket
SpaceOf(t) == BoardSpace[ticket[t].board]

\* upload: checked (access was checked), stored (the object was put), unsure
\* (no answer to the COMMIT will come); fresh: whether the ticket still has the
\* version that was checked.  answered is no column: the uploader was told.
FileRec == [object : BOOLEAN, row : {"none", "active", "archived"}, of : Ticket \cup {NoOne},
            upload : {"none", "checked", "stored", "unsure"}, by : Person \cup {NoOne}, fresh : BOOLEAN,
            answered : BOOLEAN]
NoFile == [object |-> FALSE, row |-> "none", of |-> NoOne, upload |-> "none", by |-> NoOne, fresh |-> FALSE,
           answered |-> FALSE]
FilesOf(t) == {f \in TFile : tfile[f].row # "none" /\ tfile[f].of = t}

(***************************************************************************)
(* Who may do what.                                                        *)
(***************************************************************************)
Authentic(p) == person[p].active /\ person[p].session

InScope(a, p) ==
  \/ person[a].role = "SUPER_ADMIN" \/ a = p
  \/ person[a].role = "ADMIN" /\ person[p].role = "EMPLOYEE" /\ person[p].team \in person[a].teams

ManagesIfMember(a, w) ==
  \/ person[a].role = "SUPER_ADMIN"
  \/ person[a].role = "ADMIN" /\ person[a].teams # {} /\ w \in person[a].spaces
ManagesSpace(a, w) ==
  ManagesIfMember(a, w) /\ (person[a].role = "SUPER_ADMIN" \/ <<w, a>> \in member)

Takers(t) == ticket[t].assignees \cup ticket[t].observers
PeopleOf(t) ==
  {ticket[t].creator} \cup Takers(t) \cup ticket[t].authors \cup {tfile[f].by : f \in FilesOf(t)}

ManagesTicket(a, t) ==
  /\ ManagesSpace(a, SpaceOf(t))
  /\ person[a].role # "SUPER_ADMIN" =>
       \A p \in PeopleOf(t) : person[p].role = "EMPLOYEE" => InScope(a, p)

Reads(a, t) ==
  \/ ManagesTicket(a, t)
  \/ board[ticket[t].board] = "PUBLISHED" /\ (ticket[t].creator = a \/ a \in Takers(t))

Owns(a, t) == ManagesTicket(a, t) \/ ticket[t].creator = a
OnLiveBoard(t) == board[ticket[t].board] # "ARCHIVED"
MayWork(a, t) ==
  /\ Reads(a, t) /\ (Owns(a, t) \/ a \in ticket[t].assignees)
  /\ ~ticket[t].archived /\ OnLiveBoard(t)
MayManagePeople(a, t) == Reads(a, t) /\ Owns(a, t) /\ ~ticket[t].archived /\ OnLiveBoard(t)
MayArchive(a, t) == Reads(a, t) /\ Owns(a, t) /\ ~ticket[t].archived
MayRestore(a, t) == Reads(a, t) /\ Owns(a, t) /\ ticket[t].archived /\ OnLiveBoard(t)
MayChangeFile(a, t, f) == MayWork(a, t) /\ (ManagesTicket(a, t) \/ tfile[f].by = a)

MayGrant(a, w, p) ==
  /\ person[p].active /\ InScope(a, p)
  /\ person[p].role = "ADMIN" => ManagesIfMember(p, w)

(***************************************************************************)
(* The requests.                                                           *)
(***************************************************************************)
TicketOp == [op : {"EDIT", "LOG", "ARCHIVE", "RESTORE"}, ticket : Ticket]
FileOp == [op : {"ATTACH", "DOWNLOAD", "ARCHIVE_FILE", "RESTORE_FILE"}, ticket : Ticket, file : TFile]
\* validateParticipantIds: nobody is asked twice.
AskedOnce(Q) == {q \in Q : q.assignees \cap q.observers = {}}
PeopleOp == AskedOnce([op : {"PARTICIPANTS"}, ticket : Ticket, assignees : SUBSET Invited, observers : SUBSET Invited])
CreateOp == AskedOnce([op : {"CREATE"}, new : Ticket, board : Board, assignees : SUBSET Invited, observers : SUBSET Invited])
BoardOp == [op : {"BOARD"}, board : Board, status : BoardStatus \ {"NONE"}]
SpaceOp == [op : {"NEW_SPACE", "RENAME"}, space : Space]
             \cup [op : {"ADD_MEMBER", "REMOVE_MEMBER"}, space : Space, person : Person]
             \cup [op : {"NEW_BOARD"}, board : Board, status : BoardStatus \ {"NONE"}]
TicketRequest == TicketOp \cup FileOp \cup PeopleOp \cup CreateOp \cup BoardOp \cup SpaceOp
OfTicket(q) == "ticket" \in DOMAIN q

TargetSpace(q) ==
  IF OfTicket(q) THEN SpaceOf(q.ticket)
  ELSE IF "space" \in DOMAIN q THEN q.space ELSE BoardSpace[q.board]

\* The people who are asked to take part are active, and the creator is not among them.
ValidParticipants(q, creator) ==
  /\ creator \notin q.assignees \cup q.observers
  /\ \A p \in q.assignees \cup q.observers : person[p].active

Permitted(a, q) ==
  /\ Authentic(a)
  /\ OfTicket(q) => IsTicket(q.ticket) /\ Reads(a, q.ticket)
  /\ q.op \in {"EDIT", "LOG", "ATTACH"} => MayWork(a, q.ticket)
  /\ q.op \in {"ARCHIVE_FILE", "RESTORE_FILE"} => MayChangeFile(a, q.ticket, q.file)
  /\ q.op = "ARCHIVE" => MayArchive(a, q.ticket)
  /\ q.op = "RESTORE" => MayRestore(a, q.ticket)
  /\ q.op = "PARTICIPANTS" => MayManagePeople(a, q.ticket)
  /\ q.op = "CREATE" => board[q.board] \notin {"NONE", "ARCHIVED"} /\
       (ManagesSpace(a, BoardSpace[q.board]) \/ board[q.board] = "PUBLISHED")
  /\ q.op \in {"RENAME", "BOARD", "NEW_BOARD", "ADD_MEMBER", "REMOVE_MEMBER"} => ManagesSpace(a, TargetSpace(q))
  /\ q.op = "NEW_SPACE" => ManagesIfMember(a, q.space) /\ space[q.space] = "none"
  /\ q.op = "ADD_MEMBER" => MayGrant(a, q.space, q.person)
  /\ q.op = "REMOVE_MEMBER" => InScope(a, q.person)

\* What the request is about is there to be changed.
Possible(a, q) ==
  /\ q.op = "PARTICIPANTS" => ValidParticipants(q, ticket[q.ticket].creator)
  /\ q.op = "CREATE" => ~IsTicket(q.new) /\ ValidParticipants(q, a)
  /\ q.op = "BOARD" => board[q.board] # "NONE"
  /\ q.op = "NEW_BOARD" => board[q.board] = "NONE"
  /\ q.op # "NEW_SPACE" => space[TargetSpace(q)] = "present"
  /\ q.op \in {"DOWNLOAD", "ARCHIVE_FILE"} => tfile[q.file].row = "active" /\ tfile[q.file].of = q.ticket
  /\ q.op = "RESTORE_FILE" => tfile[q.file].row = "archived" /\ tfile[q.file].of = q.ticket
  /\ q.op = "ATTACH" =>
       tfile[q.file].upload = "stored" /\ tfile[q.file].of = q.ticket /\ tfile[q.file].by = a /\ tfile[q.file].fresh

(***************************************************************************)
(* The locks.  A transaction holds them from the moment it has read what   *)
(* it decides on to its end.                                               *)
(***************************************************************************)
Idle == [stage |-> "idle"]
Command(a, q) == [stage |-> "command", actor |-> a, request |-> q]
\* view: the tickets its snapshot shows to the reader.  stale: a row it has
\* to lock was written after the snapshot was taken.
Reading(a, scope, view, attempt) ==
  [stage |-> "snapshot", actor |-> a, scope |-> scope, view |-> view, stale |-> FALSE, attempt |-> attempt]
InCommand(i) == tx[i].stage = "command"
IsReading(i) == tx[i].stage \in {"snapshot", "locked"}

ActorRows(a) == {<<"user", a>>, <<"session", a>>, <<"grants", a>>}
PersonRows(P) == {<<"user", p>> : p \in P} \cup {<<"profile", p>> : p \in P}

\* The rows a command locks beside its workspace, board and ticket.
(* Mutant of CommandRows: the people of the ticket are not locked. *)
CommandRowsActorOnly(a, q) == ActorRows(a)
CommandRows(a, q) ==
  ActorRows(a)
    \cup (IF OfTicket(q) THEN PersonRows(PeopleOf(q.ticket)) ELSE {})
    \cup (IF q.op = "PARTICIPANTS" THEN PersonRows(q.assignees \cup q.observers \cup {ticket[q.ticket].creator}) ELSE {})
    \cup (IF q.op = "CREATE" THEN PersonRows(q.assignees \cup q.observers \cup {a}) ELSE {})
    \cup (IF q.op = "NEW_SPACE" THEN {<<"link", q.space>>} ELSE {})
    \cup (IF q.op \in {"ADD_MEMBER", "REMOVE_MEMBER"} THEN PersonRows({q.person}) ELSE {})
    \cup (IF q.op = "ADD_MEMBER" /\ person[q.person].role = "ADMIN" THEN {<<"grants", q.person>>} ELSE {})

\* The rows a read locks.  scope: the one ticket that is read, or all of them.
ReadRows(a, scope) ==
  ActorRows(a) \cup
  IF scope = "all"
  THEN {<<"space", w>> : w \in Space} \cup {<<"board", b>> : b \in Board}
         \cup {<<"ticket", t>> : t \in Ticket} \cup PersonRows(Person)
  ELSE {<<"space", SpaceOf(scope)>>, <<"board", ticket[scope].board>>, <<"ticket", scope>>}
         \cup PersonRows(PeopleOf(scope))

\* A command has its workspace for itself; a read shares it with other reads.
SpacesOf(scope) == IF scope = "all" THEN Space ELSE {SpaceOf(scope)}
Exclusive(w) == {i \in Tx : InCommand(i) /\ TargetSpace(tx[i].request) = w}
Shared(w) == {i \in Tx : tx[i].stage = "locked" /\ w \in SpacesOf(tx[i].scope)}
Held(row) ==
  \E i \in Tx :
    \/ InCommand(i) /\ row \in CommandRows(tx[i].actor, tx[i].request)
    \/ tx[i].stage = "locked" /\ row \in ReadRows(tx[i].actor, tx[i].scope)

\* After rows were written: reads that still have to lock one of them are stale.
Overtaken(txs, rows) ==
  [i \in Tx |-> IF txs[i].stage = "snapshot" /\ rows \cap ReadRows(txs[i].actor, txs[i].scope) # {}
                THEN [txs[i] EXCEPT !.stale = TRUE] ELSE txs[i]]

(***************************************************************************)
(* Commands.                                                               *)
(***************************************************************************)
FreeForUs(w) == Exclusive(w) = {} /\ Shared(w) = {}

Enter(i, a, q) ==
  /\ tx[i] = Idle /\ Authentic(a) /\ (OfTicket(q) => IsTicket(q.ticket))
  /\ FreeForUs(TargetSpace(q))  \* a workspace that is new is nobody else's
  /\ Possible(a, q) /\ Permitted(a, q)
  /\ tx' = [tx EXCEPT ![i] = Command(a, q)]
  /\ UNCHANGED <<person, space, member, board, ticket, told, tfile>>

Finish(i, rows) == tx' = Overtaken([tx EXCEPT ![i] = Idle], rows)
Doing(i, op) == InCommand(i) /\ tx[i].request.op = op
Asked(i) == tx[i].request
Actor(i) == tx[i].actor

\* notifyTicket: whoever can read the ticket now, and the actor knows already.
Readers(t) == {p \in Person : person[p].active /\ Reads(p, t)}
Tell(i, ts) ==
  told' = [t \in Ticket |-> IF t \in ts THEN told[t] \cup Readers(t)' \cup {Actor(i)} ELSE told[t]]

\* A ticket's new version makes the uploads that were checked before it stale.
Bumped(files, t) ==
  [f \in TFile |-> IF files[f].upload # "none" /\ files[f].of = t
                   THEN [files[f] EXCEPT !.fresh = FALSE] ELSE files[f]]

\* The end of every command on a ticket: its version, its notifications.
TicketDone(i, new) ==
  /\ ticket' = [ticket EXCEPT ![Asked(i).ticket] = new]
  /\ tfile' = Bumped(tfile, Asked(i).ticket)
  /\ UNCHANGED <<person, space, member, board>>
  /\ Tell(i, {Asked(i).ticket}) /\ Finish(i, {<<"ticket", Asked(i).ticket>>})
Old(i) == ticket[Asked(i).ticket]

EditTicket(i) == Doing(i, "EDIT") /\ TicketDone(i, Old(i))
WriteLog(i) == Doing(i, "LOG") /\ TicketDone(i, [Old(i) EXCEPT !.authors = @ \cup {Actor(i)}])
ArchiveTicket(i) == Doing(i, "ARCHIVE") /\ TicketDone(i, [Old(i) EXCEPT !.archived = TRUE])
RestoreTicket(i) == Doing(i, "RESTORE") /\ TicketDone(i, [Old(i) EXCEPT !.archived = FALSE])
SetParticipants(i) ==
  /\ Doing(i, "PARTICIPANTS")
  /\ TicketDone(i, [Old(i) EXCEPT !.assignees = Asked(i).assignees, !.observers = Asked(i).observers])

\* The database numbers tickets: no two of them are made with one number.
CreateTicket(i) ==
  /\ Doing(i, "CREATE") /\ ~IsTicket(Asked(i).new)
  /\ ticket' = [ticket EXCEPT ![Asked(i).new] =
       [board |-> Asked(i).board, creator |-> Actor(i), authors |-> {}, archived |-> FALSE,
        assignees |-> Asked(i).assignees, observers |-> Asked(i).observers]]
  /\ UNCHANGED <<person, space, member, board, tfile>>
  /\ Tell(i, {Asked(i).new}) /\ Finish(i, {})

\* Publishing a board tells the readers of its tickets, the archived ones apart.
(* Mutant of Announced: nobody is told of a board that is published. *)
AnnouncedNever(b, status) == {}
Announced(b, status) ==
  {t \in Ticket : status = "PUBLISHED" /\ board[b] # "PUBLISHED"
                    /\ IsTicket(t) /\ ticket[t].board = b /\ ~ticket[t].archived}
UpdateBoard(i) ==
  /\ Doing(i, "BOARD")
  /\ board' = [board EXCEPT ![Asked(i).board] = Asked(i).status]
  /\ UNCHANGED <<person, space, member, ticket, tfile>>
  /\ Tell(i, Announced(Asked(i).board, Asked(i).status))
  /\ Finish(i, {<<"board", Asked(i).board>>})
CreateBoard(i) ==
  /\ Doing(i, "NEW_BOARD")
  /\ board' = [board EXCEPT ![Asked(i).board] = Asked(i).status]
  /\ Finish(i, {<<"space", BoardSpace[Asked(i).board]>>})
  /\ UNCHANGED <<person, space, member, ticket, told, tfile>>

CreateWorkspace(i) ==
  /\ Doing(i, "NEW_SPACE")
  /\ space' = [space EXCEPT ![Asked(i).space] = "present"]
  /\ member' = member \cup {<<Asked(i).space, Actor(i)>>}
  /\ Finish(i, {})
  /\ UNCHANGED <<person, board, ticket, told, tfile>>
RenameWorkspace(i) ==
  /\ Doing(i, "RENAME") /\ Finish(i, {<<"space", Asked(i).space>>})
  /\ UNCHANGED <<person, space, member, board, ticket, told, tfile>>
SetWorkspaceMember(i) ==
  /\ \/ Doing(i, "ADD_MEMBER") /\ member' = member \cup {<<Asked(i).space, Asked(i).person>>}
     \/ Doing(i, "REMOVE_MEMBER") /\ member' = member \ {<<Asked(i).space, Asked(i).person>>}
  /\ Finish(i, {<<"space", Asked(i).space>>})
  /\ UNCHANGED <<person, space, board, ticket, told, tfile>>

(***************************************************************************)
(* Files.  An upload is checked by a read, stored, and listed by a command *)
(* that wants the ticket unchanged since.  The object is removed again     *)
(* when the call that runs this command throws: it was refused, rolled     *)
(* back, or the connection broke while it was committing, in which case    *)
(* its row may have been written or may still be.  The server may die      *)
(* first, and the removal may fail too.                                    *)
(***************************************************************************)
CheckUpload(a, t, f) ==
  /\ tfile[f] = NoFile /\ IsTicket(t) /\ Authentic(a) /\ MayWork(a, t)
  /\ Exclusive(SpaceOf(t)) = {}
  /\ tfile' = [tfile EXCEPT ![f] = [NoFile EXCEPT !.of = t, !.upload = "checked", !.by = a, !.fresh = TRUE]]
  /\ UNCHANGED <<person, space, member, board, ticket, told, tx>>
PutObject(f) ==
  /\ tfile[f].upload = "checked"
  /\ tfile' = [tfile EXCEPT ![f].upload = "stored", ![f].object = TRUE]
  /\ UNCHANGED <<person, space, member, board, ticket, told, tx>>
Attach(i) ==
  LET f == Asked(i).file
      answered == tfile[f].upload = "stored"
      listed == [tfile EXCEPT ![f].row = "active", ![f].answered = answered,
                              ![f].upload = IF answered THEN "none" ELSE @]
  IN  /\ Doing(i, "ATTACH")
      /\ tfile' = Bumped(listed, Asked(i).ticket)
      /\ UNCHANGED <<person, space, member, board, ticket>>
      /\ Tell(i, {Asked(i).ticket}) /\ Finish(i, {<<"ticket", Asked(i).ticket>>})

Attaching(f) == \E i \in Tx : Doing(i, "ATTACH") /\ Asked(i).file = f
\* The connection breaks after the COMMIT was sent: the call throws, and what
\* the database does with the command is open.
LoseAnswer(f) ==
  /\ tfile[f].upload = "stored" /\ Attaching(f)
  /\ tfile' = [tfile EXCEPT ![f].upload = "unsure"]
  /\ UNCHANGED <<person, space, member, board, ticket, told, tx>>
\* The catch: whatever made the call throw, the object goes.
(* Mutant of Removed: the removal stands in a finally. *)
RemovedFinally(f) == ~Attaching(f) /\ tfile[f].object
Removed(f) == tfile[f].upload = "unsure" \/ (tfile[f].upload = "stored" /\ ~Attaching(f))
RemoveObject(f) ==
  /\ Removed(f)
  /\ tfile' = [tfile EXCEPT ![f].upload = "none", ![f].object = FALSE]
  /\ UNCHANGED <<person, space, member, board, ticket, told, tx>>
\* The server dies during an upload, or the object cannot be removed.
AbandonUpload(f) ==
  /\ tfile[f].upload = "checked" \/ Removed(f)
  /\ tfile' = [tfile EXCEPT ![f].upload = "none"]
  /\ UNCHANGED <<person, space, member, board, ticket, told, tx>>

ChangeFile(i) ==
  /\ \/ Doing(i, "ARCHIVE_FILE") /\ tfile' = Bumped([tfile EXCEPT ![Asked(i).file].row = "archived"], Asked(i).ticket)
     \/ Doing(i, "RESTORE_FILE") /\ tfile' = Bumped([tfile EXCEPT ![Asked(i).file].row = "active"], Asked(i).ticket)
  /\ UNCHANGED <<person, space, member, board, ticket>>
  /\ Tell(i, {Asked(i).ticket}) /\ Finish(i, {<<"ticket", Asked(i).ticket>>})
Download(i) ==
  /\ Doing(i, "DOWNLOAD") /\ tfile[Asked(i).file].object /\ Finish(i, {})
  /\ UNCHANGED <<person, space, member, board, ticket, told, tfile>>

\* A command fails: its transaction is rolled back.
Abort(i) ==
  /\ InCommand(i) /\ Finish(i, {})
  /\ UNCHANGED <<person, space, member, board, ticket, told, tfile>>

(***************************************************************************)
(* Reads.                                                                  *)
(***************************************************************************)
Visible(a, scope) == {t \in Ticket : (scope = "all" \/ t = scope) /\ IsTicket(t) /\ Reads(a, t)}
MayAsk(a, scope) == Authentic(a) /\ (scope # "all" => Visible(a, scope) # {})

TakeSnapshot(i, a, scope) ==
  /\ tx[i] = Idle /\ MayAsk(a, scope)
  /\ tx' = [tx EXCEPT ![i] = Reading(a, scope, Visible(a, scope), 1)]
  /\ UNCHANGED <<person, space, member, board, ticket, told, tfile>>

(* Mutant of Overrun: a lock on a row written since the snapshot is granted. *)
OverrunNever(i) == FALSE
Overrun(i) == tx[i].stage = "snapshot" /\ tx[i].stale
Reachable(i) == \A w \in SpacesOf(tx[i].scope) : Exclusive(w) = {}
LockSnapshot(i) ==
  /\ tx[i].stage = "snapshot" /\ ~Overrun(i) /\ Reachable(i)
  /\ tx' = [tx EXCEPT ![i].stage = "locked"]
  /\ UNCHANGED <<person, space, member, board, ticket, told, tfile>>
\* A serialization failure: all of it again on a new snapshot, MaxAttempts times at most.
Restart(i) ==
  /\ Overrun(i) /\ Reachable(i)
  /\ IF tx[i].attempt < MaxAttempts /\ MayAsk(tx[i].actor, tx[i].scope)
     THEN tx' = [tx EXCEPT ![i] =
            Reading(tx[i].actor, tx[i].scope, Visible(tx[i].actor, tx[i].scope), tx[i].attempt + 1)]
     ELSE tx' = [tx EXCEPT ![i] = Idle]
  /\ UNCHANGED <<person, space, member, board, ticket, told, tfile>>
Answer(i) ==
  /\ tx[i].stage = "locked" /\ Finish(i, {})
  /\ UNCHANGED <<person, space, member, board, ticket, told, tfile>>

(***************************************************************************)
(* What other services write meanwhile: a write waits for the locks on its *)
(* rows.  A new grant is a new row, which nothing locks.                   *)
(***************************************************************************)
WritePerson(p, new, rows) ==
  /\ \A row \in rows : ~Held(row)
  /\ person' = [person EXCEPT ![p] = new]
  /\ tx' = Overtaken(tx, rows)
  /\ UNCHANGED <<space, member, board, ticket, told, tfile>>
SetActive(p, active) ==
  /\ active # person[p].active
  /\ WritePerson(p, [person[p] EXCEPT !.active = active, !.session = @ /\ active, !.lapsed = TRUE],
                 {<<"user", p>>, <<"session", p>>})
SetRole(p, role) ==
  /\ role # person[p].role
  /\ WritePerson(p, [person[p] EXCEPT !.role = role, !.session = FALSE], {<<"user", p>>, <<"session", p>>})
EndOfSession(p) == person[p].session /\ WritePerson(p, [person[p] EXCEPT !.session = FALSE], {<<"session", p>>})
NewSession(p) ==
  /\ person[p].active /\ ~person[p].session /\ ~Held(<<"user", p>>)
  /\ WritePerson(p, [person[p] EXCEPT !.session = TRUE], {})
SetTeam(p, team) == team # person[p].team /\ WritePerson(p, [person[p] EXCEPT !.team = team], {<<"profile", p>>})
RevokeGrant(p) ==
  /\ person[p].role = "ADMIN"
  /\ \/ \E m \in person[p].teams : WritePerson(p, [person[p] EXCEPT !.teams = @ \ {m}], {<<"grants", p>>})
     \/ \E w \in person[p].spaces : WritePerson(p, [person[p] EXCEPT !.spaces = @ \ {w}], {<<"grants", p>>})
NewGrant(p) ==
  /\ person[p].role = "ADMIN"
  /\ \/ \E m \in Team \ person[p].teams : WritePerson(p, [person[p] EXCEPT !.teams = @ \cup {m}], {})
     \/ \E w \in Space \ person[p].spaces : WritePerson(p, [person[p] EXCEPT !.spaces = @ \cup {w}], {})
CloseLink(w) ==
  /\ space[w] = "none" /\ ~Held(<<"link", w>>)
  /\ space' = [space EXCEPT ![w] = "closed"]
  /\ UNCHANGED <<person, member, board, ticket, told, tfile, tx>>

\* A person takes part in a ticket in one way, and none in their own.
TicketsTypeOK ==
  /\ person \in [Person -> PersonRec] /\ space \in [Space -> {"none", "closed", "present"}]
  /\ member \subseteq Space \X Person /\ board \in [Board -> BoardStatus]
  /\ ticket \in [Ticket -> TicketRec \cup {NoTicket}] /\ told \in [Ticket -> SUBSET Person]
  /\ \A t \in Ticket : IsTicket(t) =>
       ticket[t].creator \notin Takers(t) /\ ticket[t].assignees \cap ticket[t].observers = {}
  /\ tfile \in [TFile -> FileRec]
  /\ \A i \in Tx : tx[i].stage \in {"idle", "command", "snapshot", "locked"}

TicketsInit ==
  /\ person = StartPerson /\ space = [w \in Space |-> "none"] /\ member = {}
  /\ board = [b \in Board |-> "NONE"] /\ ticket = [t \in Ticket |-> NoTicket]
  /\ told = [t \in Ticket |-> {}] /\ tfile = [f \in TFile |-> NoFile] /\ tx = [i \in Tx |-> Idle]

PersonStep(p) ==
  \/ \E active \in BOOLEAN : SetActive(p, active)
  \/ \E role \in {"EMPLOYEE", "ADMIN"} : SetRole(p, role)
  \/ EndOfSession(p) \/ NewSession(p) \/ RevokeGrant(p) \/ NewGrant(p)
  \/ \E m \in Team \cup {NoOne} : SetTeam(p, m)

Finishing(i) ==
  \/ EditTicket(i) \/ WriteLog(i) \/ ArchiveTicket(i) \/ RestoreTicket(i) \/ SetParticipants(i)
  \/ CreateTicket(i) \/ UpdateBoard(i) \/ CreateBoard(i) \/ CreateWorkspace(i) \/ RenameWorkspace(i)
  \/ SetWorkspaceMember(i)
  \/ Attach(i) \/ ChangeFile(i) \/ Download(i) \/ Abort(i)

TicketsNext ==
  \/ \E i \in Writer, a \in Operator, q \in TicketRequest : Enter(i, a, q)
  \/ \E i \in Writer : Finishing(i)
  \/ \E i \in Reader, a \in Operator, scope \in Ticket \cup {"all"} : TakeSnapshot(i, a, scope)
  \/ \E i \in Reader : LockSnapshot(i) \/ Restart(i) \/ Answer(i)
  \/ \E a \in Operator, t \in Ticket, f \in TFile : CheckUpload(a, t, f)
  \/ \E f \in TFile : PutObject(f) \/ LoseAnswer(f) \/ RemoveObject(f) \/ AbandonUpload(f)
  \/ \E p \in Changing : PersonStep(p)
  \/ \E w \in Space : CloseLink(w)

TicketsSpec == TicketsInit /\ [][TicketsNext]_ticketVars

(***************************************************************************)
(* Properties.                                                             *)
(***************************************************************************)

\* What a command was allowed when it read stays allowed until it has written:
\* nobody's session, role, grants, team, membership or participation is
\* withdrawn in between (currentActor, loadTicketContext, requireWorkspace).
CommandsStayPermitted == \A i \in Tx : InCommand(i) => Permitted(tx[i].actor, tx[i].request)

\* A read answers with nothing its reader may not see at the moment of the
\* answer, although all of it was read before the locks (consistentRead).
AnswersAreCurrent ==
  \A i \in Tx : tx[i].stage = "locked" =>
    Authentic(tx[i].actor) /\ \A t \in tx[i].view : Reads(tx[i].actor, t)

\* Someone who takes part in a ticket of a published board has heard of it, in
\* whatever order it was created, published, archived and shared; those who
\* were inactive for a time may have missed it (notifyTicket).
ParticipantsHaveHeard ==
  \A t \in Ticket : IsTicket(t) /\ board[ticket[t].board] = "PUBLISHED" /\ ~ticket[t].archived =>
    \A p \in Takers(t) : ~person[p].lapsed => p \in told[t]

\* Attachments implement private file storage: a file whose uploader was told
\* that it is attached was listed together with its content and keeps it,
\* whatever becomes of this and of other uploads (TicketFilesService.attach).
Listed == {f \in TFile : tfile[f].row # "none"}
TicketStore == INSTANCE FileStore WITH
  File <- TFile, listed <- Listed, readable <- {f \in Listed : tfile[f].object},
  answered <- {f \in Listed : tfile[f].answered}
TicketFilesAreKept == TicketStore!Spec
=============================================================================
