--------------------------- MODULE Conversations ---------------------------
(***************************************************************************)
(* What people tell each other: the thread of a replacement request, the   *)
(* notifications in everyone's inbox, and the management notes about an    *)
(* employee.  A service reads who takes part, or who the actor is, before  *)
(* its transaction; requests are edited and decided, and people change, in  *)
(* between.                                                                *)
(***************************************************************************)
EXTENDS Naturals, FiniteSets

CONSTANTS
  Person,
  ReplacementRequest,
  Message, Memo,
  Talk,         \* bound: calls in flight
  MaxEdit,      \* bound: how often a request is edited
  RoleOf        \* the roles a person may have: "EMPLOYEE", "ADMIN", "SUPER_ADMIN"

\* Nobody has the id that stands for no employee: NULL.
ASSUME ConversationsAssumption == "nobody" \notin Person /\ MaxEdit \in Nat

VARIABLES
  asked,        \* replacement_requests: who asks, who is nominated, who is selected; its version
  thread,       \* the requests that have a row in discussion_threads
  message,      \* discussion_messages
  inbox,        \* notifications, by message and recipient
  standing,     \* users.role, users.active and TEAM scope over the others' team
  memo,         \* employee_management_notes
  talk          \* the calls in flight, with what they have read

conversationVars == <<asked, thread, message, inbox, standing, memo, talk>>

NoPerson == "nobody"
NoAsk == [status |-> "none"]
NoMessage == [in |-> "none"]
NoRow == [read |-> "none"]
NoMemo == [visibility |-> "none"]
NoTalk == [op |-> "none"]

(* No columns: asOf, the version of the request that the message's author   *)
(* had read; since, the version that named the present nominee; former, the *)
(* nominees of earlier versions.                                            *)
ConversationsTypeOK ==
  /\ thread \subseteq {r \in ReplacementRequest : asked[r] # NoAsk}
  /\ \A m \in Message : message[m] = NoMessage \/
       message[m] \in [in : thread, author : Person, archived : BOOLEAN, asOf : Nat]
  /\ \A m \in Message, p \in Person : inbox[<<m, p>>] = NoRow \/
       inbox[<<m, p>>] \in [read : BOOLEAN, archived : BOOLEAN]

Participants(r) == {asked[r].requester, asked[r].nominated, asked[r].selected} \ {NoPerson}

StartTalk(x, c) ==
  /\ talk[x] = NoTalk
  /\ talk' = [talk EXCEPT ![x] = c]

(* The call ends; row is the row whose version it moved. *)
EndTalk(x, row) ==
  talk' = [y \in Talk |->
    IF y = x \/ talk[y] = NoTalk THEN NoTalk
    ELSE IF "row" \in DOMAIN talk[y] /\ talk[y].row = row THEN [talk[y] EXCEPT !.fresh = FALSE]
    ELSE talk[y]]

(* An error, at any moment before the commit: nothing is left behind. *)
Refused(x) ==
  /\ talk[x] # NoTalk
  /\ talk' = [talk EXCEPT ![x] = NoTalk]
  /\ UNCHANGED <<asked, thread, message, inbox, standing, memo>>

-----------------------------------------------------------------------------
(* The request a thread belongs to, as CoverageService writes it. *)

Ask(r, p, nominee) ==
  /\ asked[r] = NoAsk /\ nominee # p
  /\ asked' = [asked EXCEPT ![r] = [status |-> "PENDING", requester |-> p, nominated |-> nominee, selected |-> NoPerson,
                                    version |-> 1, since |-> 1, former |-> {}]]
  /\ UNCHANGED <<thread, message, inbox, standing, memo, talk>>

(* edit: another nominee, none, or the same one again. *)
Edit(r, nominee) ==
  /\ asked[r].status = "PENDING" /\ asked[r].version <= MaxEdit
  /\ LET a == asked[r] IN
     asked' = [asked EXCEPT ![r] =
       [a EXCEPT !.nominated = nominee, !.version = a.version + 1,
                 !.since = IF nominee = a.nominated THEN a.since ELSE a.version + 1,
                 !.former = IF nominee = a.nominated THEN a.former ELSE (a.former \cup {a.nominated}) \ {NoPerson}]]
  /\ UNCHANGED <<thread, message, inbox, standing, memo, talk>>

(* decide; and cancel, which closes the request with nobody selected. *)
Decide(r, selected) ==
  /\ asked[r].status = "PENDING"
  /\ LET a == asked[r] IN
     asked' = [asked EXCEPT ![r] =
       [a EXCEPT !.status = IF selected = NoPerson THEN "REJECTED" ELSE "APPROVED",
                 !.selected = selected, !.version = a.version + 1]]
  /\ UNCHANGED <<thread, message, inbox, standing, memo, talk>>

-----------------------------------------------------------------------------
(* Discussions *)

(* requireParticipantRequest: outside the transaction. *)
BeginPost(x, p, r) ==
  /\ asked[r] # NoAsk /\ p \in Participants(r)
  /\ StartTalk(x, [op |-> "post", author |-> p, in |-> r, heard |-> Participants(r),
                   asOf |-> asked[r].version, locked |-> FALSE])
  /\ UNCHANGED <<asked, thread, message, inbox, standing, memo>>

LockParent(x) ==
  /\ talk[x].op = "post" /\ ~talk[x].locked
  /\ \A y \in Talk : talk[y].op = "post" /\ talk[y].in = talk[x].in => ~talk[y].locked
  /\ talk' = [talk EXCEPT ![x].locked = TRUE]
  /\ UNCHANGED <<asked, thread, message, inbox, standing, memo>>

(* Mutant of Recipients: the requester and the author talk to each other. *)
RequesterOnly(x) == {asked[talk[x].in].requester} \ {talk[x].author}

Recipients(x) == talk[x].heard \ {talk[x].author}

Post(x, m) ==
  /\ talk[x].op = "post" /\ talk[x].locked /\ message[m] = NoMessage
  /\ thread' = thread \cup {talk[x].in}
  /\ message' = [message EXCEPT ![m] =
       [in |-> talk[x].in, author |-> talk[x].author, archived |-> FALSE, asOf |-> talk[x].asOf]]
  /\ inbox' = [n \in Message \X Person |->
       IF n[1] = m /\ n[2] \in Recipients(x) THEN [read |-> FALSE, archived |-> FALSE] ELSE inbox[n]]
  /\ EndTalk(x, m)
  /\ UNCHANGED <<asked, standing, memo>>

BeginArchiveMessage(x, p, m) ==
  /\ message[m] # NoMessage /\ ~message[m].archived
  /\ p \in Participants(message[m].in) /\ message[m].author = p
  /\ StartTalk(x, [op |-> "archiveMessage", row |-> m, fresh |-> TRUE])
  /\ UNCHANGED <<asked, thread, message, inbox, standing, memo>>

ArchiveMessage(x) ==
  LET m == talk[x].row IN
  /\ talk[x].op = "archiveMessage" /\ talk[x].fresh /\ ~message[m].archived
  /\ message' = [message EXCEPT ![m].archived = TRUE]
  /\ EndTalk(x, m)
  /\ UNCHANGED <<asked, thread, inbox, standing, memo>>

(* openThread and listMine: the threads of the requests one takes part in. *)
Threads(p) == {r \in thread : p \in Participants(r)}
MessagesOf(r) == {m \in Message : message[m] # NoMessage /\ message[m].in = r}

-----------------------------------------------------------------------------
(* Notifications: the filters of the inbox, and what a recipient may mark. *)

Inbox(p, filter) ==
  {m \in Message : inbox[<<m, p>>] # NoRow /\
     CASE filter = "archived" -> inbox[<<m, p>>].archived
       [] filter = "unread" -> ~inbox[<<m, p>>].archived /\ ~inbox[<<m, p>>].read
       [] OTHER -> ~inbox[<<m, p>>].archived}

UnreadCount(p) == Cardinality(Inbox(p, "unread"))

(* discussionHref: a link only for those who take part now. *)
Linked(p) == {m \in Inbox(p, "all") : p \in Participants(message[m].in)}

Owned(p) == {m \in Message : inbox[<<m, p>>] # NoRow}

BeginMark(x, p, m, column, value) ==
  /\ m \in Owned(p)
  /\ StartTalk(x, [op |-> "mark", of |-> p, about |-> m, column |-> column, value |-> value])
  /\ UNCHANGED <<asked, thread, message, inbox, standing, memo>>

(* setRead, setArchived: one column of the row. *)
Marked(c) == [inbox[<<c.about, c.of>>] EXCEPT ![c.column] = c.value]

Mark(x) ==
  /\ talk[x].op = "mark"
  /\ inbox' = [inbox EXCEPT ![<<talk[x].about, talk[x].of>>] = Marked(talk[x])]
  /\ talk' = [talk EXCEPT ![x] = NoTalk]
  /\ UNCHANGED <<asked, thread, message, standing, memo>>

MarkAllRead(p) ==
  /\ Inbox(p, "unread") # {}
  /\ inbox' = [n \in Message \X Person |->
       IF n[2] = p /\ n[1] \in Inbox(p, "unread") THEN [inbox[n] EXCEPT !.read = TRUE] ELSE inbox[n]]
  /\ UNCHANGED <<asked, thread, message, standing, memo, talk>>

-----------------------------------------------------------------------------
(* Management notes *)

(* Role, account, team and TEAM scope are changed by the employee services. *)
Restand(p, s) ==
  /\ standing[p] # s
  /\ standing' = [standing EXCEPT ![p] = s]
  /\ UNCHANGED <<asked, thread, message, inbox, memo, talk>>

(* canReadEmployee: scope is the actor's grant for the one team there is. *)
CanReadEmployee(c, s) == c.role = "SUPER_ADMIN" \/ (c.role = "ADMIN" /\ c.scope /\ standing[s].inTeam)

CanCreate(c, s) ==
  /\ CanReadEmployee(c, s)
  /\ standing[s].role # "SUPER_ADMIN"
  /\ c.role = "ADMIN" => standing[s].role = "EMPLOYEE"

CanRead(c, n) ==
  /\ c.actor # memo[n].subject
  /\ c.role # "EMPLOYEE"
  /\ CanReadEmployee(c, memo[n].subject)
  /\ c.actor = memo[n].author \/ (memo[n].visibility = "shared_upward" /\ c.role = "SUPER_ADMIN")

CanArchive(c, n) == CanRead(c, n) /\ (c.actor = memo[n].author \/ c.role = "SUPER_ADMIN")

(* currentActor: the role, and then the grants; then the subject of the note. *)
ReadAuthor(x, p, s, v) ==
  /\ standing[p].active
  /\ StartTalk(x, [op |-> "createNote", subject |-> s, visibility |-> v,
                   actor |-> p, role |-> standing[p].role, scope |-> FALSE, read |-> "actor"])
  /\ UNCHANGED <<asked, thread, message, inbox, standing, memo>>

ReadArchiver(x, p, n) ==
  /\ standing[p].active /\ standing[p].role # "EMPLOYEE"
  /\ StartTalk(x, [op |-> "archiveNote", row |-> n, fresh |-> TRUE,
                   actor |-> p, role |-> standing[p].role, scope |-> FALSE, read |-> "actor"])
  /\ UNCHANGED <<asked, thread, message, inbox, standing, memo>>

ReadScopes(x) ==
  /\ talk[x].op \in {"createNote", "archiveNote"} /\ talk[x].read = "actor"
  /\ talk' = [talk EXCEPT ![x].scope = standing[talk[x].actor].scope, ![x].read = "scopes"]
  /\ UNCHANGED <<asked, thread, message, inbox, standing, memo>>

ReadSubject(x) ==
  /\ talk[x].op \in {"createNote", "archiveNote"} /\ talk[x].read = "scopes"
  /\ talk[x].op = "createNote" => CanCreate(talk[x], talk[x].subject)
  /\ talk[x].op = "archiveNote" =>
       memo[talk[x].row] # NoMemo /\ ~memo[talk[x].row].archived /\ CanArchive(talk[x], talk[x].row)
  /\ talk' = [talk EXCEPT ![x].read = "subject"]
  /\ UNCHANGED <<asked, thread, message, inbox, standing, memo>>

CreateNote(x, n) ==
  /\ talk[x].op = "createNote" /\ talk[x].read = "subject" /\ memo[n] = NoMemo
  /\ memo' = [memo EXCEPT ![n] = [subject |-> talk[x].subject, author |-> talk[x].actor,
                                  visibility |-> talk[x].visibility, archived |-> FALSE]]
  /\ EndTalk(x, n)
  /\ UNCHANGED <<asked, thread, message, inbox, standing>>

ArchiveManagementNote(x) ==
  LET n == talk[x].row IN
  /\ talk[x].op = "archiveNote" /\ talk[x].read = "subject" /\ talk[x].fresh /\ ~memo[n].archived
  /\ memo' = [memo EXCEPT ![n].archived = TRUE]
  /\ EndTalk(x, n)
  /\ UNCHANGED <<asked, thread, message, inbox, standing>>

(* listForSubject and listAuthoredByActor, for an actor c as it was read. *)
NotesAbout(c, s) == {n \in Memo : memo[n] # NoMemo /\ memo[n].subject = s /\ CanRead(c, n)}
NotesBy(c) == {n \in Memo : memo[n] # NoMemo /\ memo[n].author = c.actor /\ CanRead(c, n)}
CountVisible(c, s) == Cardinality({n \in NotesAbout(c, s) : ~memo[n].archived})

-----------------------------------------------------------------------------
ConversationsInit ==
  /\ asked = [r \in ReplacementRequest |-> NoAsk]
  /\ thread = {}
  /\ message = [m \in Message |-> NoMessage]
  /\ inbox = [n \in Message \X Person |-> NoRow]
  /\ standing \in [Person -> {[role |-> role, active |-> TRUE, inTeam |-> TRUE, scope |-> role = "ADMIN"] : role \in RoleOf}]
  /\ memo = [n \in Memo |-> NoMemo]
  /\ talk = [x \in Talk |-> NoTalk]

Discuss ==
  \/ \E r \in ReplacementRequest, p \in Person, nominee \in Person \cup {NoPerson} : Ask(r, p, nominee)
  \/ \E r \in ReplacementRequest, nominee \in Person \cup {NoPerson} : Edit(r, nominee)
  \/ \E r \in ReplacementRequest, selected \in Person \cup {NoPerson} : Decide(r, selected)
  \/ \E x \in Talk :
       \/ \E p \in Person, r \in ReplacementRequest : BeginPost(x, p, r)
       \/ LockParent(x)
       \/ \E m \in Message : Post(x, m)
       \/ \E p \in Person, m \in Message : BeginArchiveMessage(x, p, m)
       \/ ArchiveMessage(x)

Receive ==
  \/ \E x \in Talk, p \in Person, m \in Message, column \in {"read", "archived"}, value \in BOOLEAN :
       BeginMark(x, p, m, column, value)
  \/ \E x \in Talk : Mark(x)
  \/ \E p \in Person : MarkAllRead(p)

Annotate ==
  \/ \E p \in Person, s \in [role : RoleOf, active : BOOLEAN, inTeam : BOOLEAN, scope : BOOLEAN] : Restand(p, s)
  \/ \E x \in Talk, p \in Person, s \in Person, v \in {"private_to_author", "shared_upward"} :
       ReadAuthor(x, p, s, v)
  \/ \E x \in Talk, p \in Person, n \in Memo : ReadArchiver(x, p, n)
  \/ \E x \in Talk : ReadScopes(x)
  \/ \E x \in Talk : ReadSubject(x)
  \/ \E x \in Talk, n \in Memo : CreateNote(x, n)
  \/ \E x \in Talk : ArchiveManagementNote(x)

ConversationsNext == Discuss \/ Receive \/ Annotate \/ \E x \in Talk : Refused(x)

ConversationsSpec == ConversationsInit /\ [][ConversationsNext]_conversationVars

-----------------------------------------------------------------------------
(* Of a request a, and a message whose author read its version asOf. *)
MustHear(a, asOf, p) ==
  \/ p = a.requester
  \/ p = a.nominated /\ asOf >= a.since
  \/ p = a.selected /\ asOf = a.version

MayHear(a, asOf, p) ==
  \/ p \in {a.requester, a.nominated, a.selected}
  \/ p \in a.former /\ asOf < a.since

(***************************************************************************)
(* While the request is edited and decided between a post's reading of the *)
(* participants and its write: the requester has been notified of every    *)
(* message of the others; the nominee of every one whose author read the   *)
(* request after the nomination, the selected employee of every one whose  *)
(* author read the decision.  Whoever else has a notification was the      *)
(* nominee before, and its author read the request before the present one  *)
(* was named.  Nobody's marking or failed call takes a message or its      *)
(* notification away.                                                      *)
(***************************************************************************)
EveryoneHasHeard ==
  \A m \in Message : message[m] # NoMessage =>
    /\ message[m].in \in thread
    /\ \A p \in Person \ {message[m].author} :
         /\ MustHear(asked[message[m].in], message[m].asOf, p) => inbox[<<m, p>>] # NoRow
         /\ inbox[<<m, p>>] # NoRow => MayHear(asked[message[m].in], message[m].asOf, p)

=============================================================================
