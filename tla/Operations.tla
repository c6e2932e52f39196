----------------------------- MODULE Operations -----------------------------
(***************************************************************************)
(* The operations service: clients with their projects and locations, what *)
(* is attached to them (contacts, requirements, assigned people, links,    *)
(* grants of an administrator) and the notes about them.  A call reads     *)
(* what it needs without locks, and opens its transaction only then; what  *)
(* it changes there is guarded by the version its screen has shown.  A     *)
(* version is modelled by a flag of the call, cleared when the row moves.  *)
(***************************************************************************)
EXTENDS Naturals, Sequences, FiniteSets

CONSTANTS
  Client, Project, Location,
  OwnedBy,             \* the client of a project or a location
  SuperAdmin, Admin,
  OpNote, Text,
  Call                 \* bound: calls in flight

ASSUME OperationsAssumption == OwnedBy \in [Project \cup Location -> Client]

Target == ({"CLIENT"} \X Client) \cup ({"PROJECT"} \X Project) \cup ({"LOCATION"} \X Location)
Actor == SuperAdmin \cup Admin

Unfinished == {"PLANNED", "ACTIVE", "ON_HOLD"}
Statuses(t) ==
  IF t[1] = "PROJECT" THEN Unfinished \cup {"COMPLETED", "ARCHIVED"} ELSE {"ACTIVE", "ARCHIVED"}

(* Rows that relate a target to something else, made live and closed again. *)
Supporting == {"CONTACT", "REQUIREMENT", "EMPLOYEE_RELATION"} \X Target
Link == {"LINK"} \X Project \X Location
Grant == {"GRANT"} \X Admin \X Target
Slot == Supporting \cup Link \cup Grant

VARIABLES
  site,  \* clients, projects, locations
  slot,  \* operational_contacts, ..., project_locations, admin_scope_grants
  note,  \* operational_notes with their operational_note_revisions
  call   \* the calls between their first read and their commit

operationsVars == <<site, slot, note, call>>

NoSite == [status |-> "NONE", details |-> "NONE"]
NoNote == [about |-> "none"]
NoOpCall == [op |-> "none"]

OperationsTypeOK ==
  /\ \A t \in Target : site[t] = NoSite \/ site[t] \in [status : Statuses(t), details : Text]
  /\ slot \in [Slot -> {"NONE", "LIVE", "CLOSED"}]
  /\ \A n \in OpNote : note[n] = NoNote \/
       note[n] \in [about : Target, author : Actor, text : Text, kept : Seq(Text), archived : BOOLEAN]

Known(t) == site[t] # NoSite
ClientFor(t) == <<"CLIENT", IF t[1] = "CLIENT" THEN t[2] ELSE OwnedBy[t[2]]>>

(* hasOperationalTargetScope, over the grants that are live. *)
Reaches(a, t) ==
  \/ a \in SuperAdmin
  \/ /\ a \in Admin
     /\ slot[<<"GRANT", a, t>>] = "LIVE" \/ slot[<<"GRANT", a, ClientFor(t)>>] = "LIVE"

InService(t) == site[ClientFor(t)].status # "ARCHIVED" /\ site[t].status # "ARCHIVED"

TargetsOf(s) ==
  CASE s \in Supporting -> {s[2]}
    [] s \in Link -> {<<"PROJECT", s[2]>>, <<"LOCATION", s[3]>>}
    [] s \in Grant -> {s[3]}

(* to: what the call writes; seen: what its screen showed of the row. *)
Begin(x, op, row, to, seen) ==
  /\ call[x] = NoOpCall
  /\ call' = [call EXCEPT ![x] = [op |-> op, row |-> row, to |-> to, seen |-> seen,
                                  fresh |-> TRUE, checked |-> op = "create", overtaken |-> FALSE]]
  /\ UNCHANGED <<site, slot, note>>

(* Mutant of Guarded: the version is not part of the WHERE clause. *)
UnguardedUpdate(x) == TRUE

Guarded(x) == call[x].fresh

(* What the call y has checked of other rows, a client's status or its      *)
(* projects, may have changed when r moves; the service does not notice.     *)
Overtakes(r, y) ==
  /\ call[y].checked /\ r \in Target /\ call[y].row \in Target
  /\ ClientFor(r) = ClientFor(call[y].row)

(* The call x commits and moves the version of row r. *)
Settle(x, r) ==
  call' = [y \in Call |->
    IF y = x \/ call[y] = NoOpCall THEN NoOpCall
    ELSE [call[y] EXCEPT !.fresh = @ /\ call[y].row # r, !.overtaken = @ \/ Overtakes(r, y)]]

(* The call ends in an error: a stale version, a conflict, a lost connection. *)
Fail(x) ==
  /\ call[x] # NoOpCall
  /\ call' = [call EXCEPT ![x] = NoOpCall]
  /\ UNCHANGED <<site, slot, note>>

-----------------------------------------------------------------------------
(* Clients, projects and locations *)

BeginCreate(x, a, t, status) ==
  /\ ~Known(t) /\ status \in Statuses(t)
  /\ t[1] = "LOCATION" \/ a \in SuperAdmin
  /\ t[1] # "PROJECT" => status \in {"ACTIVE"}
  /\ t[1] # "CLIENT" => /\ Known(ClientFor(t)) /\ Reaches(a, ClientFor(t))
                        /\ InService(ClientFor(t))
  /\ Begin(x, "create", t, status, NoSite)

CreateTarget(x, details) ==
  LET t == call[x].row IN
  /\ call[x].op = "create" /\ ~Known(t)
  /\ site' = [site EXCEPT ![t] = [status |-> call[x].to, details |-> details]]
  /\ Settle(x, t)
  /\ UNCHANGED <<slot, note>>

(* updateProject checks no status; the other two refuse an archived row. *)
BeginUpdate(x, a, t, details) ==
  /\ Known(t) /\ Reaches(a, t)
  /\ t[1] # "PROJECT" => site[t].status = "ACTIVE"
  /\ Begin(x, "update", t, [field |-> "details", value |-> details], site[t])

BeginSetStatus(x, a, t, status) ==
  /\ Known(t) /\ Reaches(a, t) /\ status \in Statuses(t)
  /\ Begin(x, "update", t, [field |-> "status", value |-> status], site[t])

ArchivesClient(x) == call[x].op = "update" /\ call[x].row[1] = "CLIENT" /\ call[x].to.value = "ARCHIVED"

(* Mutant of unfinishedProjectCount: work that is on hold is not counted. *)
UnfinishedButHeld(c) ==
  {t \in Target : t[1] = "PROJECT" /\ ClientFor(t) = c /\ site[t].status \in {"PLANNED", "ACTIVE"}}

UnfinishedProjects(c) ==
  {t \in Target : t[1] = "PROJECT" /\ ClientFor(t) = c /\ site[t].status \in Unfinished}

CountProjects(x) ==
  /\ ArchivesClient(x) /\ ~call[x].checked
  /\ UnfinishedProjects(call[x].row) = {}
  /\ call' = [call EXCEPT ![x].checked = TRUE]
  /\ UNCHANGED <<site, slot, note>>

UpdateTarget(x) ==
  LET t == call[x].row IN
  /\ call[x].op = "update" /\ Guarded(x)
  /\ ArchivesClient(x) => call[x].checked
  /\ site' = [site EXCEPT ![t][call[x].to.field] = call[x].to.value]
  /\ Settle(x, t)
  /\ UNCHANGED <<slot, note>>

-----------------------------------------------------------------------------
(* Contacts, requirements, assigned people, links and grants *)

BeginAttach(x, a, s) ==
  /\ \A t \in TargetsOf(s) : Known(t) /\ InService(t)
  /\ IF s \in Grant THEN a \in SuperAdmin ELSE \A t \in TargetsOf(s) : Reaches(a, t)
  /\ s \in Link => OwnedBy[s[2]] = OwnedBy[s[3]]
  /\ Begin(x, "attach", s, "LIVE", slot[s])

Attach(x) ==
  LET s == call[x].row IN
  /\ call[x].op = "attach" /\ slot[s] # "LIVE"
  /\ slot' = [slot EXCEPT ![s] = call[x].to]
  /\ Settle(x, s)
  /\ UNCHANGED <<site, note>>

BeginDetach(x, a, s) ==
  /\ slot[s] # "NONE"
  /\ IF s \in Grant THEN a \in SuperAdmin ELSE \A t \in TargetsOf(s) : Reaches(a, t)
  /\ Begin(x, "detach", s, "CLOSED", slot[s])

Detach(x) ==
  LET s == call[x].row IN
  /\ call[x].op = "detach" /\ Guarded(x)
  /\ s \in Supporting => slot[s] = "LIVE"
  /\ slot' = [slot EXCEPT ![s] = call[x].to]
  /\ Settle(x, s)
  /\ UNCHANGED <<site, note>>

-----------------------------------------------------------------------------
(* Notes: an edit keeps the text it replaces as a revision. *)

BeginNote(x, a, n, t, text) ==
  /\ note[n] = NoNote /\ Known(t) /\ Reaches(a, t) /\ InService(t)
  /\ Begin(x, "addNote", n, [about |-> t, author |-> a, text |-> text, kept |-> << >>, archived |-> FALSE], NoNote)

AddNote(x) ==
  LET n == call[x].row IN
  /\ call[x].op = "addNote" /\ note[n] = NoNote
  /\ note' = [note EXCEPT ![n] = call[x].to]
  /\ Settle(x, n)
  /\ UNCHANGED <<site, slot>>

BeginEdit(x, a, n, text) ==
  /\ note[n] # NoNote /\ ~note[n].archived
  /\ Reaches(a, note[n].about) /\ note[n].author = a
  /\ Begin(x, "editNote", n, text, note[n])

UpdateNote(x) ==
  LET n == call[x].row IN
  /\ call[x].op = "editNote" /\ ~note[n].archived /\ Guarded(x)
  /\ note' = [note EXCEPT ![n].kept = Append(@, note[n].text), ![n].text = call[x].to]
  /\ Settle(x, n)
  /\ UNCHANGED <<site, slot>>

BeginArchiveNote(x, a, n) ==
  /\ a \in SuperAdmin /\ note[n] # NoNote /\ ~note[n].archived
  /\ Begin(x, "archiveNote", n, TRUE, note[n])

ArchiveNote(x) ==
  LET n == call[x].row IN
  /\ call[x].op = "archiveNote" /\ ~note[n].archived /\ Guarded(x)
  /\ note' = [note EXCEPT ![n].archived = call[x].to]
  /\ Settle(x, n)
  /\ UNCHANGED <<site, slot>>

-----------------------------------------------------------------------------
OperationsInit ==
  /\ site = [t \in Target |-> NoSite]
  /\ slot = [s \in Slot |-> "NONE"]
  /\ note = [n \in OpNote |-> NoNote]
  /\ call = [x \in Call |-> NoOpCall]

BeginCall(x, a) ==
  \/ \E t \in Target, status \in Unfinished \cup {"COMPLETED", "ARCHIVED"} : BeginCreate(x, a, t, status)
  \/ \E t \in Target, details \in Text : BeginUpdate(x, a, t, details)
  \/ \E t \in Target, status \in Unfinished \cup {"COMPLETED", "ARCHIVED"} : BeginSetStatus(x, a, t, status)
  \/ \E s \in Slot : BeginAttach(x, a, s)
  \/ \E s \in Slot : BeginDetach(x, a, s)
  \/ \E n \in OpNote, t \in Target, text \in Text : BeginNote(x, a, n, t, text)
  \/ \E n \in OpNote, text \in Text : BeginEdit(x, a, n, text)
  \/ \E n \in OpNote : BeginArchiveNote(x, a, n)

OperationsNext ==
  \E x \in Call :
    \/ \E a \in Actor : BeginCall(x, a)
    \/ \E details \in Text : CreateTarget(x, details)
    \/ CountProjects(x)
    \/ UpdateTarget(x)
    \/ Attach(x)
    \/ Detach(x)
    \/ AddNote(x)
    \/ UpdateNote(x)
    \/ ArchiveNote(x)
    \/ Fail(x)

OperationsSpec == OperationsInit /\ [][OperationsNext]_operationsVars

-----------------------------------------------------------------------------
(***************************************************************************)
(* An edit replaces what its author has seen: a client, project, location  *)
(* or note that was changed, archived or reopened since the screen was     *)
(* read is not overwritten, and the text a note had is kept.               *)
(***************************************************************************)
EditsSeeWhatTheyReplace ==
  [][/\ \A t \in Target : Known(t) /\ site'[t] # site[t] =>
          \E x \in Call : /\ call[x] # NoOpCall /\ call'[x] = NoOpCall
                          /\ call[x].op = "update" /\ call[x].row = t /\ call[x].seen = site[t]
     /\ \A n \in OpNote : note[n] # NoNote /\ note'[n] # note[n] =>
          /\ \E x \in Call : /\ call[x] # NoOpCall /\ call'[x] = NoOpCall
                             /\ call[x].op \in {"editNote", "archiveNote"}
                             /\ call[x].row = n /\ call[x].seen = note[n]
          /\ ~note[n].archived
          /\ note'[n].kept \o <<note'[n].text>> \in
               {note[n].kept \o <<note[n].text>>, note[n].kept \o <<note[n].text, note'[n].text>>}]_operationsVars

(***************************************************************************)
(* Unfinished projects appear under an archived client only when somebody  *)
(* reopens one, or when the creation of a project and the archiving of its *)
(* client overlap: the service checks and writes without a lock.           *)
(***************************************************************************)
WorkUnderArchived ==
  {t \in Target : t[1] = "PROJECT" /\ site[t].status \in Unfinished /\ site[ClientFor(t)].status = "ARCHIVED"}

ClientClosesAlone ==
  [][~(WorkUnderArchived' \subseteq WorkUnderArchived) =>
       \E x \in Call :
         /\ call[x] # NoOpCall /\ call'[x] = NoOpCall
         /\ call[x].overtaken \/ (call[x].op = "update" /\ call[x].row[1] = "PROJECT")]_operationsVars
=============================================================================
