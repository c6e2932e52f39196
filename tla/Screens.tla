------------------------------ MODULE Screens ------------------------------
(***************************************************************************)
(* What a person edits in the browser while the record moves underneath:   *)
(* one ticket, the ticket workspace, a person's own documents, with their  *)
(* dialogs and forms.  A record is the sequence of its versions; a page    *)
(* shows readings of it, fetched in no particular order.  One dialog is in *)
(* play at a time: it is modal.                                            *)
(***************************************************************************)
EXTENDS Integers, Sequences

CONSTANTS MaxVersion, Task, NoTask

ASSUME ScreensAssumption == MaxVersion \in Nat \ {0} /\ NoTask \notin Task

VARIABLES history,   \* the versions of the record on the server
          allowed,  \* what the reader may do with it
          tab,      \* what the page holds of it
          dialog,    \* the dialog in play
          form,      \* the form in it, as last rendered
          task       \* commands and refreshes in flight

screenVars == <<history, allowed, tab, dialog, form, task>>

Screen == {"ticket", "workspace", "documents"}

\* Fields are mounted again when the record's version moves, when the log's
\* does, or never; the workspace's settings go with the section around them.
TicketDialogs == {"edit", "editLog", "upload", "archive", "restore"}
WorkspaceDialogs == {"settings", "new"}
DocumentDialogs == {"attach", "newItem"}
DialogsOf(screen) ==
  CASE screen = "ticket" -> TicketDialogs
    [] screen = "workspace" -> WorkspaceDialogs
    [] screen = "documents" -> DocumentDialogs

\* What a form can be used for once: it then shows what it made.
Creating == {"new", "newItem"}
MakesOne == Creating \cup {"attach"}


NoReading == [version |-> 0, may |-> "none"]
ClosedDialog ==
  [kind |-> "none", open |-> FALSE, closing |-> FALSE, exit |-> FALSE, queued |-> FALSE, wish |-> "stay"]
NoForm == [mounted |-> FALSE]
NoJob == [step |-> "idle"]

ReadNow == [version |-> Len(history), may |-> allowed]

ScreensInit ==
  /\ history = << [log |-> 0, archived |-> FALSE] >>
  /\ allowed = "edit"
  /\ \E screen \in Screen :
       tab = [screen |-> screen, initial |-> ReadNow,
               latest |-> IF screen = "workspace" THEN ReadNow ELSE NoReading,
               unavailable |-> FALSE, refreshing |-> FALSE, routed |-> FALSE]
  /\ dialog = ClosedDialog /\ form = NoForm
  /\ task = [t \in Task |-> NoJob]

-----------------------------------------------------------------------------
(* Rendering *)

\* The newest of what the router and the refreshes delivered.
ShownOn(p) == IF p.latest.version >= p.initial.version THEN p.latest ELSE p.initial

OfferedOn(p, kind) ==
  /\ ~p.unavailable
  /\ ShownOn(p).may = "edit"
  /\ kind \in TicketDialogs \cup {"attach"} => (history[ShownOn(p).version].archived <=> kind = "restore")

\* Mutant of FieldsKey: fields stay mounted while the record moves.
OneKey(kind, version) == 0

FieldsKey(kind, version) ==
  CASE kind = "edit" -> version
    [] kind = "editLog" -> history[version].log
    [] OTHER -> 0

SectionKey(kind, version) == IF kind = "settings" THEN version ELSE 0

Fresh(version) ==
  [mounted |-> TRUE, typed |-> FALSE, filled |-> version, pending |-> NoTask, conflict |-> FALSE, created |-> FALSE]

(* The page becomes p and the form in the dialog f: a dialog no longer     *)
(* offered or in a new section is unmounted, fields with a new key are     *)
(* filled again.                                                           *)
Render(p, f) ==
  LET version == ShownOn(p).version IN
  /\ tab' = p
  /\ IF dialog.kind = "none" THEN UNCHANGED <<dialog, form>>
     ELSE IF \/ ~OfferedOn(p, dialog.kind)
             \/ SectionKey(dialog.kind, version) # SectionKey(dialog.kind, ShownOn(tab).version)
     THEN dialog' = ClosedDialog /\ form' = NoForm
     ELSE /\ UNCHANGED dialog
          /\ form' = IF f.mounted /\ FieldsKey(dialog.kind, f.filled) # FieldsKey(dialog.kind, version)
                     THEN [f EXCEPT !.filled = version, !.typed = FALSE]
                     ELSE f

\* The form after the task it waits for, if it is this one, has ended.
Released(t) == IF form.mounted /\ form.pending = t THEN [form EXCEPT !.pending = NoTask] ELSE form

-----------------------------------------------------------------------------
(* The dialog *)

(* Mutant of Show: the previous exit keeps its listeners and its timer.    *)
ShowOverExit(kind) ==
  /\ OfferedOn(tab, kind)
  /\ ~dialog.open \/ (dialog.kind = kind /\ dialog.closing)
  /\ dialog' = [kind |-> kind, open |-> TRUE, closing |-> FALSE, exit |-> dialog.exit,
                queued |-> dialog.queued /\ dialog.kind = kind, wish |-> "stay"]
  /\ form' = IF dialog.open THEN form ELSE Fresh(ShownOn(tab).version)
  /\ UNCHANGED <<history, allowed, tab, task>>

(* The trigger is activated, possibly before the previous exit has ended.  *)
Show(kind) ==
  /\ OfferedOn(tab, kind)
  /\ ~dialog.open \/ (dialog.kind = kind /\ dialog.closing)
  /\ dialog' = [kind |-> kind, open |-> TRUE, closing |-> FALSE, exit |-> FALSE,
                queued |-> dialog.queued /\ dialog.kind = kind, wish |-> "stay"]
  /\ form' = IF dialog.open THEN form ELSE Fresh(ShownOn(tab).version)
  /\ UNCHANGED <<history, allowed, tab, task>>

\* React unmounts the task; closing the element queues its close event.
Finish ==
  /\ dialog' = [dialog EXCEPT !.open = FALSE, !.closing = FALSE, !.exit = FALSE, !.queued = TRUE]
  /\ form' = NoForm

(* Escape, the close button or the backdrop: the exit is animated, if it   *)
(* can be, and a second request during it changes nothing.                 *)
Dismiss ==
  /\ dialog.open /\ ~dialog.closing
  /\ dialog' = [dialog EXCEPT !.closing = TRUE, !.exit = TRUE, !.wish = "leave"]
  /\ UNCHANGED <<history, allowed, tab, form, task>>

\* Reduced motion, a link followed, or the browser closes the element itself.
DismissAtOnce ==
  /\ dialog.open
  /\ dialog' = [dialog EXCEPT !.open = FALSE, !.closing = FALSE, !.exit = FALSE, !.queued = TRUE, !.wish = "leave"]
  /\ form' = NoForm
  /\ UNCHANGED <<history, allowed, tab, task>>

\* The animation ends or is cancelled, or the timer that stands in for it fires.
ExitEnds == dialog.exit /\ Finish /\ UNCHANGED <<history, allowed, tab, task>>

\* The close event of an earlier closing, dispatched before any later keystroke.
CloseEvent ==
  /\ dialog.queued
  /\ IF dialog.open THEN Finish ELSE dialog' = ClosedDialog /\ UNCHANGED form
  /\ UNCHANGED <<history, allowed, tab, task>>

-----------------------------------------------------------------------------
(* The form *)

Ready == form.mounted /\ form.pending = NoTask /\ ~form.created

Type ==
  /\ Ready /\ ~dialog.queued /\ dialog.kind \notin {"archive", "restore"}
  /\ form' = [form EXCEPT !.typed = TRUE]
  /\ UNCHANGED <<history, allowed, tab, dialog, task>>

(* A command carries the version on the page when it is sent.              *)
Send(t) ==
  /\ Ready /\ task[t] = NoJob
  /\ dialog.kind \in {"upload", "attach"} => form.typed
  /\ task' = [task EXCEPT ![t] = [step |-> "sent", kind |-> dialog.kind,
                                  version |-> ShownOn(tab).version, filled |-> form.filled]]
  /\ form' = [form EXCEPT !.pending = t, !.conflict = FALSE]
  /\ UNCHANGED <<history, allowed, tab, dialog>>

Changed(kind) ==
  LET now == history[Len(history)] IN
  CASE kind = "editLog" -> [now EXCEPT !.log = @ + 1]
    [] kind = "archive" -> [now EXCEPT !.archived = TRUE]
    [] kind = "restore" -> [now EXCEPT !.archived = FALSE]
    [] OTHER -> now

Takes(command) ==
  /\ allowed = "edit"
  /\ command.kind # "newItem" => command.version = Len(history)
  /\ command.kind \in TicketDialogs \cup {"attach"} => (history[Len(history)].archived <=> command.kind = "restore")

(* The server takes the command or answers why not; what is created leaves *)
(* the version of its dashboard, or of the other documents, alone.         *)
Judge(t) ==
  /\ task[t].step = "sent"
  /\ \/ /\ Takes(task[t])
        /\ \/ task[t].kind \in Creating /\ UNCHANGED history
           \/ /\ task[t].kind \notin Creating /\ Len(history) < MaxVersion
              /\ history' = Append(history, Changed(task[t].kind))
        /\ task' = [task EXCEPT ![t] = [step |-> "saved"]]
     \/ /\ ~Takes(task[t])
        /\ task' = [task EXCEPT ![t] = [step |-> IF allowed = "edit" THEN "conflict" ELSE "refused"]]
        /\ UNCHANGED history
  /\ UNCHANGED <<allowed, tab, dialog, form>>

\* Saved: the form waits on, for the page to be read again, or gives way to
\* what it made; documents are read again by the router alone.
AnswerSaved(t) ==
  /\ task[t].step = "saved"
  /\ task' = [task EXCEPT ![t] = IF tab.screen = "documents" THEN NoJob ELSE [step |-> "reading", saved |-> TRUE]]
  /\ tab' = [tab EXCEPT !.refreshing = tab.screen = "ticket", !.routed = @ \/ tab.screen = "documents"]
  /\ form' = IF form.mounted /\ form.pending = t /\ dialog.kind \in MakesOne
             THEN [form EXCEPT !.created = TRUE, !.typed = FALSE, !.pending = NoTask]
             ELSE form
  /\ UNCHANGED <<history, allowed, dialog>>

CreateAnother ==
  /\ form.mounted /\ form.created /\ dialog.kind \in Creating
  /\ form' = Fresh(ShownOn(tab).version)
  /\ UNCHANGED <<history, allowed, tab, dialog, task>>

\* Refused, stale, or no answer at all: what was typed stays in the form.
AnswerFailed(t) ==
  /\ task[t].step \in {"sent", "saved", "conflict", "refused"}
  /\ form' = IF task[t].step = "conflict" /\ form.mounted /\ form.pending = t
             THEN [form EXCEPT !.pending = NoTask, !.conflict = TRUE]
             ELSE Released(t)
  /\ task' = [task EXCEPT ![t] = NoJob]
  /\ UNCHANGED <<history, allowed, tab, dialog>>

-----------------------------------------------------------------------------
(* Refreshes *)

\* The button on the page, out of reach behind an open dialog.
Refresh(t) ==
  /\ tab.screen # "documents" /\ task[t] = NoJob /\ ~dialog.open /\ ~tab.refreshing /\ ~tab.unavailable
  /\ task' = [task EXCEPT ![t] = [step |-> "reading", saved |-> FALSE]]
  /\ tab' = [tab EXCEPT !.refreshing = tab.screen = "ticket"]
  /\ UNCHANGED <<history, allowed, dialog, form>>

\* The button under a conflict.
Reload(t) ==
  /\ tab.screen # "documents" /\ task[t] = NoJob /\ Ready /\ form.conflict
  /\ task' = [task EXCEPT ![t] = [step |-> "reading", saved |-> FALSE]]
  /\ form' = [form EXCEPT !.pending = t]
  /\ tab' = [tab EXCEPT !.refreshing = tab.screen = "ticket"]
  /\ UNCHANGED <<history, allowed, dialog>>

ReadRecord(t) ==
  /\ task[t].step = "reading"
  /\ task' = [task EXCEPT ![t] = [step |-> "read", saved |-> task[t].saved, reading |-> ReadNow]]
  /\ UNCHANGED <<history, allowed, tab, dialog, form>>

\* A chosen file is cleared once its upload is known.
Settled(t) ==
  IF form.mounted /\ form.pending = t
  THEN [form EXCEPT !.pending = NoTask, !.conflict = FALSE, !.typed = @ /\ ~(task[t].saved /\ dialog.kind = "upload")]
  ELSE form

(* A reading arrives; one that was overtaken by a later one arrives too.   *)
Arrive(t) ==
  LET reading == task[t].reading IN
  /\ task[t].step = "read"
  /\ reading.may # "none" \/ tab.screen = "ticket"
  /\ IF reading.may = "none"
     THEN Render([tab EXCEPT !.unavailable = TRUE, !.refreshing = FALSE, !.routed = TRUE], Settled(t))
     ELSE Render([tab EXCEPT !.latest = reading, !.unavailable = FALSE, !.refreshing = FALSE,
                              !.routed = tab.screen = "ticket"], Settled(t))
  /\ task' = [task EXCEPT ![t] = NoJob]
  /\ UNCHANGED <<history, allowed>>

\* The reading is lost, or refused to the workspace: the page stays as it was.
Miss(t) ==
  /\ task[t].step \in {"reading", "read"}
  /\ form' = IF task[t].saved THEN Settled(t) ELSE Released(t)
  /\ tab' = [tab EXCEPT !.refreshing = FALSE]
  /\ task' = [task EXCEPT ![t] = NoJob]
  /\ UNCHANGED <<history, allowed, dialog>>

(* The router delivers the page again.                                     *)
RouterDelivers ==
  /\ tab.routed
  /\ IF allowed = "none"
     THEN Render([tab EXCEPT !.unavailable = TRUE, !.routed = FALSE], form)
     ELSE Render([tab EXCEPT !.initial = ReadNow, !.routed = FALSE], form)
  /\ UNCHANGED <<history, allowed, task>>

-----------------------------------------------------------------------------
(* Everybody else *)

SomeoneChanges(kind) ==
  /\ Len(history) < MaxVersion
  /\ history[Len(history)].archived <=> kind = "restore"
  /\ history' = Append(history, Changed(kind))
  /\ UNCHANGED <<allowed, tab, dialog, form, task>>

AccessMoves ==
  /\ allowed' \in {"edit", "view", "none"} \ {allowed}
  /\ UNCHANGED <<history, tab, dialog, form, task>>

Dialogue ==
  \/ \E kind \in DialogsOf(tab.screen) : Show(kind)
  \/ Dismiss \/ DismissAtOnce \/ ExitEnds \/ CloseEvent \/ Type \/ CreateAnother

Exchange ==
  \E t \in Task :
    \/ Send(t) \/ Judge(t) \/ AnswerSaved(t) \/ AnswerFailed(t)
    \/ Refresh(t) \/ Reload(t) \/ ReadRecord(t) \/ Arrive(t) \/ Miss(t)

ScreensNext ==
  \/ Dialogue \/ Exchange \/ RouterDelivers \/ AccessMoves
  \/ \E kind \in {"edit", "editLog", "archive", "restore"} : SomeoneChanges(kind)

ScreensSpec == ScreensInit /\ [][ScreensNext]_screenVars

-----------------------------------------------------------------------------
(* Properties *)

\* What the fields of a dialog are filled from.
FilledWith(kind, version) ==
  IF kind = "editLog" THEN history[version].log
  ELSE IF kind \in {"edit", "settings"} THEN version ELSE 0

UsersOwn == dialog'.wish = "leave"
Overtaken == FilledWith(dialog.kind, form.filled) # FilledWith(dialog.kind, ShownOn(tab').version)
NoLongerOffered(kind) == ~OfferedOn(tab', kind)
Done ==
  /\ form.pending # NoTask
  /\ \/ task[form.pending].step = "saved"
     \/ task[form.pending].step \in {"reading", "read"} /\ task[form.pending].saved

(***************************************************************************)
(* Typed work is lost only to its author's own dismissal that was not      *)
(* taken back, to a record that moved, to access that went, or because it  *)
(* was saved: never to a leftover of an earlier exit or an answer meant    *)
(* for another form.  And no command changes a version of the record other *)
(* than the one its fields were filled from.                               *)
(***************************************************************************)
TypedWorkIsSafe ==
  [][/\ form.mounted /\ form.typed /\ ~(form'.mounted /\ form'.typed) =>
          UsersOwn \/ Overtaken \/ NoLongerOffered(dialog.kind) \/ Done
     /\ \A t \in Task :
          task[t].step # "sent" /\ task'[t].step = "sent" =>
            FilledWith(task'[t].kind, task'[t].filled) = FilledWith(task'[t].kind, task'[t].version)]_screenVars
=============================================================================
