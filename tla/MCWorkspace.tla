----------------------------- MODULE MCWorkspace -----------------------------
(***************************************************************************)
(* Components that share no state, explored one at a time: slice, chosen   *)
(* at the start, says which, and with which inputs.  What a slice leaves   *)
(* out is refused after the step, never assumed of a state.                *)
(***************************************************************************)
EXTENDS Evidence, Operations, Conversations, Organisation, Reporting, Migrations, Gates, Screens, TLC

VARIABLE slice

\* Evidence, once with overlapping submissions and once with overlapping uploads.
NoUploads == \A f \in EFile : efile'[f] = NoEFile
PlainSubmissions ==
  /\ \A s \in Submission : submission'[s] # NoSubmission => submission'[s].key = "no key" /\ submission'[s].kind = "other"
  /\ \A s, o \in Submission : submission'[s] # NoSubmission /\ submission'[o] # NoSubmission => s = o
OneItem == \A i, j \in Item : item'[i] # NoItem /\ item'[j] # NoItem => i = j
EvidenceSlices == {"submissions", "uploads"}
EvidenceStep ==
  /\ slice \in EvidenceSlices /\ EvidenceNext
  /\ slice = "submissions" => NoUploads /\ \A i \in Item : item'[i] # NoItem => item'[i].text = 0
  /\ slice = "uploads" => PlainSubmissions /\ OneItem

\* Operations: the directory of clients and projects, what is attached, the notes.
MCOwnedBy == [t \in Project \cup Location |-> CHOOSE c \in Client : TRUE]
Calling == {x \in Call : call'[x] # NoOpCall}
OnlyCalls(ops) == \A x \in Calling : call'[x].op \in ops
NoneOf(kind) == \A t \in Target : t[1] = kind => site'[t] = NoSite
AsCreated == \A t \in Target : site'[t].details # "b"
StillOpen == \A t \in Target : t[1] = "PROJECT" => site'[t].status \notin {"ACTIVE", "COMPLETED"}
OperationsSlices == {"directory", "attachments", "notes"}
OperationsStep ==
  /\ slice \in OperationsSlices /\ OperationsNext
  /\ slice = "directory" => OnlyCalls({"create", "update"}) /\ NoneOf("LOCATION") /\ StillOpen
  /\ slice = "attachments" =>
       /\ OnlyCalls({"create", "attach", "detach"}) /\ AsCreated /\ StillOpen
       /\ \A x, y \in Calling : x = y
       /\ Cardinality({s \in Slot : slot'[s] # "NONE"}) <= 2
  /\ slice = "notes" =>
       /\ OnlyCalls({"create", "addNote", "editNote", "archiveNote"}) /\ AsCreated
       /\ NoneOf("PROJECT") /\ NoneOf("LOCATION")
       /\ \A n \in OpNote : note'[n] # NoNote => Len(note'[n].kept) <= 2

\* Conversations: threads, inboxes, management notes.
Talking == {x \in Talk : talk'[x] # NoTalk}
OnlyTalk(ops) == \A x \in Talking : talk'[x].op \in ops
Alone == \A x, y \in Talking : x = y
Plain == [role |-> "EMPLOYEE", active |-> TRUE, inTeam |-> TRUE, scope |-> FALSE]
Standings ==
  {Plain, [Plain EXCEPT !.active = FALSE], [Plain EXCEPT !.role = "SUPER_ADMIN"]} \cup
  {[Plain EXCEPT !.role = "ADMIN", !.scope = scope] : scope \in BOOLEAN}
Staff ==  \* one at a time has a role, or has lost the account
  /\ \A p \in Person : standing[p] \in Standings
  /\ Cardinality({p \in Person : standing[p] # Plain}) <= 1
AllPlain == \A p \in Person : standing[p] = Plain
\* People are interchangeable: First asks or is written about, Second is picked first.
First == CHOOSE p \in Person : TRUE
Second == CHOOSE p \in Person \ {First} : TRUE
Cast ==
  /\ \A r \in ReplacementRequest : asked'[r] # NoAsk =>
       /\ asked'[r].requester = First
       /\ asked'[r].version = 1 => asked'[r].nominated \in {NoPerson, Second}
  /\ \A x \in Talking : talk'[x].op = "createNote" => talk'[x].subject = First
ConversationSlices == {"threads", "inboxes", "management notes"}
TalkFails == \E x \in Talk : Refused(x)
ConversationStep ==
  \/ slice = "threads" /\ (Discuss \/ TalkFails) /\ OnlyTalk({"post", "archiveMessage"}) /\ Cast
  \/ /\ slice = "inboxes" /\ (Discuss \/ Receive \/ TalkFails)
     /\ OnlyTalk({"post", "mark"}) /\ Cast /\ (\A x \in Talking : talk'[x].op = "post" => Alone)
     /\ \A r \in ReplacementRequest : asked'[r] # NoAsk => asked'[r].nominated = Second /\ asked'[r].status # "APPROVED"
  \/ /\ slice = "management notes" /\ (Annotate \/ TalkFails) /\ Alone /\ Staff' /\ Cast
     /\ standing' # standing => Talking # {}

\* Organisation: names in the catalogue; members with one entry of each kind.
MCKindOf == [e \in Entry |-> CASE e = "team-a" -> "team" [] e = "skill-s" -> "skill" [] OTHER -> "designation"]
CalledFor == {x \in OrgCall : orgCall'[x] # NoOrgCall}
OneEach ==
  /\ \A kind \in EntryKind : Cardinality({e \in EntriesOf(kind) : entry'[e] # NoEntry}) <= 1
  /\ \A e \in Entry : entry'[e] # NoEntry => entry'[e].name = "x"
Complete == \A kind \in EntryKind : \E e \in EntriesOf(kind) : entry[e] # NoEntry
Moved ==  \* a skill, a grant or the profile away from its start
  << \E m \in Member, e \in EntriesOf("skill") : recorded[m][e] # Missing,
     \E m \in Member, e \in EntriesOf("team") : teamGrant[m][e] # Missing,
     \E m \in Member : member[m].team # NoOne \/ member[m].designation # NoOne >>
OrganisationSlices == {"names", "members"}
OrganisationStep ==
  /\ slice \in OrganisationSlices /\ OrganisationNext
  /\ slice = "names" => \A x \in CalledFor : orgCall'[x].target[1] = "entry" /\ KindOf[orgCall'[x].target[2]] = "designation"
  /\ slice = "members" =>
       /\ OneEach
       /\ \A x \in CalledFor : orgCall'[x].op # "rename" /\ (orgCall'[x].op = "create" => orgCall'[x].to = "x" /\ CalledFor = {x})
       /\ Complete \/ \A x \in CalledFor : orgCall'[x].op = "create"
       /\ Cardinality({orgCall'[x].target : x \in CalledFor}) <= 1
       /\ Cardinality({field \in 1..3 : Moved[field]'}) <= 1

\* Reports: the pages of one, then a file asked for from its first page.
MCAskedQuery ==
  { <<>>, [page |-> 2], [page |-> 4], [month |-> 1], [from |-> 0, to |-> 1], [from |-> 3, to |-> 2],
    [from |-> 0, to |-> 4], [date |-> 2], [date |-> 1, start |-> 8, end |-> 12], [start |-> 12, end |-> 8],
    [client |-> 1] }
Ended == {"delivered", "refused", "failed"}
ReportSlices == {"pages", "files"}
ReportStep ==
  /\ slice \in ReportSlices /\ ReportingNext
  /\ slice = "pages" =>
       /\ export' = NoExport /\ today' = today
       /\ load' # NoLoad => DOMAIN load'.query \subseteq {"page", "from", "to"}
  /\ slice = "files" =>
       /\ stock' >= 2
       /\ load' # NoLoad => load'.request.page = 1 /\ load'.request.key # "planning-unpublished"
       /\ stock' # stock \/ reader' # reader => export # NoExport /\ export.stage \notin Ended
       /\ export' # NoExport => load' = NoLoad
       /\ export'.stage = "asked" => export'.link.linked = view'.shown
       /\ export.stage \in Ended => today' = today

\* The scripts: the migration tool, a gate's runner, the system lock.
MCLockStep == <<"integration", "safe-build">>

\* The browser: two exchanges at once, three versions, access that moves.
OneExchange == \A t, u \in Task : task'[t] # NoJob /\ task'[u] # NoJob => t = u
OnlyDialogs(kinds) == dialog'.kind \in kinds \cup {"none"}
ScreenSlices == {"answers", "versions", "access", "documents"}
ScreenStep ==
  /\ slice \in ScreenSlices /\ ScreensNext
  /\ slice = "answers" => OnlyDialogs({"edit", "settings", "new"}) /\ Len(history') <= 2
  /\ slice = "versions" => OneExchange /\ OnlyDialogs({"editLog", "restore"})
  /\ slice = "access" => OneExchange /\ OnlyDialogs({"upload", "archive"}) /\ Len(history') <= 2
  /\ slice = "documents" => OneExchange /\ Len(history') <= 2
  /\ allowed' # allowed => slice = "access" /\ allowed = "edit"

Others(mine) ==
  /\ mine # "evidence" => UNCHANGED evidenceVars
  /\ mine # "operations" => UNCHANGED operationsVars
  /\ mine # "conversations" => UNCHANGED conversationVars
  /\ mine # "organisation" => UNCHANGED organisationVars
  /\ mine # "reports" => UNCHANGED reportingVars
  /\ mine # "migrations" => UNCHANGED migrationVars
  /\ mine # "gates" => UNCHANGED gateVars
  /\ mine # "screens" => UNCHANGED screenVars

MCInit ==
  /\ slice \in EvidenceSlices \cup OperationsSlices \cup ConversationSlices \cup OrganisationSlices \cup
               ReportSlices \cup ScreenSlices \cup {"migrations", "runner", "lock"}
  /\ EvidenceInit /\ OperationsInit /\ ConversationsInit
  /\ IF slice = "management notes" THEN Staff ELSE AllPlain
  /\ OrganisationInit /\ ReportingInit /\ MigrationsInit /\ GatesInit /\ ScreensInit
  /\ slice \notin ReportSlices => today = 0 /\ stock = 0
  /\ slice = "pages" => today = 1
  /\ slice = "files" => stock >= 2
  /\ slice # "migrations" => schema = 0 /\ ledger = Absent
  /\ IF slice = "documents" THEN tab.screen = "documents"
     ELSE IF slice = "answers" THEN tab.screen # "documents"
     ELSE tab.screen = "ticket"

MCNext ==
  /\ UNCHANGED slice
  /\ \/ EvidenceStep /\ Others("evidence")
     \/ OperationsStep /\ Others("operations")
     \/ ConversationStep /\ Others("conversations")
     \/ OrganisationStep /\ Others("organisation")
     \/ ReportStep /\ Others("reports")
     \/ slice = "migrations" /\ MigrationsNext /\ Others("migrations")
     \/ slice = "runner" /\ RunnerNext /\ Others("gates")
     \/ slice = "lock" /\ LockNext /\ Others("gates")
     \/ ScreenStep /\ Others("screens")

mcVars == <<slice, evidenceVars, operationsVars, conversationVars, organisationVars,
            reportingVars, migrationVars, gateVars, screenVars>>
MCSpec == MCInit /\ [][MCNext]_mcVars

\* Slices share the model values of their sets: a1 and a2, b1 and b2 are interchangeable in each.
Symmetry == Permutations(EFile) \cup Permutations(Item)
=============================================================================
