# ScopeIs: verification of the team-management system

ScopeIs is a Next.js server over one PostgreSQL database and one private file
store. A page or a server action parses a form and calls one operation of a service
under `src/src/modules/`. An operation that writes runs in a database transaction: it
checks what it reads, writes, appends audit rows and notifications, and commits. There
is no queue, no cache and no second server process. What is hard is therefore

* **transactions that interleave on shared rows.** At READ COMMITTED, which the code
  keeps except for the consistent reads of tickets, only row locks, advisory locks,
  unique indexes and version columns keep what a transaction has read true until it
  writes; several services read *before* their transaction or in statements of their own;
* **things outside the transaction**: files that are stored before their row, report
  files that are collected in steps, scripts that start processes and may be cancelled;
* **a browser that shows old versions**: forms filled from one version while the record
  moves, dialogs that close while they are animated.

This directory holds TLA+ modules of these parts, TLC runs on small instances, and
theorems proved by TLAPS for all instances.

## The system's parts

Paths are under `src/src/modules/` unless they begin with `scripts/`.

| component | state | operations that write | talks to | what is hard | what makes it correct |
|---|---|---|---|---|---|
| `scheduling` | `schedule_periods` (revisions of a client-month), `schedule_assignments` | create period, add/update/remove row, propose, return, publish, create revision, replacement effect | reads leave, bookings, directory; called by coverage | overlaps across clients, copies of published rows, publication replacing a revision, lock order | nobody double booked; one current and one editable revision; published history final |
| `leave` | `leave_requests`, one `leave_allowance_settings` row | submit, cancel, approve/reject, set allowance | reads published rows and bookings; asked by scheduling and bookings | decisions against publications, two decisions against one balance | no leave over published work; allowance honoured |
| `outsourcing` | `client_bookings` | create for a team, cancel | reads schedules and leave | all-or-none creation while schedules and leave move | a booking has its employee alone |
| `capabilities` | requirements of rows and sites, skill records of employees | add, archive, reactivate; carried along by revisions and replacements | called by scheduling | requirements change without moving the period's version, skill records at any time | every copy asks for what its source asks; published requirements are final, and warnings move only with the records |
| `coverage` | `replacement_requests` | create, edit, withdraw, decide | calls scheduling's replacement effect | stale anchors, duplicates, which revision to lock | one pending request per need; an approval applies to the work it was asked for |
| `operations` | clients, projects, locations, what is attached, notes | create, update, archive, reopen, attach, detach, edit notes | read by scheduling and bookings | reads before the transaction, archive against create | edits overwrite only what was seen; a client closes without unfinished projects unless calls overlap |
| `employees` | profiles, managers; catalogue of teams, designations, skills; grants | create, update, transfer, (de)activate, rename, assign | read by everyone | last super-administrator, manager cycles, names that differ in case | one super-administrator left, a forest of managers, unique names |
| `account-administration`, `auth` | users, credentials, sessions, attempt counters | create account, reset, sign in, change password | sessions checked by every service | lockout against reset, revoked sessions | a revoked session does nothing; a lock ends with its window |
| `tickets` | workspaces, members, boards, tickets, participants, files | create, edit, participants, attach, archive; snapshot reads | storage, notifications | access withdrawn between check and write; retried reads; storage before row, lost acknowledgements | what was permitted stays permitted until written; answers are current; a file whose uploader was told so stays readable |
| `evidence` | items, files, reviews | submit, replace, upload, archive, review | storage | storage against commit and its acknowledgement, repeated submission, a page read in two statements | one item per key, a file whose owner was told so stays readable, reviews describe what was seen |
| `notes`, `discussions`, `notifications` | threads, messages, inbox rows, management notes | post, archive, mark read, write notes | coverage's requests | participants read before the transaction, while nominees are replaced and requests decided | every participant hears of what was written since, nobody else but a nominee just replaced |
| `reporting`, `audit` | none of their own (audit rows are append-only) | export records an event | read everything | leave and schedule, rows and totals read apart, two authorizations, windows that move with the date | reports agree with the tables; a conflict they show is over; Next reaches every row; a file answers its page |
| browser (`tickets/*.tsx`, `shared/components`) | dialogs, forms, what a page shows | commands to services | tickets, evidence | refreshes out of order, animated exits | typed work is lost only with a reason; a command carries the version its fields came from |
| `scripts/` migrations | the migrator's ledger, the schema | reconcile, migrate | the database | overlapping operators, crashes between any two statements | a ledger that counts names the schema |
| `scripts/` gates | processes, directories, a disposable database | browser runner, system lock | – | cancellation at any step, stops and removals that fail, deadlines against graceful exits | nothing outlives the runner that reports success; green means done |
| `authorization` | none | – | asked by all | when a grant is read | in the components that ask |
| `maps`, `navigation`, seeds | none | – | read | – | – |

## Modules

| module | models | code |
|---|---|---|
| `Plans` | the tables that planning shares, their records, and the questions the services ask of them | schema, repositories |
| `Scheduling`, `Leave`, `Outsourcing`, `Directory` | one action per operation of each service; `Directory` is archiving and activation as planning sees them | the services of that name; `operations`, `employees` |
| `Workforce` | the four composed over one database, and their properties | – |
| `Capabilities` | requirements and skill records beside `Workforce`; its steps are steps of `Workforce` | `capabilities/service.ts`, `employees/employee-services.ts`, `operations/service.ts` |
| `Reports` | what the reports compute from these tables, and the leave report's two reads among commits | `reporting/repositories.ts`, `reporting/service.ts` |
| `Coverage` | replacement requests over `Workforce`: its replacement effect happens only through an approval | `coverage/service.ts` |
| `PlanningLocks` | the same operations one lock at a time, with deadlock detection; a commit must be a step of `Workforce` | the order of statements in all these services |
| `Accounts`, `People` | sign-in, sessions, account administration; profiles, roles and managers on top | `auth`, `account-administration`, `employees` |
| `Organisation` | catalogue names, assignments, team grants | `employees` |
| `Operations` | clients, projects, locations, attachments, notes | `operations` |
| `Conversations` | threads of requests that are edited and decided, inboxes, management notes | `discussions`, `notifications`, `notes`, `coverage/service.ts` |
| `Tickets` | commands, snapshot reads, uploads, withdrawals of access | `tickets` |
| `Evidence` | submissions, uploads, pages, reviews | `evidence` |
| `FileStore` | what private storage promises: the abstract specification that `Tickets` and `Evidence` implement | external |
| `Reporting` | windows, pages, Next, exports | `reporting` |
| `Screens` | dialogs, forms, refreshes | `tickets/*.tsx`, `evidence/forms.tsx`, `shared/components/task-dialog.tsx` |
| `Migrations`, `Gates` | the operator's scripts | `scripts/` |
| `MC*` | instances for TLC | – |
| `*Proofs` | theorems | – |

```
Plans <- Scheduling, Leave, Outsourcing, Directory <- Workforce <- Capabilities <- Reports
                                                                <- Coverage
                                                                <- PlanningLocks
Accounts <- People        FileStore <- Tickets, Evidence   (by refinement)
Operations, Organisation, Conversations, Reporting, Screens, Migrations, Gates: no shared state
```

### How state and actions correspond to the code

**Transactions.** In `Workforce`, `Capabilities` and `Coverage` an action is one committed
transaction: its guard is the conjunction of the checks whose failure rolls back, its
effect all the writes. Rejected calls change nothing and are not steps. That the locks
make these transactions behave so is the subject of `PlanningLocks`. Elsewhere a call is
several steps wherever the code reads in one statement and writes in a later one
without a lock in between: `People`, `Organisation`, `Operations` and `Conversations` have
a record per call in flight with what it has read; `Tickets` has the locks a command
holds and the snapshot a read works on.

**Versions.** Versions are the optimistic version columns. A caller with a stale version is
refused and changes nothing, so where nothing else depends on them a version is
abstracted to what it decides: whether the row was written since it was read.

**Planning.** A plan is a client-month. A period is identified by plan and revision
number (the unique index `schedule_periods_revision_key`); periods and rows are never
deleted. A row is a period and a line; `copiedFrom` names the row it was copied from. A
*site* stands for a project and a location linked together, both of one client. A
revision is opened by copying all live rows of the published period.
`assertNoOverlap` exempts a copy from the row it was copied from while the slot is the
same and the parent still published; `UnchangedPredecessor` is that test, and
`NoDoubleBooking` says that nothing else ever clashes.

**Requests.** A replacement request names one row and may be decided when that row has
been changed, removed, copied, published or superseded. `CurrentAnchor` is the service's
`currentAnchor`. The code decides whether the anchor changed by comparing the row's
`updatedAt` with the request's `createdAt`; the model compares the row's version with the
one the request found (`made`), and since `createdAt` is when the creating transaction
began, a change it waited for may be later (`late`). `asked` is a history field.

**Locks.** `PlanningLocks` gives each call a list of steps (`todo`): take a set of locks one
after another in key order, check, or decide from what is committed which steps come
next. `held` is what a transaction has locked, `target` the row an approval has chosen, `seen`
the version its caller sent. A commit writes and frees all locks at once. The steps are
written from the order of statements, not from `Workforce`; that they add up to it is what
`Atomic` says. Rows of equal date and start come in any order, as the code's tie-break is
the order of creation.

**Managers.** The code walks the chain of managers with a recursive query. `People` says
what it finds as a set: the smallest set that holds the person and the managers of its
members (`Chain`). A chain ends when it reaches somebody without a manager.

**Files.** Storage and database are two systems: putting the object, writing the row,
removing the object and giving up are steps of their own, and each may fail alone. A COMMIT
and its acknowledgement are two events: once the connection has broken (`LoseAnswer`,
`LoseCommit`) the database may or may not commit, before or after the catch of
`tickets/files.ts:158` and `evidence/service.ts:221` has removed the object. Such a file may be
listed without its content. What storage promises is therefore about answers: a file whose
uploader was told that it is stored stays readable, and only an unanswered one may be
lost. `EvidenceFilesAreKept` and `TicketFilesAreKept` are `FileStore!Spec` under the mapping
"listed: files that have a row; readable: of those, the ones whose object is there;
answered: of those, the ones whose call returned".

**Skill records.** `skilled` and `lapsed` are the active and the archived rows of
`employee_skills`, `asked` the active requirements of sites. Warnings of a period are
computed from them whenever they are read (`capabilities/service.ts:43-44`), of published
periods too, so `DemandFollowsWork` says of a published period that what its rows ask for
never changes, and that its warnings change only in a step that writes these records.

**The leave report.** `Reports` has one report in `report`: the day and hours asked for and
what each of its two reads has found. The reads come in either order and any number of
transactions commit before, between and after them. The report may show somebody on leave
and at work who never was: the schedule is read, a revision takes the person off and leave
is approved, then the leave is read. `ShownConflictIsOver` says that this is the only way:
whoever is shown so is not at work in that hour in the plan in force.

**Nominees.** `asked` keeps, besides the present nominee, since which version of the request
they have been named (`since`) and who was named before (`former`). A message has the
version its author read (`asOf`). `EveryoneHasHeard` says who must have been notified of it, and
who may have been: a replaced nominee may, if the author read the request before.

**The migrator.** It creates the ledger's schema and the ledger's table in two statements
that commit by themselves, and then applies in one transaction what is newer than the
ledger's last row; it never looks at the fingerprint. So a ledger is absent, partial (a
schema without its table), foreign (other columns or rows), or counts migrations, and
the plain migrator, `npm run db:migrate`, may succeed on a database of no known stage.

**The runner's cleanup.** A signal that cannot be sent makes `stopAll` reject, and a `rm` that
is out of retries throws; either skips the rest of the `finally` (`refused`, `failed`).
`NothingOutlivesTheRunner` says what is then left and that the runner does not report success.

**Who has heard.** `ParticipantsHaveHeard` exempts people who were inactive for a time
(`lapsed`): the service notifies active people only, and nobody tells them later. It is the
code's promise; without the exemption it would be false.

**Screens.** A record is the sequence of its versions; a page shows readings of it that
were fetched in any order; one dialog is in play at a time since it is modal.

## Runs

All runs are exhaustive. A run whose components share no state, or whose product of inputs
would be too large, is divided into *slices* chosen at the start and never left: a slice
restricts which calls are made, by refusing steps, never by assuming something of a state.

| run | instance | shows |
|---|---|---|
| `plans` | slices: two clients, 2 revisions of one line each, slots that touch and one that spans them; one client with 3 revisions of 2 lines; leave, archiving and deactivation around one row; requirements of a skill and skill records; the leave report for 8 to 12 o'clock among commits of leave and of two revisions | `TypeOK`, `NoDoubleBooking`, `OneLineage`, `HoursCountedOnce`, `ShownConflictIsOver`, `PublishedIsFinal`, `PublishedFit`, `DemandFollowsWork` |
| `people` | 1 plan, 2 employees, 2 days, 2 leave requests, 1 booking call of any team, allowance 1 or 2 | `LeaveKeepsPublishedPlan`, `BookingExclusive`, `AllowanceHonoured` |
| `coverage_requests` | 1 plan, 2 revisions, 2 rows, 2 skilled employees, one of whom may be deactivated, a rule for 3 people, 2 requests | `OnePendingPerWork`, `OneSupportPerShortage` |
| `coverage_staffing` | the same plan with 3 rows, 3 employees, a rule for 2 people, 1 request | `ApprovalFitsRequest`, `NoOverstaffing`; `Spec` of `Workforce`: the composition implements it |
| `locks` | 3 transactions, three scenes: a published plan that is revised, proposed, published and covered; the same with a proposed revision; 9 calls of all services on the same people | `ValidationInEveryCycle`, `Atomic`, `EveryCallAnswered` |
| `identity` | 2 super-administrators and a third person; slices: wrong passwords and locks; two overlapping requests; arrivals | `SessionsDieWithAccess`, `FreshStartAfterLock`, `SuperAdminRemainsAlone`, `HierarchyEndsAlone` |
| `tickets` | an administrator, two employees, one workspace, board, ticket and file, two commands and one read; slices: all commands; withdrawal of one person's access under commands; under a read; uploads whose answers may be lost | `CommandsStayPermitted`, `AnswersAreCurrent`, `ParticipantsHaveHeard`, `TicketFilesAreKept` |
| `workspace` | nineteen slices of evidence, operations, conversations, organisation, reports, screens, migrations, runner and lock | `ReviewDescribesContent`, `SubmissionsReplace`, `EvidenceFilesAreKept`, `EditsSeeWhatTheyReplace`, `ClientClosesAlone`, `EveryoneHasHeard`, `NamesStayUnique`, `NextReachesEveryRow`, `FilesAnswerTheirPage`, `TypedWorkIsSafe`, `LedgerNamesTheSchema`, `NothingOutlivesTheRunner`, `GreenMeansDone` |
| `lock_crossing` | 2 publications on crossing days | **violated:** `NoWaitCycle` (finding 2) |
| `lock_approval` | 4 transactions on one plan | **violated:** `ApprovalSparesPublication` (finding 1) |
| `last_super_admin` | the instance of `identity` | **violated:** `SuperAdminRemains` (finding 3) |
| `audit_history` | the instance of `workspace` | **violated:** `NextReachesEveryEvent` (finding 4) |

**Why the bounds are enough to be interesting.** Three slots give containment, touching
(which is allowed) and disjointness. Two clients give overlaps across plans. Three
revisions give a parent, a child and a grandchild whose copies come from copies. Two days
give leave that covers, touches and misses a row. Two requests and an allowance of 1 or 2
give balances that one approval exhausts and a reduction undercuts. Two replacement
requests are the pair that may duplicate each other; the third row is the one an extra
person takes when two already fill the slot, so that a stale shortage would overstaff it.
In the lock run every start is one that earlier calls leave behind. Two overlapping calls
of one component are enough for one to write between another's reads and its write, and
that is all these components' races need. A page size of 2, an audit page of 1 and three
rows give a full page, a short page and the page after; a cap of 2 cuts a file short. Three
versions of a record and two exchanges in flight let an older answer overtake a newer one.
One edit of a request replaces a nominee, or names one, between a post's read and its write.
One requirement of a row, with one record of an employee's skill or of a requirement of the
site beside it, is enough for a warning to come and go.

**Bounds that are not the program's:** `MaxRevision`, `Line`, `LeaveId`, `Batch`, `RequestId`,
`Allowance`, `Leavers`, `Closing`, `Leaving`, `Txn`, `Scene`, `Session`, `Request`, `Writer`, `Reader`, `Changing`,
`Operator`, `Invited`, `MaxEdit`, `FewRecords`, `MaxText`, `Call`, `Talk`, `OrgCall`, `Submission`, `Page`, `LastDay`, `MaxStock`, `MaxPage`, `MaxVersion`, `Task`. Page
sizes, windows, caps, failure limits and lock times are the program's constants made small.

**Views and symmetry.** Where versions grow without bound `MCWorkforce` and `MCCoverage` use a
VIEW that hides them: no guard of `Workforce` depends on them, since callers send current
ones; of the anchor's version and of `asked` it keeps whether they still agree with the
row, which is all `Coverage` asks of them. Symmetry is used over employees, lines, items, calls and
requests where no constant tells them apart, and in no run with a temporal property that
needs fairness.

**Deadlock.** `CHECK_DEADLOCK` is off where the system may stop: every call has ended and
nobody must make another (`locks`, `identity`, `tickets`, `workspace`), or the last revision of the
bound is published (`plans`).

**Fairness.** Only `LocksSpec` has any: weak fairness of the next statement of an open
transaction, because the server runs an operation to its end without waiting for its
client, and of the database's aborting a deadlocked transaction, because PostgreSQL's
detector runs whenever a wait exceeds `deadlock_timeout`. No call need ever start.

## Findings

1. `coverage/service.ts:42-43` says that locking an existing child instead of its
   published parent avoids a deadlock with a publication. The child is looked up before
   any lock, so an approval that starts before a revision exists still locks the parent
   and can deadlock with that revision's publication (`lock_approval`).
2. The status tracker (`IMPLEMENTATION_STATUS_TRACKER.md:690`) relies on a shared order of
   employee/date and leave locks. The overlap keys are sorted, but leave locks are taken row
   by row in date order; two clients' publications that name two people on crossing days
   deadlock (`lock_crossing`). So can one publication or proposal and one booking of both
   people, which locks them in the order of their ids (`outsourcing/service.ts:61`).
   `ValidationInEveryCycle` says that it takes one of these two: no other calls deadlock.
3. `account-administration/messages.ts:16` says that the last active Super Admin cannot be
   removed. Two super-administrators who deactivate or demote each other at the same moment
   leave none: each counts the other's row and writes its own target's, and neither locks
   what it counted (`last_super_admin`). `SuperAdminRemainsAlone` says that overlap is needed.
4. The audit-history report takes pages of 50 and decides about Next by 100, so that Next
   stops before the last events that match (`audit_history`).

In the first two the database aborts one transaction and its caller sees an error: `Atomic`
(proved) and `EveryCallAnswered` hold in the presence of these aborts, so no data is wrong.

Smaller points that no run states. `tickets/files.ts:139` says that `attach` compensates every
failed commit, and line 159 that the object it removes is uncommitted; the catch runs on
every throw, also when only the acknowledgement of the commit was lost: the ticket then
lists a file whose content has been removed. Evidence compensates in the same way
(`evidence/service.ts:221`). `TicketFilesAreKept` and `EvidenceFilesAreKept` allow this of files
whose uploader got no answer, and of no others. The decision log
(`PHASE_7_COVERAGE_REPLACEMENT_DECISIONS.md:20`) says that only one pending replacement may
target the same logical assignment; a request left pending on a revision two publications
back is not counted, and can no longer be approved, so `OnePendingPerWork` is about
requests that still come down to a row. A first run of the migration tool on an empty
database that stops between the migrator's two statements leaves a partial ledger, which
the tool then refuses as state E, as `PHASE_2_EMPLOYEE_DOMAIN_DECISIONS.md:27` asks of it; only
the plain migrator goes on from there. And the plain migrator may leave a whole ledger
beside a schema of no known stage; `LedgerNamesTheSchema` exempts just that. The hazards in `PROJECT.json` without a property each say
why.

## Proofs

The theorems hold for **all** values of the constants that satisfy the named assumptions:
any number of clients, employees, revisions, rows, people, requests, calls in flight,
versions, operators, migrations and steps. Eight modules hold them. Each follows one
pattern: an inductive invariant, one lemma per action or group of actions, and a theorem
that combines `Init => IInv`, `IInv /\ [Next]_vars => IInv'` and `IInv => Inv`.

**Assumptions.** `CalendarAssumption` and `OwnershipAssumption` (dates and times are naturals,
ownership functions have their types), `AllowanceAssumption`, `CountingAssumption` (requests and
days can be counted; years go on with the days), `RowsAssumption` (finitely many plans and lines),
`RankAssumption` (employee ids are ordered), `SceneAssumption` (calls are made on rows that the
services leave behind, name records that exist, and no two insert under one id, which
the database generates), `TxnAssumption` (finitely many transactions), `DirectoryAssumption`, `SkillAssumption`,
`CoverageAssumption` (a rule asks for somebody and finitely many people have its skill),
`AccountsAssumption` (finitely many users; at least one failure before a lock),
`StartAssumption` (a system starts with a super-administrator and a forest of managers),
`AccessAssumption`, `EvidenceAssumption`, `ConversationsAssumption`, `OperationsAssumption`,
`OrganisationAssumption`, `ReportingAssumption` (sizes and windows are positive; a month is no
longer than the narrower window), `AskedAssumption`, `MigrationsAssumption`, `ScreensAssumption`.
All are types or facts of the configuration, and TLC evaluates each on a passing run.

### Planning (`WorkforceProofs`, `LeaveProofs`)

* `TypeCorrect`: `TypeOK` is inductive; one lemma per action.
* `LineageHolds`: `OneLineage` is not inductive alone. A new revision must not find a
  current period above it, so `Rooted` adds that rows belong to existing periods, that a
  parent is an earlier revision, and that a plan with any period has revision 1.
* `NobodyBookedTwice`, from the two above (`ScheduleInv`). The heart is publication: the
  superseded revision stops standing in the same step, and the published rows have just
  been checked against everything that stands; and the opening of a revision, whose copies
  clash with exactly what their sources clash with, so that no other editable revision may
  exist.
* `ShiftsStandApart`: among *published* work no exemption is left. A copy and its source are
  in different revisions of one plan, and only one of them is current.
* `HoursAddUp`: `HoursCountedOnce` follows, since every row ends after it begins (`Forward`), so
  that each contributes as many moments as hours, and disjoint parts add up (`CountingSums`).
  The report's sum is a fold over subsets; that it counts what it should is shown on a
  smallest subset for which it would not (`SmallestSubset`), since the library's induction
  rules cannot be instantiated.
* `LeaveAndPlansApart`, `BookingsApart`: leave, bookings and work are each checked against what
  the others have committed. Neither invariant is inductive without the other (a decision on
  leave looks at bookings, a booking at drafts that may be published later), so `Apart` is
  their conjunction.
* `AllowanceHolds`: approved days are a finite set per employee and year; approving a request
  adds the days that were counted before it, and no reduction goes below what is taken.
* `HistoryIsFinal`, `PublicationsFit`: action properties from `ScheduleInv`: what publication
  writes is the proposed revision and the one it supersedes, and nothing else.
* `CapabilityRefines`: `CapabilitySpec => Spec`, so all of the above holds with requirements.
  `RequirementsFollow` needs that requirements are of rows that exist (`DemandOnRows`): a new
  revision's lines have none of their own. Its clause on warnings is that a step which leaves
  the skill records alone leaves a published row's site, employee and requirements alone too.
* `ShownConflictsAreOver`, over the system with a report being read (`ReportSpec`). `ReportInv`: whoever
  was read as on leave still is, since no step ends approved leave (`ApprovedStays`,
  `OnLeaveStays`); and whoever is on approved leave is not in the published plan in force
  (`LeaveAndPlansApart`).

### Replacement requests (`CoverageProofs`)

* `CoverageRefinesWorkforce`: every step of the composition is a step of `Workforce` or leaves
  its variables alone, so that nobody is booked twice with requests either
  (`CoverageNobodyBookedTwice`); `CoverageTypeCorrect`.
* `ApprovalsFitRequests`: a row that exists never vanishes and every write increments its
  version; so while the version a request remembers is still the row's, the work is what was
  asked (`AskedInv`); and `CurrentAnchor` only follows copies that have the same work.
* `OneRequestPerWork`, `OneRequestPerShortage`: what two pending requests have to keep is not that
  they come down to different rows *now* but that no later copying can bring them together:
  `ApartInv` and `SeparateInv` are about their anchors and the sources of these, and need that
  a copy's source is in the parent (`Sourced`).
* `AdditionsFitTheirRule`: a granted addition adds one to a finite set that was below the rule.

### Locks (`LocksProofs`)

* `CommitsAreAtomic`. `LocksInv` says, operation by operation and stage by stage (`At`), which locks
  a transaction holds, what it has still to do, and what of its checks is still true; and that a lock
  has one holder. Its step lemmas come in two halves. A transaction's own step reaches its
  next stage; a commit of another spares what is known, because whatever it writes is
  under a lock that only it holds: a period's row lock for the period's status and rows, an
  employee's day lock for placing that employee on that day, an employee's leave lock for
  leave and bookings. What a publication has validated row by row is kept against additions
  and approvals by the day locks and against leave and bookings by the leave locks.
  When nothing is left to do the stage says all that the guard of the `Workforce` action
  says, so the commit is that action.
* `InterleavedNobodyBookedTwice`: therefore, from a state in which `ScheduleInv` holds, the
  interleaved services keep `NoDoubleBooking`. (That a scene satisfies `ScheduleInv` is a hypothesis
  because scenes are a constant.)
* `ValidationClosesCycles`. `Below` orders the locks: allowance, periods, plans' keys, employees'
  days, employees' leave, requests; only among days and among employees does one call take
  several, in key order. Every call but a proposal and a publication wants
  only locks above those it holds (`Ascends`, one lemma per operation). In a set of such calls that wait
  for each other, the one that wants the highest lock would wait for a call that holds it and
  wants a higher one still (`SomeoneWantsTheTop`).

### Accounts and people (`PeopleProofs`)

* `AccessEndsSessions`, `LocksEndWithTheirWindow` (`AccountInv`: a lock is at least as long as what is
  left of the window its failures were counted in).
* `OneSuperAdminStays`, `HierarchyStays`, while no two changes overlap (`PeopleInv`). What a request
  has checked is still so when it writes (`CheckedInv`), because what happens in between only
  adds people. Absence of cycles is used as `Forest`: every non-empty set of people has a member
  whose manager is outside it; this is inductive without recursion, and implies that every
  chain ends (`ForestEnds`).

### Tickets (`TicketsProofs`)

`TicketsInv` says that the rows a command holds share-locks on still permit it, that a workspace
has one command or reads, that a snapshot which is not stale shows what may be seen now, and
that an upload which has a row was answered, unless its answer was lost, and that what was
answered for has its object (`FileOK`). From it: `CommandsAreHonoured`,
`NothingStaleIsAnswered`, `EveryParticipantHears`, and `TicketFilesRefine` (the tickets implement
`FileStore`: a removal is of an object that no row names, or the loss of an unanswered one).

### Records (`RecordsProofs`)

* `ReviewsDescribe`, `OneSubmissionCounts`, `EvidenceFilesRefine`. `EvidenceInv`: a page that is not behind
  shows what the item is; one submission holds its owner's lock and has read the current CV; a
  stored upload has its object until it is answered or given up, and only an unsure one has a row
  before it is answered.
* `TheThreadIsHeard`. `ConversationsInv`: whom a post has read as participants are all who must
  hear of a message of that version and none who may not (`CallFits`), whatever has been edited
  or decided since.
* `EditsAreInformed`, `ClosingIsCounted`. What an edit has seen is what it replaces, or somebody has
  written and the edit is refused.
* `NamesAreUnique`. Between the search and the write a call holds the lock of the folded name, so
  that no record and no other call in flight has it.

### Tools, reports and screens (`ToolProofs`)

* `SchemaStaysNamed`: what a run has read of the schema is still true as long as there is no
  ledger, a partial one included; afterwards only the migrator writes, and one that would
  apply what is there already fails (`ReadInv`).
* `RunnerCleansUp`, `GreenIsDone`: where the runner is, and whether something has failed, determines
  what it holds and what lives (`CourseInv`); a step's exit code is good only if it was not ended by
  the lock.
* `FilesAnswer`: a file's window, rows and audit event are those of the request it was resolved to.
  `NextReachesAll`: the pages before page *n*+1 are those before *n*, and *n*; with the multiplication
  by the page size done by hand.
* `TypedWorkIsKept`. `ScreensInv`: a dialog's form is mounted while it is open; an animated exit was
  asked for by its user, so a pending close event finds nothing typed; and the fields are those of
  the version shown, as far as the dialog shows it.

### What is only model-checked, and why

* `EveryCallAnswered`: liveness under fairness is out of the prover's reach.
* The properties of the four violation runs, which are false.

## Not modelled, and why

* The permission table by role, and scopes where nothing depends on when they are read: they
  narrow what a caller may ask; planning's models let everybody ask for everything.
* Wording and links of notifications, the allowlist of audited fields: read by nothing here.
* Instruction texts, phone numbers, addresses, employee codes: no rule but uniqueness.
* Three reports (coverage replacement, certification status, evidence review queue), the
  ranking of candidates, list and detail pages, maps and navigation: reads without a rule
  of their own.
* The dialog that edits an evidence item: it is not keyed by its version, so that
  `TypedWorkIsSafe` would be false of it; no document promises otherwise (see the hazards).
* The locks of creating a replacement request. Whatever row it names, the service ends up
  holding the plan's draft or, without one, the published period and the plan's advisory key,
  so two creations for one plan follow each other; this is read off the code, not checked.
* Locks whose sequence is a prefix of another operation's (removal and update of a row, return
  to draft, rejection): `Workforce` has these operations.
* Descendants of a process that has ended by itself (`#stopRoot` returns at once, and whatever it
  had started may live on), and of one that could not be signalled: a process of the runner
  stands for its tree, and ends as one.
* Hash collisions of advisory keys (`hashtext` is 32 bits): two keys with one hash wait for each
  other more, and might close a cycle that the keys themselves do not.
* Seeds and demonstration data; styling; password hashing; file signatures.

## Plan

1. Planning and its locks, requests, accounts, tickets, records, tools and screens: modelled,
   checked, proved.
2. Next: the evidence edit dialog in `Screens`, with the property it does keep; the locks of
   request creation in `PlanningLocks`; allowances across the turn of the year.
