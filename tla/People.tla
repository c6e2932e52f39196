------------------------------- MODULE People -------------------------------
(***************************************************************************)
(* Employee records and the reporting hierarchy beside the accounts.  The  *)
(* employee service acts for whoever was a super-administrator when the    *)
(* request was admitted.  It reads the record, the other administrators or *)
(* the chain of managers in statements of their own, and writes later: the *)
(* write takes effect if the version of that one record is still the one   *)
(* read.                                                                   *)
(***************************************************************************)
EXTENDS Accounts

CONSTANTS
  StartUser,     \* the users there may be at first, and the credentials and managers
  StartCredential,
  StartManager

NoProfile == "no profile"

\* There is an active super-administrator, everybody with a record is a user,
\* and the managers form a hierarchy.
ASSUME StartAssumption ==
  /\ NoProfile \notin User \cup {Nobody}
  /\ StartUser \subseteq [User -> UserRec] /\ StartCredential \in [User -> CredentialRec]
  /\ StartManager \in [User -> User \cup {Nobody, NoProfile}]
  /\ \A u \in User : StartCredential[u].failures < MaxFailures
  /\ \A start \in StartUser :
       /\ \E u \in User : start[u].active /\ start[u].role = "SUPER_ADMIN"
       /\ \A u \in User : start[u].active \/ StartManager[u] # NoProfile => start[u].role # "NONE"
  /\ \A u \in User : StartManager[u] \in User => StartManager[StartManager[u]] # NoProfile
  /\ \A S \in SUBSET User : S # {} => \E u \in S : StartManager[u] \notin S

VARIABLES
  manager,     \* employee_profiles.managerUserId, or NoProfile
  overlapped   \* history: a write came between the reads and the write of another

peopleVars == <<accountVars, manager, overlapped>>

HasProfile(u) == manager[u] # NoProfile

(***************************************************************************)
(* The chain of managers, as managerChain walks it from u: whoever is in   *)
(* every set that holds u and the manager of each of its members.          *)
(***************************************************************************)
HoldsManagers(S) == \A u \in S : manager[u] \in User => manager[u] \in S
Chain(u) == {v \in User : \A S \in SUBSET User : u \in S /\ HoldsManagers(S) => v \in S}
Ends(u) == \E v \in Chain(u) : manager[v] \notin User

(* Mutant of ValidManager: only the manager's own manager is looked at. *)
DirectManagerOnly(u, m) ==
  m # Nobody => m # u /\ HasProfile(m) /\ user[m].active /\ manager[m] # u
ValidManager(u, m) ==
  m # Nobody => m # u /\ HasProfile(m) /\ user[m].active /\ Ends(m) /\ u \notin Chain(m)

(***************************************************************************)
(* One governed change: activation, role or manager of a target.           *)
(***************************************************************************)
Change ==
  [op : {"ACTIVATE", "DEACTIVATE"}] \cup [op : {"ROLE"}, role : Role]
    \cup [op : {"MANAGER"}, manager : User \cup {Nobody}]
Checked == [stage : {"checked"}, actor : User, target : User, change : Change, fresh : BOOLEAN]

Superiors == {u \in User : ActiveSuper(u)}

(* Mutant of AnotherSuper: inactive super-administrators count. *)
AnotherSuperEver == Cardinality({u \in User : user[u].role = "SUPER_ADMIN"}) > 1
AnotherSuper == Cardinality(Superiors) > 1

MayChange(target, change) ==
  \/ change.op = "ACTIVATE"
  \/ change.op = "DEACTIVATE" /\ (user[target].role = "SUPER_ADMIN" => AnotherSuper)
  \/ change.op = "ROLE" /\ (ActiveSuper(target) /\ change.role # "SUPER_ADMIN" => AnotherSuper)
  \/ change.op = "MANAGER" /\ ValidManager(target, change.manager)

Check(r, target, change) ==
  /\ Is(r, "ADMINISTER") /\ HasProfile(target)
  /\ change.op # "MANAGER" => target # request[r].actor
  /\ MayChange(target, change)
  /\ request' = [request EXCEPT ![r] = [stage |-> "checked", actor |-> request[r].actor,
                                        target |-> target, change |-> change, fresh |-> TRUE]]
  /\ UNCHANGED <<user, credential, session, reading, manager, overlapped>>

IsChecked(r) == request[r].stage = "checked"

\* A write of u's profile raises its version: a change checked before is refused.
Touched(reqs, u) ==
  [r \in Request |-> IF reqs[r].stage = "checked" /\ reqs[r].target = u
                     THEN [reqs[r] EXCEPT !.fresh = FALSE] ELSE reqs[r]]

(* Mutant of Revoked: the sessions stay. *)
Untouched(u) == session
\* Deactivation and a new role revoke the sessions there are; the version of
\* the user's sessions stays as it is.
Revoked(u) == Without(u)
LosesSessions(u) == session' = Outlived(Revoked(u), u) /\ reading' = Survived(reading, u)
KeepsSessions == UNCHANGED <<session, reading>>

Activate(u, change) ==
  /\ change.op = "ACTIVATE"
  /\ user' = [user EXCEPT ![u].active = TRUE]
  /\ KeepsSessions /\ UNCHANGED manager
Deactivate(u, change) ==
  /\ change.op = "DEACTIVATE"
  /\ user' = [user EXCEPT ![u].active = FALSE]
  /\ LosesSessions(u) /\ UNCHANGED manager
SetRole(u, change) ==
  /\ change.op = "ROLE"
  /\ user' = [user EXCEPT ![u].role = change.role]
  /\ IF user[u].role = change.role THEN KeepsSessions ELSE LosesSessions(u)
  /\ UNCHANGED manager
SetManager(u, change) ==
  /\ change.op = "MANAGER"
  /\ manager' = [manager EXCEPT ![u] = change.manager]
  /\ KeepsSessions /\ UNCHANGED user
Apply(u, change) ==
  Activate(u, change) \/ Deactivate(u, change) \/ SetRole(u, change) \/ SetManager(u, change)

Commit(r) ==
  /\ IsChecked(r) /\ request[r].fresh
  /\ Apply(request[r].target, request[r].change)
  /\ request' = [Touched(request, request[r].target) EXCEPT ![r] = NoRequest]
  /\ overlapped' = (overlapped \/ \E other \in Request \ {r} : IsChecked(other))
  /\ UNCHANGED credential

\* Contact details and summaries, by their owner or by an administrator.
TouchProfile(u) ==
  /\ HasProfile(u)
  /\ \/ \E s \in Of(u) : EntersApplication(s)
     \/ \E r \in Request : Is(r, "ADMINISTER")
  /\ request' = Touched(request, u)
  /\ UNCHANGED <<user, credential, session, reading, manager, overlapped>>

(***************************************************************************)
(* New records.  Account creation makes user, profile and credential, the  *)
(* employee form user and profile; a legacy account gets its profile later.*)
(***************************************************************************)
NewProfile(u, m) == manager' = [manager EXCEPT ![u] = m] /\ UNCHANGED overlapped

CreateAccountAndProfile(r, u, role, must) ==
  CreateAccount(r, u, role, must) /\ NewProfile(u, Nobody)

CreateEmployee(r, u) ==
  /\ Is(r, "ADMINISTER") /\ ~Exists(u)
  /\ user' = [user EXCEPT ![u] = [role |-> "EMPLOYEE", active |-> TRUE]]
  /\ NewProfile(u, Nobody)
  /\ Answer(r) /\ UNCHANGED <<credential, session, reading>>

CompleteWorkforceProfile(r, u) ==
  /\ Reauthorized(r) /\ user[u].active /\ ~HasProfile(u)
  /\ NewProfile(u, Nobody)
  /\ Answer(r) /\ UNCHANGED <<user, credential, session, reading>>

CreateProfile(r, u, m) ==
  /\ Is(r, "ADMINISTER") /\ user[u].active /\ ~HasProfile(u) /\ ValidManager(u, m)
  /\ NewProfile(u, m)
  /\ Answer(r) /\ UNCHANGED <<user, credential, session, reading>>

\* Records are well typed, and a request past its reads names a target.
PeopleTypeOK ==
  /\ AccountsTypeOK
  /\ request \in [Request -> {NoRequest} \cup Admission \cup Checked]
  /\ manager \in [User -> User \cup {Nobody, NoProfile}]
  /\ overlapped \in BOOLEAN

PeopleInit ==
  /\ user \in StartUser /\ credential = StartCredential /\ manager = StartManager
  /\ session = [s \in Session |-> NoSession] /\ reading = {}
  /\ request = [r \in Request |-> NoRequest] /\ overlapped = FALSE

PeopleNext ==
  \/ AccountsStep /\ UNCHANGED <<manager, overlapped>>
  \/ \E r \in Request : Commit(r)
  \/ \E r \in Request, u \in User, change \in Change : Check(r, u, change)
  \/ \E u \in User : TouchProfile(u)
  \/ \E r \in Request, u \in User, role \in Role, must \in BOOLEAN :
       CreateAccountAndProfile(r, u, role, must)
  \/ \E r \in Request, u \in User : CreateEmployee(r, u) \/ CompleteWorkforceProfile(r, u)
  \/ \E r \in Request, u \in User, m \in User \cup {Nobody} : CreateProfile(r, u, m)

PeopleSpec == PeopleInit /\ [][PeopleNext]_peopleVars

(***************************************************************************)
(* Properties.                                                             *)
(***************************************************************************)

\* Nobody goes on in a session they opened with a password before they were
\* deactivated, given another role or given another password: not even when
\* they are activated again, whatever sign-ins and changes come between.
SessionsDieWithAccess ==
  \A s \in Session : Accepted(s) /\ session[s].mode = "password" => ~session[s].survivor

\* A lock outlasts the window of the failures that caused it: once it is over
\* the next wrong password is a first one, and nobody is locked again at once.
FreshStartAfterLock ==
  \A u \in User : credential[u].failures = MaxFailures /\ credential[u].left = 0 => Expired(credential[u])

\* As long as no change was written between the reads and the write of
\* another, an active super-administrator is left, whoever acts on whom.
SuperAdminRemainsAlone == overlapped \/ Superiors # {}

\* ... and the chain of managers above everybody ends.
HierarchyEndsAlone == overlapped \/ \A u \in User : HasProfile(u) => Ends(u)

\* An active super-administrator is left after every change.
SuperAdminRemains == Superiors # {}
=============================================================================
