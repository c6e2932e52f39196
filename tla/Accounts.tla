------------------------------ MODULE Accounts ------------------------------
(***************************************************************************)
(* Accounts, sign-in credentials and sessions: the credential and session  *)
(* services, account administration and the operator's bootstrap.          *)
(*                                                                         *)
(* Passwords are not represented: an attempt may be right or wrong.  A     *)
(* version is abstracted to what it decides.  A session whose version is   *)
(* behind its user's, that is revoked or that has expired is never         *)
(* accepted again, so it is no longer in the model.  The version a form    *)
(* was filled in with is an input: some form always carries the current    *)
(* one, and any other is refused.                                          *)
(***************************************************************************)
EXTENDS Integers, FiniteSets

CONSTANTS
  User,
  Session,      \* how many sessions may be open at once (bound)
  Request,      \* how many requests may be in flight at once (bound)
  MaxFailures,  \* wrong passwords in one window that lock the account: 5
  LockTime,     \* the length of a window and of a lock, in ticks: 900 s
  MockAllowed,  \* isMockAuthenticationEnabled
  Role,         \* "SUPER_ADMIN", "ADMIN" and "EMPLOYEE" (bound: the roles used)
  Approved      \* the accounts the operator's bootstrap initialises, with their roles

CONSTANT Nobody

ASSUME AccountsAssumption ==
  /\ IsFiniteSet(User) /\ DOMAIN Approved \subseteq User /\ Nobody \notin User
  /\ {"EMPLOYEE", "SUPER_ADMIN"} \subseteq Role /\ Role \subseteq {"EMPLOYEE", "ADMIN", "SUPER_ADMIN"}
  /\ MaxFailures \in Nat \ {0} /\ LockTime \in Nat \ {0}
  /\ MockAllowed \in BOOLEAN

VARIABLES
  user,        \* users
  credential,  \* user_credentials
  session,     \* sessions that may still be accepted
  reading,     \* mock sign-ins that have read the user and not yet inserted
  request      \* requests past their session check, not yet answered

accountVars == <<user, credential, session, reading, request>>

Mode == {"password", "mock"}

UserRec == [role : Role \cup {"NONE"}, active : BOOLEAN]
NoUser == [role |-> "NONE", active |-> FALSE]
Exists(u) == user[u].role # "NONE"
ActiveSuper(u) == user[u].active /\ user[u].role = "SUPER_ADMIN"

\* age is the time since the failure window started (LockTime when it is over
\* or was never started), left the time until lockedUntil.
CredentialRec == [set : BOOLEAN, must : BOOLEAN, failures : 0..MaxFailures,
                  age : 0..LockTime, left : 0..LockTime]
Clean(must) == [set |-> TRUE, must |-> must, failures |-> 0, age |-> LockTime, left |-> 0]
NoCredential == [Clean(FALSE) EXCEPT !.set = FALSE]

\* survivor is no column: the access of the session's user was withdrawn or
\* changed (deactivation, role, password) after the sign-in read that user.
SessionRec == [user : User, mode : Mode, survivor : BOOLEAN]
NoSession == [mode |-> "none"]
Opened(u, mode) == [user |-> u, mode |-> mode, survivor |-> FALSE]
Of(u) == {s \in Session : session[s].mode # "none" /\ session[s].user = u}

\* What a request may do was decided when its session was checked; the
\* stage after admission belongs to the People module.
NoRequest == [stage |-> "none"]
Admitted(u, mode, kind) == [stage |-> "admitted", actor |-> u, mode |-> mode, kind |-> kind]
Admission == [stage : {"admitted"}, actor : User, mode : Mode,
              kind : {"ADMINISTER", "CHANGE_PASSWORD"}]

Accepted(s) ==
  /\ session[s].mode # "none"
  /\ user[session[s].user].active
  /\ session[s].mode = "mock" => MockAllowed
EntersApplication(s) == Accepted(s) /\ ~credential[session[s].user].must

(***************************************************************************)
(* Sign-in.  The credential and user rows are locked together, so that an  *)
(* attempt is one step against every other writer of either row.           *)
(***************************************************************************)
Expired(c) == c.age >= LockTime
(* Mutants of Failed: the lock ends before the window does; a count that goes on *)
(* beyond the limit.                                                             *)
FailedShortLock(c) ==
  LET count == IF Expired(c) THEN 1 ELSE IF c.failures < MaxFailures THEN c.failures + 1 ELSE MaxFailures
  IN  [c EXCEPT !.failures = count, !.age = IF Expired(c) THEN 0 ELSE c.age,
                !.left = IF count >= MaxFailures THEN LockTime - 1 ELSE 0]
FailedUncapped(c) ==
  [c EXCEPT !.failures = c.failures + 1, !.age = IF Expired(c) THEN 0 ELSE c.age,
            !.left = IF c.failures + 1 >= MaxFailures THEN LockTime ELSE 0]
Failed(c) ==
  LET raised == IF c.failures < MaxFailures THEN c.failures + 1 ELSE MaxFailures
      count  == IF Expired(c) THEN 1 ELSE raised
  IN  [c EXCEPT !.failures = count,
                !.age = IF Expired(c) THEN 0 ELSE c.age,
                !.left = IF count >= MaxFailures THEN LockTime ELSE 0]

SignIn(u, s) ==
  /\ credential[u].set /\ credential[u].left = 0 /\ user[u].active
  /\ session[s] = NoSession
  /\ credential' = [credential EXCEPT ![u] = Clean(credential[u].must)]
  /\ session' = [session EXCEPT ![s] = Opened(u, "password")]
  /\ UNCHANGED <<user, reading, request>>

\* A wrong password, or the right one of an inactive user; a locked account
\* is refused without counting.
RefuseSignIn(u) ==
  /\ credential[u].set /\ credential[u].left = 0
  /\ credential' = [credential EXCEPT ![u] = Failed(credential[u])]
  /\ UNCHANGED <<user, session, reading, request>>

\* A mock sign-in reads the user first and inserts the session later, in a
\* transaction that takes no lock on the user.
ReadForMock(u) ==
  /\ MockAllowed /\ user[u].active /\ reading = {}
  /\ reading' = {Opened(u, "mock")}
  /\ UNCHANGED <<user, credential, session, request>>
BeginMock(s) ==
  /\ session[s] = NoSession
  /\ \E read \in reading : session' = [session EXCEPT ![s] = read] /\ reading' = reading \ {read}
  /\ UNCHANGED <<user, credential, request>>

EndSession(s) ==  \* signing out, or expires_at has passed
  /\ session[s] # NoSession
  /\ session' = [session EXCEPT ![s] = NoSession]
  /\ UNCHANGED <<user, credential, reading, request>>

Tick ==
  /\ \E u \in User : credential[u].age < LockTime \/ credential[u].left > 0
  /\ credential' = [u \in User |-> [credential[u] EXCEPT
       !.age = IF credential[u].age < LockTime THEN credential[u].age + 1 ELSE LockTime,
       !.left = IF credential[u].left > 0 THEN credential[u].left - 1 ELSE 0]]
  /\ UNCHANGED <<user, session, reading, request>>

(***************************************************************************)
(* Requests.  A business request needs a session that enters the           *)
(* application; changing one's own password only an accepted one.          *)
(***************************************************************************)
Admit(r, s, kind) ==
  /\ request[r] = NoRequest
  /\ kind = "ADMINISTER" => EntersApplication(s) /\ user[session[s].user].role = "SUPER_ADMIN"
  /\ kind = "CHANGE_PASSWORD" => Accepted(s) /\ credential[session[s].user].set
  /\ request' = [request EXCEPT ![r] = Admitted(session[s].user, session[s].mode, kind)]
  /\ UNCHANGED <<user, credential, session, reading>>

Is(r, kind) == request[r].stage = "admitted" /\ request[r].kind = kind
Answer(r) == request' = [request EXCEPT ![r] = NoRequest]
Refuse(r) ==
  /\ request[r] # NoRequest
  /\ Answer(r) /\ UNCHANGED <<user, credential, session, reading>>

\* Account administration reads its actor again, under a row lock.
Reauthorized(r) == Is(r, "ADMINISTER") /\ ActiveSuper(request[r].actor)

Without(u) == [s \in Session |-> IF s \in Of(u) THEN NoSession ELSE session[s]]
Outlived(open, u) ==  \* history only: what is still open of u has outlived u's access
  [s \in Session |-> IF s \in Of(u) /\ open[s].mode # "none"
                     THEN [open[s] EXCEPT !.survivor = TRUE] ELSE open[s]]
Survived(reads, u) == {[read EXCEPT !.survivor = @ \/ read.user = u] : read \in reads}
Forgotten(reads, u) == {read \in reads : read.user # u}

CreateAccount(r, u, role, must) ==
  /\ Reauthorized(r) /\ ~Exists(u)
  /\ user' = [user EXCEPT ![u] = [role |-> role, active |-> TRUE]]
  /\ credential' = [credential EXCEPT ![u] = Clean(must)]
  /\ Answer(r) /\ UNCHANGED <<session, reading>>

EnableCredentials(r, u, must) ==
  /\ Reauthorized(r) /\ Exists(u) /\ ~credential[u].set
  /\ credential' = [credential EXCEPT ![u] = Clean(must)]
  /\ session' = Without(u) /\ reading' = Forgotten(reading, u)
  /\ Answer(r) /\ UNCHANGED user

\* A new password ends every session of its user; someone who set it for
\* themselves goes on in a new session of the same mode.
NewPassword(r, u, must) ==
  /\ credential' = [credential EXCEPT ![u] = Clean(must)]
  /\ reading' = Forgotten(reading, u)
  /\ IF request[r].actor # u THEN session' = Outlived(Without(u), u)
     ELSE \E s \in Session :
            /\ Without(u)[s] = NoSession
            /\ session' = [Without(u) EXCEPT ![s] = Opened(u, request[r].mode)]
  /\ Answer(r) /\ UNCHANGED user

\* One's own password, or another super-administrator's, needs the actor's
\* current password, hence a credential.
ResetPassword(r, u, must) ==
  /\ Reauthorized(r) /\ credential[u].set
  /\ u = request[r].actor \/ user[u].role = "SUPER_ADMIN" => credential[request[r].actor].set
  /\ NewPassword(r, u, must)

ChangeOwnPassword(r) ==
  /\ Is(r, "CHANGE_PASSWORD")
  /\ user[request[r].actor].active /\ credential[request[r].actor].set
  /\ NewPassword(r, request[r].actor, FALSE)

\* All of the approved accounts, in their roles, or none.
Bootstrap ==
  LET initialised == DOMAIN Approved IN
  /\ initialised # {}
  /\ \A u \in initialised : user[u].role = Approved[u] /\ ~credential[u].set
  /\ credential' = [u \in User |-> IF u \in initialised THEN Clean(FALSE) ELSE credential[u]]
  /\ session' = [s \in Session |-> IF \E u \in initialised : s \in Of(u) THEN NoSession ELSE session[s]]
  /\ reading' = {read \in reading : read.user \notin initialised}
  /\ UNCHANGED <<user, request>>

AccountsTypeOK ==
  /\ user \in [User -> UserRec]
  /\ credential \in [User -> CredentialRec]
  /\ session \in [Session -> SessionRec \cup {NoSession}]
  /\ reading \subseteq SessionRec

\* The steps that leave profiles alone.
AccountsStep ==
  \/ \E u \in User, s \in Session : SignIn(u, s)
  \/ \E u \in User : RefuseSignIn(u) \/ ReadForMock(u)
  \/ \E s \in Session : BeginMock(s) \/ EndSession(s)
  \/ Tick \/ Bootstrap
  \/ \E r \in Request, s \in Session, kind \in {"ADMINISTER", "CHANGE_PASSWORD"} : Admit(r, s, kind)
  \/ \E r \in Request : Refuse(r) \/ ChangeOwnPassword(r)
  \/ \E r \in Request, u \in User, must \in BOOLEAN :
       EnableCredentials(r, u, must) \/ ResetPassword(r, u, must)
=============================================================================
