---------------------------- MODULE PeopleProofs ----------------------------
(***************************************************************************)
(* Accounts and people keep their promises for any users, sessions and     *)
(* requests in flight, any limit of failures and any length of a lock.     *)
(***************************************************************************)
EXTENDS People, FiniteSetTheorems, TLAPS

-----------------------------------------------------------------------------
(* What the rows of the accounts are *)

(* A lock lasts as long as the window that the failures were counted in. *)
LastingRec ==
  {c \in CredentialRec : c.failures = MaxFailures => c.age + c.left >= LockTime}

(* No session that was opened with a password has outlived its user's access. *)
LiveSession == {s \in SessionRec : s.mode = "password" => ~s.survivor} \cup {NoSession}
MockRead == {s \in SessionRec : s.mode = "mock"}

AccountInv ==
  /\ user \in [User -> UserRec]
  /\ credential \in [User -> LastingRec]
  /\ session \in [Session -> LiveSession]
  /\ reading \subseteq MockRead
  /\ request \in [Request -> {NoRequest} \cup Admission \cup Checked]

LEMMA CleanLasts ==
  ASSUME NEW must \in BOOLEAN
  PROVE  Clean(must) \in LastingRec
  BY AccountsAssumption DEF Clean, LastingRec, CredentialRec

LEMMA FailedLasts ==
  ASSUME NEW c \in LastingRec
  PROVE  Failed(c) \in LastingRec
<1>1. c \in CredentialRec
  BY DEF LastingRec
<1>2. PICK count \in 1..MaxFailures :
        count = IF Expired(c) THEN 1 ELSE IF c.failures < MaxFailures THEN c.failures + 1 ELSE MaxFailures
  BY <1>1, AccountsAssumption DEF CredentialRec
<1>3. PICK age \in 0..LockTime : age = IF Expired(c) THEN 0 ELSE c.age
  BY <1>1, AccountsAssumption DEF CredentialRec
<1>4. PICK left \in 0..LockTime : left = IF count >= MaxFailures THEN LockTime ELSE 0
  BY AccountsAssumption
<1>5. Failed(c) = [c EXCEPT !.failures = count, !.age = age, !.left = left]
  BY <1>2, <1>3, <1>4 DEF Failed
<1>6. /\ Failed(c) \in CredentialRec
      /\ Failed(c).failures = count /\ Failed(c).age = age /\ Failed(c).left = left
  <2>1. count \in 0..MaxFailures
    BY AccountsAssumption
  <2> QED
    BY <1>1, <1>5, <2>1 DEF CredentialRec
<1>7. count = MaxFailures => age + left >= LockTime
  BY <1>4, AccountsAssumption
<1> QED
  BY <1>6, <1>7 DEF LastingRec

LEMMA TickLasts ==
  ASSUME NEW c \in LastingRec
  PROVE  [c EXCEPT !.age = IF c.age < LockTime THEN c.age + 1 ELSE LockTime,
                   !.left = IF c.left > 0 THEN c.left - 1 ELSE 0] \in LastingRec
<1>1. c \in CredentialRec /\ (c.failures = MaxFailures => c.age + c.left >= LockTime)
  BY DEF LastingRec
<1>2. PICK age \in 0..LockTime : age = IF c.age < LockTime THEN c.age + 1 ELSE LockTime
  BY <1>1, AccountsAssumption DEF CredentialRec
<1>3. PICK left \in 0..LockTime : left = IF c.left > 0 THEN c.left - 1 ELSE 0
  BY <1>1, AccountsAssumption DEF CredentialRec
<1> DEFINE new == [c EXCEPT !.age = age, !.left = left]
<1>4. /\ new \in CredentialRec
      /\ new.failures = c.failures /\ new.age = age /\ new.left = left
  BY <1>1 DEF CredentialRec
<1>5. c.failures = MaxFailures => age + left >= LockTime
  <2>1. c.age \in 0..LockTime /\ c.left \in 0..LockTime
    BY <1>1 DEF CredentialRec
  <2> QED
    BY <1>1, <1>2, <1>3, <2>1, AccountsAssumption
<1> HIDE DEF new
<1>6. new \in LastingRec
  BY <1>4, <1>5 DEF LastingRec
<1> QED
  BY <1>2, <1>3, <1>6 DEF new

LEMMA SessionKept ==
  ASSUME AccountInv, NEW u \in User
  PROVE  /\ Without(u) \in [Session -> LiveSession]
         /\ Outlived(Without(u), u) = Without(u)
         /\ Survived(reading, u) \subseteq MockRead
         /\ Forgotten(reading, u) \subseteq MockRead
         /\ \A s \in Session, mode \in Mode :
              [Without(u) EXCEPT ![s] = Opened(u, mode)] \in [Session -> LiveSession]
<1>1. Without(u) \in [Session -> LiveSession]
  BY DEF AccountInv, Without, LiveSession
<1>2. Outlived(Without(u), u) = Without(u)
  BY DEF Outlived, Without, NoSession
<1>3. Survived(reading, u) \subseteq MockRead
  <2>1. ASSUME NEW read \in reading
        PROVE  [read EXCEPT !.survivor = @ \/ read.user = u] \in MockRead
    BY <2>1 DEF AccountInv, MockRead, SessionRec
  <2> QED
    BY <2>1 DEF Survived
<1>4. Forgotten(reading, u) \subseteq MockRead
  BY DEF AccountInv, Forgotten
<1>5. ASSUME NEW mode \in Mode
      PROVE  Opened(u, mode) \in LiveSession
  BY <1>5 DEF Opened, LiveSession, SessionRec, Mode
<1> QED
  BY <1>1, <1>2, <1>3, <1>4, <1>5

LEMMA AdmittedActor ==
  ASSUME AccountInv, NEW r \in Request, NEW kind, Is(r, kind)
  PROVE  request[r] \in Admission /\ request[r].actor \in User /\ request[r].mode \in Mode
<1>1. request[r] \in Admission
  BY DEF AccountInv, Is, NoRequest, Checked
<1> QED
  BY <1>1 DEF Admission

LEMMA AnswerType ==
  ASSUME AccountInv, NEW r \in Request, Answer(r)
  PROVE  request' \in [Request -> {NoRequest} \cup Admission \cup Checked]
  BY DEF AccountInv, Answer

LEMMA TouchedType ==
  ASSUME AccountInv, NEW u
  PROVE  Touched(request, u) \in [Request -> {NoRequest} \cup Admission \cup Checked]
<1>1. ASSUME NEW r \in Request
      PROVE  Touched(request, u)[r] \in {NoRequest} \cup Admission \cup Checked
  <2>1. request[r] \in {NoRequest} \cup Admission \cup Checked
    BY DEF AccountInv
  <2>2. CASE request[r].stage = "checked"
    <3>1. request[r] \in Checked
      BY <2>1, <2>2 DEF NoRequest, Admission
    <3>2. [request[r] EXCEPT !.fresh = FALSE] \in Checked
      BY <3>1 DEF Checked
    <3> QED
      BY <2>1, <3>2 DEF Touched
  <2> QED
    BY <2>1, <2>2 DEF Touched
<1> QED
  BY <1>1 DEF Touched

-----------------------------------------------------------------------------
(* The steps of the accounts *)

LEMMA SignInSteps ==
  ASSUME AccountInv,
         \/ \E u \in User, s \in Session : SignIn(u, s)
         \/ \E u \in User : RefuseSignIn(u) \/ ReadForMock(u)
         \/ \E s \in Session : BeginMock(s) \/ EndSession(s)
  PROVE  AccountInv'
<1> USE DEF AccountInv
<1>1. ASSUME NEW u \in User, NEW s \in Session, SignIn(u, s)
      PROVE  AccountInv'
  <2>1. Clean(credential[u].must) \in LastingRec
    BY CleanLasts DEF LastingRec, CredentialRec
  <2>2. Opened(u, "password") \in LiveSession
    BY DEF Opened, LiveSession, SessionRec, Mode
  <2> QED
    BY <1>1, <2>1, <2>2 DEF SignIn
<1>2. ASSUME NEW u \in User, RefuseSignIn(u)
      PROVE  AccountInv'
  <2>1. Failed(credential[u]) \in LastingRec
    BY FailedLasts
  <2> QED
    BY <1>2, <2>1 DEF RefuseSignIn
<1>3. ASSUME NEW u \in User, ReadForMock(u)
      PROVE  AccountInv'
  <2>1. Opened(u, "mock") \in MockRead
    BY DEF Opened, MockRead, SessionRec, Mode
  <2> QED
    BY <1>3, <2>1 DEF ReadForMock
<1>4. ASSUME NEW s \in Session, BeginMock(s)
      PROVE  AccountInv'
  <2>1. MockRead \subseteq LiveSession
    BY DEF MockRead, LiveSession
  <2> QED
    BY <1>4, <2>1 DEF BeginMock
<1>5. ASSUME NEW s \in Session, EndSession(s)
      PROVE  AccountInv'
  <2>1. NoSession \in LiveSession
    BY DEF LiveSession
  <2> QED
    BY <1>5, <2>1 DEF EndSession
<1> QED
  BY <1>1, <1>2, <1>3, <1>4, <1>5

LEMMA TickStep ==
  ASSUME AccountInv, Tick
  PROVE  AccountInv'
<1>1. credential' \in [User -> LastingRec]
  BY TickLasts DEF Tick, AccountInv
<1> QED
  BY <1>1 DEF Tick, AccountInv

LEMMA BootstrapStep ==
  ASSUME AccountInv, Bootstrap
  PROVE  AccountInv'
<1>1. credential' \in [User -> LastingRec]
  BY CleanLasts DEF Bootstrap, AccountInv
<1>2. session' \in [Session -> LiveSession]
  BY DEF Bootstrap, AccountInv, LiveSession
<1> QED
  BY <1>1, <1>2 DEF Bootstrap, AccountInv

LEMMA AdmitStep ==
  ASSUME AccountInv, NEW r \in Request, NEW s \in Session,
         NEW kind \in {"ADMINISTER", "CHANGE_PASSWORD"}, Admit(r, s, kind)
  PROVE  AccountInv'
<1>1. Accepted(s)
  BY DEF Admit, EntersApplication
<1>2. session[s] \in SessionRec
  BY <1>1 DEF Accepted, AccountInv, LiveSession, NoSession
<1>3. Admitted(session[s].user, session[s].mode, kind) \in Admission
  BY <1>2 DEF SessionRec, Admitted, Admission
<1> QED
  BY <1>3 DEF Admit, AccountInv

LEMMA PasswordStep ==
  ASSUME AccountInv, NEW r \in Request, NEW u \in User, NEW must \in BOOLEAN, NewPassword(r, u, must),
         request[r].mode \in Mode
  PROVE  AccountInv'
<1>1. credential' \in [User -> LastingRec]
  BY CleanLasts DEF NewPassword, AccountInv
<1>2. reading' \subseteq MockRead
  BY SessionKept DEF NewPassword
<1>3. session' \in [Session -> LiveSession]
  BY SessionKept DEF NewPassword
<1>4. request' \in [Request -> {NoRequest} \cup Admission \cup Checked]
  BY AnswerType DEF NewPassword
<1> QED
  BY <1>1, <1>2, <1>3, <1>4 DEF NewPassword, AccountInv

LEMMA RequestSteps ==
  ASSUME AccountInv, NEW r \in Request,
         \/ Refuse(r) \/ ChangeOwnPassword(r)
         \/ \E u \in User, must \in BOOLEAN : EnableCredentials(r, u, must) \/ ResetPassword(r, u, must)
  PROVE  AccountInv'
<1>1. CASE Refuse(r)
  BY <1>1, AnswerType DEF Refuse, AccountInv
<1>2. CASE ChangeOwnPassword(r)
  <2>1. request[r].actor \in User /\ request[r].mode \in Mode
    BY <1>2, AdmittedActor DEF ChangeOwnPassword
  <2> QED
    BY <1>2, <2>1, PasswordStep DEF ChangeOwnPassword
<1>3. ASSUME NEW u \in User, NEW must \in BOOLEAN, EnableCredentials(r, u, must)
      PROVE  AccountInv'
  <2>1. credential' \in [User -> LastingRec]
    BY <1>3, CleanLasts DEF EnableCredentials, AccountInv
  <2>2. session' \in [Session -> LiveSession] /\ reading' \subseteq MockRead
    BY <1>3, SessionKept DEF EnableCredentials
  <2>3. request' \in [Request -> {NoRequest} \cup Admission \cup Checked]
    BY <1>3, AnswerType DEF EnableCredentials
  <2> QED
    BY <1>3, <2>1, <2>2, <2>3 DEF EnableCredentials, AccountInv
<1>4. ASSUME NEW u \in User, NEW must \in BOOLEAN, ResetPassword(r, u, must)
      PROVE  AccountInv'
  <2>1. request[r].mode \in Mode
    BY <1>4, AdmittedActor DEF ResetPassword, Reauthorized
  <2> QED
    BY <1>4, <2>1, PasswordStep DEF ResetPassword
<1> QED
  BY <1>1, <1>2, <1>3, <1>4

LEMMA AccountsStepKeeps ==
  ASSUME AccountInv, AccountsStep
  PROVE  AccountInv'
  BY SignInSteps, TickStep, BootstrapStep, AdmitStep, RequestSteps DEF AccountsStep

-----------------------------------------------------------------------------
(* The steps of the employee records *)

LEMMA CheckedRequest ==
  ASSUME AccountInv, NEW r \in Request, IsChecked(r)
  PROVE  /\ request[r] \in Checked
         /\ request[r].target \in User
         /\ request[r].change \in Change
  BY DEF AccountInv, IsChecked, NoRequest, Admission, Checked

LEMMA ChangeType ==
  ASSUME NEW change \in Change
  PROVE  /\ change.op \in {"ACTIVATE", "DEACTIVATE", "ROLE", "MANAGER"}
         /\ change.op = "ROLE" => change.role \in Role
         /\ change.op = "MANAGER" => change.manager \in User \cup {Nobody}
  BY DEF Change

LEMMA CommitKeepsAccounts ==
  ASSUME AccountInv, NEW r \in Request, Commit(r)
  PROVE  AccountInv'
<1>1. PICK u \in User, change \in Change : u = request[r].target /\ change = request[r].change
  BY CheckedRequest DEF Commit
<1>2. Apply(u, change) /\ credential' = credential
  BY <1>1 DEF Commit
<1>3. request' \in [Request -> {NoRequest} \cup Admission \cup Checked]
  BY <1>1, TouchedType DEF Commit
<1>4. LosesSessions(u) => session' \in [Session -> LiveSession] /\ reading' \subseteq MockRead
  BY SessionKept DEF LosesSessions, Revoked
<1>5. KeepsSessions => session' \in [Session -> LiveSession] /\ reading' \subseteq MockRead
  BY DEF KeepsSessions, AccountInv
<1>6. session' \in [Session -> LiveSession] /\ reading' \subseteq MockRead
  BY <1>2, <1>4, <1>5 DEF Apply, Activate, Deactivate, SetRole, SetManager
<1>7. user' \in [User -> UserRec]
  <2>1. CASE Activate(u, change)
    <3>1. [user[u] EXCEPT !.active = TRUE] \in UserRec
      BY DEF AccountInv, UserRec
    <3> QED
      BY <2>1, <3>1 DEF Activate, AccountInv
  <2>2. CASE Deactivate(u, change)
    <3>1. [user[u] EXCEPT !.active = FALSE] \in UserRec
      BY DEF AccountInv, UserRec
    <3> QED
      BY <2>2, <3>1 DEF Deactivate, AccountInv
  <2>3. CASE SetRole(u, change)
    <3>1. change.role \in Role
      BY <2>3, ChangeType DEF SetRole
    <3>2. [user[u] EXCEPT !.role = change.role] \in UserRec
      BY <3>1 DEF AccountInv, UserRec
    <3> QED
      BY <2>3, <3>2 DEF SetRole, AccountInv
  <2>4. CASE SetManager(u, change)
    BY <2>4 DEF SetManager, AccountInv
  <2> QED
    BY <1>2, <2>1, <2>2, <2>3, <2>4 DEF Apply
<1> QED
  BY <1>2, <1>3, <1>6, <1>7 DEF AccountInv

LEMMA CheckKeepsAccounts ==
  ASSUME AccountInv, NEW r \in Request, NEW u \in User, NEW change \in Change, Check(r, u, change)
  PROVE  AccountInv'
<1>1. request[r].actor \in User
  BY AdmittedActor DEF Check
<1>2. [stage |-> "checked", actor |-> request[r].actor, target |-> u, change |-> change, fresh |-> TRUE] \in Checked
  BY <1>1 DEF Checked
<1> QED
  BY <1>2 DEF Check, AccountInv

LEMMA NewRecordKeepsAccounts ==
  ASSUME AccountInv, NEW r \in Request, NEW u \in User,
         \/ \E role \in Role, must \in BOOLEAN : CreateAccountAndProfile(r, u, role, must)
         \/ CreateEmployee(r, u) \/ CompleteWorkforceProfile(r, u)
         \/ \E m \in User \cup {Nobody} : CreateProfile(r, u, m)
  PROVE  AccountInv'
<1>1. \A role \in Role : [role |-> role, active |-> TRUE] \in UserRec
  BY DEF UserRec
<1>2. CASE \E role \in Role, must \in BOOLEAN : CreateAccountAndProfile(r, u, role, must)
  BY <1>1, <1>2, CleanLasts, AnswerType DEF CreateAccountAndProfile, CreateAccount, AccountInv
<1>3. CASE CreateEmployee(r, u)
  <2>1. "EMPLOYEE" \in Role
    BY AccountsAssumption
  <2> QED
    BY <1>1, <1>3, <2>1, AnswerType DEF CreateEmployee, AccountInv
<1>4. CASE CompleteWorkforceProfile(r, u) \/ \E m \in User \cup {Nobody} : CreateProfile(r, u, m)
  BY <1>4, AnswerType DEF CompleteWorkforceProfile, CreateProfile, AccountInv
<1> QED
  BY <1>2, <1>3, <1>4

LEMMA AccountsInductive ==
  ASSUME AccountInv, [PeopleNext]_peopleVars
  PROVE  AccountInv'
<1>1. CASE AccountsStep
  BY <1>1, AccountsStepKeeps
<1>2. CASE \E r \in Request : Commit(r)
  BY <1>2, CommitKeepsAccounts
<1>3. CASE \E r \in Request, u \in User, change \in Change : Check(r, u, change)
  BY <1>3, CheckKeepsAccounts
<1>4. CASE \E u \in User : TouchProfile(u)
  BY <1>4, TouchedType DEF TouchProfile, AccountInv
<1>5. CASE UNCHANGED peopleVars
  BY <1>5 DEF peopleVars, accountVars, AccountInv
<1> QED
  BY <1>1, <1>2, <1>3, <1>4, <1>5, NewRecordKeepsAccounts DEF PeopleNext

LEMMA AccountsInitially ==
  ASSUME PeopleInit
  PROVE  AccountInv
<1>1. user \in [User -> UserRec] /\ credential = StartCredential
  BY StartAssumption DEF PeopleInit
<1>2. \A u \in User : StartCredential[u] \in LastingRec
  BY StartAssumption, AccountsAssumption DEF LastingRec, CredentialRec
<1>3. credential \in [User -> LastingRec]
  BY <1>1, <1>2, StartAssumption
<1>4. session \in [Session -> LiveSession] /\ reading \subseteq MockRead
  BY DEF PeopleInit, LiveSession
<1> QED
  BY <1>1, <1>3, <1>4 DEF PeopleInit, AccountInv

LEMMA AccountsAlways == PeopleSpec => []AccountInv
<1>1. PeopleInit => AccountInv
  BY AccountsInitially
<1>2. AccountInv /\ [PeopleNext]_peopleVars => AccountInv'
  BY AccountsInductive
<1> QED
  BY <1>1, <1>2, PTL DEF PeopleSpec

(***************************************************************************)
(* No session that was opened with a password survives the deactivation of *)
(* its user, a new role or a new password.                                 *)
(***************************************************************************)
THEOREM AccessEndsSessions == PeopleSpec => []SessionsDieWithAccess
<1>1. AccountInv => SessionsDieWithAccess
  BY DEF AccountInv, LiveSession, NoSession, SessionsDieWithAccess
<1> QED
  BY <1>1, AccountsAlways, PTL

(***************************************************************************)
(* Whoever waits for the end of a lock starts with a new window: one wrong *)
(* password does not lock them again.                                      *)
(***************************************************************************)
THEOREM LocksEndWithTheirWindow == PeopleSpec => []FreshStartAfterLock
<1>1. ASSUME AccountInv
      PROVE  FreshStartAfterLock
  <2>1. \A u \in User : credential[u] \in CredentialRec /\
          (credential[u].failures = MaxFailures => credential[u].age + credential[u].left >= LockTime)
    BY <1>1 DEF AccountInv, LastingRec
  <2>2. \A u \in User : credential[u].age \in 0..LockTime
    BY <2>1 DEF CredentialRec
  <2> QED
    BY <2>1, <2>2, AccountsAssumption DEF FreshStartAfterLock, Expired
<1> QED
  BY <1>1, AccountsAlways, PTL

-----------------------------------------------------------------------------
(* Chains of managers *)

ManagerType == manager \in [User -> User \cup {Nobody, NoProfile}]

(* There is no circle of managers: in every group somebody reports to nobody in it. *)
Forest == \A S \in SUBSET User : S # {} => \E u \in S : manager[u] \notin S

(* Records are of users, and managers have records. *)
ProfileInv ==
  \A u \in User : HasProfile(u) => Exists(u) /\ (manager[u] \in User => HasProfile(manager[u]))
ActiveInv == \A u \in User : user[u].active => Exists(u)

LEMMA ChainHolds ==
  ASSUME NEW u \in User
  PROVE  u \in Chain(u) /\ HoldsManagers(Chain(u))
  BY DEF Chain, HoldsManagers

LEMMA ChainWithin ==
  ASSUME NEW u \in User, NEW S \in SUBSET User, u \in S, HoldsManagers(S)
  PROVE  Chain(u) \subseteq S
  BY DEF Chain

LEMMA ForestEnds ==
  ASSUME Forest, NEW u \in User
  PROVE  Ends(u)
<1>1. u \in Chain(u) /\ HoldsManagers(Chain(u)) /\ Chain(u) \in SUBSET User
  BY ChainHolds DEF Chain
<1>2. PICK v \in Chain(u) : manager[v] \notin Chain(u)
  BY <1>1 DEF Forest
<1> QED
  BY <1>1, <1>2 DEF Ends, HoldsManagers

(* A manager who is not below the employee closes no circle. *)
LEMMA ForestKept ==
  ASSUME ManagerType, Forest, NEW u \in User, NEW m \in User \cup {Nobody},
         m \in User => u \notin Chain(m), manager' = [manager EXCEPT ![u] = m]
  PROVE  Forest'
<1> SUFFICES ASSUME NEW S \in SUBSET User, S # {}, \A v \in S : manager'[v] \in S
             PROVE  FALSE
  BY DEF Forest
<1>1. manager'[u] = m /\ \A v \in User : v # u => manager'[v] = manager[v]
  BY DEF ManagerType
<1>2. CASE u \notin S
  BY <1>1, <1>2 DEF Forest
<1>3. CASE u \in S
  <2>1. m \in S /\ m \in User
    BY <1>1, <1>3
  <2> DEFINE T == S \cap Chain(m)
  <2>2. m \in T /\ u \notin T /\ T \in SUBSET User
    BY <2>1, ChainHolds
  <2>3. ASSUME NEW v \in T
        PROVE  manager[v] \in T
    BY <1>1, <2>1, <2>2, <2>3, ChainHolds DEF HoldsManagers
  <2> HIDE DEF T
  <2> QED
    BY <2>2, <2>3 DEF Forest
<1> QED
  BY <1>2, <1>3

(* Nobody without a record is in the chain of somebody who has one. *)
LEMMA ChainKept ==
  ASSUME ManagerType, ProfileInv, NEW u \in User, ~HasProfile(u), NEW x,
         manager' = [manager EXCEPT ![u] = x], NEW m \in User, HasProfile(m)
  PROVE  Chain(m)' \subseteq Chain(m)
<1> DEFINE C == Chain(m)
           S == C \ {u}
<1>1. m \in C /\ HoldsManagers(C) /\ C \in SUBSET User
  BY ChainHolds DEF Chain
<1>2. \A v \in C : manager[v] \in User => manager[v] # u
  BY <1>1, StartAssumption DEF ProfileInv, HasProfile
<1>3. m \in S /\ HoldsManagers(S) /\ S \in SUBSET User
  BY <1>1, <1>2 DEF HoldsManagers
<1>4. u \notin C
  BY <1>3, ChainWithin
<1>5. \A v \in C : manager'[v] = manager[v]
  BY <1>1, <1>4 DEF ManagerType
<1> QED
  BY <1>1, <1>5 DEF HoldsManagers, Chain

-----------------------------------------------------------------------------
(* The last super-administrator and the hierarchy *)

(* What a change was checked for still holds when nothing was written meanwhile. *)
StillAllowed(target, change) ==
  /\ change.op = "DEACTIVATE" => (user[target].role = "SUPER_ADMIN" => AnotherSuper)
  /\ change.op = "ROLE" => (ActiveSuper(target) /\ change.role # "SUPER_ADMIN" => AnotherSuper)
  /\ change.op = "MANAGER" /\ change.manager # Nobody => target \notin Chain(change.manager)

CheckedOK(target, change) ==
  /\ HasProfile(target)
  /\ change.op = "MANAGER" /\ change.manager # Nobody => HasProfile(change.manager)
  /\ overlapped \/ StillAllowed(target, change)

CheckedInv ==
  \A r \in Request : IsChecked(r) => CheckedOK(request[r].target, request[r].change)

AloneInv == overlapped \/ (Superiors # {} /\ Forest)

PeopleInv ==
  /\ AccountInv /\ ManagerType /\ overlapped \in BOOLEAN
  /\ ProfileInv /\ ActiveInv /\ CheckedInv /\ AloneInv

LEMMA AnotherRemains ==
  ASSUME AnotherSuper, NEW u \in User
  PROVE  \E v \in Superiors : v # u
<1>1. IsFiniteSet(User) /\ Superiors \subseteq User
  BY AccountsAssumption DEF Superiors
<1>2. IsFiniteSet({u}) /\ Cardinality({u}) = 1
  BY FS_Singleton
<1>3. ASSUME Superiors \subseteq {u}
      PROVE  FALSE
  <2>1. Cardinality(Superiors) <= Cardinality({u})
    BY <1>2, <1>3, FS_Subset
  <2>2. Cardinality(Superiors) \in Nat
    BY <1>1, FS_Subset, FS_CardinalityType
  <2> QED
    BY <1>2, <2>1, <2>2 DEF AnotherSuper
<1> QED
  BY <1>3

(* Users there are stay as they are, and at most one record is new. *)
Grows ==
  /\ \A u \in User : Exists(u) => user'[u] = user[u]
  /\ ActiveInv'
  /\ overlapped' = overlapped
  /\ \/ manager' = manager
     \/ \E u \in User, m \in User \cup {Nobody} :
          /\ ~HasProfile(u) /\ Exists(u)'
          /\ m \in User => HasProfile(m) /\ u \notin Chain(m)
          /\ manager' = [manager EXCEPT ![u] = m]

LEMMA SuperiorsGrow ==
  ASSUME Grows
  PROVE  /\ Superiors \subseteq Superiors'
         /\ AnotherSuper => AnotherSuper'
<1>1. Superiors \subseteq Superiors'
  BY AccountsAssumption DEF Grows, Superiors, ActiveSuper, Exists
<1>2. Superiors' \subseteq User /\ IsFiniteSet(User)
  BY AccountsAssumption DEF Superiors
<1>3. IsFiniteSet(Superiors') /\ Cardinality(Superiors) <= Cardinality(Superiors')
  BY <1>1, <1>2, FS_Subset
<1>4. Cardinality(Superiors) \in Nat /\ Cardinality(Superiors') \in Nat
  BY <1>1, <1>3, FS_Subset, FS_CardinalityType
<1> QED
  BY <1>1, <1>3, <1>4 DEF AnotherSuper

LEMMA ProfilesGrow ==
  ASSUME PeopleInv, Grows
  PROVE  /\ ManagerType'
         /\ \A u \in User : HasProfile(u) => HasProfile(u)' /\ manager'[u] = manager[u]
         /\ ProfileInv'
         /\ Forest => Forest'
         /\ \A m \in User : HasProfile(m) => Chain(m)' \subseteq Chain(m)
<1>1. ManagerType /\ ProfileInv
  BY DEF PeopleInv
<1>2. \A u \in User : Exists(u) => Exists(u)'
  BY DEF Grows, Exists
<1>3. CASE manager' = manager
  BY <1>1, <1>2, <1>3 DEF ManagerType, HasProfile, ProfileInv, Forest, Chain, HoldsManagers
<1>4. ASSUME NEW u \in User, NEW m \in User \cup {Nobody}, ~HasProfile(u), Exists(u)',
             m \in User => HasProfile(m) /\ u \notin Chain(m), manager' = [manager EXCEPT ![u] = m]
      PROVE  /\ ManagerType'
             /\ \A v \in User : HasProfile(v) => HasProfile(v)' /\ manager'[v] = manager[v]
             /\ ProfileInv'
             /\ Forest => Forest'
             /\ \A v \in User : HasProfile(v) => Chain(v)' \subseteq Chain(v)
  <2>1. manager'[u] = m /\ \A v \in User : v # u => manager'[v] = manager[v]
    BY <1>1, <1>4 DEF ManagerType
  <2>2. ManagerType'
    BY <1>1, <1>4 DEF ManagerType
  <2>3. \A v \in User : HasProfile(v) => HasProfile(v)' /\ manager'[v] = manager[v]
    BY <1>4, <2>1 DEF HasProfile
  <2>4. ASSUME NEW v \in User, HasProfile(v)'
        PROVE  Exists(v)' /\ (manager'[v] \in User => HasProfile(manager[v])')
    <3>1. CASE v = u
      <4>1. m \in User => HasProfile(m)'
        BY <1>4, <2>3
      <4> QED
        BY <1>4, <2>1, <3>1, <4>1 DEF HasProfile
    <3>2. CASE v # u
      <4>1. HasProfile(v) /\ manager'[v] = manager[v]
        BY <2>1, <2>4, <3>2 DEF HasProfile
      <4>2. Exists(v) /\ (manager[v] \in User => HasProfile(manager[v]))
        BY <1>1, <4>1 DEF ProfileInv
      <4>3. manager[v] \in User => manager'[manager[v]] # NoProfile
        BY <2>3, <4>2 DEF HasProfile
      <4> QED
        BY <1>2, <4>1, <4>2, <4>3 DEF HasProfile
    <3> QED
      BY <3>1, <3>2
  <2>5. Forest => Forest'
    BY <1>1, <1>4, ForestKept
  <2>6. \A v \in User : HasProfile(v) => Chain(v)' \subseteq Chain(v)
    BY <1>1, <1>4, ChainKept
  <2>7. ProfileInv'
    BY <2>4 DEF ProfileInv
  <2> QED
    BY <2>2, <2>3, <2>5, <2>6, <2>7
<1> QED
  BY <1>3, <1>4 DEF Grows

LEMMA CheckedGrows ==
  ASSUME PeopleInv, Grows, NEW target \in User, NEW change \in Change, CheckedOK(target, change)
  PROVE  CheckedOK(target, change)'
<1>1. HasProfile(target) /\ Exists(target) /\ user'[target] = user[target]
  BY DEF CheckedOK, PeopleInv, ProfileInv, Grows
<1>2. change.op = "MANAGER" => change.manager \in User \cup {Nobody}
  BY ChangeType
<1>3. change.op = "MANAGER" /\ change.manager # Nobody => HasProfile(change.manager)'
  BY <1>2, ProfilesGrow DEF CheckedOK
<1>4. StillAllowed(target, change) => StillAllowed(target, change)'
  <2>1. ASSUME change.op = "MANAGER", change.manager # Nobody, target \notin Chain(change.manager)
        PROVE  target \notin Chain(change.manager)'
    BY <1>2, <2>1, ProfilesGrow DEF CheckedOK
  <2> QED
    BY <1>1, <2>1, SuperiorsGrow DEF StillAllowed, ActiveSuper
<1> QED
  BY <1>1, <1>3, <1>4, ProfilesGrow DEF CheckedOK, Grows

(* Requests that are checked afterwards were checked before, for the same change. *)
NoNewChecks ==
  \A r \in Request : IsChecked(r)' =>
    IsChecked(r) /\ request'[r].target = request[r].target /\ request'[r].change = request[r].change

LEMMA GrowthKeeps ==
  ASSUME PeopleInv, AccountInv', Grows, NoNewChecks
  PROVE  PeopleInv'
<1>1. ManagerType' /\ ProfileInv' /\ overlapped' \in BOOLEAN
  BY ProfilesGrow DEF PeopleInv, Grows
<1>2. CheckedInv'
  <2>1. ASSUME NEW r \in Request, IsChecked(r)', NEW target, NEW change,
               target = request'[r].target, change = request'[r].change
        PROVE  CheckedOK(target, change)'
    <3>1. IsChecked(r) /\ target = request[r].target /\ change = request[r].change
      BY <2>1 DEF NoNewChecks
    <3>2. target \in User /\ change \in Change
      BY <3>1, CheckedRequest DEF PeopleInv
    <3>3. CheckedOK(target, change)
      BY <3>1 DEF PeopleInv, CheckedInv
    <3> QED
      BY <3>2, <3>3, CheckedGrows
  <2> QED
    BY <2>1 DEF CheckedInv, CheckedOK, StillAllowed, HasProfile, ActiveSuper, Chain, HoldsManagers
<1>3. AloneInv'
  BY SuperiorsGrow, ProfilesGrow DEF AloneInv, PeopleInv, Grows
<1> QED
  BY <1>1, <1>2, <1>3 DEF PeopleInv, Grows

LEMMA NothingWrittenKeeps ==
  ASSUME PeopleInv, AccountInv', UNCHANGED <<user, manager, overlapped>>, NoNewChecks
  PROVE  PeopleInv'
<1>1. Grows
  BY DEF Grows, PeopleInv, ActiveInv, Exists
<1> QED
  BY <1>1, GrowthKeeps

LEMMA TouchedChecks ==
  ASSUME AccountInv, NEW u, NEW r \in Request, Touched(request, u)[r].stage = "checked"
  PROVE  /\ IsChecked(r)
         /\ Touched(request, u)[r].target = request[r].target
         /\ Touched(request, u)[r].change = request[r].change
<1>1. IsChecked(r)
  BY DEF Touched, IsChecked
<1>2. request[r] \in Checked
  BY <1>1, CheckedRequest
<1> QED
  BY <1>1, <1>2 DEF Touched, Checked

LEMMA AnswerChecks ==
  ASSUME AccountInv, NEW r \in Request, Answer(r)
  PROVE  NoNewChecks
  BY DEF Answer, NoNewChecks, IsChecked, NoRequest, AccountInv

LEMMA AccountsStepChecks ==
  ASSUME AccountInv, AccountsStep
  PROVE  NoNewChecks /\ user' = user
<1>1. ASSUME request' = request, user' = user
      PROVE  NoNewChecks /\ user' = user
  BY <1>1 DEF NoNewChecks, IsChecked
<1>2. ASSUME NEW r \in Request, Answer(r), user' = user
      PROVE  NoNewChecks /\ user' = user
  BY <1>2, AnswerChecks
<1>3. ASSUME NEW r \in Request, NEW s \in Session, NEW kind \in {"ADMINISTER", "CHANGE_PASSWORD"}, Admit(r, s, kind)
      PROVE  NoNewChecks /\ user' = user
  BY <1>3 DEF Admit, NoNewChecks, IsChecked, Admitted, AccountInv
<1>4. CASE \/ \E u \in User, s \in Session : SignIn(u, s)
           \/ \E u \in User : RefuseSignIn(u) \/ ReadForMock(u)
           \/ \E s \in Session : BeginMock(s) \/ EndSession(s)
           \/ Tick \/ Bootstrap
  BY <1>1, <1>4 DEF SignIn, RefuseSignIn, ReadForMock, BeginMock, EndSession, Tick, Bootstrap
<1>5. CASE \/ \E r \in Request : Refuse(r) \/ ChangeOwnPassword(r)
           \/ \E r \in Request, u \in User, must \in BOOLEAN :
                EnableCredentials(r, u, must) \/ ResetPassword(r, u, must)
  BY <1>2, <1>5 DEF Refuse, ChangeOwnPassword, EnableCredentials, ResetPassword, NewPassword
<1> QED
  BY <1>3, <1>4, <1>5 DEF AccountsStep

LEMMA NewRecordGrows ==
  ASSUME PeopleInv, NEW r \in Request, NEW u \in User,
         \/ \E role \in Role, must \in BOOLEAN : CreateAccountAndProfile(r, u, role, must)
         \/ CreateEmployee(r, u) \/ CompleteWorkforceProfile(r, u)
         \/ \E m \in User \cup {Nobody} : CreateProfile(r, u, m)
  PROVE  Grows /\ Answer(r)
<1>1. AccountInv /\ ManagerType /\ ProfileInv /\ ActiveInv
  BY DEF PeopleInv
<1>2. ASSUME ~Exists(u), NEW role \in Role, user' = [user EXCEPT ![u] = [role |-> role, active |-> TRUE]],
             NewProfile(u, Nobody)
      PROVE  Grows
  <2>1. ~HasProfile(u)
    BY <1>1, <1>2 DEF ProfileInv
  <2>2. Exists(u)' /\ \A v \in User : v # u => user'[v] = user[v]
    BY <1>1, <1>2, AccountsAssumption DEF Exists, AccountInv
  <2>3. ActiveInv'
    BY <1>1, <2>2 DEF ActiveInv, Exists
  <2> QED
    BY <1>2, <2>1, <2>2, <2>3, AccountsAssumption DEF Grows, NewProfile
<1>3. ASSUME user[u].active, ~HasProfile(u), user' = user, NEW m \in User \cup {Nobody},
             m \in User => HasProfile(m) /\ u \notin Chain(m), NewProfile(u, m)
      PROVE  Grows
  <2>1. Exists(u)' /\ ActiveInv'
    BY <1>1, <1>3 DEF Exists, ActiveInv
  <2> QED
    BY <1>3, <2>1 DEF Grows, NewProfile
<1>4. CASE \E role \in Role, must \in BOOLEAN : CreateAccountAndProfile(r, u, role, must)
  BY <1>2, <1>4 DEF CreateAccountAndProfile, CreateAccount
<1>5. CASE CreateEmployee(r, u)
  <2>1. "EMPLOYEE" \in Role
    BY AccountsAssumption
  <2> QED
    BY <1>2, <1>5, <2>1 DEF CreateEmployee
<1>6. CASE CompleteWorkforceProfile(r, u)
  BY <1>3, <1>6, AccountsAssumption DEF CompleteWorkforceProfile
<1>7. CASE \E m \in User \cup {Nobody} : CreateProfile(r, u, m)
  BY <1>3, <1>7, AccountsAssumption DEF CreateProfile, ValidManager
<1> QED
  BY <1>4, <1>5, <1>6, <1>7

LEMMA CheckKeeps ==
  ASSUME PeopleInv, AccountInv', NEW r \in Request, NEW u \in User, NEW change \in Change, Check(r, u, change)
  PROVE  PeopleInv'
<1>1. /\ UNCHANGED <<user, manager, overlapped>>
      /\ HasProfile(u) /\ MayChange(u, change)
      /\ request' = [request EXCEPT ![r] = [stage |-> "checked", actor |-> request[r].actor,
                                            target |-> u, change |-> change, fresh |-> TRUE]]
  BY DEF Check
<1>2. /\ request'[r].target = u /\ request'[r].change = change
      /\ \A s \in Request : s # r => request'[s] = request[s]
  BY <1>1 DEF PeopleInv, AccountInv
<1>3. CheckedOK(u, change)
  <2>1. change.op \in {"ACTIVATE", "DEACTIVATE", "ROLE", "MANAGER"}
    BY ChangeType
  <2> QED
    BY <1>1, <2>1 DEF CheckedOK, StillAllowed, MayChange, ValidManager
<1>4. \A s \in Request : IsChecked(s)' => CheckedOK(request'[s].target, request'[s].change)
  BY <1>2, <1>3 DEF PeopleInv, CheckedInv, IsChecked
<1>5. CheckedInv'
  BY <1>1, <1>4 DEF CheckedInv, CheckedOK, StillAllowed, HasProfile, ActiveSuper, AnotherSuper, Superiors,
       Chain, HoldsManagers
<1> QED
  BY <1>1, <1>5 DEF PeopleInv, ManagerType, ProfileInv, ActiveInv, HasProfile, Exists, AloneInv, Superiors,
       ActiveSuper, Forest

(* The one change that nothing overlapped leaves a super-administrator and the hierarchy. *)
LEMMA ApplyLeaves ==
  ASSUME AccountInv, ManagerType, Superiors # {}, Forest, NEW u \in User, NEW change \in Change,
         StillAllowed(u, change), Apply(u, change)
  PROVE  Superiors' # {} /\ Forest'
<1>1. /\ change.op = "ROLE" => change.role \in Role
      /\ change.op = "MANAGER" => change.manager \in User \cup {Nobody}
  BY ChangeType
<1>2. manager' = manager => Forest'
  BY DEF Forest
<1>3. ASSUME NEW v \in Superiors, user'[v] = user[v]
      PROVE  Superiors' # {}
  BY <1>3 DEF Superiors, ActiveSuper
<1>4. CASE Activate(u, change)
  <2>1. \A v \in Superiors : v \in Superiors'
    BY <1>4 DEF Activate, Superiors, ActiveSuper, AccountInv, UserRec
  <2> QED
    BY <1>2, <1>4, <2>1 DEF Activate
<1>5. CASE Deactivate(u, change) \/ SetRole(u, change)
  <2>1. manager' = manager /\ \A v \in User : v # u => user'[v] = user[v]
    BY <1>5 DEF Deactivate, SetRole, AccountInv
  <2>2. CASE AnotherSuper
    <3>1. PICK v \in Superiors : v # u
      BY <2>2, AnotherRemains
    <3> QED
      BY <1>2, <1>3, <2>1, <3>1 DEF Superiors
  <2>3. CASE ~AnotherSuper /\ u \notin Superiors
    <3>1. PICK v \in Superiors : v # u
      BY <2>3
    <3> QED
      BY <1>2, <1>3, <2>1, <3>1 DEF Superiors
  <2>4. CASE ~AnotherSuper /\ u \in Superiors
    <3>1. SetRole(u, change) /\ change.role = "SUPER_ADMIN" /\ ActiveSuper(u)
      BY <1>5, <2>4 DEF StillAllowed, Deactivate, SetRole, Superiors, ActiveSuper
    <3>2. [user[u] EXCEPT !.role = "SUPER_ADMIN"] = user[u]
      BY <3>1 DEF ActiveSuper, AccountInv, UserRec
    <3>3. user'[u] = user[u]
      BY <3>1, <3>2 DEF SetRole, AccountInv
    <3> QED
      BY <1>2, <1>3, <2>1, <2>4, <3>3
  <2> QED
    BY <2>2, <2>3, <2>4
<1>6. CASE SetManager(u, change)
  <2>1. /\ user' = user /\ change.op = "MANAGER"
        /\ manager' = [manager EXCEPT ![u] = change.manager]
    BY <1>6 DEF SetManager, KeepsSessions
  <2>2. change.manager \in User => u \notin Chain(change.manager)
    BY <2>1, AccountsAssumption DEF StillAllowed
  <2>3. Forest'
    BY <1>1, <2>1, <2>2, ForestKept
  <2> QED
    BY <2>1, <2>3 DEF Superiors, ActiveSuper
<1> QED
  BY <1>4, <1>5, <1>6 DEF Apply

LEMMA CommitKeeps ==
  ASSUME PeopleInv, AccountInv', NEW r \in Request, Commit(r)
  PROVE  PeopleInv'
<1>1. PICK u \in User, change \in Change : u = request[r].target /\ change = request[r].change
  BY CheckedRequest DEF Commit, PeopleInv
<1>2. /\ Apply(u, change) /\ IsChecked(r)
      /\ request' = [Touched(request, u) EXCEPT ![r] = NoRequest]
      /\ overlapped' = (overlapped \/ \E other \in Request \ {r} : IsChecked(other))
  BY <1>1 DEF Commit
<1>3. AccountInv /\ ManagerType /\ ProfileInv /\ ActiveInv /\ CheckedOK(u, change)
  BY <1>1, <1>2 DEF PeopleInv, CheckedInv
<1>4. overlapped' \in BOOLEAN
  BY <1>2 DEF PeopleInv
<1>5. /\ change.op = "ROLE" => change.role \in Role
      /\ change.op = "MANAGER" => change.manager \in User \cup {Nobody}
  BY ChangeType
<1>6. \A v \in User : Exists(v) => Exists(v)'
  <2>1. user \in [User -> UserRec] /\ \A role \in Role : role # "NONE"
    BY <1>3, AccountsAssumption DEF AccountInv
  <2>2. CASE Activate(u, change) \/ Deactivate(u, change)
    BY <2>1, <2>2 DEF Activate, Deactivate, Exists, UserRec
  <2>3. CASE SetRole(u, change)
    BY <1>5, <2>1, <2>3 DEF SetRole, Exists, UserRec
  <2>4. CASE SetManager(u, change)
    BY <2>4 DEF SetManager, Exists
  <2> QED
    BY <1>2, <2>2, <2>3, <2>4 DEF Apply
<1>7. ActiveInv'
  <2>1. HasProfile(u) /\ Exists(u)
    BY <1>3 DEF CheckedOK, ProfileInv
  <2>2. \A v \in User : v # u => user'[v] = user[v]
    BY <1>2, <1>3 DEF Apply, Activate, Deactivate, SetRole, SetManager, KeepsSessions, AccountInv
  <2> QED
    BY <1>3, <1>6, <2>1, <2>2 DEF ActiveInv, Exists
<1>8. \/ manager' = manager
      \/ /\ manager' = [manager EXCEPT ![u] = change.manager]
         /\ change.manager \in User \cup {Nobody}
         /\ change.manager # Nobody => HasProfile(change.manager)
  BY <1>2, <1>3, <1>5 DEF Apply, Activate, Deactivate, SetRole, SetManager, CheckedOK
<1>9. ManagerType' /\ \A v \in User : HasProfile(v)' <=> HasProfile(v)
  BY <1>3, <1>8, StartAssumption DEF ManagerType, HasProfile, CheckedOK
<1>10. ProfileInv'
  <2>1. SUFFICES ASSUME NEW v \in User, HasProfile(v)'
                 PROVE  Exists(v)' /\ (manager'[v] \in User => HasProfile(manager[v])')
    BY DEF ProfileInv
  <2>2. HasProfile(v) /\ Exists(v)'
    BY <1>3, <1>6, <1>9, <2>1 DEF ProfileInv
  <2>3. manager'[v] = manager[v] \/ (manager'[v] = change.manager /\ change.manager \in User \cup {Nobody}
                                       /\ (change.manager # Nobody => HasProfile(change.manager)))
    BY <1>3, <1>8 DEF ManagerType
  <2>4. manager'[v] \in User => HasProfile(manager'[v])
    BY <1>3, <2>2, <2>3, AccountsAssumption DEF ProfileInv
  <2>5. manager'[v] \in User => manager'[manager'[v]] # NoProfile
    BY <1>9, <2>4 DEF HasProfile
  <2> QED
    BY <2>2, <2>5 DEF HasProfile
<1>11. ASSUME NEW s \in Request, IsChecked(s)'
       PROVE  /\ s # r /\ IsChecked(s) /\ overlapped'
              /\ request'[s].target = request[s].target
              /\ request'[s].change = request[s].change
  <2>1. s # r /\ request'[s] = Touched(request, u)[s]
    BY <1>2, <1>3, <1>11, TouchedType DEF IsChecked, NoRequest
  <2>2. Touched(request, u)[s].stage = "checked"
    BY <1>11, <2>1 DEF IsChecked
  <2>3. /\ IsChecked(s)
        /\ Touched(request, u)[s].target = request[s].target
        /\ Touched(request, u)[s].change = request[s].change
    BY <1>3, <2>2, TouchedChecks
  <2> QED
    BY <1>2, <2>1, <2>3
<1>12. CheckedInv'
  <2>1. ASSUME NEW s \in Request, IsChecked(s)', NEW target, NEW c,
               target = request'[s].target, c = request'[s].change
        PROVE  CheckedOK(target, c)'
    <3>1. target \in User /\ c \in Change /\ CheckedOK(target, c)
      BY <1>3, <1>11, <2>1, CheckedRequest DEF PeopleInv, CheckedInv
    <3>2. c.op = "MANAGER" => c.manager \in User \cup {Nobody}
      BY <3>1, ChangeType
    <3> QED
      BY <1>9, <1>11, <2>1, <3>1, <3>2 DEF CheckedOK
  <2> QED
    BY <2>1 DEF CheckedInv, CheckedOK, StillAllowed, HasProfile, ActiveSuper, Chain, HoldsManagers
<1>13. AloneInv'
  BY <1>2, <1>3, ApplyLeaves DEF AloneInv, PeopleInv, CheckedOK
<1> QED
  BY <1>4, <1>7, <1>9, <1>10, <1>12, <1>13 DEF PeopleInv

LEMMA PeopleAlways == PeopleSpec => []PeopleInv
<1>1. ASSUME PeopleInit
      PROVE  PeopleInv
  <2>1. user \in StartUser /\ manager = StartManager /\ overlapped = FALSE
    BY <1>1 DEF PeopleInit
  <2>2. ManagerType /\ ProfileInv /\ ActiveInv
    BY <2>1, StartAssumption DEF ManagerType, ProfileInv, ActiveInv, HasProfile, Exists
  <2>3. Superiors # {} /\ Forest
    BY <2>1, StartAssumption DEF Superiors, ActiveSuper, Forest
  <2>4. CheckedInv
    BY <1>1 DEF PeopleInit, CheckedInv, IsChecked, NoRequest
  <2>5. AccountInv
    BY <1>1, AccountsInitially
  <2> QED
    BY <2>1, <2>2, <2>3, <2>4, <2>5 DEF PeopleInv, AloneInv
<1>2. ASSUME PeopleInv, [PeopleNext]_peopleVars
      PROVE  PeopleInv'
  <2>1. AccountInv'
    BY <1>2, AccountsInductive DEF PeopleInv
  <2>2. CASE AccountsStep /\ UNCHANGED <<manager, overlapped>>
    BY <1>2, <2>1, <2>2, AccountsStepChecks, NothingWrittenKeeps DEF PeopleInv
  <2>3. CASE \E r \in Request : Commit(r)
    BY <1>2, <2>1, <2>3, CommitKeeps
  <2>4. CASE \E r \in Request, u \in User, change \in Change : Check(r, u, change)
    BY <1>2, <2>1, <2>4, CheckKeeps
  <2>5. ASSUME NEW u \in User, TouchProfile(u)
        PROVE  PeopleInv'
    <3>1. UNCHANGED <<user, manager, overlapped>> /\ request' = Touched(request, u)
      BY <2>5 DEF TouchProfile
    <3>2. NoNewChecks
      BY <1>2, <3>1, TouchedChecks DEF NoNewChecks, IsChecked, PeopleInv
    <3> QED
      BY <1>2, <2>1, <3>1, <3>2, NothingWrittenKeeps
  <2>6. ASSUME NEW r \in Request, NEW u \in User,
               \/ \E role \in Role, must \in BOOLEAN : CreateAccountAndProfile(r, u, role, must)
               \/ CreateEmployee(r, u) \/ CompleteWorkforceProfile(r, u)
               \/ \E m \in User \cup {Nobody} : CreateProfile(r, u, m)
        PROVE  PeopleInv'
    <3>1. Grows /\ Answer(r)
      BY <1>2, <2>6, NewRecordGrows
    <3>2. NoNewChecks
      BY <1>2, <3>1, AnswerChecks DEF PeopleInv
    <3> QED
      BY <1>2, <2>1, <3>1, <3>2, GrowthKeeps
  <2>7. CASE UNCHANGED peopleVars
    <3>1. UNCHANGED <<user, manager, overlapped>> /\ NoNewChecks
      BY <2>7 DEF peopleVars, accountVars, NoNewChecks, IsChecked
    <3> QED
      BY <1>2, <2>1, <3>1, NothingWrittenKeeps
  <2> QED
    BY <1>2, <2>2, <2>3, <2>4, <2>5, <2>6, <2>7 DEF PeopleNext
<1> QED
  BY <1>1, <1>2, PTL DEF PeopleSpec

(***************************************************************************)
(* While changes are written one after the other, the count of the other   *)
(* super-administrators keeps one of them, whoever acts on whom.           *)
(***************************************************************************)
THEOREM OneSuperAdminStays == PeopleSpec => []SuperAdminRemainsAlone
<1>1. PeopleInv => SuperAdminRemainsAlone
  BY DEF PeopleInv, AloneInv, SuperAdminRemainsAlone
<1> QED
  BY <1>1, PeopleAlways, PTL

(***************************************************************************)
(* ... and the check of the chain of managers keeps the hierarchy a forest *)
(* by any sequence of changes, new records included.                       *)
(***************************************************************************)
THEOREM HierarchyStays == PeopleSpec => []HierarchyEndsAlone
<1>1. PeopleInv => HierarchyEndsAlone
  BY ForestEnds DEF PeopleInv, AloneInv, HierarchyEndsAlone
<1> QED
  BY <1>1, PeopleAlways, PTL
=============================================================================
