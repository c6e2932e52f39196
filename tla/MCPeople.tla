------------------------------ MODULE MCPeople ------------------------------
(***************************************************************************)
(* Two super-administrators, and one more person whose account may be made *)
(* or who has one without a record.  A run covers two slices of the        *)
(* behaviours, chosen at the start: in "sessions" wrong passwords are      *)
(* tried on one account and mock sign-in is allowed; in "changes" two      *)
(* requests are in flight at once; in "arrivals" the third person appears. *)
(***************************************************************************)
EXTENDS People, TLC

CONSTANTS Super, Late, Guessed

MCStartUser ==
  {[u \in User |-> IF u \in Super THEN [role |-> "SUPER_ADMIN", active |-> TRUE] ELSE late] :
     late \in {NoUser, [role |-> "EMPLOYEE", active |-> TRUE]}}
MCStartCredential == [u \in User |-> IF u \in Super THEN Clean(FALSE) ELSE NoCredential]
MCApproved == [u \in Late |-> "EMPLOYEE"]
MCStartManager == [u \in User |-> IF u \in Super THEN Nobody ELSE NoProfile]

VARIABLE slice

OneRequest == \A r, o \in Request : request'[r] # NoRequest /\ request'[o] # NoRequest => r = o
OneSession == \A s, t \in Session :
  session'[s] # NoSession /\ session'[t] # NoSession => s = t \/ session'[s].user # session'[t].user
NobodyMistypes(users) == \A u \in users : credential'[u].failures = 0
NobodyArrives == \A u \in Late : ~Exists(u)' /\ credential'[u] = NoCredential
Quiet == NobodyMistypes(User) /\ OneSession /\ reading' = {} /\ \A u \in User : ~credential'[u].must

Slice ==
  \/ slice = "sessions" /\ OneRequest /\ NobodyMistypes(User \ Guessed) /\ NobodyArrives /\ UNCHANGED manager
  \/ slice = "changes" /\ Quiet /\ NobodyArrives
  \/ slice = "arrivals" /\ Quiet /\ OneRequest

MCInit ==
  /\ PeopleInit /\ slice \in {"sessions", "changes", "arrivals"}
  /\ slice # "arrivals" => \A u \in Late : ~Exists(u)
MCSpec == MCInit /\ [][PeopleNext /\ Slice /\ UNCHANGED slice]_<<peopleVars, slice>>

Symmetry == Permutations(Session) \cup Permutations(Request)
=============================================================================
