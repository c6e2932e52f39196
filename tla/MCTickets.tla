----------------------------- MODULE MCTickets ------------------------------
(***************************************************************************)
(* An administrator of one workspace, an employee in their team, who also  *)
(* makes tickets, and another employee.  One board, one ticket, one file.  *)
(* A run covers four slices of the behaviours, chosen at the start: in     *)
(* "sharing" all commands but no change of anybody's access; "authority"   *)
(* and "reads" change the access of one person at a time under commands    *)
(* and under a read; "files" follows uploads.                              *)
(***************************************************************************)
EXTENDS Tickets, TLC

CONSTANTS boss, emp, eva, red, w1

WithAccess(role, teams, spaces, team) ==
  [role |-> role, active |-> TRUE, session |-> TRUE, teams |-> teams, spaces |-> spaces,
   team |-> team, lapsed |-> FALSE]
MCPerson == {boss, emp, eva}
MCEmployees == {emp, eva}
MCOperators == {boss, emp}
MCStartPerson == [p \in MCPerson |->
  IF p = boss THEN WithAccess("ADMIN", {red}, {w1}, NoOne) ELSE WithAccess("EMPLOYEE", {}, {}, red)]
MCBoardSpace == [b \in Board |-> w1]

VARIABLE slice
Slices == {"sharing", "authority", "reads", "files"}
mcVars == <<ticketVars, slice>>

InUse ==
  [sharing |-> {"NEW_SPACE", "NEW_BOARD", "BOARD", "CREATE", "PARTICIPANTS", "ARCHIVE", "RESTORE",
                "ADD_MEMBER", "REMOVE_MEMBER"},
   authority |-> {"NEW_SPACE", "NEW_BOARD", "CREATE", "LOG", "PARTICIPANTS", "ADD_MEMBER"},
   reads |-> {"NEW_SPACE", "NEW_BOARD", "CREATE", "PARTICIPANTS", "REMOVE_MEMBER", "RENAME", "BOARD"},
   files |-> {"NEW_SPACE", "NEW_BOARD", "CREATE", "EDIT", "ATTACH", "DOWNLOAD", "ARCHIVE_FILE", "RESTORE_FILE"}]
Commands(ops) == \A i \in Tx : tx'[i].stage = "command" => tx'[i].request.op \in ops
NoReads == \A i \in Reader : tx'[i] = Idle
NoFiles == \A f \in TFile : tfile'[f] = NoFile
NoObservers == \A t \in Ticket : ticket'[t] # NoTicket => ticket'[t].observers = {}
OneAssignee == \A t \in Ticket : ticket'[t] # NoTicket => Cardinality(ticket'[t].assignees) <= 1
PublicBoards == \A b \in Board : board'[b] \in {"NONE", "PUBLISHED"}

\* One person at a time is denied something, in one way.
Ways == {{"active", "session", "lapsed"}, {"role", "session"}, {"teams"}, {"spaces"}, {"team"}}
Altered(p) == {x \in DOMAIN person[p] : person'[p][x] # MCStartPerson[p][x]}
OneDenial(ways) ==
  person' # person =>
    /\ \E p \in Changing : \A o \in Changing \ {p} : Altered(o) = {}
    /\ \A p \in Changing : Altered(p) = {} \/ \E way \in ways : Altered(p) \subseteq way

Slice ==
  /\ Commands(InUse[slice])
  /\ slice = "sharing" => UNCHANGED person /\ NoReads /\ NoFiles
  /\ slice = "authority" => NoReads /\ NoFiles /\ NoObservers /\ OneAssignee /\ PublicBoards /\ OneDenial(Ways)
  /\ slice = "reads" => NoFiles /\ NoObservers /\ OneAssignee /\ OneDenial({{"active", "session", "lapsed"}, {"teams"}, {"team"}})
  /\ slice = "files" => UNCHANGED person /\ NoReads /\ NoObservers /\ PublicBoards

MCInit == TicketsInit /\ slice \in Slices
MCNext == TicketsNext /\ Slice /\ UNCHANGED slice
MCSpec == MCInit /\ [][MCNext]_mcVars

Symmetry == Permutations(Writer)
=============================================================================
