----------------------------- MODULE Directory -----------------------------
(***************************************************************************)
(* The operations and employee services as planning sees them: clients,    *)
(* projects, locations and employees leave service and come back, and none *)
(* of these transactions looks at schedules, leave or bookings.            *)
(***************************************************************************)
EXTENDS Plans

CONSTANTS Leavers,  \* bound: employees whose accounts are (de)activated
          Closing,  \* bound: sites whose project or location changes status
          Leaving   \* bound: clients that are archived or reactivated

ASSUME DirectoryAssumption ==
  Leavers \subseteq Employee /\ Closing \subseteq Site /\ Leaving \subseteq Client

SetEmployeeActive(e, active) ==
  /\ employed' = [employed EXCEPT ![e] = active]
  /\ UNCHANGED <<project, reachable, clientLive, scheduleVars, leaveVars, bookingVars>>

(* updateProject: neither the client's status nor any schedule is checked. *)
UpdateProject(s, status) ==
  /\ project' = [project EXCEPT ![s] = status]
  /\ UNCHANGED <<employed, reachable, clientLive, scheduleVars, leaveVars, bookingVars>>

(* setLocationArchived, linkProjectLocation and unlinkProjectLocation. *)
SetReachable(s, open) ==
  /\ reachable' = [reachable EXCEPT ![s] = open]
  /\ UNCHANGED <<employed, project, clientLive, scheduleVars, leaveVars, bookingVars>>

SetClientArchived(c, archived) ==
  /\ archived => \A s \in Site : OwnerOf[s] = c => project[s] # "UNFINISHED"
  /\ clientLive' = [clientLive EXCEPT ![c] = ~archived]
  /\ UNCHANGED <<employed, project, reachable, scheduleVars, leaveVars, bookingVars>>

DirectoryNext ==
  \/ \E e \in Leavers, active \in BOOLEAN : SetEmployeeActive(e, active)
  \/ \E s \in Closing, status \in ProjectStatus : UpdateProject(s, status)
  \/ \E s \in Closing, open \in BOOLEAN : SetReachable(s, open)
  \/ \E c \in Leaving, archived \in BOOLEAN : SetClientArchived(c, archived)
=============================================================================
