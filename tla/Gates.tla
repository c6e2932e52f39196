------------------------------- MODULE Gates -------------------------------
(***************************************************************************)
(* The gates a change passes before it is committed.  A runner owns what   *)
(* it starts: two directories, a disposable database, a server and a       *)
(* browser; it may be cancelled, or fail, at any step.  The system lock    *)
(* runs its steps one after another, each a process with a deadline, and   *)
(* is green only when all of them passed.                                  *)
(***************************************************************************)
EXTENDS Naturals, FiniteSets, Sequences

CONSTANT LockStep   \* the steps of the lock, in their order: a sequence of names

VARIABLES
  runner,     \* run-responsive-playwright: where it is, and how it will exit
  root,       \* OwnedResponsiveProcesses.#roots: the server and the browser
  held,       \* the directories and the database that exist
  step,       \* run-system-lock: the steps' processes
  result      \* their exit codes

gateVars == <<runner, root, held, step, result>>

Roles == {"server", "browser"}
(* A refused process runs on: the signal that should end it could not be sent. *)
Live(r) == root[r] \in {"running", "stopping", "refused"}

(* What the runner does, in order; from "stop" on it is in its finally blocks. *)
Course ==
  << "port", "storage", "build", "database", "seed", "server", "ready", "browser", "wait",
     "stop", "drop", "stopAgain", "rmStorage", "rmBuild", "settle", "ended" >>
After(at) == Course[1 + CHOOSE i \in 1..Len(Course) - 1 : Course[i] = at]

GatesTypeOK ==
  /\ runner \in [at : {Course[i] : i \in 1..Len(Course)}, cancelled : BOOLEAN, code : 0..1, failed : BOOLEAN]
  /\ root \in [Roles -> {"none", "running", "stopping", "refused", "exited"}]
  /\ held \subseteq {"storage", "build", "database"}
  /\ DOMAIN step = 1..Len(LockStep) /\ DOMAIN result = 1..Len(LockStep)

LockSame == UNCHANGED <<step, result>>
RunnerSame == UNCHANGED <<runner, root, held>>

(* An exception leaves through the finally blocks that have been entered.  *)
Unwind(at) ==
  CASE at \in {"port", "storage", "build"} -> "stopAgain"
    [] at \in {"database", "seed"} -> "drop"
    [] at = "server" -> "drop"
    [] OTHER -> "stop"

Throws ==
  /\ runner.at \in {Course[i] : i \in 1..9}
  /\ runner' = [runner EXCEPT !.at = Unwind(@), !.code = 1]
  /\ UNCHANGED <<root, held>> /\ LockSame

(* A directory or the database, then the look whether it was all cancelled. *)
Acquire(what) ==
  /\ runner.at = what /\ what \in {"storage", "build", "database"}
  /\ held' = held \cup {what}
  /\ runner' = IF runner.cancelled /\ what # "database"
                 THEN [runner EXCEPT !.at = "stopAgain", !.code = 1]
                 ELSE [runner EXCEPT !.at = After(what)]
  /\ UNCHANGED root /\ LockSame

Continue ==
  /\ runner.at \in {"port", "seed"}
  /\ runner' = [runner EXCEPT !.at = After(@)]
  /\ UNCHANGED <<root, held>> /\ LockSame

(* Mutant of Spawn: cancellation is not looked at again. *)
SpawnAnyway(r) ==
  /\ runner.at = r
  /\ root' = [root EXCEPT ![r] = "running"]
  /\ runner' = [runner EXCEPT !.at = After(r)]
  /\ UNCHANGED held /\ LockSame

Spawn(r) ==
  /\ runner.at = r /\ ~runner.cancelled
  /\ root' = [root EXCEPT ![r] = "running"]
  /\ runner' = [runner EXCEPT !.at = After(r)]
  /\ UNCHANGED held /\ LockSame

(* waitForServer: the page answers, before the deadline and the server's end. *)
ServerReady ==
  /\ runner.at = "ready" /\ ~runner.cancelled /\ root["server"] = "running"
  /\ runner' = [runner EXCEPT !.at = After(@)]
  /\ UNCHANGED <<root, held>> /\ LockSame

(* waitForExit *)
BrowserDone(code) ==
  /\ runner.at = "wait" /\ ~runner.cancelled /\ root["browser"] = "exited"
  /\ runner' = [runner EXCEPT !.at = After(@), !.code = code]
  /\ UNCHANGED <<root, held>> /\ LockSame

(* Every running process is signalled; refusing are those it fails for. *)
Signalled(refusing) ==
  [r \in Roles |-> CASE root[r] = "running" /\ r \in refusing -> "refused"
                     [] root[r] = "running" /\ r \notin refusing -> "stopping"
                     [] OTHER -> root[r]]
Unsignalled(refusing) == runner.failed \/ \E r \in refusing : root[r] = "running"

(* A signal, the parent's message, or the budget of 45 minutes. *)
Cancel(refusing) ==
  /\ ~runner.cancelled /\ runner.at \notin {"ended"}
  /\ runner' = [runner EXCEPT !.cancelled = TRUE, !.failed = Unsignalled(refusing)]
  /\ root' = Signalled(refusing)
  /\ UNCHANGED held /\ LockSame

(* stopAll is begun once: what cancellation began is only waited for. *)
StopAll(refusing) ==
  /\ runner.at \in {"stop", "stopAgain"}
  /\ ~runner.cancelled /\ \E r \in Roles : root[r] = "running"
  /\ runner' = [runner EXCEPT !.failed = Unsignalled(refusing)]
  /\ root' = Signalled(refusing)
  /\ UNCHANGED held /\ LockSame

(* Its promise settles when the signalled ones have ended, and rejects if  *)
(* one was refused: the second time, that skips the rest of the finally.   *)
AllStopped ==
  /\ runner.at \in {"stop", "stopAgain"}
  /\ \A r \in Roles : root[r] \notin (IF runner.cancelled THEN {"stopping"} ELSE {"running", "stopping"})
  /\ runner' = CASE ~runner.failed -> [runner EXCEPT !.at = After(@)]
                 [] runner.failed /\ runner.at = "stop" -> [runner EXCEPT !.at = "drop", !.code = 1]
                 [] OTHER -> [runner EXCEPT !.at = "ended", !.code = 1]
  /\ UNCHANGED <<root, held>> /\ LockSame

DropDatabase(dropped) ==
  /\ runner.at = "drop"
  /\ held' = IF dropped THEN held \ {"database"} ELSE held
  /\ runner' = [runner EXCEPT !.at = After(@)]
  /\ UNCHANGED root /\ LockSame

(* rm throws when it is out of retries, and nothing after it is done. *)
RemoveDirectory(removed) ==
  LET what == IF runner.at = "rmStorage" THEN "storage" ELSE "build" IN
  /\ runner.at \in {"rmStorage", "rmBuild"}
  /\ held' = IF removed THEN held \ {what} ELSE held
  /\ runner' = IF removed \/ what \notin held
                 THEN [runner EXCEPT !.at = After(@)]
                 ELSE [runner EXCEPT !.at = "ended", !.code = 1, !.failed = TRUE]
  /\ UNCHANGED root /\ LockSame

(* The exit code is settled last: cancellation, then a database retained. *)
SettleExitCode ==
  /\ runner.at = "settle"
  /\ runner' = [runner EXCEPT !.at = "ended",
                  !.code = IF runner.cancelled \/ "database" \in held THEN 1 ELSE @]
  /\ UNCHANGED <<root, held>> /\ LockSame

(* A process ends by itself, or because it was asked to or killed. *)
Exit(r) ==
  /\ Live(r)
  /\ root' = [root EXCEPT ![r] = "exited"]
  /\ UNCHANGED <<runner, held>> /\ LockSame

-----------------------------------------------------------------------------
(* The system lock.  A step's process works in phases, as the safe build    *)
(* does: it copies, checks and builds, each check a process of its own that *)
(* SIGTERM ends; terminated, it cleans up and may exit with 0.                *)

NotStarted == [phase |-> "none", asked |-> FALSE, timedOut |-> FALSE, stranger |-> FALSE]
NoResult == 2

Running(i) == step[i].phase # "none" /\ result[i] = NoResult

StartStep(i) ==
  /\ step[i].phase = "none"
  /\ \A j \in 1..i - 1 : result[j] # NoResult
  /\ step' = [step EXCEPT ![i].phase = "copy"]
  /\ UNCHANGED result /\ RunnerSame

Deadline(i) ==
  /\ Running(i) /\ ~step[i].timedOut
  /\ step' = [step EXCEPT ![i].asked = TRUE, ![i].timedOut = TRUE]
  /\ UNCHANGED result /\ RunnerSame

(* Somebody else terminates the step's process, not the lock. *)
Interrupt(i) ==
  /\ Running(i) /\ ~step[i].asked
  /\ step' = [step EXCEPT ![i].asked = TRUE, ![i].stranger = TRUE]
  /\ UNCHANGED result /\ RunnerSame

(* stopActiveChild: while it copies there is no process to end. *)
Proceed(i) ==
  /\ Running(i)
  /\ \/ step[i].phase = "copy" /\ step' = [step EXCEPT ![i].phase = "check"]
     \/ step[i].phase = "check" /\ ~step[i].asked /\ step' = [step EXCEPT ![i].phase = "build"]
  /\ UNCHANGED result /\ RunnerSame

(* How a process may end: asked, with 0 or by the signal; else as its work. *)
Codes(s) == IF s.asked \/ s.phase = "build" THEN {0, 1} ELSE {1}

(* Mutant of ExitCode: a graceful exit passes, however late it is. *)
CodeAlone(s, code) == code

(* A graceful exit after the deadline is not a pass. *)
ExitCode(s, code) == IF s.timedOut THEN 1 ELSE code

StepExits(i, code) ==
  /\ Running(i) /\ code \in Codes(step[i])
  /\ result' = [result EXCEPT ![i] = ExitCode(step[i], code)]
  /\ UNCHANGED step /\ RunnerSame

Finished == \A i \in DOMAIN result : result[i] # NoResult
Green == Finished /\ \A i \in DOMAIN result : result[i] = 0

-----------------------------------------------------------------------------
GatesInit ==
  /\ runner = [at |-> "port", cancelled |-> FALSE, code |-> 1, failed |-> FALSE]
  /\ root = [r \in Roles |-> "none"]
  /\ held = {}
  /\ step = [i \in 1..Len(LockStep) |-> NotStarted]
  /\ result = [i \in 1..Len(LockStep) |-> NoResult]

RunnerNext ==
  \/ Throws \/ Continue \/ ServerReady \/ AllStopped \/ SettleExitCode
  \/ \E refusing \in SUBSET Roles : Cancel(refusing) \/ StopAll(refusing)
  \/ \E what \in {"storage", "build", "database"} : Acquire(what)
  \/ \E r \in Roles : Spawn(r) \/ Exit(r)
  \/ \E code \in 0..1 : BrowserDone(code)
  \/ \E done \in BOOLEAN : DropDatabase(done) \/ RemoveDirectory(done)

LockNext ==
  \E i \in DOMAIN step :
    \/ StartStep(i) \/ Deadline(i) \/ Interrupt(i) \/ Proceed(i)
    \/ \E code \in 0..1 : StepExits(i, code)

GatesNext == RunnerNext \/ LockNext

GatesSpec == GatesInit /\ [][GatesNext]_gateVars

-----------------------------------------------------------------------------
(***************************************************************************)
(* Wherever a runner fails or is cancelled, its processes end before what  *)
(* they use is taken away, all but one that could not be signalled.  When  *)
(* it has ended nothing of it is left but a database it could not drop; a  *)
(* directory or a process only if ending or removing it failed, and then   *)
(* the runner does not report success.  It does so only if the browser's   *)
(* checks were seen to the end and nothing at all is left.                 *)
(***************************************************************************)
NothingOutlivesTheRunner ==
  /\ (\E r \in Roles : root[r] \in {"running", "stopping"}) => {"storage", "build", "database"} \subseteq held
  /\ runner.at = "ended" /\ ~runner.failed => held \subseteq {"database"} /\ \A r \in Roles : ~Live(r)
  /\ runner.at = "ended" /\ runner.code = 0 =>
       held = {} /\ root["browser"] = "exited" /\ ~Live("server")

(***************************************************************************)
(* The system lock is green only if every step did its work to the end:    *)
(* neither a process that failed nor one that its deadline cut short is    *)
(* taken for a pass.  Only a process that somebody else terminated may be. *)
(***************************************************************************)
GreenMeansDone ==
  Green => \A i \in DOMAIN step : step[i].stranger \/ (step[i].phase = "build" /\ ~step[i].asked)
=============================================================================
