----------------------------- MODULE ToolProofs -----------------------------
(***************************************************************************)
(* The tools beside the application, the reports it makes and the forms of *)
(* its pages keep their promises for any number of operators, migrations,  *)
(* steps, rows, commands and versions.                                     *)
(***************************************************************************)
EXTENDS Migrations, Gates, Reporting, Screens, FiniteSetTheorems, TLAPS

-----------------------------------------------------------------------------
(* The migration tool *)

ToolRec ==
  [at : {"idle", "inspecting", "inspected", "adopted", "made", "ready", "reading", "applied", "done", "stopped"},
   kind : {"none", "reconcile", "plain"}, apply : BOOLEAN,
   fingerprint : Stage \cup {Unknown}, rows : Ledger]

Ledgerless == ledger \in {Absent, Partial}

(* Until there is a ledger nobody has changed the schema: what a run has    *)
(* read of it is what it still is.  A ledger that counts goes on counting,  *)
(* and counts what a migrator has read of it or more.                       *)
ReadInv ==
  \A o \in Operator :
    /\ tool[o].at \in {"inspecting", "inspected"} /\ Ledgerless => tool[o].fingerprint = schema
    /\ tool[o].at = "inspected" /\ tool[o].rows \in Stage => ledger \in Stage
    /\ tool[o].at = "adopted" => ledger \in Stage
    /\ tool[o].at = "made" => ledger # Absent
    /\ tool[o].at = "made" /\ tool[o].kind # "plain" /\ ledger = Partial => schema = 0
    /\ tool[o].at \in {"ready", "reading"} => ~Ledgerless
    /\ tool[o].at = "reading" => tool[o].rows \in Stage
    /\ tool[o].at = "reading" /\ ledger \in Stage => tool[o].rows <= ledger
    /\ tool[o].at \in {"idle", "inspecting", "inspected"} => tool[o].kind # "plain"

MigrationsInv == MigrationsTypeOK /\ ReadInv /\ LedgerNamesTheSchema

LEMMA MigrationsStart == MigrationsInit => MigrationsInv
  BY MigrationsAssumption
  DEF MigrationsInit, MigrationsInv, MigrationsTypeOK, ReadInv, Ledgerless, LedgerNamesTheSchema, Idle, Stage, Ledger

LEMMA ApplyStep ==
  ASSUME MigrationsInv, NEW o \in Operator, ApplyPending(o)
  PROVE  MigrationsInv'
<1>1. /\ tool[o].at = "reading" /\ tool[o].rows \in Stage /\ ~Ledgerless
      /\ ledger \in Stage => tool[o].rows <= ledger
  BY Zenon DEF MigrationsInv, ReadInv, ApplyPending
<1>2. PICK rows \in Stage : rows = tool[o].rows
  BY <1>1
<1>3. PICK next \in {"stopped", "applied"} : tool' = [tool EXCEPT ![o].at = next]
  BY DEF ApplyPending, Goes
<1>4. MigrationsTypeOK /\ ReadInv /\ LedgerNamesTheSchema
  BY DEF MigrationsInv
<1>5. /\ ledger \in Stage \cup {Foreign} /\ schema \in Stage \cup {Unknown}
      /\ Foreign \notin Stage /\ Unknown \notin Stage /\ Latest \in Stage
      /\ Stage \subseteq Nat /\ Stage = 0..Latest
  <2>1. Foreign \notin Stage /\ Unknown \notin Stage /\ Latest \in Stage /\ Stage \subseteq Nat
    BY MigrationsAssumption DEF Stage
  <2>2. ledger \in Ledger /\ schema \in Stage \cup {Unknown}
    BY <1>4 DEF MigrationsTypeOK
  <2> QED
    BY <1>1, <2>1, <2>2 DEF Ledger, Ledgerless, Stage
<1>6. \A p \in Operator :
        /\ tool'[p].kind = tool[p].kind /\ tool'[p].rows = tool[p].rows
        /\ tool'[p].fingerprint = tool[p].fingerprint
        /\ tool'[p].at = IF p = o THEN next ELSE tool[p].at
  BY <1>3, <1>4 DEF MigrationsTypeOK
<1>7. tool' \in [Operator -> ToolRec]
  BY <1>3, <1>4 DEF MigrationsTypeOK, ToolRec
<1>8. CASE UNCHANGED <<schema, ledger>>
  <2>1. MigrationsTypeOK'
    BY <1>4, <1>7, <1>8 DEF MigrationsTypeOK, ToolRec, Ledger, Stage
  <2>2. ReadInv'
    BY <1>4, <1>6, <1>8 DEF ReadInv, Ledgerless, Stage
  <2>3. LedgerNamesTheSchema'
    BY <1>4, <1>6, <1>8 DEF LedgerNamesTheSchema, Stage
  <2> QED
    BY <2>1, <2>2, <2>3 DEF MigrationsInv
<1>9. CASE /\ Pending(rows) # {} /\ ~Clashes(rows)
           /\ schema' = IF schema = rows THEN Latest ELSE Unknown
           /\ ledger' = IF ledger = Foreign THEN Foreign ELSE Latest
  <2>1. rows < Latest
    BY <1>5, <1>9, MigrationsAssumption DEF Pending
  <2>2. schema \in Stage => schema <= rows
    BY <1>5, <1>9 DEF Clashes
  <2>3. /\ schema' \in Stage \cup {Unknown} /\ ledger' \in Stage \cup {Foreign}
        /\ ledger \in Stage => ledger' = Latest
        /\ ledger' \in Stage => ledger \in Stage /\ ledger' = Latest
    BY <1>5, <1>9
  <2>4. MigrationsTypeOK'
    BY <1>7, <2>3 DEF MigrationsTypeOK, ToolRec, Ledger, Stage
  <2>5. \A p \in Operator : tool[p].at = "reading" /\ ledger' \in Stage => tool[p].rows <= ledger'
    <3>1. \A p \in Operator : tool[p].at = "reading" => tool[p].rows \in Stage
      BY <1>4 DEF ReadInv
    <3> QED
      BY <2>3, <3>1, MigrationsAssumption DEF Stage
  <2>6. ledger' \notin {Absent, Partial}
    BY <2>3, MigrationsAssumption DEF Stage
  <2>7. ReadInv'
    <3>1. ASSUME NEW p \in Operator
          PROVE  /\ tool'[p].at = "inspected" /\ tool'[p].rows \in Stage => ledger' \in Stage
                 /\ tool'[p].at = "adopted" => ledger' \in Stage
                 /\ tool'[p].at = "reading" => tool'[p].rows \in Stage
                 /\ tool'[p].at = "reading" /\ ledger' \in Stage => tool'[p].rows <= ledger'
                 /\ tool'[p].at \in {"idle", "inspecting", "inspected"} => tool'[p].kind # "plain"
      <4>1. CASE p = o
        BY <1>6, <4>1
      <4>2. CASE p # o
        <5>1. ledger \in Stage => ledger' \in Stage
          BY <1>5, <2>3
        <5> QED
          BY <1>4, <1>6, <2>5, <4>2, <5>1 DEF ReadInv
      <4> QED
        BY <4>1, <4>2
    <3> QED
      BY <2>6, <3>1 DEF ReadInv, Ledgerless, Stage
  <2>8. \A p \in Operator : tool'[p].at # "done"
    <3>1. \A p \in Operator : tool[p].at # "done"
      BY <1>4, <1>5, <2>1, <2>2 DEF LedgerNamesTheSchema
    <3> QED
      BY <1>6, <3>1
  <2>9. ASSUME ledger' \in Stage \ {schema'}
        PROVE  /\ \E p \in Operator : tool[p].kind = "plain"
               /\ ledger' = Latest /\ schema' = Unknown
    <3>1. schema # rows /\ schema' = Unknown /\ ledger \in Stage /\ ledger' = Latest
      BY <1>5, <1>9, <2>3, <2>9
    <3>2. ledger # schema
      <4>1. ASSUME ledger = schema PROVE FALSE
        <5>1. schema \in Stage /\ schema <= rows /\ rows <= schema
          BY <1>1, <1>2, <2>2, <3>1, <4>1
        <5> QED
          BY <1>5, <3>1, <5>1
      <4> QED
        BY <4>1
    <3> QED
      BY <1>4, <3>1, <3>2 DEF LedgerNamesTheSchema
  <2>10. LedgerNamesTheSchema'
    <3>1. ledger' \in Stage \ {schema'} => \E p \in Operator : tool'[p].kind = "plain"
      BY <1>6, <2>9
    <3> QED
      BY <2>8, <2>9, <3>1 DEF LedgerNamesTheSchema, Stage
  <2> QED
    BY <2>4, <2>7, <2>10 DEF MigrationsInv
<1>10. \/ UNCHANGED <<schema, ledger>>
       \/ /\ Pending(rows) # {} /\ ~Clashes(rows)
          /\ schema' = IF schema = rows THEN Latest ELSE Unknown
          /\ ledger' = IF ledger = Foreign THEN Foreign ELSE Latest
  BY <1>2 DEF ApplyPending
<1> QED
  BY <1>8, <1>9, <1>10

LEMMA MigrationsStep == MigrationsInv /\ [MigrationsNext]_migrationVars => MigrationsInv'
<1> SUFFICES ASSUME MigrationsInv, [MigrationsNext]_migrationVars PROVE MigrationsInv'
  OBVIOUS
<1> USE MigrationsAssumption
    DEF MigrationsInv, MigrationsTypeOK, ReadInv, Ledgerless, LedgerNamesTheSchema, Stage, Ledger
<1>1. ASSUME NEW o \in Operator, NEW apply \in BOOLEAN, NEW disposable \in BOOLEAN, NEW backup \in BOOLEAN,
             Inspect(o, apply, disposable, backup)
      PROVE  MigrationsInv'
  BY <1>1 DEF Inspect
<1>2. ASSUME NEW o \in Operator, ReadLedger(o) PROVE MigrationsInv'
  <2> DEFINE looked == [tool[o] EXCEPT !.at = "inspected", !.rows = ledger]
  <2>1. looked \in ToolRec
    <3>1. tool[o] \in ToolRec
      BY DEF ToolRec
    <3>2. QED
      BY <3>1 DEF ToolRec
  <2>2. tool' = [tool EXCEPT ![o] = looked] /\ UNCHANGED <<schema, ledger>>
    BY <1>2 DEF ReadLedger
  <2>3. MigrationsTypeOK'
    <3> HIDE DEF looked
    <3>1. QED
      BY <2>1, <2>2 DEF ToolRec
  <2>4. ReadInv'
    BY <1>2 DEF ReadLedger
  <2>5. LedgerNamesTheSchema'
    BY <1>2 DEF ReadLedger
  <2>6. QED
    BY <2>3, <2>4, <2>5
<1>3. ASSUME NEW o \in Operator, Report(o) PROVE MigrationsInv'
  BY <1>3 DEF Report, Goes
<1>4. ASSUME NEW o \in Operator, Adopt(o) PROVE MigrationsInv'
  <2>1. tool[o].fingerprint = schema /\ tool[o].fingerprint \in 0..Latest
    BY <1>4 DEF Adopt, Found, StateOf
  <2>2. QED
    BY <1>4, <2>1 DEF Adopt, Goes
<1>5. ASSUME NEW o \in Operator, RunMigrator(o) PROVE MigrationsInv'
  <2>1. /\ Ledgerless => schema = 0
        /\ ledger' = IF ledger = Absent THEN Partial ELSE ledger
        /\ tool' = [tool EXCEPT ![o].at = "made"]
        /\ schema' = schema
    BY <1>5 DEF RunMigrator, MakeSchema, Goes, Found, StateOf
  <2>2. ledger' \in Ledger /\ ledger' # Absent /\ (ledger' \in Stage => ledger' = ledger)
        /\ (ledger' \in {Absent, Partial} <=> Ledgerless)
    BY <2>1
  <2>3. MigrationsTypeOK'
    BY <2>1, <2>2
  <2>4. ReadInv'
    BY <2>1, <2>2
  <2>5. LedgerNamesTheSchema'
    BY <2>1, <2>2
  <2>6. QED
    BY <2>3, <2>4, <2>5
<1>6. ASSUME NEW o \in Operator, StartPlain(o) PROVE MigrationsInv'
  <2> DEFINE begun == [Idle EXCEPT !.at = "made", !.kind = "plain", !.apply = TRUE]
  <2>1. begun \in ToolRec /\ begun.at = "made" /\ begun.kind = "plain"
    <3>1. Idle \in ToolRec
      BY DEF Idle, ToolRec
    <3>2. QED
      BY <3>1 DEF ToolRec
  <2>2. /\ tool' = [tool EXCEPT ![o] = begun] /\ schema' = schema
        /\ ledger' = IF ledger = Absent THEN Partial ELSE ledger
        /\ tool[o].at = "idle"
    BY <1>6 DEF StartPlain, MakeSchema
  <2> HIDE DEF begun
  <2>3. ledger' \in Ledger /\ ledger' # Absent /\ (ledger' \in Stage => ledger' = ledger)
        /\ (ledger' \in {Absent, Partial} <=> Ledgerless)
        /\ (ledger \in Stage => ledger' = ledger)
    BY <2>2
  <2>4. MigrationsTypeOK'
    BY <2>1, <2>2, <2>3 DEF ToolRec
  <2>5. ReadInv'
    <3>1. tool'[o] = begun /\ \A p \in Operator : p # o => tool'[p] = tool[p]
      BY <2>2
    <3>2. \A p \in Operator : tool'[p].at = "made" /\ tool'[p].kind # "plain" /\ ledger' = Partial => schema' = 0
      BY <2>1, <2>2, <3>1
    <3>3. QED
      BY <2>1, <2>2, <2>3, <3>1, <3>2
  <2>6. LedgerNamesTheSchema'
    BY <2>1, <2>2, <2>3
  <2>7. QED
    BY <2>4, <2>5, <2>6
<1>7. ASSUME NEW o \in Operator, MakeTable(o) PROVE MigrationsInv'
  <2>1. /\ tool[o].at = "made" /\ tool' = [tool EXCEPT ![o].at = "ready"] /\ schema' = schema
        /\ ledger' = IF ledger = Partial THEN 0 ELSE ledger
        /\ ledger # Absent
    BY <1>7 DEF MakeTable, Goes
  <2>2. ledger' \in Stage \cup {Foreign} /\ 0 \in Stage
    BY <2>1
  <2>3. MigrationsTypeOK'
    BY <2>1, <2>2
  <2>4. ReadInv'
    BY <2>1, <2>2
  <2>5. LedgerNamesTheSchema'
    <3>1. CASE ledger = Partial
      BY <2>1, <3>1
    <3>2. CASE ledger # Partial
      BY <2>1, <3>2
    <3>3. QED
      BY <3>1, <3>2
  <2>6. QED
    BY <2>3, <2>4, <2>5
<1>8. ASSUME NEW o \in Operator, ReadLast(o) PROVE MigrationsInv'
  <2>1. PICK rows \in Stage :
          /\ ledger # Foreign => rows = ledger
          /\ tool' = [tool EXCEPT ![o].at = "reading", ![o].rows = rows]
    BY <1>8, Zenon DEF ReadLast
  <2> DEFINE last == [tool[o] EXCEPT !.at = "reading", !.rows = rows]
  <2>2. last \in ToolRec /\ last.at = "reading" /\ last.rows = rows /\ last.kind = tool[o].kind
    <3>1. tool[o] \in ToolRec
      BY DEF ToolRec
    <3>2. QED
      BY <3>1 DEF ToolRec
  <2>3. tool' = [tool EXCEPT ![o] = last] /\ UNCHANGED <<schema, ledger>> /\ tool[o].at = "ready"
    BY <1>8, <2>1 DEF ReadLast
  <2> HIDE DEF last
  <2>4. MigrationsTypeOK'
    BY <2>2, <2>3 DEF ToolRec
  <2>5. ReadInv'
    BY <2>1, <2>2, <2>3
  <2>6. tool'[o].kind = tool[o].kind /\ tool'[o].at # "done"
    BY <2>2, <2>3
  <2>7. LedgerNamesTheSchema'
    BY <2>3, <2>6
  <2>8. QED
    BY <2>4, <2>5, <2>7
<1>9. ASSUME NEW o \in Operator, ApplyPending(o) PROVE MigrationsInv'
  BY <1>9, ApplyStep
<1>10. ASSUME NEW o \in Operator, Verify(o) PROVE MigrationsInv'
  <2>1. ledger = Latest /\ schema = ledger
    BY <1>10 DEF Verify, StateOf
  <2>2. QED
    BY <1>10, <2>1 DEF Verify, Goes
<1>11. ASSUME NEW o \in Operator, Stop(o) PROVE MigrationsInv'
  BY <1>11 DEF Stop, Goes
<1>12. ASSUME UNCHANGED migrationVars PROVE MigrationsInv'
  BY <1>12 DEF migrationVars
<1>13. QED
  BY <1>1, <1>2, <1>3, <1>4, <1>5, <1>6, <1>7, <1>8, <1>9, <1>10, <1>11, <1>12 DEF MigrationsNext

(***************************************************************************)
(* However runs of the migration tool and of the plain migrator overlap    *)
(* and stop, between any two of their statements and from whatever ledger, *)
(* a ledger that counts counts the migrations of the schema's stage, but   *)
(* for what a plain migrator did; a run of the tool that ends well leaves  *)
(* the latest of both.                                                     *)
(***************************************************************************)
THEOREM SchemaStaysNamed == MigrationsSpec => []LedgerNamesTheSchema
<1>1. MigrationsInv => LedgerNamesTheSchema
  BY DEF MigrationsInv
<1>2. QED
  BY MigrationsStart, MigrationsStep, <1>1, PTL DEF MigrationsSpec

-----------------------------------------------------------------------------
(* The runner of the browser's checks *)

(* The places of its course are distinct, so each has one successor. *)
LEMMA CourseGoesOn ==
  /\ After("port") = "storage" /\ After("storage") = "build" /\ After("build") = "database"
  /\ After("database") = "seed" /\ After("seed") = "server" /\ After("server") = "ready"
  /\ After("ready") = "browser" /\ After("browser") = "wait" /\ After("wait") = "stop"
  /\ After("stop") = "drop" /\ After("drop") = "stopAgain" /\ After("stopAgain") = "rmStorage"
  /\ After("rmStorage") = "rmBuild" /\ After("rmBuild") = "settle" /\ After("settle") = "ended"
<1>1. /\ Course[1] = "port" /\ Course[2] = "storage" /\ Course[3] = "build" /\ Course[4] = "database"
      /\ Course[5] = "seed" /\ Course[6] = "server" /\ Course[7] = "ready" /\ Course[8] = "browser"
      /\ Course[9] = "wait" /\ Course[10] = "stop" /\ Course[11] = "drop"
      /\ Course[12] = "stopAgain" /\ Course[13] = "rmStorage" /\ Course[14] = "rmBuild"
      /\ Course[15] = "settle" /\ Course[16] = "ended"
  BY DEF Course
<1>2. ASSUME NEW k \in 1..15 PROVE After(Course[k]) = Course[1 + k]
  <2>1. \A i \in 1..15 : i \in {1, 2, 3, 4, 5, 6, 7, 8, 9, 10, 11, 12, 13, 14, 15}
    OBVIOUS
  <2>2. \A i \in 1..15 : Course[i] = Course[k] => i = k
    BY <1>1, <2>1
  <2>3. (CHOOSE i \in 1..15 : Course[i] = Course[k]) = k
    BY <2>2
  <2>4. Len(Course) - 1 = 15
    BY DEF Course
  <2>5. QED
    BY <2>3, <2>4 DEF After
<1>3. /\ After(Course[1]) = Course[2] /\ After(Course[2]) = Course[3] /\ After(Course[3]) = Course[4]
      /\ After(Course[4]) = Course[5] /\ After(Course[5]) = Course[6] /\ After(Course[6]) = Course[7]
      /\ After(Course[7]) = Course[8] /\ After(Course[8]) = Course[9] /\ After(Course[9]) = Course[10]
      /\ After(Course[10]) = Course[11] /\ After(Course[11]) = Course[12] /\ After(Course[12]) = Course[13]
      /\ After(Course[13]) = Course[14] /\ After(Course[14]) = Course[15] /\ After(Course[15]) = Course[16]
  BY <1>2
<1>4. QED
  BY <1>1, <1>3

Starting == {"port", "storage", "build", "database", "seed", "server"}
Equipped == {"seed", "server", "ready", "browser", "wait", "stop"}
Winding == {"drop", "stopAgain", "rmStorage", "rmBuild", "settle", "ended"}

RunnerRec == [at : Starting \cup Equipped \cup Winding, cancelled : BOOLEAN, code : 0..1, failed : BOOLEAN]
RunnerTypeOK ==
  /\ runner \in RunnerRec
  /\ root \in [Roles -> {"none", "running", "stopping", "refused", "exited"}]
  /\ held \subseteq {"storage", "build", "database"}

(* What exists at each place of the course, and that cancellation leaves     *)
(* nothing running which it has not begun to stop.                           *)
CourseInv ==
  /\ runner.at \in Starting => \A r \in Roles : root[r] = "none"
  /\ runner.at \in Equipped => held = {"storage", "build", "database"}
  /\ runner.at \in {"build", "database"} => "storage" \in held
  /\ runner.at = "database" => "build" \in held
  /\ runner.at \in Winding => \A r \in Roles : root[r] \notin {"running", "stopping"}
  /\ ~runner.failed => \A r \in Roles : root[r] # "refused"
  /\ runner.at \in {"rmStorage", "rmBuild", "settle"} => ~runner.failed
  /\ runner.at \in {"rmBuild", "settle"} => "storage" \notin held
  /\ runner.at = "settle" => "build" \notin held
  /\ runner.at = "ended" => runner.failed \/ held \subseteq {"database"}
  /\ runner.at = "ended" /\ runner.code = 0 => ~runner.failed /\ held = {}
  /\ runner.cancelled => \A r \in Roles : root[r] # "running"
  /\ runner.code = 0 => runner.at \in {"stop"} \cup Winding /\ root["browser"] = "exited"

RunnerInv == RunnerTypeOK /\ CourseInv /\ NothingOutlivesTheRunner

LEMMA RunnerStart == GatesInit => RunnerInv
  BY DEF GatesInit, RunnerInv, RunnerRec, RunnerTypeOK, CourseInv, NothingOutlivesTheRunner, Roles, Live,
         Starting, Equipped, Winding

MovedTo(r, place, code, failed) == [r EXCEPT !.at = place, !.code = code, !.failed = failed]

LEMMA RunnerMoves ==
  ASSUME NEW r \in RunnerRec, NEW place \in Starting \cup Equipped \cup Winding, NEW code \in 0..1,
         NEW failed \in BOOLEAN
  PROVE  /\ MovedTo(r, place, code, failed) \in RunnerRec /\ MovedTo(r, place, code, failed).at = place
         /\ MovedTo(r, place, code, failed).code = code /\ MovedTo(r, place, code, failed).failed = failed
         /\ MovedTo(r, place, code, failed).cancelled = r.cancelled
  BY DEF RunnerRec, MovedTo

LEMMA RunnerFails ==
  ASSUME NEW r \in RunnerRec, NEW place \in {"drop", "ended"}, NEW failed \in BOOLEAN, NEW s,
         s = MovedTo(r, place, 1, failed)
  PROVE  /\ s \in RunnerRec /\ s.at = place /\ s.cancelled = r.cancelled
         /\ s.code = 1 /\ s.failed = failed
<1>1. place \in Starting \cup Equipped \cup Winding /\ 1 \in 0..1
  BY DEF Winding
<1> QED
  BY <1>1, RunnerMoves

(* Signalling leaves nothing running and starts nothing. *)
LEMMA SignalledRoots ==
  ASSUME RunnerTypeOK, NEW refusing \in SUBSET Roles
  PROVE  /\ Signalled(refusing) \in [Roles -> {"none", "running", "stopping", "refused", "exited"}]
         /\ \A r \in Roles :
              /\ Signalled(refusing)[r] # "running"
              /\ root[r] # "running" => Signalled(refusing)[r] = root[r]
              /\ Signalled(refusing)[r] = "refused" => root[r] = "refused" \/ Unsignalled(refusing)
              /\ Signalled(refusing)[r] = "stopping" => root[r] \in {"running", "stopping"}
              /\ Signalled(refusing)[r] \in {"stopping", "refused"} => Live(r)
         /\ runner.failed => Unsignalled(refusing)
         /\ Unsignalled(refusing) \in BOOLEAN
  BY DEF RunnerTypeOK, Signalled, Unsignalled, RunnerRec, Live

LEMMA RunnerStep == RunnerInv /\ [GatesNext]_gateVars => RunnerInv'
<1> SUFFICES ASSUME RunnerInv, [GatesNext]_gateVars PROVE RunnerInv'
  OBVIOUS
<1>0. ASSUME NEW place \in {"drop", "ended"}, NEW failed \in BOOLEAN, runner' = MovedTo(runner, place, 1, failed)
      PROVE  /\ runner' \in RunnerRec /\ runner'.at = place /\ runner'.cancelled = runner.cancelled
             /\ runner'.code = 1 /\ runner'.failed = failed
  <2>1. runner \in RunnerRec
    BY DEF RunnerInv, RunnerTypeOK
  <2> QED
    BY <1>0, <2>1, RunnerFails
<1> USE DEF RunnerInv, RunnerTypeOK, CourseInv, NothingOutlivesTheRunner, Roles, Live, Starting, Equipped, Winding,
            LockSame, RunnerSame
<1>1. ASSUME Throws PROVE RunnerInv'
  <2>1. runner.at \in Starting \cup {"ready", "browser", "wait"}
    <3>1. \A i \in 1..9 : i \in {1, 2, 3, 4, 5, 6, 7, 8, 9}
      OBVIOUS
    <3>2. /\ Course[1] = "port" /\ Course[2] = "storage" /\ Course[3] = "build" /\ Course[4] = "database"
          /\ Course[5] = "seed" /\ Course[6] = "server" /\ Course[7] = "ready" /\ Course[8] = "browser"
          /\ Course[9] = "wait"
      BY DEF Course
    <3>3. QED
      BY <1>1, <3>1, <3>2 DEF Throws
  <2>2. runner.at \in Starting => Unwind(runner.at) \in {"stopAgain", "drop"}
    BY <2>1 DEF Unwind
  <2>3. runner.at \in {"ready", "browser", "wait"} => Unwind(runner.at) = "stop"
    BY DEF Unwind
  <2>4. runner' = MovedTo(runner, Unwind(runner.at), 1, runner.failed) /\ UNCHANGED <<root, held>>
    BY <1>1 DEF Throws, MovedTo, RunnerRec
  <2>5. /\ runner' \in RunnerRec /\ runner'.at = Unwind(runner.at)
        /\ runner'.cancelled = runner.cancelled /\ runner'.code = 1 /\ runner'.failed = runner.failed
    BY <2>1, <2>2, <2>3, <2>4, RunnerMoves DEF RunnerRec
  <2>6. QED
    BY <2>1, <2>2, <2>3, <2>4, <2>5
<1>2. ASSUME Continue PROVE RunnerInv'
  BY <1>2, CourseGoesOn DEF Continue, RunnerRec
<1>3. ASSUME ServerReady PROVE RunnerInv'
  BY <1>3, CourseGoesOn DEF ServerReady, RunnerRec
<1>4. ASSUME NEW refusing \in SUBSET Roles, Cancel(refusing) PROVE RunnerInv'
  <2> DEFINE after == Signalled(refusing)
             failed == Unsignalled(refusing)
  <2>1. /\ after \in [Roles -> {"none", "running", "stopping", "refused", "exited"}]
        /\ \A r \in Roles :
             /\ after[r] # "running"
             /\ root[r] # "running" => after[r] = root[r]
             /\ after[r] = "refused" => root[r] = "refused" \/ failed
             /\ after[r] = "stopping" => root[r] \in {"running", "stopping"}
        /\ runner.failed => failed
        /\ failed \in BOOLEAN
    BY SignalledRoots
  <2>2. /\ runner' = [runner EXCEPT !.cancelled = TRUE, !.failed = failed]
        /\ runner.at # "ended" /\ root' = after /\ held' = held
    BY <1>4 DEF Cancel
  <2>3. (\A r \in Roles : root[r] # "running") => failed = runner.failed
    BY DEF Unsignalled, RunnerRec
  <2> HIDE DEF after, failed
  <2>4. /\ runner' \in RunnerRec /\ runner'.at = runner.at /\ runner'.cancelled
        /\ runner'.code = runner.code /\ runner'.failed = failed
    BY <2>1, <2>2 DEF RunnerRec
  <2>5. RunnerTypeOK'
    BY <2>1, <2>2, <2>4
  <2>6. CourseInv'
    BY <2>1, <2>2, <2>3, <2>4
  <2>7. NothingOutlivesTheRunner'
    BY <2>1, <2>2, <2>4
  <2> QED
    BY <2>5, <2>6, <2>7
<1>5. ASSUME NEW refusing \in SUBSET Roles, StopAll(refusing) PROVE RunnerInv'
  <2> DEFINE after == Signalled(refusing)
             failed == Unsignalled(refusing)
  <2>1. /\ after \in [Roles -> {"none", "running", "stopping", "refused", "exited"}]
        /\ \A r \in Roles :
             /\ after[r] # "running"
             /\ root[r] # "running" => after[r] = root[r]
             /\ after[r] = "refused" => root[r] = "refused" \/ failed
             /\ after[r] = "stopping" => root[r] \in {"running", "stopping"}
        /\ runner.failed => failed
        /\ failed \in BOOLEAN
    BY SignalledRoots
  <2>2. /\ runner' = [runner EXCEPT !.failed = failed]
        /\ runner.at = "stop" /\ root' = after /\ held' = held
    BY <1>5 DEF StopAll
  <2> HIDE DEF after, failed
  <2>3. /\ runner' \in RunnerRec /\ runner'.at = "stop" /\ runner'.cancelled = runner.cancelled
        /\ runner'.code = runner.code /\ runner'.failed = failed
    BY <2>1, <2>2 DEF RunnerRec
  <2>4. RunnerTypeOK'
    BY <2>1, <2>2, <2>3
  <2>5. CourseInv'
    BY <2>1, <2>2, <2>3
  <2>6. NothingOutlivesTheRunner'
    BY <2>1, <2>2, <2>3
  <2> QED
    BY <2>4, <2>5, <2>6
<1>6. ASSUME AllStopped PROVE RunnerInv'
  <2>1. /\ runner.at \in {"stop", "stopAgain"} /\ UNCHANGED <<root, held>>
        /\ \A r \in Roles : root[r] \notin {"running", "stopping"}
    BY <1>6 DEF AllStopped
  <2>2. CASE ~runner.failed
    <3>1. runner' = [runner EXCEPT !.at = After(runner.at)]
      BY <1>6, <2>2 DEF AllStopped
    <3> QED
      BY <2>1, <2>2, <3>1, CourseGoesOn DEF RunnerRec
  <2>3. CASE runner.failed
    <3> DEFINE place == IF runner.at = "stop" THEN "drop" ELSE "ended"
    <3>1. runner' = MovedTo(runner, place, 1, runner.failed)
      BY <1>6, <2>3 DEF AllStopped, MovedTo, RunnerRec
    <3>2. place \in {"drop", "ended"}
      OBVIOUS
    <3> HIDE DEF place
    <3>3. runner.failed \in BOOLEAN
      BY DEF RunnerRec
    <3>4. /\ runner' \in RunnerRec /\ runner'.at = place /\ runner'.cancelled = runner.cancelled
          /\ runner'.code = 1 /\ runner'.failed = runner.failed
      BY <1>0, <3>1, <3>2, <3>3
    <3> QED
      BY <2>1, <2>3, <3>2, <3>4
  <2> QED
    BY <2>2, <2>3
<1>7. ASSUME SettleExitCode PROVE RunnerInv'
  <2> DEFINE code == IF runner.cancelled \/ "database" \in held THEN 1 ELSE runner.code
  <2>1. code \in 0..1 /\ (code = 0 => "database" \notin held /\ runner.code = 0)
    BY DEF RunnerRec
  <2>2. runner' = MovedTo(runner, "ended", code, runner.failed) /\ UNCHANGED <<root, held>>
    BY <1>7 DEF SettleExitCode, MovedTo, RunnerRec
  <2>3. runner.at = "settle"
    BY <1>7 DEF SettleExitCode
  <2> HIDE DEF code
  <2>4. /\ runner' \in RunnerRec /\ runner'.at = "ended" /\ runner'.failed = runner.failed
        /\ runner'.cancelled = runner.cancelled /\ runner'.code = code
    BY <2>1, <2>2, RunnerMoves DEF RunnerRec
  <2>5. held \subseteq {"database"} /\ ~runner.failed
    BY <2>3
  <2> QED
    BY <2>1, <2>2, <2>3, <2>4, <2>5
<1>8. ASSUME NEW what \in {"storage", "build", "database"}, Acquire(what) PROVE RunnerInv'
  <2>1. CASE runner.cancelled /\ what # "database"
    <3>1. /\ runner' \in RunnerRec /\ runner'.at = "stopAgain" /\ runner'.failed = runner.failed
          /\ runner'.cancelled = runner.cancelled /\ runner'.code = 1
      <4>1. runner' = MovedTo(runner, "stopAgain", 1, runner.failed)
        BY <1>8, <2>1 DEF Acquire, MovedTo, RunnerRec
      <4>2. QED
        BY <4>1, RunnerMoves DEF RunnerRec
    <3>2. QED
      BY <1>8, <2>1, <3>1 DEF Acquire
  <2>2. CASE ~(runner.cancelled /\ what # "database")
    BY <1>8, <2>2, CourseGoesOn DEF Acquire, RunnerRec
  <2>3. QED
    BY <2>1, <2>2
<1>9. ASSUME NEW r \in Roles, Spawn(r) PROVE RunnerInv'
  BY <1>9, CourseGoesOn DEF Spawn, RunnerRec
<1>10. ASSUME NEW r \in Roles, Exit(r) PROVE RunnerInv'
  BY <1>10 DEF Exit
<1>11. ASSUME NEW code \in 0..1, BrowserDone(code) PROVE RunnerInv'
  <2>1. /\ runner.at = "wait" /\ root["browser"] = "exited" /\ UNCHANGED <<root, held>>
        /\ runner' = [runner EXCEPT !.at = "stop", !.code = code]
    BY <1>11, CourseGoesOn DEF BrowserDone
  <2>2. /\ runner' \in RunnerRec /\ runner'.at = "stop" /\ runner'.failed = runner.failed
        /\ runner'.cancelled = runner.cancelled /\ runner'.code = code
    BY <2>1 DEF RunnerRec
  <2> QED
    BY <2>1, <2>2
<1>12. ASSUME NEW dropped \in BOOLEAN, DropDatabase(dropped) PROVE RunnerInv'
  BY <1>12, CourseGoesOn DEF DropDatabase, RunnerRec
<1>13. ASSUME NEW removed \in BOOLEAN, RemoveDirectory(removed) PROVE RunnerInv'
  <2>1. runner.at \in {"rmStorage", "rmBuild"} /\ root' = root /\ held' \subseteq held
    BY <1>13 DEF RemoveDirectory
  <2>2. CASE removed \/ (IF runner.at = "rmStorage" THEN "storage" ELSE "build") \notin held
    <3>1. /\ runner' = [runner EXCEPT !.at = After(runner.at)]
          /\ (IF runner.at = "rmStorage" THEN "storage" ELSE "build") \notin held'
      BY <1>13, <2>2 DEF RemoveDirectory
    <3> QED
      BY <2>1, <3>1, CourseGoesOn DEF RunnerRec
  <2>3. CASE ~(removed \/ (IF runner.at = "rmStorage" THEN "storage" ELSE "build") \notin held)
    <3>1. runner' = MovedTo(runner, "ended", 1, TRUE)
      BY <1>13, <2>3 DEF RemoveDirectory, MovedTo
    <3>2. /\ runner' \in RunnerRec /\ runner'.at = "ended" /\ runner'.cancelled = runner.cancelled
          /\ runner'.code = 1 /\ runner'.failed = TRUE
      BY <1>0, <3>1
    <3> QED
      BY <2>1, <3>2
  <2> QED
    BY <2>2, <2>3
<1>14. ASSUME LockNext PROVE RunnerInv'
  BY <1>14 DEF LockNext, StartStep, Deadline, Interrupt, Proceed, StepExits
<1>15. ASSUME UNCHANGED gateVars PROVE RunnerInv'
  BY <1>15 DEF gateVars
<1>16. QED
  BY <1>1, <1>2, <1>3, <1>4, <1>5, <1>6, <1>7, <1>8, <1>9, <1>10, <1>11, <1>12, <1>13, <1>14, <1>15
  DEF GatesNext, RunnerNext

(***************************************************************************)
(* Wherever the runner of the browser's checks fails or is cancelled, what *)
(* its processes use is there until they have ended, but for one that      *)
(* could not be signalled; nothing of it is left but a database, unless    *)
(* ending a process or removing a directory failed; and success means that *)
(* the checks ended and that nothing at all is left.                       *)
(***************************************************************************)
THEOREM RunnerCleansUp == GatesSpec => []NothingOutlivesTheRunner
<1>1. RunnerInv => NothingOutlivesTheRunner
  BY DEF RunnerInv
<1>2. QED
  BY RunnerStart, RunnerStep, <1>1, PTL DEF GatesSpec

-----------------------------------------------------------------------------
(* The system lock *)

StepRec == [phase : {"none", "copy", "check", "build"}, asked : BOOLEAN, timedOut : BOOLEAN, stranger : BOOLEAN]
LockSteps == 1..Len(LockStep)

(* A process is asked to end by its deadline or by a stranger, and a result *)
(* of 0 comes from one whose deadline has not passed.                       *)
LockInv ==
  /\ step \in [LockSteps -> StepRec]
  /\ result \in [LockSteps -> {0, 1, NoResult}]
  /\ \A i \in LockSteps :
       /\ step[i].phase = "none" => result[i] = NoResult
       /\ step[i].asked => step[i].timedOut \/ step[i].stranger
       /\ result[i] = 0 => ~step[i].timedOut /\ (step[i].asked \/ step[i].phase = "build")

LEMMA LockStart == GatesInit => LockInv
  BY DEF GatesInit, LockInv, StepRec, LockSteps, NotStarted, NoResult

LEMMA LockMoves == LockInv /\ [GatesNext]_gateVars => LockInv'
<1> SUFFICES ASSUME LockInv, [GatesNext]_gateVars PROVE LockInv'
  OBVIOUS
<1>0. DOMAIN step = LockSteps
  BY DEF LockInv
<1> USE DEF LockInv, NoResult, Running
<1>1. ASSUME NEW i \in LockSteps, StartStep(i) PROVE LockInv'
  <2>1. result[i] # 0
    BY <1>1 DEF StartStep
  <2>2. QED
    BY <1>1, <2>1 DEF StartStep, StepRec
<1>2. ASSUME NEW i \in LockSteps, Deadline(i) PROVE LockInv'
  BY <1>2 DEF Deadline, StepRec
<1>3. ASSUME NEW i \in LockSteps, Interrupt(i) PROVE LockInv'
  <2> DEFINE asked == [step[i] EXCEPT !.asked = TRUE, !.stranger = TRUE]
  <2>1. asked \in StepRec /\ asked.phase = step[i].phase /\ asked.timedOut = step[i].timedOut /\ asked.stranger
    BY DEF StepRec
  <2>2. step' = [step EXCEPT ![i] = asked] /\ UNCHANGED result /\ result[i] = NoResult
    BY <1>3 DEF Interrupt
  <2> HIDE DEF asked
  <2>3. QED
    BY <2>1, <2>2
<1>4. ASSUME NEW i \in LockSteps, Proceed(i) PROVE LockInv'
  BY <1>4 DEF Proceed, StepRec
<1>5. ASSUME NEW i \in LockSteps, NEW code \in 0..1, StepExits(i, code) PROVE LockInv'
  <2> DEFINE exit == ExitCode(step[i], code)
  <2>1. exit \in {0, 1}
    BY DEF ExitCode, StepRec
  <2>2. exit = 0 => ~step[i].timedOut /\ (step[i].asked \/ step[i].phase = "build")
    BY <1>5 DEF ExitCode, StepExits, Codes, StepRec
  <2>3. result' = [result EXCEPT ![i] = exit] /\ UNCHANGED step /\ step[i].phase # "none"
    BY <1>5 DEF StepExits
  <2> HIDE DEF exit
  <2>4. QED
    BY <2>1, <2>2, <2>3
<1>6. ASSUME RunnerNext PROVE LockInv'
  BY <1>6 DEF RunnerNext, Throws, Continue, ServerReady, Cancel, StopAll, AllStopped, SettleExitCode, Acquire, Spawn,
              Exit, BrowserDone, DropDatabase, RemoveDirectory, LockSame
<1>7. ASSUME UNCHANGED gateVars PROVE LockInv'
  BY <1>7 DEF gateVars
<1>8. QED
  BY <1>0, <1>1, <1>2, <1>3, <1>4, <1>5, <1>6, <1>7 DEF GatesNext, LockNext

(***************************************************************************)
(* The system lock is green only if every step did its work to the end, or *)
(* was ended by somebody who is not the lock, however many steps there are.*)
(***************************************************************************)
THEOREM GreenIsDone == GatesSpec => []GreenMeansDone
<1>1. LockInv => GreenMeansDone
  BY DEF LockInv, GreenMeansDone, Green, StepRec
<1>2. QED
  BY LockStart, LockMoves, <1>1, PTL DEF GatesSpec

-----------------------------------------------------------------------------
(* Reports: files *)

(* The query names the window and the slot outright. *)
Repeats(q, key, window, conflict) ==
  /\ Windowed(key) =>
       "from" \in DOMAIN q /\ "to" \in DOMAIN q /\ window = [from |-> q["from"], to |-> q["to"]]
  /\ key = "approved-leave" =>
       /\ "date" \in DOMAIN q /\ "start" \in DOMAIN q /\ "end" \in DOMAIN q
       /\ conflict = [date |-> q["date"], start |-> q["start"], end |-> q["end"]]

(* Such a query is taken for them on any day. *)
LEMMA RepeatedIsResolved ==
  ASSUME NEW q, NEW key, NEW window, NEW conflict, NEW day, Repeats(q, key, window, conflict)
  PROVE  /\ Windowed(key) => WindowOf(key, q, day) = window
         /\ key = "approved-leave" => ConflictOf(key, q, day) = conflict
  BY DEF Repeats, WindowOf, ConflictOf, Given

(* The links of a page repeat what the page was built for. *)
LEMMA LinksRepeat ==
  ASSUME NEW q, NEW key, NEW day
  PROVE  LET request == Request(key, q, day) IN Repeats(Kept(q, request), key, request.window, request.conflict)
<1> DEFINE request == Request(key, q, day)
<1> DEFINE window == IF Windowed(key) THEN {"from", "to"} ELSE {}
<1> DEFINE slot == IF key = "approved-leave" THEN {"date", "start", "end"} ELSE {}
<1>1. /\ request.key = key
      /\ request.window = [from |-> request.window.from, to |-> request.window.to]
      /\ request.conflict = [date |-> request.conflict.date, start |-> request.conflict.start, end |-> request.conflict.end]
  BY DEF Request, WindowOf, ConflictOf
<1> HIDE DEF request
<1>2. Kept(q, request) =
        [f \in (DOMAIN q \ {"page", "month"}) \cup window \cup slot |->
           IF f \in window THEN request.window[f] ELSE IF f \in slot THEN request.conflict[f] ELSE q[f]]
  BY <1>1 DEF Kept
<1>3. Windowed(key) =>
        /\ "from" \in DOMAIN Kept(q, request) /\ Kept(q, request)["from"] = request.window.from
        /\ "to" \in DOMAIN Kept(q, request) /\ Kept(q, request)["to"] = request.window.to
  BY <1>2
<1>4. key = "approved-leave" =>
        /\ "date" \in DOMAIN Kept(q, request) /\ Kept(q, request)["date"] = request.conflict.date
        /\ "start" \in DOMAIN Kept(q, request) /\ Kept(q, request)["start"] = request.conflict.start
        /\ "end" \in DOMAIN Kept(q, request) /\ Kept(q, request)["end"] = request.conflict.end
  BY <1>2
<1>5. Repeats(Kept(q, request), key, request.window, request.conflict)
  BY <1>1, <1>3, <1>4 DEF Repeats
<1>6. QED
  BY <1>5 DEF request

(* A page was asked for on some day, its links repeat its window and slot,  *)
(* and so does the query of a file that such a link asks for; what has been *)
(* collected is all there was.                                              *)
DayInv == today \in 0..LastDay /\ stock \in 0..MaxStock
LoadInv ==
  load.stage = "reading" => \E day \in 0..LastDay : load.request = Request(load.request.key, load.query, day)
ViewInv ==
  view.shown => Repeats(view.query, view.request.key, view.request.window, view.request.conflict)
AskedInv ==
  export.stage \in {"asked", "admitted"} /\ export.link.linked =>
    Repeats(export.query, export.key, export.link.window, export.link.conflict)
AnsweredInv ==
  export.stage \in {"resolved", "collected", "delivered"} =>
    /\ export.link.linked /\ Windowed(export.key) => export.request.window = export.link.window
    /\ export.link.linked /\ export.key = "approved-leave" => export.request.conflict = export.link.conflict
    /\ export.stage # "resolved" => export.rows = export.matching
    /\ export.stage = "delivered" =>
         Event("generated", export.key, export.request.window, export.rows) \in trail
FileInv == DayInv /\ LoadInv /\ ViewInv /\ AskedInv /\ AnsweredInv

LEMMA FilesStart == ReportingInit => FileInv
  BY DEF ReportingInit, FileInv, DayInv, LoadInv, ViewInv, AskedInv, AnsweredInv, NoLoad, NoView, NoExport

(* Asking for a page. *)
LEMMA AskedIsDated ==
  ASSUME FileInv, NEW key, NEW q, NEW along, AskFor(key, q, along)
  PROVE  FileInv'
<1>1. CASE Refusal(key, q, today) # "NONE"
  BY <1>1 DEF AskFor, FileInv, DayInv, LoadInv, ViewInv, AskedInv, AnsweredInv, NoView
<1>2. CASE Refusal(key, q, today) = "NONE"
  <2>1. /\ load' = [stage |-> "reading", query |-> q, request |-> Request(key, q, today),
                    rows |-> {}, total |-> 0, left |-> {"rows", "total"}]
        /\ view' = NoView /\ UNCHANGED <<today, stock, export, trail>>
    BY <1>2 DEF AskFor
  <2>2. Request(key, q, today).key = key
    BY DEF Request
  <2>3. LoadInv'
    BY <2>1, <2>2 DEF FileInv, DayInv, LoadInv
  <2>4. QED
    BY <2>1, <2>3 DEF FileInv, DayInv, ViewInv, AskedInv, AnsweredInv, NoView
<1>3. QED
  BY <1>1, <1>2

(* A refusal or a failure leaves no file. *)
LEMMA RefusedIsNoFile ==
  ASSUME NEW reason, RefuseExport(reason) \/ FailExport
  PROVE  export'.stage \in {"refused", "failed"} /\ trail \subseteq trail'
  BY DEF RefuseExport, FailExport

LEMMA PageStepKeepsFiles ==
  ASSUME FileInv, PageStep PROVE FileInv'
<1>1. CASE OpenReport
  BY <1>1, AskedIsDated DEF OpenReport
<1>2. CASE FollowNext
  BY <1>2, AskedIsDated DEF FollowNext
<1>3. CASE ApplyFilters
  BY <1>3, AskedIsDated DEF ApplyFilters
<1>4. CASE ReadPage
  BY <1>4 DEF ReadPage, FileInv, DayInv, LoadInv, ViewInv, AskedInv, AnsweredInv
<1>5. CASE ReadTotal
  BY <1>5 DEF ReadTotal, FileInv, DayInv, LoadInv, ViewInv, AskedInv, AnsweredInv
<1>6. CASE ShowPage
  <2>1. /\ view'.request = load.request /\ view'.query = Kept(load.query, load.request)
        /\ load' = NoLoad /\ UNCHANGED <<today, stock, export, trail>>
    BY <1>6 DEF ShowPage
  <2>2. PICK day \in 0..LastDay : load.request = Request(load.request.key, load.query, day)
    BY <1>6 DEF ShowPage, FileInv, LoadInv
  <2> DEFINE key == load.request.key  q == load.query
  <2>3. Repeats(Kept(q, Request(key, q, day)), key, Request(key, q, day).window, Request(key, q, day).conflict)
    BY LinksRepeat
  <2>4. Repeats(Kept(q, load.request), key, load.request.window, load.request.conflict)
    BY <2>2, <2>3
  <2>5. ViewInv'
    BY <2>1, <2>4 DEF ViewInv
  <2>6. QED
    BY <2>1, <2>5 DEF FileInv, DayInv, LoadInv, AskedInv, AnsweredInv, NoLoad
<1>7. QED
  BY <1>1, <1>2, <1>3, <1>4, <1>5, <1>6 DEF PageStep

(* One row over the cap is looked for, so what is not over it is all there is. *)
LEMMA CollectedIsAll ==
  ASSUME stock \in Nat, Cardinality(Collected) <= MaxExport
  PROVE  Cardinality(Collected) = stock
<1>1. MaxExport \in Nat
  BY ReportingAssumption
<1>2. CASE stock <= MaxExport
  <2>1. Collected = 1..stock
    BY <1>1, <1>2 DEF Collected, Rows
  <2>2. Cardinality(1..stock) = IF 1 > stock THEN 0 ELSE stock - 1 + 1
    BY FS_Interval
  <2>3. QED
    BY <2>1, <2>2
<1>3. CASE stock > MaxExport
  <2>1. Collected = 1..MaxExport + 1
    BY <1>1, <1>3 DEF Collected, Rows
  <2>2. Cardinality(1..MaxExport + 1) = IF 1 > MaxExport + 1 THEN 0 ELSE MaxExport + 1 - 1 + 1
    BY <1>1, FS_Interval
  <2>3. Cardinality(Collected) = MaxExport + 1
    BY <1>1, <2>1, <2>2
  <2>4. QED
    BY <1>1, <2>3
<1>4. QED
  BY <1>1, <1>2, <1>3

LEMMA FileStepKeepsFiles ==
  ASSUME FileInv, FileStep PROVE FileInv'
<1>1. CASE Download
  <2>1. /\ export' = [stage |-> "asked", key |-> view.request.key, query |-> view.query,
                      link |-> [linked |-> TRUE, window |-> view.request.window, conflict |-> view.request.conflict]]
        /\ view.shown /\ UNCHANGED <<today, stock, load, view, trail>>
    BY <1>1 DEF Download, Requested
  <2>2. AskedInv'
    BY <2>1 DEF FileInv, ViewInv, AskedInv
  <2>3. QED
    BY <2>1, <2>2 DEF FileInv, DayInv, LoadInv, ViewInv, AnsweredInv
<1>2. CASE TypeAddress
  BY <1>2 DEF TypeAddress, Requested, NoLink, FileInv, DayInv, LoadInv, ViewInv, AskedInv, AnsweredInv
<1>3. CASE Admit
  <2>1. UNCHANGED <<today, stock, load, view>>
    BY <1>3 DEF Admit
  <2>2. CASE FailExport \/ RefuseExport("forbidden")
    <3>1. export'.stage \in {"refused", "failed"}
      BY <2>2, RefusedIsNoFile
    <3>2. QED
      BY <2>1, <3>1 DEF FileInv, DayInv, LoadInv, ViewInv, AskedInv, AnsweredInv
  <2>3. CASE export' = [export EXCEPT !.stage = "admitted"] /\ UNCHANGED trail
    <3>1. /\ export'.stage = "admitted" /\ export.stage = "asked"
          /\ export'.query = export.query /\ export'.key = export.key /\ export'.link = export.link
      BY <1>3, <2>3 DEF Admit
    <3>2. QED
      BY <2>1, <3>1 DEF FileInv, DayInv, LoadInv, ViewInv, AskedInv, AnsweredInv
  <2>4. QED
    BY <1>3, <2>2, <2>3 DEF Admit
<1>4. CASE Resolve
  <2>1. UNCHANGED <<today, stock, load, view>> /\ export.stage = "admitted"
    BY <1>4 DEF Resolve
  <2>2. CASE FailExport \/ RefuseExport("out_of_scope") \/ RefuseExport("too_large")
    <3>1. export'.stage \in {"refused", "failed"}
      BY <2>2, RefusedIsNoFile
    <3>2. QED
      BY <2>1, <3>1 DEF FileInv, DayInv, LoadInv, ViewInv, AskedInv, AnsweredInv
  <2>3. CASE /\ export' = [stage |-> "resolved", key |-> export.key, link |-> export.link,
                           request |-> Request(export.key, export.query, today)]
             /\ UNCHANGED trail
    <3>1. /\ export'.stage = "resolved" /\ export'.key = export.key /\ export'.link = export.link
          /\ export'.request.window = WindowOf(export.key, export.query, today)
          /\ export'.request.conflict = ConflictOf(export.key, export.query, today)
      BY <2>3 DEF Request
    <3>2. export.link.linked => Repeats(export.query, export.key, export.link.window, export.link.conflict)
      BY <2>1 DEF FileInv, AskedInv
    <3>3. export.link.linked =>
            /\ Windowed(export.key) => export'.request.window = export.link.window
            /\ export.key = "approved-leave" => export'.request.conflict = export.link.conflict
      BY <3>1, <3>2, RepeatedIsResolved
    <3>4. QED
      BY <2>1, <2>3, <3>1, <3>3 DEF FileInv, DayInv, LoadInv, ViewInv, AskedInv, AnsweredInv
  <2>4. QED
    BY <1>4, <2>2, <2>3 DEF Resolve
<1>5. CASE Collect
  <2>1. UNCHANGED <<today, stock, load, view>> /\ export.stage = "resolved"
    BY <1>5 DEF Collect
  <2>2. CASE RefuseExport("too_large")
    <3>1. export'.stage \in {"refused", "failed"}
      BY <2>2, RefusedIsNoFile
    <3>2. QED
      BY <2>1, <3>1 DEF FileInv, DayInv, LoadInv, ViewInv, AskedInv, AnsweredInv
  <2>3. CASE ~(Cardinality(Collected) > MaxExport)
    <3>1. export' = [stage |-> "collected", key |-> export.key, link |-> export.link,
                     request |-> export.request, rows |-> Cardinality(Collected), matching |-> stock]
      BY <1>5, <2>3 DEF Collect
    <3>2. Cardinality(Collected) = stock
      <4>1. stock \in Nat
        BY ReportingAssumption DEF FileInv, DayInv
      <4>2. IsFiniteSet(Collected)
        <5>1. IsFiniteSet(1..stock)
          BY <4>1, FS_Interval
        <5>2. Collected \subseteq 1..stock
          BY DEF Collected, Rows
        <5>3. QED
          BY <5>1, <5>2, FS_Subset
      <4>3. Cardinality(Collected) <= MaxExport
        BY <2>3, <4>2, FS_CardinalityType, ReportingAssumption
      <4>4. QED
        BY <4>1, <4>3, CollectedIsAll
    <3>3. QED
      BY <2>1, <3>1, <3>2 DEF FileInv, DayInv, LoadInv, ViewInv, AskedInv, AnsweredInv
  <2>4. QED
    BY <1>5, <2>2, <2>3 DEF Collect
<1>6. CASE Deliver
  <2>1. UNCHANGED <<today, stock, load, view>> /\ export.stage = "collected"
    BY <1>6 DEF Deliver
  <2>2. CASE FailExport
    <3>1. export'.stage \in {"refused", "failed"}
      BY <2>2 DEF FailExport
    <3>2. QED
      BY <2>1, <3>1 DEF FileInv, DayInv, LoadInv, ViewInv, AskedInv, AnsweredInv
  <2>3. CASE /\ trail' = trail \cup {Event("generated", export.key, export.request.window, export.rows)}
             /\ export' = [export EXCEPT !.stage = "delivered"]
    <3>1. /\ export'.stage = "delivered" /\ export'.key = export.key /\ export'.link = export.link
          /\ export'.request = export.request /\ export'.rows = export.rows /\ export'.matching = export.matching
      BY <2>1, <2>3
    <3>2. QED
      BY <2>1, <2>3, <3>1 DEF FileInv, DayInv, LoadInv, ViewInv, AskedInv, AnsweredInv
  <2>4. QED
    BY <1>6, <2>2, <2>3 DEF Deliver
<1>7. QED
  BY <1>1, <1>2, <1>3, <1>4, <1>5, <1>6 DEF FileStep

LEMMA FilesStep == FileInv /\ [ReportingNext]_reportingVars => FileInv'
<1> SUFFICES ASSUME FileInv, [ReportingNext]_reportingVars PROVE FileInv'
  OBVIOUS
<1>1. CASE OutsideStep
  <2>1. today' \in 0..LastDay /\ stock' \in 0..MaxStock
    BY <1>1, ReportingAssumption DEF OutsideStep, DayPasses, StockChanges, RoleLost, FileInv, DayInv
  <2>2. UNCHANGED <<load, view, export, trail>>
    BY <1>1 DEF OutsideStep, DayPasses, StockChanges, RoleLost
  <2>3. QED
    BY <2>1, <2>2 DEF FileInv, DayInv, LoadInv, ViewInv, AskedInv, AnsweredInv
<1>2. CASE UNCHANGED reportingVars
  BY <1>2 DEF reportingVars, FileInv, DayInv, LoadInv, ViewInv, AskedInv, AnsweredInv
<1>3. QED
  BY <1>1, <1>2, PageStepKeepsFiles, FileStepKeepsFiles DEF ReportingNext

(***************************************************************************)
(* A delivered file is whole, recorded, and answers the page its link was  *)
(* on, for any calendar, page size and cap, whenever it is asked for and   *)
(* whatever changes before it is delivered.                                *)
(***************************************************************************)
THEOREM FilesAnswer == ReportingSpec => []FilesAnswerTheirPage
<1>1. FileInv => FilesAnswerTheirPage
  BY DEF FileInv, AnsweredInv, FilesAnswerTheirPage
<1>2. QED
  BY FilesStart, FilesStep, <1>1, PTL DEF ReportingSpec

-----------------------------------------------------------------------------
(* Reports: pages *)

UpTo(n) == {i \in 1..stock : i <= n}

(* While the rows stay as they are, what Next has shown before page p are    *)
(* the rows of the pages before p, whichever of its two reads comes first.   *)
LoadedInv ==
  load.stage = "reading" =>
    /\ load.left \subseteq {"rows", "total"}
    /\ load.request.page \in Nat \ {0} /\ load.request.key \in ReportKeys
    /\ walk.begun /\ walk.steady /\ load.request.key # "audit-history" =>
         /\ walk.seen = UpTo((load.request.page - 1) * PageSize)
         /\ "rows" \notin load.left => load.rows = Rows((load.request.page - 1) * PageSize, PageSize)
         /\ "total" \notin load.left => load.total = stock
ShownInv ==
  view.shown =>
    /\ view.request.page \in Nat \ {0} /\ view.request.key \in ReportKeys
    /\ walk.begun /\ walk.steady /\ view.request.key # "audit-history" =>
         /\ walk.seen = UpTo(view.request.page * PageSize)
         /\ ~view.hasNext => stock <= view.request.page * PageSize
WalkInv == DayInv /\ LoadedInv /\ ShownInv

LEMMA WalkStart == ReportingInit => WalkInv
  BY DEF ReportingInit, WalkInv, DayInv, LoadedInv, ShownInv, NoLoad, NoView

(* The pages before page n + 1 are the pages before page n and page n. *)
LEMMA PagesFollow ==
  ASSUME NEW page \in Nat \ {0}, stock \in Nat
  PROVE  /\ (page - 1) * PageSize \in Nat
         /\ page * PageSize = (page - 1) * PageSize + PageSize
         /\ UpTo((page - 1) * PageSize) \cup Rows((page - 1) * PageSize, PageSize) = UpTo(page * PageSize)
<1>1. PageSize \in Nat /\ PageSize > 0
  BY ReportingAssumption
<1> DEFINE before == (page - 1) * PageSize
<1>2. before \in Nat /\ page * PageSize = before + PageSize
  BY <1>1
<1> HIDE DEF before
<1>3. UpTo(before) \cup Rows(before, PageSize) = UpTo(before + PageSize)
  BY <1>1, <1>2 DEF UpTo, Rows
<1>4. QED
  BY <1>2, <1>3 DEF before

(* A page that is not full is the last one. *)
LEMMA ShortPageIsLast ==
  ASSUME NEW before \in Nat, stock \in Nat,
         Cardinality(Rows(before, PageSize)) # PageSize \/ ~(before + Cardinality(Rows(before, PageSize)) < stock)
  PROVE  stock <= before + PageSize
<1>1. PageSize \in Nat /\ PageSize > 0
  BY ReportingAssumption
<1>2. SUFFICES ASSUME stock > before + PageSize PROVE FALSE
  BY <1>1
<1>3. Rows(before, PageSize) = before + 1..before + PageSize
  BY <1>1, <1>2 DEF Rows
<1>4. Cardinality(before + 1..before + PageSize) =
        IF before + 1 > before + PageSize THEN 0 ELSE before + PageSize - (before + 1) + 1
  BY <1>1, FS_Interval
<1>5. Cardinality(Rows(before, PageSize)) = PageSize
  BY <1>1, <1>3, <1>4
<1>6. QED
  BY <1>1, <1>2, <1>5

(* A page is asked for from the start of a walk, on it, or off it. *)
LEMMA AskedOnTheWay ==
  ASSUME WalkInv, NEW key \in ReportKeys, NEW q, NEW along, AskFor(key, q, along),
         /\ along.begun /\ along.steady /\ key # "audit-history" =>
              along.seen = UpTo((Given(q, "page", 1) - 1) * PageSize)
  PROVE  WalkInv'
<1>1. CASE Refusal(key, q, today) # "NONE"
  BY <1>1 DEF AskFor, WalkInv, DayInv, LoadedInv, ShownInv, NoView, NoLoad
<1>2. CASE Refusal(key, q, today) = "NONE"
  <2>1. /\ load' = [stage |-> "reading", query |-> q, request |-> Request(key, q, today),
                    rows |-> {}, total |-> 0, left |-> {"rows", "total"}]
        /\ view' = NoView /\ walk' = along /\ UNCHANGED <<today, stock>>
    BY <1>2 DEF AskFor
  <2>2. Given(q, "page", 1) \in Nat \ {0}
    BY <1>2, ReportingAssumption DEF Refusal, Malformed
  <2>3. Request(key, q, today).key = key /\ Request(key, q, today).page = Given(q, "page", 1)
    BY DEF Request
  <2>4. LoadedInv'
    BY <2>1, <2>2, <2>3 DEF LoadedInv, UpTo
  <2>5. QED
    BY <2>1, <2>4 DEF WalkInv, DayInv, ShownInv, NoView
<1>3. QED
  BY <1>1, <1>2

LEMMA NothingBeforeTheFirst ==
  ASSUME stock \in Nat PROVE UpTo((1 - 1) * PageSize) = {}
  BY ReportingAssumption DEF UpTo

LEMMA WalkStep == WalkInv /\ [ReportingNext]_reportingVars => WalkInv'
<1> SUFFICES ASSUME WalkInv, [ReportingNext]_reportingVars PROVE WalkInv'
  OBVIOUS
<1>0. stock \in Nat
  BY ReportingAssumption DEF WalkInv, DayInv
<1>1. CASE OpenReport
  <2>1. PICK key \in AskedKey, q \in AskedQuery : AskFor(key, q, IF Given(q, "page", 1) = 1 THEN NewWalk ELSE NoWalk)
    BY <1>1 DEF OpenReport
  <2> DEFINE along == IF Given(q, "page", 1) = 1 THEN NewWalk ELSE NoWalk
  <2>2. along.begun => along.seen = {} /\ Given(q, "page", 1) = 1
    BY DEF NewWalk, NoWalk
  <2>3. along.begun => along.seen = UpTo((Given(q, "page", 1) - 1) * PageSize)
    BY <1>0, <2>2, NothingBeforeTheFirst
  <2> HIDE DEF along
  <2>4. AskFor(key, q, along)
    BY <2>1 DEF along
  <2>5. QED
    BY <2>3, <2>4, AskedOnTheWay, AskedAssumption
<1>2. CASE FollowNext
  <2> DEFINE q == PageHref(view.query, view.request.page + 1)
  <2>1. view.request.page \in Nat \ {0} /\ view.request.key \in ReportKeys /\ view.shown
    BY <1>2 DEF FollowNext, WalkInv, ShownInv
  <2>2. Given(q, "page", 1) = view.request.page + 1
    BY DEF Given, PageHref
  <2>3. Given(q, "page", 1) - 1 = view.request.page
    BY <2>1, <2>2
  <2>4. walk.begun /\ walk.steady /\ view.request.key # "audit-history" =>
          walk.seen = UpTo((Given(q, "page", 1) - 1) * PageSize)
    BY <2>1, <2>3 DEF WalkInv, ShownInv
  <2> HIDE DEF q
  <2>5. AskFor(view.request.key, q, walk)
    BY <1>2 DEF FollowNext, q
  <2>6. QED
    BY <2>1, <2>4, <2>5, AskedOnTheWay
<1>3. CASE ApplyFilters
  <2>1. PICK q \in AskedQuery :
          /\ DOMAIN q \subseteq ReportFilters(view.request.key) \ {"month"}
          /\ AskFor(view.request.key,
                    [f \in DOMAIN q \cup DOMAIN FormQuery |-> IF f \in DOMAIN q THEN q[f] ELSE FormQuery[f]],
                    NewWalk)
    BY <1>3 DEF ApplyFilters
  <2> DEFINE asked == [f \in DOMAIN q \cup DOMAIN FormQuery |-> IF f \in DOMAIN q THEN q[f] ELSE FormQuery[f]]
  <2>2. view.request.key \in ReportKeys /\ "page" \notin ReportFilters(view.request.key)
    <3>1. view.request.key \in ReportKeys
      BY <1>3 DEF ApplyFilters, WalkInv, ShownInv
    <3>2. QED
      BY <3>1 DEF ReportKeys, ReportFilters, WindowFilters, Snapshots, AssignmentReports
  <2>3. "page" \notin DOMAIN FormQuery
    BY DEF FormQuery
  <2>4. Given(asked, "page", 1) = 1
    BY <2>1, <2>2, <2>3 DEF Given
  <2>5. NewWalk.seen = UpTo((Given(asked, "page", 1) - 1) * PageSize)
    BY <1>0, <2>4, NothingBeforeTheFirst DEF NewWalk
  <2> HIDE DEF asked
  <2>6. AskFor(view.request.key, asked, NewWalk)
    BY <2>1 DEF asked
  <2>7. QED
    BY <2>2, <2>5, <2>6, AskedOnTheWay
<1>4. CASE ReadPage
  <2>1. /\ load.stage = "reading" /\ UNCHANGED <<today, stock, view, walk>>
        /\ load'.stage = "reading" /\ load'.request = load.request /\ load'.rows = PageRows(load.request)
    BY <1>4 DEF ReadPage
  <2>2. /\ load'.left \subseteq load.left
        /\ "total" \notin load'.left => load'.total = stock \/ ("total" \notin load.left /\ load'.total = load.total)
    BY <1>4 DEF ReadPage
  <2>3. load.request.key # "audit-history" => PageRows(load.request) = Rows((load.request.page - 1) * PageSize, PageSize)
    BY DEF PageRows
  <2>4. LoadedInv'
    BY <2>1, <2>2, <2>3 DEF WalkInv, LoadedInv, UpTo, Rows
  <2>5. QED
    BY <2>1, <2>4 DEF WalkInv, DayInv, ShownInv, UpTo
<1>5. CASE ReadTotal
  <2>1. /\ load.stage = "reading" /\ UNCHANGED <<today, stock, view, walk>>
        /\ load'.stage = "reading" /\ load'.request = load.request /\ load'.rows = load.rows
        /\ load'.total = stock /\ load'.left = load.left \ {"total"}
    BY <1>5 DEF ReadTotal
  <2>2. LoadedInv'
    BY <2>1 DEF WalkInv, LoadedInv, UpTo, Rows
  <2>3. QED
    BY <2>1, <2>2 DEF WalkInv, DayInv, ShownInv, UpTo
<1>6. CASE ShowPage
  <2> DEFINE page == load.request.page  before == (page - 1) * PageSize
  <2>1. /\ load.stage = "reading" /\ load.left = {} /\ load' = NoLoad /\ UNCHANGED <<today, stock>>
        /\ view'.request = load.request /\ view'.hasNext = HasNext(load.request, load.rows, load.total)
        /\ walk'.seen = walk.seen \cup load.rows /\ walk'.begun = walk.begun /\ walk'.steady = walk.steady
    BY <1>6 DEF ShowPage
  <2>2. page \in Nat \ {0} /\ load.request.key \in ReportKeys
    BY <2>1 DEF WalkInv, LoadedInv
  <2>3. before \in Nat /\ page * PageSize = before + PageSize /\ UpTo(before) \cup Rows(before, PageSize) = UpTo(page * PageSize)
    BY <1>0, <2>2, PagesFollow
  <2>4. ASSUME walk.begun, walk.steady, load.request.key # "audit-history"
        PROVE  /\ walk'.seen = UpTo(page * PageSize)
               /\ ~HasNext(load.request, load.rows, load.total) => stock <= page * PageSize
    <3>1. walk.seen = UpTo(before) /\ load.rows = Rows(before, PageSize) /\ load.total = stock
      BY <2>1, <2>4 DEF WalkInv, LoadedInv
    <3>2. ~HasNext(load.request, load.rows, load.total) =>
            \/ Cardinality(Rows(before, PageSize)) # PageSize
            \/ ~(before + Cardinality(Rows(before, PageSize)) < stock)
      BY <3>1 DEF HasNext
    <3> HIDE DEF before, page
    <3>3. ~HasNext(load.request, load.rows, load.total) => stock <= before + PageSize
      BY <1>0, <2>3, <3>2, ShortPageIsLast
    <3>4. QED
      BY <2>1, <2>3, <3>1, <3>3
  <2>5. ShownInv'
    BY <2>1, <2>2, <2>4 DEF ShownInv, UpTo
  <2>6. QED
    BY <2>1, <2>5 DEF WalkInv, DayInv, LoadedInv, NoLoad
<1>7. CASE FileStep
  BY <1>7 DEF FileStep, Download, TypeAddress, Requested, Admit, Resolve, Collect, Deliver,
              WalkInv, DayInv, LoadedInv, ShownInv, UpTo, Rows
<1>8. CASE DayPasses \/ RoleLost
  <2>1. today' \in 0..LastDay /\ UNCHANGED <<stock, load, view, walk>>
    BY <1>8, ReportingAssumption DEF DayPasses, RoleLost, WalkInv, DayInv
  <2>2. QED
    BY <2>1 DEF WalkInv, DayInv, LoadedInv, ShownInv, UpTo, Rows
<1>9. CASE StockChanges
  <2>1. stock' \in 0..MaxStock /\ ~walk'.steady /\ UNCHANGED <<today, load, view>>
    BY <1>9 DEF StockChanges
  <2>2. QED
    BY <2>1 DEF WalkInv, DayInv, LoadedInv, ShownInv
<1>10. CASE UNCHANGED reportingVars
  BY <1>10 DEF reportingVars, WalkInv, DayInv, LoadedInv, ShownInv, UpTo, Rows
<1>11. QED
  BY <1>1, <1>2, <1>3, <1>4, <1>5, <1>6, <1>7, <1>8, <1>9, <1>10 DEF ReportingNext, PageStep, OutsideStep

(***************************************************************************)
(* Whoever follows Next from the first page to the last, while nothing     *)
(* changes, has seen every row, for any page size and number of rows and   *)
(* in whichever order a page reads its rows and their total.               *)
(***************************************************************************)
THEOREM NextReachesAll == ReportingSpec => []NextReachesEveryRow
<1>1. WalkInv => NextReachesEveryRow
  <2>1. SUFFICES ASSUME WalkInv, Exhausted, view.request.key # "audit-history" PROVE walk.seen = 1..stock
    BY DEF NextReachesEveryRow
  <2>2. walk.seen = UpTo(view.request.page * PageSize) /\ stock <= view.request.page * PageSize
    BY <2>1 DEF Exhausted, WalkInv, ShownInv
  <2>3. view.request.page * PageSize \in Nat /\ stock \in Nat
    BY <2>1, ReportingAssumption DEF Exhausted, WalkInv, ShownInv, DayInv
  <2>4. QED
    BY <2>2, <2>3 DEF UpTo
<1>2. QED
  BY WalkStart, WalkStep, <1>1, PTL DEF ReportingSpec

-----------------------------------------------------------------------------
(* Forms over a moving record *)

Kinds == TicketDialogs \cup WorkspaceDialogs \cup DocumentDialogs
VersionRec == [log : Nat, archived : BOOLEAN]
ReadingRec == [version : Nat, may : {"edit", "view", "none"}]
TabRec == [screen : Screen, initial : ReadingRec, latest : ReadingRec,
           unavailable : BOOLEAN, refreshing : BOOLEAN, routed : BOOLEAN]
DialogRec == [kind : Kinds \cup {"none"}, open : BOOLEAN, closing : BOOLEAN, exit : BOOLEAN, queued : BOOLEAN,
              wish : {"stay", "leave"}]
FormRec == [mounted : {TRUE}, typed : BOOLEAN, filled : Nat, pending : Task \cup {NoTask},
            conflict : BOOLEAN, created : BOOLEAN]

(* What the page and the answers under way name are versions of the record. *)
RecordInv ==
  /\ history \in Seq(VersionRec) /\ Len(history) >= 1
  /\ allowed \in {"edit", "view", "none"}
  /\ task = [t \in Task |-> task[t]]
  /\ \A t \in Task : task[t].step = "read" =>
       task[t].reading \in ReadingRec /\ task[t].reading.version \in 1..Len(history)
OnPage(p) ==
  p \in TabRec /\ p.initial.version \in 1..Len(history) /\ p.latest.version \in 0..Len(history)

(* An animated exit is its user's; before a close event nobody has typed.   *)
DialogInv ==
  /\ dialog \in DialogRec /\ form \in FormRec \cup {NoForm}
  /\ dialog.open <=> form.mounted
  /\ dialog.kind = "none" => ~dialog.open
  /\ dialog.exit => dialog.wish = "leave"
  /\ dialog.open /\ dialog.queued => ~form.typed

(* The fields in the dialog are filled from what the page shows.            *)
FormInv ==
  form.mounted =>
    /\ form.filled \in 1..Len(history)
    /\ form.created => ~form.typed
    /\ FilledWith(dialog.kind, form.filled) = FilledWith(dialog.kind, ShownOn(tab).version)

ScreensInv == RecordInv /\ OnPage(tab) /\ DialogInv /\ FormInv

LEMMA ScreensStart == ScreensInit => ScreensInv
<1> SUFFICES ASSUME ScreensInit PROVE ScreensInv
  OBVIOUS
<1>1. history \in Seq(VersionRec) /\ Len(history) = 1
  BY DEF ScreensInit, VersionRec
<1>2. RecordInv
  BY <1>1 DEF ScreensInit, RecordInv, NoJob
<1>3. OnPage(tab)
  BY <1>1 DEF ScreensInit, OnPage, TabRec, ReadingRec, ReadNow, NoReading
<1>4. DialogInv /\ FormInv
  BY DEF ScreensInit, DialogInv, FormInv, ClosedDialog, NoForm, DialogRec, FormRec
<1>5. QED
  BY <1>2, <1>3, <1>4 DEF ScreensInv

(* A page always shows a version there has been. *)
LEMMA ShownIsThere ==
  ASSUME NEW p, OnPage(p)
  PROVE  ShownOn(p).version \in 1..Len(history) /\ ShownOn(p) \in ReadingRec
<1>1. p.initial \in ReadingRec /\ p.latest \in ReadingRec
  BY DEF OnPage, TabRec
<1>2. QED
  BY <1>1 DEF OnPage, ShownOn, ReadingRec

(* A record gains versions and loses none. *)
LEMMA HistoryGrows ==
  ASSUME RecordInv, NEW v \in VersionRec, history' = Append(history, v)
  PROVE  /\ history' \in Seq(VersionRec) /\ Len(history') = Len(history) + 1 /\ Len(history) \in Nat
         /\ \A i \in 1..Len(history) : history'[i] = history[i]
  BY DEF RecordInv

LEMMA FilledStays ==
  ASSUME UNCHANGED history, NEW kind, NEW version
  PROVE  FilledWith(kind, version)' = FilledWith(kind, version)
  BY DEF FilledWith

(* One task moves; what it has read is a version of the record. *)
LEMMA TaskMoved ==
  ASSUME RecordInv, UNCHANGED history, allowed' \in {"edit", "view", "none"}, NEW t \in Task, NEW new,
         task' = [task EXCEPT ![t] = new],
         new.step = "read" => new.reading \in ReadingRec /\ new.reading.version \in 1..Len(history)
  PROVE  RecordInv'
<1>1. task = [u \in Task |-> task[u]]
  BY DEF RecordInv
<1>2. task'[t] = new /\ (\A u \in Task \ {t} : task'[u] = task[u]) /\ task' = [u \in Task |-> task'[u]]
  BY <1>1
<1>3. QED
  BY <1>2 DEF RecordInv

(* The form moves on, on the same fields. *)
LEMMA FormKept ==
  ASSUME ScreensInv, UNCHANGED <<history, tab>>,
         form'.mounted =>
           form.mounted /\ form'.filled = form.filled /\ dialog'.kind = dialog.kind /\ (form'.created => ~form'.typed)
  PROVE  FormInv'
<1> SUFFICES ASSUME form'.mounted
             PROVE  /\ form'.filled \in 1..Len(history)
                    /\ FilledWith(dialog.kind, form.filled)' = FilledWith(dialog.kind, ShownOn(tab).version)'
                    /\ form'.created => ~form'.typed
  BY DEF FormInv
<1>1. FilledWith(dialog.kind, form.filled) = FilledWith(dialog.kind, ShownOn(tab).version)
  BY DEF ScreensInv, FormInv
<1>2. UNCHANGED <<dialog.kind, form.filled, ShownOn(tab).version>>
  BY DEF ShownOn
<1>3. QED
  BY <1>1, <1>2 DEF ScreensInv, FormInv, FilledWith

(* The form is mounted anew. *)
LEMMA FormFresh ==
  ASSUME ScreensInv, UNCHANGED <<history, tab>>, form' = Fresh(ShownOn(tab).version)
  PROVE  /\ FormInv' /\ form' \in FormRec /\ ~form'.typed
<1>1. PICK version \in 1..Len(history) : version = ShownOn(tab).version /\ version = (ShownOn(tab).version)'
  BY ShownIsThere DEF ScreensInv, ShownOn
<1>2. form' = [mounted |-> TRUE, typed |-> FALSE, filled |-> version, pending |-> NoTask,
               conflict |-> FALSE, created |-> FALSE]
  BY <1>1 DEF Fresh
<1>3. form'.filled = version /\ ~form'.typed /\ version \in Nat
  BY <1>1, <1>2
<1>4. FormInv'
  BY <1>1, <1>3 DEF FormInv
<1>5. QED
  BY <1>2, <1>3, <1>4 DEF FormRec

(* A delivery finds the dialog still offered in the same section, or closes *)
(* it; fields whose key moved are filled again.                             *)
LEMMA Rendered ==
  ASSUME ScreensInv, UNCHANGED history, NEW p, OnPage(p), NEW f \in FormRec \cup {NoForm},
         f.mounted <=> form.mounted,
         f.mounted => f.filled = form.filled /\ f.created = form.created /\ (f.typed => form.typed),
         Render(p, f)
  PROVE  /\ tab' = p /\ OnPage(tab)' /\ DialogInv' /\ FormInv'
         /\ form.mounted /\ ~(form'.mounted /\ form'.typed) => ~f.typed \/ Overtaken \/ NoLongerOffered(dialog.kind)
<1> DEFINE version == ShownOn(p).version
           kind == dialog.kind
<1>1. tab' = p /\ OnPage(tab)'
  BY DEF Render, OnPage
<1>2. version \in 1..Len(history) /\ ShownOn(tab).version \in 1..Len(history)
  BY ShownIsThere DEF ScreensInv
<1>3. ShownOn(tab').version = version /\ ShownOn(tab)' = ShownOn(p)
  BY <1>1 DEF ShownOn
<1>4. CASE kind = "none"
  <2>1. ~form.mounted /\ UNCHANGED <<dialog, form>>
    BY <1>4 DEF Render, ScreensInv, DialogInv
  <2>2. QED
    BY <1>1, <2>1 DEF ScreensInv, DialogInv, FormInv
<1>5. CASE /\ kind # "none"
           /\ \/ ~OfferedOn(p, kind)
              \/ SectionKey(kind, version) # SectionKey(kind, ShownOn(tab).version)
  <2>1. dialog' = ClosedDialog /\ form' = NoForm
    BY <1>5 DEF Render
  <2>2. DialogInv' /\ FormInv'
    BY <2>1 DEF DialogInv, FormInv, ClosedDialog, NoForm, DialogRec
  <2>3. CASE ~OfferedOn(p, kind)
    <3>1. ~OfferedOn(tab', kind)
      BY <1>1, <2>3 DEF OfferedOn
    <3>2. QED
      BY <1>1, <2>2, <3>1 DEF NoLongerOffered
  <2>4. CASE SectionKey(kind, version) # SectionKey(kind, ShownOn(tab).version)
    <3>1. kind = "settings" /\ version # ShownOn(tab).version
      BY <2>4 DEF SectionKey
    <3>2. form.mounted => form.filled = ShownOn(tab).version
      BY <3>1 DEF ScreensInv, FormInv, FilledWith
    <3>3. form.mounted => Overtaken
      BY <1>3, <3>1, <3>2 DEF Overtaken, FilledWith
    <3>4. QED
      BY <1>1, <2>2, <3>3
  <2>5. QED
    BY <1>5, <2>3, <2>4
<1>6. CASE /\ kind # "none" /\ OfferedOn(p, kind)
           /\ SectionKey(kind, version) = SectionKey(kind, ShownOn(tab).version)
  <2>1. /\ dialog' = dialog
        /\ form' = IF f.mounted /\ FieldsKey(kind, f.filled) # FieldsKey(kind, version)
                   THEN [f EXCEPT !.filled = version, !.typed = FALSE] ELSE f
    BY <1>6 DEF Render
  <2>2. version \in Nat
    BY <1>2
  <2>3. CASE f.mounted /\ FieldsKey(kind, f.filled) # FieldsKey(kind, version)
    <3> HIDE DEF version
    <3>1. f \in FormRec
      BY <2>3 DEF NoForm
    <3>2. /\ form' \in FormRec /\ form'.mounted /\ form'.filled = version /\ ~form'.typed
      BY <2>1, <2>2, <2>3, <3>1 DEF FormRec
    <3>3. DialogInv'
      BY <2>1, <2>3, <3>2 DEF ScreensInv, DialogInv
    <3>4. FormInv'
      BY <1>2, <1>3, <3>2 DEF FormInv
    <3>5. Overtaken
      <4>1. kind \in {"edit", "editLog"} /\ f.filled = form.filled
        BY <2>3 DEF FieldsKey
      <4>2. FilledWith(kind, form.filled) # FilledWith(kind, version)
        BY <2>3, <4>1 DEF FieldsKey, FilledWith
      <4>3. QED
        BY <1>3, <4>2 DEF Overtaken
    <3>6. QED
      BY <1>1, <3>3, <3>4, <3>5
  <2>4. CASE ~(f.mounted /\ FieldsKey(kind, f.filled) # FieldsKey(kind, version))
    <3>1. form' = f /\ dialog' = dialog
      BY <2>1, <2>4
    <3>2. DialogInv'
      BY <3>1 DEF ScreensInv, DialogInv, FormRec, NoForm
    <3>3. ASSUME form.mounted PROVE FilledWith(kind, form.filled) = FilledWith(kind, version)
      <4>1. FieldsKey(kind, form.filled) = FieldsKey(kind, version)
        BY <2>4, <3>3
      <4>2. FilledWith(kind, form.filled) = FilledWith(kind, ShownOn(tab).version)
        BY <3>3 DEF ScreensInv, FormInv
      <4>3. CASE kind = "settings"
        <5>1. version = ShownOn(tab).version
          BY <1>6, <4>3 DEF SectionKey
        <5>2. QED
          BY <4>2, <5>1
      <4>4. CASE kind # "settings"
        BY <4>1, <4>4 DEF FieldsKey, FilledWith
      <4>5. QED
        BY <4>3, <4>4
    <3>4. FormInv'
      <4>1. ASSUME form'.mounted
            PROVE  FilledWith(dialog.kind, form.filled)' = FilledWith(dialog.kind, ShownOn(tab).version)'
        BY <1>3, <3>1, <3>3, <4>1 DEF FilledWith
      <4>2. form'.mounted => form.mounted /\ form'.filled = form.filled /\ (form'.created => ~form'.typed)
        BY <3>1 DEF ScreensInv, FormInv
      <4>3. QED
        BY <4>1, <4>2 DEF ScreensInv, FormInv
    <3>5. form.mounted /\ ~(form'.mounted /\ form'.typed) => ~f.typed
      BY <3>1
    <3>6. QED
      BY <1>1, <3>2, <3>4, <3>5
  <2>5. QED
    BY <2>3, <2>4
<1>7. QED
  BY <1>4, <1>5, <1>6

Survives ==
  form.mounted /\ form.typed /\ ~(form'.mounted /\ form'.typed) =>
    UsersOwn \/ Overtaken \/ NoLongerOffered(dialog.kind) \/ Done
SendsWhatItShows ==
  \A t \in Task :
    task[t].step # "sent" /\ task'[t].step = "sent" =>
      FilledWith(task'[t].kind, task'[t].filled) = FilledWith(task'[t].kind, task'[t].version)

LEMMA DialogFinished ==
  ASSUME ScreensInv, Finish
  PROVE  DialogInv' /\ FormInv' /\ dialog'.wish = dialog.wish
<1>1. dialog' = [dialog EXCEPT !.open = FALSE, !.closing = FALSE, !.exit = FALSE, !.queued = TRUE] /\ form' = NoForm
  BY DEF Finish
<1>2. dialog \in DialogRec
  BY DEF ScreensInv, DialogInv
<1>3. dialog' \in DialogRec /\ ~dialog'.open /\ ~dialog'.exit /\ dialog'.wish = dialog.wish
  BY <1>1, <1>2 DEF DialogRec
<1>4. form' = NoForm /\ ~form'.mounted
  BY <1>1 DEF NoForm
<1>5. DialogInv'
  BY <1>3, <1>4 DEF DialogInv
<1>6. FormInv'
  BY <1>4 DEF FormInv
<1>7. QED
  BY <1>3, <1>5, <1>6

(* What the reader does with the dialog loses typed work only as wished.    *)
LEMMA DialogueStep ==
  ASSUME ScreensInv, Dialogue
  PROVE  ScreensInv' /\ Survives /\ SendsWhatItShows
<1>1. UNCHANGED <<history, allowed, tab, task>>
  BY DEF Dialogue, Show, Dismiss, DismissAtOnce, ExitEnds, CloseEvent, Type, CreateAnother
<1>2. RecordInv' /\ OnPage(tab)' /\ SendsWhatItShows
  BY <1>1 DEF ScreensInv, RecordInv, OnPage, SendsWhatItShows
<1> SUFFICES DialogInv' /\ FormInv' /\ Survives
  BY <1>2 DEF ScreensInv
<1>3. dialog \in DialogRec /\ form \in FormRec \cup {NoForm}
  BY DEF ScreensInv, DialogInv
<1>4. ASSUME NEW kind \in DialogsOf(tab.screen), Show(kind)
      PROVE  DialogInv' /\ FormInv' /\ Survives
  <2>1. kind \in Kinds
    <3>1. tab.screen \in Screen
      BY DEF ScreensInv, OnPage, TabRec
    <3>2. QED
      BY <3>1 DEF DialogsOf, Screen, Kinds
  <2>2. kind # "none"
    BY <2>1 DEF Kinds, TicketDialogs, WorkspaceDialogs, DocumentDialogs
  <2> DEFINE queued == dialog.queued /\ dialog.kind = kind
  <2>3. dialog' = [kind |-> kind, open |-> TRUE, closing |-> FALSE, exit |-> FALSE, queued |-> queued, wish |-> "stay"]
    BY <1>4 DEF Show
  <2>4. queued \in BOOLEAN
    OBVIOUS
  <2>5. queued => dialog.queued
    OBVIOUS
  <2> HIDE DEF queued
  <2>6. dialog' \in DialogRec
    BY <2>1, <2>3, <2>4 DEF DialogRec
  <2>7. CASE dialog.open
    <3>1. form' = form /\ dialog.kind = kind /\ dialog'.kind = kind
      BY <1>4, <2>3, <2>7 DEF Show
    <3>2. FormInv'
      BY <1>1, <3>1, FormKept DEF ScreensInv, FormInv
    <3>3. DialogInv'
      BY <1>3, <2>2, <2>3, <2>5, <2>6, <2>7, <3>1 DEF ScreensInv, DialogInv
    <3>4. QED
      BY <3>1, <3>2, <3>3 DEF Survives
  <2>8. CASE ~dialog.open
    <3>1. form' = Fresh(ShownOn(tab).version) /\ ~form.mounted
      BY <1>4, <2>8 DEF Show, ScreensInv, DialogInv
    <3>2. FormInv' /\ form' \in FormRec /\ ~form'.typed
      BY <1>1, <3>1, FormFresh
    <3>3. DialogInv'
      BY <2>2, <2>3, <2>6, <3>2 DEF DialogInv, FormRec
    <3>4. QED
      BY <3>1, <3>2, <3>3 DEF Survives
  <2>9. QED
    BY <2>7, <2>8
<1>5. CASE Dismiss
  <2>1. dialog' = [dialog EXCEPT !.closing = TRUE, !.exit = TRUE, !.wish = "leave"] /\ UNCHANGED form
    BY <1>5 DEF Dismiss
  <2>2. dialog' \in DialogRec /\ dialog'.wish = "leave" /\ UNCHANGED <<dialog.open, dialog.kind, dialog.queued>>
    BY <1>3, <2>1 DEF DialogRec
  <2>3. DialogInv'
    BY <2>1, <2>2 DEF ScreensInv, DialogInv
  <2>4. FormInv'
    BY <1>1, <2>1, <2>2, FormKept DEF ScreensInv, FormInv
  <2>5. QED
    BY <2>1, <2>3, <2>4 DEF Survives
<1>6. CASE DismissAtOnce
  <2>1. /\ dialog' = [dialog EXCEPT !.open = FALSE, !.closing = FALSE, !.exit = FALSE, !.queued = TRUE, !.wish = "leave"]
        /\ form' = NoForm
    BY <1>6 DEF DismissAtOnce
  <2>2. dialog' \in DialogRec /\ ~dialog'.open /\ ~dialog'.exit /\ dialog'.wish = "leave"
    BY <1>3, <2>1 DEF DialogRec
  <2>3. form' = NoForm /\ ~form'.mounted
    BY <2>1 DEF NoForm
  <2>4. DialogInv'
    BY <2>2, <2>3 DEF DialogInv
  <2>5. QED
    BY <2>2, <2>3, <2>4 DEF FormInv, Survives, UsersOwn
<1>7. CASE ExitEnds
  <2>1. dialog.exit /\ Finish
    BY <1>7 DEF ExitEnds
  <2>2. dialog.wish = "leave"
    BY <2>1 DEF ScreensInv, DialogInv
  <2>3. DialogInv' /\ FormInv' /\ dialog'.wish = dialog.wish
    BY <2>1, DialogFinished
  <2>4. QED
    BY <2>2, <2>3 DEF Survives, UsersOwn
<1>8. CASE CloseEvent
  <2>1. CASE dialog.open
    <3>1. Finish /\ ~form.typed
      BY <1>8, <2>1 DEF CloseEvent, ScreensInv, DialogInv
    <3>2. DialogInv' /\ FormInv'
      BY <3>1, DialogFinished
    <3>3. QED
      BY <3>1, <3>2 DEF Survives
  <2>2. CASE ~dialog.open
    <3>1. dialog' = ClosedDialog /\ UNCHANGED form /\ ~form.mounted
      BY <1>8, <2>2 DEF CloseEvent, ScreensInv, DialogInv
    <3>2. QED
      BY <1>3, <3>1 DEF DialogInv, FormInv, Survives, ClosedDialog, DialogRec
  <2>3. QED
    BY <2>1, <2>2
<1>9. CASE Type
  <2>1. form' = [form EXCEPT !.typed = TRUE] /\ UNCHANGED dialog /\ form.mounted /\ ~form.created /\ ~dialog.queued
    BY <1>9 DEF Type, Ready
  <2>2. form \in FormRec
    BY <1>3, <2>1 DEF NoForm
  <2>3. form' \in FormRec /\ form'.mounted /\ form'.filled = form.filled /\ form'.created = form.created /\ form'.typed
    BY <2>1, <2>2 DEF FormRec
  <2>4. DialogInv'
    BY <2>1, <2>3 DEF ScreensInv, DialogInv
  <2>5. FormInv'
    BY <1>1, <2>1, <2>3, FormKept
  <2>6. QED
    BY <2>3, <2>4, <2>5 DEF Survives
<1>10. CASE CreateAnother
  <2>1. form' = Fresh(ShownOn(tab).version) /\ UNCHANGED dialog /\ form.mounted /\ form.created
    BY <1>10 DEF CreateAnother
  <2>2. FormInv' /\ form' \in FormRec /\ ~form'.typed
    BY <1>1, <2>1, FormFresh
  <2>3. DialogInv'
    BY <2>1, <2>2 DEF ScreensInv, DialogInv, FormRec
  <2>4. ~form.typed
    BY <2>1 DEF ScreensInv, FormInv
  <2>5. QED
    BY <2>2, <2>3, <2>4 DEF Survives
<1>11. QED
  BY <1>2, <1>4, <1>5, <1>6, <1>7, <1>8, <1>9, <1>10 DEF Dialogue

(* Only the task t moves, and it does not become a command. *)
LEMMA NothingSent ==
  ASSUME RecordInv, NEW t \in Task, NEW new, task' = [task EXCEPT ![t] = new], new.step # "sent"
  PROVE  SendsWhatItShows
<1>1. task = [u \in Task |-> task[u]]
  BY DEF RecordInv
<1>2. task'[t] = new /\ \A u \in Task \ {t} : task'[u] = task[u]
  BY <1>1
<1>3. QED
  BY <1>2 DEF SendsWhatItShows

(* The form after its task: released or settled, on the same fields. *)
LEMMA FormAfter ==
  ASSUME ScreensInv, NEW t \in Task
  PROVE  /\ Released(t) \in FormRec \cup {NoForm} /\ (Released(t).mounted <=> form.mounted)
         /\ form.mounted => /\ Released(t).filled = form.filled /\ Released(t).created = form.created
                            /\ Released(t).typed = form.typed
         /\ Settled(t) \in FormRec \cup {NoForm} /\ (Settled(t).mounted <=> form.mounted)
         /\ form.mounted => /\ Settled(t).filled = form.filled /\ Settled(t).created = form.created
                            /\ Settled(t).typed => form.typed
                            /\ form.typed /\ ~Settled(t).typed => form.pending = t /\ task[t].saved
<1>1. CASE ~form.mounted
  BY <1>1 DEF Released, Settled, ScreensInv, DialogInv
<1>2. CASE form.mounted
  <2>1. form \in FormRec
    BY <1>2 DEF ScreensInv, DialogInv, NoForm
  <2> DEFINE typed == form.typed /\ ~(task[t].saved /\ dialog.kind = "upload")
  <2>2. typed \in BOOLEAN /\ (typed => form.typed) /\ (form.typed /\ ~typed => task[t].saved)
    BY <2>1 DEF FormRec
  <2>3. Released(t) = IF form.pending = t THEN [form EXCEPT !.pending = NoTask] ELSE form
    BY <1>2 DEF Released
  <2>4. Settled(t) = IF form.pending = t THEN [form EXCEPT !.pending = NoTask, !.conflict = FALSE, !.typed = typed]
                     ELSE form
    BY <1>2 DEF Settled
  <2> HIDE DEF typed
  <2>5. /\ Released(t) \in FormRec /\ Released(t).filled = form.filled /\ Released(t).created = form.created
        /\ Released(t).typed = form.typed /\ Released(t).mounted
    <3>1. CASE form.pending = t
      <4>1. Released(t) = [form EXCEPT !.pending = NoTask]
        BY <2>3, <3>1
      <4>2. QED
        BY <2>1, <4>1 DEF FormRec
    <3>2. CASE form.pending # t
      <4>1. Released(t) = form
        BY <2>3, <3>2
      <4>2. QED
        BY <1>2, <2>1, <4>1
    <3>3. QED
      BY <3>1, <3>2
  <2>6. /\ Settled(t) \in FormRec /\ Settled(t).filled = form.filled /\ Settled(t).created = form.created
        /\ Settled(t).mounted
    BY <2>1, <2>2, <2>4 DEF FormRec
  <2>7. Settled(t).typed = IF form.pending = t THEN typed ELSE form.typed
    BY <2>1, <2>2, <2>4 DEF FormRec
  <2>8. QED
    BY <1>2, <2>2, <2>5, <2>6, <2>7
<1>3. QED
  BY <1>1, <1>2

(* A page reads again, or may: what it shows does not move. *)
LEMMA SameShown ==
  ASSUME OnPage(tab), NEW refreshing \in BOOLEAN, NEW routed \in BOOLEAN,
         tab' = [tab EXCEPT !.refreshing = refreshing, !.routed = routed], UNCHANGED history
  PROVE  OnPage(tab)' /\ ShownOn(tab)' = ShownOn(tab)
<1>1. tab \in TabRec
  BY DEF OnPage
<1>2. tab' \in TabRec /\ tab'.initial = tab.initial /\ tab'.latest = tab.latest
  BY <1>1 DEF TabRec
<1>3. QED
  BY <1>2 DEF OnPage, ShownOn

(* A step on the same dialog, page contents and fields, by the task t. *)
LEMMA TaskStep ==
  ASSUME ScreensInv, UNCHANGED <<history, allowed, dialog>>, NEW t \in Task, NEW new,
         task' = [task EXCEPT ![t] = new],
         new.step = "read" => new.reading \in ReadingRec /\ new.reading.version \in 1..Len(history),
         OnPage(tab)', ShownOn(tab)' = ShownOn(tab),
         form' \in FormRec \cup {NoForm}, form'.mounted <=> form.mounted,
         form.mounted => /\ form'.filled = form.filled
                         /\ form'.typed => form.typed
                         /\ form'.created => ~form'.typed
  PROVE  ScreensInv'
<1>1. RecordInv'
  BY TaskMoved DEF ScreensInv, RecordInv
<1>2. DialogInv'
  BY DEF ScreensInv, DialogInv
<1>3. FormInv'
  <2> SUFFICES ASSUME form.mounted
               PROVE  /\ form'.filled \in 1..Len(history)
                      /\ form'.created => ~form'.typed
                      /\ FilledWith(dialog.kind, form.filled)' = FilledWith(dialog.kind, ShownOn(tab).version)'
    BY DEF FormInv
  <2>1. FilledWith(dialog.kind, form.filled) = FilledWith(dialog.kind, ShownOn(tab).version)
    BY DEF ScreensInv, FormInv
  <2>2. QED
    BY <2>1 DEF ScreensInv, FormInv, FilledWith
<1>4. QED
  BY <1>1, <1>2, <1>3 DEF ScreensInv

LEMMA SendStep ==
  ASSUME ScreensInv, NEW t \in Task, Send(t)
  PROVE  ScreensInv' /\ Survives /\ SendsWhatItShows
<1> DEFINE new == [step |-> "sent", kind |-> dialog.kind, version |-> ShownOn(tab).version, filled |-> form.filled]
<1>1. /\ form.mounted /\ task' = [task EXCEPT ![t] = new] /\ form' = [form EXCEPT !.pending = t, !.conflict = FALSE]
      /\ UNCHANGED <<history, allowed, tab, dialog>>
  BY DEF Send, Ready
<1>2. new.step = "sent" /\ new.kind = dialog.kind /\ new.version = ShownOn(tab).version /\ new.filled = form.filled
  OBVIOUS
<1> HIDE DEF new
<1>3. form \in FormRec
  BY <1>1 DEF ScreensInv, DialogInv, NoForm
<1>4. form' \in FormRec /\ UNCHANGED <<form.mounted, form.filled, form.typed, form.created>>
  BY <1>1, <1>3 DEF FormRec
<1>5. form'.created => ~form'.typed
  BY <1>1, <1>4 DEF ScreensInv, FormInv
<1>6. OnPage(tab)' /\ ShownOn(tab)' = ShownOn(tab)
  BY <1>1 DEF ScreensInv, OnPage, ShownOn
<1>7. ScreensInv'
  BY <1>1, <1>2, <1>4, <1>5, <1>6, TaskStep
<1>8. task = [u \in Task |-> task[u]] /\ FilledWith(dialog.kind, form.filled) = FilledWith(dialog.kind, ShownOn(tab).version)
  BY <1>1 DEF ScreensInv, RecordInv, FormInv
<1>9. task'[t] = new /\ \A u \in Task \ {t} : task'[u] = task[u]
  BY <1>1, <1>8
<1>10. SendsWhatItShows
  BY <1>2, <1>8, <1>9 DEF SendsWhatItShows
<1>11. QED
  BY <1>1, <1>4, <1>7, <1>10 DEF Survives

(* The record gains a version; pages and forms are as they were. *)
LEMMA VersionAdded ==
  ASSUME ScreensInv, NEW v \in VersionRec, history' = Append(history, v), UNCHANGED <<allowed, tab, dialog, form>>,
         task' = [t \in Task |-> task'[t]],
         \A t \in Task : task'[t].step = "read" => task'[t] = task[t]
  PROVE  ScreensInv'
<1>1. /\ history' \in Seq(VersionRec) /\ Len(history') = Len(history) + 1 /\ Len(history) \in Nat
      /\ \A i \in 1..Len(history) : history'[i] = history[i]
  BY HistoryGrows DEF ScreensInv
<1>2. RecordInv'
  BY <1>1 DEF ScreensInv, RecordInv
<1>3. OnPage(tab)'
  BY <1>1 DEF ScreensInv, OnPage
<1>4. DialogInv'
  BY DEF ScreensInv, DialogInv
<1>5. FormInv'
  <2> SUFFICES ASSUME form.mounted
               PROVE  /\ form.filled \in 1..Len(history')
                      /\ form.created => ~form.typed
                      /\ FilledWith(dialog.kind, form.filled)' = FilledWith(dialog.kind, ShownOn(tab).version)'
    BY DEF FormInv
  <2>1. PICK kind, i, j : kind = dialog.kind /\ i = form.filled /\ j = ShownOn(tab).version
    OBVIOUS
  <2>2. i \in 1..Len(history) /\ j \in 1..Len(history) /\ FilledWith(kind, i) = FilledWith(kind, j)
        /\ (form.created => ~form.typed)
    BY <2>1, ShownIsThere DEF ScreensInv, FormInv
  <2>3. kind = dialog'.kind /\ i = form'.filled /\ j = (ShownOn(tab).version)'
    BY <2>1 DEF ShownOn
  <2>4. FilledWith(kind, i)' = FilledWith(kind, j)'
    BY <1>1, <2>2 DEF FilledWith
  <2>5. QED
    BY <1>1, <2>1, <2>2, <2>3, <2>4 DEF FilledWith
<1>6. QED
  BY <1>2, <1>3, <1>4, <1>5 DEF ScreensInv

LEMMA ChangedType == RecordInv => \A kind : Changed(kind) \in VersionRec
<1> SUFFICES ASSUME RecordInv, NEW kind PROVE Changed(kind) \in VersionRec
  OBVIOUS
<1> DEFINE now == history[Len(history)]
<1>1. now \in VersionRec
  BY DEF RecordInv
<1>2. \/ Changed(kind) = [now EXCEPT !.log = @ + 1]
      \/ Changed(kind) = [now EXCEPT !.archived = TRUE]
      \/ Changed(kind) = [now EXCEPT !.archived = FALSE]
      \/ Changed(kind) = now
  BY DEF Changed
<1> HIDE DEF now
<1>3. now.log + 1 \in Nat
  BY <1>1 DEF VersionRec
<1>4. QED
  BY <1>1, <1>2, <1>3 DEF VersionRec

LEMMA JudgeStep ==
  ASSUME ScreensInv, NEW t \in Task, Judge(t)
  PROVE  ScreensInv' /\ Survives /\ SendsWhatItShows
<1>1. PICK new : task' = [task EXCEPT ![t] = new] /\ new.step \in {"saved", "conflict", "refused"}
  <2>1. PICK outcome \in {"saved", "conflict", "refused"} : task' = [task EXCEPT ![t] = [step |-> outcome]]
    BY DEF Judge
  <2> DEFINE new == [step |-> outcome]
  <2>2. task' = [task EXCEPT ![t] = new] /\ new.step = outcome
    BY <2>1
  <2> HIDE DEF new
  <2>3. QED
    BY <2>2, Zenon
<1>2. UNCHANGED <<allowed, tab, dialog, form>> /\ task = [u \in Task |-> task[u]]
  BY DEF Judge, ScreensInv, RecordInv
<1>3. task'[t] = new /\ (\A u \in Task \ {t} : task'[u] = task[u]) /\ task' = [u \in Task |-> task'[u]]
  BY <1>1, <1>2
<1>4. SendsWhatItShows
  BY <1>1, NothingSent DEF ScreensInv
<1>5. ScreensInv'
  <2>1. CASE UNCHANGED history
    <3>1. RecordInv'
      BY <1>1, <1>2, <2>1, TaskMoved DEF ScreensInv, RecordInv
    <3>2. OnPage(tab)' /\ DialogInv' /\ FormInv'
      BY <1>2, <2>1 DEF ScreensInv, OnPage, DialogInv, FormInv, FilledWith, ShownOn
    <3>3. QED
      BY <3>1, <3>2 DEF ScreensInv
  <2>2. CASE ~UNCHANGED history
    <3>1. history' = Append(history, Changed(task[t].kind))
      BY <2>2 DEF Judge
    <3>2. PICK v \in VersionRec : history' = Append(history, v)
      BY <3>1, ChangedType DEF ScreensInv
    <3>3. QED
      BY <1>1, <1>2, <1>3, <3>2, VersionAdded
  <2>3. QED
    BY <2>1, <2>2
<1>6. QED
  BY <1>2, <1>4, <1>5 DEF Survives

LEMMA AnswerSavedStep ==
  ASSUME ScreensInv, NEW t \in Task, AnswerSaved(t)
  PROVE  ScreensInv' /\ Survives /\ SendsWhatItShows
<1>0. PICK refreshing \in BOOLEAN, routed \in BOOLEAN : tab' = [tab EXCEPT !.refreshing = refreshing, !.routed = routed]
  <2>1. PICK refreshing \in BOOLEAN, routed \in BOOLEAN :
          refreshing = (tab.screen = "ticket") /\ routed = (tab.routed \/ tab.screen = "documents")
    OBVIOUS
  <2>2. QED
    BY <2>1 DEF AnswerSaved
<1>1. PICK new : task' = [task EXCEPT ![t] = new] /\ new.step \in {"idle", "reading"}
  <2>1. PICK new : new = IF tab.screen = "documents" THEN NoJob ELSE [step |-> "reading", saved |-> TRUE]
    OBVIOUS
  <2>2. new = NoJob \/ new = [step |-> "reading", saved |-> TRUE]
    BY <2>1
  <2>3. new.step \in {"idle", "reading"}
    BY <2>2 DEF NoJob
  <2>4. task' = [task EXCEPT ![t] = new]
    BY <2>1 DEF AnswerSaved
  <2>5. QED
    BY <2>3, <2>4
<1>2. OnPage(tab)' /\ ShownOn(tab)' = ShownOn(tab) /\ UNCHANGED <<history, allowed, dialog>> /\ task[t].step = "saved"
  BY <1>0, SameShown DEF AnswerSaved, ScreensInv
<1>3. \/ form' = form
      \/ /\ form.mounted /\ form.pending = t
         /\ form' = [form EXCEPT !.created = TRUE, !.typed = FALSE, !.pending = NoTask]
  BY DEF AnswerSaved
<1>4. /\ form' \in FormRec \cup {NoForm} /\ (form'.mounted <=> form.mounted)
      /\ form.mounted => /\ form'.filled = form.filled
                         /\ form'.typed => form.typed
                         /\ form'.created => ~form'.typed
                         /\ form.typed /\ ~form'.typed => form.pending = t
  <2>1. CASE form' = form
    BY <2>1 DEF ScreensInv, DialogInv, FormInv
  <2>2. CASE /\ form.mounted /\ form.pending = t
             /\ form' = [form EXCEPT !.created = TRUE, !.typed = FALSE, !.pending = NoTask]
    <3>1. form \in FormRec
      BY <2>2 DEF ScreensInv, DialogInv, NoForm
    <3>2. form' \in FormRec /\ form'.mounted /\ form'.filled = form.filled /\ ~form'.typed
      BY <2>2, <3>1 DEF FormRec
    <3>3. QED
      BY <2>2, <3>2
  <2>3. QED
    BY <1>3, <2>1, <2>2
<1>5. ScreensInv'
  BY <1>1, <1>2, <1>4, TaskStep
<1>6. SendsWhatItShows
  BY <1>1, NothingSent DEF ScreensInv
<1>7. Survives
  BY <1>2, <1>4, ScreensAssumption DEF Survives, Done
<1>8. QED
  BY <1>5, <1>6, <1>7

LEMMA AnswerFailedStep ==
  ASSUME ScreensInv, NEW t \in Task, AnswerFailed(t)
  PROVE  ScreensInv' /\ Survives /\ SendsWhatItShows
<1>1. UNCHANGED <<history, allowed, tab, dialog>> /\ task' = [task EXCEPT ![t] = NoJob] /\ NoJob.step = "idle"
  BY DEF AnswerFailed, NoJob
<1>2. OnPage(tab)' /\ ShownOn(tab)' = ShownOn(tab)
  BY <1>1 DEF ScreensInv, OnPage, ShownOn
<1>3. /\ form' \in FormRec \cup {NoForm} /\ (form'.mounted <=> form.mounted)
      /\ form.mounted => form'.filled = form.filled /\ form'.typed = form.typed /\ form'.created = form.created
  <2>1. CASE form' = Released(t)
    BY <2>1, FormAfter
  <2>2. CASE form.mounted /\ form' = [form EXCEPT !.pending = NoTask, !.conflict = TRUE]
    <3>1. form \in FormRec
      BY <2>2 DEF ScreensInv, DialogInv, NoForm
    <3>2. QED
      BY <2>2, <3>1 DEF FormRec
  <2>3. QED
    BY <2>1, <2>2 DEF AnswerFailed
<1>4. form.mounted /\ form'.created => ~form'.typed
  BY <1>3 DEF ScreensInv, FormInv
<1>5. ScreensInv'
  <2>1. PICK new : new = NoJob
    OBVIOUS
  <2>2. QED
    BY <1>1, <1>2, <1>3, <1>4, <2>1, TaskStep
<1>6. SendsWhatItShows
  <2>1. PICK new : new = NoJob
    OBVIOUS
  <2>2. QED
    BY <1>1, <2>1, NothingSent DEF ScreensInv
<1>7. QED
  BY <1>3, <1>5, <1>6 DEF Survives

(* A page or a form asks to read the record again. *)
LEMMA RefreshStep ==
  ASSUME ScreensInv, NEW t \in Task, Refresh(t) \/ Reload(t)
  PROVE  ScreensInv' /\ Survives /\ SendsWhatItShows
<1>1. PICK new : new = [step |-> "reading", saved |-> FALSE]
  OBVIOUS
<1>2. /\ task' = [task EXCEPT ![t] = new] /\ new.step = "reading"
      /\ UNCHANGED <<history, allowed, dialog>> /\ tab' = [tab EXCEPT !.refreshing = tab.screen = "ticket"]
  BY <1>1 DEF Refresh, Reload
<1>3. OnPage(tab)' /\ ShownOn(tab)' = ShownOn(tab)
  <2>1. tab \in TabRec
    BY DEF ScreensInv, OnPage
  <2>2. tab' \in TabRec /\ tab'.initial = tab.initial /\ tab'.latest = tab.latest
    <3> DEFINE refreshing == tab.screen = "ticket"
    <3>1. refreshing \in BOOLEAN /\ tab' = [tab EXCEPT !.refreshing = refreshing]
      BY <1>2
    <3> HIDE DEF refreshing
    <3>2. QED
      BY <2>1, <3>1 DEF TabRec
  <2>3. QED
    BY <1>2, <2>2 DEF ScreensInv, OnPage, ShownOn
<1>4. /\ form' \in FormRec \cup {NoForm} /\ (form'.mounted <=> form.mounted)
      /\ form.mounted => form'.filled = form.filled /\ form'.typed = form.typed /\ form'.created = form.created
  <2>1. CASE form' = form
    BY <2>1 DEF ScreensInv, DialogInv
  <2>2. CASE form.mounted /\ form' = [form EXCEPT !.pending = t]
    <3>1. form \in FormRec
      BY <2>2 DEF ScreensInv, DialogInv, NoForm
    <3>2. QED
      BY <2>2, <3>1 DEF FormRec
  <2>3. QED
    BY <2>1, <2>2 DEF Refresh, Reload, Ready
<1>5. form.mounted /\ form'.created => ~form'.typed
  BY <1>4 DEF ScreensInv, FormInv
<1>6. ScreensInv'
  BY <1>2, <1>3, <1>4, <1>5, TaskStep
<1>7. SendsWhatItShows
  BY <1>2, NothingSent DEF ScreensInv
<1>8. QED
  BY <1>4, <1>6, <1>7 DEF Survives

LEMMA ReadRecordStep ==
  ASSUME ScreensInv, NEW t \in Task, ReadRecord(t)
  PROVE  ScreensInv' /\ Survives /\ SendsWhatItShows
<1>1. ReadNow \in ReadingRec /\ ReadNow.version \in 1..Len(history)
  BY DEF ReadNow, ReadingRec, ScreensInv, RecordInv
<1>2. PICK new : new = [step |-> "read", saved |-> task[t].saved, reading |-> ReadNow]
  OBVIOUS
<1>3. /\ task' = [task EXCEPT ![t] = new] /\ new.step = "read" /\ new.reading = ReadNow
      /\ UNCHANGED <<history, allowed, tab, dialog, form>>
  BY <1>2 DEF ReadRecord
<1>4. OnPage(tab)' /\ ShownOn(tab)' = ShownOn(tab)
  BY <1>3 DEF ScreensInv, OnPage, ShownOn
<1>5. /\ form' \in FormRec \cup {NoForm} /\ form' = form
      /\ form.mounted /\ form'.created => ~form'.typed
  BY <1>3 DEF ScreensInv, DialogInv, FormInv
<1>6. ScreensInv'
  BY <1>1, <1>3, <1>4, <1>5, TaskStep
<1>7. SendsWhatItShows
  BY <1>3, NothingSent DEF ScreensInv
<1>8. QED
  BY <1>3, <1>6, <1>7 DEF Survives

LEMMA ArriveStep ==
  ASSUME ScreensInv, NEW t \in Task, Arrive(t)
  PROVE  ScreensInv' /\ Survives /\ SendsWhatItShows
<1>1. /\ task[t].step = "read" /\ task' = [task EXCEPT ![t] = NoJob] /\ UNCHANGED <<history, allowed>>
      /\ NoJob.step = "idle"
  BY DEF Arrive, NoJob
<1>2. task[t].reading \in ReadingRec /\ task[t].reading.version \in 1..Len(history)
  BY <1>1 DEF ScreensInv, RecordInv
<1>3. PICK p, f : f = Settled(t) /\ OnPage(p) /\ Render(p, f)
  <2> DEFINE reading == task[t].reading
             gone == [tab EXCEPT !.unavailable = TRUE, !.refreshing = FALSE, !.routed = TRUE]
             routed == tab.screen = "ticket"
             here == [tab EXCEPT !.latest = reading, !.unavailable = FALSE, !.refreshing = FALSE, !.routed = routed]
  <2>1. tab \in TabRec /\ reading \in ReadingRec /\ routed \in BOOLEAN
    BY <1>2 DEF ScreensInv, OnPage
  <2>2. Render(gone, Settled(t)) \/ Render(here, Settled(t))
    BY DEF Arrive
  <2> HIDE DEF reading, routed
  <2>3. gone \in TabRec /\ gone.initial = tab.initial /\ gone.latest = tab.latest
    BY <2>1 DEF TabRec
  <2>4. here \in TabRec /\ here.initial = tab.initial /\ here.latest = reading
    BY <2>1 DEF TabRec
  <2>5. OnPage(gone) /\ OnPage(here)
    BY <1>2, <2>3, <2>4 DEF ScreensInv, OnPage, reading
  <2> HIDE DEF gone, here
  <2>6. QED
    BY <2>2, <2>5
<1>4. /\ f \in FormRec \cup {NoForm} /\ (f.mounted <=> form.mounted)
      /\ form.mounted => /\ f.filled = form.filled /\ f.created = form.created
                         /\ f.typed => form.typed
                         /\ form.typed /\ ~f.typed => form.pending = t /\ task[t].saved
  BY <1>3, FormAfter
<1>5. /\ tab' = p /\ OnPage(tab)' /\ DialogInv' /\ FormInv'
      /\ form.mounted /\ ~(form'.mounted /\ form'.typed) => ~f.typed \/ Overtaken \/ NoLongerOffered(dialog.kind)
  BY <1>1, <1>3, <1>4, Rendered
<1>6. Survives
  BY <1>1, <1>4, <1>5, ScreensAssumption DEF Survives, Done
<1>7. PICK new : new = NoJob
  OBVIOUS
<1>8. RecordInv'
  BY <1>1, <1>7, TaskMoved DEF ScreensInv, RecordInv
<1>9. SendsWhatItShows
  BY <1>1, <1>7, NothingSent DEF ScreensInv
<1>10. QED
  BY <1>5, <1>6, <1>8, <1>9 DEF ScreensInv

LEMMA MissStep ==
  ASSUME ScreensInv, NEW t \in Task, Miss(t)
  PROVE  ScreensInv' /\ Survives /\ SendsWhatItShows
<1>1. /\ task[t].step \in {"reading", "read"} /\ NoJob.step = "idle"
      /\ task' = [task EXCEPT ![t] = NoJob] /\ UNCHANGED <<history, allowed, dialog>>
      /\ tab' = [tab EXCEPT !.refreshing = FALSE]
  BY DEF Miss, NoJob
<1>2. OnPage(tab)' /\ ShownOn(tab)' = ShownOn(tab)
  <2>1. tab \in TabRec
    BY DEF ScreensInv, OnPage
  <2>2. tab' \in TabRec /\ tab'.initial = tab.initial /\ tab'.latest = tab.latest
    BY <1>1, <2>1 DEF TabRec
  <2>3. QED
    BY <1>1, <2>2 DEF ScreensInv, OnPage, ShownOn
<1>3. form' = Settled(t) \/ form' = Released(t)
  BY DEF Miss
<1>4. /\ form' \in FormRec \cup {NoForm} /\ (form'.mounted <=> form.mounted)
      /\ form.mounted => /\ form'.filled = form.filled /\ form'.created = form.created
                         /\ form'.typed => form.typed
                         /\ form.typed /\ ~form'.typed => form.pending = t /\ task[t].saved
  BY <1>3, FormAfter
<1>5. form.mounted /\ form'.created => ~form'.typed
  BY <1>4 DEF ScreensInv, FormInv
<1>6. PICK new : new = NoJob
  OBVIOUS
<1>7. ScreensInv'
  BY <1>1, <1>2, <1>4, <1>5, <1>6, TaskStep
<1>8. SendsWhatItShows
  BY <1>1, <1>6, NothingSent DEF ScreensInv
<1>9. Survives
  BY <1>1, <1>4, ScreensAssumption DEF Survives, Done
<1>10. QED
  BY <1>7, <1>8, <1>9

LEMMA RouterStep ==
  ASSUME ScreensInv, RouterDelivers
  PROVE  ScreensInv' /\ Survives /\ SendsWhatItShows
<1>1. UNCHANGED <<history, allowed, task>>
  BY DEF RouterDelivers
<1>2. PICK p : OnPage(p) /\ Render(p, form)
  <2> DEFINE gone == [tab EXCEPT !.unavailable = TRUE, !.routed = FALSE]
             again == [tab EXCEPT !.initial = ReadNow, !.routed = FALSE]
  <2>1. tab \in TabRec
    BY DEF ScreensInv, OnPage
  <2>2. ReadNow \in ReadingRec /\ ReadNow.version \in 1..Len(history)
    BY DEF ReadNow, ReadingRec, ScreensInv, RecordInv
  <2>3. Render(gone, form) \/ Render(again, form)
    BY DEF RouterDelivers
  <2>4. gone \in TabRec /\ gone.initial = tab.initial /\ gone.latest = tab.latest
    BY <2>1 DEF TabRec
  <2>5. again \in TabRec /\ again.initial = ReadNow /\ again.latest = tab.latest
    BY <2>1, <2>2 DEF TabRec
  <2>6. OnPage(gone) /\ OnPage(again)
    BY <2>2, <2>4, <2>5 DEF ScreensInv, OnPage
  <2> HIDE DEF gone, again
  <2>7. QED
    BY <2>3, <2>6
<1>3. form \in FormRec \cup {NoForm}
  BY DEF ScreensInv, DialogInv
<1>4. PICK f : f = form
  OBVIOUS
<1>5. /\ OnPage(tab)' /\ DialogInv' /\ FormInv'
      /\ form.mounted /\ ~(form'.mounted /\ form'.typed) => ~f.typed \/ Overtaken \/ NoLongerOffered(dialog.kind)
  BY <1>1, <1>2, <1>3, <1>4, Rendered
<1>6. RecordInv' /\ SendsWhatItShows
  BY <1>1 DEF ScreensInv, RecordInv, SendsWhatItShows
<1>7. QED
  BY <1>4, <1>5, <1>6 DEF ScreensInv, Survives

LEMMA ScreensStep == ScreensInv /\ [ScreensNext]_screenVars => ScreensInv' /\ Survives /\ SendsWhatItShows
<1> SUFFICES ASSUME ScreensInv, [ScreensNext]_screenVars PROVE ScreensInv' /\ Survives /\ SendsWhatItShows
  OBVIOUS
<1>1. CASE Exchange
  <2>1. PICK t \in Task : \/ Send(t) \/ Judge(t) \/ AnswerSaved(t) \/ AnswerFailed(t)
                          \/ Refresh(t) \/ Reload(t) \/ ReadRecord(t) \/ Arrive(t) \/ Miss(t)
    BY <1>1 DEF Exchange
  <2>2. QED
    BY <2>1, SendStep, JudgeStep, AnswerSavedStep, AnswerFailedStep, RefreshStep, ReadRecordStep, ArriveStep, MissStep
<1>2. CASE AccessMoves
  <2>1. allowed' \in {"edit", "view", "none"} /\ UNCHANGED <<history, tab, dialog, form, task>>
    BY <1>2 DEF AccessMoves
  <2>2. QED
    BY <2>1 DEF ScreensInv, RecordInv, OnPage, DialogInv, FormInv, FilledWith, ShownOn, Survives, SendsWhatItShows
<1>3. ASSUME NEW kind \in {"edit", "editLog", "archive", "restore"}, SomeoneChanges(kind)
      PROVE  ScreensInv' /\ Survives /\ SendsWhatItShows
  <2>1. PICK v \in VersionRec : history' = Append(history, v)
    BY <1>3, ChangedType DEF SomeoneChanges, ScreensInv
  <2>2. UNCHANGED <<allowed, tab, dialog, form, task>> /\ task = [t \in Task |-> task[t]]
    BY <1>3 DEF SomeoneChanges, ScreensInv, RecordInv
  <2>3. ScreensInv'
    BY <2>1, <2>2, VersionAdded
  <2>4. QED
    BY <2>2, <2>3 DEF Survives, SendsWhatItShows
<1>4. CASE UNCHANGED screenVars
  BY <1>4 DEF screenVars, ScreensInv, RecordInv, OnPage, DialogInv, FormInv, FilledWith, ShownOn, Survives,
              SendsWhatItShows
<1>5. QED
  BY <1>1, <1>2, <1>3, <1>4, DialogueStep, RouterStep DEF ScreensNext

(***************************************************************************)
(* Nothing a reader types is lost but by their own dismissal, to a record  *)
(* that moved under the form, to access that went, or because it was       *)
(* saved, whatever answers, exits and deliveries are under way; and a      *)
(* command is sent for the version its fields were filled from.            *)
(***************************************************************************)
THEOREM TypedWorkIsKept == ScreensSpec => TypedWorkIsSafe
<1>1. Survives /\ SendsWhatItShows <=>
        /\ form.mounted /\ form.typed /\ ~(form'.mounted /\ form'.typed) =>
             UsersOwn \/ Overtaken \/ NoLongerOffered(dialog.kind) \/ Done
        /\ \A t \in Task :
             task[t].step # "sent" /\ task'[t].step = "sent" =>
               FilledWith(task'[t].kind, task'[t].filled) = FilledWith(task'[t].kind, task'[t].version)
  BY DEF Survives, SendsWhatItShows
<1>2. QED
  BY ScreensStart, ScreensStep, <1>1, PTL DEF ScreensSpec, TypedWorkIsSafe
=============================================================================
