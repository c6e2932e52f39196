----------------------------- MODULE Migrations -----------------------------
(***************************************************************************)
(* Bringing a database to the schema of the repository: an operator's tool *)
(* compares the fingerprint of the public schema with the ledger of the    *)
(* migrator, adopts a known database that has no ledger, and then runs the *)
(* normal migrator.  Several operators, or a plain migrator, may work on   *)
(* one database, and each may stop after any of its steps.                 *)
(***************************************************************************)
EXTENDS Naturals, FiniteSets

CONSTANTS
  Operator,      \* one run of a tool each (bound)
  Latest,        \* how many migrations the repository has: 18
  Adoptable,     \* the stages known from before the ledger: 1 to 5
  TestTarget,    \* the database is a loopback one with a test-only name
  Absent,        \* no ledger
  Partial,       \* the ledger's schema without its table
  Foreign,       \* a ledger whose columns or rows are not the repository's
  Unknown        \* no fingerprint of any stage

ASSUME MigrationsAssumption ==
  /\ Latest \in Nat \ {0}
  /\ Adoptable \subseteq 1..Latest
  /\ TestTarget \in BOOLEAN
  /\ Absent \notin 0..Latest /\ Partial \notin 0..Latest /\ Foreign \notin 0..Latest
  /\ Unknown \notin 0..Latest
  /\ Absent # Partial /\ Absent # Foreign /\ Partial # Foreign

VARIABLES
  schema,        \* the stage whose fingerprint the public schema has, or Unknown
  ledger,        \* how many migrations the ledger has, or what is wrong with it
  tool           \* the runs of the tools, with what they have read

migrationVars == <<schema, ledger, tool>>

Stage == 0..Latest
Ledger == Stage \cup {Absent, Partial, Foreign}
Idle == [at |-> "idle", kind |-> "none", apply |-> FALSE, fingerprint |-> 0, rows |-> 0]

MigrationsTypeOK ==
  /\ schema \in Stage \cup {Unknown}
  /\ ledger \in Ledger
  /\ tool \in [Operator ->
       [at : {"idle", "inspecting", "inspected", "adopted", "made", "ready", "reading", "applied", "done", "stopped"},
        kind : {"none", "reconcile", "plain"}, apply : BOOLEAN,
        fingerprint : Stage \cup {Unknown}, rows : Ledger]]

Goes(o, to) == tool' = [tool EXCEPT ![o].at = to]

(* assertTargetSafety *)
Allowed(disposable, apply, backup) ==
  IF disposable THEN TestTarget ELSE apply => backup

(* inspectMigrationState: states A; B, C, F, G and H; D; and E for the rest. *)
StateOf(f, rows) ==
  CASE rows = Absent /\ f = 0 -> "fresh"
    [] rows = Absent /\ f \in Adoptable -> "adoptable"
    [] rows \in Stage /\ f = rows -> "agree"
    [] OTHER -> "contradictory"

Pending(rows) == rows + 1..Latest

(* Any run may stop: an error, a lost connection, an operator who gives up. *)
Stop(o) ==
  /\ tool[o].at \notin {"idle", "done", "stopped"}
  /\ Goes(o, "stopped")
  /\ UNCHANGED <<schema, ledger>>

(* The fingerprint is read before the ledger, each by queries of its own;   *)
(* what one of them reads halfway through another's step is contradictory.  *)
Inspect(o, apply, disposable, backup) ==
  /\ tool[o].at = "idle" /\ Allowed(disposable, apply, backup)
  /\ tool' = [tool EXCEPT ![o] = [at |-> "inspecting", kind |-> "reconcile", apply |-> apply,
                                  fingerprint |-> schema, rows |-> 0]]
  /\ UNCHANGED <<schema, ledger>>

ReadLedger(o) ==
  /\ tool[o].at = "inspecting"
  /\ tool' = [tool EXCEPT ![o].at = "inspected", ![o].rows = ledger]
  /\ UNCHANGED <<schema, ledger>>

Found(o) == StateOf(tool[o].fingerprint, tool[o].rows)

(* Refused, or a dry run: nothing is changed. *)
Report(o) ==
  /\ tool[o].at = "inspected" /\ (Found(o) = "contradictory" \/ ~tool[o].apply)
  /\ Goes(o, "stopped")
  /\ UNCHANGED <<schema, ledger>>

(* Mutant of Adopt: the ledger is created first, and its rows follow. *)
AdoptInPieces(o) ==
  /\ tool[o].at = "inspected" /\ tool[o].apply /\ Found(o) = "adoptable"
  /\ \/ ledger = Absent /\ ledger' = 0 /\ UNCHANGED tool
     \/ ledger = 0 /\ ledger' = tool[o].fingerprint /\ Goes(o, "adopted")
  /\ UNCHANGED schema

(* createAndAdoptLedger: one transaction, which fails if there is a ledger. *)
Adopt(o) ==
  /\ tool[o].at = "inspected" /\ tool[o].apply /\ Found(o) = "adoptable"
  /\ ledger = Absent
  /\ ledger' = tool[o].fingerprint
  /\ Goes(o, "adopted")
  /\ UNCHANGED schema

-----------------------------------------------------------------------------
(* The migrator: it makes the ledger's schema and then its table, each of   *)
(* them unless it is there, reads the last row, and applies in one          *)
(* transaction what is newer.                                               *)

MakeSchema == ledger' = IF ledger = Absent THEN Partial ELSE ledger

RunMigrator(o) ==
  /\ \/ tool[o].at = "adopted"
     \/ tool[o].at = "inspected" /\ tool[o].apply /\ Found(o) \in {"fresh", "agree"}
  /\ MakeSchema
  /\ Goes(o, "made")
  /\ UNCHANGED schema

(* npm run db:migrate: the migrator alone, without an inspection. *)
StartPlain(o) ==
  /\ tool[o].at = "idle"
  /\ MakeSchema
  /\ tool' = [tool EXCEPT ![o] = [Idle EXCEPT !.at = "made", !.kind = "plain", !.apply = TRUE]]
  /\ UNCHANGED schema

MakeTable(o) ==
  /\ tool[o].at = "made"
  /\ ledger' = IF ledger = Partial THEN 0 ELSE ledger
  /\ Goes(o, "ready")
  /\ UNCHANGED schema

(* Of a foreign ledger, whose last row has the time of some migration. *)
ReadLast(o) ==
  /\ tool[o].at = "ready"
  /\ \E rows \in Stage :
       /\ ledger # Foreign => rows = ledger
       /\ tool' = [tool EXCEPT ![o].at = "reading", ![o].rows = rows]
  /\ UNCHANGED <<schema, ledger>>

(* Every migration creates something, and fails where that is already: in a *)
(* later stage, or where another run has applied it.  Nothing else is looked *)
(* at: an unknown schema, or one that lacks earlier migrations, may do.      *)
Clashes(rows) ==
  IF schema = Unknown THEN ledger \notin {rows, Foreign} ELSE schema > rows

ApplyPending(o) ==
  LET rows == tool[o].rows IN
  /\ tool[o].at = "reading"
  /\ \/ Pending(rows) = {} /\ UNCHANGED <<schema, ledger>>
     \/ /\ Pending(rows) # {} /\ ~Clashes(rows)
        /\ schema' = IF schema = rows THEN Latest ELSE Unknown
        /\ ledger' = IF ledger = Foreign THEN Foreign ELSE Latest
  /\ Goes(o, IF tool[o].kind = "plain" THEN "stopped" ELSE "applied")

(* The second inspection, again two reads; anything but agreement is an error. *)
Verify(o) ==
  /\ tool[o].at = "applied"
  /\ StateOf(schema, ledger) = "agree" /\ ledger = Latest
  /\ Goes(o, "done")
  /\ UNCHANGED <<schema, ledger>>

MigrationsInit ==
  /\ schema \in Stage \cup {Unknown}
  /\ ledger \in {Absent, Partial, Foreign} \cup (Stage \cap {schema})
  /\ tool = [o \in Operator |-> Idle]

MigrationsNext ==
  \E o \in Operator :
    \/ \E apply, disposable, backup \in BOOLEAN : Inspect(o, apply, disposable, backup)
    \/ ReadLedger(o) \/ Report(o) \/ Adopt(o)
    \/ RunMigrator(o) \/ StartPlain(o) \/ MakeTable(o) \/ ReadLast(o) \/ ApplyPending(o)
    \/ Verify(o) \/ Stop(o)

MigrationsSpec == MigrationsInit /\ [][MigrationsNext]_migrationVars

-----------------------------------------------------------------------------
(***************************************************************************)
(* However the runs of the tool overlap and wherever they stop, a ledger   *)
(* that counts migrations counts those of the stage the schema is at.  Only *)
(* the plain migrator, which does not look, may leave an empty ledger       *)
(* beside a schema that is not empty, and the whole ledger beside a schema  *)
(* of no stage.  A run that ends well has left the latest schema and the    *)
(* whole ledger.                                                            *)
(***************************************************************************)
LedgerNamesTheSchema ==
  /\ ledger \in Stage \ {schema} =>
       /\ \E o \in Operator : tool[o].kind = "plain"
       /\ ledger = 0 \/ (ledger = Latest /\ schema = Unknown)
  /\ \A o \in Operator : tool[o].at = "done" => schema = Latest /\ ledger = Latest
=============================================================================
