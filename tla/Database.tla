------------------------------ MODULE Database ------------------------------
(***************************************************************************)
(* The SQLite database of the API: how a start of the API brings the file  *)
(* it finds to the present schema, and how reads fall back to a cache when *)
(* queries fail.  Of the tables one is modelled with its content, the      *)
(* single row of security_config; of the others, whether they exist and    *)
(* where the rows of the time before the generic connections are.          *)
(*                                                                         *)
(* schema.sql runs outside a transaction, so a crash can leave any prefix  *)
(* of it; the migrations of one start are one transaction.                 *)
(***************************************************************************)
EXTENDS Integers, FiniteSets

VARIABLES
  version,  \* MAX(version) in schema_migrations, 0 without rows, -1 without a file
  schema,   \* the tables and columns there are
  legacy,   \* connections of an earlier release, still in the S7 tables
  cutShort, \* schema.sql was cut, and no start has succeeded since
  failing,  \* queries throw: a full disk, a locked or damaged file
  table,    \* the row of security_config
  cached    \* the entry security_config of the cache

databaseVars == <<version, schema, legacy, cutShort, failing, table, cached>>

CurrentVersion == 5

Feature == {"folders", "object_nodes", "s7", "description", "connections", "uniqueNode"}

Mode == {"None", "Sign", "SignAndEncrypt"}
Row == [mode : Mode, paths : {"none", "own", "other"}]

(* The rows of a query that names all columns, or only certificate_path.   *)
Rows == [columns : {"all", "certificate"}, row : Row]

Miss == [columns |-> "miss"]
NoRows == [columns |-> "noRows"]

DatabaseTypeOK ==
  /\ version \in -1 .. CurrentVersion
  /\ schema \subseteq Feature
  /\ legacy \in {"none", "s7", "lost"}
  /\ cutShort \in BOOLEAN /\ failing \in BOOLEAN
  /\ table \in Row
  /\ cached \in Rows \cup {Miss, NoRows}

-----------------------------------------------------------------------------
(* What the tables were like at each version, as that release made them.   *)
SchemaOf(v) ==
  CASE v = -1 -> {}
    [] v = 1 -> {"folders", "s7"}
    [] v = 2 -> {"object_nodes", "s7"}
    [] v = 3 -> {"object_nodes", "s7", "description"}
    [] v = 4 -> {"object_nodes", "connections", "uniqueNode"}
    [] v = 5 -> {"object_nodes", "connections"}

(* schema.sql as it is today, statement by statement; the versions follow. *)
Created == <<"object_nodes", "s7", "description", "connections", "uniqueNode">>
CreatedUpTo(k) == {Created[i] : i \in 1 .. k}
FreshVersion == 4

DatabaseInit ==
  /\ version \in -1 .. CurrentVersion \ {0}
  /\ schema = SchemaOf(version)
  /\ legacy \in IF version \in 1 .. 3 THEN {"none", "s7"} ELSE {"none"}
  /\ cutShort = FALSE /\ failing = FALSE
  /\ table = [mode |-> "None", paths |-> "none"]
  /\ cached = Miss

(***************************************************************************)
(* What a migration needs, must not find, adds and drops.  It fails with a *)
(* missing table or a duplicate column, and the transaction with it.       *)
(***************************************************************************)
Migration2 ==
  [needs |-> {"folders"}, bars |-> {"object_nodes"}, adds |-> {"object_nodes"}, drops |-> {"folders"}]
Migration3 ==
  [needs |-> {"s7"}, bars |-> {"description"}, adds |-> {"description"}, drops |-> {}]
Migration4 ==
  [needs |-> {}, bars |-> {}, adds |-> {"connections", "uniqueNode"}, drops |-> {"s7", "description"}]
Migration5 ==
  [needs |-> {"connections"}, bars |-> {}, adds |-> {}, drops |-> {"uniqueNode"}]

(* There is no migration 1: its version is only recorded. *)
Migration(v) ==
  CASE v = 2 -> Migration2 [] v = 3 -> Migration3 [] v = 4 -> Migration4 [] v = 5 -> Migration5
    [] OTHER -> [needs |-> {}, bars |-> {}, adds |-> {}, drops |-> {}]

Bug_PendingAgain == 1 .. CurrentVersion \cap version .. CurrentVersion
Pending == version + 1 .. CurrentVersion

(* What a migration makes of the tables, if it is pending. *)
Migrated(v, tables) ==
  IF v \in Pending THEN (tables \cup Migration(v).adds) \ Migration(v).drops ELSE tables

(* The schema after the pending migrations of a start, one after the other. *)
After2 == Migrated(2, schema)
After3 == Migrated(3, After2)
After4 == Migrated(4, After3)
After5 == Migrated(5, After4)

(* What migration v finds. *)
Before(v) == CASE v = 3 -> After2 [] v = 4 -> After3 [] v = 5 -> After4 [] OTHER -> schema

Applies(v) ==
  Migration(v).needs \subseteq Before(v) /\ Migration(v).bars \cap Before(v) = {}

(* Migration 4 moves the rows of the S7 tables, if they are still there. *)
Bug_MovedWithoutRows ==
  IF legacy = "s7" /\ 4 \in Pending THEN "lost" ELSE legacy
Moved ==
  IF legacy = "s7" /\ 4 \in Pending
  THEN IF "s7" \in After3 THEN "none" ELSE "lost"
  ELSE legacy

(* validateAndMigrate succeeds on the file as it is. *)
Opens == version # -1 /\ \A v \in Pending : Applies(v)

Migrate ==
  /\ Opens /\ ~failing
  /\ version' = CurrentVersion /\ schema' = After5 /\ legacy' = Moved
  /\ cutShort' = FALSE /\ cached' = Miss
  /\ UNCHANGED <<failing, table>>

(* The first start of all: the whole of schema.sql. *)
Create ==
  /\ version = -1 /\ ~failing
  /\ version' = FreshVersion /\ schema' = CreatedUpTo(5)
  /\ cached' = Miss
  /\ UNCHANGED <<legacy, cutShort, failing, table>>

(* A part of it: some tables and no version, or all tables and some.        *)
CreateCut ==
  /\ version = -1
  /\ \/ \E k \in 0 .. 5 : version' = 0 /\ schema' = CreatedUpTo(k)
     \/ \E v \in 1 .. FreshVersion - 1 : version' = v /\ schema' = CreatedUpTo(5)
  /\ cutShort' = TRUE
  /\ UNCHANGED <<legacy, failing, table, cached>>

(* Queries begin to throw, or work again. *)
Trouble ==
  /\ failing' = ~failing
  /\ UNCHANGED <<version, schema, legacy, cutShort, table, cached>>

-----------------------------------------------------------------------------
(* What readWithCache returns: rows, or Miss for DatabaseUnavailableError. *)
ReadWithCache(columns, fails) ==
  IF fails THEN cached ELSE [columns |-> columns, row |-> table]

(* Whoever reads leaves in the cache what he read. *)
readWithCache(columns) ==
  /\ cached' = ReadWithCache(columns, failing)
  /\ UNCHANGED <<version, schema, legacy, cutShort, failing, table>>

(***************************************************************************)
(* write, and then updateCache('security_config', []) and get() as both    *)
(* updates of the repository do; the database may fail just after the      *)
(* write, and get() then finds the empty list.                             *)
(***************************************************************************)
Bug_UpdateKeepsCache(row) ==
  /\ ~failing
  /\ table' = row
  /\ \E fails \in BOOLEAN :
       /\ failing' = fails
       /\ cached' = IF fails THEN cached ELSE [columns |-> "all", row |-> row]
  /\ UNCHANGED <<version, schema, legacy, cutShort>>

Update(row) ==
  /\ ~failing
  /\ table' = row
  /\ \E fails \in BOOLEAN :
       /\ failing' = fails
       /\ cached' = IF fails THEN NoRows ELSE [columns |-> "all", row |-> row]
  /\ UNCHANGED <<version, schema, legacy, cutShort>>
=============================================================================
