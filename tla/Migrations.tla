------------------------------ MODULE Migrations ------------------------------
(***************************************************************************)
(* Opening the database: SQLiteStore.__init__ (storage/sqlite.py) and      *)
(* apply_migrations (storage/migrations.py).                               *)
(*                                                                         *)
(* Nothing keeps two processes from opening the same file: the hub starts  *)
(* while the operator runs `ai-hub migrate` or `ai-hub status`.  Each one  *)
(* reads schema_migrations, and then applies what it has not seen there,   *)
(* one write transaction per version.  SQLite is external: one writer at a *)
(* time, others see what is committed, and a dead writer is rolled back.   *)
(***************************************************************************)
EXTENDS Integers, FiniteSets, Sequences, FiniteSetsExt, Functions

CONSTANTS Opener,        \* processes that open the database
          MIGRATIONS     \* MIGRATIONS[o]: names of the migrations o's code has

ASSUME MigrationsAssumption ==
    /\ DOMAIN MIGRATIONS = Opener
    /\ \A o \in Opener : /\ Len(MIGRATIONS[o]) \in Nat
                         /\ DOMAIN MIGRATIONS[o] = 1..Len(MIGRATIONS[o])

VARIABLES applied,       \* schema_migrations: name of each applied version
          tables,        \* migrations whose tables exist
          user_version,  \* PRAGMA user_version
          writer,        \* the opener whose write transaction is open
          op             \* op[o]: where o is, the rows it read, its version

schemaVars    == <<applied, tables, user_version>>
migrationVars == <<schemaVars, writer, op>>

Nobody == "nobody"

ASSUME NobodyAssumption == Nobody \notin Opener

NotOpen == [pc |-> "closed", seen |-> <<>>, version |-> 0]

\* A new file, or one that an opener's code has migrated completely.
MigrationsInit ==
    /\ applied \in {<<>>} \cup Range(MIGRATIONS)
    /\ tables = Range(applied)
    /\ user_version = Len(applied)
    /\ writer = Nobody
    /\ op = [o \in Opener |-> NotOpen]

LATEST_SCHEMA_VERSION(o) == Len(MIGRATIONS[o])

OpAt(o, pc) == op[o].pc = pc

\* SQLiteStore(path); the with statement, close and the end of the process.
connect(o) == op' = [op EXCEPT ![o] = [NotOpen EXCEPT !.pc = "read"]]
close(o)   == op' = [op EXCEPT ![o] = NotOpen]

\* The next version of the loop over MIGRATIONS that was not seen as applied.
Advance(o, seen, version) ==
    LET pending == {v \in 1..LATEST_SCHEMA_VERSION(o) :
                      v > version /\ v \notin DOMAIN seen}
    IN  op' = [op EXCEPT ![o] =
                 IF pending = {} THEN [pc |-> "open", seen |-> seen, version |-> version]
                 ELSE [pc |-> "begin", seen |-> seen, version |-> Min(pending)]]

Raise(o) == op' = [op EXCEPT ![o] = [NotOpen EXCEPT !.pc = "error"]]

\* A history this code does not know: newer, with a gap, or of other names.
Incompatible(o, seen) ==
    \/ \E v \in DOMAIN seen : v > LATEST_SCHEMA_VERSION(o)
    \/ DOMAIN seen # 1..Cardinality(DOMAIN seen)
    \/ \E v \in DOMAIN seen : seen[v] # MIGRATIONS[o][v]

\* CREATE TABLE IF NOT EXISTS schema_migrations, and the rows it has by then.
read_applied(o) ==
    /\ OpAt(o, "read")
    /\ IF Incompatible(o, applied) THEN Raise(o) ELSE Advance(o, applied, 0)
    /\ UNCHANGED <<schemaVars, writer>>

\* BEGIN IMMEDIATE waits for another writer, at most busy_timeout.
begin_immediate(o) ==
    /\ OpAt(o, "begin")
    /\ \/ /\ writer = Nobody
          /\ writer' = o
          /\ op' = [op EXCEPT ![o].pc = "execute"]
       \/ /\ writer # Nobody
          /\ Raise(o)
          /\ UNCHANGED writer
    /\ UNCHANGED schemaVars

NameOf(o) == MIGRATIONS[o][op[o].version]

\* Mutant of execute_statements: every statement commits by itself.
execute_statements_Autocommit(o) ==
    /\ OpAt(o, "execute")
    /\ IF NameOf(o) \in tables
       THEN Raise(o) /\ writer' = Nobody /\ UNCHANGED tables
       ELSE /\ tables' = tables \cup {NameOf(o)}
            /\ op' = [op EXCEPT ![o].pc = "commit"]
            /\ UNCHANGED writer
    /\ UNCHANGED <<applied, user_version>>

\* CREATE TABLE, or the INSERT of the row, raises if somebody has applied the
\* version since the read: the transaction is rolled back, MigrationError.
execute_statements(o) ==
    /\ OpAt(o, "execute")
    /\ IF NameOf(o) \in tables \/ op[o].version \in DOMAIN applied
       THEN Raise(o) /\ writer' = Nobody
       ELSE op' = [op EXCEPT ![o].pc = "commit"] /\ UNCHANGED writer
    /\ UNCHANGED schemaVars

\* Tables, row and user_version become visible together.
commit_migration(o) ==
    /\ OpAt(o, "commit")
    /\ applied' = [v \in DOMAIN applied \cup {op[o].version} |->
                     IF v = op[o].version THEN NameOf(o) ELSE applied[v]]
    /\ tables' = tables \cup {NameOf(o)}
    /\ user_version' = op[o].version
    /\ writer' = Nobody
    /\ Advance(o, op[o].seen, op[o].version)

Unlocked(o) == writer' = IF writer = o THEN Nobody ELSE writer

\* A statement or the commit fails (disk full, I/O error): rolled back.
migration_fault(o) ==
    /\ op[o].pc \in {"read", "begin", "execute", "commit"}
    /\ Raise(o)
    /\ Unlocked(o)
    /\ UNCHANGED schemaVars

\* The process is killed, or ends: an open transaction is rolled back.
process_gone(o) ==
    /\ close(o)
    /\ Unlocked(o)
    /\ UNCHANGED schemaVars

apply_migrations(o) ==
    \/ read_applied(o) \/ begin_immediate(o) \/ execute_statements(o)
    \/ commit_migration(o)

MigrationsNext ==
    \E o \in Opener :
      \/ OpAt(o, "closed") /\ connect(o) /\ UNCHANGED <<schemaVars, writer>>
      \/ apply_migrations(o) \/ migration_fault(o)
      \/ ~OpAt(o, "closed") /\ process_gone(o)

MigrationsSpec == MigrationsInit /\ [][MigrationsNext]_migrationVars

-----------------------------------------------------------------------------
\* Whoever opens the file, side by side or one after the other, and whoever dies
\* on the way: the recorded versions have no gap, exactly their tables exist,
\* user_version names the last one, and a store that has opened finds every
\* table its code was written for (apply_migrations, SQLiteStore.__init__).
SchemaWhole ==
    /\ DOMAIN applied = 1..user_version
    /\ tables = Range(applied)
    /\ \A o \in Opener : OpAt(o, "open") =>
         \A v \in 1..LATEST_SCHEMA_VERSION(o) :
           v \in DOMAIN applied /\ applied[v] = MIGRATIONS[o][v]
=============================================================================
