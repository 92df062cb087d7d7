---------------------------- MODULE StoreOpening ----------------------------
(***************************************************************************)
(* Opening, inspecting and migrating .repin/graph.sqlite3                  *)
(* (repin-store-sqlite/src/sqlite.rs).                                     *)
(*                                                                         *)
(* A file is set to write-ahead logging and then classified by its         *)
(* application_id, its user_version and its tables, read by separate       *)
(* statements; then an empty file is initialised, or a file of release 1   *)
(* migrated, in one transaction. Nothing keeps two processes, or threads   *)
(* of a daemon, apart here: initialize_state takes the writer lease first, *)
(* but the engine opens the store whether or not it got the lease, and     *)
(* `repin db` takes none. A step is a statement.                           *)
(*                                                                         *)
(* A transaction is deferred: its first statement takes a snapshot, its    *)
(* first write the lock, refused when the snapshot is no longer the last   *)
(* committed state. What it writes is seen when it commits, or never.      *)
(***************************************************************************)
EXTENDS Naturals, FiniteSets

CONSTANTS
    Processes,     \* processes or threads that open the file
    MaxOpens,      \* opens, inspections and migrations in one behaviour
    MaxJournal     \* rows of the migration journal

VARIABLES
    db,      \* the committed file, or NoFile
    lock,    \* holders of SQLite's write lock
    proc,    \* what each process is doing: call, statement, what it has read
    opens

vars == <<db, lock, proc, opens>>

ASSUME BoundsAssumption == MaxOpens \in Nat /\ MaxJournal \in Nat

SchemaVersion == 2
\* VersionRecords.store_schema_version, or no records, or a text that does
\* not parse.
NoRecords == 0
Unreadable == 4

\* wal: the header says that the file is in WAL mode.
EmptyFile == [wal |-> FALSE, app |-> "zero", user |-> 0, tables |-> {}, records |-> NoRecords, journal |-> 0]
Empty(f) == f \in {EmptyFile, [EmptyFile EXCEPT !.wal = TRUE]}
NoFile == [EmptyFile EXCEPT !.app = "none"]
SchemaTables == {"meta", "migration_journal", "graph"}

Databases ==
    [wal : BOOLEAN, app : {"zero", "repin", "other"}, user : 0 .. 3,
     tables : SUBSET (SchemaTables \cup {"foreign"}), records : NoRecords .. Unreadable, journal : 0 .. MaxJournal]

\* Files found on a disk: none, an empty one, one a release of repin has
\* written, whole or damaged, and one of another program.
FoundFiles ==
    {NoFile, EmptyFile}
    \cup {[wal |-> w, app |-> "repin", user |-> u, tables |-> ts, records |-> r, journal |-> 0] :
             w \in BOOLEAN, u \in 0 .. 3, ts \in {{"meta", "graph"}, SchemaTables}, r \in NoRecords .. Unreadable}
    \cup {[wal |-> w, app |-> a, user |-> u, tables |-> ts, records |-> NoRecords, journal |-> 0] :
             w \in BOOLEAN, a \in {"zero", "repin", "other"}, u \in 0 .. 3, ts \in {{"graph"}, {"foreign"}}}

\* SqliteStore::open and migrate, and the inspection that either migrate or
\* `repin db inspect` makes.
Calls == {"open", "inspect", "migrate"}
\* "unchecked" is an open too: of a store whose records could not be queried.
Results == {"opened", "unchecked", "inspected", "corrupt", "mismatch", "io"}
Statements == {"configure", "application_id", "user_version", "tables", "has_meta", "records", "agree",
               "create", "stamp", "journal", "convert", "log", "version", "commit"}
Idle == [call |-> "none", at |-> "none", app |-> "none", user |-> 0,
         snapshot |-> NoFile, copy |-> NoFile]

Running(p) == proc[p].at \in Statements
HasOpen(p) == proc[p].at \in {"opened", "unchecked"}

Goto(p, at) == proc' = [proc EXCEPT ![p].at = at]
Ends(p, result) == /\ proc' = [proc EXCEPT ![p] = [Idle EXCEPT !.call = proc[p].call, !.at = result]]
                   /\ lock' = lock \ {p}
                   /\ UNCHANGED <<db, opens>>

-----------------------------------------------------------------------------
(* A call, and the identity it reads: Connection::open makes the file.     *)

Connect(p, call) ==
    /\ proc[p].at = "none"
    /\ opens < MaxOpens
    /\ opens' = opens + 1
    /\ db' = IF db = NoFile THEN EmptyFile ELSE db
    /\ proc' = [proc EXCEPT ![p].call = call, ![p].at = "configure"]
    /\ UNCHANGED lock

\* PRAGMA journal_mode = WAL is kept in the file's header, whatever file that
\* is. The pragma of the later connections of one migrate finds it there.
Configure(p) ==
    /\ proc[p].at = "configure"
    /\ db' = [db EXCEPT !.wal = TRUE]
    /\ Goto(p, "application_id")
    /\ UNCHANGED <<lock, opens>>

ReadApplicationId(p) ==
    /\ proc[p].at = "application_id"
    /\ proc' = [proc EXCEPT ![p].app = db.app, ![p].at = "user_version"]
    /\ UNCHANGED <<db, lock, opens>>

\* A mutant: an older store is opened as it is.
ClassifyAcceptsOlder(p, user) ==
    IF proc[p].app = "repin" /\ user \in 1 .. SchemaVersion
    THEN Goto(p, "has_meta") /\ UNCHANGED <<db, lock, opens>>
    ELSE Ends(p, "corrupt")

\* The refusals of classify_or_initialize, in its order.
Classify(p, user) ==
    CASE proc[p].app /= "repin" -> Ends(p, "corrupt")
      [] proc[p].app = "repin" /\ user > SchemaVersion -> Ends(p, "mismatch")
      [] proc[p].app = "repin" /\ user = 0 -> Ends(p, "corrupt")
      [] proc[p].app = "repin" /\ user \in 1 .. SchemaVersion - 1 -> Ends(p, "mismatch")
      [] proc[p].app = "repin" /\ user = SchemaVersion -> Goto(p, "has_meta") /\ UNCHANGED <<db, lock, opens>>

ReadUserVersion(p) ==
    /\ proc[p].at = "user_version"
    /\ IF proc[p].call /= "open" \/ (proc[p].app = "zero" /\ db.user = 0)
       THEN /\ proc' = [proc EXCEPT ![p].user = db.user, ![p].at = "tables"]
            /\ UNCHANGED <<db, lock, opens>>
       ELSE Classify(p, db.user)

\* A mutant: CREATE TABLE IF NOT EXISTS before the tables are looked at.
ReadTablesCreates(p) ==
    /\ proc[p].at = "tables"
    /\ proc[p].call = "open"
    /\ Goto(p, "create") /\ UNCHANGED <<db, lock, opens>>

\* open: only an empty file is initialised.
ReadTables(p) ==
    /\ proc[p].at = "tables"
    /\ proc[p].call = "open"
    /\ IF db.tables = {} THEN Goto(p, "create") /\ UNCHANGED <<db, lock, opens>>
                         ELSE Classify(p, proc[p].user)

Inspected(p) ==
    /\ proc[p].at = "tables"
    /\ proc[p].call = "inspect"
    /\ Ends(p, "inspected")

\* migrate: a current store is opened, on a new connection, one of release 1
\* converted.
ChooseMigration(p) ==
    /\ proc[p].at = "tables"
    /\ proc[p].call = "migrate"
    /\ CASE proc[p].app /= "repin" -> Ends(p, "corrupt")
         [] proc[p].app = "repin" /\ proc[p].user = SchemaVersion ->
               /\ proc' = [proc EXCEPT ![p].call = "open", ![p].at = "application_id"]
               /\ UNCHANGED <<db, lock, opens>>
         [] proc[p].app = "repin" /\ proc[p].user = 1 ->
               Goto(p, "journal") /\ UNCHANGED <<db, lock, opens>>
         [] proc[p].app = "repin" /\ proc[p].user \in {0, 3} -> Ends(p, "mismatch")

-----------------------------------------------------------------------------
(* validate_version_records: the meta table, the records, and              *)
(* user_version once more.                                                 *)

ReadHasMeta(p) ==
    /\ proc[p].at = "has_meta"
    /\ IF "meta" \in db.tables THEN Goto(p, "records") /\ UNCHANGED <<db, lock, opens>>
                               ELSE Ends(p, "corrupt")

ReadRecords(p) ==
    /\ proc[p].at = "records"
    /\ CASE db.records = NoRecords -> Ends(p, "opened")
         [] db.records = Unreadable -> Ends(p, "corrupt")
         [] db.records \in 1 .. 3 -> /\ proc' = [proc EXCEPT ![p].user = db.records, ![p].at = "agree"]
                                  /\ UNCHANGED <<db, lock, opens>>

Agree(p) ==
    /\ proc[p].at = "agree"
    /\ Ends(p, IF db.user = proc[p].user THEN "opened" ELSE "corrupt")

-----------------------------------------------------------------------------
(* Transactions.                                                           *)

\* A mutant: the first write does not wait for the lock.
BeginsUnlocked(p, writes, copy, next) ==
    /\ lock' = IF writes THEN lock \cup {p} ELSE lock
    /\ proc' = [proc EXCEPT ![p].snapshot = db, ![p].copy = copy, ![p].at = next]
    /\ UNCHANGED <<db, opens>>

\* The first statement of a transaction reads what is committed; it takes the
\* lock too when it writes.
Begins(p, writes, copy, next) ==
    /\ writes => lock = {}
    /\ lock' = IF writes THEN {p} ELSE lock
    /\ proc' = [proc EXCEPT ![p].snapshot = db, ![p].copy = copy, ![p].at = next]
    /\ UNCHANGED <<db, opens>>

\* A later write of a transaction that has not written yet needs its snapshot
\* to be the last committed state: SQLITE_BUSY_SNAPSHOT otherwise.
MayWrite(p) == lock = {p} \/ (lock = {} /\ db = proc[p].snapshot)

Writes(p, copy, next) ==
    IF MayWrite(p) THEN /\ lock' = {p}
                        /\ proc' = [proc EXCEPT ![p].copy = copy, ![p].at = next]
                        /\ UNCHANGED <<db, opens>>
                   ELSE Ends(p, "io")

\* SCHEMA_DDL: CREATE TABLE IF NOT EXISTS.
CreateSchema(p) ==
    /\ proc[p].at = "create"
    /\ Begins(p, ~ SchemaTables \subseteq db.tables, [db EXCEPT !.tables = @ \cup SchemaTables], "stamp")

StampIdentity(p) ==
    /\ proc[p].at = "stamp"
    /\ Writes(p, [proc[p].copy EXCEPT !.app = "repin", !.user = SchemaVersion], "commit")

\* migrate_v1_to_v2: the journal's table, the records, a row of the journal,
\* the version.
CreateJournal(p) ==
    /\ proc[p].at = "journal"
    /\ Begins(p, "migration_journal" \notin db.tables,
              [db EXCEPT !.tables = @ \cup {"migration_journal"}], "convert")

\* A mutant: records are left as they are.
ConvertNothing(p) ==
    /\ proc[p].at = "convert"
    /\ Goto(p, "log") /\ UNCHANGED <<db, lock, opens>>

ConvertRecords(p) ==
    /\ proc[p].at = "convert"
    /\ CASE "meta" \notin proc[p].copy.tables -> Ends(p, "io")
         [] "meta" \in proc[p].copy.tables /\ proc[p].copy.records = NoRecords ->
               Goto(p, "log") /\ UNCHANGED <<db, lock, opens>>
         [] "meta" \in proc[p].copy.tables /\ proc[p].copy.records = 1 ->
               Writes(p, [proc[p].copy EXCEPT !.records = SchemaVersion], "log")
         [] "meta" \in proc[p].copy.tables /\ proc[p].copy.records \in {2, 3, Unreadable} -> Ends(p, "corrupt")

LogMigration(p) ==
    /\ proc[p].at = "log"
    /\ proc[p].copy.journal < MaxJournal
    /\ Writes(p, [proc[p].copy EXCEPT !.journal = @ + 1], "version")

StampVersion(p) ==
    /\ proc[p].at = "version"
    /\ Writes(p, [proc[p].copy EXCEPT !.user = SchemaVersion], "commit")

\* A new store has its records validated like any other; a migrated one is
\* opened afresh.
Commit(p) ==
    /\ proc[p].at = "commit"
    /\ db' = proc[p].copy
    /\ lock' = lock \ {p}
    /\ proc' = [proc EXCEPT ![p] = [Idle EXCEPT
                   !.call = "open",
                   !.at = IF proc[p].call = "open" THEN "has_meta" ELSE "application_id"]]
    /\ UNCHANGED opens

-----------------------------------------------------------------------------
(* What an opened store does, and what can happen to a process.            *)

\* An index transaction that records the versions: put_version_records.
IndexRecordsVersions(p) ==
    /\ HasOpen(p)
    /\ lock = {}
    /\ db' = [db EXCEPT !.records = SchemaVersion]
    /\ UNCHANGED <<lock, proc, opens>>

\* A statement fails, or waits for the lock too long; a transaction that is
\* open is rolled back when it is dropped.
StatementFails(p) ==
    /\ Running(p) /\ proc[p].at /= "records"
    /\ Ends(p, "io")

\* validate_version_records takes a failure to query the records, of whatever
\* kind, for a store that has none.
RecordsFail(p) ==
    /\ proc[p].at = "records"
    /\ Ends(p, "unchecked")

\* The caller is done with its answer, or its process dies.
Closes(p) ==
    /\ proc[p].at /= "none"
    /\ proc' = [proc EXCEPT ![p] = Idle]
    /\ lock' = lock \ {p}
    /\ UNCHANGED <<db, opens>>

Init ==
    /\ db \in FoundFiles
    /\ lock = {}
    /\ proc = [p \in Processes |-> Idle]
    /\ opens = 0

Step(p) ==
    \/ \E call \in Calls : Connect(p, call)
    \/ Configure(p)
    \/ ReadApplicationId(p)
    \/ ReadUserVersion(p)
    \/ ReadTables(p)
    \/ Inspected(p)
    \/ ChooseMigration(p)
    \/ ReadHasMeta(p)
    \/ ReadRecords(p)
    \/ Agree(p)
    \/ CreateSchema(p)
    \/ StampIdentity(p)
    \/ CreateJournal(p)
    \/ ConvertRecords(p)
    \/ LogMigration(p)
    \/ StampVersion(p)
    \/ Commit(p)
    \/ IndexRecordsVersions(p)
    \/ StatementFails(p)
    \/ RecordsFail(p)
    \/ Closes(p)

Next == \E p \in Processes : Step(p)

Spec == Init /\ [][Next]_vars

-----------------------------------------------------------------------------
(* Properties.                                                             *)

\* Types of the variables; at most one process holds the write lock.
TypeOK ==
    /\ db \in {NoFile} \cup Databases
    /\ lock \in SUBSET Processes
    /\ Cardinality(lock) <= 1
    /\ proc \in [Processes -> [call : Calls \cup {"none"}, at : Statements \cup Results \cup {"none"},
                               app : {"none", "zero", "repin", "other"},
                               user : 0 .. 3,
                               snapshot : {NoFile} \cup Databases, copy : {NoFile} \cup Databases]]
    /\ opens \in 0 .. MaxOpens

\* Files the release cannot activate: of another program, of a newer or an
\* unknown release, without a meta table, or whose records contradict the file.
Refused(f) ==
    /\ f # NoFile /\ ~ Empty(f)
    /\ \/ f.app /= "repin"
       \/ f.user \notin 1 .. SchemaVersion
       \/ "meta" \notin f.tables
       \/ f.records \notin {NoRecords, f.user}

Current(f) == f # NoFile /\ ~ Empty(f) /\ ~ Refused(f) /\ f.user = SchemaVersion

\* What is left to rely on when the records could not be queried.
Identified(f) == f.app = "repin" /\ f.user = SchemaVersion /\ "meta" \in f.tables

\* An opened store is a current one and stays one as long as it is open,
\* whatever other processes initialise, migrate or fail to in the meantime. One
\* that was opened although its records could not be queried is at least
\* repin's, of this version and with a meta table
\* (sqlite.rs open, classify_or_initialize, validate_version_records).
OpenStoresAreCurrent ==
    \A p \in Processes : /\ proc[p].at = "opened" => Current(db)
                        /\ proc[p].at = "unchecked" => Identified(db)

\* No interleaving of calls changes what a file that is to be refused contains;
\* in particular a file is never made to look valid by creating the tables it
\* lacks. Connecting switches it to WAL, and a process that opened it because
\* its query of the records failed writes records; nothing else happens to it
\* (sqlite.rs configure_connection, classify_or_initialize, migrate,
\* validate_version_records).
RefusedFilesKeepTheirContents ==
    [][Refused(db) =>
          \/ db' \in {db, [db EXCEPT !.wal = TRUE]}
          \/ /\ Identified(db) /\ \E p \in Processes : proc[p].at = "unchecked"
             /\ db' = [db EXCEPT !.records = SchemaVersion]]_vars

\* A store leaves version 1 with its records converted and the migration in
\* the journal, in one step; beside its migration, only the switch to WAL of
\* a process that connects changes it; a
\* migration that fails or dies half way leaves no trace
\* (sqlite.rs migrate_v1_to_v2).
MigrationIsWhole ==
    [][db # NoFile /\ db.user = 1 =>
          db' \in {db, [db EXCEPT !.wal = TRUE],
                   [db EXCEPT !.user = SchemaVersion,
                              !.tables = @ \cup {"migration_journal"},
                              !.records = IF @ = NoRecords THEN @ ELSE SchemaVersion,
                              !.journal = @ + 1]}]_vars

\* A store whose records contradict its version is never open. One is, when the
\* query of its records fails. Not an invariant of the code; see the README.
ContradictionsAreRefused == \A p \in Processes : HasOpen(p) => Current(db)

\* A file that is to be refused is not written at all. Not an invariant of the
\* code; see the README.
RefusedFilesAreNeverWritten == [][Refused(db) => db' = db]_vars

\* A call that answers "corrupt" has met a file that is not a current store.
\* It can also have met one that was being created: application_id read
\* before the creation commits, sqlite_master after it. Not an invariant of
\* the code; see the README.
CorruptionIsReal ==
    [][\A p \in Processes : proc'[p].at = "corrupt" /\ proc[p].at # "corrupt" => ~ Current(db)]_vars

\* A row of the journal is a store that left version 1. Two migrations of a
\* store without records both log one. Not an invariant of the code; see the
\* README.
JournalRowsAreMigrations == [][db # NoFile /\ db'.journal > db.journal => db.user = 1]_vars
=============================================================================
