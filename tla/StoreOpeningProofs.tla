------------------------- MODULE StoreOpeningProofs -------------------------
(***************************************************************************)
(* What holds of StoreOpening for any processes and bounds. A call decides *)
(* on what it read some statements ago, so the invariant says, for every   *)
(* statement a call can be at, what the file may have become since then:   *)
(* files only move from empty, or from release 1, to a current store.      *)
(***************************************************************************)
EXTENDS StoreOpening, FiniteSetTheorems, TLAPS

\* What the two transactions make of the file they have read, by statement.
Created(f) == [f EXCEPT !.tables = @ \cup SchemaTables]
Stamped(f) == [Created(f) EXCEPT !.app = "repin", !.user = SchemaVersion]
Journaled(f) == [f EXCEPT !.tables = @ \cup {"migration_journal"}]
Converted(f) == [Journaled(f) EXCEPT !.records = IF @ = NoRecords THEN @ ELSE SchemaVersion]
Logged(f) == [Converted(f) EXCEPT !.journal = @ + 1]
Migrated(f) == [Logged(f) EXCEPT !.user = SchemaVersion]

\* The files they may be applied to.
Creatable(f) == Empty(f) \/ Current(f)
Migratable(f) == f.app = "repin" /\ (f.user = 1 \/ Current(f))
Convertible(f) == Migratable(f) /\ "meta" \in f.tables /\ f.records \in {NoRecords, 1}

\* How the committed file changes: it appears, it is switched to WAL, or it
\* becomes current.
Evolves(f, g) ==
    \/ g = f
    \/ f = NoFile /\ g = EmptyFile
    \/ f # NoFile /\ g = [f EXCEPT !.wal = TRUE]
    \/ /\ Creatable(f) \/ Convertible(f) \/ Identified(f)
       /\ Current(g)
       /\ f.wal => g.wal
       /\ f.records = SchemaVersion => g.records = SchemaVersion

Entries ==
    [call : Calls \cup {"none"}, at : Statements \cup Results \cup {"none"},
     app : {"none", "zero", "repin", "other"}, user : 0 .. 3,
     snapshot : {NoFile} \cup Databases, copy : {NoFile} \cup Databases]

TypesOK ==
    /\ db \in {NoFile} \cup Databases
    /\ db.tables = {} => db = NoFile \/ Empty(db)
    /\ lock = {} \/ \E p \in Processes : lock = {p}
    /\ proc \in [Processes -> Entries]
    /\ opens \in 0 .. MaxOpens

\* What a call knows of the committed file at each statement; e is its entry.
Knows(e) ==
    /\ e.at # "none" => db # NoFile
    /\ e.at \in Statements \ {"configure"} => db.wal
    /\ e.at \in {"user_version", "tables"} /\ e.app = "repin" => db.app = "repin"
    /\ e.at = "tables" /\ e.call = "open" => e.app # "repin"
    /\ e.at = "tables" /\ e.app = "repin" /\ e.user = 1 => Migratable(db)
    /\ e.at = "create" => Creatable(db)
    /\ e.at = "journal" => Migratable(db)
    /\ e.at \in {"has_meta", "records", "agree"} => db.app = "repin" /\ db.user = SchemaVersion
    /\ e.at \in {"records", "agree"} => "meta" \in db.tables
    /\ e.at = "agree" /\ e.user = SchemaVersion => db.records = SchemaVersion
    /\ e.at = "opened" => Current(db)
    /\ e.at = "unchecked" => Identified(db)

\* What its transaction has read and would commit.
Follows(e) ==
    /\ e.at \in {"create", "stamp"} => e.call = "open"
    /\ e.at \in {"journal", "convert", "log", "version"} => e.call = "migrate"
    /\ e.at = "stamp" => Creatable(e.snapshot) /\ e.copy = Created(e.snapshot)
    /\ e.at = "convert" => Migratable(e.snapshot) /\ e.copy = Journaled(e.snapshot)
    /\ e.at = "log" => Convertible(e.snapshot) /\ e.copy = Converted(e.snapshot)
    /\ e.at = "version" => Convertible(e.snapshot) /\ e.snapshot.journal < MaxJournal /\ e.copy = Logged(e.snapshot)
    /\ e.at = "commit" =>
         \/ e.call = "open" /\ Creatable(e.snapshot) /\ e.copy = Stamped(e.snapshot)
         \/ /\ e.call = "migrate" /\ Convertible(e.snapshot) /\ e.snapshot.journal < MaxJournal
            /\ e.copy = Migrated(e.snapshot)

\* Its snapshot is the committed file as long as it holds the lock, and it has
\* the lock when it commits.
LockHolds(p) ==
    /\ p \in lock => /\ proc[p].snapshot = db
                     /\ proc[p].at \in {"stamp", "convert", "log", "version", "commit"}
    /\ proc[p].at \in {"version", "commit"} => p \in lock

ProcessOK(p) == Knows(proc[p]) /\ Follows(proc[p]) /\ LockHolds(p)

IInv == TypesOK /\ \A p \in Processes : ProcessOK(p)

-----------------------------------------------------------------------------
(* Files.                                                                  *)

\* One field changed, the others kept.
LEMMA SetTables ==
    ASSUME NEW f \in Databases, NEW t \in SUBSET (SchemaTables \cup {"foreign"})
    PROVE  LET g == [f EXCEPT !.tables = t] IN
           g \in Databases /\ g.wal = f.wal /\ g.tables = t /\ g.app = f.app /\ g.user = f.user
           /\ g.records = f.records /\ g.journal = f.journal
    BY DEF Databases

LEMMA SetVersion ==
    ASSUME NEW f \in Databases
    PROVE  LET g == [f EXCEPT !.user = SchemaVersion] IN
           g \in Databases /\ g.wal = f.wal /\ g.tables = f.tables /\ g.app = f.app /\ g.user = SchemaVersion
           /\ g.records = f.records /\ g.journal = f.journal
    BY DEF Databases, SchemaVersion

LEMMA SetIdentity ==
    ASSUME NEW f \in Databases
    PROVE  LET g == [f EXCEPT !.app = "repin", !.user = SchemaVersion] IN
           g \in Databases /\ g.wal = f.wal /\ g.tables = f.tables /\ g.app = "repin" /\ g.user = SchemaVersion
           /\ g.records = f.records /\ g.journal = f.journal
<1> DEFINE h == [f EXCEPT !.app = "repin"]
<1>1. h \in Databases /\ h.wal = f.wal /\ h.tables = f.tables /\ h.app = "repin" /\ h.records = f.records /\ h.journal = f.journal
    BY DEF Databases
<1> QED
    BY <1>1, SetVersion

LEMMA SetRecords ==
    ASSUME NEW f \in Databases, NEW r \in NoRecords .. Unreadable
    PROVE  LET g == [f EXCEPT !.records = r] IN
           g \in Databases /\ g.wal = f.wal /\ g.tables = f.tables /\ g.app = f.app /\ g.user = f.user
           /\ g.records = r /\ g.journal = f.journal
    BY DEF Databases

LEMMA AddJournalRow ==
    ASSUME NEW f \in Databases, f.journal < MaxJournal
    PROVE  LET g == [f EXCEPT !.journal = @ + 1] IN
           g \in Databases /\ g.wal = f.wal /\ g.tables = f.tables /\ g.app = f.app /\ g.user = f.user
           /\ g.records = f.records /\ g.journal = f.journal + 1
<1>1. f.journal + 1 \in 0 .. MaxJournal
    BY BoundsAssumption DEF Databases
<1> QED
    BY <1>1 DEF Databases

\* What the transactions build stays a file; its fields.
LEMMA CreatedFile ==
    ASSUME NEW f \in Databases
    PROVE  /\ Created(f) \in Databases
           /\ Stamped(f) \in Databases
           /\ Stamped(f).app = "repin" /\ Stamped(f).user = SchemaVersion
           /\ Stamped(f).wal = f.wal /\ Stamped(f).tables = f.tables \cup SchemaTables /\ Stamped(f).records = f.records
<1>1. f.tables \cup SchemaTables \in SUBSET (SchemaTables \cup {"foreign"})
    BY DEF Databases
<1>2. Created(f) \in Databases /\ Created(f).wal = f.wal /\ Created(f).tables = f.tables \cup SchemaTables
      /\ Created(f).records = f.records
    BY <1>1, SetTables DEF Created
<1> QED
    BY <1>2, SetIdentity DEF Stamped

LEMMA JournaledFile ==
    ASSUME NEW f \in Databases
    PROVE  /\ Journaled(f) \in Databases
           /\ Journaled(f).tables = f.tables \cup {"migration_journal"}
           /\ Journaled(f).wal = f.wal /\ Journaled(f).app = f.app /\ Journaled(f).user = f.user
           /\ Journaled(f).records = f.records /\ Journaled(f).journal = f.journal
<1>1. f.tables \cup {"migration_journal"} \in SUBSET (SchemaTables \cup {"foreign"})
    BY DEF Databases, SchemaTables
<1> QED
    BY <1>1, SetTables DEF Journaled

LEMMA ConvertedFile ==
    ASSUME NEW f \in Databases
    PROVE  /\ Converted(f) \in Databases
           /\ Converted(f).tables = f.tables \cup {"migration_journal"}
           /\ Converted(f).wal = f.wal /\ Converted(f).app = f.app /\ Converted(f).user = f.user /\ Converted(f).journal = f.journal
           /\ Converted(f).records = IF f.records = NoRecords THEN NoRecords ELSE SchemaVersion
<1> DEFINE r == IF f.records = NoRecords THEN NoRecords ELSE SchemaVersion
<1>1. r \in NoRecords .. Unreadable
    BY DEF NoRecords, Unreadable, SchemaVersion
<1>2. Converted(f) = [Journaled(f) EXCEPT !.records = r]
    BY JournaledFile DEF Converted
<1> QED
    BY <1>1, <1>2, JournaledFile, SetRecords

LEMMA MigratedFile ==
    ASSUME NEW f \in Databases, f.journal < MaxJournal
    PROVE  /\ Logged(f) \in Databases
           /\ Migrated(f) \in Databases
           /\ Migrated(f).tables = f.tables \cup {"migration_journal"}
           /\ Migrated(f).wal = f.wal /\ Migrated(f).app = f.app /\ Migrated(f).user = SchemaVersion
           /\ Migrated(f).journal = f.journal + 1
           /\ Migrated(f).records = IF f.records = NoRecords THEN NoRecords ELSE SchemaVersion
<1>1. /\ Logged(f) \in Databases /\ Logged(f).wal = f.wal /\ Logged(f).tables = f.tables \cup {"migration_journal"}
      /\ Logged(f).app = f.app /\ Logged(f).journal = f.journal + 1
      /\ Logged(f).records = IF f.records = NoRecords THEN NoRecords ELSE SchemaVersion
    BY ConvertedFile, AddJournalRow DEF Logged
<1> QED
    BY <1>1, SetVersion DEF Migrated

\* And what they commit is current.
LEMMA CreatedIsCurrent ==
    ASSUME NEW f \in Databases, Creatable(f)
    PROVE  Current(Stamped(f)) /\ Evolves(f, Stamped(f))
<1>1. f.records \in {NoRecords, SchemaVersion}
    BY DEF Creatable, Current, Refused, Empty, EmptyFile, NoRecords
<1>2. Current(Stamped(f))
    BY <1>1, CreatedFile DEF Current, Refused, SchemaTables, SchemaVersion, Empty, EmptyFile, NoFile
<1> QED
    BY <1>2, CreatedFile DEF Evolves

LEMMA MigratedIsCurrent ==
    ASSUME NEW f \in Databases, Convertible(f), f.journal < MaxJournal
    PROVE  Current(Migrated(f)) /\ Evolves(f, Migrated(f))
<1>1. f.app = "repin" /\ "meta" \in f.tables /\ f.records # SchemaVersion
    BY DEF Convertible, Migratable, NoRecords, SchemaVersion
<1>2. Current(Migrated(f))
    BY <1>1, MigratedFile DEF Current, Refused, SchemaVersion, Empty, EmptyFile, NoFile, NoRecords
<1> QED
    BY <1>1, <1>2, MigratedFile DEF Evolves

LEMMA CurrentIsIdentified ==
    ASSUME NEW f, Current(f)
    PROVE  Identified(f)
    BY DEF Current, Refused, Identified

\* Records written by an opened store make it current, whatever they were.
LEMMA RecordedIsCurrent ==
    ASSUME NEW f \in Databases, Identified(f)
    PROVE  LET g == [f EXCEPT !.records = SchemaVersion] IN
           g \in Databases /\ Current(g) /\ Evolves(f, g)
<1> DEFINE g == [f EXCEPT !.records = SchemaVersion]
<1>1. /\ g \in Databases /\ g.wal = f.wal /\ g.tables = f.tables /\ g.app = f.app /\ g.user = f.user
      /\ g.records = SchemaVersion
  <2>1. SchemaVersion \in NoRecords .. Unreadable
    BY DEF SchemaVersion, NoRecords, Unreadable
  <2> QED
    BY <2>1, SetRecords
<1>2. Current(g)
  <2> HIDE DEF g
  <2> QED
    BY <1>1 DEF Identified, Current, Refused, Empty, EmptyFile, NoFile, SchemaVersion
<1> QED
    BY <1>1, <1>2 DEF Evolves

\* The switch to WAL changes nothing that a classification looks at.
LEMMA Switched ==
    ASSUME NEW f \in Databases
    PROVE  LET g == [f EXCEPT !.wal = TRUE] IN
           /\ g \in Databases /\ g # NoFile /\ g.wal
           /\ g.tables = f.tables /\ g.app = f.app /\ g.user = f.user
           /\ g.records = f.records /\ g.journal = f.journal
           /\ Empty(f) => Empty(g)
           /\ Current(f) => Current(g)
           /\ f.wal => g = f
<1> DEFINE g == [f EXCEPT !.wal = TRUE]
<1>1. /\ g \in Databases /\ g.wal /\ g.tables = f.tables /\ g.app = f.app /\ g.user = f.user
      /\ g.records = f.records /\ g.journal = f.journal
    BY DEF Databases
<1>2. g # NoFile
    BY <1>1 DEF Databases, NoFile
<1>3. Empty(f) => Empty(g)
    BY DEF Empty
<1>4. f.wal => g = f
    BY DEF Databases
<1>5. Current(f) => Current(g)
  <2> HIDE DEF g
  <2> QED
    BY <1>1, <1>2 DEF Current, Refused, Empty, EmptyFile, SchemaVersion
<1> QED
    BY <1>1, <1>2, <1>3, <1>4, <1>5

\* What the reads of a process established outlives the steps of the others.
LEMMA OthersKeep ==
    ASSUME NEW p \in Processes, ProcessOK(p), Evolves(db, db'), proc'[p] = proc[p],
           p \in lock' <=> p \in lock, p \in lock => db' = db,
           db \in {NoFile} \cup Databases
    PROVE  ProcessOK(p)'
<1>1. ASSUME db' = db
      PROVE  Knows(proc[p])'
    BY <1>1 DEF ProcessOK, Knows, Creatable, Migratable, Current, Refused, Identified
<1>2. ASSUME db # NoFile, db' = [db EXCEPT !.wal = TRUE]
      PROVE  Knows(proc[p])'
  <2>1. /\ db' # NoFile /\ db'.wal /\ db'.tables = db.tables /\ db'.app = db.app
        /\ db'.user = db.user /\ db'.records = db.records
        /\ Empty(db) => Empty(db)'
        /\ Current(db) => Current(db)'
    BY <1>2, Switched
  <2>2. /\ Creatable(db) => Creatable(db)'
        /\ Migratable(db) => Migratable(db)'
        /\ Identified(db) => Identified(db)'
    BY <2>1 DEF Creatable, Migratable, Identified
  <2> QED
    BY <2>1, <2>2 DEF ProcessOK, Knows
<1>3. ASSUME db = NoFile, db' = EmptyFile
      PROVE  Knows(proc[p])'
    BY <1>3 DEF ProcessOK, Knows, NoFile, EmptyFile
<1>4. ASSUME Creatable(db) \/ Convertible(db) \/ Identified(db), Current(db'), db.wal => db'.wal,
             db.records = SchemaVersion => db'.records = SchemaVersion
      PROVE  Knows(proc[p])'
    BY <1>4, CurrentIsIdentified DEF ProcessOK, Knows, Creatable, Convertible, Migratable, Current, Refused, Identified, Empty, EmptyFile,
           SchemaVersion, NoRecords, NoFile
<1>5. Knows(proc[p])'
    BY <1>1, <1>2, <1>3, <1>4 DEF Evolves, ProcessOK
<1> QED
    BY <1>5 DEF ProcessOK, Follows, LockHolds

-----------------------------------------------------------------------------
(* Steps.                                                                  *)

LEMMA IdleEntry == Idle \in Entries
    BY DEF Idle, Entries

LEMMA EndedEntry ==
    ASSUME NEW e \in Entries, NEW c \in Calls \cup {"none"}, NEW r \in Statements \cup Results
    PROVE  LET g == [e EXCEPT !.call = c, !.at = r] IN
           g \in Entries /\ g.at = r /\ g.app = e.app
    BY DEF Entries

LEMMA FoundFile ==
    ASSUME NEW f \in FoundFiles
    PROVE  f \in {NoFile} \cup Databases /\ (f.tables = {} => f = NoFile \/ Empty(f))
<1>1. 0 \in 0 .. MaxJournal
    BY BoundsAssumption
<1>2. EmptyFile \in Databases
    BY <1>1 DEF Databases, EmptyFile, NoRecords, Unreadable
<1>5. Empty(EmptyFile)
    BY DEF Empty
<1>3. ASSUME NEW w \in BOOLEAN, NEW u \in 0 .. 3, NEW ts \in {{"meta", "graph"}, SchemaTables},
             NEW r \in NoRecords .. Unreadable,
             f = [wal |-> w, app |-> "repin", user |-> u, tables |-> ts, records |-> r, journal |-> 0]
      PROVE  f \in Databases /\ f.tables # {}
    BY <1>1, <1>3 DEF Databases, SchemaTables
<1>4. ASSUME NEW w \in BOOLEAN, NEW a \in {"zero", "repin", "other"}, NEW u \in 0 .. 3,
             NEW ts \in {{"graph"}, {"foreign"}},
             f = [wal |-> w, app |-> a, user |-> u, tables |-> ts, records |-> NoRecords, journal |-> 0]
      PROVE  f \in Databases /\ f.tables # {}
    BY <1>1, <1>4 DEF Databases, SchemaTables, NoRecords, Unreadable
<1> QED
    BY <1>2, <1>3, <1>4, <1>5 DEF FoundFiles

LEMMA InitIInv == Init => IInv
<1> SUFFICES ASSUME Init PROVE IInv
    OBVIOUS
<1>1. TypesOK
  <2>1. db \in {NoFile} \cup Databases
    BY FoundFile DEF Init
  <2>2. db.tables = {} => db = NoFile \/ Empty(db)
    BY FoundFile DEF Init
  <2>3. Idle \in Entries
    BY DEF Entries, Idle
  <2> QED
    BY <2>1, <2>2, <2>3, BoundsAssumption DEF Init, TypesOK
<1>2. ASSUME NEW p \in Processes PROVE ProcessOK(p)
    BY DEF Init, ProcessOK, Knows, Follows, LockHolds, Idle, Statements
<1> QED
    BY <1>1, <1>2 DEF IInv

\* A step of one process, once what it does to its own entry and the file is
\* known.
LEMMA OneMoves ==
    ASSUME IInv, NEW p \in Processes, TypesOK', ProcessOK(p)', Evolves(db, db'),
           \A q \in Processes \ {p} : /\ proc'[q] = proc[q]
                                      /\ q \in lock' <=> q \in lock
                                      /\ q \in lock => db' = db
    PROVE  IInv'
    BY OthersKeep DEF IInv, TypesOK

\* Steps that leave the file and the lock alone, or end the call.
LEMMA CallEnds ==
    ASSUME IInv, NEW p \in Processes, NEW result \in Results, Running(p), Ends(p, result),
           result = "opened" => Current(db),
           result = "unchecked" => Identified(db)
    PROVE  IInv' /\ db' = db
<1>1. TypesOK'
  <2> DEFINE e == [Idle EXCEPT !.call = proc[p].call, !.at = result]
  <2>1. proc' = [proc EXCEPT ![p] = e] /\ lock' = lock \ {p} /\ UNCHANGED <<db, opens>>
    BY DEF Ends
  <2>2. proc[p].call \in Calls \cup {"none"}
    BY DEF IInv, TypesOK, Entries
  <2>4. e \in Entries
    BY <2>2, IdleEntry, EndedEntry
  <2>3. lock' = {} \/ \E q \in Processes : lock' = {q}
    BY <2>1 DEF IInv, TypesOK
  <2> HIDE DEF e
  <2> QED
    BY <2>1, <2>4, <2>3 DEF IInv, TypesOK
<1>2. ProcessOK(p)'
    BY DEF IInv, TypesOK, ProcessOK, Knows, Follows, LockHolds, Ends, Idle, Results, Running, Statements
<1> QED
    BY <1>1, <1>2, OneMoves DEF Ends, Evolves, IInv, TypesOK

\* A statement that only reads: the call goes on with what it has read.
LEMMA ReadMoves ==
    ASSUME IInv, NEW p \in Processes, NEW e \in Entries, proc' = [proc EXCEPT ![p] = e],
           UNCHANGED <<db, lock, opens>>, Knows(e), Follows(e), p \notin lock,
           e.at \notin {"version", "commit"}
    PROVE  IInv' /\ db' = db
<1>1. TypesOK' /\ proc'[p] = e
    BY DEF IInv, TypesOK
<1>2. ProcessOK(p)'
    BY <1>1 DEF ProcessOK, Knows, LockHolds
<1> QED
    BY <1>1, <1>2, OneMoves DEF Evolves, IInv, TypesOK

LEMMA GoesOn ==
    ASSUME IInv, NEW p \in Processes, NEW at \in Statements, Goto(p, at), p \notin lock,
           at \in {"create", "journal", "has_meta", "records"},
           UNCHANGED <<db, lock, opens>>,
           at = "create" => Creatable(db) /\ proc[p].call = "open",
           at = "journal" => Migratable(db) /\ proc[p].call = "migrate",
           at \in {"has_meta", "records"} => db.app = "repin" /\ db.user = SchemaVersion,
           at = "records" => "meta" \in db.tables,
           db # NoFile /\ db.wal
    PROVE  IInv' /\ db' = db
<1> DEFINE e == [proc[p] EXCEPT !.at = at]
<1>1. e \in Entries /\ e.at = at /\ e.call = proc[p].call
    BY DEF IInv, TypesOK, Entries
<1>2. Knows(e) /\ Follows(e)
  <2> HIDE DEF e
  <2> QED
    BY <1>1 DEF Knows, Follows
<1> QED
    BY <1>1, <1>2, ReadMoves DEF Goto

LEMMA ClassifyOutcome ==
    ASSUME NEW p \in Processes, NEW user \in 0 .. 3, Classify(p, user)
    PROVE  \/ \E result \in {"corrupt", "mismatch"} : Ends(p, result)
           \/ /\ proc[p].app = "repin" /\ user = SchemaVersion
              /\ Goto(p, "has_meta") /\ UNCHANGED <<db, lock, opens>>
<1> USE DEF Classify, SchemaVersion
<1>1. CASE proc[p].app # "repin"
    BY <1>1
<1>2. CASE proc[p].app = "repin" /\ user = 0
    BY <1>2
<1>3. CASE proc[p].app = "repin" /\ user = 1
    BY <1>3
<1>4. CASE proc[p].app = "repin" /\ user = 2
    BY <1>4
<1>5. CASE proc[p].app = "repin" /\ user = 3
    BY <1>5
<1> QED
    BY <1>1, <1>2, <1>3, <1>4, <1>5

LEMMA ClassifyIInv ==
    ASSUME IInv, NEW p \in Processes, Running(p), proc[p].at \in {"user_version", "tables"},
           NEW user \in 0 .. 3, Classify(p, user),
           proc[p].app = "repin" => proc[p].at = "user_version" /\ user = db.user
    PROVE  IInv' /\ db' = db
<1>1. \/ \E result \in {"corrupt", "mismatch"} : Ends(p, result)
      \/ /\ proc[p].app = "repin" /\ user = SchemaVersion
         /\ Goto(p, "has_meta") /\ UNCHANGED <<db, lock, opens>>
    BY ClassifyOutcome
<1>2. ASSUME NEW result \in {"corrupt", "mismatch"}, Ends(p, result)
      PROVE  IInv' /\ db' = db
    BY <1>2, CallEnds DEF Results
<1>3. CASE /\ proc[p].app = "repin" /\ user = SchemaVersion
           /\ Goto(p, "has_meta") /\ UNCHANGED <<db, lock, opens>>
  <2>1. p \notin lock /\ db # NoFile /\ db.wal /\ db.app = "repin" /\ db.user = SchemaVersion
    BY <1>3 DEF IInv, ProcessOK, Knows, LockHolds, Statements
  <2> QED
    BY <1>3, <2>1, GoesOn DEF Statements
<1> QED
    BY <1>1, <1>2, <1>3

\* The statements that read.
LEMMA ReadIInv ==
    ASSUME IInv, NEW p \in Processes,
           \/ ReadApplicationId(p) \/ ReadUserVersion(p) \/ ReadTables(p) \/ Inspected(p)
           \/ ChooseMigration(p) \/ ReadHasMeta(p) \/ ReadRecords(p) \/ Agree(p)
    PROVE  IInv' /\ db' = db
<1> DEFINE q == proc[p]
<1> USE DEF ProcessOK, Knows, Follows, LockHolds
<1>1. q \in Entries /\ TypesOK /\ ProcessOK(p) /\ Running(p) /\ p \notin lock
    BY DEF IInv, TypesOK, Running, Statements, ReadApplicationId, ReadUserVersion, ReadTables, Inspected,
           ChooseMigration, ReadHasMeta, ReadRecords, Agree
<1>2. db # NoFile /\ db \in Databases /\ db.wal
    BY <1>1 DEF TypesOK, Running, Statements, ReadApplicationId, ReadUserVersion, ReadTables, Inspected,
           ChooseMigration, ReadHasMeta, ReadRecords, Agree
<1>3. CASE ReadApplicationId(p)
  <2> DEFINE e == [q EXCEPT !.app = db.app, !.at = "user_version"]
  <2>1. e \in Entries /\ e.app = db.app /\ e.at = "user_version"
    BY <1>1, <1>2 DEF Entries, Databases, Statements
  <2>2. Knows(e) /\ Follows(e)
    <3> HIDE DEF e
    <3> QED
      BY <1>2, <2>1
  <2> QED
    BY <1>1, <1>3, <2>1, <2>2, ReadMoves DEF ReadApplicationId
<1>4. CASE ReadUserVersion(p)
  <2>1. CASE q.call /= "open" \/ (q.app = "zero" /\ db.user = 0)
    <3> DEFINE e == [q EXCEPT !.user = db.user, !.at = "tables"]
    <3>1. e \in Entries /\ e.user = db.user /\ e.at = "tables" /\ e.app = q.app /\ e.call = q.call
      BY <1>1, <1>2 DEF Entries, Databases, Statements
    <3>2. Knows(e) /\ Follows(e)
      <4> HIDE DEF e
      <4> QED
        BY <1>1, <1>2, <1>4, <2>1, <3>1 DEF ReadUserVersion, Migratable
    <3> QED
      BY <1>1, <1>4, <2>1, <3>1, <3>2, ReadMoves DEF ReadUserVersion
  <2>2. CASE ~ (q.call /= "open" \/ (q.app = "zero" /\ db.user = 0))
    BY <1>1, <1>2, <1>4, <2>2, ClassifyIInv DEF ReadUserVersion, Databases
  <2> QED
    BY <2>1, <2>2
<1>5. CASE ReadTables(p)
  <2>1. CASE db.tables = {}
    <3>1. Creatable(db)
      BY <1>1, <1>2, <2>1 DEF TypesOK, Creatable
    <3> QED
      BY <1>1, <1>2, <1>5, <2>1, <3>1, GoesOn DEF ReadTables, Statements
  <2>2. CASE db.tables # {}
    BY <1>1, <1>5, <2>2, ClassifyIInv DEF ReadTables, Entries
  <2> QED
    BY <2>1, <2>2
<1>6. CASE Inspected(p)
    BY <1>1, <1>6, CallEnds DEF Inspected, Results
<1>7. CASE ChooseMigration(p)
  <2>1. CASE q.app = "repin" /\ q.user = SchemaVersion
    <3> DEFINE e == [q EXCEPT !.call = "open", !.at = "application_id"]
    <3>1. e \in Entries /\ e.at = "application_id"
      BY <1>1 DEF Entries, Calls, Statements
    <3>2. Knows(e) /\ Follows(e)
      <4> HIDE DEF e
      <4> QED
        BY <1>2, <3>1
    <3>3. proc' = [proc EXCEPT ![p] = e] /\ UNCHANGED <<db, lock, opens>>
      <4>1. proc[p].app = "repin" /\ proc[p].user = 2
        BY <2>1 DEF SchemaVersion
      <4>2. /\ proc' = [proc EXCEPT ![p].call = "open", ![p].at = "application_id"]
            /\ UNCHANGED <<db, lock, opens>>
        BY <1>7, <4>1 DEF ChooseMigration, SchemaVersion
      <4> QED
        BY <1>1, <4>2 DEF TypesOK
    <3> QED
      BY <1>1, <3>1, <3>2, <3>3, ReadMoves
  <2>2. CASE q.app = "repin" /\ q.user = 1
    <3>1. Goto(p, "journal") /\ UNCHANGED <<db, lock, opens>> /\ q.call = "migrate" /\ Migratable(db)
      BY <1>1, <1>7, <2>2 DEF ChooseMigration, SchemaVersion
    <3> QED
      BY <1>1, <1>2, <3>1, GoesOn DEF Statements
  <2>3. CASE q.app # "repin" \/ q.user \in {0, 3}
    <3>1. \E result \in {"corrupt", "mismatch"} : Ends(p, result)
      <4>1. CASE q.app # "repin"
        BY <1>7, <4>1 DEF ChooseMigration
      <4>2. CASE q.app = "repin" /\ q.user = 0
        BY <1>7, <4>2 DEF ChooseMigration, SchemaVersion
      <4>3. CASE q.app = "repin" /\ q.user = 3
        BY <1>7, <4>3 DEF ChooseMigration, SchemaVersion
      <4> QED
        BY <2>3, <4>1, <4>2, <4>3
    <3> QED
      BY <1>1, <3>1, CallEnds DEF Results
  <2> QED
    BY <1>1, <2>1, <2>2, <2>3 DEF Entries, SchemaVersion
<1>8. CASE ReadHasMeta(p)
  <2>1. CASE "meta" \in db.tables
    <3> QED
      BY <1>1, <1>2, <1>8, <2>1, GoesOn DEF ReadHasMeta, Statements
  <2>2. CASE "meta" \notin db.tables
    BY <1>1, <1>8, <2>2, CallEnds DEF ReadHasMeta, Results
  <2> QED
    BY <2>1, <2>2
<1>9. CASE ReadRecords(p)
  <2>1. CASE db.records \in 1 .. 3
    <3> DEFINE e == [q EXCEPT !.user = db.records, !.at = "agree"]
    <3>1. db.records \in 0 .. 3 /\ db.records # NoRecords /\ db.records # Unreadable
      BY <2>1 DEF NoRecords, Unreadable
    <3>2. e \in Entries /\ e.at = "agree" /\ e.user = db.records
      BY <1>1, <3>1 DEF Entries, Statements
    <3>3. Knows(e) /\ Follows(e)
      <4> HIDE DEF e
      <4> QED
        BY <1>1, <1>2, <1>9, <3>2 DEF ReadRecords
    <3>4. proc' = [proc EXCEPT ![p] = e] /\ UNCHANGED <<db, lock, opens>>
      BY <1>9, <2>1, <3>1 DEF ReadRecords
    <3> QED
      BY <1>1, <3>2, <3>3, <3>4, ReadMoves
  <2>2. CASE db.records = NoRecords
    <3>1. Current(db)
      BY <1>1, <1>2, <1>9, <2>2 DEF ReadRecords, Current, Refused, SchemaVersion, Empty, EmptyFile
    <3> QED
      BY <1>1, <1>9, <2>2, <3>1, CallEnds DEF ReadRecords, Results, NoRecords, Unreadable
  <2>3. CASE db.records = Unreadable
    BY <1>1, <1>9, <2>3, CallEnds DEF ReadRecords, Results, NoRecords, Unreadable
  <2> QED
    BY <1>2, <2>1, <2>2, <2>3 DEF Databases, NoRecords, Unreadable
<1>10. CASE Agree(p)
  <2>1. CASE db.user = q.user
    <3>1. Current(db)
      BY <1>1, <1>2, <1>10, <2>1 DEF Agree, Current, Refused, SchemaVersion, Empty, EmptyFile
    <3> QED
      BY <1>1, <1>10, <2>1, <3>1, CallEnds DEF Agree, Results
  <2>2. CASE db.user # q.user
    BY <1>1, <1>10, <2>2, CallEnds DEF Agree, Results
  <2> QED
    BY <2>1, <2>2
<1> QED
    BY <1>3, <1>4, <1>5, <1>6, <1>7, <1>8, <1>9, <1>10

-----------------------------------------------------------------------------
(* Transactions.                                                           *)

\* A statement of a transaction that goes on: it holds the lock, or writes
\* nothing and takes a snapshot of what is committed.
LEMMA TransactionMoves ==
    ASSUME IInv, NEW p \in Processes, NEW e \in Entries, proc' = [proc EXCEPT ![p] = e],
           UNCHANGED <<db, opens>>, db # NoFile /\ db.wal,
           e.at \in {"stamp", "convert", "log", "version", "commit"}, Follows(e),
           \/ lock' = lock /\ p \notin lock /\ e.at \notin {"version", "commit"}
           \/ lock' = {p} /\ lock \in {{}, {p}} /\ e.snapshot = db
    PROVE  IInv' /\ db' = db
<1>1. TypesOK' /\ proc'[p] = e
    BY DEF IInv, TypesOK
<1>2. ProcessOK(p)'
    BY <1>1 DEF ProcessOK, Knows, LockHolds
<1> QED
    BY <1>1, <1>2, OneMoves DEF Evolves, IInv, TypesOK

\* The first statement.
LEMMA BeginMoves ==
    ASSUME IInv, NEW p \in Processes, p \notin lock, db # NoFile /\ db.wal, NEW writes \in BOOLEAN,
           NEW copy \in Databases, NEW at \in {"stamp", "convert"}, Begins(p, writes, copy, at),
           at = "stamp" => proc[p].call = "open" /\ Creatable(db) /\ copy = Created(db),
           at = "convert" => proc[p].call = "migrate" /\ Migratable(db) /\ copy = Journaled(db)
    PROVE  IInv' /\ db' = db
<1> DEFINE e == [proc[p] EXCEPT !.snapshot = db, !.copy = copy, !.at = at]
<1>1. e \in Entries /\ e.at = at /\ e.call = proc[p].call /\ e.snapshot = db /\ e.copy = copy
    BY DEF IInv, TypesOK, Entries, Statements
<1>2. proc' = [proc EXCEPT ![p] = e] /\ UNCHANGED <<db, opens>>
    BY DEF Begins, IInv, TypesOK
<1>3. Follows(e)
  <2> HIDE DEF e
  <2> QED
    BY <1>1 DEF Follows
<1> QED
    BY <1>1, <1>2, <1>3, TransactionMoves DEF Begins

\* A later statement that writes, or loses the race for the lock.
LEMMA WriteMoves ==
    ASSUME IInv, NEW p \in Processes, Running(p), NEW copy \in Databases,
           NEW at \in {"log", "version", "commit"}, Writes(p, copy, at),
           proc[p].at \in {"stamp", "convert", "log", "version"},
           Follows([proc[p] EXCEPT !.copy = copy, !.at = at])
    PROVE  IInv' /\ db' = db
<1>1. CASE ~ MayWrite(p)
    BY <1>1, CallEnds DEF Writes, Results
<1>2. CASE MayWrite(p)
  <2> DEFINE e == [proc[p] EXCEPT !.copy = copy, !.at = at]
  <2>1. e \in Entries /\ e.at = at /\ e.snapshot = proc[p].snapshot
    BY DEF IInv, TypesOK, Entries, Statements
  <2>2. proc' = [proc EXCEPT ![p] = e] /\ UNCHANGED <<db, opens>> /\ lock' = {p}
    BY <1>2 DEF Writes, IInv, TypesOK
  <2>3. lock \in {{}, {p}} /\ proc[p].snapshot = db /\ db # NoFile /\ db.wal
    BY <1>2 DEF MayWrite, IInv, ProcessOK, LockHolds, Knows, Statements
  <2> QED
    BY <2>1, <2>2, <2>3, TransactionMoves
<1> QED
    BY <1>1, <1>2

LEMMA CommitMoves ==
    ASSUME IInv, NEW p \in Processes, Commit(p)
    PROVE  IInv'
<1> DEFINE q == proc[p]
           e == [Idle EXCEPT !.call = "open",
                             !.at = IF q.call = "open" THEN "has_meta" ELSE "application_id"]
<1>1. q \in Entries /\ TypesOK /\ ProcessOK(p) /\ q.at = "commit"
    BY DEF IInv, TypesOK, Commit
<1>2. lock = {p} /\ q.snapshot = db /\ db \in Databases /\ db.wal
    BY <1>1 DEF TypesOK, ProcessOK, LockHolds, Knows, Statements
<1>3. q.copy.wal /\ q.copy \in Databases /\ Current(q.copy) /\ Evolves(db, q.copy)
    BY <1>1, <1>2, CreatedFile, CreatedIsCurrent, MigratedFile, MigratedIsCurrent DEF ProcessOK, Follows
<1>4. db' = q.copy /\ lock' = {} /\ proc' = [proc EXCEPT ![p] = e] /\ opens' = opens
    BY <1>2 DEF Commit
<1>5. e \in Entries /\ e.at \in {"has_meta", "application_id"} /\ e.app = "none"
  <2> DEFINE r == IF q.call = "open" THEN "has_meta" ELSE "application_id"
  <2>1. Idle.app = "none" /\ "open" \in Calls
    BY DEF Idle, Calls
  <2>2. r \in {"has_meta", "application_id"} /\ r \in Statements \cup Results
    BY DEF Statements
  <2> HIDE DEF r
  <2>3. ASSUME NEW i \in Entries, i.app = "none"
        PROVE  LET g == [i EXCEPT !.call = "open", !.at = r] IN
               g \in Entries /\ g.at = r /\ g.app = "none"
    BY <2>1, <2>2, <2>3, EndedEntry, ZenonT(40)
  <2> QED
    BY <2>1, <2>2, <2>3, IdleEntry DEF r
<1>6. q.copy.app = "repin" /\ q.copy.user = SchemaVersion /\ q.copy.tables # {} /\ q.copy # NoFile
    BY <1>3 DEF Current, Refused
<1>7. TypesOK' /\ proc'[p] = e
    BY <1>1, <1>3, <1>4, <1>5, <1>6 DEF TypesOK
<1>8. ProcessOK(p)'
  <2> HIDE DEF e
  <2> QED
    BY <1>3, <1>4, <1>5, <1>6, <1>7 DEF ProcessOK, Knows, Follows, LockHolds
<1> QED
    BY <1>2, <1>3, <1>4, <1>7, <1>8, OneMoves

LEMMA KeptRecords == ASSUME NEW f \in Databases PROVE [f EXCEPT !.records = f.records] = f
    BY DEF Databases

LEMMA MovedEntry ==
    ASSUME NEW e \in Entries, NEW copy \in Databases, NEW at \in Statements
    PROVE  LET g == [e EXCEPT !.copy = copy, !.at = at] IN
           g.at = at /\ g.call = e.call /\ g.snapshot = e.snapshot /\ g.copy = copy
    BY DEF Entries

LEMMA MigratableFile ==
    ASSUME NEW f \in {NoFile} \cup Databases, Migratable(f)
    PROVE  f \in Databases
    BY DEF Migratable, NoFile, EmptyFile

LEMMA TransactionIInv ==
    ASSUME IInv, NEW p \in Processes,
           \/ CreateSchema(p) \/ StampIdentity(p) \/ CreateJournal(p) \/ ConvertRecords(p)
           \/ LogMigration(p) \/ StampVersion(p)
    PROVE  IInv' /\ db' = db
<1> DEFINE q == proc[p]
           f == proc[p].snapshot
<1>1. q \in Entries /\ TypesOK /\ ProcessOK(p) /\ Running(p)
    BY DEF IInv, TypesOK, Running, Statements, CreateSchema, StampIdentity, CreateJournal,
           ConvertRecords, LogMigration, StampVersion
<1>2. db # NoFile /\ db \in Databases /\ db.wal
    BY <1>1 DEF TypesOK, Running, Statements, ProcessOK, Knows, CreateSchema, StampIdentity, CreateJournal,
           ConvertRecords, LogMigration, StampVersion
<1>3. CASE CreateSchema(p)
  <2>1. p \notin lock /\ q.call = "open" /\ Creatable(db)
    BY <1>1, <1>3 DEF CreateSchema, ProcessOK, Knows, Follows, LockHolds
  <2>2. Created(db) \in Databases
    BY <1>2, CreatedFile
  <2>3. Begins(p, ~ SchemaTables \subseteq db.tables, Created(db), "stamp")
    BY <1>3 DEF CreateSchema, Created
  <2> QED
    BY <1>2, <2>1, <2>2, <2>3, BeginMoves
<1>4. CASE CreateJournal(p)
  <2>1. p \notin lock /\ q.call = "migrate" /\ Migratable(db)
    BY <1>1, <1>4 DEF CreateJournal, ProcessOK, Knows, Follows, LockHolds
  <2>2. Journaled(db) \in Databases
    BY <1>2, JournaledFile
  <2>3. Begins(p, "migration_journal" \notin db.tables, Journaled(db), "convert")
    BY <1>4 DEF CreateJournal, Journaled
  <2> QED
    BY <1>2, <2>1, <2>2, <2>3, BeginMoves
<1>5. CASE StampIdentity(p)
  <2>1. q.call = "open" /\ Creatable(f) /\ q.copy = Created(f) /\ q.at = "stamp"
    BY <1>1, <1>5 DEF StampIdentity, ProcessOK, Follows
  <2>2. f \in Databases
    BY <1>1, <2>1 DEF Entries, Creatable, Current, Databases, Empty, EmptyFile, NoRecords, Unreadable, NoFile
  <2>3. Stamped(f) \in Databases /\ Writes(p, Stamped(f), "commit")
    BY <1>5, <2>1, <2>2, CreatedFile DEF StampIdentity, Stamped
  <2>4. Follows([q EXCEPT !.copy = Stamped(f), !.at = "commit"])
    BY <1>1, <2>1, <2>3, MovedEntry DEF Follows
  <2> QED
    BY <1>1, <2>1, <2>3, <2>4, WriteMoves
<1>6. CASE ConvertRecords(p)
  <2>1. q.call = "migrate" /\ Migratable(f) /\ q.copy = Journaled(f) /\ q.at = "convert"
    BY <1>1, <1>6 DEF ConvertRecords, ProcessOK, Follows
  <2>2. f \in Databases
    BY <1>1, <2>1, MigratableFile DEF Entries
  <2>3. /\ q.copy \in Databases /\ q.copy.records = f.records
        /\ q.copy.tables = f.tables \cup {"migration_journal"}
    BY <2>1, <2>2, JournaledFile
  <2>4. CASE "meta" \in q.copy.tables /\ q.copy.records = NoRecords
    <3>1. q.copy = Converted(f) /\ Convertible(f)
      BY <2>1, <2>2, <2>3, <2>4, KeptRecords DEF Converted, Convertible
    <3>2. Goto(p, "log") /\ UNCHANGED <<db, lock, opens>>
      BY <1>6, <2>4 DEF ConvertRecords, NoRecords, Unreadable
    <3> DEFINE e == [q EXCEPT !.at = "log"]
    <3>3. e \in Entries /\ e.at = "log" /\ e.call = q.call /\ e.snapshot = f /\ e.copy = q.copy
      BY <1>1 DEF Entries, Statements
    <3>4. Follows(e)
      <4> HIDE DEF e
      <4> QED
        BY <2>1, <3>1, <3>3 DEF Follows
    <3>5. (lock = {p} /\ f = db) \/ p \notin lock
      BY <1>1 DEF TypesOK, ProcessOK, LockHolds
    <3> QED
      BY <1>2, <3>2, <3>3, <3>4, <3>5, TransactionMoves DEF Goto
  <2>5. CASE "meta" \in q.copy.tables /\ q.copy.records = 1
    <3>1. Convertible(f)
      BY <2>1, <2>3, <2>5 DEF Convertible
    <3>2. [q.copy EXCEPT !.records = SchemaVersion] = Converted(f)
      BY <2>1, <2>3, <2>5 DEF Converted, NoRecords
    <3>3. Converted(f) \in Databases /\ Writes(p, Converted(f), "log")
      BY <1>6, <2>2, <2>5, <3>2, ConvertedFile DEF ConvertRecords, NoRecords, Unreadable
    <3>4. Follows([q EXCEPT !.copy = Converted(f), !.at = "log"])
      BY <1>1, <2>1, <3>1, <3>3, MovedEntry DEF Follows
    <3> QED
      BY <1>1, <2>1, <3>3, <3>4, WriteMoves
  <2>6. CASE "meta" \notin q.copy.tables
    BY <1>1, <1>6, <2>6, CallEnds DEF ConvertRecords, Results
  <2>7. CASE "meta" \in q.copy.tables /\ q.copy.records \in {2, 3, Unreadable}
    <3>1. q.copy.records # NoRecords /\ q.copy.records # 1
      BY <2>7 DEF NoRecords, Unreadable
    <3>2. Ends(p, "corrupt")
      BY <1>6, <2>7, <3>1 DEF ConvertRecords
    <3> QED
      BY <1>1, <3>2, CallEnds DEF Results
  <2>8. q.copy.records \in {NoRecords, 1, 2, 3, Unreadable}
    <3>1. q.copy.records \in 0 .. 4
      BY <2>3 DEF Databases, NoRecords, Unreadable
    <3> QED
      BY <3>1 DEF NoRecords, Unreadable
  <2> QED
    BY <2>4, <2>5, <2>6, <2>7, <2>8
<1>7. CASE LogMigration(p)
  <2>1. q.call = "migrate" /\ Convertible(f) /\ q.copy = Converted(f) /\ q.at = "log"
    BY <1>1, <1>7 DEF LogMigration, ProcessOK, Follows
  <2>2. f \in Databases
    BY <1>1, <2>1, MigratableFile DEF Entries, Convertible
  <2>3. f.journal < MaxJournal
    BY <1>7, <2>1, <2>2, ConvertedFile DEF LogMigration
  <2>4. Logged(f) \in Databases /\ Writes(p, Logged(f), "version")
    BY <1>7, <2>1, <2>2, <2>3, MigratedFile DEF LogMigration, Logged
  <2>5. Follows([q EXCEPT !.copy = Logged(f), !.at = "version"])
    BY <1>1, <2>1, <2>3, <2>4, MovedEntry DEF Follows
  <2> QED
    BY <1>1, <2>1, <2>4, <2>5, WriteMoves
<1>8. CASE StampVersion(p)
  <2>1. /\ q.call = "migrate" /\ Convertible(f) /\ q.copy = Logged(f) /\ q.at = "version"
        /\ f.journal < MaxJournal
    BY <1>1, <1>8 DEF StampVersion, ProcessOK, Follows
  <2>2. f \in Databases
    BY <1>1, <2>1, MigratableFile DEF Entries, Convertible
  <2>3. Migrated(f) \in Databases /\ Writes(p, Migrated(f), "commit")
    BY <1>8, <2>1, <2>2, MigratedFile DEF StampVersion, Migrated
  <2>4. Follows([q EXCEPT !.copy = Migrated(f), !.at = "commit"])
    BY <1>1, <2>1, <2>3, MovedEntry DEF Follows
  <2> QED
    BY <1>1, <2>1, <2>3, <2>4, WriteMoves
<1> QED
    BY <1>3, <1>4, <1>5, <1>6, <1>7, <1>8

-----------------------------------------------------------------------------
(* What an opened store does, and the ends of calls.                       *)

LEMMA OtherIInv ==
    ASSUME IInv, NEW p \in Processes,
           \/ \E call \in Calls : Connect(p, call)
           \/ Configure(p)
           \/ IndexRecordsVersions(p) \/ StatementFails(p) \/ RecordsFail(p) \/ Closes(p)
    PROVE  IInv'
<1> DEFINE q == proc[p]
<1>1. q \in Entries /\ TypesOK /\ ProcessOK(p)
    BY DEF IInv, TypesOK
<1>2. ASSUME NEW call \in Calls, Connect(p, call)
      PROVE  IInv'
  <2> DEFINE e == [q EXCEPT !.call = call, !.at = "configure"]
  <2>1. e \in Entries /\ e.at = "configure"
    BY <1>1 DEF Entries, Statements
  <2>2. proc' = [proc EXCEPT ![p] = e] /\ lock' = lock /\ db' = (IF db = NoFile THEN EmptyFile ELSE db)
    BY <1>1, <1>2 DEF Connect, TypesOK
  <2>3. opens' \in 0 .. MaxOpens
    <3>1. opens' = opens + 1 /\ opens < MaxOpens
      BY <1>2 DEF Connect
    <3>2. opens \in 0 .. MaxOpens
      BY <1>1 DEF TypesOK
    <3> QED
      BY <3>1, <3>2, BoundsAssumption
  <2>4. EmptyFile \in Databases /\ EmptyFile # NoFile /\ EmptyFile.tables = {} /\ Empty(EmptyFile)
    BY BoundsAssumption DEF Empty, EmptyFile, NoFile, Databases, NoRecords, Unreadable
  <2>5. TypesOK' /\ proc'[p] = e
    BY <1>1, <2>1, <2>2, <2>3, <2>4 DEF TypesOK
  <2>6. p \notin lock
    BY <1>1, <1>2 DEF Connect, ProcessOK, LockHolds
  <2>7. ProcessOK(p)'
    <3> HIDE DEF e
    <3> QED
      BY <2>1, <2>2, <2>4, <2>5, <2>6 DEF ProcessOK, Knows, Follows, LockHolds
  <2>8. Evolves(db, db')
    BY <2>2 DEF Evolves
  <2>9. \A r \in lock : db # NoFile
    BY <1>1 DEF IInv, TypesOK, ProcessOK, Knows, LockHolds
  <2> QED
    BY <1>1, <2>2, <2>5, <2>7, <2>8, <2>9, OneMoves DEF TypesOK
<1>3. CASE IndexRecordsVersions(p)
  <2> DEFINE g == [db EXCEPT !.records = SchemaVersion]
  <2>1. Identified(db) /\ db \in Databases /\ lock = {} /\ q.at \in {"opened", "unchecked"}
    BY <1>1, <1>3, CurrentIsIdentified DEF IndexRecordsVersions, HasOpen, ProcessOK, Knows, TypesOK
  <2>2. g \in Databases /\ Current(g) /\ Evolves(db, g) /\ g.tables = db.tables
    BY <2>1, RecordedIsCurrent DEF Databases
  <2>3. db.tables # {} /\ g # NoFile /\ Identified(g)
    BY <2>1, <2>2, CurrentIsIdentified DEF Identified, Current
  <2>4. db' = g /\ UNCHANGED <<lock, proc, opens>>
    BY <1>3 DEF IndexRecordsVersions
  <2>5. TypesOK'
    BY <1>1, <2>1, <2>2, <2>3, <2>4 DEF TypesOK
  <2>6. ProcessOK(p)'
    <3> HIDE DEF g
    <3> QED
      BY <1>1, <2>1, <2>2, <2>3, <2>4 DEF ProcessOK, Knows, Follows, LockHolds, Statements
  <2> QED
    BY <2>1, <2>2, <2>4, <2>5, <2>6, OneMoves
<1>4. CASE StatementFails(p) \/ RecordsFail(p)
    BY <1>1, <1>4, CallEnds DEF StatementFails, RecordsFail, Results, Running, Statements, ProcessOK, Knows, Identified
<1>6. CASE Configure(p)
  <2> DEFINE e == [q EXCEPT !.at = "application_id"]
             g == [db EXCEPT !.wal = TRUE]
  <2>1. e \in Entries /\ e.at = "application_id"
    BY <1>1 DEF Entries, Statements
  <2>2. proc' = [proc EXCEPT ![p] = e] /\ db' = g /\ UNCHANGED <<lock, opens>> /\ q.at = "configure"
    BY <1>6 DEF Configure, Goto
  <2>3. db # NoFile /\ db \in Databases /\ p \notin lock
    BY <1>1, <2>2 DEF TypesOK, ProcessOK, Knows, LockHolds
  <2>4. g \in Databases /\ g # NoFile /\ g.wal /\ g.tables = db.tables /\ (Empty(db) => Empty(g))
        /\ (db.wal => g = db)
    BY <2>3, Switched
  <2> HIDE DEF g
  <2>5. TypesOK' /\ proc'[p] = e
    BY <1>1, <2>1, <2>2, <2>3, <2>4 DEF TypesOK
  <2>6. ProcessOK(p)'
    <3> HIDE DEF e
    <3> QED
      BY <2>1, <2>2, <2>3, <2>4, <2>5 DEF ProcessOK, Knows, Follows, LockHolds
  <2>7. Evolves(db, db')
    BY <2>2, <2>3 DEF Evolves, g
  <2>8. ASSUME NEW r \in lock
        PROVE  db' = db
    <3>1. ProcessOK(r)
      BY <1>1, <2>8 DEF IInv, TypesOK
    <3> QED
      BY <2>2, <2>4, <2>8, <3>1 DEF ProcessOK, Knows, LockHolds, Statements
  <2> QED
    BY <1>1, <2>2, <2>5, <2>6, <2>7, <2>8, OneMoves DEF TypesOK
<1>5. CASE Closes(p)
  <2>1. proc' = [proc EXCEPT ![p] = Idle] /\ lock' = lock \ {p} /\ UNCHANGED <<db, opens>>
    BY <1>5 DEF Closes
  <2>2. TypesOK' /\ proc'[p] = Idle
    BY <1>1, <2>1, IdleEntry DEF TypesOK
  <2>3. ProcessOK(p)'
    BY <2>1, <2>2 DEF ProcessOK, Knows, Follows, LockHolds, Idle, Statements
  <2> QED
    BY <1>1, <2>1, <2>2, <2>3, OneMoves DEF TypesOK, Evolves
<1> QED
    BY <1>2, <1>3, <1>4, <1>5, <1>6

LEMMA StepIInv == IInv /\ [Next]_vars => IInv'
<1> SUFFICES ASSUME IInv, [Next]_vars PROVE IInv'
    OBVIOUS
<1>1. CASE UNCHANGED vars
    BY <1>1 DEF vars, IInv, TypesOK, ProcessOK, Knows, Follows, LockHolds
<1>2. ASSUME NEW p \in Processes, Step(p)
      PROVE  IInv'
  <2>1. CASE Commit(p)
    BY <2>1, CommitMoves
  <2>2. CASE ~ Commit(p)
    BY <1>2, <2>2, ReadIInv, TransactionIInv, OtherIInv DEF Step
  <2> QED
    BY <2>1, <2>2
<1> QED
    BY <1>1, <1>2 DEF Next

LEMMA Invariance == Spec => []IInv
    BY InitIInv, StepIInv, PTL DEF Spec

-----------------------------------------------------------------------------
\* Every variable stays in its range, and the write lock has one holder.
THEOREM TypeCorrect == Spec => []TypeOK
<1>1. TypesOK => TypeOK
  <2> SUFFICES ASSUME TypesOK PROVE TypeOK
    OBVIOUS
  <2>1. CASE lock = {}
    <3>1. Cardinality(lock) = 0
      BY <2>1, FS_EmptySet
    <3> QED
      BY <3>1 DEF TypesOK, TypeOK, Entries
  <2>2. CASE \E p \in Processes : lock = {p}
    <3>1. Cardinality(lock) = 1
      BY <2>2, FS_Singleton
    <3> QED
      BY <3>1 DEF TypesOK, TypeOK, Entries
  <2> QED
    BY <2>1, <2>2 DEF TypesOK
<1> QED
    BY <1>1, Invariance, PTL DEF IInv

\* A store that is open is current, or, when its records could not be queried,
\* has the identity of a current one, whatever other processes create, migrate
\* or give up meanwhile (sqlite.rs open, classify_or_initialize,
\* validate_version_records).
THEOREM OpenMeansCurrent == Spec => []OpenStoresAreCurrent
<1>1. IInv => OpenStoresAreCurrent
    BY DEF IInv, ProcessOK, Knows, OpenStoresAreCurrent
<1> QED
    BY <1>1, Invariance, PTL

\* What a step can make of the committed file.
LEMMA FileSteps ==
    ASSUME IInv, [Next]_vars
    PROVE  \/ db' = db
           \/ db = NoFile
           \/ db' = [db EXCEPT !.wal = TRUE]
           \/ Current(db)
           \/ Empty(db)
           \/ Convertible(db) /\ db \in Databases /\ db' = Migrated(db)
           \/ /\ Identified(db) /\ \E p \in Processes : proc[p].at = "unchecked"
              /\ db' = [db EXCEPT !.records = SchemaVersion]
<1>1. CASE UNCHANGED vars
    BY <1>1 DEF vars
<1>2. ASSUME NEW p \in Processes, Commit(p)
      PROVE  \/ Creatable(db)
             \/ Convertible(db) /\ db \in Databases /\ db' = Migrated(db)
    BY <1>2, MigratableFile DEF Commit, IInv, TypesOK, ProcessOK, Follows, LockHolds, Convertible
<1>3. ASSUME NEW p \in Processes, IndexRecordsVersions(p)
      PROVE  \/ Current(db)
             \/ Identified(db) /\ proc[p].at = "unchecked" /\ db' = [db EXCEPT !.records = SchemaVersion]
    BY <1>3 DEF IndexRecordsVersions, HasOpen, IInv, ProcessOK, Knows
<1>4. ASSUME NEW p \in Processes, Step(p), ~ Commit(p), ~ IndexRecordsVersions(p)
      PROVE  db' = db \/ db = NoFile \/ db' = [db EXCEPT !.wal = TRUE]
  <2>1. CASE (\E call \in Calls : Connect(p, call)) \/ Configure(p)
    BY <2>1 DEF Connect, Configure
  <2>2. CASE \/ ReadApplicationId(p) \/ ReadUserVersion(p) \/ ReadTables(p) \/ Inspected(p)
             \/ ChooseMigration(p) \/ ReadHasMeta(p) \/ ReadRecords(p) \/ Agree(p)
    BY <2>2, ReadIInv
  <2>3. CASE \/ CreateSchema(p) \/ StampIdentity(p) \/ CreateJournal(p) \/ ConvertRecords(p)
             \/ LogMigration(p) \/ StampVersion(p)
    BY <2>3, TransactionIInv
  <2>4. CASE StatementFails(p) \/ RecordsFail(p) \/ Closes(p)
    BY <2>4 DEF StatementFails, RecordsFail, Closes, Ends
  <2> QED
    BY <1>4, <2>1, <2>2, <2>3, <2>4 DEF Step
<1> QED
    BY <1>1, <1>2, <1>3, <1>4 DEF Next, Creatable

\* What a file that has to be refused contains is changed by no interleaving of
\* calls; the header's WAL mode is, and its records by a process that has it
\* open because it could not query them (sqlite.rs configure_connection,
\* classify_or_initialize, migrate, validate_version_records).
THEOREM RefusedKeepsItsContents == Spec => RefusedFilesKeepTheirContents
<1>1. IInv /\ [Next]_vars =>
        [Refused(db) =>
          \/ db' \in {db, [db EXCEPT !.wal = TRUE]}
          \/ /\ Identified(db) /\ \E p \in Processes : proc[p].at = "unchecked"
             /\ db' = [db EXCEPT !.records = SchemaVersion]]_vars
  <2>1. ASSUME Convertible(db)
        PROVE  ~ Refused(db)
    BY <2>1 DEF Convertible, Migratable, Current, Refused, NoRecords, SchemaVersion
  <2> QED
    BY <2>1, FileSteps DEF Current, Refused
<1> QED
    BY <1>1, Invariance, PTL DEF Spec, RefusedFilesKeepTheirContents

\* A store of release 1 is converted, logged and stamped in one step or not at
\* all (sqlite.rs migrate_v1_to_v2).
THEOREM MigratedAtOnce == Spec => MigrationIsWhole
<1>1. IInv /\ [Next]_vars =>
        [db # NoFile /\ db.user = 1 =>
          db' \in {db, [db EXCEPT !.wal = TRUE],
                   [db EXCEPT !.user = SchemaVersion,
                              !.tables = @ \cup {"migration_journal"},
                              !.records = IF @ = NoRecords THEN @ ELSE SchemaVersion,
                              !.journal = @ + 1]}]_vars
  <2> SUFFICES ASSUME IInv, Next, db # NoFile, db.user = 1
               PROVE  db' \in {db, [db EXCEPT !.wal = TRUE],
                               [db EXCEPT !.user = SchemaVersion,
                                  !.tables = @ \cup {"migration_journal"},
                                  !.records = IF @ = NoRecords THEN @ ELSE SchemaVersion,
                                  !.journal = @ + 1]}
    OBVIOUS
  <2>1. ~ Current(db) /\ ~ Empty(db) /\ ~ Identified(db)
    BY DEF Current, Identified, SchemaVersion, Empty, EmptyFile
  <2>2. db' \in {db, [db EXCEPT !.wal = TRUE]} \/ (Convertible(db) /\ db \in Databases /\ db' = Migrated(db))
    BY <2>1, FileSteps
  <2>3. ASSUME NEW f \in Databases
        PROVE  Migrated(f) = [f EXCEPT !.user = SchemaVersion,
                                       !.tables = @ \cup {"migration_journal"},
                                       !.records = IF @ = NoRecords THEN @ ELSE SchemaVersion,
                                       !.journal = @ + 1]
    BY <2>3 DEF Migrated, Logged, Converted, Journaled, Databases
  <2> QED
    BY <2>2, <2>3
<1> QED
    BY <1>1, Invariance, PTL DEF Spec, MigrationIsWhole
=============================================================================
