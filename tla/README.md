# Verification of repin

This directory holds TLA+ models of the parts of repin that keep state, the TLC
configurations that check them on small instances, and TLAPS proofs about them
for every instance. Paths below are relative to the repository.

## 1. The system

repin is a code-graph service. A per-user daemon hosts one *context* for each
project; clients (the CLI) connect over a Unix socket, negotiate a protocol, bind
to a project and send requests. The project's graph lives in
`.repin/graph.sqlite3`; a file watcher and the requests of clients keep it in step
with the working tree.

| Part | State it keeps | Operations | Correct when |
|---|---|---|---|
| Context registry (`repin/src/daemon/registry.rs`, `context_handle.rs`, `lease.rs`) | entries by database path, detach stamps, reference counts, closed flags, database identities, writer leases | get or load, publish created, attached count, mark detached, reap idle, unload | one open context per path; one owner per writer lock; only idle contexts are evicted |
| Connection threads, project state (`server.rs`, `state.rs`) | what each connection is bound to; `.repin`, its database and its lock file | handshake, initialize, uninitialize, guarded requests, disconnect | every request is answered; state is not removed under a client; writes go to the file that is there |
| Graph store (`repin-store-sqlite`) | claims, revision, the open transaction | begin, expect revision, put, remove, clear, commit, rollback, reads | committed revisions are whole operations; threads do not meet in a transaction |
| Indexing coordinator (`repin-indexing`, `repin-runtime/src/engine.rs`) | none of its own: plans between a read and a commit | update a file, remove a file, walk, rebuild, resolve, synchronise with git | the graph follows the tree, whatever the interleaving |
| Watcher (`watcher.rs`) | pending paths, closed flag | collect events, drain after the debounce interval | no change is forgotten while it is the only writer |
| Version invalidation (`coordinator.rs`, `versions.rs`, `engine.rs`) | version records, claims by owner | plan scopes, apply each, index again | what a new release replaces is replaced whole, wherever a pass is cut off |
| Daemon rendezvous and exit (`server.rs`, `lease.rs`, `cli/client.rs`) | singleton lock, socket, running flag, connection count | start, negotiate, replace, shut down, drain, exit when idle | one daemon at a time; the socket leads to it; nobody waits for ever |
| Store opening, migration (`sqlite.rs`, `schema.rs`) | application id, schema version, tables, records, journal | inspect, open, initialise, migrate | newer and foreign files keep their contents; what opens is current; a migration is whole |
| Lexical index (`fts5.rs`) | lexical rows beside node claims | insert, delete, rebuild | rows match the nodes |
| Language packs (`repin-packs`) | the walk's stacks and counters | extract the facts of one file | identities do not collide; containment is that of the file |
| Retrieval (`traversal.rs`) | a queue and what it has met | impact and path queries | what is answered was in the graph, once, at its distance or in its order |
| Context assembly, configuration, line index, match previews | none | functions of their inputs | budgets, precedence, positions |
| Models, CLI output, install and update, inspection | none that is shared | calls to outside processes, printing | not modelled, see section 8 |

How they interact: an accept loop starts a thread per connection; those threads
and the loop share the registry behind one mutex (`entries`). A context is an
`Arc` that the registry and the bound threads hold; when the last one goes, its
store is closed and its lease released. Inside a context, the connection threads
and the watcher thread share one SQLite connection behind a mutex that is held
for one statement at a time. Other processes meet the daemon only through the file
system: the lock file, the database file, the directory.

What is hard is therefore concurrency on three levels (registry, shared
connection, file system), together with daemon deaths, failed steps and a tree
that changes while it is read. PROJECT.json lists each such hazard at its line
with the properties that cover it, or why none does yet.

## 2. Modules

| Module | Models |
|---|---|
| `ContextRegistry` | contexts, entries, leases, identities and the files; each registry method as an action |
| `ProjectLifecycle` | extends it with the connection threads and their requests, one step per registry call or file-system access |
| `WatcherShutdown` | how a context is dropped, field by field, and how its watcher thread ends |
| `RevisionedGraph` | abstract store: a graph and a revision, changed by whole operations |
| `GraphStore` | the SQLite store with one shared connection |
| `GraphUpdates` | extends it with the writers, request threads and watcher; implements `RevisionedGraph` |
| `VersionInvalidation` | claim rows by owner, version records, lexical rows; upgrades and the passes that follow them |
| `DaemonSingleton` | abstract election: one process in office, who alone accepts |
| `DaemonLifetime` | daemon processes, socket, connection threads and commands; implements `DaemonSingleton` |
| `StoreOpening` | classification, creation and migration of the database file, a statement at a time |
| `FactBuilder` | what all packs share: identities, discriminators, the two stacks, the facts |
| `RustPack` `TsPack` `PyPack` `ProsePack` `GoPack` `CPack` `CppPack` `JavaPack` `CSharpPack` | one language pack each |
| `Extraction` | chooses the pack for a file and walks the file |
| `Traversal` | impact and path queries, one read at a time |
| `LineIndex` | offsets and positions through checkpoints; the lines a preview is cut from |
| `ContextAssembly` | the two ways to keep to a budget |
| `Ascending` | a set of numbers in order, for the two modules above |
| `Configuration` | layers, merging, validation, providers |
| `MC...` | instances for TLC; `MCQueries` composes the four query modules |
| `...Proofs` | proofs about the module of that name; `ProjectLifecycleProofs` has those about `ContextRegistry` too, `QueryProofs` those about the query modules and their inputs in `MCQueries` |

### Project lifecycle

`ctx` holds the contexts alive. Inodes are numbers, and 0 is "no file":
`dbFile` and `lockFile` say which inode is at the path, `ctx[c].store` which the
context has open, `ctx[c].identity` which it recorded. A context's `lease` is the
inode it has locked. Arc counting is exact: `AfterDrops` drops a context, and its
lease, when neither the registry, nor a bound thread, nor the thread opening it
refers to it. `opening` stands for the `entries` mutex during an open, which is
the only operation that does file-system work under it and therefore takes several
steps; the other registry methods are one step.

`pc` and `req` say where each connection thread is. A handshake is one step up to
the eviction of a stale entry, then takes the lease, opens the store, reads the
identity and publishes. `InitializeProject` checks, takes the lease, creates the
database, publishes. `UninitializeProject` checks, unloads, removes. The identity
guard, the release of a stale context and the unloading of its path are separate
steps, and so are the release of a context at the end of a connection and
`mark_detached`. Another process may lock or unlock the lock file, remove `.repin`
or replace the database, and the daemon may die, at any step. `SqliteStore::open` may
fail too: the engine then goes on without a store (`OpenWithoutStore`), and the
context is published all the same.

A write request is only an interval (`WriteBegins`, `WriteEnds`): what it writes is
the other model's subject. Writes are not guarded by `is_writer`, because
`dispatch_project_request` does not ask: an observer's writes go through, where
docs/code/runtime.md section 6 says they return `PROJECT_LEASE_UNAVAILABLE`.

### Graph updates

A file's claims are reduced to the content they came from and one reference to a
name that another file (`Target[f]`) defines: the reference is in `unresolved` or
in `edges`. `tx` is the transaction open on the connection; `VisibleGraph` is what
any reader sees, which is the uncommitted state whenever some thread has a
transaction open. A second `BEGIN` fails (`BeginFails`).

`pc` and `job` say where each thread is. Request threads run IndexAll (UpdateFiles
is the same call), Rebuild or SyncVcs; the watcher drains its pending set. Each job
is a sequence of coordinator operations, and each operation is: read the snapshot,
read the base revision, begin, expect the revision (with one retry for a file),
remove, put, commit. `resolve_existing` reads its plan before it begins. A failure
may happen at any point of a transaction, the daemon may die at any point, and
`Edit` changes a file at any point.

Statements that put claims are one step, as are the look-ups of one resolve; a
reader between two of them would see a part of a file's claims, which the
properties do not tell apart from the state after the deletion.

### The end of a context

`ContextRegistry` drops a context in one step. `WatcherShutdown` takes the step
apart: `ctx[c].life` says how far the drop of its fields is, first the lease
(`ReleaseLease`), then the watcher's message (`Signal`) and the wait for its thread
(`Join`), while `watcher[c]` goes on through the loop of watcher.rs: the look at
`closed`, `select!`, the debounced drain with a look at `closed` before each path.
Whoever gives up the last reference drops: a connection without any lock, the
registry with `entries` held, the loop when it ends. Each client shakes hands
once, `InitializeProject` is the handshake after a `Create`, and
a lease that a creator holds before its context does is left to `ProjectLifecycle`.

### Daemons and commands

`phase[d]` is where a daemon process is: before the lock, bound, at the top of its
accept loop, between the two reads of the idle test, closing, draining, released,
gone. `thread[d][c]` is client c's connection as the daemon sees it, from the
listener's queue on. A connection is counted from accept to the end of its thread, and
the idle test asks the registry first and the counter in a later step, so a connection
thread may activate a project between the two. `contexts` stands for the registry. A
command connects, spawns one candidate if nobody listens, and tries again; `stop`
sends Shutdown, polls the socket path and removes it; `replace` comes with another
protocol version. A bootstrap deadline can expire and a process can crash (`faults`).

### Versions

A step of `VersionInvalidation` is a transaction, because `GraphUpdates` has what
happens inside one. Rows carry their owner: file, producer, version of the producer.
IndexAll reads the records once (`BeginIndexAll`), applies a scope per part that
differs (`Scope`), visits files (`Visit`), resolves (`Resolve`); a registry in the
plan makes it rebuild instead. Updates of single files, a rebuild of the lexical
index, changes on disk, `Upgrade` to another release and `Stop` come between any two
of these. A file may fail to be read, which a pass ignores and an update takes for a
removal, or to be extracted, which takes its claims in both (`VisitFails`,
`UpdateRemoves`). A pack of version 0 is not shipped, so that releases add and remove
packs.

### Opening a store

Each process is at a statement of `classify_or_initialize`, `migrate_v1_to_v2`,
`validate_version_records` or the inspection, with what it has read. The first is
`configure_connection`, which switches any file to WAL (`Configure`). Any statement may
fail and end the call (`StatementFails`), except the query of the version records,
whose failure the code takes for a store without records: the store is open, but
`"unchecked"` (`RecordsFail`). A transaction
is deferred: its first statement takes a snapshot, its first write the lock, which
is refused when the snapshot is not the last committed state any more. `Init` chooses
any file a disk may hold: none, empty, of another program, of release 1, current,
newer, with tables or records missing or unreadable.

### Language packs

The text of a file is not modelled. What a walk meets next is any syntax the
grammar allows at that place, so a behaviour is the walk of one file and the
behaviours are the walks of all files up to `MaxFacts`. Each pack says which
declarations it visits, which kind of node, edge and references each one makes, what
goes on the container chain and on the stack of parents, and where the walk looks
next. A node's identity is the tuple that the code hashes. Doc comments, attributes,
ranges and the spelling of names are left out; a name with `::` or `.` counts as one.

### Queries

`Traversal` reads through a view that is the shared connection without a
transaction, so each call is a step and a writer may change rows between two calls:
the look-ups of start and target, the edges of a node, the row of a node. A call that
fails counts as one that found nothing. A path that has arrived is traced a node at a
time (`ReadSegment`): a node without a row is left out, together with the edge that
leaves it. A trace in `answer` has those segments, and in `path` the edges of the
queued path it was made from, which the code does not return and the properties compare
it with.

The checkpoints of `LineIndex` are set where `compute_checkpoints` looks for a boundary
(`Looked`): before every scalar and every invalid run, but not before a run that follows
a valid scalar. `PreviewSpan` is the lines a match touches; the code trims and
redacts their text before it answers, and that part is not modelled.

`LineIndex`, `ContextAssembly` and `Configuration` are operators; `MCQueries` makes
their inputs state: a text grows byte by byte, a context and a pair of configuration
layers are chosen, and the properties are about the input that was chosen.

## 3. Runs

| Run | Instance | Checks | States |
|---|---|---|---|
| `LifecycleFaults` | 2 connections, 1 project, 1 fault (lock by another process, removal, replacement, a store that does not open, or death) | `TypeOK`, `LeaseExclusive`, `OpenContextIsRegistered`, `WriteKeepsLease` | 1 031 895 |
| `LifecycleConfigs` | 2 connections, 1 project, a timed and a persistent configuration | `StampedEntryIsDetached`, `EvictionHasCause` | 655 995 |
| `LifecycleLiveness` | 2 connections, 1 project, fairness | `RequestsComplete`, `DetachedContextUnloads` | 140 874 |
| `WatcherShutdown` | 2 connections, 3 contexts, state directory made twice, fairness | `OneWatcherOfADatabase`, `NoWatcherIsForgotten`, `EntriesComeFree` | 118 981 |
| `UpdatesSafety` | 2 files, watcher and 1 client, 3 edits, 1 request, 1 failure | `TypeOK`, `OwnTransaction`, `ReferencesAccounted`, `Revisioned` | 2 076 436 |
| `UpdatesWatcher` | 2 files, watcher alone, 3 edits, fairness | `WatcherConverges` | 2 275 |
| `VersionChanges` | 2 files of 2 packs that refer to each other, 2 releases, 1 change on disk, any failures to read or extract | `LexicalMatchesClaims`, `OneVersionOfAFile`, `PassReplacesWhatItPlanned`, `PassGivesBack` | 1 097 521 |
| `DaemonTerms` | 3 daemons, 2 commands of any kind, 1 fault, fairness | `TypeOK`, `SocketNamesTheHolder`, `ElectsOneDaemon`, `IdleExitSparesClients`, `StopIsObeyed`, `NobodyWaitsForever` | 34 012 |
| `StoreOpening` | 3 processes, 3 calls, any file | `TypeOK`, `OpenStoresAreCurrent`, `RefusedFilesKeepTheirContents`, `MigrationIsWhole` | 136 471 |
| `Extraction` | 9 packs, 2 names and a builtin, 5 facts, nesting 2 | `OrdinalsTellApart`, `ChainsNameTheContainers` | 1 271 029 |
| `Queries` | 4 nodes and 6 edges, 1 write, 1 read that fails; texts of 5 bytes; contexts of 3 nodes; 2 layers | `ImpactIsTheBall`, `PathsAreTheSimplePaths`, `AnswersWereRead`, `PositionsAreScalarPositions`, `PreviewSpansHoldTheMatch`, `BudgetedContextsAgree`, `LayersHavePrecedence`, `ProjectsNameNoKeys` | 2 153 938 |
| `RecordsTellTheTruth` | as `VersionChanges` | a statement of ADR-024 that the code violates, see section 5 | |

What the properties mean:

- `LeaseExclusive`: a lock-file inode has one owner among contexts, threads that
  are creating a project and other processes, while leases move from creators to
  contexts, stay with closed contexts, and lock files are deleted and recreated.
- `OpenContextIsRegistered`: an open, published context is the one the registry has
  for its path. Two clients that are both served share a context, and
  `attached_count` misses nobody.
- `StampedEntryIsDetached`: the idle interval of an entry runs only while nobody is
  attached, whichever of `mark_detached` and `reap_idle` stamped it.
- `EvictionHasCause`: a usable context leaves the registry by an unload of its path,
  a death of the process, or, with nobody attached, because its interval ran out or
  another configuration is asked for.
- `WriteKeepsLease`: a write in flight has the same lease from beginning to end,
  whoever closes or evicts its context meanwhile.
- `RequestsComplete`, `DetachedContextUnloads`: each request is answered, failing
  paths included; an entry nobody comes back to is unloaded, even when the last
  client's thread returned early and left no stamp.
- `OwnTransaction`: who issues a statement, COMMIT or ROLLBACK on the shared
  connection is the thread whose transaction is open.
- `ReferencesAccounted`: as long as no transaction has failed, the reference of
  every indexed file is recorded exactly once, as unresolved or as an edge. (A
  transaction that failed may have left its claims in another thread's plan, see
  `PlansComeFromCommittedState`.)
- `Revisioned`: the model implements `RevisionedGraph`. The committed graph moves
  one revision at a time; a step replaces the claims of one file and neither
  touches another file's claims nor loses one of its references, or turns
  references into edges, or starts over with every reference open.
- `WatcherConverges`: once the tree stops changing, the claims of every file are
  those of its content.
- `OneWatcherOfADatabase`: a running watcher has the lease of its database, alone,
  unless the thread that drops its context is already waiting for it.
- `NoWatcherIsForgotten`: a watcher thread runs only while its context is referred to
  or being dropped, however often the path is closed, evicted and opened again.
- `EntriesComeFree`: the registry waits for a watcher with `entries` held, and the
  wait ends.
- `LexicalMatchesClaims`: there is one lexical row for each claimed node and none for
  others. Rows are only ever added by a put, and removed by file, by owner or
  altogether, by three different rules.
- `OneVersionOfAFile`: a file is not claimed by two versions of its pack, and no
  reference is left of a version that is not claimed.
- `PassReplacesWhatItPlanned`, `PassGivesBack`: a pass that ends has removed every
  claim of a version it planned to replace, and has claimed again what it emptied,
  except for files that are gone or failed to be read or extracted meanwhile.
- `ElectsOneDaemon`: the processes implement `DaemonSingleton`, through `elected`,
  `accepting` and `retired` as functions of their phases.
- `SocketNamesTheHolder`: a socket path that reaches a living process reaches the one
  with the lease, though sockets are removed by path and by others.
- `IdleExitSparesClients`: a daemon that leaves its loop on its own has no client that
  it accepted; what is still in its queue sees the stream break.
- `StopIsObeyed`, `NobodyWaitsForever`: a daemon told to stop ends, and a command that
  waits for an answer gets one or loses its stream.
- `OpenStoresAreCurrent`: what a process has opened is and stays a current store,
  whatever others create or migrate; if its records could not be queried, it is at least
  repin's, of this version and with a meta table. `RefusedFilesKeepTheirContents`: a file
  that is to be refused is switched to WAL, and a process that opened it because its
  query of the records failed may write records; nothing else happens to it.
  `MigrationIsWhole`: records, journal and version change in one committed step.
- `OrdinalsTellApart`: the declarations of a file have different identities, and
  namesakes are numbered without a gap, so a declaration added at the end changes no
  other; `ChainsNameTheContainers`: a chain lists the declarations that contain a
  node in the containment tree, outermost first.
- `ImpactIsTheBall`, `PathsAreTheSimplePaths`: in a graph that stands still the answers
  are the nodes at their distance, and the simple paths, each once and traced through
  the nodes that have a row; `AnswersWereRead`: beside a writer, and when reads fail,
  every node and edge answered was in the graph while the query ran, and a trace keeps
  the order of a simple path.
- `PositionsAreScalarPositions`: positions found from a checkpoint are those of a scan
  of the whole line, invalid UTF-8 and every kind of line end included, also from a
  checkpoint that is set late; `PreviewSpansHoldTheMatch`: the bytes a preview is cut
  from, before trimming and redaction, are whole lines and contain the match.
- `BudgetedContextsAgree`: assembling under a budget and packing to it give the same
  context; `LayersHavePrecedence`: the highest layer that sets a value decides it;
  `ProjectsNameNoKeys`: a project's file may pick the provider of a capability, but the
  key used with it is the one the user's file names, for the capability or for that
  provider, or the one built in for that provider.

Every property of a passing run has a mutant in PROJECT.json: a plausible bug in
one definition that makes the run fail. The definitions marked "Wrong" or "Mutant" in
the modules are these bugs; no action uses them.

## 4. Bounds and fairness

Lifecycle: two connections are needed for every race the handlers have (a creator
and a second client, a stale holder and a fresh one, a remover and an attacher); a
third could only repeat a role. Paths are independent, so one project is enough. At
most four contexts live at once: one in the registry or being opened, two bound,
and one to spare. Inode numbers are reused when nothing refers to them, so eight
are never used up. `MaxFaults` bounds events from outside and stores that do not
open: one fault, together with
the removal and recreation that clients cause, reaches every stale state.

Updates: two files with a reference each way give promotion in both directions;
three edits allow create, change and delete, or two versions of one file beside
another file; one client job of any kind runs against the watcher, whose jobs are
not bounded but by the edits. Every edit makes a new content, so that an older
content can be told from a newer one.

Daemons: three processes are an old daemon, its successor and a candidate that loses
to either; two commands make every pair of work, stop and replace. One fault kills
any of them or lets one bootstrap deadline pass. A third command can start a
successor while a stop is still polling, which only `LiveSocketStays` (section 5)
tells apart; the safety properties are proved for any number. Deadlock is not
checked, because commands end and daemons exit.

The end of a context: two connections are one that lets go and one that comes; three
contexts are a registered one, one being dropped and one bound after its eviction.
`MaxDatabases` lets the directory be removed and made again once, so that a watcher
of the first database meets one of the second. One pending path is enough for a
drain that breaks and one that goes on.

Versions: two files that refer to each other, of one pack each, let one pack change
under the other; two releases give a change, its cut-off pass and another change or
the way back; one file comes or goes meanwhile. Any part may change its version, and
failures to read or extract are not bounded.

Stores: three calls by three processes give a creator, a migrator and an observer
of both; `Init` ranges over all files, so no length of history is needed. Extraction:
five facts are three declarations with their edges; names repeat at two levels of
nesting, which is what identities depend on. Queries: the four nodes have a cycle, a
self-loop, parallel edges and two nodes of one name, and queries of depth 3 see all of
them; one write and one failing read meet every read of a query. Five bytes hold a
three-byte scalar or an invalid run across a checkpoint (`Stride` 2) and a line end.
Deadlock is not checked in these three, whose behaviours end with an answer.

Fairness: a thread with a request in hand is scheduled and gets the `entries` mutex
in the end (strong fairness, because other threads take and release it again);
`reap_idle` runs in each turn of the accept loop, at least every 50 ms; the idle
clock runs; the debounce timer fires. Clients, other processes and faults are
under no obligation. The lifecycle liveness run has no fault budget: a run of faults
that never ends would starve any thread.

Daemons and their connection threads are weakly fair, and so are the attempts of a
command and the end of a stop or of a request that succeeded; a bound client that
stays is not obliged to leave (`Finish`), and faults do not have to happen. In
`WatcherShutdown` the drops, the opens and the steps of a watcher are weakly fair:
an update ends, since a statement on the shared connection fails rather than waits
for another thread's transaction. Receiving the shutdown message is strongly fair, as
`select!` picks among ready channels at random; file events, the debounce timer,
eviction and exit need not happen.

Deadlock is checked in the runs that are not named above. When no thread has work,
the update model takes the explicit stuttering step `Waiting`.

## 5. Where the code and its documents differ

Each row names a definition that states what a document or comment says. It is no
property of a passing run; put it into the configuration named in place of the
properties there, as an `INVARIANT` or, if it is temporal (`[][...]`, `~>`), as a
`PROPERTY`, and TLC shows the behaviour. `RecordsTellTheTruth` has a run of its own.
PROJECT.json quotes the documents under "findings".

| Definition (configuration) | What happens |
|---|---|
| `CreationLeaseIsKept` (`LifecycleFaults`, `MaxFaults = 0`) | Thread A takes the lease and creates the database; thread B's handshake finds it, cannot lock it and publishes an observer context; A then reuses B's context and drops its lease. The project has no writer until the context is unloaded. |
| `RemovalSparesAttachedProjects` (`LifecycleFaults`, `MaxFaults = 0`) | A client attaches between the attachment check and the removal. |
| `GuardUnloadsStaleOnly` (`LifecycleFaults`, `MaxFaults = 0`) | A connection that finds its context stale unloads by path, and closes a healthy successor. |
| `WritesReachTheDatabase` (`LifecycleFaults`) | The database is replaced between opening it and reading its identity. |
| `WatcherWritesUnderItsLease`, `OneWatcherWrites` (`WatcherShutdown`) | The lease is dropped before the watcher is told and joined: its update, or a whole drain when the server itself goes, ends without the lease and beside the watcher of a successor. |
| `ConvergenceInvariant` (`UpdatesWatcher`, `MaxEdits = 2`) | The watcher indexes a file whose reference could be resolved at once, and nothing resolves it. |
| `PlansComeFromCommittedState` (`UpdatesSafety`) | A resolve plans on claims of an open transaction that is rolled back later; the revision check passes, and an edge to a file that was never indexed is committed. |
| `ContentNeverGoesBack` (`UpdatesSafety`) | The retry after a conflict commits the old snapshot over newer claims. |
| `LiveSocketStays` (`DaemonTerms` with three clients and `Spec`) | `repin daemon stop` gives up waiting and removes the socket path, which by then is that of a daemon nobody stopped. |
| `ColdStartIsServed` (`DaemonTerms`) | A command's only candidate loses to a daemon that is draining, and nobody is left to serve it. |
| `RecordsTellTheTruth` (its run) | A file is updated after an upgrade, before the first IndexAll; its transaction records the new versions for the whole graph, whose other claims are never planned again. |
| `ResolutionKeepsReferences` (`VersionChanges`) | A new resolver removes the edges of the old one, and the references they were made from are gone. |
| `ChainsAreComplete` (`Extraction`) | Enumerators, Java constants and record components, and C# primary constructor parameters get chains without their own declaration. |
| `ContradictionsAreRefused` (`StoreOpening`) | The query of the version records fails, for whatever reason, and a store whose records contradict its version is opened. |
| `CorruptionIsReal` (`StoreOpening`) | A file that another process is creating is reported as unrecognized. |
| `JournalRowsAreMigrations` (`StoreOpening`) | Two migrations of a store without version records are both logged. |
| `CheckpointsAtEveryStride` (`Queries`) | Before an invalid run that follows a valid scalar no boundary is looked for: with stride 2 two letters, a stray continuation byte and a letter have their checkpoint at byte 3, not 2, and without the last letter none. Positions do not depend on it. |
| `OffsetsInsideScalarsAreRejected` (`Queries`) | Offsets inside a multi-byte scalar or a CRLF get a position. |
| `OneEdgePerStep` (`Queries`) | A node of a path has no row, or the read of its row fails: the trace leaves it out together with the edge that leaves it, and two segments are neighbours that no edge joins. |
| `PathsWereThereAtOnce` (`Queries`, `MaxWrites = 2`, `MaxBytes = 1`) | The edges of one path come from different revisions. |
| `NamesAreUnambiguous` (`Queries`) | A look-up by name takes the first of several nodes. |
| `ProjectsNameNoEndpoints` (`Queries`) | A project's file sets the endpoint of a capability; it is checked for keys and profiles only, and the endpoint replaces the user's. |

`BadUserFilesAreIgnored` (`Queries`) is violated as well: of a user's file that is
refused, the values read before the refusal stay. `RefusedFilesAreNeverWritten`
(`StoreOpening`) is violated by the switch to WAL, before a file is classified. No
document says otherwise of either.

Others were met while reading and need no run:

- no `is_writer` check before requests that write (section 2);
- `UpdateFiles` ignores its list of changes and answers with revision 1;
- `repin db migrate` takes no writer lease (`cli/app.rs:487`, docs/code/storage.md:384);
- `classify_store_error` (`daemon/state.rs:44`) reports an older schema as a newer one;
- `lookup_paths` bounds neither the number of paths nor edge kinds
  (`traversal.rs:194`, docs/code/retrieval.md:139);
- hybrid search drops hits of the vector channel that no other channel found
  (`hybrid.rs:110`, against its comment at line 39);
- inspecting a missing file creates an empty one, which `discovery.rs:21` takes for a
  project;
- whether a daemon is idle enough to be replaced is asked before it is told, so a
  client may attach in between;
- the files of a pack that a release adds wait for the IndexAll after the next;
- `DaemonServer` drops `lease` before `registry` (`server.rs:52`), so the singleton lease
  goes before the contexts are unloaded (docs/code/runtime.md:335 says last);
- the C++ pack is never asked about `.h` files, the C pack comes first; a Rust module
  named `impl...` or `trait...` makes methods of its functions, as a C++ namespace does; a
  mention of a C or C++ struct declares a node of its own.

## 6. Proofs

The proofs hold for any constants that satisfy the assumptions of the modules:
`ConstantsAssumption` and `FaultsAssumption` (the model values for "none" are not
real values, the bounds are natural numbers, persistent configurations are
configurations), `StoreAssumption` and `UpdatesAssumption` (each file refers to
some file, the watcher is no client, the bounds are natural numbers),
`DaemonAssumption` (no daemon is "nobody", the jobs are known ones), `BoundsAssumption`
(bounds are natural numbers), `ShutdownAssumption` (the accept loop is no connection,
and "none" is no thread and no context), `PartsAssumption` (packs and files have the
values that stand for the registry and for no scope apart), `GraphAssumption` (nodes
are natural numbers, each edge has its ends) and `StrideAssumption` (checkpoints are
at least a byte apart).

Lifecycle. `OpenContextIsRegistered` is not inductive: a step may only keep it if
entries lead to contexts of their own path (`EntriesSound`), bound contexts are
alive (`BindingsLive`), and a context being opened is unknown to everyone else
while its path has no entry (`OpeningSound`). Together with `StampedEntryIsDetached`
and the types these form `SharingInv`. The first half of `ProjectLifecycleProofs` shows
of each registry operation that it preserves it, from two facts about the table of
contexts: what closing changes, and what dropping keeps. The second adds that a
thread between two steps of a request knows the request (`RequestsHeld`), goes
through the actions, and derives the theorems:

- `TypeCorrect`, `ServedClientsShareAContext`, `IdleIntervalNeedsNoClient` from the
  invariant;
- `OneWriterPerLock` from it and `LeaseExclusive`, which it makes inductive: a
  context takes a lease nobody holds, or one its creator gives up in the same step;
- `WriteOwnsLeaseToItsEnd` as an action property: no step but the thread's own
  removes its reference, and no step changes the lease of a referenced context
  that is not being opened;
- `NoEvictionWithoutCause`, the action property `EvictionHasCause`. It needs one more
  invariant, `ElapsedIsEvictable`: an interval that has run out belongs to an entry
  whose configuration has one, which holds because a new entry starts unstamped and
  nothing changes the configuration of a registered context. Each registry operation
  is shown to keep entries, configurations and stamps, or to remove entries for a cause.

Updates. The invariant says of every thread what its transaction holds at each
point (`Progress`): right after BEGIN the committed graph and revision; after the
check a base equal to the committed revision; when claims are put, the graph
without the file's claims, an all-open graph for a rebuild, or the graph itself for
a resolve; before COMMIT one whole operation (`OneOperation`) and the next revision.
It is inductive because a transaction is its thread's own: no other thread can
commit between these points. Four lemmas (`OutsideStep`, `BeginStep`, `InsideStep`,
`EndStep`) say what a step of one thread leaves of the others' part, and each action
is an instance of one. From it follow

- `TypeCorrect` and `TransactionsAreNotShared`;
- `StoreIsRevisioned`: every step is a step of `RevisionedGraph` or changes neither
  graph nor revision.

References. `ReferencesStayAccounted` has an invariant of its own, `RInv`, on top of
that one, and it speaks of behaviours in which no transaction has failed. The
difficulty is `resolve_existing`: what it plans to link comes from the shared
connection, and may be claims that another thread has not committed. `PlanSound`
says why a plan that passes the revision check is right all the same. Either its base
is outdated or will be, because some thread is about to commit; or its references
are unresolved in the committed graph; or its base is the revision that the open
transaction is about to commit, and its references are unresolved in that
transaction. `WorkSound` has what the other points need: an update has read a file
that exists, and a transaction's claims are accounted for throughout, also between
the deletion and the put. The assumption that nothing fails is needed: without
it TLC finds a resolve that reads the revision before an update writes and the
references while it is uncommitted; the update rolls back, the revision still
matches, and the resolve commits edges of claims that are not there.

Daemons (`DaemonLifetimeProofs`: `TypeCorrect`, `SocketOfTheHolder`, `Election`,
`IdleExit`). `SocketNamesTheHolder` is not inductive: a process could be in office
without the lease. The invariant adds that being in office and holding the lease are
the same (`OfficeHoldsLease`), that the path names a process which listens, is
closing or is dead (`SocketNamesAListener`), and that a stream has a daemon
which has listened and, while it does, knows the stream (`StreamsReachListeners`). The
refinement follows step by step: a lock taken is `Elect`, a lock refused `Lose`, the
start of the loop `Accept`, the release, or a crash, `Retire`, and every other step a
stutter. `IdleExit` uses the last conjunct: a client whose stream is open and not
queued is counted.

Stores (`StoreOpeningProofs`: `TypeCorrect`, `OpenMeansCurrent`, `RefusedKeepsItsContents`,
`MigratedAtOnce`). Calls decide on what they read some statements ago. The invariant
therefore says for each statement what the file may be by now (`Knows`), what the
transaction has read and would commit (`Follows`), and that its snapshot is the
committed state while it has the lock (`LockHolds`). It is inductive because files
change in few ways only: they appear, are switched to WAL, become current, or have their
records replaced by those of the version they are of (`Evolves`), and every `Knows`
survives each of these. Of a store opened without a look at its records `Identified` is
all that is known, and all that survives.

Watchers (`WatcherShutdownProofs`: `TypeCorrect`, `WatchersExcludeEachOther`,
`NoWatcherOutlivesItsContext`). The invariant says that a context is live exactly
while it is referenced (`ReferencesSound`), that one thread drops each context whose
last reference went (`DropsSound`), that leases are exclusive and the first to go
(`LeasesSound`), that the watcher of a context which is live, or has just been
dropped, has its lease (`WatchersSound`), and that a thread which opens holds the
mutex with no entry in the map (`LoadingSound`). `LetGoSound` shows once, for every
way to give up a reference, that the first four survive.

Versions (`VersionInvalidationProofs`: `LexicalIndexMatches`, `FilesHaveOneVersion`,
`PassesReplace`, `PassesGiveBack`). Every transaction keeps the database `Sound`: the
lexical index matches, a file's claims have one version, and each claim has its owner
among the owners, which is what a scope looks claims up by. The two action
properties speak of the end of a pass, many transactions after its plan, with file
updates in between. The invariant therefore says at each point of a pass what it has
done so far: the records it was planned from still differ from the program
(`PlanSound`, since a release is changed only while the process is down and the pass
gone); no claim has a version that an applied scope removed (`Replaced`, since what comes
back is written by the running program); and a file whose claims a scope took still
waits to be read, or has its claims back (`GivesBack`), unless it is owed nothing any
more (`ForgivenTransaction`, which every failure is an instance of). A lemma for each of the
transactions says what it does to the rows.

Extraction (`ExtractionProofs`: `WalkInvariant`, `OrdinalsTellApartHolds`,
`ChainsNameTheContainersHolds`). The nine packs differ in what they declare, not in how
they share: the proofs define the ten steps a walk can consist of, show of each
pack, by a lemma of its own, that its actions are such steps, and prove the invariant
once. It says that a key of the tracker has given out exactly the numbers below its
count (`Numbered`), and that the stack of parents and the container chain are in step
with the declarations that are open.

Traversal (in `QueryProofs`: `AnswersWereReadHolds`, `ImpactIsTheBallHolds`,
`PathsAreTheSimplePathsHolds`). The invariant `TraversalInv` has a part that always holds
(`ImpactIsRead`, `PathsAreRead`: what is queued or found came from rows of the
revisions the query met) and a part for a graph that stands still. For impact: the
queue holds nodes by distance, of two adjacent distances at most (`ImpactByDistance`), and a node
that was met is queued, expanded or at the depth asked for (`ImpactIsComplete`);
`QueueCovers` concludes that every node nearer than the head has been met. For
paths: the queue is ordered by length and no path starts another (`PathsByLength`), and
every simple path was found or starts with a queued one (`PathsAreComplete`). Of the
traces, `PathsAreTraced` says which nodes are left of a path, row by row: those of some
set of rows that were read, and while the graph stands still those that have a row.

Functions of an input (in `QueryProofs`). Each is proved of every input, and of
the inputs a run chooses by the invariant `InputIsChosen`.

- `LayersDecide`, `KeysStayTheUsers`: what one layer does to a setting, a list and a
  profile, and what the resolution of a provider does to its key, once, and then the
  cases of which files exist and are refused.
- `BudgetsAlwaysAgree`: one walk without a budget and one under it are followed side by side.
  `Agree` relates them: the snippets of the second are the first ones of the
  other, up to the one that did not fit. A node, the targets of a node and a root each
  keep it, and `PackedAgree` turns it into what packing gives.
- `SpansHold`: a line starts at 0 or after a "\n" (`LinesStartAfterNewlines`, which
  covers both line ends), and the line of an offset is the last that starts before it.
- `PositionsCountScalars`: decoding is a chain, each scalar beginning where the one
  before ends. `StartsAre` says without the chain where scalars begin: at every byte
  that continues none (`Inner`), and whether it does depends on the two bytes before. A slice
  then decodes like the line it is cut from, provided that it begins at the start of a
  scalar (`InnerFromAScalar`), which every checkpoint does (`CheckpointsCount`), whichever
  of them the code leaves out.
  `PositionsKeepTheOrder` follows: an offset at which a scalar begins has a position before
  that of every later offset, where `OffsetsInsideScalarsAreRejected` shows that an offset
  inside a scalar is given the position of another.

The theorem on induction of the library has an operator for its parameter and cannot be
instantiated. Induction over data is done through the least, or the greatest,
counterexample instead (`LeastNumber`, `GreatestNumber`, from the well-foundedness of the
numbers), and the existence of recursive functions by `Iteration` and `LeastSets`.

## 7. Only model-checked

Liveness (`RequestsComplete`, `DetachedContextUnloads`, `WatcherConverges`,
`StopIsObeyed`, `NobodyWaitsForever`, `EntriesComeFree`) is out of the prover's reach:
it needs ENABLED and fairness. Every invariant and every action property that a
passing run checks is also proved. `RecordsTellTheTruth` is not true of the code (section 5).

## 8. Not modelled, and what is left

Left out of the modelled parts: two spellings of a path before the database exists,
poisoned mutexes, a lock file that cannot be opened (the outcome is an observer, as
for a held lock), a partly removed directory, malformed frames and frame limits,
the acknowledged replacement of a compatible client (no command sends it), skips and
diagnostics, the versions of the dirty set, several references of one file in the
update model, neighbour queries (one read each way), flags that override
configuration, the text of snippets, trimming and redaction of previews, a lexical
row whose insert fails (`transaction.rs:129` ignores the error), and an error of the
ROLLBACK when a transaction is dropped (`transaction.rs:473`), which SQLite reports only
when no transaction is active.

Not modelled at all, because they keep no state that the parts above share: ranking and
hybrid or vector search (floating-point scores), glob matching and the parsing of git
output, model providers and agents (calls outside with a deadline), CLI output, install
and self-update, inspection and evaluation.

What is left:

1. Composition of `WatcherShutdown` with `GraphUpdates`: what a drain without its lease
   does to the transactions of the process that has taken it.
2. An abstract specification of a version change (claims of one release become those
   of the next) that `VersionInvalidation` implements.
