--------------------------- MODULE ContextRegistry ---------------------------
(***************************************************************************)
(* The project contexts hosted by one repin daemon: the registry that maps *)
(* a canonical database path to at most one cached context, the writer     *)
(* lease and the physical database identity each context carries, the      *)
(* reference counts that keep contexts alive, and the file system they     *)
(* share with other processes (crates/repin/src/daemon: registry.rs,       *)
(* context_handle.rs, lease.rs).                                           *)
(*                                                                         *)
(* An Arc<ProjectContext> is a reference held by the registry or by a      *)
(* connection thread; a context whose last reference goes is dropped, and  *)
(* its lease with it. Files are inode numbers, 0 is "no file"; a number is *)
(* used again once nothing links, holds or remembers it.                   *)
(* ProjectLifecycle.tla gives the handlers that call these operations.     *)
(***************************************************************************)
EXTENDS Integers

CONSTANTS
    Connections,        \* connection threads of the daemon
    Projects,           \* canonical database paths
    Configs,            \* resolved configurations a client may ask for
    PersistentConfigs,  \* those with daemon.idle_timeout_secs = 0
    NoProject, NoConfig,
    MaxContexts,        \* bound: contexts alive at one time
    MaxFiles            \* bound: inodes of one kind in use at one time

ASSUME ConstantsAssumption ==
    /\ PersistentConfigs \subseteq Configs
    /\ NoProject \notin Projects
    /\ NoConfig \notin Configs
    /\ MaxContexts \in Nat \ {0}
    /\ MaxFiles \in Nat \ {0}

VARIABLES
    stateDir,      \* the .repin directory exists
    dbFile,        \* inode at .repin/graph.sqlite3
    lockFile,      \* inode at .repin/writer.lock
    otherLease,    \* inode of the writer lock another process holds
    ctx,           \* the contexts alive
    registry,      \* ContextRegistry::entries
    detached,      \* RegistryEntry::last_detached
    opening,       \* context being opened under the entries mutex
    bound,         \* bound_context of each connection thread
    creationLease  \* lease a thread took in initialize_state

diskVars == <<stateDir, dbFile, lockFile, otherLease>>
daemonVars == <<ctx, registry, detached, opening, bound, creationLease>>
registryVars == <<diskVars, daemonVars>>

NoFile == 0
NoContext == 0
Files == 1..MaxFiles
Contexts == 1..MaxContexts

\* last_detached is None, set, or set longer ago than the idle timeout.
DetachedSince == {"none", "pending", "elapsed"}

Context == [path: Projects, config: Configs \cup {NoConfig},
            store: Files \cup {NoFile}, identity: Files \cup {NoFile},
            lease: Files \cup {NoFile}, closed: BOOLEAN]

Dropped == [path |-> NoProject, config |-> NoConfig, store |-> NoFile,
            identity |-> NoFile, lease |-> NoFile, closed |-> TRUE]

RegistryTypeOK ==
    /\ stateDir \in [Projects -> BOOLEAN]
    /\ dbFile \in [Projects -> Files \cup {NoFile}]
    /\ lockFile \in [Projects -> Files \cup {NoFile}]
    /\ otherLease \in [Projects -> Files \cup {NoFile}]
    /\ ctx \in [Contexts -> Context \cup {Dropped}]
    /\ registry \in [Projects -> Contexts \cup {NoContext}]
    /\ detached \in [Projects -> DetachedSince]
    /\ opening \in Contexts \cup {NoContext}
    /\ bound \in [Connections -> Contexts \cup {NoContext}]
    /\ creationLease \in [Connections -> Files \cup {NoFile}]

RegistryInit ==
    /\ stateDir = [p \in Projects |-> FALSE]
    /\ dbFile = [p \in Projects |-> NoFile]
    /\ lockFile = [p \in Projects |-> NoFile]
    /\ otherLease = [p \in Projects |-> NoFile]
    /\ ctx = [c \in Contexts |-> Dropped]
    /\ registry = [p \in Projects |-> NoContext]
    /\ detached = [p \in Projects |-> "none"]
    /\ opening = NoContext
    /\ bound = [k \in Connections |-> NoContext]
    /\ creationLease = [k \in Connections |-> NoFile]

-----------------------------------------------------------------------------
\* Reference counts, files and leases.

Attached(c) == {k \in Connections : bound[k] = c}

Referenced(c) ==
    \/ opening = c
    \/ \E p \in Projects : registry[p] = c
    \/ \E k \in Connections : bound[k] = c

\* is_usable(): not closed, and the file at the path is still the one whose
\* identity was read at open time. Two missing files compare equal.
Usable(c) == ~ctx[c].closed /\ ctx[c].identity = dbFile[ctx[c].path]

\* The advisory lock belongs to the inode, and one open handle holds it.
Held(f) ==
    \/ \E c \in Contexts : ctx[c].lease = f
    \/ \E k \in Connections : creationLease[k] = f
    \/ \E p \in Projects : otherLease[p] = f

DatabasesInUse ==
    {dbFile[p] : p \in Projects}
        \cup {ctx[c].store : c \in Contexts} \cup {ctx[c].identity : c \in Contexts}

LocksInUse == {lockFile[p] : p \in Projects} \cup {f \in Files : Held(f)}

\* The lowest number not in use.
Fresh(f, used) ==
    /\ f \in Files \ used
    /\ \A g \in Files \ used : f <= g

FreshContext(c) ==
    /\ ctx[c] = Dropped
    /\ \A d \in Contexts : ctx[d] = Dropped => c <= d

\* OpenOptions::create(true) on a path: the file there, or a new one.
OpensDatabase(p, f) ==
    IF dbFile[p] = NoFile THEN Fresh(f, DatabasesInUse) ELSE f = dbFile[p]

OpensLock(p, f) ==
    IF lockFile[p] = NoFile THEN Fresh(f, LocksInUse) ELSE f = lockFile[p]

\* Nobody holds the entries mutex.
EntriesFree == opening = NoContext

\* Two wrong mark_closed: the lease goes at once; the path is forgotten.
ShutReleasingLease(record) ==
    [record EXCEPT !.closed = TRUE, !.store = NoFile, !.identity = NoFile, !.lease = NoFile]

ShutForgettingPath(record) ==
    [record EXCEPT !.closed = TRUE, !.store = NoFile, !.identity = NoFile, !.path = NoProject]

\* mark_closed. A closed context is never consulted again for its store or its
\* identity, which the model forgets; it keeps its lease.
Shut(record) == [record EXCEPT !.closed = TRUE, !.store = NoFile, !.identity = NoFile]

Closing(closed) == [c \in Contexts |-> IF c \in closed THEN Shut(ctx[c]) ELSE ctx[c]]

\* The table of contexts once the references this step gives up are gone.
AfterDrops(table) ==
    [c \in Contexts |-> IF Referenced(c)' THEN table[c] ELSE Dropped]

-----------------------------------------------------------------------------
\* ContextRegistry operations. Each runs under the entries mutex; opening a
\* context holds it over several file-system steps.

\* The cached context is returned: usable, with an equal configuration.
Reusable(p, g) ==
    /\ registry[p] # NoContext
    /\ Usable(registry[p])
    /\ ctx[registry[p]].config = g

\* Wrong: reattaching leaves the idle interval running.
ReuseKeepingStamp(k, p) ==
    /\ EntriesFree
    /\ bound' = [bound EXCEPT ![k] = registry[p]]
    /\ creationLease' = [creationLease EXCEPT ![k] = NoFile]
    /\ UNCHANGED <<diskVars, registry, detached, opening>>
    /\ ctx' = AfterDrops(ctx)

\* The caller's own lease, if it has one, is dropped.
Reuse(k, p) ==
    /\ EntriesFree
    /\ bound' = [bound EXCEPT ![k] = registry[p]]
    /\ detached' = [detached EXCEPT ![p] = "none"]
    /\ creationLease' = [creationLease EXCEPT ![k] = NoFile]
    /\ UNCHANGED <<diskVars, registry, opening>>
    /\ ctx' = AfterDrops(ctx)

\* The stale or reconfigured entry is closed and removed, and the mutex kept:
\* a new context takes over the lease the caller already owns, if any.
BeginOpen(k, p, g) ==
    /\ EntriesFree
    /\ registry' = [registry EXCEPT ![p] = NoContext]
    /\ detached' = [detached EXCEPT ![p] = "none"]
    /\ creationLease' = [creationLease EXCEPT ![k] = NoFile]
    /\ UNCHANGED <<diskVars, bound>>
    /\ \E c \in Contexts :
        /\ FreshContext(c)
        /\ opening' = c
        /\ ctx' = AfterDrops([Closing({registry[p]}) EXCEPT ![c] =
                        [path |-> p, config |-> g, store |-> NoFile, identity |-> NoFile,
                         lease |-> creationLease[k], closed |-> FALSE]])

\* Wrong: the lock file is opened and the lock never tried.
AcquireUnlocked ==
    /\ opening # NoContext
    /\ stateDir' = [stateDir EXCEPT ![ctx[opening].path] = TRUE]
    /\ \E f \in Files :
        /\ OpensLock(ctx[opening].path, f)
        /\ lockFile' = [lockFile EXCEPT ![ctx[opening].path] = f]
        /\ ctx' = [ctx EXCEPT ![opening].lease = f]
    /\ UNCHANGED <<dbFile, otherLease, registry, detached, opening, bound, creationLease>>

\* WriterLease::acquire in open_with_config, which makes the directory again
\* if it is gone: an observer when the lease is held.
AcquireForContext ==
    /\ opening # NoContext
    /\ stateDir' = [stateDir EXCEPT ![ctx[opening].path] = TRUE]
    /\ \E f \in Files :
        /\ OpensLock(ctx[opening].path, f)
        /\ lockFile' = [lockFile EXCEPT ![ctx[opening].path] = f]
        /\ ctx' = [ctx EXCEPT ![opening].lease = IF Held(f) THEN NoFile ELSE f]
    /\ UNCHANGED <<dbFile, otherLease, registry, detached, opening, bound, creationLease>>

\* Engine::open opens or creates the database; without its directory the
\* store is unavailable and the context goes on without one.
OpenStore ==
    /\ opening # NoContext
    /\ LET p == ctx[opening].path IN
        \/ ~stateDir[p] /\ UNCHANGED <<dbFile, ctx>>
        \/ /\ stateDir[p]
           /\ \E f \in Files :
                /\ OpensDatabase(p, f)
                /\ dbFile' = [dbFile EXCEPT ![p] = f]
                /\ ctx' = [ctx EXCEPT ![opening].store = f]
    /\ UNCHANGED <<stateDir, lockFile, otherLease, registry, detached, opening, bound,
                   creationLease>>

\* SqliteStore::open fails although the directory is there, before the file is
\* or after: the context goes on without a store all the same.
StoreUnavailable ==
    /\ opening # NoContext
    /\ LET p == ctx[opening].path IN
        /\ stateDir[p]
        /\ \/ UNCHANGED dbFile
           \/ \E f \in Files : OpensDatabase(p, f) /\ dbFile' = [dbFile EXCEPT ![p] = f]
    /\ UNCHANGED <<stateDir, lockFile, otherLease, daemonVars>>

\* Wrong: the error path keeps the entries mutex.
AbandonOpenHoldingEntries ==
    /\ opening # NoContext
    /\ UNCHANGED <<diskVars, registry, detached, opening, bound, creationLease>>
    /\ ctx' = AfterDrops(ctx)

\* Opening fails: the entry stays removed, and the lease goes with the context.
AbandonOpen ==
    /\ opening # NoContext
    /\ opening' = NoContext
    /\ UNCHANGED <<diskVars, registry, detached, bound, creationLease>>
    /\ ctx' = AfterDrops(ctx)

\* The identity is read after the store is open; then the entry is inserted
\* and the calling thread binds to the context.
PublishContext(k) ==
    /\ opening # NoContext
    /\ LET p == ctx[opening].path IN
        /\ registry' = [registry EXCEPT ![p] = opening]
        /\ bound' = [bound EXCEPT ![k] = opening]
        /\ opening' = NoContext
        /\ UNCHANGED <<diskVars, detached, creationLease>>
        /\ ctx' = AfterDrops([ctx EXCEPT ![opening].identity = dbFile[p]])

\* Wrong: the entry is removed and its context left open.
UnloadLeavingOpen(p) ==
    /\ EntriesFree
    /\ registry' = [registry EXCEPT ![p] = NoContext]
    /\ detached' = [detached EXCEPT ![p] = "none"]
    /\ UNCHANGED <<diskVars, opening, bound, creationLease>>
    /\ ctx' = AfterDrops(ctx)

\* unload(): whatever context the path maps to is removed and closed.
Unload(p) ==
    /\ EntriesFree
    /\ registry' = [registry EXCEPT ![p] = NoContext]
    /\ detached' = [detached EXCEPT ![p] = "none"]
    /\ UNCHANGED <<diskVars, opening, bound, creationLease>>
    /\ ctx' = AfterDrops(Closing({registry[p]}))

\* A connection thread drops its reference, having found it closed or not.
Detach(k, closed) ==
    /\ bound' = [bound EXCEPT ![k] = NoContext]
    /\ UNCHANGED <<diskVars, registry, detached, opening, creationLease>>
    /\ ctx' = AfterDrops(Closing(closed))

Unattached(p) == registry[p] # NoContext /\ Attached(registry[p]) = {}

MarkDetached(p) ==
    /\ EntriesFree
    /\ detached' = [detached EXCEPT ![p] =
                        IF Unattached(p) /\ @ = "none" THEN "pending" ELSE @]
    /\ UNCHANGED <<diskVars, ctx, registry, opening, bound, creationLease>>

\* The accept loop's reap_idle: stamp entries nobody is attached to, and
\* close those whose idle interval has run out.
Expired == {p \in Projects : Unattached(p) /\ detached[p] = "elapsed"}

\* Wrong: only mark_detached stamps.
ReapIdleWithoutStamp ==
    /\ EntriesFree
    /\ registry' = [p \in Projects |-> IF p \in Expired THEN NoContext ELSE registry[p]]
    /\ detached' = [p \in Projects |-> IF p \in Expired THEN "none" ELSE detached[p]]
    /\ UNCHANGED <<diskVars, opening, bound, creationLease>>
    /\ ctx' = AfterDrops(Closing({registry[p] : p \in Expired}))

ReapIdle ==
    /\ EntriesFree
    /\ registry' = [p \in Projects |-> IF p \in Expired THEN NoContext ELSE registry[p]]
    /\ detached' = [p \in Projects |->
                        IF p \in Expired THEN "none"
                        ELSE IF Unattached(p) /\ detached[p] = "none" THEN "pending"
                        ELSE detached[p]]
    /\ UNCHANGED <<diskVars, opening, bound, creationLease>>
    /\ ctx' = AfterDrops(Closing({registry[p] : p \in Expired}))

-----------------------------------------------------------------------------
\* Time, other processes, and the death of the daemon process.

IdleTimeoutPasses(p) ==
    /\ registry[p] # NoContext
    /\ ctx[registry[p]].config \notin PersistentConfigs
    /\ detached[p] = "pending"
    /\ detached' = [detached EXCEPT ![p] = "elapsed"]
    /\ UNCHANGED <<diskVars, ctx, registry, opening, bound, creationLease>>

OtherProcessLocks(p) ==
    /\ lockFile[p] # NoFile
    /\ otherLease[p] = NoFile
    /\ ~Held(lockFile[p])
    /\ otherLease' = [otherLease EXCEPT ![p] = lockFile[p]]
    /\ UNCHANGED <<stateDir, dbFile, lockFile, daemonVars>>

OtherProcessUnlocks(p) ==
    /\ otherLease[p] # NoFile
    /\ otherLease' = [otherLease EXCEPT ![p] = NoFile]
    /\ UNCHANGED <<stateDir, dbFile, lockFile, daemonVars>>

\* The state directory is deleted, or the database file replaced, out of band.
StateRemovedOutOfBand(p) ==
    /\ stateDir[p]
    /\ stateDir' = [stateDir EXCEPT ![p] = FALSE]
    /\ dbFile' = [dbFile EXCEPT ![p] = NoFile]
    /\ lockFile' = [lockFile EXCEPT ![p] = NoFile]
    /\ UNCHANGED <<otherLease, daemonVars>>

DatabaseReplacedOutOfBand(p) ==
    /\ dbFile[p] # NoFile
    /\ \E f \in Files :
        Fresh(f, DatabasesInUse) /\ dbFile' = [dbFile EXCEPT ![p] = f]
    /\ UNCHANGED <<stateDir, lockFile, otherLease, daemonVars>>

\* The operating system closes every handle of the process.
ProcessDies ==
    /\ ctx' = [c \in Contexts |-> Dropped]
    /\ registry' = [p \in Projects |-> NoContext]
    /\ detached' = [p \in Projects |-> "none"]
    /\ opening' = NoContext
    /\ bound' = [k \in Connections |-> NoContext]
    /\ creationLease' = [k \in Connections |-> NoFile]
    /\ UNCHANGED diskVars

-----------------------------------------------------------------------------
\* A writer.lock inode has one owner: a context, a thread that is creating a
\* project, or another process. Leases move between threads and contexts and
\* stay with closed contexts until the last client lets go.
LeaseExclusive ==
    /\ \A c, d \in Contexts :
        ctx[c].lease # NoFile /\ ctx[c].lease = ctx[d].lease => c = d
    /\ \A k, l \in Connections :
        creationLease[k] # NoFile /\ creationLease[k] = creationLease[l] => k = l
    /\ \A p, q \in Projects :
        otherLease[p] # NoFile /\ otherLease[p] = otherLease[q] => p = q
    /\ \A c \in Contexts, k \in Connections :
        ctx[c].lease # NoFile => ctx[c].lease # creationLease[k]
    /\ \A c \in Contexts, p \in Projects :
        ctx[c].lease # NoFile => ctx[c].lease # otherLease[p]
    /\ \A k \in Connections, p \in Projects :
        creationLease[k] # NoFile => creationLease[k] # otherLease[p]

\* Every context that may still serve requests is the one the registry holds
\* for its path: whatever removes an entry closes the context first, so two
\* clients of a project that are served at all share a context, and
\* attached_count misses nobody who is served.
OpenContextIsRegistered ==
    \A c \in Contexts :
        ctx[c] # Dropped /\ ~ctx[c].closed /\ c # opening => registry[ctx[c].path] = c

\* An entry whose idle interval is running has no client: attaching cancels
\* the interval, whichever of mark_detached and reap_idle set it.
StampedEntryIsDetached ==
    \A p \in Projects : detached[p] # "none" => Unattached(p)
=============================================================================
