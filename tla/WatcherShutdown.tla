--------------------------- MODULE WatcherShutdown ---------------------------
(***************************************************************************)
(* How the contexts of one project end (registry.rs, context_handle.rs)    *)
(* and how their watcher threads end with them (watcher.rs).               *)
(*                                                                         *)
(* A context is an Arc.  Whoever gives up the last reference runs the      *)
(* drops of its fields in the order they are declared: the writer lease    *)
(* first, the watcher last, which signals its thread and joins it.  The    *)
(* registry gives up its reference with the `entries' mutex held, a        *)
(* connection without.  ContextRegistry has all of this in one step; here  *)
(* it takes four, and the watcher thread runs between them.                *)
(*                                                                         *)
(* Databases are numbers in the order they were made, and 0 is none.  The  *)
(* lock file is made with the database, so a lease is one of a database.   *)
(***************************************************************************)
EXTENDS Integers

CONSTANTS
    Connections,    \* connection threads
    Contexts,       \* contexts alive at one time
    Loop,           \* the thread of the accept loop
    None,           \* no context, no thread
    MaxDatabases,   \* bound: how often the state directory is made
    MaxPending      \* bound: paths a watcher has pending

ASSUME ShutdownAssumption ==
    /\ Loop \notin Connections /\ None \notin Connections \cup {Loop} /\ None \notin Contexts
    /\ MaxDatabases \in Nat /\ MaxPending \in Nat

VARIABLES
    db,         \* the database at the path, 0 if there is none
    made,       \* databases made so far
    entry,      \* the registry's entry for the path
    mutex,      \* who holds `entries' for more than a step
    bound,      \* the context each connection is bound to
    dropping,   \* the context whose fields a thread is dropping
    pc,         \* what a thread goes on with after that
    ctx,        \* per context: the database it opened, closed, lease, how far its drop is
    watcher     \* per context: where its watcher thread is, and pending paths
vars == <<db, made, entry, mutex, bound, dropping, pc, ctx, watcher>>

Threads == Connections \cup {Loop}
Drops   == {"unused", "live", "dropped", "unleased", "signalled"}
Steps   == {"idle", "load", "guard", "unload", "remove", "exit"}
NoContext == [life |-> "unused", of |-> 0, closed |-> FALSE, lease |-> FALSE]
NoWatcher == [at |-> "none", pending |-> 0]

TypeOK ==
    /\ db \in 0 .. MaxDatabases /\ made \in 0 .. MaxDatabases
    /\ entry \in Contexts \cup {None}
    /\ mutex \in Threads \cup {None}
    /\ bound \in [Connections -> Contexts \cup {None}]
    /\ dropping \in [Threads -> Contexts \cup {None}]
    /\ pc \in [Threads -> Steps]
    /\ ctx \in [Contexts -> [life : Drops, of : 0 .. MaxDatabases, closed : BOOLEAN, lease : BOOLEAN]]
    /\ watcher \in [Contexts -> [at : {"none", "top", "select", "drain", "update"}, pending : 0 .. MaxPending]]

Init ==
    /\ db = 0 /\ made = 0
    /\ entry = None /\ mutex = None
    /\ bound = [k \in Connections |-> None]
    /\ dropping = [t \in Threads |-> None]
    /\ pc = [t \in Threads |-> "idle"]
    /\ ctx = [c \in Contexts |-> NoContext]
    /\ watcher = [c \in Contexts |-> NoWatcher]

-----------------------------------------------------------------------------
(* References.  A thread gives up its reference (or the registry's) to c;  *)
(* if no other is left it starts the drop.                                 *)

Usable(c) == ~ ctx[c].closed /\ ctx[c].of = db
LeaseFree(d) == \A c \in Contexts : ~ (ctx[c].lease /\ ctx[c].of = d)
Released(t) == dropping[t] = None
Free(t) == Released(t) /\ mutex = None
Serving == pc[Loop] # "exit"

Referenced(c, e, b) == e = c \/ \E k \in Connections : b[k] = c

Last(c, e, b) == c # None /\ ~ Referenced(c, e, b)

\* t changes the entry to e and the bindings to b, which takes references from
\* c only, and closes what is in `shut'.
LetGo(t, c, e, b, shut) ==
    /\ entry' = e /\ bound' = b
    /\ dropping' = [dropping EXCEPT ![t] = IF Last(c, e, b) THEN c ELSE None]
    /\ ctx' = [x \in Contexts |->
                 [ctx[x] EXCEPT !.closed = @ \/ x \in shut,
                                !.life = IF x = c /\ Last(c, e, b) THEN "dropped" ELSE @]]

Goes(t, step) == pc' = [pc EXCEPT ![t] = step]

\* The lease is the first field with an effect, the watcher the last one.
ReleaseLease(t) ==
    /\ dropping[t] # None /\ ctx[dropping[t]].life = "dropped"
    /\ ctx' = [ctx EXCEPT ![dropping[t]].lease = FALSE, ![dropping[t]].life = "unleased"]
    /\ UNCHANGED <<db, made, entry, mutex, bound, dropping, pc, watcher>>

Signal(t) ==
    /\ dropping[t] # None /\ ctx[dropping[t]].life = "unleased"
    /\ ctx' = [ctx EXCEPT ![dropping[t]].life = "signalled"]
    /\ UNCHANGED <<db, made, entry, mutex, bound, dropping, pc, watcher>>

\* Wrong: a drop that does not join.
DoNotJoin(t) ==
    /\ dropping[t] # None /\ ctx[dropping[t]].life = "signalled"
    /\ ctx' = [ctx EXCEPT ![dropping[t]] = NoContext]
    /\ dropping' = [dropping EXCEPT ![t] = None]
    /\ mutex' = IF mutex = t /\ pc[t] # "load" THEN None ELSE mutex
    /\ UNCHANGED <<db, made, entry, bound, pc, watcher>>

Join(t) ==
    /\ dropping[t] # None /\ ctx[dropping[t]].life = "signalled"
    /\ watcher[dropping[t]].at = "none"
    /\ ctx' = [ctx EXCEPT ![dropping[t]] = NoContext]
    /\ dropping' = [dropping EXCEPT ![t] = None]
    /\ mutex' = IF mutex = t /\ pc[t] # "load" THEN None ELSE mutex
    /\ UNCHANGED <<db, made, entry, bound, pc, watcher>>

-----------------------------------------------------------------------------
(* Connection threads.                                                     *)

Bind(k, c) == [bound EXCEPT ![k] = c]

\* The registry's reference goes, and the drop keeps the mutex if it is the
\* last one.
Evict(t) ==
    /\ LetGo(t, entry, None, bound, {entry} \ {None})
    /\ mutex' = IF dropping'[t] # None THEN t ELSE None

\* A client shakes hands once.  If there is a usable context it shares it.
Share(k) ==
    /\ Serving /\ Free(k) /\ pc[k] = "idle" /\ bound[k] = None /\ db # 0
    /\ entry # None /\ Usable(entry)
    /\ bound' = Bind(k, entry)
    /\ UNCHANGED <<db, made, entry, mutex, dropping, pc, ctx, watcher>>

\* It removes one that is not, and keeps the mutex while it opens another.
Load(k) ==
    /\ Serving /\ Free(k) /\ pc[k] = "idle" /\ bound[k] = None /\ db # 0
    /\ entry # None => ~ Usable(entry)
    /\ LetGo(k, entry, None, bound, {entry} \ {None})
    /\ mutex' = k /\ Goes(k, "load")
    /\ UNCHANGED <<db, made, watcher>>

\* Opening takes the lease if it can; only an owner has a watcher.
\* Wrong: an observer watches too.
ObserversWatch(c) == TRUE
HasWatcher(c) == ctx'[c].lease
Open(k) ==
    /\ pc[k] = "load" /\ Released(k) /\ db # 0
    /\ \E c \in Contexts :
        /\ ctx[c].life = "unused"
        /\ ctx' = [ctx EXCEPT ![c] = [life |-> "live", of |-> db, closed |-> FALSE, lease |-> LeaseFree(db)]]
        /\ entry' = c /\ bound' = Bind(k, c)
        /\ watcher' = [watcher EXCEPT ![c] = IF HasWatcher(c) THEN [at |-> "top", pending |-> 0] ELSE NoWatcher]
    /\ mutex' = None /\ Goes(k, "idle")
    /\ UNCHANGED <<db, made, dropping>>

\* The state directory is gone: the open fails.
OpenFails(k) ==
    /\ pc[k] = "load" /\ Released(k) /\ db = 0
    /\ mutex' = None /\ Goes(k, "idle")
    /\ UNCHANGED <<db, made, entry, bound, dropping, ctx, watcher>>

Disconnect(k) ==
    /\ Released(k) /\ pc[k] = "idle" /\ bound[k] # None
    /\ LetGo(k, bound[k], entry, Bind(k, None), {})
    /\ UNCHANGED <<db, made, mutex, pc, watcher>>

\* A request finds its context unusable: it lets it go, then unloads the path.
Guard(k) ==
    /\ Released(k) /\ pc[k] = "idle" /\ bound[k] # None /\ ~ Usable(bound[k])
    /\ LetGo(k, bound[k], entry, Bind(k, None), {bound[k]})
    /\ Goes(k, "guard")
    /\ UNCHANGED <<db, made, mutex, watcher>>

\* UninitializeProject is refused while a client is attached; then it unloads
\* the path, then removes the directory.
Check(k) ==
    /\ Serving /\ Free(k) /\ pc[k] = "idle" /\ bound[k] = None /\ db # 0
    /\ \A j \in Connections : bound[j] # None => bound[j] # entry
    /\ Goes(k, "unload")
    /\ UNCHANGED <<db, made, entry, mutex, bound, dropping, ctx, watcher>>

Unload(k) ==
    /\ Free(k) /\ pc[k] \in {"guard", "unload"}
    /\ Evict(k)
    /\ Goes(k, IF pc[k] = "guard" THEN "idle" ELSE "remove")
    /\ UNCHANGED <<db, made, watcher>>

Remove(k) ==
    /\ Released(k) /\ pc[k] = "remove"
    /\ db' = 0 /\ Goes(k, "idle")
    /\ UNCHANGED <<made, entry, mutex, bound, dropping, ctx, watcher>>

\* The state directory is made, by this daemon or another process.
Create ==
    /\ db = 0 /\ made < MaxDatabases
    /\ db' = made + 1 /\ made' = made + 1
    /\ UNCHANGED <<entry, mutex, bound, dropping, pc, ctx, watcher>>

-----------------------------------------------------------------------------
(* The accept loop.                                                        *)

\* The idle interval of a context nobody is attached to has run out.
Reap ==
    /\ Free(Loop) /\ pc[Loop] = "idle"
    /\ entry # None /\ \A k \in Connections : bound[k] # entry
    /\ Evict(Loop)
    /\ UNCHANGED <<db, made, pc, watcher>>

\* The loop ends with every connection gone: the registry is dropped with the
\* server, and its context is not closed.
Stop ==
    /\ Free(Loop) /\ pc[Loop] = "idle"
    /\ \A k \in Connections : bound[k] = None /\ pc[k] = "idle" /\ Released(k)
    /\ LetGo(Loop, entry, None, bound, {})
    /\ Goes(Loop, "exit")
    /\ UNCHANGED <<db, made, mutex, watcher>>

\* The process ends and takes every thread with it; another one may start.
\* It ends so after Stop, and at any time if it is killed or if connections
\* outlast the drain.
Exit ==
    /\ pc[Loop] = "exit" => Released(Loop)
    /\ entry' = None /\ mutex' = None
    /\ bound' = [k \in Connections |-> None]
    /\ dropping' = [t \in Threads |-> None]
    /\ pc' = [t \in Threads |-> "idle"]
    /\ ctx' = [c \in Contexts |-> NoContext]
    /\ watcher' = [c \in Contexts |-> NoWatcher]
    /\ UNCHANGED <<db, made>>

-----------------------------------------------------------------------------
(* The watcher thread of a context.                                        *)

At(c, where, n) == watcher' = [watcher EXCEPT ![c] = [at |-> where, pending |-> n]]
OnlyWatcher == UNCHANGED <<db, made, entry, mutex, bound, dropping, pc, ctx>>

Ends(c) == At(c, "none", 0)

Turn(c) ==
    /\ watcher[c].at = "top"
    /\ IF ctx[c].closed THEN Ends(c) ELSE At(c, "select", watcher[c].pending)
    /\ OnlyWatcher

\* A file event, of a path that is new, known already or ignored.
Event(c) ==
    /\ watcher[c].at = "select"
    /\ \E n \in {watcher[c].pending, watcher[c].pending + 1} : n <= MaxPending /\ At(c, "top", n)
    /\ OnlyWatcher

\* The debounce interval is over.
Debounced(c) ==
    /\ watcher[c].at = "select" /\ watcher[c].pending > 0
    /\ IF ctx[c].closed THEN Ends(c) ELSE At(c, "drain", watcher[c].pending)
    /\ OnlyWatcher

\* Wrong: a thread with nothing pending waits for events alone.
ToldWhenPending(c) ==
    /\ watcher[c].at = "select" /\ watcher[c].pending > 0 /\ ctx[c].life = "signalled"
    /\ Ends(c)
    /\ OnlyWatcher

Told(c) ==
    /\ watcher[c].at = "select" /\ ctx[c].life = "signalled"
    /\ Ends(c)
    /\ OnlyWatcher

\* The set is drained, so what a break leaves of it is forgotten.
Drain(c) ==
    /\ watcher[c].at = "drain"
    /\ IF ctx[c].closed \/ watcher[c].pending = 0
       THEN At(c, "top", 0)
       ELSE At(c, "update", watcher[c].pending - 1)
    /\ OnlyWatcher

Updated(c) ==
    /\ watcher[c].at = "update"
    /\ At(c, "drain", watcher[c].pending)
    /\ OnlyWatcher

-----------------------------------------------------------------------------
Drop(t) == ReleaseLease(t) \/ Signal(t) \/ Join(t)
Connection(k) ==
    \/ Share(k) \/ Load(k) \/ Open(k) \/ OpenFails(k) \/ Disconnect(k)
    \/ Guard(k) \/ Check(k) \/ Unload(k) \/ Remove(k)
Watch(c) == Turn(c) \/ Event(c) \/ Debounced(c) \/ Told(c) \/ Drain(c) \/ Updated(c)

Next ==
    \/ \E t \in Threads : Drop(t)
    \/ \E k \in Connections : Connection(k)
    \/ \E c \in Contexts : Watch(c)
    \/ Create \/ Reap \/ Stop \/ Exit

Spec == Init /\ [][Next]_vars

\* The operating system runs every thread; an update ends, because a statement
\* on the shared connection fails rather than waits for another thread's
\* transaction; select! takes a ready channel at random, so a shutdown message
\* is received although events keep coming.
Fairness ==
    /\ \A t \in Threads : WF_vars(Drop(t))
    /\ \A k \in Connections : WF_vars(Open(k) \/ OpenFails(k))
    /\ \A c \in Contexts : /\ WF_vars(Turn(c) \/ Drain(c) \/ Updated(c))
                           /\ SF_vars(Told(c))
FairSpec == Spec /\ Fairness

-----------------------------------------------------------------------------
(* Properties                                                              *)

Leaving(c) == ctx[c].life \in {"unleased", "signalled"}

\* A watcher that runs is the only one with the lease of its database, and the
\* one a lease was taken for; any other is being waited for by the thread that
\* drops its context (context_handle.rs open_with_lease_and_config and the
\* order of its fields; watcher.rs Drop).
OneWatcherOfADatabase ==
    \A c \in Contexts : watcher[c].at # "none" /\ ~ Leaving(c) =>
        /\ ctx[c].lease
        /\ \A d \in Contexts \ {c} : ~ (ctx[d].lease /\ ctx[d].of = ctx[c].of)

\* No watcher thread runs on after its context: while one runs, the registry
\* or a connection refers to the context or a thread is dropping it, however
\* often it was closed, evicted and replaced before (watcher.rs Drop).
NoWatcherIsForgotten ==
    \A c \in Contexts : watcher[c].at # "none" =>
        Referenced(c, entry, bound) \/ \E t \in Threads : dropping[t] = c

\* A drop waits for a thread that may be asleep in select! or in the middle of
\* an update, and the registry's drops do so with its mutex held: the wait
\* ends and the mutex comes free (registry.rs; watcher.rs Drop).
EntriesComeFree == mutex # None ~> mutex = None

\* Not true of the code; see the README.  An update is made under the lease.
WatcherWritesUnderItsLease == \A c \in Contexts : watcher[c].at = "update" => ctx[c].lease
\* Nor is this: two watchers of one database do not update it at one time.
OneWatcherWrites ==
    \A c, d \in Contexts : watcher[c].at = "update" /\ watcher[d].at = "update" /\ ctx[c].of = ctx[d].of => c = d
=============================================================================
