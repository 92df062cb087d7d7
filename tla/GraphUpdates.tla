---------------------------- MODULE GraphUpdates ----------------------------
(***************************************************************************)
(* The writers of one project graph: request threads that index, rebuild   *)
(* or synchronise it and the file watcher, each running transactions of    *)
(* the indexing coordinator on the connection of GraphStore                *)
(* (crates/repin-indexing: lib.rs, coordinator.rs; crates/repin-runtime:   *)
(* engine.rs; crates/repin/src/daemon: watcher.rs, server.rs).             *)
(*                                                                         *)
(* A step is one read of the working tree, or an access to the connection  *)
(* under its mutex. Consecutive statements of one transaction that put     *)
(* claims are one step, and so are the look-ups of one resolve: another    *)
(* thread may run between deleting and putting, not in the middle of       *)
(* either. Version records, classification, the lexical index and the      *)
(* derived-index state are not here.                                       *)
(***************************************************************************)
EXTENDS GraphStore

CONSTANTS
    MaxRequests,  \* bound: requests of clients
    MaxFailures   \* bound: transactions that fail, and deaths of the daemon

ASSUME UpdatesAssumption == MaxRequests \in Nat /\ MaxFailures \in Nat

VARIABLES
    source,    \* content of each file in the working tree
    pending,   \* paths the watcher has heard of and not yet taken up
    pc,        \* where each thread is
    job,       \* what it is doing
    edits, requests, failures  \* counters for the bounds

vars == <<storeVars, source, pending, pc, job, edits, requests, failures>>

\* Steps taken with a transaction of the thread's own.
InTransaction == {"expect", "remove", "put", "commit"}

Steps == {"idle", "next", "base", "refs", "targets", "begin"} \cup InTransaction

\* index, sync and rebuild are requests, watch is a drain of the watcher; each
\* runs operations: update or remove one file, rebuild all, resolve the rest.
Job == [kind: {"index", "sync", "rebuild", "watch"},
        op: {"none", "update", "remove", "rebuild", "resolve"},
        todo: SUBSET Files,             \* files not yet visited
        file: Files \cup {NoThread},    \* the file being updated or removed
        read: [Files -> Contents],      \* snapshots taken
        base: Nat,                      \* revision the plan starts from
        retried: BOOLEAN,               \* the second attempt is on
        refs: SUBSET Files]             \* references to be linked

NoRead == [f \in Files |-> Absent]

Start(kind, files) ==
    [kind |-> kind, op |-> "none", todo |-> files, file |-> NoThread, read |-> NoRead,
     base |-> 0, retried |-> FALSE, refs |-> {}]

NoJob == Start("watch", {})

TypeOK ==
    /\ StoreTypeOK
    /\ source \in [Files -> Contents]
    /\ pending \in SUBSET Files
    /\ pc \in [Threads -> Steps]
    /\ job \in [Threads -> Job]
    /\ edits \in 0..MaxEdits
    /\ requests \in 0..MaxRequests
    /\ failures \in 0..MaxFailures

\* A project initialised in an empty directory.
Init ==
    /\ StoreInit
    /\ source = NoRead
    /\ pending = {}
    /\ pc = [t \in Threads |-> "idle"]
    /\ job = [t \in Threads |-> NoJob]
    /\ edits = 0
    /\ requests = 0
    /\ failures = 0

Op(t) == job[t].op
Goto(t, step) == pc' = [pc EXCEPT ![t] = step]
treeVars == <<source, pending, edits>>
counters == <<requests, failures>>

\* The thread is done with its job, goes on with the next file, or resolves.
Finish(t) == Goto(t, "idle") /\ job' = [job EXCEPT ![t] = NoJob]

Continue(t) ==
    /\ Goto(t, "next")
    /\ job' = [job EXCEPT ![t] = Start(job[t].kind, job[t].todo)]

Resolve(t) ==
    /\ Goto(t, "base")
    /\ job' = [job EXCEPT ![t] = [Start(job[t].kind, {}) EXCEPT !.op = "resolve"]]

-----------------------------------------------------------------------------
\* Requests and the watcher take up work.

Request(t, kind, files) ==
    /\ t \in Clients
    /\ pc[t] = "idle"
    /\ requests < MaxRequests
    /\ requests' = requests + 1
    /\ Goto(t, "next")
    /\ job' = [job EXCEPT ![t] = Start(kind, files)]
    /\ UNCHANGED <<storeVars, treeVars, failures>>

\* IndexAll and UpdateFiles walk the tree, and so does Rebuild; SyncVcs takes
\* the files git reports as modified or added.
RequestIndexAll(t) == Request(t, "index", Files)
RequestRebuild(t) == Request(t, "rebuild", Files)
RequestSyncVcs(t) == \E files \in SUBSET Files : Request(t, "sync", files)

\* The debounce interval passes: the whole pending set is drained.
WatcherDrains ==
    /\ pc[Watcher] = "idle"
    /\ pending # {}
    /\ pending' = {}
    /\ Goto(Watcher, "next")
    /\ job' = [job EXCEPT ![Watcher] = Start("watch", pending)]
    /\ UNCHANGED <<storeVars, source, edits, counters>>

Operate(t, op, f) ==
    /\ Goto(t, "base")
    /\ job' = [job EXCEPT ![t] =
            [Start(job[t].kind, job[t].todo \ {f}) EXCEPT
                !.op = op, !.file = f, !.read[f] = source[f]]]

Skip(t, f) == UNCHANGED pc /\ job' = [job EXCEPT ![t].todo = @ \ {f}]

\* Wrong: the watcher passes over a file it cannot read.
VisitFileSkippingRemoved(t, f) ==
    /\ pc[t] = "next"
    /\ f \in job[t].todo
    /\ job[t].kind # "rebuild"
    /\ \/ source[f] # Absent /\ Operate(t, "update", f)
       \/ source[f] = Absent /\ Skip(t, f)
    /\ UNCHANGED <<storeVars, treeVars, counters>>

\* read_snapshot, then apply_snapshot_update; only the watcher takes a file
\* that cannot be read for removed.
VisitFile(t, f) ==
    /\ pc[t] = "next"
    /\ f \in job[t].todo
    /\ job[t].kind # "rebuild"
    /\ \/ source[f] # Absent /\ Operate(t, "update", f)
       \/ source[f] = Absent /\ job[t].kind = "watch" /\ Operate(t, "remove", f)
       \/ source[f] = Absent /\ job[t].kind # "watch" /\ Skip(t, f)
    /\ UNCHANGED <<storeVars, treeVars, counters>>

\* rebuild_source_with_records collects every snapshot first.
CollectSnapshot(t, f) ==
    /\ pc[t] = "next"
    /\ f \in job[t].todo
    /\ job[t].kind = "rebuild"
    /\ job' = [job EXCEPT ![t].todo = @ \ {f}, ![t].read[f] = source[f]]
    /\ UNCHANGED <<storeVars, treeVars, pc, counters>>

\* The walk is over: the watcher and SyncVcs stop, IndexAll resolves what is
\* left, Rebuild writes what it has collected.
WalkEnds(t) ==
    /\ pc[t] = "next"
    /\ job[t].todo = {}
    /\ \/ job[t].kind \in {"sync", "watch"} /\ Finish(t)
       \/ job[t].kind = "index" /\ Resolve(t)
       \/ /\ job[t].kind = "rebuild"
          /\ Goto(t, "base")
          /\ job' = [job EXCEPT ![t].op = "rebuild"]
    /\ UNCHANGED <<storeVars, treeVars, counters>>

-----------------------------------------------------------------------------
\* One operation of the coordinator.

\* The operation is done. An error ends an IndexAll, a Rebuild and a resolve;
\* SyncVcs and the watcher go on with the next file.
Succeed(t) ==
    \/ Op(t) \in {"update", "remove"} /\ Continue(t)
    \/ Op(t) = "rebuild" /\ Resolve(t)
    \/ Op(t) = "resolve" /\ Finish(t)

Fail(t) ==
    IF job[t].kind \in {"sync", "watch"} THEN Continue(t) ELSE Finish(t)

ReadBase(t) ==
    /\ pc[t] = "base"
    /\ job' = [job EXCEPT ![t].base = VisibleRevision]
    /\ Goto(t, IF Op(t) = "resolve" THEN "refs" ELSE "begin")
    /\ UNCHANGED <<storeVars, treeVars, counters>>

\* resolve_existing plans before its transaction, and stops if there is
\* nothing to resolve.
ReadUnresolved(t) ==
    /\ pc[t] = "refs"
    /\ \/ VisibleGraph.unresolved = {} /\ Finish(t)
       \/ /\ VisibleGraph.unresolved # {}
          /\ Goto(t, "targets")
          /\ job' = [job EXCEPT ![t].refs = VisibleGraph.unresolved]
    /\ UNCHANGED <<storeVars, treeVars, counters>>

ReadTargets(t) ==
    /\ pc[t] = "targets"
    /\ Goto(t, "begin")
    /\ job' = [job EXCEPT ![t].refs =
                    {g \in @ : VisibleGraph.content[Target[g]] # Absent}]
    /\ UNCHANGED <<storeVars, treeVars, counters>>

Begin(t) ==
    /\ pc[t] = "begin"
    /\ BeginWrite(t)
    /\ Goto(t, "expect")
    /\ UNCHANGED <<job, treeVars, counters>>

BeginFails(t) ==
    /\ pc[t] = "begin"
    /\ WriteBusy
    /\ Fail(t)
    /\ UNCHANGED <<storeVars, treeVars, counters>>

\* Wrong: the plan is committed over whatever revision is there.
AcceptRevision(t) ==
    /\ pc[t] = "expect"
    /\ Goto(t, IF Op(t) = "resolve" THEN "put" ELSE "remove")
    /\ UNCHANGED <<storeVars, job, treeVars, counters>>

ExpectRevision(t) ==
    /\ pc[t] = "expect"
    /\ tx.revision = job[t].base
    /\ Goto(t, IF Op(t) = "resolve" THEN "put" ELSE "remove")
    /\ UNCHANGED <<storeVars, job, treeVars, counters>>

\* MAX_COMMIT_ATTEMPTS is 2 for one file, with the snapshot of the first.
RevisionConflict(t) ==
    /\ pc[t] = "expect"
    /\ tx.revision # job[t].base
    /\ Rollback
    /\ IF Op(t) \in {"update", "remove"} /\ ~job[t].retried
       THEN Goto(t, "base") /\ job' = [job EXCEPT ![t].retried = TRUE]
       ELSE Fail(t)
    /\ UNCHANGED <<treeVars, counters>>

RemoveClaims(t) ==
    /\ pc[t] = "remove"
    /\ Op(t) \in {"update", "remove"}
    /\ Statement(RemoveByFile(tx.graph, job[t].file), tx.revision)
    /\ Goto(t, "put")
    /\ UNCHANGED <<job, treeVars, counters>>

\* clear_graph deletes the revision with the claims.
ClearGraph(t) ==
    /\ pc[t] = "remove"
    /\ Op(t) = "rebuild"
    /\ Statement(EmptyGraph, 0)
    /\ Goto(t, "put")
    /\ job' = [job EXCEPT ![t].todo = {f \in Files : job[t].read[f] # Absent}]
    /\ UNCHANGED <<treeVars, counters>>

\* The claims of the snapshot are put, references of any file that seek what
\* it defines are promoted, and the revision is set.
PutClaims(t) ==
    /\ pc[t] = "put"
    /\ Op(t) = "update"
    /\ LET f == job[t].file
           put == PutFile(tx.graph, f, job[t].read[f]) IN
        Statement(Link(put, Seeking(put, f)), job[t].base + 1)
    /\ Goto(t, "commit")
    /\ UNCHANGED <<job, treeVars, counters>>

PutRemoval(t) ==
    /\ pc[t] = "put"
    /\ Op(t) = "remove"
    /\ Statement(tx.graph, job[t].base + 1)
    /\ Goto(t, "commit")
    /\ UNCHANGED <<job, treeVars, counters>>

PutRebuilt(t) ==
    /\ pc[t] = "put"
    /\ Op(t) = "rebuild"
    /\ \/ \E f \in job[t].todo :
            /\ Statement(PutFile(tx.graph, f, job[t].read[f]), tx.revision)
            /\ job' = [job EXCEPT ![t].todo = @ \ {f}]
            /\ UNCHANGED pc
       \/ /\ job[t].todo = {}
          /\ Statement(tx.graph, job[t].base + 1)
          /\ Goto(t, "commit")
          /\ UNCHANGED job
    /\ UNCHANGED <<treeVars, counters>>

PutResolved(t) ==
    /\ pc[t] = "put"
    /\ Op(t) = "resolve"
    /\ Statement(Link(tx.graph, job[t].refs), job[t].base + 1)
    /\ Goto(t, "commit")
    /\ UNCHANGED <<job, treeVars, counters>>

Commit(t) ==
    /\ pc[t] = "commit"
    /\ CommitTransaction
    /\ Succeed(t)
    /\ UNCHANGED <<treeVars, counters>>

\* A statement or COMMIT fails, or extraction does during a rebuild: the
\* transaction is dropped.
TransactionFails(t) ==
    /\ pc[t] \in InTransaction
    /\ failures < MaxFailures
    /\ failures' = failures + 1
    /\ Rollback
    /\ Fail(t)
    /\ UNCHANGED <<treeVars, requests>>

-----------------------------------------------------------------------------
\* The working tree, and the death of the daemon.

\* A file is written or deleted, and the watcher hears of it.
Edit(f) ==
    /\ edits < MaxEdits
    /\ edits' = edits + 1
    /\ \/ source' = [source EXCEPT ![f] = edits + 1]
       \/ source[f] # Absent /\ source' = [source EXCEPT ![f] = Absent]
    /\ pending' = pending \cup {f}
    /\ UNCHANGED <<storeVars, pc, job, counters>>

\* The transaction is lost, and so is what the watcher had heard.
DaemonDies ==
    /\ failures < MaxFailures
    /\ failures' = failures + 1
    /\ Rollback
    /\ pending' = {}
    /\ pc' = [t \in Threads |-> "idle"]
    /\ job' = [t \in Threads |-> NoJob]
    /\ UNCHANGED <<source, edits, requests>>

-----------------------------------------------------------------------------

ReadStep(t) ==
    \/ \E f \in Files : VisitFile(t, f) \/ CollectSnapshot(t, f)
    \/ WalkEnds(t)
    \/ ReadBase(t) \/ ReadUnresolved(t) \/ ReadTargets(t)

WriteStep(t) ==
    \/ Begin(t) \/ BeginFails(t)
    \/ ExpectRevision(t) \/ RevisionConflict(t)
    \/ RemoveClaims(t) \/ ClearGraph(t)
    \/ PutClaims(t) \/ PutRemoval(t) \/ PutRebuilt(t) \/ PutResolved(t)
    \/ Commit(t)

ClientRequest(t) ==
    RequestIndexAll(t) \/ RequestRebuild(t) \/ RequestSyncVcs(t)

\* Every thread waits for a request or an event.
Waiting ==
    /\ \A t \in Threads : pc[t] = "idle"
    /\ pending = {}
    /\ UNCHANGED vars

Next ==
    \/ \E t \in Threads : ReadStep(t) \/ WriteStep(t) \/ TransactionFails(t)
    \/ \E t \in Clients : ClientRequest(t)
    \/ WatcherDrains
    \/ \E f \in Files : Edit(f)
    \/ DaemonDies
    \/ Waiting

Spec == Init /\ [][Next]_vars

\* Threads that have work are scheduled, and the debounce interval passes.
Fairness ==
    /\ \A t \in Threads : WF_vars(ReadStep(t) \/ WriteStep(t))
    /\ WF_vars(WatcherDrains)

FairSpec == Spec /\ Fairness

-----------------------------------------------------------------------------
\* A thread that issues the statements of a transaction is the one that began
\* it: on a shared connection nobody writes into, commits or rolls back the
\* work of another.
OwnTransaction ==
    \A t \in Threads : pc[t] \in InTransaction <=> tx.owner = t

\* While no transaction has failed, every indexed file's reference is on record
\* exactly once, as unresolved or as an edge.
ReferencesAccounted ==
    failures = 0 =>
        /\ graph.unresolved \cap graph.edges = {}
        /\ graph.unresolved \cup graph.edges = {f \in Files : graph.content[f] # Absent}

\* However the interleaved operations and failures fall, the committed graph
\* moves by whole operations, one revision each, and an operation on a file
\* leaves the other files' claims alone.
Revisioned == Store!Spec

\* When it is the only writer, the watcher brings the claims of every file to
\* what the file contains once the tree stops changing.
WatcherConverges ==
    \A f \in Files : <>[](graph.content[f] = source[f])

-----------------------------------------------------------------------------
\* What documents of the repository say, and the code does not do.

\* What index_all_worktree makes of the tree when nothing else runs.
FreshIndex ==
    LET indexed == {f \in Files : source[f] # Absent}
        linked == {f \in indexed : Target[f] \in indexed} IN
    [content |-> source, unresolved |-> indexed \ linked, edges |-> linked]

\* incremental.md section 1: changes applied one by one give the graph that
\* indexing the final state from scratch gives, the unresolved set included.
ConvergenceInvariant == <>[](graph = FreshIndex)

\* storage.md section 1: a plan is computed from a committed snapshot, and
\* expectRevision keeps a stale one from being committed.
PlansComeFromCommittedState ==
    [][\A t \in Threads :
        pc[t] = "commit" /\ Op(t) = "resolve" /\ graph' = tx.graph =>
            job[t].refs = {f \in graph.unresolved : graph.content[Target[f]] # Absent}]_vars

\* incremental.md section 5: an update does not commit facts for bytes that are
\* no longer current.
ContentNeverGoesBack ==
    [][\A f \in Files :
        graph'.content[f] # Absent => graph'.content[f] >= graph.content[f]]_vars
=============================================================================
