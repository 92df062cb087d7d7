----------------------------- MODULE GraphStore -----------------------------
(***************************************************************************)
(* The SQLite graph store as the daemon uses it: one connection behind a   *)
(* mutex, shared by the watcher and by every request thread of a project   *)
(* (crates/repin-store-sqlite: sqlite.rs, transaction.rs). The mutex is    *)
(* held for one statement at a time, so a transaction that one thread has  *)
(* open is read by all, and a second BEGIN on the connection fails.        *)
(*                                                                         *)
(* The claims of a file are reduced to the content they were extracted     *)
(* from and to one reference it makes, to a name the file Target[f]        *)
(* defines. GraphUpdates.tla gives the operations that use the store.      *)
(***************************************************************************)
EXTENDS Integers

CONSTANTS
    Files,     \* source files of the project
    Target,    \* the file that defines the name each file refers to
    Clients,   \* request threads bound to the project
    Watcher,   \* the thread of its ProjectWatcher
    NoThread,
    MaxEdits   \* bound: changes to the working tree

ASSUME StoreAssumption ==
    /\ Target \in [Files -> Files]
    /\ Watcher \notin Clients
    /\ NoThread \notin Clients \cup {Watcher}
    /\ MaxEdits \in Nat

VARIABLES
    graph,     \* committed claims
    revision,  \* committed meta.revision
    tx         \* the transaction open on the connection

storeVars == <<graph, revision, tx>>

Threads == Clients \cup {Watcher}

\* Every edit of the working tree makes a content of its own.
Contents == 0..MaxEdits

\* The committed claims are those of the abstract graph, its revision too.
Store == INSTANCE RevisionedGraph WITH
    Files <- Files,
    Contents <- Contents,
    graph <- graph,
    revision <- revision

Absent == Store!Absent
Graph == Store!Graph
EmptyGraph == Store!EmptyGraph

NoTransaction == [owner |-> NoThread, graph |-> EmptyGraph, revision |-> 0]

Transaction == [owner: Threads, graph: Graph, revision: Nat]

StoreTypeOK ==
    /\ graph \in Graph
    /\ revision \in Nat
    /\ tx \in Transaction \cup {NoTransaction}

StoreInit ==
    /\ graph = EmptyGraph
    /\ revision = 0
    /\ tx = NoTransaction

-----------------------------------------------------------------------------
\* read_view: no transaction of its own, every query goes to the connection.

VisibleGraph == IF tx.owner = NoThread THEN graph ELSE tx.graph
VisibleRevision == IF tx.owner = NoThread THEN revision ELSE tx.revision

\* Wrong: BEGIN joins the transaction that is open.
JoinWrite(t) ==
    /\ tx' = [owner |-> t, graph |-> VisibleGraph, revision |-> VisibleRevision]
    /\ UNCHANGED <<graph, revision>>

\* begin_write: BEGIN IMMEDIATE fails while the connection has a transaction.
BeginWrite(t) ==
    /\ tx.owner = NoThread
    /\ tx' = [owner |-> t, graph |-> graph, revision |-> revision]
    /\ UNCHANGED <<graph, revision>>

WriteBusy == tx.owner # NoThread

Statement(claims, rev) ==
    /\ tx' = [tx EXCEPT !.graph = claims, !.revision = rev]
    /\ UNCHANGED <<graph, revision>>

CommitTransaction ==
    /\ graph' = tx.graph
    /\ revision' = tx.revision
    /\ tx' = NoTransaction

\* Wrong: what the transaction wrote stays on the connection.
RollbackLeavingClaims ==
    /\ tx' = [tx EXCEPT !.owner = NoThread]
    /\ UNCHANGED <<graph, revision>>

\* ROLLBACK, by rollback() or by the drop of an uncommitted transaction.
\* The drop ignores an error; SQLite has one only when no transaction is active.
Rollback ==
    /\ tx' = NoTransaction
    /\ UNCHANGED <<graph, revision>>

-----------------------------------------------------------------------------
\* What the statements of a transaction do to the claims.

\* Wrong: the reference of the file is left behind.
RemoveByFileKeepingReference(claims, f) ==
    [claims EXCEPT !.content[f] = Absent, !.edges = @ \ {f}]

\* remove_by_file: an edge belongs to the file that makes the reference, and
\* edges that point into the file stay.
RemoveByFile(claims, f) ==
    [content |-> [claims.content EXCEPT ![f] = Absent],
     unresolved |-> claims.unresolved \ {f},
     edges |-> claims.edges \ {f}]

\* put_nodes, put_edges and put_unresolved.
PutFile(claims, f, c) ==
    [claims EXCEPT !.content[f] = c, !.unresolved = @ \cup {f}]

\* put_edges and remove_unresolved for references that found their target.
Link(claims, refs) ==
    [claims EXCEPT !.unresolved = @ \ refs, !.edges = @ \cup refs]

\* unresolved_seeking, for the names that a file defines.
Seeking(claims, f) == {g \in claims.unresolved : Target[g] = f}
=============================================================================
