-------------------------- MODULE RevisionedGraph --------------------------
(***************************************************************************)
(* What the graph store promises whoever reads the committed database: it  *)
(* moves from one revision to the next in single steps, each of which is   *)
(* one whole operation. An operation on a file leaves the claims of every  *)
(* other file alone (repin_core::ports::store: Store, Transaction).        *)
(*                                                                         *)
(* GraphUpdates.tla shows that the transactions of the indexing            *)
(* coordinator, interleaved on one SQLite connection, keep this promise.   *)
(***************************************************************************)
EXTENDS Integers

CONSTANTS
    Files,    \* source files of the project
    Contents  \* what a file may contain, Absent for no claims

Absent == 0

VARIABLES
    graph,    \* the committed claims
    revision  \* meta.revision

\* content: what the claims of each file were extracted from. Every file that
\* is indexed makes one reference to a name in another file: its owner is in
\* unresolved, or in edges once an edge claim stands for it.
Graph == [content: [Files -> Contents], unresolved: SUBSET Files, edges: SUBSET Files]

EmptyGraph == [content |-> [f \in Files |-> Absent], unresolved |-> {}, edges |-> {}]

Init == graph = EmptyGraph /\ revision = 0

Recorded(claims) == claims.unresolved \cup claims.edges

\* One file's claims are replaced or removed. References of other files may
\* become edges; none stops being one, and none is lost.
ReplaceFile(f) ==
    /\ \A g \in Files \ {f} : graph'.content[g] = graph.content[g]
    /\ graph.edges \ {f} \subseteq graph'.edges
    /\ Recorded(graph) \ {f} \subseteq Recorded(graph')

\* References become edges.
Resolve ==
    /\ graph'.content = graph.content
    /\ graph.edges \subseteq graph'.edges
    /\ Recorded(graph) \subseteq Recorded(graph')

\* Everything is replaced, and every reference is open again.
Rebuild ==
    /\ graph'.edges = {}
    /\ graph'.unresolved = {f \in Files : graph'.content[f] # Absent}

Next ==
    /\ graph' \in Graph
    /\ revision' = revision + 1
    /\ \/ \E f \in Files : ReplaceFile(f)
       \/ Resolve
       \/ Rebuild

Spec == Init /\ [][Next]_<<graph, revision>>
=============================================================================
