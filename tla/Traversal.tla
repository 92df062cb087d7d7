----------------------------- MODULE Traversal -----------------------------
(***************************************************************************)
(* Impact and path queries over the graph (repin-retrieval/src/            *)
(* traversal.rs), while the graph is written to.                           *)
(*                                                                         *)
(* A read view is not a snapshot: every call on it locks the connection,   *)
(* asks and unlocks, and an update of the project writes on the same       *)
(* connection in between. A step here is one such call. A call that fails  *)
(* is taken for one that found nothing. Edges are numbered in the order of *)
(* their ids, the order in which a query follows them.                     *)
(***************************************************************************)
EXTENDS Naturals, FiniteSets, SequencesExt

CONSTANTS
    Nodes,        \* node ids, numbers: the order decides between equal names
    NameOf,       \* the name of a node
    EdgeIds,      \* edges a graph may hold
    From, To,     \* their ends
    NoEdge,       \* of the last segment of a trace
    MaxDepth,     \* depths asked for
    MaxWrites,    \* changes of the graph while a query runs
    MaxFailures   \* calls that fail while a query runs

VARIABLES
    rows,      \* nodes in the database
    edges,     \* edges in the database
    query,     \* what was asked, or NoQuery
    queue,     \* breadth-first queue of the query
    batch,     \* edges of the node that was dequeued, still to look at
    visited,   \* ids an impact query has met
    segments,  \* of the path at the head of the queue, which has arrived
    place,     \* of the node in that path whose row is read next, or 0
    answer,    \* items or traces found so far
    state,     \* "idle", "asked", "running", "answered"
    revisions, \* graphs the database has held since the query was asked
    failures   \* calls that failed since then

arrived == <<segments, place>>
vars == <<rows, edges, query, queue, batch, visited, segments, place, answer, state, revisions, failures>>

ASSUME GraphAssumption ==
    /\ Nodes \subseteq Nat
    /\ EdgeIds \subseteq Nat /\ IsFiniteSet(EdgeIds)
    /\ From \in [EdgeIds -> Nodes] /\ To \in [EdgeIds -> Nodes]
    /\ NoEdge \notin EdgeIds
    /\ MaxDepth \in Nat /\ MaxWrites \in Nat /\ MaxFailures \in Nat

Names == {NameOf[n] : n \in Nodes}
NoQuery == [op |-> "none"]

Graph == [rows |-> rows, edges |-> edges]

\* The listings of a set of edges in the order of the ids: there is one.
Listings(es) == {s \in [1 .. Cardinality(es) -> es] :
                    /\ ToSet(s) = es
                    /\ \A i, j \in DOMAIN s : i < j => s[i] < s[j]}

\* edges_to and edges_from, sorted by id.
EdgesTo(n) == Listings({e \in edges : To[e] = n})
EdgesFrom(n) == {e \in edges : From[e] = n}

\* GraphTraversal::lookup_entity: the least id of that name.
LookupEntity(name) == LET found == {n \in rows : NameOf[n] = name}
                      IN  IF found = {} THEN {} ELSE {CHOOSE n \in found : \A m \in found : n <= m}

\* A call on the view that ends with an error.
Fails == failures < MaxFailures /\ failures' = failures + 1

\* A path of the queue: the nodes and, for all but the first, the edge that
\* led there.
PathFrom(n) == [nodes |-> <<n>>, edges |-> <<>>]
Extend(path, e) == [nodes |-> Append(path.nodes, To[e]), edges |-> Append(path.edges, e)]

-----------------------------------------------------------------------------
(* GraphTraversal::lookup_impact.                                          *)

AskImpact(name, depth) ==
    /\ state = "idle"
    /\ \E target \in LookupEntity(name) :
          /\ query' = [op |-> "impact", target |-> target, depth |-> depth]
          /\ queue' = <<[node |-> target, depth |-> 0]>>
          /\ visited' = {target}
    /\ state' = "running"
    /\ revisions' = <<Graph>>
    /\ UNCHANGED <<rows, edges, batch, arrived, answer, failures>>

\* A mutant: a node at the depth asked for is expanded too.
DequeueNodeOneFurther ==
    /\ state = "running" /\ query.op = "impact"
    /\ batch = <<>> /\ queue /= <<>>
    /\ IF Head(queue).depth > query.depth
       THEN queue' = Tail(queue) /\ UNCHANGED batch
       ELSE /\ batch' \in EdgesTo(Head(queue).node)
            /\ queue' = IF batch' = <<>> THEN Tail(queue) ELSE queue
    /\ UNCHANGED <<rows, edges, query, visited, arrived, answer, state, revisions, failures>>

\* A node at the depth asked for is not expanded.
DequeueNode ==
    /\ state = "running" /\ query.op = "impact"
    /\ batch = <<>> /\ queue /= <<>>
    /\ IF Head(queue).depth >= query.depth
       THEN queue' = Tail(queue) /\ UNCHANGED batch
       ELSE /\ batch' \in EdgesTo(Head(queue).node)
            /\ queue' = IF batch' = <<>> THEN Tail(queue) ELSE queue
    /\ UNCHANGED <<rows, edges, query, visited, arrived, answer, state, revisions, failures>>

\* A mutant: a node is listed for every edge it is met by.
FollowInEdgeAgain ==
    /\ state = "running" /\ query.op = "impact"
    /\ batch /= <<>>
    /\ LET e == Head(batch)
           depth == Head(queue).depth + 1
           rest == IF Tail(batch) = <<>> THEN Tail(queue) ELSE queue
       IN  /\ answer' = IF From[e] \in rows
                        THEN Append(answer, [node |-> From[e], depth |-> depth, via |-> e]) ELSE answer
           /\ queue' = Append(rest, [node |-> From[e], depth |-> depth])
    /\ batch' = Tail(batch)
    /\ UNCHANGED <<rows, edges, query, visited, arrived, state, revisions, failures>>

\* The edges of the node at the head of the queue, one after the other; the
\* node an edge comes from is listed when its row is there, and followed in
\* any case.
FollowInEdge ==
    /\ state = "running" /\ query.op = "impact"
    /\ batch /= <<>>
    /\ LET e == Head(batch)
           depth == Head(queue).depth + 1
           fresh == From[e] \notin visited
           rest == IF Tail(batch) = <<>> THEN Tail(queue) ELSE queue
       IN  /\ visited' = visited \cup {From[e]}
           /\ answer' = IF fresh /\ From[e] \in rows
                        THEN Append(answer, [node |-> From[e], depth |-> depth, via |-> e]) ELSE answer
           /\ queue' = IF fresh THEN Append(rest, [node |-> From[e], depth |-> depth]) ELSE rest
    /\ batch' = Tail(batch)
    /\ UNCHANGED <<rows, edges, query, arrived, state, revisions, failures>>

\* edges_to fails: the node counts as one that no edge leads to.
EdgesToFail ==
    /\ state = "running" /\ query.op = "impact"
    /\ batch = <<>> /\ queue /= <<>> /\ Head(queue).depth < query.depth
    /\ Fails
    /\ queue' = Tail(queue)
    /\ UNCHANGED <<rows, edges, query, batch, visited, arrived, answer, state, revisions>>

\* The read of the node fails: it counts as one without a row.
InNodeFails ==
    /\ state = "running" /\ query.op = "impact"
    /\ batch /= <<>>
    /\ Fails
    /\ LET n == From[Head(batch)]
           rest == IF Tail(batch) = <<>> THEN Tail(queue) ELSE queue
       IN  /\ n \notin visited
           /\ visited' = visited \cup {n}
           /\ queue' = Append(rest, [node |-> n, depth |-> Head(queue).depth + 1])
    /\ batch' = Tail(batch)
    /\ UNCHANGED <<rows, edges, query, arrived, answer, state, revisions>>

-----------------------------------------------------------------------------
(* GraphTraversal::lookup_paths.                                           *)

\* The start is looked up first, the target in a call of its own.
AskPaths(from, to, depth) ==
    /\ state = "idle"
    /\ \E f \in LookupEntity(from) : query' = [op |-> "lookup", source |-> f, to |-> to, depth |-> depth]
    /\ state' = "asked"
    /\ revisions' = <<Graph>>
    /\ UNCHANGED <<rows, edges, queue, batch, visited, arrived, answer, failures>>

LookupTarget ==
    /\ state = "asked"
    /\ \E t \in LookupEntity(query.to) :
          query' = [op |-> "paths", target |-> t, source |-> query.source, depth |-> query.depth]
    /\ queue' = <<PathFrom(query.source)>>
    /\ state' = "running"
    /\ UNCHANGED <<rows, edges, batch, visited, arrived, answer, revisions, failures>>

\* There is no such node, or the call fails: there is no answer.
TargetNotFound ==
    /\ state = "asked"
    /\ \/ LookupEntity(query.to) = {} /\ UNCHANGED failures
       \/ Fails
    /\ state' = "answered"
    /\ UNCHANGED <<rows, edges, query, queue, batch, visited, arrived, answer, revisions>>

\* A mutant: the bound counts nodes, as in trace_paths.
TooManyNodes(path) == Len(path.nodes) > query.depth

TooLong(path) == Len(path.nodes) > query.depth + 1

\* The nodes along a sequence of edges. The trace of a path has a segment for
\* each node: the node, and the edge that leaves it.
NodesOf(es) == <<From[es[1]]>> \o [i \in 1 .. Len(es) |-> To[es[i]]]
Segment(es, i) == [node |-> NodesOf(es)[i], next |-> IF i <= Len(es) THEN es[i] ELSE NoEdge]

Arrived(path) == Last(path.nodes) = query.target /\ Len(path.nodes) > 1

\* The edges that lead on from a path, to nodes it has not been at.
Onward(path) == Listings({e \in EdgesFrom(Last(path.nodes)) : ~ Contains(path.nodes, To[e])})

DequeuePath ==
    /\ state = "running" /\ query.op = "paths"
    /\ queue /= <<>> /\ place = 0
    /\ LET path == Head(queue) IN
       \/ /\ TooLong(path)
          /\ queue' = Tail(queue) /\ UNCHANGED place
       \/ /\ ~ TooLong(path) /\ Arrived(path)
          /\ place' = 1 /\ UNCHANGED queue
       \/ /\ ~ TooLong(path) /\ ~ Arrived(path)
          /\ \E onward \in Onward(path) :
                queue' = Tail(queue) \o [i \in DOMAIN onward |-> Extend(path, onward[i])]
          /\ UNCHANGED place
    /\ UNCHANGED <<rows, edges, query, batch, visited, segments, answer, state, revisions, failures>>

\* edges_from fails: the path counts as one that leads nowhere.
EdgesFromFail ==
    /\ state = "running" /\ query.op = "paths"
    /\ queue /= <<>> /\ place = 0
    /\ ~ TooLong(Head(queue)) /\ ~ Arrived(Head(queue))
    /\ Fails
    /\ queue' = Tail(queue)
    /\ UNCHANGED <<rows, edges, query, batch, visited, arrived, answer, state, revisions>>

\* What is left of a node in the trace: its segment, or nothing. With the last
\* node the trace is complete. path is what it was made from: the answer has
\* the segments only.
Traced(shown) ==
    LET path == Head(queue)
        more == IF shown THEN Append(segments, Segment(path.edges, place)) ELSE segments
    IN  IF place < Len(path.nodes)
        THEN segments' = more /\ place' = place + 1 /\ UNCHANGED <<queue, answer>>
        ELSE /\ answer' = Append(answer, [path |-> path.edges, segments |-> more])
             /\ queue' = Tail(queue)
             /\ segments' = <<>> /\ place' = 0

\* A node without a row is left out, and the edge that leaves it with it.
ReadSegment ==
    /\ state = "running" /\ place > 0
    /\ Traced(Head(queue).nodes[place] \in rows)
    /\ UNCHANGED <<rows, edges, query, batch, visited, state, revisions, failures>>

\* The read of the node fails: it counts as one without a row.
SegmentFails ==
    /\ state = "running" /\ place > 0
    /\ Fails
    /\ Traced(FALSE)
    /\ UNCHANGED <<rows, edges, query, batch, visited, state, revisions>>

Answer ==
    /\ state = "running" /\ queue = <<>> /\ batch = <<>>
    /\ state' = "answered"
    /\ UNCHANGED <<rows, edges, query, queue, batch, visited, arrived, answer, revisions, failures>>

-----------------------------------------------------------------------------
(* A change of the graph, by the update of a file or its rollback, between *)
(* two reads of the query: GraphUpdates.tla has where it comes from. A     *)
(* node goes with the edges of its file.                                   *)

Change(newRows, newEdges) ==
    /\ state \in {"asked", "running"}
    /\ Len(revisions) <= MaxWrites
    /\ rows' = newRows
    /\ edges' = newEdges
    /\ revisions' = Append(revisions, Graph')
    /\ UNCHANGED <<query, queue, batch, visited, arrived, answer, state, failures>>

RemoveNode(n) == n \in rows /\ Change(rows \ {n}, {e \in edges : n \notin {From[e], To[e]}})
RemoveEdge(e) == e \in edges /\ Change(rows, edges \ {e})
PutEdge(e) == e \notin edges /\ {From[e], To[e]} \subseteq rows /\ Change(rows, edges \cup {e})

\* Any graph, with or without edges whose ends have no row.
Init ==
    /\ rows \in SUBSET Nodes
    /\ edges \in SUBSET EdgeIds
    /\ query = NoQuery
    /\ queue = <<>> /\ batch = <<>> /\ visited = {} /\ answer = <<>>
    /\ segments = <<>> /\ place = 0
    /\ state = "idle"
    /\ revisions = <<>> /\ failures = 0

Next ==
    \/ \E name \in Names, depth \in 0 .. MaxDepth : AskImpact(name, depth)
    \/ \E from, to \in Names, depth \in 0 .. MaxDepth : AskPaths(from, to, depth)
    \/ LookupTarget \/ TargetNotFound
    \/ DequeueNode \/ EdgesToFail
    \/ FollowInEdge \/ InNodeFails
    \/ DequeuePath \/ EdgesFromFail
    \/ ReadSegment \/ SegmentFails
    \/ Answer
    \/ \E n \in Nodes : RemoveNode(n)
    \/ \E e \in EdgeIds : RemoveEdge(e) \/ PutEdge(e)

Spec == Init /\ [][Next]_vars

-----------------------------------------------------------------------------
(* Properties.                                                             *)

Answered(op) == state = "answered" /\ query.op = op
\* The graph stood still and could be read.
Quiet == Len(revisions) = 1 /\ failures = 0
ReadNodes == UNION {revisions[i].rows : i \in DOMAIN revisions}
ReadEdges == UNION {revisions[i].edges : i \in DOMAIN revisions}

IsWalk(es, s, t) ==
    /\ From[es[1]] = s /\ To[Last(es)] = t
    /\ \A i \in 1 .. Len(es) - 1 : To[es[i]] = From[es[i + 1]]
\* The nodes from which at most k edges lead to the target.
Ball(k) == {query.target} \cup
    {n \in Nodes : \E j \in 1 .. k : \E es \in [1 .. j -> edges] : IsWalk(es, n, query.target)}
SimplePaths(s, t, depth) ==
    {es \in UNION {[1 .. k -> edges] : k \in 1 .. depth} : IsWalk(es, s, t) /\ IsInjective(NodesOf(es))}

\* The segments of these places of a path, in its order and nothing else.
AreSegments(trace, es, places) ==
    /\ {trace[k] : k \in 1 .. Len(trace)} = {Segment(es, i) : i \in places}
    /\ \A k, l \in 1 .. Len(trace) : \A i, j \in places :
          trace[k] = Segment(es, i) /\ trace[l] = Segment(es, j) => (k < l <=> i < j)

\* In a graph that stands still and can be read an impact query lists every
\* node within the depth once, with its distance, nearest first
\* (traversal.rs lookup_impact).
ImpactIsTheBall ==
    Answered("impact") /\ Quiet =>
        /\ {answer[i].node : i \in 1 .. Len(answer)} = (Ball(query.depth) \ {query.target}) \cap rows
        /\ \A i \in 1 .. Len(answer) : answer[i].node \in Ball(answer[i].depth) \ Ball(answer[i].depth - 1)
        /\ \A i, j \in 1 .. Len(answer) : i < j => /\ answer[i].node /= answer[j].node
                                                   /\ answer[i].depth <= answer[j].depth

\* In a graph that stands still and can be read a path query traces every
\* simple path of at most that many edges once, shortest first; a trace has the
\* nodes of its path that have a row, each with the edge that leaves it
\* (traversal.rs lookup_paths).
PathsAreTheSimplePaths ==
    Answered("paths") /\ Quiet =>
        /\ {answer[i].path : i \in 1 .. Len(answer)} =
              SimplePaths(query.source, query.target, query.depth)
        /\ \A i, j \in 1 .. Len(answer) : i < j => /\ answer[i].path /= answer[j].path
                                                   /\ Len(answer[i].path) <= Len(answer[j].path)
        /\ \A i \in 1 .. Len(answer) :
              LET es == answer[i].path
              IN  AreSegments(answer[i].segments, es, {k \in 1 .. Len(es) + 1 : NodesOf(es)[k] \in rows})

\* Whatever is written or fails while it runs, a query answers with nodes and
\* edges that were in the database during the query, chained at the depths it
\* states, or in the order of a simple path between what was asked for, of which
\* nodes may be left out; and never with a node twice.
AnswersWereRead ==
    /\ query.op = "impact" =>
          \A i \in 1 .. Len(answer) :
             /\ answer[i].node \in ReadNodes /\ answer[i].via \in ReadEdges
             /\ From[answer[i].via] = answer[i].node
             /\ \A j \in 1 .. i - 1 : answer[j].node /= answer[i].node
             /\ answer[i].node /= query.target
             /\ answer[i].depth = 1 <=> To[answer[i].via] = query.target
    /\ query.op = "paths" =>
          \A i \in 1 .. Len(answer) :
             LET es == answer[i].path
                 trace == answer[i].segments
             IN  /\ ToSet(es) \subseteq ReadEdges
                 /\ IsWalk(es, query.source, query.target)
                 /\ IsInjective(NodesOf(es))
                 /\ \A k \in 1 .. Len(trace) : trace[k].node \in ReadNodes
                 /\ AreSegments(trace, es, {k \in 1 .. Len(es) + 1 : Segment(es, k) \in ToSet(trace)})

\* "Returns ordered paths, one edge per step": each segment has an edge to the
\* next. A node without a row takes its edge along. Not an invariant of the
\* code; see the README.
OneEdgePerStep ==
    query.op = "paths" =>
        \A i \in 1 .. Len(answer) : \A k \in 1 .. Len(answer[i].segments) - 1 :
           To[answer[i].segments[k].next] = answer[i].segments[k + 1].node

\* "Readers observe one revision, never a mixture": the edges of a path were
\* in the graph together. Not an invariant of the code; see the README.
PathsWereThereAtOnce ==
    query.op = "paths" =>
        \A i \in 1 .. Len(answer) :
            \E r \in 1 .. Len(revisions) : ToSet(answer[i].path) \subseteq revisions[r].edges

\* "Never silently chooses among materially different candidates". Not an
\* invariant of the code; see the README.
NamesAreUnambiguous == state \notin {"idle", "asked"} /\ query.op /= "lookup" => Cardinality({n \in rows : NameOf[n] = NameOf[query.target]}) <= 1
=============================================================================
