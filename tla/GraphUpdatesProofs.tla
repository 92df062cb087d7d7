------------------------- MODULE GraphUpdatesProofs -------------------------
(***************************************************************************)
(* What holds of GraphUpdates for any files, references between them,      *)
(* request threads and bounds: a transaction is its thread's own, and the  *)
(* committed graph implements RevisionedGraph.                             *)
(*                                                                         *)
(* The inductive invariant says of each point of an operation what the     *)
(* open transaction holds compared with the committed graph.               *)
(***************************************************************************)
EXTENDS GraphUpdates, TLAPS

\* Every file's reference is unresolved.
AllOpen(claims) ==
    /\ claims.edges = {}
    /\ claims.unresolved = {f \in Files : claims.content[f] # Absent}

\* The claims that one whole operation may leave.
OneOperation(claims) ==
    \/ \E f \in Files :
        /\ \A g \in Files \ {f} : claims.content[g] = graph.content[g]
        /\ graph.edges \ {f} \subseteq claims.edges
        /\ Store!Recorded(graph) \ {f} \subseteq Store!Recorded(claims)
    \/ /\ claims.content = graph.content
       /\ graph.edges \subseteq claims.edges
       /\ Store!Recorded(graph) \subseteq Store!Recorded(claims)
    \/ AllOpen(claims)

FileKnown(t) == Op(t) \in {"update", "remove"} => job[t].file \in Files

\* What is in the transaction when the claims of the operation are about to be
\* put.
ClaimsRemoved(t) ==
    /\ Op(t) \in {"update", "remove"} => tx.graph = RemoveByFile(graph, job[t].file)
    /\ Op(t) = "rebuild" =>
        /\ AllOpen(tx.graph)
        /\ \A f \in job[t].todo : job[t].read[f] # Absent
    /\ Op(t) = "resolve" => tx.graph = graph

Progress(t) ==
    /\ pc[t] = "expect" => tx.graph = graph /\ tx.revision = revision
    /\ pc[t] \in {"remove", "put", "commit"} => job[t].base = revision
    /\ pc[t] = "remove" => tx.graph = graph
    /\ pc[t] = "put" => ClaimsRemoved(t)
    /\ pc[t] = "commit" => tx.revision = revision + 1 /\ OneOperation(tx.graph)

ThreadOK(t) ==
    /\ FileKnown(t)
    /\ pc[t] \in InTransaction <=> tx.owner = t
    /\ Progress(t)

IInv == TypeOK /\ \A t \in Threads : ThreadOK(t)

-----------------------------------------------------------------------------
\* The claims stay well formed.

LEMMA ClaimsOK ==
    ASSUME NEW claims \in Graph, NEW f \in Files, NEW c \in Contents, NEW refs \in SUBSET Files
    PROVE  /\ EmptyGraph \in Graph
           /\ RemoveByFile(claims, f) \in Graph
           /\ PutFile(claims, f, c) \in Graph
           /\ Link(claims, refs) \in Graph
           /\ Seeking(claims, f) \in SUBSET Files
<1> USE DEF Graph, Store!Graph
<1>1. Absent \in Contents
    BY StoreAssumption DEF Absent, Store!Absent, Contents
<1>2. EmptyGraph \in Graph
    BY <1>1 DEF EmptyGraph, Store!EmptyGraph, Absent
<1>3. RemoveByFile(claims, f) \in Graph
    BY <1>1 DEF RemoveByFile
<1>4. PutFile(claims, f, c) \in Graph
    BY DEF PutFile
<1>5. Link(claims, refs) \in Graph
    BY DEF Link
<1>6. Seeking(claims, f) \in SUBSET Files
    BY DEF Seeking
<1> QED
    BY <1>2, <1>3, <1>4, <1>5, <1>6

LEMMA NoTransactionOK ==
    /\ EmptyGraph \in Graph
    /\ Absent \in Contents
    /\ NoThread \notin Threads
    /\ NoTransaction.owner = NoThread
    BY StoreAssumption DEF Graph, Store!Graph, EmptyGraph, Store!EmptyGraph, Absent,
        Store!Absent, Contents, Threads, NoTransaction

LEMMA VisibleOK ==
    ASSUME StoreTypeOK
    PROVE  VisibleGraph \in Graph /\ VisibleRevision \in Nat
    BY NoTransactionOK DEF StoreTypeOK, VisibleGraph, VisibleRevision, Transaction, NoTransaction

LEMMA StartOK ==
    ASSUME NEW kind \in {"index", "sync", "rebuild", "watch"}, NEW files \in SUBSET Files
    PROVE  Start(kind, files) \in Job /\ Start(kind, files).op = "none"
    BY NoTransactionOK DEF Start, Job, NoRead

-----------------------------------------------------------------------------
\* What a step of thread t leaves alone: the work of the others.

FrameOK ==
    /\ source \in [Files -> Contents]
    /\ pending \in SUBSET Files
    /\ edits \in 0..MaxEdits
    /\ requests \in 0..MaxRequests
    /\ failures \in 0..MaxFailures

OnlyMoves(t) ==
    /\ pc' \in [Threads -> Steps]
    /\ job' \in [Threads -> Job]
    /\ \A s \in Threads \ {t} : pc'[s] = pc[s] /\ job'[s] = job[s]
    /\ FileKnown(t)'

\* A step outside of transactions.
LEMMA OutsideStep ==
    ASSUME IInv, NEW t \in Threads, OnlyMoves(t), FrameOK', UNCHANGED storeVars,
           pc[t] \notin InTransaction, pc'[t] \notin InTransaction
    PROVE  IInv'
<1> USE DEF IInv
<1>1. TypeOK'
    BY DEF TypeOK, FrameOK, OnlyMoves, StoreTypeOK, storeVars
<1>2. ThreadOK(t)'
    BY DEF ThreadOK, OnlyMoves, storeVars, Progress, InTransaction
<1>3. ASSUME NEW s \in Threads, s # t PROVE ThreadOK(s)'
    BY <1>3 DEF ThreadOK, OnlyMoves, storeVars, Progress, FileKnown, ClaimsRemoved,
        OneOperation, Op
<1> QED
    BY <1>1, <1>2, <1>3

\* BEGIN: the transaction starts from the committed graph.
LEMMA BeginStep ==
    ASSUME IInv, NEW t \in Threads, OnlyMoves(t), FrameOK', BeginWrite(t),
           pc'[t] = "expect"
    PROVE  IInv'
<1> USE DEF IInv
<1>1. tx' \in Transaction /\ tx'.owner = t /\ tx'.graph = graph /\ tx'.revision = revision
    BY DEF BeginWrite, Transaction, TypeOK, StoreTypeOK
<1>2. TypeOK'
    BY <1>1 DEF TypeOK, FrameOK, OnlyMoves, StoreTypeOK, BeginWrite
<1>3. ThreadOK(t)'
    BY <1>1 DEF ThreadOK, OnlyMoves, BeginWrite, Progress, InTransaction
<1>4. ASSUME NEW s \in Threads, s # t PROVE ThreadOK(s)'
  <2>1. tx.owner # s /\ pc[s] \notin InTransaction
    BY NoTransactionOK DEF BeginWrite, ThreadOK
  <2> QED
    BY <1>1, <1>4, <2>1 DEF ThreadOK, OnlyMoves, Progress, FileKnown, Op, InTransaction
<1> QED
    BY <1>2, <1>3, <1>4

\* A statement of the transaction of t.
LEMMA InsideStep ==
    ASSUME IInv, NEW t \in Threads, OnlyMoves(t), FrameOK', UNCHANGED <<graph, revision>>,
           pc[t] \in InTransaction, pc'[t] \in InTransaction,
           NEW claims \in Graph, NEW rev \in Nat,
           tx' = [tx EXCEPT !.graph = claims, !.revision = rev], Progress(t)'
    PROVE  IInv'
<1> USE DEF IInv
<1>1. tx \in Transaction /\ tx.owner = t
    BY NoTransactionOK DEF TypeOK, StoreTypeOK, ThreadOK
<1>2. tx' \in Transaction /\ tx'.owner = t
    BY <1>1 DEF Transaction
<1>3. TypeOK'
    BY <1>2 DEF TypeOK, FrameOK, OnlyMoves, StoreTypeOK
<1>4. ThreadOK(t)'
    BY <1>2 DEF ThreadOK, OnlyMoves
<1>5. ASSUME NEW s \in Threads, s # t PROVE ThreadOK(s)'
    BY <1>1, <1>2, <1>5 DEF ThreadOK, OnlyMoves, Progress, FileKnown, Op, InTransaction
<1> QED
    BY <1>3, <1>4, <1>5

\* The transaction of t ends, by COMMIT or ROLLBACK.
LEMMA EndStep ==
    ASSUME IInv, NEW t \in Threads, OnlyMoves(t), FrameOK', graph' \in Graph, revision' \in Nat,
           pc[t] \in InTransaction, pc'[t] \notin InTransaction, tx' = NoTransaction
    PROVE  IInv'
<1> USE DEF IInv
<1>1. tx.owner = t /\ tx'.owner = NoThread
    BY NoTransactionOK DEF ThreadOK
<1>2. TypeOK'
    BY DEF TypeOK, FrameOK, OnlyMoves, StoreTypeOK
<1>3. ThreadOK(t)'
    BY <1>1, NoTransactionOK DEF ThreadOK, OnlyMoves, Progress, InTransaction
<1>4. ASSUME NEW s \in Threads, s # t PROVE ThreadOK(s)'
    BY <1>1, <1>4, NoTransactionOK DEF ThreadOK, OnlyMoves, Progress, FileKnown, Op, InTransaction
<1> QED
    BY <1>2, <1>3, <1>4

-----------------------------------------------------------------------------
\* What each kind of move does to the thread's job.

LEMMA TypesOf ==
    ASSUME IInv, NEW t \in Threads
    PROVE  /\ FrameOK
           /\ pc \in [Threads -> Steps]
           /\ job \in [Threads -> Job]
           /\ job[t] \in Job
           /\ job[t].todo \in SUBSET Files
           /\ job[t].kind \in {"index", "sync", "rebuild", "watch"}
    BY DEF IInv, TypeOK, FrameOK, Job

LEMMA MovesToNextJob ==
    ASSUME IInv, NEW t \in Threads, Finish(t) \/ Continue(t) \/ Resolve(t)
    PROVE  OnlyMoves(t) /\ pc'[t] \notin InTransaction
<1> USE TypesOf
<1> DEFINE j == job'[t]
<1>1. /\ NoJob \in Job /\ NoJob.op = "none"
      /\ Start(job[t].kind, job[t].todo) \in Job /\ Start(job[t].kind, job[t].todo).op = "none"
      /\ Start(job[t].kind, {}) \in Job
    BY StartOK DEF NoJob
<1>2. [Start(job[t].kind, {}) EXCEPT !.op = "resolve"] \in Job
    BY <1>1 DEF Job
<1>3. [Start(job[t].kind, {}) EXCEPT !.op = "resolve"].op = "resolve"
    BY <1>1 DEF Job
<1>4. {"idle", "next", "base"} \subseteq Steps \ InTransaction
    BY DEF Steps, InTransaction
<1>5. CASE Finish(t)
    BY <1>1, <1>4, <1>5 DEF Finish, Goto, OnlyMoves, FileKnown, Op
<1>6. CASE Continue(t)
    BY <1>1, <1>4, <1>6 DEF Continue, Goto, OnlyMoves, FileKnown, Op
<1>7. CASE Resolve(t)
    BY <1>2, <1>3, <1>4, <1>7 DEF Resolve, Goto, OnlyMoves, FileKnown, Op
<1> QED
    BY <1>5, <1>6, <1>7

LEMMA OperateMoves ==
    ASSUME IInv, NEW t \in Threads, NEW f \in Files, NEW op \in {"update", "remove"},
           Operate(t, op, f)
    PROVE  OnlyMoves(t) /\ pc'[t] \notin InTransaction
<1> DEFINE start == Start(job[t].kind, job[t].todo \ {f})
           j == [start EXCEPT !.op = op, !.file = f, !.read[f] = source[f]]
<1>1. start \in Job /\ source[f] \in Contents
    BY StartOK, TypesOf DEF FrameOK
<1>2. j \in Job /\ j.op = op /\ j.file = f
    BY <1>1 DEF Job
<1>3. job' = [job EXCEPT ![t] = j] /\ pc' = [pc EXCEPT ![t] = "base"]
    BY DEF Operate, Goto
<1> QED
    BY <1>2, <1>3, TypesOf DEF OnlyMoves, FileKnown, Op, Steps, InTransaction

\* The job stays the same but for fields that do not name the operation.
LEMMA SameOperation ==
    ASSUME IInv, NEW t \in Threads, NEW j \in Job, job' = [job EXCEPT ![t] = j],
           j.op = job[t].op, j.file = job[t].file, NEW step \in Steps, Goto(t, step)
    PROVE  OnlyMoves(t) /\ pc'[t] = step
    BY TypesOf DEF OnlyMoves, FileKnown, Op, Goto, IInv, ThreadOK

-----------------------------------------------------------------------------
\* One lemma for each part of Next.

LEMMA RequestIInv ==
    ASSUME IInv, NEW t \in Threads, NEW kind \in {"index", "sync", "rebuild", "watch"},
           NEW files \in SUBSET Files, Request(t, kind, files)
    PROVE  IInv'
<1>1. OnlyMoves(t) /\ pc'[t] = "next" /\ pc[t] = "idle"
    BY StartOK, TypesOf DEF Request, Goto, OnlyMoves, FileKnown, Op, Steps, InTransaction
<1>2. FrameOK'
    BY TypesOf, UpdatesAssumption DEF Request, FrameOK, treeVars
<1> QED
    BY <1>1, <1>2, OutsideStep DEF Request, InTransaction

LEMMA WatcherDrainsIInv ==
    ASSUME IInv, WatcherDrains
    PROVE  IInv'
<1>1. Watcher \in Threads /\ pending \in SUBSET Files
    BY DEF Threads, IInv, TypeOK
<1>2. OnlyMoves(Watcher) /\ pc'[Watcher] = "next" /\ pc[Watcher] = "idle"
    BY <1>1, StartOK, TypesOf DEF WatcherDrains, Goto, OnlyMoves, FileKnown, Op, Steps, InTransaction
<1>3. FrameOK'
    BY <1>1, TypesOf DEF WatcherDrains, FrameOK, counters
<1> QED
    BY <1>1, <1>2, <1>3, OutsideStep DEF WatcherDrains, InTransaction

LEMMA ReadStepIInv ==
    ASSUME IInv, NEW t \in Threads, ReadStep(t)
    PROVE  IInv'
<1> USE TypesOf DEF treeVars, counters
<1>1. ASSUME NEW f \in Files, VisitFile(t, f) PROVE IInv'
  <2>1. FrameOK'
    BY <1>1 DEF VisitFile, FrameOK
  <2>2. CASE Operate(t, "update", f) \/ Operate(t, "remove", f)
    BY <1>1, <2>1, <2>2, OperateMoves, OutsideStep DEF VisitFile, InTransaction
  <2>3. CASE Skip(t, f)
    <3> DEFINE j == [job[t] EXCEPT !.todo = @ \ {f}]
    <3>1. j \in Job /\ j.op = job[t].op /\ j.file = job[t].file
      BY DEF Job
    <3>2. Goto(t, "next") /\ pc[t] = "next" /\ "next" \in Steps
      BY <1>1, <2>3 DEF VisitFile, Skip, Goto, Steps
    <3>3. job' = [job EXCEPT ![t] = j]
      BY <2>3 DEF Skip
    <3> HIDE DEF j
    <3>4. OnlyMoves(t) /\ pc'[t] = "next"
      BY <3>1, <3>2, <3>3, SameOperation
    <3> QED
      BY <1>1, <2>1, <3>2, <3>4, OutsideStep DEF VisitFile, InTransaction
  <2> QED
    BY <1>1, <2>2, <2>3 DEF VisitFile
<1>2. ASSUME NEW f \in Files, CollectSnapshot(t, f) PROVE IInv'
  <2> DEFINE j == [job[t] EXCEPT !.todo = @ \ {f}, !.read[f] = source[f]]
  <2>1. j \in Job /\ j.op = job[t].op /\ j.file = job[t].file
    BY DEF Job, FrameOK
  <2>2. Goto(t, "next") /\ pc[t] = "next" /\ "next" \in Steps
    BY <1>2 DEF CollectSnapshot, Goto, Steps
  <2>3. job' = [job EXCEPT ![t] = j]
    BY <1>2 DEF CollectSnapshot
  <2> HIDE DEF j
  <2>4. OnlyMoves(t) /\ pc'[t] = "next"
    BY <2>1, <2>2, <2>3, SameOperation
  <2>5. FrameOK'
    BY <1>2 DEF CollectSnapshot, FrameOK
  <2> QED
    BY <1>2, <2>2, <2>4, <2>5, OutsideStep DEF CollectSnapshot, InTransaction
<1>3. CASE WalkEnds(t)
  <2>1. FrameOK' /\ UNCHANGED storeVars /\ pc[t] \notin InTransaction
    BY <1>3 DEF WalkEnds, FrameOK, InTransaction
  <2>2. CASE Finish(t) \/ Resolve(t)
    BY <2>1, <2>2, MovesToNextJob, OutsideStep
  <2>3. CASE Goto(t, "base") /\ job' = [job EXCEPT ![t].op = "rebuild"]
    <3>1. [job[t] EXCEPT !.op = "rebuild"] \in Job
      BY DEF Job
    <3>2. OnlyMoves(t) /\ pc'[t] = "base"
      BY <2>3, <3>1 DEF OnlyMoves, FileKnown, Op, Goto, Steps, Job
    <3> QED
      BY <2>1, <3>2, OutsideStep DEF InTransaction
  <2> QED
    BY <1>3, <2>2, <2>3 DEF WalkEnds
<1>4. CASE ReadBase(t)
  <2>1. [job[t] EXCEPT !.base = VisibleRevision] \in Job
    BY VisibleOK DEF Job, IInv, TypeOK
  <2>2. PICK step \in {"refs", "begin"} : Goto(t, step)
    BY <1>4 DEF ReadBase
  <2>3. OnlyMoves(t) /\ pc'[t] = step
    BY <1>4, <2>1, <2>2, SameOperation, ZenonT(40) DEF ReadBase, Steps, Job
  <2> QED
    BY <1>4, <2>3, OutsideStep DEF ReadBase, FrameOK, InTransaction
<1>5. CASE ReadUnresolved(t)
  <2>1. FrameOK' /\ UNCHANGED storeVars /\ pc[t] \notin InTransaction
    BY <1>5 DEF ReadUnresolved, FrameOK, InTransaction
  <2>2. CASE Finish(t)
    BY <2>1, <2>2, MovesToNextJob, OutsideStep
  <2>3. CASE Goto(t, "targets") /\ job' = [job EXCEPT ![t].refs = VisibleGraph.unresolved]
    <3>1. [job[t] EXCEPT !.refs = VisibleGraph.unresolved] \in Job
      BY VisibleOK, ZenonT(40) DEF Job, IInv, TypeOK, Graph, Store!Graph
    <3>2. OnlyMoves(t) /\ pc'[t] = "targets"
      BY <2>3, <3>1, SameOperation DEF Steps, Job
    <3> QED
      BY <2>1, <3>2, OutsideStep DEF InTransaction
  <2> QED
    BY <1>5, <2>2, <2>3 DEF ReadUnresolved
<1>6. CASE ReadTargets(t)
  <2> DEFINE found == {g \in job[t].refs : VisibleGraph.content[Target[g]] # Absent}
  <2>1. [job[t] EXCEPT !.refs = found] \in Job
    BY DEF Job
  <2>2. job' = [job EXCEPT ![t] = [job[t] EXCEPT !.refs = found]]
    BY <1>6 DEF ReadTargets
  <2>3. OnlyMoves(t) /\ pc'[t] = "begin"
    BY <1>6, <2>1, <2>2, SameOperation DEF ReadTargets, Steps, Job
  <2> QED
    BY <1>6, <2>3, OutsideStep DEF ReadTargets, FrameOK, InTransaction
<1> QED
    BY <1>1, <1>2, <1>3, <1>4, <1>5, <1>6 DEF ReadStep

LEMMA WriteStepIInv ==
    ASSUME IInv, NEW t \in Threads, WriteStep(t)
    PROVE  IInv'
<1> USE TypesOf DEF treeVars, counters
<1>1. FrameOK'
    BY DEF WriteStep, Begin, BeginFails, ExpectRevision, RevisionConflict, RemoveClaims,
        ClearGraph, PutClaims, PutRemoval, PutRebuilt, PutResolved, Commit, FrameOK
<1>2. /\ graph \in Graph /\ revision \in Nat /\ ThreadOK(t)
      /\ pc[t] \in InTransaction => tx \in Transaction /\ tx.graph \in Graph /\ tx.revision \in Nat
    BY NoTransactionOK DEF IInv, TypeOK, StoreTypeOK, ThreadOK, Transaction
<1>3. {"remove", "put", "commit", "expect", "base"} \subseteq Steps
    BY DEF Steps, InTransaction
<1>4. CASE Begin(t)
  <2>1. OnlyMoves(t) /\ pc'[t] = "expect"
    BY <1>3, <1>4, SameOperation DEF Begin
  <2> QED
    BY <1>1, <1>4, <2>1, BeginStep DEF Begin
<1>5. CASE BeginFails(t)
  <2>1. Finish(t) \/ Continue(t)
    BY <1>5 DEF BeginFails, Fail
  <2> QED
    BY <1>1, <1>5, <2>1, MovesToNextJob, OutsideStep DEF BeginFails, InTransaction
<1>6. CASE ExpectRevision(t)
  <2>1. PICK step \in {"put", "remove"} :
            Goto(t, step) /\ (step = "put" <=> Op(t) = "resolve")
    BY <1>6 DEF ExpectRevision
  <2>2. OnlyMoves(t) /\ pc'[t] = step
    BY <1>3, <1>6, <2>1, SameOperation DEF ExpectRevision
  <2>3. tx' = [tx EXCEPT !.graph = tx.graph, !.revision = tx.revision]
    BY <1>2, <1>6 DEF ExpectRevision, storeVars, InTransaction, Transaction
  <2>4. Progress(t)'
    BY <1>2, <1>6, <2>1, <2>2 DEF ExpectRevision, storeVars, ThreadOK, Progress, ClaimsRemoved, Op
  <2> QED
    BY <1>1, <1>2, <1>6, <2>2, <2>3, <2>4, InsideStep DEF ExpectRevision, storeVars, InTransaction
<1>7. CASE RevisionConflict(t)
  <2>1. CASE Finish(t) \/ Continue(t)
    BY <1>1, <1>2, <1>7, <2>1, MovesToNextJob, EndStep DEF RevisionConflict, Rollback, InTransaction
  <2>2. CASE Goto(t, "base") /\ job' = [job EXCEPT ![t].retried = TRUE]
    <3>1. [job[t] EXCEPT !.retried = TRUE] \in Job
      BY DEF Job
    <3>2. OnlyMoves(t) /\ pc'[t] = "base"
      BY <1>3, <2>2, <3>1, SameOperation DEF Job
    <3> QED
      BY <1>1, <1>2, <1>7, <3>2, EndStep DEF RevisionConflict, Rollback, InTransaction
  <2> QED
    BY <1>7, <2>1, <2>2 DEF RevisionConflict, Fail
<1>8. CASE RemoveClaims(t)
  <2>1. job[t].file \in Files /\ pc[t] = "remove" /\ tx.graph = graph /\ job[t].base = revision
    BY <1>2, <1>8 DEF RemoveClaims, ThreadOK, FileKnown, Progress
  <2>2. RemoveByFile(tx.graph, job[t].file) \in Graph
    BY <1>2, <2>1, ClaimsOK, NoTransactionOK DEF InTransaction
  <2>3. OnlyMoves(t) /\ pc'[t] = "put"
    BY <1>3, <1>8, SameOperation DEF RemoveClaims
  <2>4. tx'.graph = RemoveByFile(graph, job[t].file)
    BY <1>2, <1>8, <2>1 DEF RemoveClaims, Statement, Transaction, InTransaction
  <2>5. Progress(t)'
    BY <1>8, <2>1, <2>3, <2>4 DEF RemoveClaims, Statement, Progress, ClaimsRemoved, Op, RemoveByFile
  <2> QED
    BY <1>1, <1>2, <1>8, <2>1, <2>2, <2>3, <2>5, InsideStep DEF RemoveClaims, Statement, InTransaction
<1>9. CASE ClearGraph(t)
  <2> DEFINE j == [job[t] EXCEPT !.todo = {f \in Files : job[t].read[f] # Absent}]
  <2>1. j \in Job /\ j.op = job[t].op /\ j.file = job[t].file /\ j.base = job[t].base
    BY DEF Job
  <2>2. job' = [job EXCEPT ![t] = j]
    BY <1>9 DEF ClearGraph
  <2> HIDE DEF j
  <2>3. OnlyMoves(t) /\ pc'[t] = "put" /\ job'[t].base = job[t].base /\ job'[t].op = "rebuild"
    BY <1>3, <1>9, <2>1, <2>2, SameOperation DEF ClearGraph, Op
  <2>4. AllOpen(tx.graph)'
    BY <1>2, <1>9 DEF ClearGraph, Statement, Transaction, InTransaction, EmptyGraph,
        Store!EmptyGraph, Absent, Store!Absent, AllOpen
  <2>5. \A f \in job'[t].todo : job'[t].read[f] # Absent
    BY <1>9, <2>2 DEF Job, j
  <2>6. Progress(t)'
    BY <1>2, <1>9, <2>3, <2>4, <2>5 DEF ClearGraph, Statement, ThreadOK, Progress, ClaimsRemoved, Op
  <2> QED
    BY <1>1, <1>2, <1>9, <2>3, <2>6, NoTransactionOK, InsideStep DEF ClearGraph, Statement, InTransaction
<1>10. CASE PutClaims(t)
  <2> DEFINE f == job[t].file
             put == PutFile(tx.graph, f, job[t].read[f])
             claims == Link(put, Seeking(put, f))
  <2>1. f \in Files /\ job[t].base = revision /\ tx.graph = RemoveByFile(graph, f)
    BY <1>2, <1>10 DEF PutClaims, ThreadOK, FileKnown, Progress, ClaimsRemoved
  <2>2. job[t].read[f] \in Contents
    BY <2>1 DEF Job
  <2>3. put \in Graph
    BY <1>2, <1>10, <2>1, <2>2, ClaimsOK DEF PutClaims, InTransaction
  <2>4. claims \in Graph
    <3> HIDE DEF put
    <3>1. Seeking(put, f) \in SUBSET Files
      BY <2>3 DEF Seeking, Graph, Store!Graph
    <3> QED
      BY <2>3, <3>1 DEF Link, Graph, Store!Graph
  <2>5. OnlyMoves(t) /\ pc'[t] = "commit"
    BY <1>3, <1>10, SameOperation DEF PutClaims
  <2>6. tx'.graph = claims /\ tx'.revision = revision + 1 /\ UNCHANGED <<graph, revision, job>>
    BY <1>2, <1>10, <2>1 DEF PutClaims, Statement, Transaction, InTransaction
  <2>7. /\ \A g \in Files \ {f} : claims.content[g] = graph.content[g]
        /\ graph.edges \ {f} \subseteq claims.edges
        /\ Store!Recorded(graph) \ {f} \subseteq Store!Recorded(claims)
    BY <1>2, <2>1 DEF Link, PutFile, RemoveByFile, Graph, Store!Graph, Store!Recorded
  <2>8. OneOperation(tx.graph)'
    BY <2>1, <2>6, <2>7, ZenonT(40) DEF OneOperation, Store!Recorded
  <2>9. Progress(t)'
    BY <2>1, <2>5, <2>6, <2>8 DEF Progress
  <2>10. tx' = [tx EXCEPT !.graph = claims, !.revision = revision + 1] /\ revision + 1 \in Nat
    BY <1>2, <1>10, <2>1 DEF PutClaims, Statement
  <2>11. pc[t] \in InTransaction /\ pc'[t] \in InTransaction
    BY <1>10, <2>5 DEF PutClaims, InTransaction
  <2> HIDE DEF claims
  <2> QED
    BY <1>1, <2>4, <2>5, <2>6, <2>9, <2>10, <2>11, InsideStep
<1>11. CASE PutRemoval(t)
  <2>1. job[t].file \in Files /\ job[t].base = revision /\ tx.graph = RemoveByFile(graph, job[t].file)
    BY <1>2, <1>11 DEF PutRemoval, ThreadOK, FileKnown, Progress, ClaimsRemoved
  <2>2. OnlyMoves(t) /\ pc'[t] = "commit"
    BY <1>3, <1>11, SameOperation DEF PutRemoval
  <2>3. tx'.graph = tx.graph /\ tx'.revision = revision + 1 /\ UNCHANGED <<graph, revision, job>>
    BY <1>2, <1>11, <2>1 DEF PutRemoval, Statement, Transaction, InTransaction
  <2>4. /\ \A g \in Files \ {job[t].file} : tx.graph.content[g] = graph.content[g]
        /\ graph.edges \ {job[t].file} \subseteq tx.graph.edges
        /\ Store!Recorded(graph) \ {job[t].file} \subseteq Store!Recorded(tx.graph)
    BY <1>2, <2>1 DEF RemoveByFile, Graph, Store!Graph, Store!Recorded
  <2>5. OneOperation(tx.graph)'
    BY <2>1, <2>3, <2>4 DEF OneOperation, Store!Recorded
  <2>6. Progress(t)'
    BY <2>1, <2>2, <2>3, <2>5 DEF Progress
  <2>7. tx' = [tx EXCEPT !.graph = tx.graph, !.revision = revision + 1] /\ revision + 1 \in Nat
    BY <1>2, <1>11, <2>1 DEF PutRemoval, Statement
  <2>8. pc[t] \in InTransaction /\ pc'[t] \in InTransaction
    BY <1>11, <2>2 DEF PutRemoval, InTransaction
  <2> QED
    BY <1>1, <1>2, <2>2, <2>3, <2>6, <2>7, <2>8, InsideStep
<1>12. CASE PutRebuilt(t)
  <2>1. /\ pc[t] = "put" /\ Op(t) = "rebuild" /\ job[t].base = revision
        /\ AllOpen(tx.graph) /\ \A f \in job[t].todo : job[t].read[f] # Absent
    BY <1>2, <1>12 DEF PutRebuilt, ThreadOK, Progress, ClaimsRemoved
  <2>2. ASSUME NEW f \in job[t].todo,
               Statement(PutFile(tx.graph, f, job[t].read[f]), tx.revision),
               job' = [job EXCEPT ![t].todo = @ \ {f}], UNCHANGED pc
        PROVE  IInv'
    <3>1. [job[t] EXCEPT !.todo = @ \ {f}] \in Job /\ f \in Files /\ job[t].read[f] \in Contents
      BY DEF Job
    <3>2. job' = [job EXCEPT ![t] = [job[t] EXCEPT !.todo = @ \ {f}]] /\ Goto(t, "put")
      BY <2>1, <2>2 DEF Goto
    <3>3. OnlyMoves(t) /\ pc'[t] = "put" /\ job'[t].base = job[t].base /\ job'[t].op = "rebuild"
      BY <1>3, <2>1, <3>1, <3>2, SameOperation, ZenonT(40) DEF Job, Op
    <3>4. PutFile(tx.graph, f, job[t].read[f]) \in Graph
      BY <1>2, <2>1, <3>1, ClaimsOK DEF InTransaction
    <3>5. AllOpen(PutFile(tx.graph, f, job[t].read[f]))
      BY <1>2, <2>1, <3>1 DEF InTransaction, PutFile, Graph, Store!Graph, AllOpen
    <3>6. AllOpen(tx.graph)'
      BY <1>2, <2>1, <2>2, <3>5 DEF Statement, Transaction, InTransaction, AllOpen
    <3>7. \A g \in job'[t].todo : job'[t].read[g] # Absent
      BY <2>1, <2>2 DEF Job
    <3>8. Progress(t)'
      BY <2>1, <2>2, <3>3, <3>6, <3>7 DEF Statement, Progress, ClaimsRemoved, Op
    <3> QED
      BY <1>1, <1>2, <2>1, <2>2, <3>3, <3>4, <3>8, InsideStep DEF Statement, InTransaction
  <2>3. CASE Statement(tx.graph, job[t].base + 1) /\ Goto(t, "commit") /\ UNCHANGED job
    <3>1. OnlyMoves(t) /\ pc'[t] = "commit"
      BY <1>3, <2>3, SameOperation
    <3>2. tx'.graph = tx.graph /\ tx'.revision = revision + 1
      BY <1>2, <2>1, <2>3 DEF Statement, Transaction, InTransaction
    <3>3. Progress(t)'
      BY <2>1, <2>3, <3>1, <3>2 DEF Statement, Progress, OneOperation, AllOpen
    <3>4. /\ tx' = [tx EXCEPT !.graph = tx.graph, !.revision = revision + 1]
          /\ revision + 1 \in Nat /\ UNCHANGED <<graph, revision>>
      BY <1>2, <2>1, <2>3 DEF Statement
    <3>5. pc[t] \in InTransaction /\ pc'[t] \in InTransaction
      BY <2>1, <3>1 DEF InTransaction
    <3> QED
      BY <1>1, <1>2, <3>1, <3>3, <3>4, <3>5, InsideStep
  <2> QED
    BY <1>12, <2>2, <2>3 DEF PutRebuilt
<1>13. CASE PutResolved(t)
  <2> DEFINE claims == Link(tx.graph, job[t].refs)
  <2>1. job[t].base = revision /\ tx.graph = graph /\ job[t].refs \in SUBSET Files
    BY <1>2, <1>13 DEF PutResolved, ThreadOK, Progress, ClaimsRemoved, Job
  <2>2. claims \in Graph
    BY <1>2, <2>1 DEF Link, Graph, Store!Graph
  <2>3. OnlyMoves(t) /\ pc'[t] = "commit"
    BY <1>3, <1>13, SameOperation DEF PutResolved
  <2>4. tx'.graph = claims /\ tx'.revision = revision + 1 /\ UNCHANGED <<graph, revision, job>>
    BY <1>2, <1>13, <2>1 DEF PutResolved, Statement, Transaction, InTransaction
  <2>5. /\ claims.content = graph.content /\ graph.edges \subseteq claims.edges
        /\ Store!Recorded(graph) \subseteq Store!Recorded(claims)
    BY <1>2, <2>1 DEF Link, Graph, Store!Graph, Store!Recorded
  <2>6. Progress(t)'
    BY <2>1, <2>3, <2>4, <2>5 DEF Progress, OneOperation, Store!Recorded
  <2>7. tx' = [tx EXCEPT !.graph = claims, !.revision = revision + 1] /\ revision + 1 \in Nat
    BY <1>2, <1>13, <2>1 DEF PutResolved, Statement
  <2>8. pc[t] \in InTransaction /\ pc'[t] \in InTransaction
    BY <1>13, <2>3 DEF PutResolved, InTransaction
  <2> HIDE DEF claims
  <2> QED
    BY <1>1, <2>2, <2>3, <2>4, <2>6, <2>7, <2>8, InsideStep
<1>14. CASE Commit(t)
  <2>1. Finish(t) \/ Continue(t) \/ Resolve(t)
    BY <1>14 DEF Commit, Succeed
  <2> QED
    BY <1>1, <1>2, <1>14, <2>1, MovesToNextJob, EndStep DEF Commit, CommitTransaction, InTransaction
<1> QED
    BY <1>4, <1>5, <1>6, <1>7, <1>8, <1>9, <1>10, <1>11, <1>12, <1>13, <1>14 DEF WriteStep

LEMMA TransactionFailsIInv ==
    ASSUME IInv, NEW t \in Threads, TransactionFails(t)
    PROVE  IInv'
<1>1. Finish(t) \/ Continue(t)
    BY DEF TransactionFails, Fail
<1>2. FrameOK'
    BY TypesOf, UpdatesAssumption DEF TransactionFails, FrameOK, treeVars
<1>3. graph' \in Graph /\ revision' \in Nat
    BY DEF TransactionFails, Rollback, IInv, TypeOK, StoreTypeOK
<1> QED
    BY <1>1, <1>2, <1>3, MovesToNextJob, EndStep DEF TransactionFails, Rollback

LEMMA TreeIInv ==
    ASSUME IInv, Waiting \/ \E f \in Files : Edit(f)
    PROVE  IInv'
<1>1. FrameOK'
    BY StoreAssumption, NoTransactionOK DEF IInv, TypeOK, FrameOK, Waiting, vars, Edit, counters, Contents
<1>2. UNCHANGED <<storeVars, pc, job>>
    BY DEF Waiting, vars, Edit
<1>3. TypeOK'
    BY <1>1, <1>2 DEF IInv, TypeOK, FrameOK, storeVars, StoreTypeOK
<1> QED
    BY <1>2, <1>3 DEF IInv, ThreadOK, FileKnown, Progress, ClaimsRemoved, OneOperation, Op, storeVars

LEMMA DaemonDiesIInv ==
    ASSUME IInv, DaemonDies
    PROVE  IInv'
<1>1. NoJob \in Job /\ NoJob.op = "none"
    BY StartOK DEF NoJob
<1>2. /\ pc' \in [Threads -> Steps] /\ job' \in [Threads -> Job]
      /\ \A t \in Threads : pc'[t] = "idle" /\ job'[t].op = "none"
    BY <1>1 DEF DaemonDies, Steps
<1>3. TypeOK'
    BY <1>2, UpdatesAssumption DEF IInv, TypeOK, StoreTypeOK, DaemonDies, Rollback
<1>4. ASSUME NEW t \in Threads PROVE ThreadOK(t)'
    BY <1>2, NoTransactionOK DEF DaemonDies, Rollback, ThreadOK, FileKnown, Op, Progress, InTransaction
<1> QED
    BY <1>3, <1>4 DEF IInv

-----------------------------------------------------------------------------
\* The results.

LEMMA InitIInv == Init => IInv
<1> SUFFICES ASSUME Init PROVE IInv
    OBVIOUS
<1> USE NoTransactionOK
<1>1. NoJob \in Job /\ NoJob.op = "none"
    BY StartOK DEF NoJob
<1>2. TypeOK
    BY <1>1, StoreAssumption, UpdatesAssumption
        DEF Init, StoreInit, TypeOK, StoreTypeOK, NoRead, Steps
<1>3. ASSUME NEW t \in Threads PROVE ThreadOK(t)
    BY <1>1 DEF Init, StoreInit, ThreadOK, FileKnown, Op, Progress, InTransaction
<1> QED
    BY <1>2, <1>3 DEF IInv

LEMMA NextIInv == IInv /\ [Next]_vars => IInv'
<1> SUFFICES ASSUME IInv, [Next]_vars PROVE IInv'
    OBVIOUS
<1>1. ASSUME NEW t \in Clients, ClientRequest(t) PROVE IInv'
    BY <1>1, RequestIInv
        DEF ClientRequest, RequestIndexAll, RequestRebuild, RequestSyncVcs, Threads
<1>2. CASE UNCHANGED vars
    BY <1>2 DEF vars, storeVars, IInv, TypeOK, StoreTypeOK, ThreadOK, FileKnown, Progress,
        ClaimsRemoved, OneOperation, Op
<1> QED
    BY <1>1, <1>2, ReadStepIInv, WriteStepIInv, TransactionFailsIInv, WatcherDrainsIInv,
        TreeIInv, DaemonDiesIInv DEF Next

\* In every reachable state the invariant the other results rest on holds.
THEOREM Invariance == Spec => []IInv
    BY InitIInv, NextIInv, PTL DEF Spec

\* Every reachable state is well typed.
THEOREM TypeCorrect == Spec => []TypeOK
<1>1. IInv => TypeOK
    BY DEF IInv
<1> QED
    BY <1>1, Invariance, PTL

\* On the one connection that all threads share, whoever issues a statement,
\* COMMIT or ROLLBACK is the thread whose transaction is open.
THEOREM TransactionsAreNotShared == Spec => []OwnTransaction
<1>1. IInv => OwnTransaction
    BY DEF IInv, ThreadOK, OwnTransaction
<1> QED
    BY <1>1, Invariance, PTL

\* A step that changes the committed graph is a COMMIT, and takes the graph by
\* one whole operation to the next revision.
LEMMA StepRefines ==
    ASSUME IInv, IInv', [Next]_vars
    PROVE  [Store!Next]_<<graph, revision>>
<1>1. ASSUME NEW t \in Threads, Commit(t) PROVE Store!Next
  <2>1. tx.revision = revision + 1 /\ OneOperation(tx.graph)
    BY <1>1 DEF Commit, IInv, ThreadOK, Progress
  <2>2. graph' = tx.graph /\ revision' = revision + 1 /\ graph' \in Graph
    BY <1>1, <2>1 DEF Commit, CommitTransaction, IInv, TypeOK, StoreTypeOK
  <2> QED
    BY <2>1, <2>2 DEF OneOperation, Store!Next, Store!ReplaceFile, Store!Resolve,
        Store!Rebuild, Store!Recorded, AllOpen, Graph, Absent
<1>2. ASSUME NEW t \in Threads, WriteStep(t), ~Commit(t) PROVE UNCHANGED <<graph, revision>>
    BY <1>2 DEF WriteStep, Begin, BeginWrite, BeginFails, ExpectRevision, RevisionConflict,
        Rollback, RemoveClaims, ClearGraph, PutClaims, PutRemoval, PutRebuilt, PutResolved,
        Statement, storeVars
<1>3. ASSUME NEW t \in Threads, ReadStep(t) \/ TransactionFails(t)
      PROVE  UNCHANGED <<graph, revision>>
    BY <1>3 DEF ReadStep, VisitFile, CollectSnapshot, WalkEnds, ReadBase, ReadUnresolved,
        ReadTargets, TransactionFails, Rollback, storeVars
<1>4. ASSUME NEW t \in Clients, ClientRequest(t) PROVE UNCHANGED <<graph, revision>>
    BY <1>4 DEF ClientRequest, RequestIndexAll, RequestRebuild, RequestSyncVcs, Request, storeVars
<1>5. CASE \/ WatcherDrains \/ DaemonDies \/ Waiting \/ UNCHANGED vars
           \/ \E f \in Files : Edit(f)
    BY <1>5 DEF WatcherDrains, DaemonDies, Rollback, Waiting, Edit, vars, storeVars
<1> QED
    BY <1>1, <1>2, <1>3, <1>4, <1>5 DEF Next

\* However transactions, stale plans, failures and deaths interleave, readers
\* of the committed database see whole operations, one revision each.
THEOREM StoreIsRevisioned == Spec => Revisioned
<1>1. Init => Store!Init
    BY DEF Init, StoreInit, Store!Init, EmptyGraph
<1>2. IInv /\ IInv' /\ [Next]_vars => [Store!Next]_<<graph, revision>>
    BY StepRefines
<1> QED
    BY <1>1, <1>2, Invariance, PTL DEF Spec, Revisioned, Store!Spec

-----------------------------------------------------------------------------
(***************************************************************************)
(* While no transaction fails, every reference is on record exactly once   *)
(* (ReferencesAccounted).                                                  *)
(*                                                                         *)
(* The difficulty is resolve_existing, which plans on whatever claims and  *)
(* revision the shared connection shows, those of an open transaction      *)
(* included. PlanSound says why a plan that passes expect_revision is      *)
(* right nevertheless: a plan on uncommitted claims either carries the     *)
(* revision they will be committed with, or one that will be outdated.     *)
(***************************************************************************)

Accounted(claims) ==
    /\ claims.unresolved \cap claims.edges = {}
    /\ claims.unresolved \cup claims.edges = {f \in Files : claims.content[f] # Absent}

\* A thread that has passed expect_revision: if nothing fails, it commits.
Committing(s) == pc[s] \in {"remove", "put", "commit"}

PlanSound(t) ==
    Op(t) = "resolve" /\ pc[t] \in {"refs", "targets", "begin", "expect"} =>
        \/ job[t].base < revision
        \/ job[t].base = revision /\ \E s \in Threads : Committing(s)
        \/ job[t].base = revision /\ job[t].refs \subseteq graph.unresolved
        \/ /\ job[t].base = revision + 1
           /\ job[t].refs \subseteq tx.graph.unresolved
           /\ \E s \in Threads : pc[s] = "commit"

\* The parts that speak of a thread's own work.
WorkSound(t) ==
    /\ pc[t] = "next" => Op(t) = "none"
    /\ Op(t) = "update" => job[t].read[job[t].file] # Absent
    /\ Op(t) = "resolve" /\ pc[t] = "base" => job[t].refs = {}
    /\ Op(t) = "resolve" /\ pc[t] = "put" => job[t].refs \subseteq tx.graph.unresolved
    /\ pc[t] \in InTransaction => Accounted(tx.graph)
    /\ pc[t] \in {"remove", "put"} => tx.revision <= revision

RInv ==
    failures = 0 =>
        /\ Accounted(graph)
        /\ \A t \in Threads : WorkSound(t) /\ PlanSound(t)

-----------------------------------------------------------------------------
\* What a step of one thread leaves of the others' part.

\* Only the owner of the transaction can be committing.
LEMMA OneCommits ==
    ASSUME IInv, NEW t \in Threads, NEW s \in Threads, pc[t] \in InTransaction, s # t
    PROVE  pc[s] \notin InTransaction /\ ~Committing(s)
    BY DEF IInv, ThreadOK, Committing, InTransaction

LEMMA OutsideKeeps ==
    ASSUME IInv, RInv, failures = 0, NEW t \in Threads, OnlyMoves(t), UNCHANGED storeVars,
           pc[t] \notin InTransaction, pc'[t] \notin InTransaction, NEW s \in Threads \ {t}
    PROVE  WorkSound(s)' /\ PlanSound(s)'
<1>1. WorkSound(s) /\ PlanSound(s)
    BY DEF RInv
<1>2. \A r \in Threads : Committing(r) => Committing(r)' /\ pc'[r] = pc[r]
    BY DEF OnlyMoves, Committing, InTransaction
<1>3. \A r \in Threads : pc[r] = "commit" => pc'[r] = "commit"
    BY <1>2 DEF Committing
<1>4. UNCHANGED <<graph, revision, tx>> /\ pc'[s] = pc[s] /\ job'[s] = job[s]
    BY DEF OnlyMoves, storeVars
<1>5. WorkSound(s)'
    BY <1>1, <1>4 DEF WorkSound, Op, Accounted
<1>6. PlanSound(s)'
    BY <1>1, <1>2, <1>3, <1>4 DEF PlanSound, Op
<1> QED
    BY <1>5, <1>6

LEMMA BeginKeeps ==
    ASSUME IInv, RInv, failures = 0, NEW t \in Threads, OnlyMoves(t), BeginWrite(t),
           pc[t] \notin InTransaction, pc'[t] = "expect", NEW s \in Threads \ {t}
    PROVE  WorkSound(s)' /\ PlanSound(s)'
<1>1. WorkSound(s) /\ PlanSound(s)
    BY DEF RInv
<1>2. \A r \in Threads : pc[r] \notin InTransaction
    BY NoTransactionOK DEF BeginWrite, IInv, ThreadOK
<1>3. \A r \in Threads : ~Committing(r)
    BY <1>2 DEF Committing, InTransaction
<1>4. UNCHANGED <<graph, revision>> /\ pc'[s] = pc[s] /\ job'[s] = job[s]
    BY DEF OnlyMoves, BeginWrite
<1>5. WorkSound(s)'
    BY <1>1, <1>2, <1>4 DEF WorkSound, Op, InTransaction
<1>6. \A r \in Threads : pc[r] # "commit"
    BY <1>3 DEF Committing
<1>7. PlanSound(s)'
    BY <1>1, <1>3, <1>4, <1>6 DEF PlanSound, Op
<1> QED
    BY <1>5, <1>7

\* A step of the transaction of t that is not its last.
LEMMA InsideKeeps ==
    ASSUME IInv, RInv, failures = 0, NEW t \in Threads, OnlyMoves(t),
           UNCHANGED <<graph, revision>>, pc[t] \in {"expect", "remove", "put"},
           pc'[t] \in {"remove", "put", "commit"}, NEW s \in Threads \ {t}
    PROVE  WorkSound(s)' /\ PlanSound(s)'
<1>1. WorkSound(s) /\ PlanSound(s)
    BY DEF RInv
<1>2. pc[s] \notin InTransaction /\ \A r \in Threads : pc[r] # "commit"
    BY OneCommits DEF InTransaction
<1>3. Committing(t)'
    BY DEF Committing
<1>4. pc'[s] = pc[s] /\ job'[s] = job[s]
    BY DEF OnlyMoves
<1>5. WorkSound(s)'
    BY <1>1, <1>2, <1>4 DEF WorkSound, Op, InTransaction
<1>6. PlanSound(s)'
    BY <1>1, <1>2, <1>3, <1>4 DEF PlanSound, Op
<1> QED
    BY <1>5, <1>6

LEMMA RollbackKeeps ==
    ASSUME IInv, RInv, failures = 0, NEW t \in Threads, OnlyMoves(t), Rollback,
           pc[t] = "expect", pc'[t] \notin InTransaction, NEW s \in Threads \ {t}
    PROVE  WorkSound(s)' /\ PlanSound(s)'
<1>1. WorkSound(s) /\ PlanSound(s)
    BY DEF RInv
<1>2. pc[s] \notin InTransaction /\ \A r \in Threads : ~Committing(r) /\ pc[r] # "commit"
    BY OneCommits DEF InTransaction, Committing
<1>3. UNCHANGED <<graph, revision>> /\ pc'[s] = pc[s] /\ job'[s] = job[s]
    BY DEF OnlyMoves, Rollback
<1>4. WorkSound(s)'
    BY <1>1, <1>2, <1>3 DEF WorkSound, Op, InTransaction
<1>5. PlanSound(s)'
    BY <1>1, <1>2, <1>3 DEF PlanSound, Op
<1> QED
    BY <1>4, <1>5

\* A plan that counted on this commit is now a plan on the committed graph.
LEMMA CommitKeeps ==
    ASSUME IInv, RInv, failures = 0, NEW t \in Threads, OnlyMoves(t), CommitTransaction,
           pc[t] = "commit", pc'[t] \notin InTransaction, NEW s \in Threads \ {t}
    PROVE  WorkSound(s)' /\ PlanSound(s)'
<1>1. WorkSound(s) /\ PlanSound(s)
    BY DEF RInv
<1>2. pc[s] \notin InTransaction
    BY OneCommits DEF InTransaction
<1>3. graph' = tx.graph /\ revision' = revision + 1 /\ revision \in Nat
    BY DEF CommitTransaction, IInv, TypeOK, StoreTypeOK, ThreadOK, Progress
<1>4. pc'[s] = pc[s] /\ job'[s] = job[s] /\ job[s].base \in Nat
    BY DEF OnlyMoves, IInv, TypeOK, Job
<1>5. WorkSound(s)'
    BY <1>1, <1>2, <1>4 DEF WorkSound, Op, InTransaction
<1>6. PlanSound(s)'
    BY <1>1, <1>3, <1>4 DEF PlanSound, Op
<1> QED
    BY <1>5, <1>6

-----------------------------------------------------------------------------
\* The thread that takes the step.

LEMMA StepMoves ==
    ASSUME IInv, IInv', NEW t \in Threads, ReadStep(t) \/ WriteStep(t)
    PROVE  OnlyMoves(t) /\ UNCHANGED failures
<1>1. \A s \in Threads \ {t} : pc'[s] = pc[s] /\ job'[s] = job[s]
  <2> USE TypesOf DEF Goto, Finish, Continue, Resolve
  <2>1. ASSUME NEW f \in Files, VisitFile(t, f) \/ CollectSnapshot(t, f)
        PROVE  \A s \in Threads \ {t} : pc'[s] = pc[s] /\ job'[s] = job[s]
    BY <2>1 DEF VisitFile, CollectSnapshot, Operate, Skip
  <2>2. CASE WalkEnds(t) \/ ReadBase(t) \/ ReadUnresolved(t) \/ ReadTargets(t)
    BY <2>2 DEF WalkEnds, ReadBase, ReadUnresolved, ReadTargets
  <2>3. CASE Begin(t) \/ BeginFails(t) \/ ExpectRevision(t) \/ RevisionConflict(t) \/ Commit(t)
    BY <2>3 DEF Begin, BeginFails, ExpectRevision, RevisionConflict, Commit, Fail, Succeed
  <2>4. CASE \/ RemoveClaims(t) \/ ClearGraph(t) \/ PutClaims(t) \/ PutRemoval(t)
             \/ PutRebuilt(t) \/ PutResolved(t)
    BY <2>4 DEF RemoveClaims, ClearGraph, PutClaims, PutRemoval, PutRebuilt, PutResolved
  <2> QED
    BY <2>1, <2>2, <2>3, <2>4 DEF ReadStep, WriteStep
<1>2. pc' \in [Threads -> Steps] /\ job' \in [Threads -> Job] /\ FileKnown(t)'
    BY DEF IInv, TypeOK, ThreadOK
<1>3. UNCHANGED failures
    BY DEF ReadStep, WriteStep, VisitFile, CollectSnapshot, WalkEnds, ReadBase, ReadUnresolved,
        ReadTargets, Begin, BeginFails, ExpectRevision, RevisionConflict, RemoveClaims,
        ClearGraph, PutClaims, PutRemoval, PutRebuilt, PutResolved, Commit, counters
<1> QED
    BY <1>1, <1>2, <1>3 DEF OnlyMoves

\* A thread that turns to its next job has nothing yet that could be wrong.
LEMMA NewJobSound ==
    ASSUME IInv, NEW t \in Threads, Finish(t) \/ Continue(t) \/ Resolve(t)
    PROVE  WorkSound(t)' /\ PlanSound(t)'
<1> USE TypesOf DEF Goto, Start, WorkSound, PlanSound, Op, InTransaction
<1>1. CASE Finish(t)
    BY <1>1 DEF Finish, NoJob
<1>2. CASE Continue(t)
    BY <1>2 DEF Continue
<1>3. CASE Resolve(t)
    BY <1>3 DEF Resolve
<1> QED
    BY <1>1, <1>2, <1>3

\* A plan starts: with no references yet, it can only be late.
LEMMA ReadBaseSound ==
    ASSUME IInv, RInv, failures = 0, NEW t \in Threads, ReadBase(t)
    PROVE  WorkSound(t)' /\ PlanSound(t)'
<1> USE TypesOf
<1>1. /\ UNCHANGED <<graph, revision, tx>> /\ pc[t] = "base" /\ WorkSound(t)
      /\ revision \in Nat
    BY DEF ReadBase, storeVars, RInv, IInv, TypeOK, StoreTypeOK
<1>2. /\ job'[t].base = VisibleRevision /\ job'[t].op = job[t].op
      /\ job'[t].refs = job[t].refs /\ job'[t].read = job[t].read /\ job'[t].file = job[t].file
    BY DEF ReadBase, Job
<1>3. pc'[t] = IF Op(t) = "resolve" THEN "refs" ELSE "begin"
    BY DEF ReadBase, Goto
<1>4. WorkSound(t)'
    BY <1>1, <1>2, <1>3 DEF WorkSound, Op, InTransaction
<1>5. ASSUME Op(t) = "resolve" PROVE PlanSound(t)'
  <2>1. job'[t].refs = {}
    BY <1>1, <1>2, <1>5 DEF WorkSound
  <2>2. CASE tx.owner = NoThread
    BY <1>1, <1>2, <2>1, <2>2 DEF PlanSound, VisibleRevision
  <2>3. ASSUME NEW s \in Threads, tx.owner = s PROVE PlanSound(t)'
    <3>1. pc[s] \in InTransaction /\ s # t /\ ThreadOK(s) /\ WorkSound(s)
      BY <1>1, <2>3 DEF IInv, RInv, ThreadOK, InTransaction
    <3>2. pc'[s] = pc[s] /\ VisibleRevision = tx.revision /\ tx.revision \in Nat
      BY <2>3, <3>1, NoTransactionOK, VisibleOK
          DEF ReadBase, Goto, VisibleRevision, IInv, TypeOK
    <3>3. CASE pc[s] = "expect"
      BY <1>1, <1>2, <2>1, <3>1, <3>2, <3>3 DEF ThreadOK, Progress, PlanSound
    <3>4. CASE pc[s] \in {"remove", "put"}
      BY <1>1, <1>2, <3>1, <3>2, <3>4 DEF WorkSound, PlanSound, Committing
    <3>5. CASE pc[s] = "commit"
      BY <1>1, <1>2, <2>1, <3>1, <3>2, <3>5 DEF ThreadOK, Progress, PlanSound
    <3> QED
      BY <3>1, <3>3, <3>4, <3>5 DEF InTransaction
  <2> QED
    BY <2>2, <2>3, NoTransactionOK DEF IInv, TypeOK, StoreTypeOK, Transaction
<1>6. ASSUME Op(t) # "resolve" PROVE PlanSound(t)'
    BY <1>2, <1>6 DEF PlanSound, Op
<1> QED
    BY <1>4, <1>5, <1>6

\* What is unresolved now, with the revision read before: between the two, a
\* transaction may have come or gone.
LEMMA ReadUnresolvedSound ==
    ASSUME IInv, RInv, failures = 0, NEW t \in Threads, ReadUnresolved(t)
    PROVE  WorkSound(t)' /\ PlanSound(t)'
<1> USE TypesOf
<1>1. UNCHANGED <<graph, revision, tx>> /\ pc[t] = "refs" /\ WorkSound(t) /\ PlanSound(t)
    BY DEF ReadUnresolved, storeVars, RInv
<1>2. CASE Finish(t)
    BY <1>2, NewJobSound
<1>3. CASE Goto(t, "targets") /\ job' = [job EXCEPT ![t].refs = VisibleGraph.unresolved]
  <2>1. /\ pc'[t] = "targets" /\ job'[t].refs = VisibleGraph.unresolved
        /\ job'[t].base = job[t].base /\ job'[t].op = job[t].op
        /\ job'[t].read = job[t].read /\ job'[t].file = job[t].file
        /\ \A s \in Threads \ {t} : pc'[s] = pc[s]
    BY <1>3 DEF Goto, Job
  <2>2. WorkSound(t)'
    BY <1>1, <2>1 DEF WorkSound, Op, InTransaction
  <2>3. \A s \in Threads : (Committing(s) => Committing(s)') /\ (pc[s] = "commit" => pc'[s] = "commit")
    BY <1>1, <2>1 DEF Committing
  <2>4. ASSUME Op(t) = "resolve" PROVE PlanSound(t)'
    <3>1. CASE job[t].base < revision
      BY <1>1, <2>1, <3>1 DEF PlanSound
    <3>2. CASE job[t].base = revision /\ \E s \in Threads : Committing(s)
      BY <1>1, <2>1, <2>3, <3>2 DEF PlanSound
    <3>3. CASE job[t].base = revision /\ \A s \in Threads : ~Committing(s)
      <4>1. VisibleGraph.unresolved = graph.unresolved
        BY <3>3, NoTransactionOK DEF IInv, ThreadOK, Progress, InTransaction, Committing,
            VisibleGraph, TypeOK, StoreTypeOK, Transaction
      <4> QED
        BY <1>1, <2>1, <3>3, <4>1 DEF PlanSound
    <3>4. CASE job[t].base = revision + 1 /\ \E s \in Threads : pc[s] = "commit"
      <4>1. VisibleGraph = tx.graph
        BY <3>4, NoTransactionOK DEF IInv, ThreadOK, InTransaction, VisibleGraph
      <4> QED
        BY <1>1, <2>1, <2>3, <3>4, <4>1 DEF PlanSound
    <3> QED
      BY <1>1, <2>4, <3>1, <3>2, <3>3, <3>4 DEF PlanSound
  <2>5. ASSUME Op(t) # "resolve" PROVE PlanSound(t)'
    BY <2>1, <2>5 DEF PlanSound, Op
  <2> QED
    BY <2>2, <2>4, <2>5
<1> QED
    BY <1>2, <1>3 DEF ReadUnresolved

LEMMA ReadTargetsSound ==
    ASSUME IInv, RInv, failures = 0, NEW t \in Threads, ReadTargets(t)
    PROVE  WorkSound(t)' /\ PlanSound(t)'
<1> USE TypesOf
<1>1. UNCHANGED <<graph, revision, tx>> /\ pc[t] = "targets" /\ WorkSound(t) /\ PlanSound(t)
    BY DEF ReadTargets, storeVars, RInv
<1>2. /\ pc'[t] = "begin" /\ job'[t].refs \subseteq job[t].refs
      /\ job'[t].base = job[t].base /\ job'[t].op = job[t].op
      /\ job'[t].read = job[t].read /\ job'[t].file = job[t].file
      /\ \A s \in Threads \ {t} : pc'[s] = pc[s]
    BY DEF ReadTargets, Goto, Job
<1>3. \A s \in Threads : (Committing(s) => Committing(s)') /\ (pc[s] = "commit" => pc'[s] = "commit")
    BY <1>1, <1>2 DEF Committing
<1>4. WorkSound(t)'
    BY <1>1, <1>2 DEF WorkSound, Op, InTransaction
<1>5. PlanSound(t)'
    BY <1>1, <1>2, <1>3 DEF PlanSound, Op
<1> QED
    BY <1>4, <1>5

LEMMA ReadStepRInv ==
    ASSUME IInv, IInv', RInv, NEW t \in Threads, ReadStep(t)
    PROVE  RInv'
<1> SUFFICES ASSUME failures = 0 PROVE RInv'
    BY StepMoves DEF RInv
<1> USE TypesOf
<1>1. UNCHANGED storeVars /\ pc[t] \notin InTransaction /\ Accounted(graph) /\ WorkSound(t)
    BY DEF ReadStep, VisitFile, CollectSnapshot, WalkEnds, ReadBase, ReadUnresolved,
        ReadTargets, RInv, InTransaction
<1>2. pc'[t] \notin InTransaction
    BY DEF ReadStep, VisitFile, CollectSnapshot, WalkEnds, ReadBase, ReadUnresolved,
        ReadTargets, Operate, Skip, Finish, Resolve, Goto, InTransaction
<1>3. SUFFICES WorkSound(t)' /\ PlanSound(t)'
    BY <1>1, <1>2, StepMoves, OutsideKeeps DEF RInv, storeVars, Accounted
<1>4. ASSUME NEW f \in Files, VisitFile(t, f) PROVE WorkSound(t)' /\ PlanSound(t)'
  <2>1. ASSUME NEW op \in {"update", "remove"}, Operate(t, op, f), op = "update" => source[f] # Absent
        PROVE  WorkSound(t)' /\ PlanSound(t)'
    <3>1. /\ pc'[t] = "base" /\ job'[t].op = op /\ job'[t].file = f
          /\ op = "update" => job'[t].read[f] # Absent
      BY <2>1 DEF Operate, Goto, Start, NoRead
    <3> QED
      BY <3>1 DEF WorkSound, PlanSound, Op, InTransaction
  <2>2. CASE Skip(t, f)
    <3>1. pc'[t] = "next" /\ job'[t].op = "none"
      BY <1>1, <1>4, <2>2 DEF VisitFile, Skip, WorkSound, Op, Job
    <3> QED
      BY <3>1 DEF WorkSound, PlanSound, Op, InTransaction
  <2> QED
    BY <1>4, <2>1, <2>2 DEF VisitFile
<1>5. ASSUME NEW f \in Files, CollectSnapshot(t, f) PROVE WorkSound(t)' /\ PlanSound(t)'
  <2>1. pc'[t] = "next" /\ job'[t].op = "none"
    BY <1>1, <1>5 DEF CollectSnapshot, WorkSound, Op, Job
  <2> QED
    BY <2>1 DEF WorkSound, PlanSound, Op, InTransaction
<1>6. CASE WalkEnds(t)
  <2>1. CASE Goto(t, "base") /\ job' = [job EXCEPT ![t].op = "rebuild"]
    <3>1. pc'[t] = "base" /\ job'[t].op = "rebuild"
      BY <2>1 DEF Goto, Job
    <3> QED
      BY <3>1 DEF WorkSound, PlanSound, Op, InTransaction
  <2> QED
    BY <1>6, <2>1, NewJobSound DEF WalkEnds
<1> QED
    BY <1>4, <1>5, <1>6, ReadBaseSound, ReadUnresolvedSound, ReadTargetsSound DEF ReadStep

-----------------------------------------------------------------------------
\* The steps of a transaction.

\* What the statements make of claims that are accounted for.
LEMMA StatementsAccount ==
    ASSUME NEW claims \in Graph, Accounted(claims), NEW f \in Files,
           NEW c \in Contents, c # Absent, NEW refs \in SUBSET claims.unresolved
    PROVE  /\ Accounted(EmptyGraph)
           /\ Accounted(RemoveByFile(claims, f))
           /\ f \notin claims.edges => Accounted(PutFile(claims, f, c))
           /\ Accounted(Link(claims, refs))
<1> USE DEF Accounted, Graph, Store!Graph
<1>1. Accounted(EmptyGraph)
    BY DEF EmptyGraph, Store!EmptyGraph, Absent
<1>2. Accounted(RemoveByFile(claims, f))
    BY DEF RemoveByFile
<1>3. f \notin claims.edges => Accounted(PutFile(claims, f, c))
    BY DEF PutFile
<1>4. Accounted(Link(claims, refs))
    BY DEF Link
<1> QED
    BY <1>1, <1>2, <1>3, <1>4

LEMMA BeginRInv ==
    ASSUME IInv, IInv', RInv, failures = 0, NEW t \in Threads, Begin(t)
    PROVE  RInv'
<1> USE TypesOf
<1>1. /\ pc[t] = "begin" /\ pc'[t] = "expect" /\ UNCHANGED <<graph, revision, job>>
      /\ tx'.graph = graph /\ Accounted(graph) /\ WorkSound(t) /\ PlanSound(t)
    BY DEF Begin, BeginWrite, Goto, RInv
<1>2. \A s \in Threads : ~Committing(s) /\ pc[s] # "commit"
    BY NoTransactionOK DEF Begin, BeginWrite, IInv, ThreadOK, Committing, InTransaction
<1>3. WorkSound(t)'
    BY <1>1 DEF WorkSound, Op, Accounted
<1>4. PlanSound(t)'
    BY <1>1, <1>2 DEF PlanSound, Op
<1>5. ASSUME NEW s \in Threads \ {t} PROVE WorkSound(s)' /\ PlanSound(s)'
    BY <1>1, StepMoves, BeginKeeps DEF WriteStep, Begin, InTransaction
<1> QED
    BY <1>1, <1>3, <1>4, <1>5 DEF RInv, Accounted

LEMMA BeginFailsRInv ==
    ASSUME IInv, IInv', RInv, failures = 0, NEW t \in Threads, BeginFails(t)
    PROVE  RInv'
<1>1. Finish(t) \/ Continue(t)
    BY DEF BeginFails, Fail
<1>2. UNCHANGED storeVars /\ pc[t] \notin InTransaction /\ pc'[t] \notin InTransaction
    BY <1>1, MovesToNextJob DEF BeginFails, InTransaction
<1> QED
    BY <1>1, <1>2, StepMoves, OutsideKeeps, NewJobSound DEF WriteStep, RInv, storeVars, Accounted

\* A plan of resolve that passes is one made of what is unresolved in the
\* committed graph.
LEMMA ExpectRevisionRInv ==
    ASSUME IInv, IInv', RInv, failures = 0, NEW t \in Threads, ExpectRevision(t)
    PROVE  RInv'
<1> USE TypesOf
<1>1. /\ pc[t] = "expect" /\ UNCHANGED <<graph, revision, tx, job>>
      /\ tx.graph = graph /\ tx.revision = revision /\ job[t].base = revision
      /\ revision \in Nat /\ Accounted(graph) /\ WorkSound(t) /\ PlanSound(t)
    BY DEF ExpectRevision, storeVars, RInv, IInv, TypeOK, StoreTypeOK, ThreadOK, Progress
<1>2. pc'[t] = IF Op(t) = "resolve" THEN "put" ELSE "remove"
    BY DEF ExpectRevision, Goto
<1>3. \A s \in Threads : ~Committing(s)
    BY <1>1, OneCommits DEF InTransaction, Committing
<1>4. Op(t) = "resolve" => job[t].refs \subseteq tx.graph.unresolved
    BY <1>1, <1>3 DEF PlanSound
<1>5. WorkSound(t)' /\ PlanSound(t)'
    BY <1>1, <1>2, <1>4 DEF WorkSound, PlanSound, Op, Accounted
<1>6. ASSUME NEW s \in Threads \ {t} PROVE WorkSound(s)' /\ PlanSound(s)'
    BY <1>1, <1>2, StepMoves, InsideKeeps DEF WriteStep
<1> QED
    BY <1>1, <1>5, <1>6 DEF RInv, Accounted

LEMMA RevisionConflictRInv ==
    ASSUME IInv, IInv', RInv, failures = 0, NEW t \in Threads, RevisionConflict(t)
    PROVE  RInv'
<1> USE TypesOf
<1>1. pc[t] = "expect" /\ UNCHANGED <<graph, revision>> /\ WorkSound(t)
    BY DEF RevisionConflict, Rollback, RInv
<1>2. pc'[t] \notin InTransaction /\ WorkSound(t)' /\ PlanSound(t)'
  <2>1. CASE Finish(t) \/ Continue(t)
    BY <2>1, MovesToNextJob, NewJobSound
  <2>2. CASE /\ Op(t) \in {"update", "remove"}
             /\ Goto(t, "base") /\ job' = [job EXCEPT ![t].retried = TRUE]
    <3>1. /\ pc'[t] = "base" /\ job'[t].op = job[t].op
          /\ job'[t].read = job[t].read /\ job'[t].file = job[t].file
      BY <2>2 DEF Goto, Job
    <3> QED
      BY <1>1, <2>2, <3>1 DEF WorkSound, PlanSound, Op, InTransaction
  <2> QED
    BY <2>1, <2>2 DEF RevisionConflict, Fail
<1>3. ASSUME NEW s \in Threads \ {t} PROVE WorkSound(s)' /\ PlanSound(s)'
    BY <1>1, <1>2, StepMoves, RollbackKeeps DEF WriteStep, RevisionConflict
<1> QED
    BY <1>1, <1>2, <1>3 DEF RInv, Accounted

\* A statement is right if it leaves the transaction's claims accounted for.
LEMMA StatementRInv ==
    ASSUME IInv, IInv', RInv, failures = 0, NEW t \in Threads, WriteStep(t),
           pc[t] \in {"remove", "put"}, pc'[t] \in {"put", "commit"},
           NEW claims \in Graph, NEW rev \in Nat, Statement(claims, rev),
           Accounted(claims), pc'[t] = "put" => rev <= revision /\ Op(t) # "resolve",
           job'[t].op = job[t].op, job'[t].read = job[t].read, job'[t].file = job[t].file
    PROVE  RInv'
<1>1. UNCHANGED <<graph, revision>> /\ tx'.graph = claims /\ tx'.revision = rev
  <2>1. tx \in Transaction
    BY NoTransactionOK DEF IInv, TypeOK, StoreTypeOK, ThreadOK, InTransaction
  <2> QED
    BY <2>1 DEF Statement, Transaction
<1>2. WorkSound(t)' /\ PlanSound(t)'
    BY <1>1 DEF RInv, WorkSound, PlanSound, Op, InTransaction, Accounted
<1>3. ASSUME NEW s \in Threads \ {t} PROVE WorkSound(s)' /\ PlanSound(s)'
    BY <1>1, StepMoves, InsideKeeps
<1> QED
    BY <1>1, <1>2, <1>3, StepMoves DEF RInv, Accounted

LEMMA PutsRInv ==
    ASSUME IInv, IInv', RInv, failures = 0, NEW t \in Threads,
           PutClaims(t) \/ PutRemoval(t) \/ PutRebuilt(t) \/ PutResolved(t)
    PROVE  RInv'
<1> USE TypesOf
<1>1. /\ WriteStep(t) /\ pc[t] = "put" /\ ThreadOK(t)
      /\ tx.graph \in Graph /\ Accounted(tx.graph) /\ WorkSound(t)
      /\ revision \in Nat /\ job[t].base = revision
    BY NoTransactionOK DEF WriteStep, PutClaims, PutRemoval, PutRebuilt, PutResolved, RInv,
        WorkSound, InTransaction, IInv, TypeOK, StoreTypeOK, Transaction, ThreadOK, Progress
<1>2. CASE PutClaims(t)
  <2> DEFINE f == job[t].file
             put == PutFile(tx.graph, f, job[t].read[f])
             claims == Link(put, Seeking(put, f))
  <2>1. f \in Files /\ tx.graph = RemoveByFile(graph, f) /\ job[t].read[f] # Absent
    BY <1>1, <1>2 DEF PutClaims, ThreadOK, FileKnown, Progress, ClaimsRemoved, WorkSound
  <2>2. job[t].read[f] \in Contents
    BY <2>1 DEF Job
  <2>3. put \in Graph
    BY <1>1, <2>1, <2>2, ClaimsOK
  <2>4. Accounted(put)
    BY <1>1, <2>1, <2>2, StatementsAccount DEF RemoveByFile
  <2>5. Seeking(put, f) \in SUBSET put.unresolved /\ Seeking(put, f) \in SUBSET Files
    <3> HIDE DEF put
    <3> QED
      BY <2>3 DEF Seeking, Graph, Store!Graph
  <2>6. claims \in Graph /\ Accounted(claims)
    <3> HIDE DEF put
    <3> QED
      BY <2>1, <2>2, <2>3, <2>4, <2>5, ClaimsOK, StatementsAccount
  <2>7. Statement(claims, revision + 1) /\ pc'[t] = "commit" /\ UNCHANGED job
    BY <1>1, <1>2 DEF PutClaims, Goto
  <2> HIDE DEF claims
  <2> QED
    BY <1>1, <2>6, <2>7, StatementRInv
<1>3. CASE PutRemoval(t)
  <2>1. Statement(tx.graph, revision + 1) /\ pc'[t] = "commit" /\ UNCHANGED job
    BY <1>1, <1>3 DEF PutRemoval, Goto
  <2> QED
    BY <1>1, <2>1, StatementRInv
<1>4. CASE PutRebuilt(t)
  <2>1. /\ Op(t) = "rebuild" /\ AllOpen(tx.graph) /\ tx.revision \in Nat
        /\ tx.revision <= revision
    BY <1>1, <1>4, NoTransactionOK DEF PutRebuilt, ThreadOK, Progress, ClaimsRemoved,
        WorkSound, InTransaction, IInv, TypeOK, StoreTypeOK, Transaction
  <2>2. ASSUME NEW f \in job[t].todo,
               Statement(PutFile(tx.graph, f, job[t].read[f]), tx.revision),
               job' = [job EXCEPT ![t].todo = @ \ {f}], UNCHANGED pc
        PROVE  RInv'
    <3>1. f \in Files /\ job[t].read[f] \in Contents /\ job[t].read[f] # Absent
      BY <1>1, <2>1 DEF ThreadOK, Progress, ClaimsRemoved, Job
    <3>2. PutFile(tx.graph, f, job[t].read[f]) \in Graph
      BY <1>1, <3>1, ClaimsOK
    <3>3. Accounted(PutFile(tx.graph, f, job[t].read[f]))
      BY <1>1, <2>1, <3>1, StatementsAccount DEF AllOpen
    <3>4. job'[t].op = job[t].op /\ job'[t].read = job[t].read /\ job'[t].file = job[t].file
      BY <2>2 DEF Job
    <3> QED
      BY <1>1, <2>1, <2>2, <3>2, <3>3, <3>4, StatementRInv
  <2>3. CASE Statement(tx.graph, job[t].base + 1) /\ Goto(t, "commit") /\ UNCHANGED job
    BY <1>1, <2>3, StatementRInv DEF Goto
  <2> QED
    BY <1>4, <2>2, <2>3 DEF PutRebuilt
<1>5. CASE PutResolved(t)
  <2>1. job[t].refs \in SUBSET tx.graph.unresolved /\ job[t].refs \in SUBSET Files
    BY <1>1, <1>5 DEF PutResolved, WorkSound, Job
  <2>2. Link(tx.graph, job[t].refs) \in Graph
    BY <1>1, <2>1 DEF Link, Graph, Store!Graph
  <2>3. Accounted(Link(tx.graph, job[t].refs))
    BY <1>1, <2>1 DEF Accounted, Link, Graph, Store!Graph
  <2>4. Statement(Link(tx.graph, job[t].refs), revision + 1) /\ pc'[t] = "commit" /\ UNCHANGED job
    BY <1>1, <1>5 DEF PutResolved, Goto
  <2> QED
    BY <1>1, <2>2, <2>3, <2>4, StatementRInv
<1> QED
    BY <1>2, <1>3, <1>4, <1>5

LEMMA DeletesRInv ==
    ASSUME IInv, IInv', RInv, failures = 0, NEW t \in Threads, RemoveClaims(t) \/ ClearGraph(t)
    PROVE  RInv'
<1> USE TypesOf
<1>1. /\ WriteStep(t) /\ pc[t] = "remove" /\ pc'[t] = "put" /\ ThreadOK(t)
      /\ tx \in Transaction /\ tx.graph \in Graph /\ Accounted(tx.graph)
      /\ tx.revision \in Nat /\ tx.revision <= revision /\ revision \in Nat
    BY NoTransactionOK DEF WriteStep, RemoveClaims, ClearGraph, Goto, RInv, WorkSound,
        InTransaction, IInv, TypeOK, StoreTypeOK, Transaction, ThreadOK
<1>2. CASE RemoveClaims(t)
  <2>1. job[t].file \in Files
    BY <1>1, <1>2 DEF RemoveClaims, ThreadOK, FileKnown
  <2>2. RemoveByFile(tx.graph, job[t].file) \in Graph
    BY <1>1, <2>1, ClaimsOK, NoTransactionOK
  <2>3. Accounted(RemoveByFile(tx.graph, job[t].file))
    BY <1>1, <2>1 DEF Accounted, RemoveByFile, Graph, Store!Graph
  <2> QED
    BY <1>1, <1>2, <2>2, <2>3, StatementRInv DEF RemoveClaims
<1>3. CASE ClearGraph(t)
  <2>1. Accounted(EmptyGraph)
    BY DEF Accounted, EmptyGraph, Store!EmptyGraph, Absent
  <2>2. job'[t].op = job[t].op /\ job'[t].read = job[t].read /\ job'[t].file = job[t].file
    BY <1>3 DEF ClearGraph, Job
  <2> QED
    BY <1>1, <1>3, <2>1, <2>2, NoTransactionOK, StatementRInv DEF ClearGraph
<1> QED
    BY <1>2, <1>3

LEMMA CommitRInv ==
    ASSUME IInv, IInv', RInv, failures = 0, NEW t \in Threads, Commit(t)
    PROVE  RInv'
<1>1. Finish(t) \/ Continue(t) \/ Resolve(t)
    BY DEF Commit, Succeed
<1>2. pc[t] = "commit" /\ pc'[t] \notin InTransaction /\ graph' = tx.graph /\ Accounted(tx.graph)
    BY <1>1, MovesToNextJob DEF Commit, CommitTransaction, RInv, WorkSound, InTransaction
<1>3. ASSUME NEW s \in Threads \ {t} PROVE WorkSound(s)' /\ PlanSound(s)'
    BY <1>2, StepMoves, CommitKeeps DEF WriteStep, Commit
<1> QED
    BY <1>1, <1>2, <1>3, NewJobSound DEF RInv, Accounted

LEMMA WriteStepRInv ==
    ASSUME IInv, IInv', RInv, NEW t \in Threads, WriteStep(t)
    PROVE  RInv'
<1> SUFFICES ASSUME failures = 0 PROVE RInv'
    BY StepMoves DEF RInv
<1> QED
    BY BeginRInv, BeginFailsRInv, ExpectRevisionRInv, RevisionConflictRInv, PutsRInv,
        DeletesRInv, CommitRInv DEF WriteStep

-----------------------------------------------------------------------------
\* The result.

\* A request, or the watcher, takes up work.
LEMMA StartRInv ==
    ASSUME IInv, IInv', RInv, NEW t \in Threads, UNCHANGED <<storeVars, failures>>,
           pc[t] = "idle", NEW kind, NEW files, pc' = [pc EXCEPT ![t] = "next"],
           job' = [job EXCEPT ![t] = Start(kind, files)]
    PROVE  RInv'
<1> SUFFICES ASSUME failures = 0 PROVE RInv'
    BY DEF RInv
<1> USE TypesOf
<1>1. pc'[t] = "next" /\ job'[t].op = "none"
    BY DEF Start
<1>2. OnlyMoves(t)
    BY DEF OnlyMoves, IInv, TypeOK, ThreadOK
<1>3. WorkSound(t)' /\ PlanSound(t)'
    BY <1>1 DEF WorkSound, PlanSound, Op, InTransaction
<1> QED
    BY <1>1, <1>2, <1>3, OutsideKeeps DEF RInv, storeVars, Accounted, InTransaction

LEMMA InitRInv == Init => RInv
<1> SUFFICES ASSUME Init PROVE RInv
    OBVIOUS
<1>1. Accounted(graph)
    BY DEF Init, StoreInit, Accounted, EmptyGraph, Store!EmptyGraph, Absent
<1>2. ASSUME NEW t \in Threads PROVE WorkSound(t) /\ PlanSound(t)
    BY DEF Init, WorkSound, PlanSound, Op, NoJob, Start, InTransaction
<1> QED
    BY <1>1, <1>2 DEF RInv

LEMMA NextRInv == IInv /\ IInv' /\ RInv /\ [Next]_vars => RInv'
<1> SUFFICES ASSUME IInv, IInv', RInv, [Next]_vars PROVE RInv'
    OBVIOUS
<1>1. ASSUME NEW t \in Clients, ClientRequest(t) PROVE RInv'
  <2>1. PICK kind, files : Request(t, kind, files)
    BY <1>1 DEF ClientRequest, RequestIndexAll, RequestRebuild, RequestSyncVcs
  <2> QED
    BY <2>1, StartRInv DEF Request, Goto, Threads
<1>2. CASE WatcherDrains
    BY <1>2, StartRInv DEF WatcherDrains, Goto, Threads, counters
<1>3. ASSUME \/ \E t \in Threads : TransactionFails(t)
             \/ DaemonDies
      PROVE  RInv'
  <2>1. failures' = failures + 1 /\ failures \in Nat
    BY <1>3, UpdatesAssumption DEF TransactionFails, DaemonDies, IInv, TypeOK
  <2> QED
    BY <2>1 DEF RInv
<1>4. CASE (\E f \in Files : Edit(f)) \/ Waiting \/ UNCHANGED vars
  <2>1. UNCHANGED <<graph, revision, tx, pc, job, failures>>
    BY <1>4 DEF Edit, Waiting, vars, storeVars, counters
  <2> QED
    BY <2>1 DEF RInv, Accounted, WorkSound, PlanSound, Committing, Op
<1> QED
    BY <1>1, <1>2, <1>3, <1>4, ReadStepRInv, WriteStepRInv DEF Next

\* As long as no transaction fails, each indexed file's reference is in the
\* committed graph once, unresolved or as an edge: what one thread plans on
\* claims that another has not committed never counts a reference twice, drops
\* it or brings back one whose file is gone.
THEOREM ReferencesStayAccounted == Spec => []ReferencesAccounted
<1>1. RInv => ReferencesAccounted
    BY DEF RInv, Accounted, ReferencesAccounted
<1> QED
    BY <1>1, InitRInv, NextRInv, Invariance, PTL DEF Spec
=============================================================================
