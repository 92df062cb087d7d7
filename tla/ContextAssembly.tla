-------------------------- MODULE ContextAssembly --------------------------
(***************************************************************************)
(* Context under a budget (repin-context/src/lib.rs).                      *)
(*                                                                         *)
(* Two functions keep a budget: assemble_neighborhood, as it walks from    *)
(* each root to what its edges lead to, and pack_snippets, over snippets   *)
(* that were assembled without a limit. A node is its id, a snippet the    *)
(* node it shows, and Size gives the bytes, the lines and the units of its *)
(* text after redaction.                                                   *)
(***************************************************************************)
EXTENDS Naturals, FiniteSets, Sequences, FiniteSetsExt, Ascending

CONSTANT Unlimited  \* usize::MAX, or a limit that is not set

\* A graph here: the nodes with a row, the targets of each node's edges in the
\* order of the edges' ids, and the sizes of the texts.

Empty == [snippets |-> <<>>, bytes |-> 0, truncated |-> FALSE, seen |-> {}]
Exceeds(total, limit) == limit /= Unlimited /\ total > limit

\* append_node: a node is shown once; one that does not fit ends the walk.
AppendNode(ctx, node, size, budget) ==
    CASE node \in ctx.seen -> ctx
      [] node \notin ctx.seen /\ Exceeds(ctx.bytes + size[node].bytes, budget) ->
            [ctx EXCEPT !.seen = @ \cup {node}, !.truncated = TRUE]
      [] node \notin ctx.seen /\ ~ Exceeds(ctx.bytes + size[node].bytes, budget) ->
            [ctx EXCEPT !.seen = @ \cup {node}, !.bytes = @ + size[node].bytes,
                        !.snippets = Append(@, node)]

\* Neighbours, until one does not fit.
AppendTargets(ctx, targets, rows, size, budget) ==
    LET after[i \in 0 .. Len(targets)] ==
            IF i = 0 THEN ctx
            ELSE IF after[i - 1].truncated \/ targets[i] \notin rows THEN after[i - 1]
            ELSE AppendNode(after[i - 1], targets[i], size, budget)
    IN  after[Len(targets)]

\* assemble_neighborhood_with_config: each root, in the order of the ids, then
\* what its edges lead to.
AppendRoots(roots, rows, targets, size, budget) ==
    LET after[i \in 0 .. Len(roots)] ==
            IF i = 0 THEN Empty
            ELSE IF after[i - 1].truncated THEN after[i - 1]
            ELSE AppendTargets(AppendNode(after[i - 1], roots[i], size, budget), targets[roots[i]],
                               rows, size, budget)
    IN  after[Len(roots)]

\* A mutant: a node that does not fit ends the walk from its root only.
AppendRootsOn(roots, rows, targets, size, budget) ==
    LET after[i \in 0 .. Len(roots)] ==
            IF i = 0 THEN Empty
            ELSE AppendTargets(AppendNode([after[i - 1] EXCEPT !.truncated = FALSE], roots[i], size, budget),
                               targets[roots[i]], rows, size, budget)
    IN  after[Len(roots)]

\* A mutant: the walk over the roots does not stop at the budget.
AssembleOn(roots, rows, targets, size, budget) ==
    LET ctx == AppendRootsOn(Ascending(roots), rows, targets, size, budget)
    IN  [snippets |-> ctx.snippets, bytes |-> ctx.bytes, truncated |-> ctx.truncated]

AssembleNeighborhood(roots, rows, targets, size, budget) ==
    LET ctx == AppendRoots(Ascending(roots), rows, targets, size, budget)
    IN  [snippets |-> ctx.snippets, bytes |-> ctx.bytes, truncated |-> ctx.truncated]

\* pack_snippets: what the first k snippets use of a measure.
Used(snippets, size, measure) ==
    LET used[k \in 0 .. Len(snippets)] ==
            IF k = 0 THEN 0 ELSE used[k - 1] + size[snippets[k]][measure]
    IN  used

\* pack_snippets: the snippets up to the first that exceeds a limit.
PackSnippets(snippets, size, budget) ==
    LET fits(k) == \A m \in {"bytes", "lines", "units"} : ~ Exceeds(Used(snippets, size, m)[k], budget[m])
        kept == Max({k \in 0 .. Len(snippets) : \A j \in 1 .. k : fits(j)})
    IN  [snippets |-> SubSeq(snippets, 1, kept),
         bytes |-> Used(snippets, size, "bytes")[kept],
         truncated |-> kept < Len(snippets)]

-----------------------------------------------------------------------------
(* Properties of every input.                                              *)

\* The two ways to keep a budget agree: assembling under a byte budget is
\* assembling without one and packing the snippets afterwards
\* (assemble_neighborhood_with_config, assemble_neighborhood_with_budget).
BudgetsAgree(roots, rows, targets, size, budget) ==
    PackSnippets(AssembleNeighborhood(roots, rows, targets, size, Unlimited).snippets, size,
                 [bytes |-> budget, lines |-> Unlimited, units |-> Unlimited])
        = AssembleNeighborhood(roots, rows, targets, size, budget)
=============================================================================
