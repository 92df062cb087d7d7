----------------------------- MODULE Ascending -----------------------------
(***************************************************************************)
(* A set of numbers in ascending order.                                    *)
(***************************************************************************)
EXTENDS Naturals, FiniteSets

\* The k-th number has k - 1 below it. SetToSortSeq of SequencesExt is the
\* same, through SortSeq, which proofs cannot expand.
Ascending(S) ==
    [k \in 1 .. Cardinality(S) |-> CHOOSE s \in S : Cardinality({t \in S : t < s}) = k - 1]
=============================================================================
