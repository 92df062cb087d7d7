--------------------------- MODULE MCStoreOpening ---------------------------
EXTENDS StoreOpening, TLC

\* The processes are interchangeable.
Symmetry == Permutations(Processes)
=============================================================================
