------------------------- MODULE MCProjectLifecycle -------------------------
EXTENDS ProjectLifecycle, TLC
Symmetry == Permutations(Connections)
=============================================================================
