---------------------------- MODULE MCExtraction ----------------------------
EXTENDS Extraction
Symmetry == Permutations(Names)
=============================================================================
