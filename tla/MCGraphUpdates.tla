--------------------------- MODULE MCGraphUpdates ---------------------------
EXTENDS GraphUpdates, TLC
CONSTANTS fileA, fileB
\* A reference each way.
MCTarget == (fileA :> fileB) @@ (fileB :> fileA)
=============================================================================
