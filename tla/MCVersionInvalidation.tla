----------------------- MODULE MCVersionInvalidation -----------------------
EXTENDS VersionInvalidation

CONSTANTS f1, f2, p1, p2

\* Two files of two packs that refer to each other.
MCPackOf == (f1 :> p1) @@ (f2 :> p2)
MCPackOrder == <<p1, p2>>
MCRefers == (f1 :> f2) @@ (f2 :> f1)

\* A release may change any part.
MCAllParts == Parts
=============================================================================
