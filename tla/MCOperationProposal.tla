------------------------ MODULE MCOperationProposal ------------------------
\* Small instances of OperationProposal for TLC.
EXTENDS OperationProposal, TLC

CONSTANTS p1, p2, r1, d1, c1, c2

\* Two proposals of one run, frozen on the same document.
MCOrigin == p1 :> r1 @@ p2 :> r1
MCTarget == p1 :> d1 @@ p2 :> d1
\* The first rewrites the document; the second is any of the other kinds.
MCMayBe == p1 :> {"save"} @@ p2 :> {"make", "create", "fill"}
=============================================================================
