---------------------------- MODULE MCPipeline ----------------------------
EXTENDS PartPipeline, TLC

CONSTANTS f1, f2, f3, p1, p2, p3, p4

\* f1 and f2 have a unit in common; f3 holds one with nothing to embed
\* and one with nothing left to embed once it is cleaned.
MCPartsOf == f1 :> {p1, p2} @@ f2 :> {p2} @@ f3 :> {p3, p4}
=============================================================================
