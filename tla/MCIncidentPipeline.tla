------------------------- MODULE MCIncidentPipeline -------------------------
(* IncidentPipeline on one incident: b1 and b2 are two firings of the same  *)
(* alert on one day and share its row, and two re-analyses race with them.  *)
EXTENDS IncidentPipeline, TLC
CONSTANTS i1, b1, b2, r1, r2
MCIncidents == {i1}
MCBundles == {b1, b2}
MCRequests == {r1, r2}
MCIncidentOf == (b1 :> i1) @@ (b2 :> i1)
\* Both bundles write the same row, and safety is all that is checked.
MCSymmetry == Permutations(MCBundles) \cup Permutations(MCRequests)
=============================================================================
