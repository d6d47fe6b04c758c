------------------------- MODULE MCPipelineLiveness -------------------------
(* IncidentPipeline on two incidents with one alert each and one operator: *)
(* three goroutines that meet only at a gate with a single place.          *)
EXTENDS IncidentPipeline, TLC
CONSTANTS i1, i2, b1, b2, r1
MCIncidents == {i1, i2}
MCBundles == {b1, b2}
MCRequests == {r1}
MCIncidentOf == (b1 :> i1) @@ (b2 :> i2)
=============================================================================
