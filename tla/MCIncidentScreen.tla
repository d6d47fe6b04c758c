--------------------------- MODULE MCIncidentScreen ---------------------------
(* IncidentScreen with two incidents, of which the analysis of one has failed. *)
EXTENDS IncidentScreen, TLC
CONSTANTS i1, i2
MCIncidents == {i1, i2}
MCFound == (i1 :> "failed") @@ (i2 :> "diagnosed")
=============================================================================
