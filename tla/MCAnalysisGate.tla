--------------------------- MODULE MCAnalysisGate ---------------------------
(* AnalysisGate on five clients; the setting is given by the cfg. *)
EXTENDS AnalysisGate
CONSTANTS c1, c2, c3, c4, c5
MCClients == {c1, c2, c3, c4, c5}
=============================================================================
