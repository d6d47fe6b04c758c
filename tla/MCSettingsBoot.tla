--------------------------- MODULE MCSettingsBoot ---------------------------
(* SettingsBoot with a field that the environment sets and the defaults     *)
(* leave blank (an endpoint), and one that the defaults set (a type).       *)
EXTENDS SettingsBoot, TLC
CONSTANTS p1, p2, endpoint, type, v
MCPages == {p1, p2}
MCFields == {endpoint, type}
MCValues == {v}
MCEnvSettings == endpoint :> v @@ type :> Blank
MCDefaults == endpoint :> Blank @@ type :> v
MCEnvSecrets == "aiApiKey" :> Blank @@ "gitToken" :> v
\* Nothing, or both secrets.
MCTyped == {NoSecrets, [n \in Secrets |-> v]}
MCSymmetry == Permutations(MCPages)
=============================================================================
