--------------------------- MODULE MCAlertIntake ---------------------------
(* AlertIntake on one alert, a keyword that matches it, and two requests    *)
(* that edit the rules.                                                     *)
EXTENDS AlertIntake, TLC
CONSTANTS a1, k1, r1, r2
MCAlerts == {a1}
MCKeywords == {k1}
MCMatch == k1 :> {a1}
MCRequests == {r1, r2}
MCSymmetry == Permutations(MCRequests)
=============================================================================
