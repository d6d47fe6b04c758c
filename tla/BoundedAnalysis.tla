-------------------------- MODULE BoundedAnalysis --------------------------
(***************************************************************************)
(* What the rest of the system may expect of one AI analysis: a bounded    *)
(* number of calls to the model while it holds its place at the gate, then *)
(* failure or a draft; and a draft, once there, becomes a diagnosis with   *)
(* one more call, whatever that call returns, without losing its root      *)
(* cause.  IncidentPipeline's Analyze is one behaviour of this module in   *)
(* one step.                                                               *)
(***************************************************************************)
EXTENDS Integers

CONSTANTS
    Budget,   \* the number of calls allowed, the verification included
    Causes,   \* root causes
    Blank     \* the root cause of a diagnosis that names none

VARIABLES
    left,    \* calls left
    phase,   \* investigating, drafted, diagnosed or failed
    cause    \* the root cause of the draft

analysisVars == <<left, phase, cause>>

AnalysisInit == left = Budget /\ phase = "investigating" /\ cause = Blank

\* A call of the investigation, which leaves one for the verification.
Investigate ==
    /\ phase = "investigating"
    /\ left > 1
    /\ left' = left - 1
    /\ \/ phase' = "investigating" /\ left' > 1 /\ UNCHANGED cause
       \/ phase' = "failed" /\ UNCHANGED cause
       \/ phase' = "drafted" /\ cause' \in Causes \cup {Blank}

\* The verification may correct a root cause, or supply one, but not drop it.
Verify ==
    /\ phase = "drafted"
    /\ left > 0
    /\ left' = left - 1
    /\ phase' = "diagnosed"
    /\ cause' \in Causes \cup {cause}

AnalysisNext == Investigate \/ Verify

AnalysisSpec == AnalysisInit /\ [][AnalysisNext]_analysisVars

FairAnalysisSpec == AnalysisSpec /\ WF_analysisVars(AnalysisNext)
=============================================================================
