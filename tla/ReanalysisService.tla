------------------------- MODULE ReanalysisService -------------------------
(***************************************************************************)
(* What the incidents API promises to a page that looks at an incident and *)
(* has it analysed again: the state of the row, as far as the page tells   *)
(* it apart, and the status of the latest re-analysis (GET                 *)
(* .../reanalyze).  IncidentPipeline implements it; IncidentScreen is the  *)
(* page in front of it.                                                    *)
(***************************************************************************)
CONSTANTS
    Incidents   \* incident identifiers

VARIABLES
    shown,      \* the row of each incident, by what is on it
    job,        \* the status of its latest re-analysis
    stored      \* whether a re-analysis has stored its diagnosis, and not ended yet

serviceVars == <<shown, job, stored>>

RowStates == {"absent", "pending", "failed", "diagnosed"}
JobStates == {"idle", "running", "done", "failed"}

ServiceInit ==
    /\ shown = [i \in Incidents |-> "absent"]
    /\ job = [i \in Incidents |-> "idle"]
    /\ stored = [i \in Incidents |-> FALSE]

\* A write for an alert, in any of its stages; or one of a re-analysis that was
\* applied although the connection dropped.
Write(i) ==
    /\ \E state \in RowStates \ {"absent"} : shown' = [shown EXCEPT ![i] = state]
    /\ UNCHANGED <<job, stored>>

\* A request finds a row and no re-analysis under way.
Start(i) ==
    /\ shown[i] # "absent"
    /\ job[i] # "running"
    /\ job' = [job EXCEPT ![i] = "running"]
    /\ UNCHANGED <<shown, stored>>

Store(i) ==
    /\ job[i] = "running"
    /\ ~stored[i]
    /\ shown' = [shown EXCEPT ![i] = "diagnosed"]
    /\ stored' = [stored EXCEPT ![i] = TRUE]
    /\ UNCHANGED job

\* Done is reported only of a diagnosis that was stored.
Finish(i) ==
    /\ job[i] = "running"
    /\ job' = [job EXCEPT ![i] = IF stored[i] THEN "done" ELSE "failed"]
    /\ stored' = [stored EXCEPT ![i] = FALSE]
    /\ UNCHANGED shown

\* A restart forgets every re-analysis.
Forget ==
    /\ job' = [i \in Incidents |-> "idle"]
    /\ stored' = [i \in Incidents |-> FALSE]
    /\ UNCHANGED shown

ServiceNext ==
    \/ \E i \in Incidents : Write(i) \/ Start(i) \/ Store(i) \/ Finish(i)
    \/ Forget

ServiceSpec == ServiceInit /\ [][ServiceNext]_serviceVars

\* A re-analysis ends: its analysis and its write have timeouts.
End(i) == Store(i) \/ Finish(i)

FairServiceSpec == ServiceSpec /\ \A i \in Incidents : WF_serviceVars(End(i))
=============================================================================
