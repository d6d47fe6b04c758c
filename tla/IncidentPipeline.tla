-------------------------- MODULE IncidentPipeline --------------------------
(***************************************************************************)
(* The life of an incident: the goroutine that processes each accepted     *)
(* alert (processBundle, internal/collector/alertmanager_poller.go), the AI      *)
(* re-analysis an operator may start (handleIncidentReanalyze and          *)
(* runReanalyze, internal/collector/reanalyze_job.go), the incidents table *)
(* both write (internal/store/incidents.go), the gate both queue at        *)
(* (AnalysisGate), and the restart of the process, which keeps the table   *)
(* and forgets everything else.                                            *)
(*                                                                         *)
(* An incident identifier is a date and an alert name, so several bundles  *)
(* may share a row: IncidentOf says which.  Evidence is abstracted to the  *)
(* bundle it describes and whether the enricher had run; a diagnosis to    *)
(* the evidence it was drawn from; created_at to the bundle whose arrival  *)
(* stamped it.                                                             *)
(***************************************************************************)
EXTENDS Integers, Sequences, FiniteSets

CONSTANTS
    Incidents,           \* incident identifiers
    Bundles,             \* accepted alerts, one processBundle goroutine each
    Requests,            \* POST .../reanalyze requests
    IncidentOf,          \* the row each bundle writes
    None,                \* no value
    MaxConcurrent,       \* ai.max_concurrent
    NotifierConfigured,  \* a notifier is set up
    MaxRestarts,         \* bound: restarts of the process
    MaxDbFaults          \* bound: failed or unacknowledged writes

\* What a row knows of an alert: which one, and whether Enrich had run.
Evidence == [of : Bundles, collected : BOOLEAN]
Bare(b) == [of |-> b, collected |-> FALSE]
Collected(b) == [of |-> b, collected |-> TRUE]

ASSUME PipelineAssumption ==
    /\ Bundles \cap Requests = {}
    /\ IncidentOf \in [Bundles -> Incidents]
    /\ None \notin Incidents \cup Bundles \cup Requests \cup Evidence
    /\ MaxConcurrent \in Int
    /\ NotifierConfigured \in BOOLEAN
    /\ MaxRestarts \in Nat /\ MaxDbFaults \in Nat

VARIABLES
    row,         \* the incidents table: the data and created_at columns
    acked,       \* the incidents table: the acknowledged column
    lastWriter,  \* history: the goroutine whose write each row shows
    pc,          \* what each goroutine does next
    target,      \* the incident a request names
    view,        \* the row a request read, kept until its result is stored
    jobs,        \* reanalyzeJobs.jobs: the job object of each incident
    jobState,    \* the State of each job object
    running,     \* the gate: analyses under way
    waiting,     \* the gate: goroutines blocked, oldest first
    restarts,    \* restarts so far
    dbFaults     \* failed or unacknowledged writes so far

Clients == Bundles \cup Requests

Gate == INSTANCE AnalysisGate

storeVars == <<row, acked, lastWriter, dbFaults>>
jobVars == <<jobs, jobState>>
requestVars == <<target, view>>
gateVars == <<running, waiting>>
vars == <<storeVars, jobVars, requestVars, gateVars, pc, restarts>>

-----------------------------------------------------------------------------
\* IncidentView.State, as processBundle and runReanalyze set it.
PendingStates == {"IncidentDetected", "EvidenceCollected"}
States == PendingStates \cup {"DiagnosisCompleted", "ValidationFailed"}

\* The row of an incident nobody has stored yet.
NoRow == [state |-> "absent", ev |-> None, diag |-> None, created |-> None]

StoredRow == [state : States, ev : Evidence, diag : Evidence \cup {None},
              created : Bundles]

\* NewIncidentView: evidence, diagnosis and state of one bundle; the caller
\* overwrites the creation time.
IncidentView(evidence, diagnosis, state, created) ==
    [state |-> state, ev |-> evidence, diag |-> diagnosis, created |-> created]

Pending(i) == row[i].state \in PendingStates

\* Goroutines that are neither unborn nor over.
Over == {"absent", "refused", "finished", "lost"}
Live(c) == pc[c] \notin Over
Reanalyzing(r) == Live(r) /\ pc[r] # "read"

Init ==
    /\ row = [i \in Incidents |-> NoRow]
    /\ acked = [i \in Incidents |-> FALSE]
    /\ lastWriter = [i \in Incidents |-> None]
    /\ pc = [c \in Clients |-> "absent"]
    /\ target = [r \in Requests |-> None]
    /\ view = [r \in Requests |-> NoRow]
    /\ jobs = [i \in Incidents |-> None]
    /\ jobState = [r \in Requests |-> "none"]
    /\ Gate!GateInit
    /\ restarts = 0
    /\ dbFaults = 0

Goto(c, label) == pc' = [pc EXCEPT ![c] = label]

-----------------------------------------------------------------------------
\* (mutant) INSERT OR REPLACE: the acknowledged column is reset as well.
ReplaceRow(c, i, v) ==
    /\ row' = [row EXCEPT ![i] = v]
    /\ lastWriter' = [lastWriter EXCEPT ![i] = c]
    /\ acked' = [acked EXCEPT ![i] = FALSE]

\* SaveIncident: an upsert that replaces data and created_at and leaves
\* acknowledged alone.  A write may fail, and it may be applied although the
\* connection drops before the answer.
Upsert(c, i, v) ==
    /\ row' = [row EXCEPT ![i] = v]
    /\ lastWriter' = [lastWriter EXCEPT ![i] = c]
    /\ UNCHANGED acked

SaveSucceeds(c, i, v) == Upsert(c, i, v) /\ UNCHANGED dbFaults

SaveFails(c, i, v) ==
    /\ dbFaults < MaxDbFaults
    /\ dbFaults' = dbFaults + 1
    /\ \/ Upsert(c, i, v)
       \/ UNCHANGED <<row, acked, lastWriter>>

\* processBundle's save: an error is only logged.
SaveLogged(b, evidence, diagnosis, state) ==
    LET v == IncidentView(evidence, diagnosis, state, b)
    IN  SaveSucceeds(b, IncidentOf[b], v) \/ SaveFails(b, IncidentOf[b], v)

-----------------------------------------------------------------------------
\* The webhook handler or the poller starts a goroutine for the alert.
Accept(b) ==
    /\ pc[b] = "absent"
    /\ Goto(b, "received")
    /\ UNCHANGED <<storeVars, jobVars, requestVars, gateVars, restarts>>

RecordDetected(b) ==
    /\ pc[b] = "received"
    /\ SaveLogged(b, Bare(b), None, "IncidentDetected")
    /\ Goto(b, "enriching")
    /\ UNCHANGED <<jobVars, requestVars, gateVars, restarts>>

\* Enrich, then the second save.
CollectEvidence(b) ==
    /\ pc[b] = "enriching"
    /\ SaveLogged(b, Collected(b), None, "EvidenceCollected")
    /\ Goto(b, "collected")
    /\ UNCHANGED <<jobVars, requestVars, gateVars, restarts>>

\* (mutant) Engine.Analyze called directly, without asking the gate.
BypassGate(c) ==
    /\ pc[c] \in {"collected", "spawned"}
    /\ running' = running \cup {c}
    /\ Goto(c, "atGate")
    /\ UNCHANGED <<storeVars, jobVars, requestVars, waiting, restarts>>

\* analyzeGated: ask for a place, both for a bundle and for a re-analysis.
EnterGate(c) ==
    /\ pc[c] \in {"collected", "spawned"}
    /\ Gate!Acquire(c)
    /\ Goto(c, "atGate")
    /\ UNCHANGED <<storeVars, jobVars, requestVars, restarts>>

\* (mutant) The place is not given back when the analysis fails.
AnalyzeLeaking(c) ==
    /\ pc[c] = "atGate"
    /\ c \in running
    /\ \/ Gate!Release(c) /\ Goto(c, "diagnosed")
       \/ UNCHANGED gateVars /\ Goto(c, "failed")
    /\ UNCHANGED <<storeVars, jobVars, requestVars, restarts>>

\* The engine answers or fails; the place is given back either way.
Analyze(c) ==
    /\ pc[c] = "atGate"
    /\ c \in running
    /\ Gate!Release(c)
    /\ \E outcome \in {"diagnosed", "failed"} : Goto(c, outcome)
    /\ UNCHANGED <<storeVars, jobVars, requestVars, restarts>>

\* (mutant) The notification is sent before the diagnosis is saved.
NotifyUnsaved(b) ==
    /\ pc[b] = "diagnosed"
    /\ Goto(b, IF NotifierConfigured THEN "notifying" ELSE "finished")
    /\ UNCHANGED <<storeVars, jobVars, requestVars, gateVars, restarts>>

RecordDiagnosis(b) ==
    /\ pc[b] = "diagnosed"
    /\ SaveLogged(b, Collected(b), Collected(b), "DiagnosisCompleted")
    /\ Goto(b, IF NotifierConfigured THEN "notifying" ELSE "finished")
    /\ UNCHANGED <<jobVars, requestVars, gateVars, restarts>>

\* (mutant) processBundle returns on an analysis error without saving it.
ReturnOnFailure(b) ==
    /\ pc[b] = "failed"
    /\ Goto(b, "finished")
    /\ UNCHANGED <<storeVars, jobVars, requestVars, gateVars, restarts>>

\* (mutant) The failure is saved with the bundle as it was before Enrich.
RecordFailureBare(b) ==
    /\ pc[b] = "failed"
    /\ SaveLogged(b, Bare(b), None, "ValidationFailed")
    /\ Goto(b, "finished")
    /\ UNCHANGED <<jobVars, requestVars, gateVars, restarts>>

RecordFailure(b) ==
    /\ pc[b] = "failed"
    /\ SaveLogged(b, Collected(b), None, "ValidationFailed")
    /\ Goto(b, "finished")
    /\ UNCHANGED <<jobVars, requestVars, gateVars, restarts>>

\* NotifyDiagnosis: an error is only logged.
Notify(b) ==
    /\ pc[b] = "notifying"
    /\ Goto(b, "finished")
    /\ UNCHANGED <<storeVars, jobVars, requestVars, gateVars, restarts>>

-----------------------------------------------------------------------------
\* (mutant) The check for a missing row is dropped.
ReadAnyIncident(r) ==
    /\ pc[r] = "absent"
    /\ \E i \in Incidents :
          /\ target' = [target EXCEPT ![r] = i]
          /\ view' = [view EXCEPT ![r] = row[i]]
    /\ Goto(r, "read")
    /\ UNCHANGED <<storeVars, jobVars, gateVars, restarts>>

\* handleIncidentReanalyze, first half: read the row named in the URL.  The
\* request is refused when there is none or when the read fails.
ReadIncident(r) ==
    /\ pc[r] = "absent"
    /\ \E i \in Incidents :
          /\ target' = [target EXCEPT ![r] = i]
          /\ \/ /\ row[i] # NoRow
                /\ view' = [view EXCEPT ![r] = row[i]]
                /\ Goto(r, "read")
             \/ /\ UNCHANGED view
                /\ Goto(r, "refused")
    /\ UNCHANGED <<storeVars, jobVars, gateVars, restarts>>

JobRunning(i) == jobs[i] # None /\ jobState[jobs[i]] = "running"

\* (mutant) start replaces a job that is still running.
StartAnotherJob(r) ==
    /\ pc[r] = "read"
    /\ jobs' = [jobs EXCEPT ![target[r]] = r]
    /\ jobState' = [jobState EXCEPT ![r] = "running"]
    /\ Goto(r, "spawned")
    /\ UNCHANGED <<storeVars, requestVars, gateVars, restarts>>

\* reanalyzeJobs.start, then the goroutine; or 409 when one is running.
StartJob(r) ==
    /\ pc[r] = "read"
    /\ IF JobRunning(target[r])
       THEN /\ Goto(r, "refused")
            /\ UNCHANGED jobVars
       ELSE /\ jobs' = [jobs EXCEPT ![target[r]] = r]
            /\ jobState' = [jobState EXCEPT ![r] = "running"]
            /\ Goto(r, "spawned")
    /\ UNCHANGED <<storeVars, requestVars, gateVars, restarts>>

\* (mutant) The row is read again for saving; the diagnosis is of the old one.
StoreOnFreshRow(r) ==
    LET now == row[target[r]]
        v == IncidentView(now.ev, view[r].ev, "DiagnosisCompleted", now.created)
    IN  /\ pc[r] = "diagnosed"
        /\ \/ SaveSucceeds(r, target[r], v) /\ Goto(r, "stored")
           \/ SaveFails(r, target[r], v) /\ Goto(r, "failed")
        /\ UNCHANGED <<jobVars, requestVars, gateVars, restarts>>

\* (mutant) An error of SaveIncident is only logged, as processBundle does.
StoreUnchecked(r) ==
    LET v == IncidentView(view[r].ev, view[r].ev, "DiagnosisCompleted", view[r].created)
    IN  /\ pc[r] = "diagnosed"
        /\ SaveSucceeds(r, target[r], v) \/ SaveFails(r, target[r], v)
        /\ Goto(r, "stored")
        /\ UNCHANGED <<jobVars, requestVars, gateVars, restarts>>

\* runReanalyze stores the diagnosis with the evidence and the creation time
\* of the row it read when it was requested.
StoreReanalysis(r) ==
    LET v == IncidentView(view[r].ev, view[r].ev, "DiagnosisCompleted", view[r].created)
    IN  /\ pc[r] = "diagnosed"
        /\ \/ SaveSucceeds(r, target[r], v) /\ Goto(r, "stored")
           \/ SaveFails(r, target[r], v) /\ Goto(r, "failed")
        /\ UNCHANGED <<jobVars, requestVars, gateVars, restarts>>

\* (mutant) A failed re-analysis marks the row, as processBundle would.
FinishMarkingRow(r) ==
    /\ pc[r] \in {"stored", "failed"}
    /\ jobState' = [jobState EXCEPT ![r] = IF pc[r] = "stored" THEN "done" ELSE "failed"]
    /\ IF pc[r] = "stored"
       THEN UNCHANGED storeVars
       ELSE SaveSucceeds(r, target[r],
                         IncidentView(view[r].ev, None, "ValidationFailed", view[r].created))
    /\ Goto(r, "finished")
    /\ UNCHANGED <<jobs, requestVars, gateVars, restarts>>

\* reanalyzeJobs.finish: the job object is found through the map.
FinishJob(r) ==
    /\ pc[r] \in {"stored", "failed"}
    /\ jobState' = IF jobs[target[r]] = None THEN jobState
                   ELSE [jobState EXCEPT ![jobs[target[r]]] =
                            IF pc[r] = "stored" THEN "done" ELSE "failed"]
    /\ Goto(r, "finished")
    /\ UNCHANGED <<storeVars, jobs, requestVars, gateVars, restarts>>

\* PATCH .../{id}: the operator sets or clears acknowledged; without a row
\* the update touches nothing and the request fails.
Acknowledge(i) ==
    /\ row[i] # NoRow
    /\ acked' = [acked EXCEPT ![i] = ~@]
    /\ UNCHANGED <<row, lastWriter, dbFaults, jobVars, requestVars, gateVars, pc, restarts>>

-----------------------------------------------------------------------------
\* The process stops at any point and starts again: only the table survives.
Restart ==
    /\ restarts < MaxRestarts
    /\ restarts' = restarts + 1
    /\ pc' = [c \in Clients |-> IF Live(c) THEN "lost" ELSE pc[c]]
    /\ jobs' = [i \in Incidents |-> None]
    /\ jobState' = [r \in Requests |-> "none"]
    /\ Gate!Reset
    /\ UNCHANGED <<storeVars, requestVars>>

BundleStep(b) ==
    \/ Accept(b)
    \/ RecordDetected(b)
    \/ CollectEvidence(b)
    \/ RecordDiagnosis(b)
    \/ RecordFailure(b)
    \/ Notify(b)

RequestStep(r) ==
    \/ ReadIncident(r)
    \/ StartJob(r)
    \/ StoreReanalysis(r)
    \/ FinishJob(r)

Next ==
    \/ \E b \in Bundles : BundleStep(b)
    \/ \E r \in Requests : RequestStep(r)
    \/ \E c \in Clients : EnterGate(c) \/ Analyze(c)
    \/ \E i \in Incidents : Acknowledge(i)
    \/ Restart

Spec == Init /\ [][Next]_vars

\* A goroutine that can go on does: every call it makes has a timeout.  Alerts
\* and requests need not come, and the process need not restart.
GoroutineStep(c) ==
    \/ c \in Bundles /\ BundleStep(c) /\ pc[c] # "absent"
    \/ c \in Requests /\ RequestStep(c) /\ pc[c] # "absent"
    \/ EnterGate(c)
    \/ Analyze(c)

Fairness == \A c \in Clients : WF_vars(GoroutineStep(c))

FairSpec == Spec /\ Fairness
-----------------------------------------------------------------------------
BundlePC == {"absent", "received", "enriching", "collected", "atGate", "diagnosed",
             "failed", "notifying", "finished", "lost"}
RequestPC == {"absent", "read", "refused", "spawned", "atGate", "diagnosed", "failed",
              "stored", "finished", "lost"}

TypeOK ==
    /\ row \in [Incidents -> StoredRow \cup {NoRow}]
    /\ acked \in [Incidents -> BOOLEAN]
    /\ lastWriter \in [Incidents -> Clients \cup {None}]
    /\ pc \in [Clients -> BundlePC \cup RequestPC]
    /\ \A b \in Bundles : pc[b] \in BundlePC
    /\ \A r \in Requests : pc[r] \in RequestPC
    /\ target \in [Requests -> Incidents \cup {None}]
    /\ view \in [Requests -> StoredRow \cup {NoRow}]
    /\ jobs \in [Incidents -> Requests \cup {None}]
    /\ jobState \in [Requests -> {"none", "running", "done", "failed"}]
    /\ Gate!GateTypeOK
    /\ restarts \in 0..MaxRestarts
    /\ dbFaults \in 0..MaxDbFaults

(***************************************************************************)
(* The gate as the pipeline uses it is a gate: webhook, poller and         *)
(* re-analysis never run more analyses than ai.max_concurrent together,    *)
(* and give back what they take (analysis_gate.go:49-53).                  *)
(***************************************************************************)
UsesGate == Gate!GateSpec

(***************************************************************************)
(* What the API shows of rows and jobs is what a page may rely on: a job   *)
(* once started is running until it ends, ends by itself, says done only   *)
(* when the row has its diagnosis, and is forgotten only by a restart      *)
(* (reanalyze_job.go:38-113).                                              *)
(***************************************************************************)
RowShown(v) ==
    CASE v = NoRow -> "absent"
      [] v.state \in PendingStates -> "pending"
      [] v.state = "ValidationFailed" -> "failed"
      [] v.state = "DiagnosisCompleted" -> "diagnosed"

JobStatus(i) == IF jobs[i] = None THEN "idle" ELSE jobState[jobs[i]]

Service == INSTANCE ReanalysisService WITH
    shown <- [i \in Incidents |-> RowShown(row[i])],
    job <- [i \in Incidents |-> JobStatus(i)],
    stored <- [i \in Incidents |-> jobs[i] # None /\ pc[jobs[i]] = "stored"]

ServesPages == Service!FairServiceSpec

(***************************************************************************)
(* Exactly the goroutines between the send and the deferred receive hold   *)
(* or wait for a place (analysis_gate.go:33-34): an analysis that fails    *)
(* returns its place like one that succeeds.                               *)
(***************************************************************************)
PlacesHeldAtGate == running \cup Gate!Waiters = {c \in Clients : pc[c] = "atGate"}

(***************************************************************************)
(* Nobody is stuck at the gate: who holds a place is inside an analysis,   *)
(* and whoever is blocked in the send is queued behind such goroutines,    *)
(* at least one and all alive, who will take a place's token out again     *)
(* (analysis_gate.go:33-40); also when ai.max_concurrent is zero or less.  *)
(***************************************************************************)
NobodyStuck ==
    /\ PlacesHeldAtGate
    /\ \A c \in Clients :
          pc[c] = "atGate" /\ c \notin running =>
              c \in Gate!Waiters /\ running # {} /\ \A d \in running : Live(d)

(***************************************************************************)
(* Single flight.  An incident has at most one re-analysis goroutine, and  *)
(* its job reads "running" exactly while that goroutine lives, restarts    *)
(* included (reanalyze_job.go:38-62): a job never gets stuck in running,   *)
(* and a second click never starts a second analysis.                      *)
(***************************************************************************)
JobTracksGoroutine ==
    /\ \A r1, r2 \in Requests :
          Reanalyzing(r1) /\ Reanalyzing(r2) /\ target[r1] = target[r2] => r1 = r2
    /\ \A r \in Requests :
          Reanalyzing(r) <=> \E i \in Incidents :
                                target[r] = i /\ jobs[i] = r /\ jobState[r] = "running"

(***************************************************************************)
(* A row never shows a diagnosis drawn from other evidence than the one it *)
(* shows, a diagnosis is shown exactly in state DiagnosisCompleted, and    *)
(* created_at is the arrival time of the alert whose evidence is shown,    *)
(* also after a re-analysis (reanalyze_job.go:102-104).                    *)
(***************************************************************************)
Consistent(i, v) ==
    /\ (v.state = "DiagnosisCompleted") <=> (v.diag # None)
    /\ v.diag \in {None, v.ev}
    /\ v.created = v.ev.of
    /\ IncidentOf[v.ev.of] = i

RowConsistent == \A i \in Incidents : row[i] # NoRow => Consistent(i, row[i])

(***************************************************************************)
(* When a re-analysis reports "done", its diagnosis is what the table      *)
(* shows, unless a newer alert of the incident has written since           *)
(* (reanalyze_job.go:105-112): another re-analysis cannot come between,    *)
(* and a write that was lost is not reported as done.                      *)
(***************************************************************************)
Shows(v, ev) == v.ev = ev /\ v.diag = ev

DoneMeansStored ==
    \A r \in Requests :
        pc[r] = "stored" =>
            LET i == target[r]
            IN  /\ lastWriter[i] \in Bundles \cup {r}
                /\ Shows(row[i], view[r].ev) \/ (lastWriter[i] # r /\ row[i] # view[r])

(***************************************************************************)
(* When a re-analysis reports "failed", and no write went wrong, no row is *)
(* one it has written: the incident is as it was, or as somebody else has  *)
(* made it since (reanalyze_job.go:94-100).                                *)
(***************************************************************************)
FailedMeansUntouched ==
    dbFaults = 0 =>
        \A r \in Requests : jobState[r] = "failed" => \A i \in Incidents : lastWriter[i] # r

(***************************************************************************)
(* Without restarts and failed writes, an incident that the screen shows   *)
(* as being analysed is being analysed: the goroutine that wrote the       *)
(* pending state is alive and will write again (alertmanager_poller.go:30-46).   *)
(***************************************************************************)
PendingHasWorker ==
    restarts = 0 /\ dbFaults = 0 =>
        \A i \in Incidents : Pending(i) => lastWriter[i] \in Bundles /\ Live(lastWriter[i])

(***************************************************************************)
(* An incident leaves IncidentDetected on collected evidence, through      *)
(* restarts and failed writes (alertmanager_poller.go:31-46), with one way *)
(* out: a re-analysis that copied the row while it was IncidentDetected    *)
(* and has come to its save (incidents_api.go:132-146), or another one     *)
(* that copied what such a one wrote.                                      *)
(***************************************************************************)
TookBareAlert(r, i) ==
    /\ target[r] = i
    /\ view[r].state = "IncidentDetected"
    /\ pc[r] \in {"failed", "stored", "finished", "lost"}

OutcomeOnCollectedEvidence ==
    \A i \in Incidents :
        row[i] # NoRow /\ row[i].state # "IncidentDetected" /\ ~row[i].ev.collected =>
            \E r \in Requests : TookBareAlert(r, i)

(***************************************************************************)
(* Without failed writes, whoever is notified of a diagnosis finds it in   *)
(* the table, unless another goroutine has written the row since           *)
(* (alertmanager_poller.go:46-52: saved first, then notified).                   *)
(***************************************************************************)
NotifiedDiagnosisStored ==
    dbFaults = 0 =>
        \A b \in Bundles :
            pc[b] = "notifying" /\ lastWriter[IncidentOf[b]] = b =>
                row[IncidentOf[b]].diag = Collected(b)

(***************************************************************************)
(* What the operator is told is so: of re-analyses that are done, of those *)
(* that failed, and of diagnoses.                                          *)
(***************************************************************************)
ReportsTrue == DoneMeansStored /\ FailedMeansUntouched /\ NotifiedDiagnosisStored

(***************************************************************************)
(* Re-analysis only ever replaces a row by one with a diagnosis: a failed  *)
(* or interrupted re-analysis leaves the incident as it was                *)
(* (reanalyze_job.go:95-100), and a state regresses only because a new     *)
(* alert of the incident is being processed.                               *)
(***************************************************************************)
OnlyAlertsRegress ==
    [][\A i \in Incidents :
          row'[i] # row[i] =>
              \/ row'[i].state = "DiagnosisCompleted"
              \/ \E b \in Bundles : IncidentOf[b] = i /\ Live(b) /\ pc'[b] # pc[b]]_vars

(***************************************************************************)
(* What the operator acknowledged stays acknowledged whatever the          *)
(* goroutines write, and nothing but the operator hides an incident        *)
(* (store/incidents.go:17-21, 66-76).                                      *)
(***************************************************************************)
AcknowledgedByOperator ==
    [][acked' # acked => UNCHANGED <<row, pc, jobs, jobState>>]_vars

(***************************************************************************)
(* Every accepted alert is processed to its end and every accepted         *)
(* re-analysis ends, however many others queue at the gate, unless the     *)
(* process restarts under it.                                              *)
(***************************************************************************)
EveryGoroutineEnds ==
    \A c \in Clients : Live(c) ~> ~Live(c)

(***************************************************************************)
(* The screen says the analysis is in progress and shows the result by     *)
(* itself when it is complete (frontend IncidentDetail.tsx): a pending row *)
(* eventually leaves the pending states.  True while the process keeps     *)
(* running and its writes succeed.                                         *)
(***************************************************************************)
PendingEnds == \A i \in Incidents : Pending(i) ~> ~Pending(i)

PendingEndsWithoutFaults ==
    [](restarts = 0 /\ dbFaults = 0) => PendingEnds

(***************************************************************************)
(* "Re-analyse on the evidence already collected" (incidents_api.go:70-71):*)
(* when nobody works on an incident any more, and nothing failed, its row  *)
(* shows collected evidence and not the bare alert.                        *)
(***************************************************************************)
SettledOnCollectedEvidence ==
    restarts = 0 /\ dbFaults = 0 =>
        \A i \in Incidents :
            /\ row[i] # NoRow
            /\ \A b \in Bundles : IncidentOf[b] = i => ~Live(b)
            /\ \A r \in Requests : target[r] = i => ~Live(r)
            => row[i].ev.collected
=============================================================================
