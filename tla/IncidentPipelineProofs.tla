----------------------- MODULE IncidentPipelineProofs -----------------------
(***************************************************************************)
(* What holds of the incident pipeline for every number of incidents,      *)
(* alerts, re-analysis requests, restarts and failed writes.               *)
(***************************************************************************)
EXTENDS IncidentPipeline, TLAPS

GP == INSTANCE AnalysisGateProofs

(* What a save does to the table: the row is replaced, or, when a fault    *)
(* has been counted, possibly left alone.                                  *)
SaveEffect(c, i, v) ==
    /\ \/ /\ row' = [row EXCEPT ![i] = v]
          /\ lastWriter' = [lastWriter EXCEPT ![i] = c]
       \/ /\ UNCHANGED <<row, lastWriter>>
          /\ dbFaults' # 0
    /\ UNCHANGED acked
    /\ dbFaults' \in 0..MaxDbFaults
    /\ dbFaults' = 0 => dbFaults = 0

LEMMA SaveHasEffect ==
    ASSUME dbFaults \in 0..MaxDbFaults, NEW c, NEW i, NEW v,
           SaveSucceeds(c, i, v) \/ SaveFails(c, i, v)
    PROVE  SaveEffect(c, i, v)
BY PipelineAssumption DEF SaveSucceeds, SaveFails, Upsert, SaveEffect

(* A save changes no other row than its own.                               *)
LEMMA SaveChangesOneRow ==
    ASSUME TypeOK, NEW c, NEW i \in Incidents, NEW v, SaveEffect(c, i, v)
    PROVE  \A j \in Incidents : row'[j] # row[j] => j = i /\ row'[j] = v
BY DEF TypeOK, SaveEffect

LEMMA LoggedSaveHasEffect ==
    ASSUME dbFaults \in 0..MaxDbFaults, NEW b, NEW e, NEW d, NEW s, SaveLogged(b, e, d, s)
    PROVE  SaveEffect(b, IncidentOf[b], IncidentView(e, d, s, b))
BY SaveHasEffect DEF SaveLogged

LEMMA NoRowIsNotStored == NoRow \notin StoredRow
BY DEF NoRow, StoredRow, States, PendingStates

LEMMA BundleEvidence ==
    ASSUME NEW b \in Bundles
    PROVE  /\ Bare(b) \in Evidence /\ Bare(b).of = b
           /\ Collected(b) \in Evidence /\ Collected(b).of = b
           /\ IncidentOf[b] \in Incidents
           /\ b \in Clients
BY PipelineAssumption DEF Bare, Collected, Evidence, Clients

LEMMA ViewIsStored ==
    ASSUME NEW e \in Evidence, NEW d \in Evidence \cup {None}, NEW s \in States,
           NEW b \in Bundles
    PROVE  /\ IncidentView(e, d, s, b) \in StoredRow
           /\ IncidentView(e, d, s, b).ev = e
           /\ IncidentView(e, d, s, b).diag = d
           /\ IncidentView(e, d, s, b).state = s
           /\ IncidentView(e, d, s, b).created = b
BY DEF IncidentView, StoredRow

-----------------------------------------------------------------------------
(***************************************************************************)
(* Type correctness.  A re-analysis writes a row built from its view, so   *)
(* the type of the table rests on the view having been read: ViewRead.     *)
(***************************************************************************)
ViewRead ==
    \A r \in Requests :
        pc[r] \notin {"absent", "refused", "lost"} =>
            target[r] \in Incidents /\ view[r] \in StoredRow

TypeInv == TypeOK /\ ViewRead

LEMMA TypeInit == Init => TypeInv
BY PipelineAssumption
DEF Init, TypeInv, TypeOK, ViewRead, Clients, BundlePC, RequestPC, NoRow,
    Gate!GateInit, Gate!GateTypeOK

(* A save keeps the types of the table.                                    *)
LEMMA SaveTypes ==
    ASSUME TypeOK, NEW c \in Clients, NEW i \in Incidents, NEW v \in StoredRow,
           SaveEffect(c, i, v)
    PROVE  /\ row' \in [Incidents -> StoredRow \cup {NoRow}]
           /\ acked' \in [Incidents -> BOOLEAN]
           /\ lastWriter' \in [Incidents -> Clients \cup {None}]
           /\ dbFaults' \in 0..MaxDbFaults
BY DEF TypeOK, SaveEffect

LEMMA TypeStep == TypeInv /\ [Next]_vars => TypeInv'
<1> SUFFICES ASSUME TypeInv, [Next]_vars PROVE TypeInv'
    OBVIOUS
<1> USE PipelineAssumption DEF TypeInv
<1> DEFINE Frame == UNCHANGED <<row, acked, lastWriter, dbFaults>>
<1>1. ASSUME NEW b \in Bundles, Accept(b) PROVE TypeInv'
    BY <1>1 DEF Accept, Goto, TypeOK, ViewRead, BundlePC, RequestPC, Clients, storeVars,
        jobVars, requestVars, gateVars, Gate!GateTypeOK
<1>2. ASSUME NEW b \in Bundles, NEW e \in Evidence, NEW d \in Evidence \cup {None},
             NEW s \in States, NEW l \in BundlePC,
             SaveLogged(b, e, d, s), Goto(b, l),
             UNCHANGED <<jobVars, requestVars, gateVars, restarts>>
      PROVE  TypeInv'
    <2>1. SaveEffect(b, IncidentOf[b], IncidentView(e, d, s, b))
        BY <1>2, LoggedSaveHasEffect DEF TypeOK
    <2>2. /\ row' \in [Incidents -> StoredRow \cup {NoRow}]
          /\ acked' \in [Incidents -> BOOLEAN]
          /\ lastWriter' \in [Incidents -> Clients \cup {None}]
          /\ dbFaults' \in 0..MaxDbFaults
        BY <2>1, SaveTypes, ViewIsStored, BundleEvidence
    <2>3. QED
        BY <1>2, <2>2 DEF Goto, TypeOK, ViewRead, BundlePC, RequestPC, Clients, jobVars,
            requestVars, gateVars, Gate!GateTypeOK
<1>3. ASSUME NEW b \in Bundles, RecordDetected(b) PROVE TypeInv'
    BY <1>2, <1>3, BundleEvidence DEF RecordDetected, States, PendingStates, BundlePC
<1>4. ASSUME NEW b \in Bundles, CollectEvidence(b) PROVE TypeInv'
    BY <1>2, <1>4, BundleEvidence DEF CollectEvidence, States, PendingStates, BundlePC
<1>5. ASSUME NEW b \in Bundles, RecordDiagnosis(b) PROVE TypeInv'
    BY <1>2, <1>5, BundleEvidence DEF RecordDiagnosis, States, PendingStates, BundlePC
<1>6. ASSUME NEW b \in Bundles, RecordFailure(b) PROVE TypeInv'
    BY <1>2, <1>6, BundleEvidence DEF RecordFailure, States, PendingStates, BundlePC
<1>7. ASSUME NEW b \in Bundles, Notify(b) PROVE TypeInv'
    BY <1>7 DEF Notify, Goto, TypeOK, ViewRead, BundlePC, RequestPC, Clients, storeVars,
        jobVars, requestVars, gateVars, Gate!GateTypeOK
<1>8. ASSUME NEW c \in Clients, EnterGate(c) PROVE TypeInv'
    <2>1. Gate!GateTypeOK'
        <3>1. waiting \in Seq(Clients) /\ running \in SUBSET Clients
            BY DEF TypeOK, Gate!GateTypeOK
        <3>2. Append(waiting, c) \in Seq(Clients)
            BY <3>1
        <3>3. CASE Gate!Enter(c)
            BY <3>1, <3>3 DEF Gate!Enter, Gate!GateTypeOK
        <3>4. CASE Gate!Block(c)
            BY <3>1, <3>2, <3>4 DEF Gate!Block, Gate!GateTypeOK
        <3>5. QED
            BY <1>8, <3>3, <3>4 DEF EnterGate, Gate!Acquire
    <2>2. QED
        BY <1>8, <2>1 DEF EnterGate, Goto, TypeOK, ViewRead, BundlePC, RequestPC, Clients,
            storeVars, jobVars, requestVars
<1>9. ASSUME NEW c \in Clients, Analyze(c) PROVE TypeInv'
    <2>1. Gate!GateTypeOK'
        <3>1. waiting \in Seq(Clients) /\ running \in SUBSET Clients
            BY DEF TypeOK, Gate!GateTypeOK
        <3>2. waiting # <<>> => Head(waiting) \in Clients /\ Tail(waiting) \in Seq(Clients)
            BY <3>1
        <3>3. QED
            BY <1>9, <3>1, <3>2 DEF Analyze, Gate!Release, Gate!GateTypeOK
    <2>2. QED
        BY <1>9, <2>1 DEF Analyze, Goto, TypeOK, ViewRead, BundlePC, RequestPC, Clients,
            storeVars, jobVars, requestVars
<1>10. ASSUME NEW r \in Requests, ReadIncident(r) PROVE TypeInv'
    BY <1>10 DEF ReadIncident, Goto, TypeOK, ViewRead, BundlePC, RequestPC, Clients,
        storeVars, jobVars, gateVars, Gate!GateTypeOK
<1>11. ASSUME NEW r \in Requests, StartJob(r) PROVE TypeInv'
    BY <1>11 DEF StartJob, Goto, TypeOK, ViewRead, BundlePC, RequestPC, Clients,
        storeVars, jobVars, requestVars, gateVars, Gate!GateTypeOK
<1>12. ASSUME NEW r \in Requests, StoreReanalysis(r) PROVE TypeInv'
    <2> DEFINE v == IncidentView(view[r].ev, view[r].ev, "DiagnosisCompleted", view[r].created)
    <2>1. target[r] \in Incidents /\ view[r] \in StoredRow /\ r \in Clients
        BY <1>12 DEF StoreReanalysis, ViewRead, Clients
    <2>2. v \in StoredRow
        BY <2>1, ViewIsStored DEF StoredRow, States
    <2>3. SaveEffect(r, target[r], v)
        BY <1>12, SaveHasEffect DEF StoreReanalysis, TypeOK
    <2>4. /\ row' \in [Incidents -> StoredRow \cup {NoRow}]
          /\ acked' \in [Incidents -> BOOLEAN]
          /\ lastWriter' \in [Incidents -> Clients \cup {None}]
          /\ dbFaults' \in 0..MaxDbFaults
        BY <2>1, <2>2, <2>3, SaveTypes
    <2>5. QED
        BY <1>12, <2>4 DEF StoreReanalysis, Goto, TypeOK, ViewRead, BundlePC, RequestPC,
            Clients, jobVars, requestVars, gateVars, Gate!GateTypeOK
<1>13. ASSUME NEW r \in Requests, FinishJob(r) PROVE TypeInv'
    BY <1>13 DEF FinishJob, Goto, TypeOK, ViewRead, BundlePC, RequestPC, Clients,
        storeVars, requestVars, gateVars, Gate!GateTypeOK
<1>14. ASSUME NEW i \in Incidents, Acknowledge(i) PROVE TypeInv'
    BY <1>14 DEF Acknowledge, TypeOK, ViewRead, jobVars, requestVars, gateVars,
        Gate!GateTypeOK
<1>15. CASE Restart
    BY <1>15 DEF Restart, TypeOK, ViewRead, BundlePC, RequestPC, Clients, Live, Over,
        storeVars, requestVars, Gate!GateTypeOK, Gate!Reset
<1>16. CASE UNCHANGED vars
    BY <1>16 DEF vars, TypeOK, ViewRead, storeVars, jobVars, requestVars, gateVars,
        Gate!GateTypeOK
<1>17. QED
    BY <1>1, <1>3, <1>4, <1>5, <1>6, <1>7, <1>8, <1>9, <1>10, <1>11, <1>12, <1>13, <1>14,
       <1>15, <1>16 DEF Next, BundleStep, RequestStep

(***************************************************************************)
(* The pipeline is type correct: in particular whatever a re-analysis      *)
(* writes back is a complete row (reanalyze_job.go:92-105).                *)
(***************************************************************************)
THEOREM TypeCorrect == Spec => []TypeInv
<1>1. QED
    BY TypeInit, TypeStep, PTL DEF Spec

(***************************************************************************)
(* TypeOK itself, for every number of incidents, alerts and requests.      *)
(***************************************************************************)
THEOREM PipelineTypes == Spec => []TypeOK
<1>1. TypeInv => TypeOK
    BY DEF TypeInv
<1>2. QED
    BY <1>1, TypeCorrect, PTL

-----------------------------------------------------------------------------
(***************************************************************************)
(* Single flight.  The job map and the goroutines mirror each other; that  *)
(* finish finds its own job object through the map is the middle conjunct. *)
(***************************************************************************)
JobsInv ==
    /\ \A i \in Incidents :
          jobs[i] # None => /\ target[jobs[i]] = i
                            /\ pc[jobs[i]] \notin {"absent", "read"}
    /\ \A r \in Requests :
          Reanalyzing(r) => jobs[target[r]] = r /\ jobState[r] = "running"
    /\ \A r \in Requests : jobState[r] = "running" => Reanalyzing(r)

LEMMA JobsInit == Init => JobsInv
BY PipelineAssumption DEF Init, JobsInv, Reanalyzing, Live, Over, Clients

(* A step that leaves the jobs and the requests alone, and moves a         *)
(* goroutine without starting or ending a re-analysis, keeps JobsInv.      *)
LEMMA JobsFrame ==
    ASSUME TypeInv, JobsInv, NEW c \in Clients, NEW l, Goto(c, l),
           c \in Requests => /\ Reanalyzing(c)
                             /\ l \in {"spawned", "atGate", "diagnosed", "failed", "stored"},
           UNCHANGED <<jobs, jobState, target>>
    PROVE  JobsInv'
BY PipelineAssumption DEF TypeInv, TypeOK, JobsInv, Reanalyzing, Live, Over, Goto, Clients

LEMMA JobsStep == TypeInv /\ JobsInv /\ [Next]_vars => JobsInv'
<1> SUFFICES ASSUME TypeInv, JobsInv, [Next]_vars PROVE JobsInv'
    OBVIOUS
<1> USE PipelineAssumption
<1>1. ASSUME NEW b \in Bundles, BundleStep(b) PROVE JobsInv'
    <2>1. b \in Clients /\ b \notin Requests
        BY DEF Clients
    <2>2. PICK l : Goto(b, l) /\ UNCHANGED <<jobVars, requestVars>>
        BY <1>1 DEF BundleStep, Accept, RecordDetected, CollectEvidence, RecordDiagnosis,
            RecordFailure, Notify
    <2>3. QED
        BY <2>1, <2>2, JobsFrame DEF jobVars, requestVars
<1>2. ASSUME NEW c \in Clients, EnterGate(c) PROVE JobsInv'
    <2>1. c \in Requests => Reanalyzing(c)
        BY <1>2 DEF EnterGate, Reanalyzing, Live, Over
    <2>2. QED
        BY <1>2, <2>1, JobsFrame DEF EnterGate, jobVars, requestVars
<1>3. ASSUME NEW c \in Clients, Analyze(c) PROVE JobsInv'
    <2>1. c \in Requests => Reanalyzing(c)
        BY <1>3 DEF Analyze, Reanalyzing, Live, Over
    <2>2. QED
        BY <1>3, <2>1, JobsFrame DEF Analyze, jobVars, requestVars
<1>4. ASSUME NEW r \in Requests, ReadIncident(r) PROVE JobsInv'
    BY <1>4 DEF ReadIncident, Goto, TypeInv, TypeOK, JobsInv, Reanalyzing, Live, Over,
        Clients, jobVars
<1>5. ASSUME NEW r \in Requests, StartJob(r) PROVE JobsInv'
    <2>1. target[r] \in Incidents
        BY <1>5 DEF StartJob, TypeInv, ViewRead
    <2>2. CASE JobRunning(target[r])
        BY <1>5, <2>1, <2>2 DEF StartJob, Goto, TypeInv, TypeOK, JobsInv, Reanalyzing, Live,
            Over, Clients, jobVars, requestVars
    <2>3. CASE ~JobRunning(target[r])
        <3>1. \A q \in Requests : Reanalyzing(q) => target[q] # target[r]
            BY <2>1, <2>3 DEF JobRunning, JobsInv, TypeInv, TypeOK
        <3>2. /\ jobs' = [jobs EXCEPT ![target[r]] = r]
              /\ jobState' = [jobState EXCEPT ![r] = "running"]
              /\ pc' = [pc EXCEPT ![r] = "spawned"]
              /\ target' = target
            BY <1>5, <2>3 DEF StartJob, Goto, requestVars
        <3>3. QED
            BY <2>1, <3>1, <3>2 DEF TypeInv, TypeOK, ViewRead, JobsInv, Reanalyzing, Live,
                Over, Clients
    <2>4. QED
        BY <2>2, <2>3
<1>6. ASSUME NEW r \in Requests, StoreReanalysis(r) PROVE JobsInv'
    <2>1. Reanalyzing(r) /\ r \in Clients
        BY <1>6 DEF StoreReanalysis, Reanalyzing, Live, Over, Clients
    <2>2. QED
        BY <1>6, <2>1, JobsFrame DEF StoreReanalysis, jobVars, requestVars
<1>7. ASSUME NEW r \in Requests, FinishJob(r) PROVE JobsInv'
    <2>1. Reanalyzing(r) /\ target[r] \in Incidents
        BY <1>7 DEF FinishJob, Reanalyzing, Live, Over, TypeInv, ViewRead
    <2>2. jobs[target[r]] = r /\ r # None
        BY <2>1 DEF JobsInv
    <2>3. PICK s \in {"done", "failed"} : jobState' = [jobState EXCEPT ![r] = s]
        BY <1>7, <2>2 DEF FinishJob
    <2>4. pc' = [pc EXCEPT ![r] = "finished"] /\ UNCHANGED <<jobs, target>>
        BY <1>7 DEF FinishJob, Goto, requestVars
    <2>5. QED
        BY <2>1, <2>2, <2>3, <2>4 DEF TypeInv, TypeOK, ViewRead, JobsInv, Reanalyzing, Live,
            Over, Clients
<1>8. ASSUME NEW i \in Incidents, Acknowledge(i) PROVE JobsInv'
    BY <1>8 DEF Acknowledge, JobsInv, Reanalyzing, Live, jobVars, requestVars
<1>9. CASE Restart
    BY <1>9 DEF Restart, TypeInv, TypeOK, JobsInv, Reanalyzing, Live, Over, Clients, requestVars
<1>10. CASE UNCHANGED vars
    BY <1>10 DEF vars, JobsInv, Reanalyzing, Live, jobVars, requestVars
<1>11. QED
    BY <1>1, <1>2, <1>3, <1>4, <1>5, <1>6, <1>7, <1>8, <1>9, <1>10 DEF Next, RequestStep

LEMMA JobsInvariant == Spec => [](TypeInv /\ JobsInv)
<1>1. QED
    BY TypeInit, TypeStep, JobsInit, JobsStep, PTL DEF Spec

(***************************************************************************)
(* An incident never has two re-analyses under way, and its job reads      *)
(* "running" exactly while one is (reanalyze_job.go:38-62), whatever the   *)
(* restarts and the interleaving of the requests.                          *)
(***************************************************************************)
THEOREM SingleFlight == Spec => []JobTracksGoroutine
<1>1. TypeInv /\ JobsInv => JobTracksGoroutine
    <2> SUFFICES ASSUME TypeInv, JobsInv PROVE JobTracksGoroutine
        OBVIOUS
    <2>1. \A r \in Requests : Reanalyzing(r) => target[r] \in Incidents
        BY DEF TypeInv, ViewRead, Reanalyzing, Live, Over
    <2>2. QED
        BY <2>1 DEF JobsInv, JobTracksGoroutine
<1>2. QED
    BY <1>1, JobsInvariant, PTL

-----------------------------------------------------------------------------
(***************************************************************************)
(* The pipeline uses the gate as a gate: every step acquires, releases,    *)
(* resets or leaves it alone.                                              *)
(***************************************************************************)
THEOREM PipelineUsesGate == Spec => UsesGate
<1>1. Init => Gate!GateInit
    BY DEF Init
<1>2. [Next]_vars => [Gate!GateNext]_(Gate!gateVars)
    <2> SUFFICES ASSUME [Next]_vars PROVE [Gate!GateNext]_(Gate!gateVars)
        OBVIOUS
    <2>1. ASSUME NEW b \in Bundles, BundleStep(b) PROVE UNCHANGED gateVars
        BY <2>1 DEF BundleStep, Accept, RecordDetected, CollectEvidence, RecordDiagnosis,
            RecordFailure, Notify
    <2>2. ASSUME NEW r \in Requests, RequestStep(r) PROVE UNCHANGED gateVars
        BY <2>2 DEF RequestStep, ReadIncident, StartJob, StoreReanalysis, FinishJob
    <2>3. ASSUME NEW c \in Clients, EnterGate(c) \/ Analyze(c) PROVE Gate!GateNext
        BY <2>3 DEF EnterGate, Analyze, Gate!GateNext
    <2>4. ASSUME NEW i \in Incidents, Acknowledge(i) PROVE UNCHANGED gateVars
        BY <2>4 DEF Acknowledge
    <2>5. CASE Restart
        BY <2>5 DEF Restart, Gate!GateNext
    <2>6. CASE UNCHANGED vars
        BY <2>6 DEF vars, gateVars, Gate!gateVars
    <2>7. QED
        BY <2>1, <2>2, <2>3, <2>4, <2>5, <2>6 DEF Next, gateVars, Gate!gateVars
<1>3. QED
    BY <1>1, <1>2, PTL DEF Spec, UsesGate, Gate!GateSpec

(* The gate of the pipeline is the one that AnalysisGateProofs is about.    *)
LEMMA SameGate ==
    /\ \A S : Gate!Cardinality(S) = GP!Cardinality(S)
    /\ Gate!GateInit => GP!GateInit
    /\ [Gate!GateNext]_(Gate!gateVars) => [GP!GateNext]_(GP!gateVars)
<1>1. \A S : Gate!Cardinality(S) = GP!Cardinality(S)
    BY DEF Gate!Cardinality, GP!Cardinality
<1>2. Gate!GateInit => GP!GateInit
    BY DEF Gate!GateInit, GP!GateInit
<1>3. [Gate!GateNext]_(Gate!gateVars) => [GP!GateNext]_(GP!gateVars)
    BY <1>1 DEF Gate!GateNext, Gate!gateVars, Gate!Acquire, Gate!Enter, Gate!Block, Gate!Release,
        Gate!Reset, Gate!Outside, Gate!Waiters, Gate!Capacity,
        GP!GateNext, GP!gateVars, GP!Acquire, GP!Enter, GP!Block, GP!Release,
        GP!Reset, GP!Outside, GP!Waiters, GP!Capacity
<1>4. QED
    BY <1>1, <1>2, <1>3

(* So what is proved of the gate holds of the pipeline's.                  *)
LEMMA PipelineRunsGate == Spec => GP!GateSpec
<1>1. Gate!GateInit => GP!GateInit
    BY SameGate
<1>2. [Gate!GateNext]_(Gate!gateVars) => [GP!GateNext]_(GP!gateVars)
    BY SameGate
<1>3. QED
    BY <1>1, <1>2, PipelineUsesGate, PTL DEF UsesGate, Gate!GateSpec, GP!GateSpec

(***************************************************************************)
(* Alerts and re-analyses together never run more analyses at once than    *)
(* ai.max_concurrent, no place at the gate leaks, and whoever waits waits  *)
(* for somebody.                                                           *)
(***************************************************************************)
THEOREM PipelineCapacity ==
    Spec => [](Gate!CapacityRespected /\ Gate!TokensAccounted /\ (waiting # <<>> => running # {}))
<1>1. GP!GateAssumption
    BY PipelineAssumption DEF GP!GateAssumption
<1>2. GP!GateSpec => []GP!GateInv
    BY <1>1, GP!GateInvariant
<1>3. GP!GateSpec => [](waiting # <<>> => running # {})
    BY <1>1, GP!WaitersHaveHolders
<1>4. GP!GateInv => Gate!CapacityRespected /\ Gate!TokensAccounted
    BY SameGate DEF GP!GateInv, GP!CapacityRespected, GP!TokensAccounted, GP!NoIdleSlot,
        GP!WaitsOnce, GP!Waiters, GP!Capacity,
        Gate!CapacityRespected, Gate!TokensAccounted, Gate!NoIdleSlot,
        Gate!WaitsOnce, Gate!Waiters, Gate!Capacity
<1>5. QED
    BY <1>2, <1>3, <1>4, PipelineRunsGate, PTL

(***************************************************************************)
(* Alerts, polled or pushed, and re-analyses get their places in the order *)
(* in which they came to the gate (analysis_gate.go:17).                   *)
(***************************************************************************)
THEOREM PipelineInOrder == Spec => Gate!NoOvertaking
<1>1. GP!GateAssumption
    BY PipelineAssumption DEF GP!GateAssumption
<1>2. GP!GateSpec => GP!NoOvertaking
    BY <1>1, GP!GateOrder
<1>3. [GP!StartsInOrder]_(GP!gateVars) => [Gate!StartsInOrder]_(Gate!gateVars)
    BY DEF GP!StartsInOrder, GP!gateVars, Gate!StartsInOrder, Gate!gateVars
<1>4. QED
    BY <1>2, <1>3, PipelineRunsGate, PTL DEF Gate!NoOvertaking, GP!NoOvertaking

-----------------------------------------------------------------------------
(***************************************************************************)
(* Rows and the copies of rows that requests carry are consistent.         *)
(***************************************************************************)
RowsInv ==
    /\ RowConsistent
    /\ \A r \in Requests :
          pc[r] \notin {"absent", "refused", "lost"} => Consistent(target[r], view[r])

LEMMA RowsInit == Init => RowsInv
BY DEF Init, RowsInv, RowConsistent, NoRow, Clients

(* A save of a consistent row keeps the table consistent.                  *)
LEMMA SaveConsistent ==
    ASSUME TypeOK, RowConsistent, NEW c, NEW i \in Incidents, NEW v \in StoredRow,
           Consistent(i, v), SaveEffect(c, i, v)
    PROVE  RowConsistent'
BY DEF TypeOK, RowConsistent, SaveEffect, Consistent

(* What processBundle saves for a bundle is consistent.                    *)
LEMMA BundleViewConsistent ==
    ASSUME NEW b \in Bundles, NEW e \in {Bare(b), Collected(b)},
           NEW d, NEW s \in States,
           (s = "DiagnosisCompleted" /\ d = e) \/ (s # "DiagnosisCompleted" /\ d = None)
    PROVE  /\ IncidentView(e, d, s, b) \in StoredRow
           /\ Consistent(IncidentOf[b], IncidentView(e, d, s, b))
<1>1. e \in Evidence /\ e.of = b /\ d \in Evidence \cup {None}
    BY BundleEvidence
<1>2. None \notin Evidence
    BY PipelineAssumption
<1>3. QED
    BY <1>1, <1>2, ViewIsStored DEF Consistent

LEMMA RowsStep == TypeInv /\ RowsInv /\ [Next]_vars => RowsInv'
<1> SUFFICES ASSUME TypeInv, RowsInv, [Next]_vars PROVE RowsInv'
    OBVIOUS
<1> USE PipelineAssumption
<1> DEFINE Saves(b, e, d, s) ==
              /\ SaveLogged(b, e, d, s)
              /\ \E l : Goto(b, l)
              /\ UNCHANGED <<jobVars, requestVars, gateVars, restarts>>
<1>1. ASSUME NEW b \in Bundles, NEW e \in {Bare(b), Collected(b)}, NEW d, NEW s \in States,
             (s = "DiagnosisCompleted" /\ d = e) \/ (s # "DiagnosisCompleted" /\ d = None),
             Saves(b, e, d, s)
      PROVE  RowsInv'
    <2>1. SaveEffect(b, IncidentOf[b], IncidentView(e, d, s, b))
        BY <1>1, LoggedSaveHasEffect DEF TypeInv, TypeOK
    <2>2. RowConsistent'
        BY <1>1, <2>1, BundleViewConsistent, BundleEvidence, SaveConsistent
        DEF RowsInv, TypeInv
    <2>3. \A r \in Requests : pc'[r] = pc[r] /\ target'[r] = target[r] /\ view'[r] = view[r]
        BY <1>1 DEF Goto, requestVars, TypeInv, TypeOK, Clients
    <2>4. QED
        BY <2>2, <2>3 DEF RowsInv, Consistent
<1>2. ASSUME NEW b \in Bundles, BundleStep(b) PROVE RowsInv'
    <2>1. CASE Accept(b) \/ Notify(b)
        BY <2>1 DEF Accept, Notify, Goto, RowsInv, RowConsistent, Consistent, TypeInv, TypeOK,
            Clients, storeVars, requestVars
    <2>2. CASE RecordDetected(b)
        BY <1>1, <2>2 DEF RecordDetected, States, PendingStates
    <2>3. CASE CollectEvidence(b)
        BY <1>1, <2>3 DEF CollectEvidence, States, PendingStates
    <2>4. CASE RecordDiagnosis(b)
        BY <1>1, <2>4 DEF RecordDiagnosis, States, PendingStates
    <2>5. CASE RecordFailure(b)
        BY <1>1, <2>5 DEF RecordFailure, States, PendingStates
    <2>6. QED
        BY <1>2, <2>1, <2>2, <2>3, <2>4, <2>5 DEF BundleStep
<1>3. ASSUME NEW c \in Clients, EnterGate(c) \/ Analyze(c) PROVE RowsInv'
    BY <1>3 DEF EnterGate, Analyze, Goto, RowsInv, RowConsistent, Consistent, TypeInv, TypeOK,
        Clients, storeVars, requestVars
<1>4. ASSUME NEW r \in Requests, ReadIncident(r) PROVE RowsInv'
    BY <1>4 DEF ReadIncident, Goto, RowsInv, RowConsistent, Consistent, TypeInv, TypeOK,
        Clients, storeVars
<1>5. ASSUME NEW r \in Requests, StartJob(r) \/ FinishJob(r) PROVE RowsInv'
    BY <1>5 DEF StartJob, FinishJob, Goto, RowsInv, RowConsistent, Consistent, TypeInv, TypeOK,
        Clients, storeVars, requestVars
<1>6. ASSUME NEW r \in Requests, StoreReanalysis(r) PROVE RowsInv'
    <2> DEFINE v == IncidentView(view[r].ev, view[r].ev, "DiagnosisCompleted", view[r].created)
    <2>1. /\ target[r] \in Incidents /\ view[r] \in StoredRow
          /\ Consistent(target[r], view[r])
        BY <1>6 DEF StoreReanalysis, TypeInv, ViewRead, RowsInv
    <2>2. v \in StoredRow /\ Consistent(target[r], v)
        BY <2>1, ViewIsStored DEF StoredRow, States, Consistent
    <2>3. SaveEffect(r, target[r], v)
        BY <1>6, SaveHasEffect DEF StoreReanalysis, TypeInv, TypeOK
    <2>4. RowConsistent'
        BY <2>1, <2>2, <2>3, SaveConsistent DEF RowsInv, TypeInv
    <2>5. QED
        BY <1>6, <2>4 DEF StoreReanalysis, Goto, RowsInv, Consistent, TypeInv, TypeOK, Clients,
            requestVars
<1>7. ASSUME NEW i \in Incidents, Acknowledge(i) PROVE RowsInv'
    BY <1>7 DEF Acknowledge, RowsInv, RowConsistent, Consistent, requestVars
<1>8. CASE Restart
    BY <1>8 DEF Restart, Live, Over, RowsInv, RowConsistent, Consistent, TypeInv, TypeOK,
        Clients, storeVars, requestVars
<1>9. CASE UNCHANGED vars
    BY <1>9 DEF vars, RowsInv, RowConsistent, Consistent, storeVars, requestVars
<1>10. QED
    BY <1>2, <1>3, <1>4, <1>5, <1>6, <1>7, <1>8, <1>9 DEF Next, RequestStep

(***************************************************************************)
(* The screen never shows a diagnosis beside evidence it was not drawn     *)
(* from, and re-analysis keeps the creation time of the alert shown        *)
(* (reanalyze_job.go:102-104), whatever races with whatever.               *)
(***************************************************************************)
THEOREM RowsConsistent == Spec => []RowConsistent
<1>1. RowsInv => RowConsistent
    BY DEF RowsInv
<1>2. QED
    BY <1>1, TypeInit, TypeStep, RowsInit, RowsStep, PTL DEF Spec

-----------------------------------------------------------------------------
(***************************************************************************)
(* Who wrote a row, and what that goroutine still has to do.               *)
(* PendingHasWorker is not inductive by itself: the goroutine that wrote a *)
(* pending state must be before its last save, not just alive.             *)
(***************************************************************************)
PendingWritten ==
    restarts = 0 /\ dbFaults = 0 =>
        \A i \in Incidents :
            Pending(i) =>
                /\ lastWriter[i] \in Bundles
                /\ IncidentOf[lastWriter[i]] = i
                /\ pc[lastWriter[i]] \in {"enriching", "collected", "atGate", "diagnosed", "failed"}

(***************************************************************************)
(* A row that shows a stage of an alert's processing was written by the    *)
(* goroutine of that alert, which never writes that stage again: what a    *)
(* re-analysis read cannot come back, except as a diagnosis.               *)
(***************************************************************************)
Reached(v) ==
    /\ v.state = "IncidentDetected" => pc[v.ev.of] \notin {"absent", "received"}
    /\ v.state = "EvidenceCollected" => pc[v.ev.of] \notin {"absent", "received", "enriching"}
    /\ v.state = "ValidationFailed" => pc[v.ev.of] \in {"finished", "lost"}

StageInv ==
    /\ \A i \in Incidents : Reached(row[i])
    /\ \A r \in Requests : Reached(view[r])

(* A goroutine goes forward only.                                          *)
Forward(b) ==
    /\ pc[b] \notin {"absent", "received"} => pc'[b] \notin {"absent", "received"}
    /\ pc[b] \notin {"absent", "received", "enriching"} =>
           pc'[b] \notin {"absent", "received", "enriching"}
    /\ pc[b] \in {"finished", "lost"} => pc'[b] \in {"finished", "lost"}

LEMMA StageInit == Init => StageInv
BY DEF Init, StageInv, Reached, NoRow

LEMMA GoForward ==
    ASSUME TypeOK, NEW c \in Clients, NEW l, Goto(c, l),
           c \in Bundles =>
               /\ l \notin {"absent", "received"} \/ pc[c] = "absent"
               /\ l # "enriching" \/ pc[c] = "received"
               /\ pc[c] \notin {"finished", "lost"}
    PROVE  \A b \in Bundles : Forward(b)
BY DEF TypeOK, Goto, Forward, Clients

LEMMA EvidenceOfRow ==
    ASSUME NEW v \in StoredRow \cup {NoRow}, v.state \in States
    PROVE  v.ev.of \in Bundles
BY DEF StoredRow, Evidence, NoRow, States, PendingStates

(* Rows and views that were reached stay reached; new ones must be.        *)
LEMMA StageKept ==
    ASSUME TypeInv, StageInv, \A b \in Bundles : Forward(b),
           \A i \in Incidents : row'[i] = row[i] \/ Reached(row[i])',
           \A r \in Requests : view'[r] = view[r] \/ \E i \in Incidents : view'[r] = row[i]
    PROVE  StageInv'
<1>1. ASSUME NEW v \in StoredRow \cup {NoRow}, Reached(v),
             NEW w, w = v
      PROVE  /\ w.state = "IncidentDetected" => pc'[w.ev.of] \notin {"absent", "received"}
             /\ w.state = "EvidenceCollected" =>
                    pc'[w.ev.of] \notin {"absent", "received", "enriching"}
             /\ w.state = "ValidationFailed" => pc'[w.ev.of] \in {"finished", "lost"}
    BY <1>1, EvidenceOfRow DEF Reached, Forward, States, PendingStates
<1>2. \A i \in Incidents : row[i] \in StoredRow \cup {NoRow} /\ Reached(row[i])
    BY DEF TypeInv, TypeOK, StageInv
<1>3. \A r \in Requests : view[r] \in StoredRow \cup {NoRow} /\ Reached(view[r])
    BY DEF TypeInv, TypeOK, StageInv
<1>4. \A i \in Incidents : Reached(row[i])'
    BY <1>1, <1>2 DEF Reached
<1>5. \A r \in Requests : Reached(view[r])'
    BY <1>1, <1>2, <1>3 DEF Reached
<1>6. QED
    BY <1>4, <1>5 DEF StageInv

LEMMA StageSave ==
    ASSUME TypeInv, StageInv, NEW b \in Bundles, NEW e \in {Bare(b), Collected(b)}, NEW d,
           NEW s, NEW l, SaveLogged(b, e, d, s), Goto(b, l), UNCHANGED requestVars,
           \/ s = "IncidentDetected" /\ pc[b] = "received" /\ l = "enriching"
           \/ s = "EvidenceCollected" /\ pc[b] = "enriching" /\ l = "collected"
           \/ s = "ValidationFailed" /\ pc[b] = "failed" /\ l = "finished"
           \/ s = "DiagnosisCompleted" /\ pc[b] = "diagnosed" /\ l \in {"notifying", "finished"}
    PROVE  StageInv'
<1>1. /\ e.of = b /\ b \in Clients /\ pc'[b] = l /\ view' = view
      /\ IncidentOf[b] \in Incidents
    BY BundleEvidence DEF Goto, TypeInv, TypeOK, requestVars
<1>2. \A c \in Bundles : Forward(c)
    BY <1>1, GoForward DEF TypeInv
<1>3. SaveEffect(b, IncidentOf[b], IncidentView(e, d, s, b))
    BY LoggedSaveHasEffect DEF TypeInv, TypeOK
<1>4. ASSUME NEW i \in Incidents, row'[i] # row[i] PROVE Reached(row[i])'
    <2>1. row'[i] = IncidentView(e, d, s, b)
        BY <1>1, <1>3, <1>4, SaveChangesOneRow DEF TypeInv
    <2>2. row'[i].ev.of = b /\ row'[i].state = s
        BY <1>1, <2>1 DEF IncidentView
    <2>3. QED
        BY <1>1, <2>2 DEF Reached
<1>5. QED
    BY <1>1, <1>2, <1>4, StageKept

LEMMA StageStep == TypeInv /\ StageInv /\ [Next]_vars => StageInv'
<1> SUFFICES ASSUME TypeInv, StageInv, [Next]_vars PROVE StageInv'
    OBVIOUS
<1> USE PipelineAssumption
<1>1. ASSUME NEW b \in Bundles, BundleStep(b) PROVE StageInv'
    <2>1. CASE Accept(b) \/ Notify(b)
        <3>1. /\ \A c \in Bundles : Forward(c)
              /\ UNCHANGED <<row, view>>
            BY <2>1, GoForward DEF Accept, Notify, TypeInv, Clients, storeVars, requestVars
        <3>2. QED
            BY <3>1, StageKept
    <2>2. CASE RecordDetected(b)
        BY <2>2, StageSave DEF RecordDetected
    <2>3. CASE CollectEvidence(b)
        BY <2>3, StageSave DEF CollectEvidence
    <2>4. CASE RecordDiagnosis(b)
        BY <2>4, StageSave DEF RecordDiagnosis
    <2>5. CASE RecordFailure(b)
        BY <2>5, StageSave DEF RecordFailure
    <2>6. QED
        BY <1>1, <2>1, <2>2, <2>3, <2>4, <2>5 DEF BundleStep
<1>2. ASSUME NEW c \in Clients, EnterGate(c) \/ Analyze(c) PROVE StageInv'
    <2>1. PICK l \in {"atGate", "diagnosed", "failed"} : Goto(c, l)
        BY <1>2 DEF EnterGate, Analyze
    <2>2. pc[c] \in {"collected", "spawned", "atGate"} /\ UNCHANGED <<row, view>>
        BY <1>2 DEF EnterGate, Analyze, storeVars, requestVars
    <2>3. \A b \in Bundles : Forward(b)
        BY <2>1, <2>2, GoForward DEF TypeInv
    <2>4. QED
        BY <2>2, <2>3, StageKept
<1>3. ASSUME NEW r \in Requests, RequestStep(r) PROVE StageInv'
    <2>1. r \in Clients /\ r \notin Bundles /\ \E l : Goto(r, l)
        BY <1>3 DEF RequestStep, ReadIncident, StartJob, StoreReanalysis, FinishJob, Clients
    <2>2. \A b \in Bundles : Forward(b)
        BY <2>1, GoForward DEF TypeInv
    <2>3. ASSUME ReadIncident(r)
          PROVE  /\ row' = row
                 /\ \A q \in Requests :
                        view'[q] = view[q] \/ \E i \in Incidents : view'[q] = row[i]
        BY <2>3 DEF ReadIncident, storeVars, TypeInv, TypeOK
    <2>4. ASSUME StoreReanalysis(r)
          PROVE  /\ view' = view
                 /\ \A i \in Incidents : row'[i] = row[i] \/ Reached(row[i])'
        <3> DEFINE v == IncidentView(view[r].ev, view[r].ev, "DiagnosisCompleted",
                                     view[r].created)
        <3>1. target[r] \in Incidents /\ SaveEffect(r, target[r], v)
            BY <2>4, SaveHasEffect DEF StoreReanalysis, TypeInv, TypeOK, ViewRead
        <3>2. v.state = "DiagnosisCompleted"
            BY DEF IncidentView
        <3>3. QED
            BY <2>4, <3>1, <3>2, SaveChangesOneRow
            DEF StoreReanalysis, requestVars, TypeInv, Reached
    <2>5. ASSUME StartJob(r) \/ FinishJob(r) PROVE UNCHANGED <<row, view>>
        BY <2>5 DEF StartJob, FinishJob, storeVars, requestVars
    <2>6. QED
        BY <1>3, <2>2, <2>3, <2>4, <2>5, StageKept DEF RequestStep
<1>4. ASSUME NEW i \in Incidents, Acknowledge(i) PROVE StageInv'
    BY <1>4 DEF Acknowledge, StageInv, Reached, requestVars
<1>5. CASE Restart
    <2>1. \A b \in Bundles : Forward(b)
        BY <1>5 DEF Restart, Live, Over, Forward, Clients
    <2>2. UNCHANGED <<row, view>>
        BY <1>5 DEF Restart, storeVars, requestVars
    <2>3. QED
        BY <2>1, <2>2, StageKept
<1>6. CASE UNCHANGED vars
    BY <1>6 DEF vars, storeVars, requestVars, StageInv, Reached
<1>7. QED
    BY <1>1, <1>2, <1>3, <1>4, <1>5, <1>6 DEF Next

WriterInv == PendingWritten /\ NotifiedDiagnosisStored /\ DoneMeansStored

LEMMA WriterInit == Init => WriterInv
BY DEF Init, WriterInv, PendingWritten, NotifiedDiagnosisStored, DoneMeansStored, Pending,
    NoRow, PendingStates, Clients

(* One save of processBundle: l is where the goroutine goes next.          *)
LEMMA WriterSave ==
    ASSUME TypeInv, StageInv, WriterInv,
           NEW b \in Bundles, NEW e \in {Bare(b), Collected(b)}, NEW d \in {None, Collected(b)},
           NEW s \in States, NEW l \in {"enriching", "collected", "notifying", "finished"},
           SaveEffect(b, IncidentOf[b], IncidentView(e, d, s, b)), Goto(b, l),
           UNCHANGED <<requestVars, restarts>>,
           s \in PendingStates => l \in {"enriching", "collected"},
           l = "notifying" => d = Collected(b),
           \/ s = "IncidentDetected" /\ pc[b] = "received"
           \/ s = "EvidenceCollected" /\ pc[b] = "enriching"
           \/ s = "ValidationFailed" /\ pc[b] = "failed"
           \/ s = "DiagnosisCompleted" /\ d = e
    PROVE  WriterInv'
<1> DEFINE i == IncidentOf[b]
           v == IncidentView(e, d, s, b)
<1>1. /\ i \in Incidents /\ b \in Clients
      /\ v \in StoredRow /\ v.diag = d /\ v.state = s
    BY ViewIsStored, BundleEvidence
<1>2. /\ pc' = [pc EXCEPT ![b] = l]
      /\ restarts' = restarts /\ target' = target /\ view' = view
    BY DEF Goto, requestVars
<1>3. CASE row' = [row EXCEPT ![i] = v] /\ lastWriter' = [lastWriter EXCEPT ![i] = b]
    <2>1. PendingWritten'
        BY <1>1, <1>2, <1>3
        DEF SaveEffect, WriterInv, PendingWritten, Pending, TypeInv, TypeOK, Clients
    <2>2. NotifiedDiagnosisStored'
        BY <1>1, <1>2, <1>3
        DEF SaveEffect, WriterInv, NotifiedDiagnosisStored, TypeInv, TypeOK, Clients
    <2>3. DoneMeansStored'
        <3>1. SUFFICES ASSUME NEW r \in Requests, pc'[r] = "stored"
                       PROVE  /\ lastWriter'[target[r]] \in Bundles \cup {r}
                              /\ \/ Shows(row'[target[r]], view[r].ev)
                                 \/ lastWriter'[target[r]] # r /\ row'[target[r]] # view[r]
            BY <1>2 DEF DoneMeansStored
        <3>2. /\ r # b /\ pc[r] = "stored"
              /\ target[r] \in Incidents /\ view[r] \in StoredRow
            BY <1>2, <3>1, PipelineAssumption DEF TypeInv, TypeOK, ViewRead, Clients
        <3>3. CASE target[r] = i
            <4>1. row'[i] = v /\ lastWriter'[i] = b
                BY <1>1, <1>3 DEF TypeInv, TypeOK
            <4>2. v.ev = e /\ v.diag = d /\ v.state = s /\ e.of = b
                BY BundleEvidence DEF IncidentView
            <4>3. s = "DiagnosisCompleted" /\ d = e => v # view[r] \/ Shows(v, view[r].ev)
                BY <4>2 DEF Shows
            <4>4. s # "DiagnosisCompleted" => v # view[r]
                BY <3>2, <4>2 DEF StageInv, Reached
            <4>5. QED
                BY <3>2, <3>3, <4>1, <4>3, <4>4
        <3>4. CASE target[r] # i
            <4>1. row'[target[r]] = row[target[r]] /\ lastWriter'[target[r]] = lastWriter[target[r]]
                BY <1>1, <1>3, <3>2, <3>4 DEF TypeInv, TypeOK
            <4>2. QED
                BY <3>2, <4>1 DEF WriterInv, DoneMeansStored
        <3>5. QED
            BY <3>3, <3>4
    <2>4. QED
        BY <2>1, <2>2, <2>3 DEF WriterInv
<1>4. CASE UNCHANGED <<row, lastWriter>> /\ dbFaults' # 0
    <2>1. PendingWritten' /\ NotifiedDiagnosisStored'
        BY <1>4 DEF PendingWritten, NotifiedDiagnosisStored
    <2>2. DoneMeansStored'
        BY <1>1, <1>2, <1>4, PipelineAssumption
        DEF WriterInv, DoneMeansStored, TypeInv, TypeOK, Clients
    <2>3. QED
        BY <2>1, <2>2 DEF WriterInv
<1>5. QED
    BY <1>3, <1>4 DEF SaveEffect

(* A goroutine moves without writing: it must not be about to save a       *)
(* pending row for the last time, nor arrive at "notifying" or "stored".   *)
LEMMA WriterMove ==
    ASSUME TypeInv, WriterInv, NEW c \in Clients, NEW l, Goto(c, l),
           UNCHANGED <<row, lastWriter, dbFaults, target, restarts>>,
           \A r \in Requests : r = c \/ view'[r] = view[r],
           l \notin {"notifying", "stored"},
           \/ l \in {"enriching", "collected", "atGate", "diagnosed", "failed"}
           \/ pc[c] \notin {"enriching", "collected", "atGate", "diagnosed", "failed"}
    PROVE  WriterInv'
<1>1. /\ pc' = [pc EXCEPT ![c] = l]
      /\ row' = row /\ lastWriter' = lastWriter /\ dbFaults' = dbFaults
      /\ target' = target /\ restarts' = restarts
    BY DEF Goto
<1>2. PendingWritten'
    BY <1>1 DEF WriterInv, PendingWritten, Pending, TypeInv, TypeOK, Clients
<1>3. NotifiedDiagnosisStored'
    BY <1>1 DEF WriterInv, NotifiedDiagnosisStored, TypeInv, TypeOK, Clients
<1>4. DoneMeansStored'
    BY <1>1 DEF WriterInv, DoneMeansStored, TypeInv, TypeOK, Clients
<1>5. QED
    BY <1>2, <1>3, <1>4 DEF WriterInv

LEMMA WriterStep == TypeInv /\ JobsInv /\ StageInv /\ WriterInv /\ [Next]_vars => WriterInv'
<1> SUFFICES ASSUME TypeInv, JobsInv, StageInv, WriterInv, [Next]_vars PROVE WriterInv'
    OBVIOUS
<1> USE PipelineAssumption
<1>1. ASSUME NEW b \in Bundles, Accept(b) PROVE WriterInv'
    BY <1>1, WriterMove DEF Accept, storeVars, requestVars, Clients
<1>2. ASSUME NEW b \in Bundles, RecordDetected(b) PROVE WriterInv'
    BY <1>2, LoggedSaveHasEffect, WriterSave
    DEF RecordDetected, States, PendingStates, TypeInv, TypeOK
<1>3. ASSUME NEW b \in Bundles, CollectEvidence(b) PROVE WriterInv'
    BY <1>3, LoggedSaveHasEffect, WriterSave
    DEF CollectEvidence, States, PendingStates, TypeInv, TypeOK
<1>4. ASSUME NEW b \in Bundles, RecordDiagnosis(b) PROVE WriterInv'
    BY <1>4, LoggedSaveHasEffect, WriterSave
    DEF RecordDiagnosis, States, PendingStates, TypeInv, TypeOK
<1>5. ASSUME NEW b \in Bundles, RecordFailure(b) PROVE WriterInv'
    BY <1>5, LoggedSaveHasEffect, WriterSave
    DEF RecordFailure, States, PendingStates, TypeInv, TypeOK
<1>6. ASSUME NEW b \in Bundles, Notify(b) PROVE WriterInv'
    BY <1>6, WriterMove DEF Notify, storeVars, requestVars, Clients
<1>7. ASSUME NEW c \in Clients, EnterGate(c) PROVE WriterInv'
    BY <1>7, WriterMove DEF EnterGate, storeVars, requestVars
<1>8. ASSUME NEW c \in Clients, Analyze(c) PROVE WriterInv'
    <2>1. PICK l \in {"diagnosed", "failed"} : Goto(c, l)
        BY <1>8 DEF Analyze
    <2>2. QED
        BY <1>8, <2>1, WriterMove DEF Analyze, storeVars, requestVars
<1>9. ASSUME NEW r \in Requests, ReadIncident(r) PROVE WriterInv'
    <2>1. pc' = [pc EXCEPT ![r] = "read"] \/ pc' = [pc EXCEPT ![r] = "refused"]
        BY <1>9 DEF ReadIncident, Goto
    <2>2. \A q \in Requests : pc'[q] = "stored" =>
              pc[q] = "stored" /\ target'[q] = target[q] /\ view'[q] = view[q]
        BY <1>9, <2>1 DEF ReadIncident, TypeInv, TypeOK, Clients
    <2>3. \A b \in Bundles : pc'[b] = pc[b]
        BY <2>1 DEF TypeInv, TypeOK, Clients
    <2>4. row' = row /\ lastWriter' = lastWriter /\ dbFaults' = dbFaults /\ restarts' = restarts
        BY <1>9 DEF ReadIncident, storeVars
    <2>5. QED
        BY <2>2, <2>3, <2>4
        DEF WriterInv, PendingWritten, NotifiedDiagnosisStored, DoneMeansStored, Pending
<1>10. ASSUME NEW r \in Requests, StartJob(r) PROVE WriterInv'
    <2>1. PICK l \in {"spawned", "refused"} : Goto(r, l)
        BY <1>10 DEF StartJob
    <2>2. QED
        BY <1>10, <2>1, WriterMove DEF StartJob, storeVars, requestVars, Clients
<1>11. ASSUME NEW r \in Requests, StoreReanalysis(r) PROVE WriterInv'
    <2> DEFINE v == IncidentView(view[r].ev, view[r].ev, "DiagnosisCompleted", view[r].created)
    <2>1. target[r] \in Incidents /\ view[r] \in StoredRow /\ r \in Clients /\ Reanalyzing(r)
        BY <1>11 DEF StoreReanalysis, TypeInv, ViewRead, Clients, Reanalyzing, Live, Over
    <2>2. v \in StoredRow /\ v.diag = view[r].ev /\ v.state = "DiagnosisCompleted"
        BY <2>1 DEF IncidentView, StoredRow, States
    <2>3. /\ SaveEffect(r, target[r], v)
          /\ target' = target /\ view' = view /\ restarts' = restarts
        BY <1>11, SaveHasEffect DEF StoreReanalysis, requestVars, TypeInv, TypeOK
    <2>4. /\ pc' = [pc EXCEPT ![r] = "stored"] \/ pc' = [pc EXCEPT ![r] = "failed"]
          /\ pc[r] = "diagnosed"
          /\ pc'[r] = "stored" => /\ row' = [row EXCEPT ![target[r]] = v]
                                  /\ lastWriter' = [lastWriter EXCEPT ![target[r]] = r]
        BY <1>11, <2>1 DEF StoreReanalysis, Goto, SaveSucceeds, Upsert, TypeInv, TypeOK, Clients
    <2>5. \A b \in Bundles : pc'[b] = pc[b]
        BY <2>4 DEF TypeInv, TypeOK, Clients
    <2>6. \A q \in Requests : pc'[q] = "stored" /\ q # r => target[q] # target[r]
        BY <2>1, <2>4 DEF JobsInv, Reanalyzing, Live, Over, TypeInv, TypeOK, Clients
    <2>7. PendingWritten'
        BY <2>1, <2>2, <2>3, <2>5
        DEF SaveEffect, WriterInv, PendingWritten, Pending, PendingStates, TypeInv, TypeOK
    <2>8. NotifiedDiagnosisStored'
        BY <2>1, <2>2, <2>3, <2>5, BundleEvidence
        DEF SaveEffect, WriterInv, NotifiedDiagnosisStored, TypeInv, TypeOK
    <2>9. DoneMeansStored'
        <3>1. ASSUME NEW q \in Requests, q # r, pc'[q] = "stored"
              PROVE  /\ lastWriter'[target[q]] \in Bundles \cup {q}
                     /\ \/ Shows(row'[target[q]], view[q].ev)
                        \/ lastWriter'[target[q]] # q /\ row'[target[q]] # view[q]
            <4>1. pc[q] = "stored" /\ target[q] \in Incidents /\ target[q] # target[r]
                BY <2>4, <2>6, <3>1 DEF TypeInv, TypeOK, ViewRead, Clients
            <4>2. lastWriter'[target[q]] = lastWriter[target[q]] /\ row'[target[q]] = row[target[q]]
                BY <2>3, <4>1 DEF SaveEffect, TypeInv, TypeOK
            <4>3. QED
                BY <4>1, <4>2 DEF WriterInv, DoneMeansStored
        <3>2. pc'[r] = "stored" =>
                  lastWriter'[target[r]] = r /\ Shows(row'[target[r]], view[r].ev)
            <4>1. v.ev = view[r].ev
                BY DEF IncidentView
            <4>2. QED
                BY <2>1, <2>2, <2>4, <4>1 DEF TypeInv, TypeOK, Shows
        <3>3. QED
            BY <2>3, <3>1, <3>2 DEF DoneMeansStored
    <2>10. QED
        BY <2>7, <2>8, <2>9 DEF WriterInv
<1>12. ASSUME NEW r \in Requests, FinishJob(r) PROVE WriterInv'
    <2>1. /\ pc' = [pc EXCEPT ![r] = "finished"]
          /\ UNCHANGED <<row, lastWriter, dbFaults, target, view, restarts>>
        BY <1>12 DEF FinishJob, Goto, storeVars, requestVars
    <2>2. /\ \A b \in Bundles : pc'[b] = pc[b]
          /\ \A q \in Requests : pc'[q] = "stored" => pc[q] = "stored"
        BY <2>1 DEF TypeInv, TypeOK, Clients
    <2>3. QED
        BY <2>1, <2>2
        DEF WriterInv, PendingWritten, NotifiedDiagnosisStored, DoneMeansStored, Pending
<1>13. ASSUME NEW i \in Incidents, Acknowledge(i) PROVE WriterInv'
    BY <1>13 DEF Acknowledge, WriterInv, PendingWritten, NotifiedDiagnosisStored,
        DoneMeansStored, Pending, requestVars
<1>14. CASE Restart
    <2>1. /\ restarts' # 0
          /\ \A c \in Clients : pc'[c] \notin {"notifying", "stored"}
          /\ Requests \subseteq Clients /\ Bundles \subseteq Clients
        BY <1>14 DEF Restart, Live, Over, TypeInv, TypeOK, Clients
    <2>2. QED
        BY <2>1 DEF WriterInv, PendingWritten, NotifiedDiagnosisStored, DoneMeansStored
<1>15. CASE UNCHANGED vars
    BY <1>15 DEF vars, WriterInv, PendingWritten, NotifiedDiagnosisStored, DoneMeansStored,
        Pending, storeVars, requestVars
<1>16. QED
    BY <1>1, <1>2, <1>3, <1>4, <1>5, <1>6, <1>7, <1>8, <1>9, <1>10, <1>11, <1>12, <1>13,
       <1>14, <1>15 DEF Next, BundleStep, RequestStep

(***************************************************************************)
(* While the process runs and its writes succeed, an incident shown as     *)
(* being analysed has a goroutine that will write it again.                *)
(***************************************************************************)
THEOREM PendingIsWorkedOn == Spec => []PendingHasWorker
<1>1. WriterInv => PendingHasWorker
    BY DEF WriterInv, PendingWritten, PendingHasWorker, Live, Over
<1>2. QED
    BY <1>1, TypeInit, TypeStep, JobsInit, JobsStep, StageInit, StageStep, WriterInit, WriterStep, PTL DEF Spec

(***************************************************************************)
(* A re-analysis that is about to report "done" is what the table shows,   *)
(* or a newer alert is; single flight is what rules out another request.   *)
(***************************************************************************)
THEOREM DoneIsStored == Spec => []DoneMeansStored
<1>1. WriterInv => DoneMeansStored
    BY DEF WriterInv
<1>2. QED
    BY <1>1, TypeInit, TypeStep, JobsInit, JobsStep, StageInit, StageStep, WriterInit, WriterStep, PTL DEF Spec

(***************************************************************************)
(* Whoever is notified of a diagnosis finds it in the table, unless a      *)
(* write failed or another goroutine has written the row since             *)
(* (alertmanager_poller.go:46-52).                                         *)
(***************************************************************************)
THEOREM NotifiedIsStored == Spec => []NotifiedDiagnosisStored
<1>1. WriterInv => NotifiedDiagnosisStored
    BY DEF WriterInv
<1>2. QED
    BY <1>1, TypeInit, TypeStep, JobsInit, JobsStep, StageInit, StageStep, WriterInit, WriterStep, PTL DEF Spec

-----------------------------------------------------------------------------
(***************************************************************************)
(* Which step may write what.                                              *)
(***************************************************************************)
RegressOnlyByAlert ==
    \A i \in Incidents :
        row'[i] # row[i] =>
            \/ row'[i].state = "DiagnosisCompleted"
            \/ \E b \in Bundles : IncidentOf[b] = i /\ Live(b) /\ pc'[b] # pc[b]

LEMMA BundleSaveRegress ==
    ASSUME TypeInv, NEW b \in Bundles, NEW e, NEW d, NEW s, NEW l,
           SaveLogged(b, e, d, s), Goto(b, l), pc[b] \notin Over, pc[b] # l
    PROVE  RegressOnlyByAlert
<1>1. SaveEffect(b, IncidentOf[b], IncidentView(e, d, s, b))
    BY LoggedSaveHasEffect DEF TypeInv, TypeOK
<1>2. \A j \in Incidents : row'[j] # row[j] => j = IncidentOf[b]
    BY <1>1, SaveChangesOneRow, BundleEvidence DEF TypeInv
<1>3. Live(b) /\ pc'[b] # pc[b]
    BY BundleEvidence DEF Live, Goto, TypeInv, TypeOK
<1>4. QED
    BY <1>2, <1>3 DEF RegressOnlyByAlert

LEMMA RegressStep == TypeInv /\ [Next]_vars => [RegressOnlyByAlert]_vars
<1> SUFFICES ASSUME TypeInv, Next PROVE RegressOnlyByAlert
    OBVIOUS
<1>1. ASSUME UNCHANGED row PROVE RegressOnlyByAlert
    BY <1>1 DEF RegressOnlyByAlert
<1>2. ASSUME NEW b \in Bundles, BundleStep(b) PROVE RegressOnlyByAlert
    <2>1. CASE Accept(b) \/ Notify(b)
        BY <1>1, <2>1 DEF Accept, Notify, storeVars
    <2>2. CASE RecordDetected(b)
        BY <2>2, BundleSaveRegress DEF RecordDetected, Over
    <2>3. CASE CollectEvidence(b)
        BY <2>3, BundleSaveRegress DEF CollectEvidence, Over
    <2>4. CASE RecordDiagnosis(b)
        BY <2>4, BundleSaveRegress DEF RecordDiagnosis, Over
    <2>5. CASE RecordFailure(b)
        BY <2>5, BundleSaveRegress DEF RecordFailure, Over
    <2>6. QED
        BY <1>2, <2>1, <2>2, <2>3, <2>4, <2>5 DEF BundleStep
<1>3. ASSUME NEW r \in Requests, StoreReanalysis(r) PROVE RegressOnlyByAlert
    <2> DEFINE v == IncidentView(view[r].ev, view[r].ev, "DiagnosisCompleted", view[r].created)
    <2>1. target[r] \in Incidents /\ SaveEffect(r, target[r], v)
        BY <1>3, SaveHasEffect DEF StoreReanalysis, TypeInv, TypeOK, ViewRead
    <2>2. v.state = "DiagnosisCompleted"
        BY DEF IncidentView
    <2>3. QED
        BY <2>1, <2>2, SaveChangesOneRow DEF TypeInv, RegressOnlyByAlert
<1>4. ASSUME NEW r \in Requests, ReadIncident(r) \/ StartJob(r) \/ FinishJob(r)
      PROVE  RegressOnlyByAlert
    BY <1>1, <1>4 DEF ReadIncident, StartJob, FinishJob, storeVars
<1>5. ASSUME NEW c \in Clients, EnterGate(c) \/ Analyze(c) PROVE RegressOnlyByAlert
    BY <1>1, <1>5 DEF EnterGate, Analyze, storeVars
<1>6. ASSUME NEW i \in Incidents, Acknowledge(i) PROVE RegressOnlyByAlert
    BY <1>1, <1>6 DEF Acknowledge
<1>7. CASE Restart
    BY <1>1, <1>7 DEF Restart, storeVars
<1>8. QED
    BY <1>2, <1>3, <1>4, <1>5, <1>6, <1>7 DEF Next, RequestStep

(***************************************************************************)
(* A failed or interrupted re-analysis leaves the incident as it was, and  *)
(* only a new alert takes a diagnosis away (reanalyze_job.go:95-100).      *)
(***************************************************************************)
THEOREM RegressionsNeedAlerts == Spec => OnlyAlertsRegress
<1>1. TypeInv /\ [Next]_vars => [RegressOnlyByAlert]_vars
    BY RegressStep
<1>2. QED
    BY <1>1, TypeCorrect, PTL DEF Spec, OnlyAlertsRegress, RegressOnlyByAlert

-----------------------------------------------------------------------------
(***************************************************************************)
(* Which goroutines hold or await a place.  That a release takes exactly   *)
(* one client out of the gate needs the gate's own invariant: the client   *)
(* that leaves is not also waiting.                                        *)
(***************************************************************************)
LEMMA WaitersAppend ==
    ASSUME NEW c \in Clients, waiting \in Seq(Clients), waiting' = Append(waiting, c)
    PROVE  Gate!Waiters' = Gate!Waiters \cup {c}
<1>1. /\ Len(waiting') = Len(waiting) + 1
      /\ \A k \in 1..Len(waiting) : waiting'[k] = waiting[k]
      /\ waiting'[Len(waiting) + 1] = c
      /\ Len(waiting) \in Nat
    OBVIOUS
<1>2. QED
    BY <1>1 DEF Gate!Waiters

LEMMA WaitersTail ==
    ASSUME waiting \in Seq(Clients), waiting # <<>>, waiting' = Tail(waiting)
    PROVE  Gate!Waiters = Gate!Waiters' \cup {Head(waiting)}
<1>1. /\ Len(waiting') = Len(waiting) - 1
      /\ \A k \in 1..Len(waiting') : waiting'[k] = waiting[k + 1]
      /\ Head(waiting) = waiting[1]
      /\ Len(waiting) \in Nat /\ Len(waiting) >= 1
    OBVIOUS
<1>2. ASSUME NEW x \in Gate!Waiters PROVE x \in Gate!Waiters' \cup {Head(waiting)}
    <2>1. PICK k \in 1..Len(waiting) : x = waiting[k]
        BY <1>2 DEF Gate!Waiters
    <2>2. CASE k = 1
        BY <1>1, <2>1, <2>2
    <2>3. CASE k # 1
        <3>1. k - 1 \in 1..Len(waiting') /\ x = waiting'[k - 1]
            BY <1>1, <2>1, <2>3
        <3>2. QED
            BY <3>1 DEF Gate!Waiters
    <2>4. QED
        BY <2>2, <2>3
<1>3. Gate!Waiters' \subseteq Gate!Waiters
    <2>1. \A k \in 1..Len(waiting') : k + 1 \in 1..Len(waiting)
        BY <1>1
    <2>2. QED
        BY <1>1, <2>1 DEF Gate!Waiters
<1>4. Head(waiting) \in Gate!Waiters
    BY <1>1 DEF Gate!Waiters
<1>5. QED
    BY <1>2, <1>3, <1>4

LEMMA PlacesStep ==
    TypeInv /\ Gate!TokensAccounted /\ PlacesHeldAtGate /\ [Next]_vars => PlacesHeldAtGate'
<1> SUFFICES ASSUME TypeInv, Gate!TokensAccounted, PlacesHeldAtGate, [Next]_vars
             PROVE  PlacesHeldAtGate'
    OBVIOUS
<1> DEFINE AtGate == {c \in Clients : pc[c] = "atGate"}
<1>0. /\ pc \in [Clients -> BundlePC \cup RequestPC]
      /\ running \in SUBSET Clients /\ waiting \in Seq(Clients)
      /\ running \cap Gate!Waiters = {}
      /\ running \cup Gate!Waiters = AtGate
      /\ Bundles \subseteq Clients /\ Requests \subseteq Clients
    BY DEF TypeInv, TypeOK, Gate!GateTypeOK, Gate!TokensAccounted, Gate!WaitsOnce,
        PlacesHeldAtGate, Clients
<1>1. ASSUME NEW c \in Clients, NEW l, Goto(c, l), pc[c] # "atGate", l # "atGate",
             UNCHANGED gateVars
      PROVE  PlacesHeldAtGate'
    <2>1. AtGate' = AtGate
        BY <1>0, <1>1 DEF Goto
    <2>2. QED
        BY <1>0, <1>1, <2>1 DEF PlacesHeldAtGate, gateVars, Gate!Waiters
<1>2. ASSUME NEW b \in Bundles, BundleStep(b) PROVE PlacesHeldAtGate'
    BY <1>0, <1>1, <1>2 DEF BundleStep, Accept, RecordDetected, CollectEvidence, RecordDiagnosis,
        RecordFailure, Notify
<1>3. ASSUME NEW r \in Requests, RequestStep(r) PROVE PlacesHeldAtGate'
    BY <1>0, <1>1, <1>3 DEF RequestStep, ReadIncident, StartJob, StoreReanalysis, FinishJob
<1>4. ASSUME NEW c \in Clients, EnterGate(c) PROVE PlacesHeldAtGate'
    <2>1. AtGate' = AtGate \cup {c}
        BY <1>0, <1>4 DEF EnterGate, Goto
    <2>2. CASE Gate!Enter(c)
        BY <1>0, <2>1, <2>2 DEF Gate!Enter, Gate!Waiters, PlacesHeldAtGate
    <2>3. CASE Gate!Block(c)
        BY <1>0, <2>1, <2>3, WaitersAppend DEF Gate!Block, PlacesHeldAtGate
    <2>4. QED
        BY <1>4, <2>2, <2>3 DEF EnterGate, Gate!Acquire
<1>5. ASSUME NEW c \in Clients, Analyze(c) PROVE PlacesHeldAtGate'
    <2>1. AtGate' = AtGate \ {c} /\ c \in running
        BY <1>0, <1>5 DEF Analyze, Goto
    <2>2. CASE waiting = <<>>
        BY <1>0, <1>5, <2>1, <2>2 DEF Analyze, Gate!Release, Gate!Waiters, PlacesHeldAtGate
    <2>3. CASE waiting # <<>>
        <3>1. /\ running' = (running \ {c}) \cup {Head(waiting)}
              /\ waiting' = Tail(waiting)
            BY <1>5, <2>3 DEF Analyze, Gate!Release
        <3>2. Gate!Waiters = Gate!Waiters' \cup {Head(waiting)}
            BY <1>0, <2>3, <3>1, WaitersTail
        <3>3. QED
            BY <1>0, <2>1, <3>1, <3>2 DEF PlacesHeldAtGate
    <2>4. QED
        BY <2>2, <2>3
<1>6. CASE \E i \in Incidents : Acknowledge(i)
    BY <1>0, <1>6 DEF Acknowledge, gateVars, Gate!Waiters, PlacesHeldAtGate
<1>7. CASE Restart
    <2>1. AtGate' = {}
        BY <1>7 DEF Restart, Live, Over
    <2>2. running' \cup Gate!Waiters' = {}
        BY <1>7 DEF Restart, Gate!Reset, Gate!Waiters
    <2>3. QED
        BY <2>1, <2>2 DEF PlacesHeldAtGate
<1>8. CASE UNCHANGED vars
    BY <1>0, <1>8 DEF vars, gateVars, Gate!Waiters, PlacesHeldAtGate
<1>9. QED
    BY <1>2, <1>3, <1>4, <1>5, <1>6, <1>7, <1>8 DEF Next

(***************************************************************************)
(* No goroutine holds a place outside its analysis, and none is inside the *)
(* gate's analyze without one or waiting for one (analysis_gate.go:31-41). *)
(***************************************************************************)
THEOREM PlacesAreHeld == Spec => []PlacesHeldAtGate
<1>1. Init => PlacesHeldAtGate
    BY DEF Init, PlacesHeldAtGate, Gate!GateInit, Gate!Waiters
<1>2. QED
    BY <1>1, PlacesStep, TypeCorrect, PipelineCapacity, PTL DEF Spec

(***************************************************************************)
(* Nobody is stuck at the gate: behind every blocked goroutine there is an *)
(* analysis under way, and its goroutine is alive.  With the fairness of   *)
(* that goroutine's next step this is why everybody gets through.          *)
(***************************************************************************)
THEOREM NobodyIsStuck == Spec => []NobodyStuck
<1>1. /\ TypeInv /\ PlacesHeldAtGate
      /\ waiting # <<>> => running # {}
      => NobodyStuck
    <2> SUFFICES ASSUME TypeInv, PlacesHeldAtGate, waiting # <<>> => running # {},
                        NEW c \in Clients, pc[c] = "atGate", c \notin running
                 PROVE  c \in Gate!Waiters /\ running # {} /\ \A d \in running : Live(d)
        BY DEF NobodyStuck
    <2>1. c \in Gate!Waiters /\ \A d \in running : Live(d)
        BY DEF PlacesHeldAtGate, Live, Over
    <2>2. waiting # <<>>
        BY <2>1 DEF Gate!Waiters
    <2>3. QED
        BY <2>1, <2>2
<1>2. QED
    BY <1>1, TypeCorrect, PlacesAreHeld, PipelineCapacity, PTL

-----------------------------------------------------------------------------
(***************************************************************************)
(* A failed re-analysis has written nothing.  What is inductive is that a  *)
(* request which has not come to its save, or has failed, is the writer of *)
(* no row.                                                                 *)
(***************************************************************************)
BeforeStore == {"absent", "read", "refused", "spawned", "atGate", "diagnosed", "failed"}

WroteNothing ==
    dbFaults = 0 =>
        \A r \in Requests :
            pc[r] \in BeforeStore \/ jobState[r] = "failed" =>
                \A i \in Incidents : lastWriter[i] # r

LEMMA WroteNothingInit == Init => WroteNothing
BY PipelineAssumption DEF Init, WroteNothing

(* Somebody moves, and nothing is written but by an alert.                 *)
LEMMA WroteNothingMove ==
    ASSUME TypeInv, WroteNothing,
           dbFaults' = 0 => dbFaults = 0,
           \A i \in Incidents : lastWriter'[i] = lastWriter[i] \/ lastWriter'[i] \in Bundles,
           \A r \in Requests :
              /\ pc'[r] \in BeforeStore => pc[r] \in BeforeStore
              /\ jobState'[r] = "failed" => jobState[r] = "failed" \/ pc[r] \in BeforeStore
    PROVE  WroteNothing'
BY PipelineAssumption DEF WroteNothing

LEMMA WroteNothingStep == TypeInv /\ JobsInv /\ WroteNothing /\ [Next]_vars => WroteNothing'
<1> SUFFICES ASSUME TypeInv, JobsInv, WroteNothing, [Next]_vars PROVE WroteNothing'
    OBVIOUS
<1> USE PipelineAssumption
<1>0. pc \in [Clients -> BundlePC \cup RequestPC] /\ Bundles \cap Requests = {}
      /\ Bundles \subseteq Clients /\ Requests \subseteq Clients
    BY DEF TypeInv, TypeOK, Clients
<1>1. ASSUME NEW b \in Bundles, BundleStep(b) PROVE WroteNothing'
    <2>1. PICK l : Goto(b, l) /\ UNCHANGED jobVars
        BY <1>1 DEF BundleStep, Accept, RecordDetected, CollectEvidence, RecordDiagnosis,
            RecordFailure, Notify
    <2>2. \/ UNCHANGED storeVars
          \/ \E e, d, s : SaveLogged(b, e, d, s)
        BY <1>1 DEF BundleStep, Accept, RecordDetected, CollectEvidence, RecordDiagnosis,
            RecordFailure, Notify
    <2>3. /\ dbFaults' = 0 => dbFaults = 0
          /\ \A i \in Incidents : lastWriter'[i] = lastWriter[i] \/ lastWriter'[i] = b
        BY <2>2, LoggedSaveHasEffect DEF SaveEffect, storeVars, TypeInv, TypeOK
    <2>4. \A r \in Requests : pc'[r] = pc[r] /\ jobState'[r] = jobState[r]
        BY <1>0, <2>1 DEF Goto, jobVars
    <2>5. QED
        BY <2>3, <2>4, WroteNothingMove
<1>2. ASSUME NEW c \in Clients, EnterGate(c) \/ Analyze(c) PROVE WroteNothing'
    <2>1. pc[c] \in {"collected", "spawned", "atGate"} /\ UNCHANGED <<storeVars, jobVars>>
        BY <1>2 DEF EnterGate, Analyze
    <2>2. c \in Requests => pc[c] \in BeforeStore
        BY <2>1 DEF BeforeStore, RequestPC, TypeInv, TypeOK
    <2>3. \A r \in Requests : r # c => pc'[r] = pc[r]
        BY <1>0, <1>2 DEF EnterGate, Analyze, Goto
    <2>4. QED
        BY <2>1, <2>2, <2>3, WroteNothingMove DEF storeVars, jobVars
<1>3. ASSUME NEW r \in Requests, ReadIncident(r) PROVE WroteNothing'
    BY <1>0, <1>3, WroteNothingMove DEF ReadIncident, Goto, BeforeStore, storeVars, jobVars
<1>4. ASSUME NEW r \in Requests, StartJob(r) PROVE WroteNothing'
    <2>1. pc[r] = "read" /\ \E l \in {"spawned", "refused"} : Goto(r, l)
        BY <1>4 DEF StartJob
    <2>2. \A q \in Requests : jobState'[q] = "failed" => jobState[q] = "failed"
        BY <1>4 DEF StartJob, jobVars, TypeInv, TypeOK
    <2>3. QED
        BY <1>0, <1>4, <2>1, <2>2, WroteNothingMove DEF StartJob, Goto, BeforeStore, storeVars
<1>5. ASSUME NEW r \in Requests, StoreReanalysis(r) PROVE WroteNothing'
    <2> DEFINE v == IncidentView(view[r].ev, view[r].ev, "DiagnosisCompleted", view[r].created)
    <2>1. /\ pc[r] = "diagnosed" /\ UNCHANGED <<jobs, jobState>>
          /\ Reanalyzing(r) /\ jobState[r] = "running"
        BY <1>5 DEF StoreReanalysis, jobVars, JobsInv, Reanalyzing, Live, Over
    <2>2. CASE SaveSucceeds(r, target[r], v) /\ Goto(r, "stored")
        <3>1. /\ dbFaults' = dbFaults
              /\ \A i \in Incidents : lastWriter'[i] = lastWriter[i] \/ lastWriter'[i] = r
            BY <2>2 DEF SaveSucceeds, Upsert, TypeInv, TypeOK
        <3>2. pc'[r] = "stored" /\ \A q \in Requests : q # r => pc'[q] = pc[q]
            BY <1>0, <2>2 DEF Goto
        <3>3. QED
            BY <2>1, <3>1, <3>2 DEF WroteNothing, BeforeStore
    <2>3. CASE SaveFails(r, target[r], v)
        BY <2>3 DEF SaveFails, WroteNothing, TypeInv, TypeOK
    <2>4. QED
        BY <1>5, <2>2, <2>3 DEF StoreReanalysis
<1>6. ASSUME NEW r \in Requests, FinishJob(r) PROVE WroteNothing'
    <2>1. Reanalyzing(r) /\ target[r] \in Incidents
        BY <1>6 DEF FinishJob, Reanalyzing, Live, Over, TypeInv, ViewRead
    <2>2. jobs[target[r]] = r /\ r # None
        BY <2>1 DEF JobsInv
    <2>3. /\ jobState' = [jobState EXCEPT ![r] = IF pc[r] = "stored" THEN "done" ELSE "failed"]
          /\ pc[r] \in {"stored", "failed"} /\ pc' = [pc EXCEPT ![r] = "finished"]
          /\ UNCHANGED <<dbFaults, lastWriter>>
        BY <1>6, <2>2 DEF FinishJob, Goto, storeVars
    <2>4. jobState'[r] = "failed" => pc[r] \in BeforeStore
        BY <2>3 DEF BeforeStore, TypeInv, TypeOK
    <2>5. QED
        BY <1>0, <2>3, <2>4, WroteNothingMove DEF BeforeStore, TypeInv, TypeOK
<1>7. CASE \E i \in Incidents : Acknowledge(i)
    BY <1>7 DEF Acknowledge, WroteNothing, jobVars
<1>8. CASE Restart
    BY <1>0, <1>8, WroteNothingMove DEF Restart, Live, Over, BeforeStore, storeVars
<1>9. CASE UNCHANGED vars
    BY <1>9 DEF vars, WroteNothing, storeVars, jobVars
<1>10. QED
    BY <1>1, <1>2, <1>3, <1>4, <1>5, <1>6, <1>7, <1>8, <1>9 DEF Next, RequestStep

(***************************************************************************)
(* A re-analysis that reports "failed" has left the table alone, unless a  *)
(* write went wrong (reanalyze_job.go:94-100).                             *)
(***************************************************************************)
THEOREM FailedIsUntouched == Spec => []FailedMeansUntouched
<1>1. WroteNothing => FailedMeansUntouched
    BY DEF WroteNothing, FailedMeansUntouched
<1>2. QED
    BY <1>1, JobsInvariant, WroteNothingInit, WroteNothingStep, PTL DEF Spec

(***************************************************************************)
(* What re-analyses and notifications tell the operator is what the table  *)
(* shows (reanalyze_job.go:94-112, alertmanager_poller.go:46-52).          *)
(***************************************************************************)
THEOREM ReportsAreTrue == Spec => []ReportsTrue
    BY DoneIsStored, FailedIsUntouched, NotifiedIsStored, PTL DEF ReportsTrue

-----------------------------------------------------------------------------
(***************************************************************************)
(* Where a bare alert can come from.  The copies that requests carry must  *)
(* be traced as well: a request may copy what another has written back.    *)
(***************************************************************************)
BareOutcome(v) == v # NoRow /\ v.state # "IncidentDetected" /\ ~v.ev.collected

BareTraced ==
    /\ \A i \in Incidents :
          BareOutcome(row[i]) => \E q \in Requests : TookBareAlert(q, i)
    /\ \A r \in Requests :
          pc[r] \notin {"absent", "refused", "lost"} /\ BareOutcome(view[r]) =>
              \E q \in Requests : TookBareAlert(q, target[r])

LEMMA BareTracedInit == Init => BareTraced
BY DEF Init, BareTraced, BareOutcome, Clients

(* Once a request has come to its save, what it copied stays on record.    *)
LEMMA TookBareStays ==
    ASSUME TypeInv, [Next]_vars, NEW q \in Requests, NEW i, TookBareAlert(q, i)
    PROVE  TookBareAlert(q, i)'
<1> USE PipelineAssumption
<1> DEFINE Ended == {"failed", "stored", "finished", "lost"}
<1>0. /\ pc \in [Clients -> BundlePC \cup RequestPC] /\ q \in Clients /\ q \notin Bundles
      /\ pc[q] \in Ended
    BY DEF TypeInv, TypeOK, Clients, TookBareAlert
<1>1. ASSUME NEW c \in Clients, NEW l, Goto(c, l), c = q => l \in Ended,
             target'[q] = target[q], view'[q] = view[q]
      PROVE  TookBareAlert(q, i)'
    BY <1>0, <1>1 DEF Goto, TookBareAlert
<1>2. ASSUME NEW b \in Bundles, BundleStep(b) PROVE TookBareAlert(q, i)'
    BY <1>0, <1>1, <1>2 DEF BundleStep, Accept, RecordDetected, CollectEvidence,
        RecordDiagnosis, RecordFailure, Notify, requestVars, Clients
<1>3. ASSUME NEW c \in Clients, EnterGate(c) \/ Analyze(c) PROVE TookBareAlert(q, i)'
    BY <1>0, <1>1, <1>3 DEF EnterGate, Analyze, requestVars
<1>4. ASSUME NEW r \in Requests, ReadIncident(r) PROVE TookBareAlert(q, i)'
    BY <1>0, <1>1, <1>4 DEF ReadIncident, TypeInv, TypeOK, Clients
<1>5. ASSUME NEW r \in Requests, StartJob(r) \/ StoreReanalysis(r) \/ FinishJob(r)
      PROVE  TookBareAlert(q, i)'
    BY <1>0, <1>1, <1>5 DEF StartJob, StoreReanalysis, FinishJob, requestVars, Clients
<1>6. CASE Restart
    BY <1>0, <1>6 DEF Restart, TookBareAlert, Live, Over, requestVars
<1>7. CASE UNCHANGED <<pc, target, view>>
    BY <1>7 DEF TookBareAlert
<1>8. QED
    BY <1>2, <1>3, <1>4, <1>5, <1>6, <1>7
    DEF Next, RequestStep, Acknowledge, requestVars, vars

(* What is on record covers every row and copy that was there before; a    *)
(* new one must be a copy of a row, or be covered itself.                  *)
LEMMA BareTracedKept ==
    ASSUME TypeInv, BareTraced, [Next]_vars,
           \A i \in Incidents :
              \/ row'[i] = row[i]
              \/ ~BareOutcome(row'[i])
              \/ \E q \in Requests : TookBareAlert(q, i)',
           \A r \in Requests :
              pc'[r] \notin {"absent", "refused", "lost"} =>
                  \/ /\ pc[r] \notin {"absent", "refused", "lost"}
                     /\ view'[r] = view[r] /\ target'[r] = target[r]
                  \/ target'[r] \in Incidents /\ view'[r] = row[target'[r]]
    PROVE  BareTraced'
<1>1. ASSUME NEW i, \E q \in Requests : TookBareAlert(q, i)
      PROVE  \E q \in Requests : TookBareAlert(q, i)'
    BY <1>1, TookBareStays
<1>2. ASSUME NEW i \in Incidents, BareOutcome(row'[i])
      PROVE  \E q \in Requests : TookBareAlert(q, i)'
    BY <1>1, <1>2 DEF BareTraced
<1>3. ASSUME NEW r \in Requests, pc'[r] \notin {"absent", "refused", "lost"},
             BareOutcome(view'[r]), NEW i, i = target'[r]
      PROVE  \E q \in Requests : TookBareAlert(q, i)'
    BY <1>1, <1>3 DEF BareTraced
<1>4. QED
    BY <1>2, <1>3 DEF BareTraced, BareOutcome, TookBareAlert

(* One save of processBundle: on collected evidence, or in the first state.*)
LEMMA BareSave ==
    ASSUME TypeInv, BareTraced, [Next]_vars, NEW b \in Bundles, NEW e, NEW d, NEW s, NEW l,
           SaveLogged(b, e, d, s), Goto(b, l), UNCHANGED requestVars,
           e = Collected(b) \/ s = "IncidentDetected"
    PROVE  BareTraced'
<1>1. SaveEffect(b, IncidentOf[b], IncidentView(e, d, s, b))
    BY LoggedSaveHasEffect DEF TypeInv, TypeOK
<1>2. \A j \in Incidents : row'[j] = row[j] \/ row'[j] = IncidentView(e, d, s, b)
    BY <1>1, SaveChangesOneRow, BundleEvidence DEF TypeInv
<1>3. ~BareOutcome(IncidentView(e, d, s, b))
    BY DEF BareOutcome, IncidentView, Collected
<1>4. \A r \in Requests : pc'[r] = pc[r] /\ view'[r] = view[r] /\ target'[r] = target[r]
    BY PipelineAssumption DEF Goto, requestVars, TypeInv, TypeOK, Clients
<1>5. QED
    BY <1>2, <1>3, <1>4, BareTracedKept

LEMMA BareTracedStep == TypeInv /\ BareTraced /\ [Next]_vars => BareTraced'
<1> SUFFICES ASSUME TypeInv, BareTraced, [Next]_vars PROVE BareTraced'
    OBVIOUS
<1> USE PipelineAssumption
<1>0. /\ pc \in [Clients -> BundlePC \cup RequestPC]
      /\ Bundles \subseteq Clients /\ Requests \subseteq Clients
    BY DEF TypeInv, TypeOK, Clients
<1>1. ASSUME NEW b \in Bundles, BundleStep(b) PROVE BareTraced'
    <2>1. CASE Accept(b) \/ Notify(b)
        BY <1>0, <2>1, BareTracedKept DEF Accept, Notify, Goto, storeVars, requestVars
    <2>2. CASE RecordDetected(b)
        BY <2>2, BareSave DEF RecordDetected
    <2>3. CASE CollectEvidence(b)
        BY <2>3, BareSave DEF CollectEvidence
    <2>4. CASE RecordDiagnosis(b)
        BY <2>4, BareSave DEF RecordDiagnosis
    <2>5. CASE RecordFailure(b)
        BY <2>5, BareSave DEF RecordFailure
    <2>6. QED
        BY <1>1, <2>1, <2>2, <2>3, <2>4, <2>5 DEF BundleStep
<1>2. ASSUME NEW c \in Clients, EnterGate(c) \/ Analyze(c) PROVE BareTraced'
    <2>1. pc[c] \notin {"absent", "refused", "lost"} /\ UNCHANGED <<row, target, view>>
        BY <1>2 DEF EnterGate, Analyze, storeVars, requestVars
    <2>2. \A r \in Requests : r # c => pc'[r] = pc[r]
        BY <1>0, <1>2 DEF EnterGate, Analyze, Goto
    <2>3. QED
        BY <2>1, <2>2, BareTracedKept
<1>3. ASSUME NEW r \in Requests, ReadIncident(r) PROVE BareTraced'
    <2>1. row' = row /\ \A q \in Requests : q # r =>
              pc'[q] = pc[q] /\ view'[q] = view[q] /\ target'[q] = target[q]
        BY <1>0, <1>3 DEF ReadIncident, Goto, storeVars, TypeInv, TypeOK
    <2>2. \/ pc'[r] = "refused"
          \/ target'[r] \in Incidents /\ view'[r] = row[target'[r]]
        BY <1>0, <1>3 DEF ReadIncident, Goto, TypeInv, TypeOK
    <2>3. QED
        BY <2>1, <2>2, BareTracedKept
<1>4. ASSUME NEW r \in Requests, StartJob(r) \/ FinishJob(r) PROVE BareTraced'
    <2>1. pc[r] \notin {"absent", "refused", "lost"} /\ UNCHANGED <<row, target, view>>
        BY <1>4 DEF StartJob, FinishJob, storeVars, requestVars
    <2>2. \A q \in Requests : q # r => pc'[q] = pc[q]
        BY <1>0, <1>4 DEF StartJob, FinishJob, Goto
    <2>3. QED
        BY <2>1, <2>2, BareTracedKept
<1>5. ASSUME NEW r \in Requests, StoreReanalysis(r) PROVE BareTraced'
    <2> DEFINE v == IncidentView(view[r].ev, view[r].ev, "DiagnosisCompleted", view[r].created)
    <2>1. /\ target[r] \in Incidents /\ view[r] \in StoredRow
          /\ pc[r] = "diagnosed" /\ pc'[r] \in {"stored", "failed"}
          /\ UNCHANGED <<target, view>>
          /\ \A q \in Requests : q # r => pc'[q] = pc[q]
        BY <1>0, <1>5 DEF StoreReanalysis, Goto, requestVars, TypeInv, ViewRead
    <2>2. SaveEffect(r, target[r], v)
        BY <1>5, SaveHasEffect DEF StoreReanalysis, TypeInv, TypeOK
    <2>3. \A j \in Incidents : row'[j] # row[j] => j = target[r] /\ row'[j] = v
        BY <2>1, <2>2, SaveChangesOneRow DEF TypeInv
    <2>4. BareOutcome(v) => \E q \in Requests : TookBareAlert(q, target[r])'
        <3>1. CASE view[r].state = "IncidentDetected"
            BY <2>1, <3>1 DEF TookBareAlert
        <3>2. CASE view[r].state # "IncidentDetected"
            <4>1. BareOutcome(v) => BareOutcome(view[r])
                BY <2>1, <3>2, NoRowIsNotStored DEF BareOutcome, IncidentView
            <4>2. QED
                BY <2>1, <4>1, TookBareStays DEF BareTraced
        <3>3. QED
            BY <3>1, <3>2
    <2>5. QED
        BY <2>1, <2>3, <2>4, BareTracedKept
<1>6. CASE \E i \in Incidents : Acknowledge(i)
    BY <1>6, BareTracedKept DEF Acknowledge, requestVars
<1>7. CASE Restart
    <2>1. UNCHANGED <<row, target, view>>
        BY <1>7 DEF Restart, storeVars, requestVars
    <2>2. \A r \in Requests : pc'[r] = pc[r] \/ pc'[r] = "lost"
        BY <1>0, <1>7 DEF Restart
    <2>3. QED
        BY <2>1, <2>2, BareTracedKept
<1>8. CASE UNCHANGED vars
    BY <1>8, BareTracedKept DEF vars, storeVars, requestVars
<1>9. QED
    BY <1>1, <1>2, <1>3, <1>4, <1>5, <1>6, <1>7, <1>8 DEF Next, RequestStep

(***************************************************************************)
(* Only a re-analysis that copied the row too early puts an incident's     *)
(* outcome on the bare alert; with it, no fault or restart does.           *)
(***************************************************************************)
THEOREM OutcomeIsOnEvidence == Spec => []OutcomeOnCollectedEvidence
<1>1. BareTraced => OutcomeOnCollectedEvidence
    BY DEF BareTraced, BareOutcome, OutcomeOnCollectedEvidence
<1>2. QED
    BY <1>1, TypeInit, TypeStep, BareTracedInit, BareTracedStep, PTL DEF Spec

-----------------------------------------------------------------------------
(***************************************************************************)
(* The pipeline is a re-analysis service.  The first request for a row     *)
(* finds it, and rows are never deleted: ReadRowStays.                     *)
(***************************************************************************)
ReadRowStays == \A r \in Requests : pc[r] = "read" => row[target[r]] # NoRow

Shown == [i \in Incidents |-> RowShown(row[i])]
Status == [i \in Incidents |-> JobStatus(i)]
StoredNow == [i \in Incidents |-> jobs[i] # None /\ pc[jobs[i]] = "stored"]

Visible == Service!RowStates \ {"absent"}

LEMMA ReadRowInit == Init => ReadRowStays
BY DEF Init, ReadRowStays, Clients

LEMMA RowsRemain ==
    ASSUME TypeInv, TypeInv', [Next]_vars
    PROVE  \A i \in Incidents : row[i] # NoRow => row'[i] # NoRow
<1> USE PipelineAssumption DEF TypeInv
<1>1. ASSUME NEW c, NEW i \in Incidents, NEW v \in StoredRow, SaveEffect(c, i, v)
      PROVE  \A j \in Incidents : row[j] # NoRow => row'[j] # NoRow
    BY <1>1, SaveChangesOneRow, NoRowIsNotStored
<1>2. ASSUME NEW b \in Bundles, NEW e \in Evidence, NEW d \in Evidence \cup {None},
             NEW s \in States, SaveLogged(b, e, d, s)
      PROVE  \A j \in Incidents : row[j] # NoRow => row'[j] # NoRow
    <2>1. SaveEffect(b, IncidentOf[b], IncidentView(e, d, s, b))
        BY <1>2, LoggedSaveHasEffect DEF TypeOK
    <2>2. QED
        BY <1>1, <2>1, BundleEvidence, ViewIsStored
<1>3. ASSUME NEW b \in Bundles, BundleStep(b)
      PROVE  \A j \in Incidents : row[j] # NoRow => row'[j] # NoRow
    BY <1>2, <1>3, BundleEvidence DEF BundleStep, Accept, RecordDetected, CollectEvidence,
        RecordDiagnosis, RecordFailure, Notify, States, PendingStates, storeVars
<1>4. ASSUME NEW r \in Requests, StoreReanalysis(r)
      PROVE  \A j \in Incidents : row[j] # NoRow => row'[j] # NoRow
    <2>1. target[r] \in Incidents /\ view[r] \in StoredRow
        BY <1>4 DEF StoreReanalysis, ViewRead
    <2>2. view[r].ev \in Evidence /\ view[r].created \in Bundles /\ "DiagnosisCompleted" \in States
        BY <2>1 DEF StoredRow, States
    <2> DEFINE v == IncidentView(view[r].ev, view[r].ev, "DiagnosisCompleted", view[r].created)
    <2>3. v \in StoredRow
        BY <2>2, ViewIsStored
    <2>4. SaveEffect(r, target[r], v)
        BY <1>4, SaveHasEffect DEF StoreReanalysis, TypeOK
    <2>5. QED
        BY <1>1, <2>1, <2>3, <2>4
<1>5. CASE UNCHANGED row
    BY <1>5
<1>6. QED
    BY <1>3, <1>4, <1>5 DEF Next, RequestStep, ReadIncident, StartJob, FinishJob, EnterGate,
        Analyze, Acknowledge, Restart, storeVars, vars

LEMMA ReadRowStep ==
    TypeInv /\ TypeInv' /\ ReadRowStays /\ [Next]_vars => ReadRowStays'
<1> SUFFICES ASSUME TypeInv, TypeInv', ReadRowStays, [Next]_vars,
                    NEW r \in Requests, pc'[r] = "read"
             PROVE  row'[target'[r]] # NoRow
    BY DEF ReadRowStays
<1>1. target'[r] \in Incidents
    BY DEF TypeInv, ViewRead
<1>2. CASE pc[r] = "read" /\ target'[r] = target[r]
    BY <1>1, <1>2, RowsRemain DEF ReadRowStays
<1>3. CASE ReadIncident(r)
    BY <1>1, <1>3 DEF ReadIncident, Goto, TypeInv, TypeOK, Clients, storeVars
<1>4. ASSUME ~ReadIncident(r) PROVE pc[r] = "read" /\ target'[r] = target[r]
    <2>1. ASSUME NEW q \in Requests, q # r, ReadIncident(q) PROVE pc[r] = "read" /\ target'[r] = target[r]
        BY <2>1 DEF ReadIncident, Goto, TypeInv, TypeOK, Clients
    <2>2. ASSUME NEW c \in Clients, NEW l, l # "read", Goto(c, l), UNCHANGED target
          PROVE pc[r] = "read" /\ target'[r] = target[r]
        BY <2>2 DEF Goto, TypeInv, TypeOK, Clients
    <2>3. CASE Restart
        BY <2>3 DEF Restart, Clients, requestVars
    <2>4. QED
        BY <1>4, <2>1, <2>2, <2>3 DEF Next, BundleStep, RequestStep, Accept, RecordDetected,
            CollectEvidence, RecordDiagnosis, RecordFailure, Notify, StartJob, StoreReanalysis,
            FinishJob, EnterGate, Analyze, Acknowledge, Clients, requestVars, vars
<1>5. QED
    BY <1>2, <1>3, <1>4

LEMMA RowShownIs ==
    ASSUME NEW v \in StoredRow
    PROVE  /\ RowShown(v) \in Visible
           /\ v.state = "DiagnosisCompleted" => RowShown(v) = "diagnosed"
<1>1. v.state \in States /\ v # NoRow
    BY NoRowIsNotStored DEF StoredRow
<1>2. QED
    BY <1>1 DEF RowShown, Visible, Service!RowStates, States, PendingStates

\* A save shows at most on its own row, which is there afterwards.
LEMMA SaveShown ==
    ASSUME TypeInv, NEW c, NEW i \in Incidents, NEW v \in StoredRow, SaveEffect(c, i, v)
    PROVE  Shown' = Shown \/ \E kind \in Visible : Shown' = [Shown EXCEPT ![i] = kind]
<1>1. CASE row' = row
    BY <1>1 DEF Shown
<1>2. CASE row' = [row EXCEPT ![i] = v]
    <2>1. Shown' = [Shown EXCEPT ![i] = RowShown(v)]
        BY <1>2 DEF Shown, TypeInv, TypeOK
    <2>2. QED
        BY <2>1, RowShownIs
<1>3. QED
    BY <1>1, <1>2 DEF SaveEffect

LEMMA WriteOrStutter ==
    ASSUME NEW i \in Incidents, Status' = Status, StoredNow' = StoredNow,
           Shown' = Shown \/ \E kind \in Visible : Shown' = [Shown EXCEPT ![i] = kind]
    PROVE  [Service!ServiceNext]_(Service!serviceVars)
<1>1. CASE Shown' = Shown
    BY <1>1 DEF Service!serviceVars, Shown, Status, StoredNow
<1>2. CASE \E kind \in Visible : Shown' = [Shown EXCEPT ![i] = kind]
    <2>1. Service!Write(i)
        BY <1>2 DEF Service!Write, Shown, Status, StoredNow, Visible
    <2>2. QED
        BY <2>1 DEF Service!ServiceNext
<1>3. QED
    BY <1>1, <1>2

\* A goroutine that moves, but not to or from "stored", shows on no job.
LEMMA QuietMove ==
    ASSUME TypeInv, NEW c \in Clients, NEW l, Goto(c, l), UNCHANGED jobVars,
           c \in Requests => pc[c] # "stored" /\ l # "stored"
    PROVE  Status' = Status /\ StoredNow' = StoredNow
<1>1. \A i \in Incidents : JobStatus(i)' = JobStatus(i)
    BY DEF JobStatus, jobVars
<1>2. ASSUME NEW i \in Incidents, jobs[i] # None
      PROVE  (pc'[jobs[i]] = "stored") <=> (pc[jobs[i]] = "stored")
    <2>1. jobs[i] \in Requests /\ jobs[i] \in Clients
        BY <1>2 DEF TypeInv, TypeOK, Clients
    <2>2. QED
        BY <2>1 DEF Goto, TypeInv, TypeOK
<1>3. StoredNow' = StoredNow
    BY <1>2 DEF StoredNow, jobVars
<1>4. QED
    BY <1>1, <1>3 DEF Status

LEMMA BundlesServe ==
    ASSUME TypeInv, NEW b \in Bundles, BundleStep(b)
    PROVE  [Service!ServiceNext]_(Service!serviceVars)
<1>1. b \in Clients /\ b \notin Requests /\ IncidentOf[b] \in Incidents
    BY PipelineAssumption DEF Clients
<1>2. Status' = Status /\ StoredNow' = StoredNow
    BY <1>1, QuietMove DEF BundleStep, Accept, RecordDetected, CollectEvidence, RecordDiagnosis,
        RecordFailure, Notify
<1>3. ASSUME NEW e \in Evidence, NEW d \in Evidence \cup {None}, NEW s \in States, SaveLogged(b, e, d, s)
      PROVE  [Service!ServiceNext]_(Service!serviceVars)
    <2>1. SaveEffect(b, IncidentOf[b], IncidentView(e, d, s, b))
        BY <1>3, LoggedSaveHasEffect DEF TypeInv, TypeOK
    <2>2. IncidentView(e, d, s, b) \in StoredRow
        BY ViewIsStored
    <2>3. QED
        BY <1>1, <1>2, <2>1, <2>2, SaveShown, WriteOrStutter
<1>4. ASSUME UNCHANGED row PROVE [Service!ServiceNext]_(Service!serviceVars)
    <2>1. Shown' = Shown
        BY <1>4 DEF Shown
    <2>2. QED
        BY <1>1, <1>2, <2>1, WriteOrStutter
<1>5. QED
    BY <1>3, <1>4, BundleEvidence DEF BundleStep, Accept, RecordDetected, CollectEvidence,
        RecordDiagnosis, RecordFailure, Notify, States, PendingStates, storeVars

LEMMA QueueingServes ==
    ASSUME TypeInv, NEW c \in Clients, EnterGate(c) \/ Analyze(c)
    PROVE  [Service!ServiceNext]_(Service!serviceVars)
<1>1. Status' = Status /\ StoredNow' = StoredNow
    BY QuietMove DEF EnterGate, Analyze
<1>2. Shown' = Shown
    BY DEF EnterGate, Analyze, storeVars, Shown
<1>3. QED
    BY <1>1, <1>2 DEF Service!serviceVars, Shown, Status, StoredNow

LEMMA RequestsServe ==
    ASSUME TypeInv, JobsInv, ReadRowStays, NEW r \in Requests, RequestStep(r)
    PROVE  [Service!ServiceNext]_(Service!serviceVars)
<1> USE PipelineAssumption
<1>0. r \in Clients /\ pc[r] \in RequestPC /\ pc \in [Clients -> BundlePC \cup RequestPC]
    BY DEF Clients, TypeInv, TypeOK
<1>1. UNCHANGED row => Shown' = Shown
    BY DEF Shown
<1>2. CASE ReadIncident(r)
    <2>1. UNCHANGED row /\ UNCHANGED jobVars /\ \E l \in {"read", "refused"} : Goto(r, l)
        BY <1>2 DEF ReadIncident, storeVars
    <2>2. Status' = Status /\ StoredNow' = StoredNow
        BY <1>0, <1>2, <2>1, QuietMove DEF ReadIncident
    <2>3. QED
        BY <1>1, <2>1, <2>2 DEF Service!serviceVars, Shown, Status, StoredNow
<1>3. CASE StartJob(r)
    <2>1. PICK i \in Incidents : i = target[r] /\ row[i] # NoRow /\ UNCHANGED row
        BY <1>3 DEF StartJob, TypeInv, ViewRead, ReadRowStays, storeVars
    <2>2. CASE JobRunning(i)
        <3>1. UNCHANGED jobVars /\ Goto(r, "refused")
            BY <1>3, <2>1, <2>2 DEF StartJob
        <3>2. Status' = Status /\ StoredNow' = StoredNow
            BY <1>0, <1>3, <3>1, QuietMove DEF StartJob
        <3>3. QED
            BY <1>1, <2>1, <3>2 DEF Service!serviceVars, Shown, Status, StoredNow
    <2>3. CASE ~JobRunning(i)
        <3>1. /\ jobs' = [jobs EXCEPT ![i] = r] /\ jobState' = [jobState EXCEPT ![r] = "running"]
              /\ pc' = [pc EXCEPT ![r] = "spawned"] /\ pc[r] = "read"
            BY <1>3, <2>1, <2>3 DEF StartJob, Goto
        <3>2. Shown[i] # "absent" /\ Shown' = Shown
            BY <1>1, <2>1, RowShownIs DEF Shown, TypeInv, TypeOK, Visible
        <3>3. Status[i] # "running" /\ Status' = [Status EXCEPT ![i] = "running"]
            <4>1. Status[i] # "running"
                BY <2>1, <2>3 DEF Status, JobStatus, JobRunning
            <4>2. \A j \in Incidents : j # i => jobs'[j] = jobs[j] /\ jobs[j] # r
                BY <2>1, <3>1 DEF JobsInv, TypeInv, TypeOK
            <4>3. \A j \in Incidents : j # i => JobStatus(j)' = JobStatus(j)
                BY <3>1, <4>2 DEF JobStatus, TypeInv, TypeOK
            <4>4. JobStatus(i)' = "running"
                BY <2>1, <3>1 DEF JobStatus, TypeInv, TypeOK
            <4>5. QED
                BY <2>1, <4>1, <4>3, <4>4 DEF Status
        <3>4. StoredNow' = StoredNow
            <4>1. ~StoredNow[i] /\ ~StoredNow'[i]
                <5>1. ASSUME StoredNow[i] PROVE FALSE
                    <6>1. jobs[i] \in Requests /\ pc[jobs[i]] = "stored"
                        BY <2>1, <5>1 DEF StoredNow, TypeInv, TypeOK
                    <6>2. jobState[jobs[i]] = "running"
                        BY <6>1 DEF JobsInv, Reanalyzing, Live, Over
                    <6>3. QED
                        BY <2>3, <6>1, <6>2 DEF JobRunning
                <5>2. jobs'[i] = r /\ pc'[r] = "spawned"
                    BY <1>0, <2>1, <3>1 DEF TypeInv, TypeOK
                <5>3. QED
                    BY <2>1, <5>1, <5>2 DEF StoredNow
            <4>2. ASSUME NEW j \in Incidents, j # i PROVE StoredNow'[j] = StoredNow[j]
                <5>1. jobs'[j] = jobs[j] /\ jobs[j] # r
                    BY <2>1, <3>1, <4>2 DEF JobsInv, TypeInv, TypeOK
                <5>2. jobs[j] # None => jobs[j] \in Clients
                    BY DEF TypeInv, TypeOK, Clients
                <5>3. QED
                    BY <1>0, <3>1, <5>1, <5>2 DEF StoredNow
            <4>3. QED
                BY <2>1, <4>1, <4>2 DEF StoredNow
        <3>5. Service!Start(i)
            BY <3>2, <3>3, <3>4 DEF Service!Start, Shown, Status, StoredNow
        <3>6. QED
            BY <2>1, <3>5 DEF Service!ServiceNext
    <2>4. QED
        BY <2>2, <2>3
<1>4. CASE StoreReanalysis(r)
    <2> DEFINE v == IncidentView(view[r].ev, view[r].ev, "DiagnosisCompleted", view[r].created)
    <2>1. PICK i \in Incidents :
              i = target[r] /\ view[r] \in StoredRow /\ pc[r] = "diagnosed" /\ UNCHANGED jobVars
        BY <1>4 DEF StoreReanalysis, TypeInv, ViewRead
    <2>2. v \in StoredRow /\ v.state = "DiagnosisCompleted"
        <3>1. view[r].ev \in Evidence /\ view[r].created \in Bundles /\ "DiagnosisCompleted" \in States
            BY <2>1 DEF StoredRow, States
        <3>2. QED
            BY <3>1, ViewIsStored
    <2>3. jobs[i] = r /\ jobState[r] = "running" /\ r # None
        BY <2>1 DEF JobsInv, Reanalyzing, Live, Over
    <2>4. CASE SaveSucceeds(r, i, v) /\ Goto(r, "stored")
        <3>1. Shown' = [Shown EXCEPT ![i] = "diagnosed"]
            BY <2>1, <2>2, <2>4, RowShownIs DEF SaveSucceeds, Upsert, Shown, TypeInv, TypeOK
        <3>2. Status[i] = "running" /\ Status' = Status
            BY <2>1, <2>3 DEF Status, JobStatus, jobVars
        <3>3. ~StoredNow[i] /\ StoredNow' = [StoredNow EXCEPT ![i] = TRUE]
            <4>1. ~StoredNow[i] /\ StoredNow'[i] = TRUE
                BY <1>0, <2>1, <2>3, <2>4 DEF StoredNow, Goto, jobVars
            <4>2. ASSUME NEW j \in Incidents, j # i PROVE StoredNow'[j] = StoredNow[j]
                <5>1. jobs'[j] = jobs[j] /\ jobs[j] # r /\ (jobs[j] # None => jobs[j] \in Clients)
                    BY <2>1, <4>2 DEF JobsInv, TypeInv, TypeOK, jobVars, Clients
                <5>2. QED
                    BY <1>0, <2>4, <5>1 DEF StoredNow, Goto
            <4>3. QED
                <5>1. StoredNow = [j \in Incidents |-> StoredNow[j]] /\ StoredNow' = [j \in Incidents |-> StoredNow'[j]]
                    BY DEF StoredNow
                <5> HIDE DEF StoredNow
                <5>2. QED
                    BY <2>1, <4>1, <4>2, <5>1
        <3>4. Service!Store(i)
            BY <3>1, <3>2, <3>3 DEF Service!Store, Shown, Status, StoredNow
        <3>5. QED
            BY <2>1, <3>4 DEF Service!ServiceNext
    <2>5. CASE SaveFails(r, i, v) /\ Goto(r, "failed")
        <3>1. SaveEffect(r, i, v)
            BY <2>5, SaveHasEffect DEF TypeInv, TypeOK
        <3>2. Status' = Status /\ StoredNow' = StoredNow
            BY <1>0, <2>1, <2>5, QuietMove
        <3>3. QED
            BY <2>1, <2>2, <3>1, <3>2, SaveShown, WriteOrStutter
    <2>6. QED
        BY <1>4, <2>1, <2>4, <2>5 DEF StoreReanalysis
<1>5. CASE FinishJob(r)
    <2>1. PICK i \in Incidents :
              i = target[r] /\ pc[r] \in {"stored", "failed"} /\ UNCHANGED <<row, jobs>>
        BY <1>5 DEF FinishJob, TypeInv, ViewRead, storeVars
    <2>2. jobs[i] = r /\ jobState[r] = "running" /\ r # None
        BY <2>1 DEF JobsInv, Reanalyzing, Live, Over
    <2>3. /\ jobState' = [jobState EXCEPT ![r] = IF pc[r] = "stored" THEN "done" ELSE "failed"]
          /\ pc' = [pc EXCEPT ![r] = "finished"]
        BY <1>5, <2>1, <2>2 DEF FinishJob, Goto
    <2>4. ASSUME NEW j \in Incidents, j # i
          PROVE  jobs[j] # r /\ (jobs[j] # None => jobs[j] \in Requests /\ jobs[j] \in Clients)
        BY <2>1, <2>4 DEF JobsInv, TypeInv, TypeOK, Clients
    <2>5. /\ Status[i] = "running"
          /\ Status' = [Status EXCEPT ![i] = IF StoredNow[i] THEN "done" ELSE "failed"]
        <3>1. Status[i] = "running" /\ (StoredNow[i] <=> pc[r] = "stored")
            BY <2>1, <2>2 DEF Status, JobStatus, StoredNow
        <3>2. JobStatus(i)' = IF pc[r] = "stored" THEN "done" ELSE "failed"
            BY <2>1, <2>2, <2>3 DEF JobStatus, TypeInv, TypeOK
        <3>3. \A j \in Incidents : j # i => JobStatus(j)' = JobStatus(j)
            BY <2>1, <2>3, <2>4 DEF JobStatus, TypeInv, TypeOK
        <3>4. QED
            BY <2>1, <3>1, <3>2, <3>3 DEF Status
    <2>6. StoredNow' = [StoredNow EXCEPT ![i] = FALSE]
        BY <1>0, <2>1, <2>2, <2>3, <2>4 DEF StoredNow
    <2>7. Service!Finish(i)
        BY <1>1, <2>1, <2>5, <2>6 DEF Service!Finish, Shown, Status, StoredNow
    <2>8. QED
        BY <2>1, <2>7 DEF Service!ServiceNext
<1>6. QED
    BY <1>2, <1>3, <1>4, <1>5 DEF RequestStep

(***************************************************************************)
(* Every behaviour of the pipeline is one of the re-analysis service: what *)
(* the API tells a page of rows and jobs keeps to it through any restarts, *)
(* failed writes and interleavings (reanalyze_job.go:38-113).              *)
(***************************************************************************)
THEOREM PipelineServes == Spec => Service!ServiceSpec
<1>1. Init => Service!ServiceInit
    <2>1. RowShown(NoRow) = "absent" /\ NoRow.state = "absent"
        BY DEF RowShown, NoRow, PendingStates
    <2>2. QED
        BY <2>1 DEF Init, Service!ServiceInit, JobStatus
<1>2. TypeInv /\ JobsInv /\ ReadRowStays /\ [Next]_vars => [Service!ServiceNext]_(Service!serviceVars)
    <2> SUFFICES ASSUME TypeInv, JobsInv, ReadRowStays, [Next]_vars
                 PROVE  [Service!ServiceNext]_(Service!serviceVars)
        OBVIOUS
    <2>1. ASSUME NEW i \in Incidents, Acknowledge(i)
          PROVE  [Service!ServiceNext]_(Service!serviceVars)
        BY <2>1 DEF Acknowledge, Service!serviceVars, JobStatus, jobVars
    <2>2. CASE Restart
        <3>1. Shown' = Shown
            BY <2>2 DEF Restart, storeVars, Shown
        <3>2. Status' = [i \in Incidents |-> "idle"] /\ StoredNow' = [i \in Incidents |-> FALSE]
            BY <2>2 DEF Restart, Status, JobStatus, StoredNow
        <3>3. Service!Forget
            BY <3>1, <3>2 DEF Service!Forget, Shown, Status, StoredNow
        <3>4. QED
            BY <3>3 DEF Service!ServiceNext
    <2>3. CASE UNCHANGED vars
        BY <2>3 DEF vars, storeVars, jobVars, Service!serviceVars, JobStatus
    <2>4. QED
        BY <2>1, <2>2, <2>3, BundlesServe, RequestsServe, QueueingServes DEF Next
<1>3. QED
    BY <1>1, <1>2, JobsInvariant, TypeInit, TypeStep, ReadRowInit, ReadRowStep, PTL
       DEF Spec, Service!ServiceSpec

(***************************************************************************)
(* Only the operator acknowledges or takes it back: no save of an alert or *)
(* of a re-analysis and no restart does (store/incidents.go:11-26).        *)
(***************************************************************************)
THEOREM OperatorAcknowledges == Spec => AcknowledgedByOperator
<1>1. [Next]_vars => [acked' # acked => UNCHANGED <<row, pc, jobs, jobState>>]_vars
    <2> SUFFICES ASSUME Next, acked' # acked PROVE UNCHANGED <<row, pc, jobs, jobState>>
        BY DEF vars
    <2>1. ASSUME NEW b \in Bundles, BundleStep(b) PROVE acked' = acked
        BY <2>1 DEF BundleStep, Accept, RecordDetected, CollectEvidence, RecordDiagnosis,
            RecordFailure, Notify, SaveLogged, SaveSucceeds, SaveFails, Upsert, storeVars
    <2>2. ASSUME NEW r \in Requests, RequestStep(r) PROVE acked' = acked
        BY <2>2 DEF RequestStep, ReadIncident, StartJob, StoreReanalysis, FinishJob,
            SaveSucceeds, SaveFails, Upsert, storeVars
    <2>3. ASSUME NEW c \in Clients, EnterGate(c) \/ Analyze(c) PROVE acked' = acked
        BY <2>3 DEF EnterGate, Analyze, storeVars
    <2>4. CASE Restart
        BY <2>4 DEF Restart, storeVars
    <2>5. QED
        BY <2>1, <2>2, <2>3, <2>4 DEF Next, Acknowledge, jobVars
<1>2. QED
    BY <1>1, PTL DEF Spec, AcknowledgedByOperator
=============================================================================
