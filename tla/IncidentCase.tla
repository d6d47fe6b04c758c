---------------------------- MODULE IncidentCase ----------------------------
(***************************************************************************)
(* One incident without rivals, from its alert to its row: the evidence is *)
(* collected (EvidenceTriage), the engine investigates it                  *)
(* (DiagnosisEngine), the row is stored, and the operator has it analysed  *)
(* again from what the row holds (EvidenceBundleFromView).  How several    *)
(* goroutines share the row, and the save of the bare alert before its     *)
(* evidence is collected, are the subject of IncidentPipeline.             *)
(***************************************************************************)
EXTENDS DiagnosisEngine, EvidenceTriage

VARIABLES
    row         \* the models.IncidentView in the table

caseVars == <<vars, triageVars, row>>

-----------------------------------------------------------------------------
(* The row and the bundle it gives back *)

NoRow == [state |-> "none"]

\* evidenceQuality
Quality(b) ==
    IF b.metrics /\ b.logs THEN "rich"
    ELSE IF b.metrics \/ b.logs \/ b.events # {} \/ b.findings # {} THEN "partial"
    ELSE "none"

\* NewIncidentView without and with a diagnosis.
View(b, state) ==
    [state |-> state, alert |-> b.alert, namespace |-> b.namespace, workload |-> b.workload,
     pod |-> b.pod, category |-> b.category, metrics |-> b.metrics, logs |-> b.logs,
     events |-> b.events, status |-> b.status, findings |-> b.findings, runbooks |-> b.runbooks,
     cause |-> Blank, quality |-> ""]

DiagnosedView(b, cause) ==
    [View(b, "DiagnosisCompleted") EXCEPT !.cause = cause, !.quality = Quality(b)]

\* The bundle that a row gives back: the kind and the annotations are lost.
Restored(r, category, findings) ==
    [alert |-> r.alert, annotated |-> FALSE, namespace |-> r.namespace, pod |-> r.pod,
     workload |-> r.workload, kind |-> "", metrics |-> r.metrics, logs |-> r.logs,
     events |-> r.events, status |-> r.status, category |-> category, findings |-> findings,
     runbooks |-> r.runbooks]

\* (mutant) The findings of the probes are not restored.
RestoreWithoutFindings(r) == Restored(r, r.category, {})

\* (mutant) The rule's result is not restored.
RestoreWithoutRule(r) == Restored(r, "", r.findings)

EvidenceBundleFromView(r) == Restored(r, r.category, r.findings)

-----------------------------------------------------------------------------
CaseInit == Init /\ TriageInit /\ row = NoRow

Collect ==
    /\ TriageNext
    /\ UNCHANGED <<vars, row>>

\* processBundle: the row with the collected evidence, whatever there is of it.
RecordEvidence ==
    /\ step = "collected"
    /\ row' = View(bundle, "EvidenceCollected")
    /\ step' = "analysis"
    /\ UNCHANGED <<vars, given, bundle>>

\* A step of the engine, which shares nothing with the row but the bundle.
Investigate ==
    /\ step = "analysis"
    /\ Next
    /\ UNCHANGED <<triageVars, row>>

\* (mutant) A failed analysis is logged only.
RecordDiagnosisOnly ==
    /\ step = "analysis"
    /\ stage \in {"done", "failed"}
    /\ row' = IF stage = "done" THEN DiagnosedView(bundle, result) ELSE row
    /\ step' = "settled"
    /\ UNCHANGED <<vars, given, bundle>>

\* processBundle: the row with the outcome.
RecordOutcome ==
    /\ step = "analysis"
    /\ stage \in {"done", "failed"}
    /\ row' = IF stage = "done" THEN DiagnosedView(bundle, result)
              ELSE View(bundle, "ValidationFailed")
    /\ step' = "settled"
    /\ UNCHANGED <<vars, given, bundle>>

\* runReanalyze: the evidence of the row is analysed again and a diagnosis
\* stored with it; an analysis that fails leaves the row.
Reanalyze(cause) ==
    /\ step = "settled"
    /\ row' = DiagnosedView(EvidenceBundleFromView(row), cause)
    /\ UNCHANGED <<vars, triageVars>>

CaseNext ==
    \/ Collect \/ RecordEvidence \/ Investigate \/ RecordOutcome
    \/ \E cause \in Causes \cup {Blank} : Reanalyze(cause)

CaseSpec == CaseInit /\ [][CaseNext]_caseVars

Advance ==
    Collect \/ RecordEvidence \/ Investigate \/ RecordOutcome

\* All reads and calls end at their timeouts of 8 to 10 seconds and five minutes;
\* nobody has to ask for a re-analysis.
CaseFairSpec == CaseSpec /\ WF_caseVars(Advance)

-----------------------------------------------------------------------------
(* Properties *)

Rows ==
    [state : {"EvidenceCollected", "DiagnosisCompleted", "ValidationFailed"}, alert : AlertNames,
     namespace : Names \cup {None}, workload : Names \cup {None}, pod : Names \cup {None},
     category : RuleCategories \cup {"Unknown"}, metrics : BOOLEAN, logs : BOOLEAN,
     events : SUBSET Events,
     status : [kind : Kinds \cup {""}, name : Names \cup {None}, says : SUBSET RuleCategories],
     findings : SUBSET Findings, runbooks : SUBSET (DOMAIN Books), cause : Causes \cup {Blank},
     quality : {"", "none", "partial", "rich"}]

\* Types of the case and of its engine, whose calls are bounded.
CaseTypeOK ==
    /\ TypeOK
    /\ step \in {"metrics", "logs", "cluster", "rules", "probe", "runbooks", "collected", "analysis", "settled"}
    /\ given \in DOMAIN Cases
    /\ bundle \in Bundles
    /\ row \in Rows \cup {NoRow}

\* However often an incident is analysed again from its row, through a view that
\* drops part of the bundle, the row keeps all the evidence once collected, and
\* the quality shown is that of this evidence.
ReanalysisKeepsEvidence ==
    row # NoRow =>
        /\ row = [View(bundle, row.state) EXCEPT !.cause = row.cause, !.quality = row.quality]
        /\ row.state = "DiagnosisCompleted" => row.quality = Quality(bundle)

\* No failing or missing source keeps an incident from its outcome (enrich.go:12).
CaseSettles == <>(row # NoRow /\ row.state \in {"DiagnosisCompleted", "ValidationFailed"})
=============================================================================
