------------------------- MODULE IncidentCaseProofs -------------------------
(* Theorems about IncidentCase, for any alerts and clusters and any replies. *)
EXTENDS IncidentCase, DiagnosisEngineProofs, Ranking

-----------------------------------------------------------------------------
(* The case runs the engine: what is proved of DiagnosisEngine carries over. *)

LEMMA CaseStepRunsEngine == ASSUME [CaseNext]_caseVars PROVE [Next]_vars
<1>1. CASE Collect BY <1>1 DEF Collect
<1>2. CASE RecordEvidence BY <1>2 DEF RecordEvidence
<1>3. CASE Investigate BY <1>3 DEF Investigate
<1>5. CASE RecordOutcome BY <1>5 DEF RecordOutcome
<1>6. ASSUME NEW cause, Reanalyze(cause) PROVE UNCHANGED vars BY <1>6 DEF Reanalyze
<1>7. CASE UNCHANGED caseVars BY <1>7 DEF caseVars
<1> QED BY <1>1, <1>2, <1>3, <1>5, <1>6, <1>7 DEF CaseNext

\* Every behaviour of the case is one of the engine.
THEOREM CaseRunsEngine == CaseSpec => Spec
<1>1. CaseInit => Init BY DEF CaseInit
<1> QED BY <1>1, CaseStepRunsEngine, PTL DEF CaseSpec, Spec

\* In a case, too, the calls are bounded and no root cause is lost.
THEOREM CaseKeepsCauses == CaseSpec => [](TypeOK /\ NoCauseDropped)
BY CaseRunsEngine, EngineTypes, EngineKeepsCauses, PTL

\* The investigation of a case is the bounded analysis for which the pipeline has
\* one step.
THEOREM CaseIsAnalysis == CaseSpec => Analysis!AnalysisSpec
BY CaseRunsEngine, EngineIsAnalysis, PTL

-----------------------------------------------------------------------------
(* The operators of the triage *)

LEMMA SequenceElement ==
    ASSUME NEW T, NEW s \in Seq(T), NEW i \in DOMAIN s
    PROVE  s[i] \in T
OBVIOUS

LEMMA SequenceDomain ==
    ASSUME NEW T, NEW s \in Seq(T)
    PROVE  Len(s) \in Nat /\ DOMAIN s = 1..Len(s)
OBVIOUS

LEMMA GivenTypes ==
    ASSUME given \in DOMAIN Cases
    PROVE  alert \in Alerts /\ cluster \in Clusters
<1>1. Cases[given] \in [alert : Alerts, cluster : Clusters] BY TriageAssumption, SequenceElement
<1> QED BY <1>1 DEF alert, cluster

\* Among a few indices of which some are in a set there is a first.  Induction is
\* out of the provers' reach; eleven is the number of rules.
LEMMA FirstOfFew ==
    ASSUME NEW n \in 1..11, NEW S, NEW i \in 1..n, i \in S
    PROVE  \E k \in 1..n : k \in S /\ \A j \in 1..(k - 1) : j \notin S
<1> SUFFICES ASSUME \A k \in 1..n : k \in S => \E j \in 1..(k - 1) : j \in S PROVE FALSE
  OBVIOUS
<1>1. 1 <= n => 1 \notin S OBVIOUS
<1>2. 2 <= n => 2 \notin S BY <1>1
<1>3. 3 <= n => 3 \notin S BY <1>1, <1>2
<1>4. 4 <= n => 4 \notin S BY <1>1, <1>2, <1>3
<1>5. 5 <= n => 5 \notin S BY <1>1, <1>2, <1>3, <1>4
<1>6. 6 <= n => 6 \notin S BY <1>1, <1>2, <1>3, <1>4, <1>5
<1>7. 7 <= n => 7 \notin S BY <1>1, <1>2, <1>3, <1>4, <1>5, <1>6
<1>8. 8 <= n => 8 \notin S BY <1>1, <1>2, <1>3, <1>4, <1>5, <1>6, <1>7
<1>9. 9 <= n => 9 \notin S BY <1>1, <1>2, <1>3, <1>4, <1>5, <1>6, <1>7, <1>8
<1>10. 10 <= n => 10 \notin S BY <1>1, <1>2, <1>3, <1>4, <1>5, <1>6, <1>7, <1>8, <1>9
<1>11. 11 <= n => 11 \notin S BY <1>1, <1>2, <1>3, <1>4, <1>5, <1>6, <1>7, <1>8, <1>9, <1>10
<1> QED BY <1>1, <1>2, <1>3, <1>4, <1>5, <1>6, <1>7, <1>8, <1>9, <1>10, <1>11

\* FirstIn finds a first element, if there is one.
LEMMA FirstInFinds ==
    ASSUME NEW list, NEW S, NEW n \in 1..11, DOMAIN list = 1..n
    PROVE  \/ FirstIn(list, S) = "" /\ \A i \in 1..n : list[i] \notin S
           \/ \E i \in 1..n : /\ FirstIn(list, S) = list[i] /\ list[i] \in S
                              /\ \A j \in 1..(i - 1) : list[j] \notin S
<1>1. CASE \A i \in 1..n : list[i] \notin S BY <1>1 DEF FirstIn
<1>2. CASE \E i \in 1..n : list[i] \in S
  <2> DEFINE T == {i \in 1..n : list[i] \in S}
             First(i) == list[i] \in S /\ \A j \in 1..(i - 1) : list[j] \notin S
  <2>1. PICK i \in 1..n : i \in T BY <1>2
  <2>2. \E k \in 1..n : k \in T /\ \A j \in 1..(k - 1) : j \notin T BY <2>1, FirstOfFew
  <2>3. \E k \in 1..n : First(k) BY <2>2
  <2> HIDE DEF First
  <2>4. First(CHOOSE k \in 1..n : First(k)) /\ (CHOOSE k \in 1..n : First(k)) \in 1..n BY <2>3
  <2>5. FirstIn(list, S) = list[CHOOSE k \in 1..n : First(k)] BY <1>2 DEF FirstIn, First
  <2> QED BY <2>4, <2>5 DEF First
<1> QED BY <1>1, <1>2

\* The same over the domain of the list, for lists that are not too long.
Short(list) == \E n \in 1..11 : DOMAIN list = 1..n

LEMMA FirstInShort ==
    ASSUME NEW list, NEW S, Short(list)
    PROVE  \/ FirstIn(list, S) = "" /\ \A i \in DOMAIN list : list[i] \notin S
           \/ \E i \in DOMAIN list : /\ FirstIn(list, S) = list[i] /\ list[i] \in S
                                     /\ \A j \in 1..(i - 1) : list[j] \notin S
<1>1. PICK n \in 1..11 : DOMAIN list = 1..n BY DEF Short
<1> QED BY <1>1, FirstInFinds

LEMMA ShortLists == Short(WorkloadLabels) /\ Short(KindLabels) /\ Short(RulePriority)
<1>1. DOMAIN WorkloadLabels = 1..7 /\ 7 \in 1..11 BY DEF WorkloadLabels
<1>2. DOMAIN KindLabels = 1..6 /\ 6 \in 1..11 BY DEF KindLabels
<1>3. DOMAIN RulePriority = 1..11 /\ 11 \in 1..11 BY DEF RulePriority
<1> QED BY <1>1, <1>2, <1>3 DEF Short

LEMMA ListedLabels ==
    /\ KindLabels[1] = "deployment" /\ KindLabels[2] = "statefulset" /\ KindLabels[3] = "daemonset"
    /\ KindLabels[4] = "job" /\ KindLabels[5] = "job_name" /\ KindLabels[6] = "pod"
    /\ WorkloadLabels[1] = "deployment" /\ WorkloadLabels[2] = "workload"
    /\ WorkloadLabels[3] = "statefulset" /\ WorkloadLabels[4] = "daemonset"
    /\ WorkloadLabels[5] = "job" /\ WorkloadLabels[6] = "job_name" /\ WorkloadLabels[7] = "pod"
BY DEF KindLabels, WorkloadLabels

\* The labels of a kind are those that the kind is looked up in.
LEMMA KindOfLabels ==
    /\ DOMAIN KindLabels = 1..6
    /\ \A i \in DOMAIN KindLabels : KindLabels[i] \in DOMAIN KindOf
    /\ DOMAIN KindOf \subseteq LabelKeys /\ "" \notin DOMAIN KindOf
    /\ \A k \in DOMAIN KindOf : KindOf[k] \in Kinds /\ (KindOf[k] = "Pod" => k = "pod")
<1>1. DOMAIN KindOf = {"deployment", "statefulset", "daemonset", "job", "job_name", "pod"}
  BY DEF KindOf
<1>2. DOMAIN KindLabels = 1..6 BY DEF KindLabels
<1>3. \A i \in 1..6 : KindLabels[i] \in DOMAIN KindOf BY <1>1, ListedLabels
<1>4. \A k \in DOMAIN KindOf : KindOf[k] \in Kinds /\ (KindOf[k] = "Pod" => k = "pod")
  BY <1>1 DEF KindOf, Kinds
<1>5. DOMAIN KindOf \subseteq LabelKeys /\ "" \notin DOMAIN KindOf BY <1>1 DEF LabelKeys
<1> QED BY <1>2, <1>3, <1>4, <1>5

\* Kind and name are looked up in lists that agree but for "workload".
LEMMA SameKey ==
    ASSUME NEW S, "workload" \notin S
    PROVE  FirstIn(KindLabels, S) = FirstIn(WorkloadLabels, S)
<1>1. DOMAIN WorkloadLabels = 1..7 /\ DOMAIN KindLabels = 1..6 BY DEF WorkloadLabels, KindLabels
<1>2. \/ FirstIn(KindLabels, S) = "" /\ \A i \in 1..6 : KindLabels[i] \notin S
      \/ \E i \in 1..6 : /\ FirstIn(KindLabels, S) = KindLabels[i] /\ KindLabels[i] \in S
                         /\ \A j \in 1..(i - 1) : KindLabels[j] \notin S
  BY <1>1, ShortLists, FirstInShort, Zenon
<1>3. \/ FirstIn(WorkloadLabels, S) = "" /\ \A i \in 1..7 : WorkloadLabels[i] \notin S
      \/ \E i \in 1..7 : /\ FirstIn(WorkloadLabels, S) = WorkloadLabels[i] /\ WorkloadLabels[i] \in S
                         /\ \A j \in 1..(i - 1) : WorkloadLabels[j] \notin S
  BY <1>1, ShortLists, FirstInShort, Zenon
<1>4. CASE \A i \in 1..6 : KindLabels[i] \notin S
  <2>1. \A i \in 1..7 : WorkloadLabels[i] \notin S BY <1>4, ListedLabels
  <2> QED BY <1>2, <1>3, <1>4, <2>1
<1>5. ASSUME NEW i \in 1..6, KindLabels[i] \in S, \A j \in 1..(i - 1) : KindLabels[j] \notin S,
             NEW m \in 1..7, WorkloadLabels[m] \in S, \A j \in 1..(m - 1) : WorkloadLabels[j] \notin S
      PROVE  KindLabels[i] = WorkloadLabels[m]
  <2>1. m # 2 BY <1>5, ListedLabels
  <2>2. i = 1 => m = 1 BY <1>5, ListedLabels
  <2>3. i # 1 => m # 1 BY <1>5, ListedLabels
  <2>4. i > 1 => m = i + 1
    <3>1. \A j \in 2..6 : KindLabels[j] = WorkloadLabels[j + 1] BY ListedLabels
    <3>2. ASSUME i > 1, m > i + 1 PROVE FALSE BY <1>5, <3>1, <3>2
    <3>3. ASSUME i > 1, m # 1, m < i + 1 PROVE FALSE
      <4>1. m - 1 \in 2..6 /\ m - 1 \in 1..(i - 1) BY <2>1, <3>3
      <4>2. KindLabels[m - 1] = WorkloadLabels[m] BY <3>1, <4>1
      <4> QED BY <1>5, <4>1, <4>2
    <3> QED BY <2>3, <3>2, <3>3
  <2> QED BY <2>2, <2>4, ListedLabels
<1>6. CASE \E i \in 1..6 : KindLabels[i] \in S
  <2>1. PICK i \in 1..6 : /\ FirstIn(KindLabels, S) = KindLabels[i] /\ KindLabels[i] \in S
                          /\ \A j \in 1..(i - 1) : KindLabels[j] \notin S
    BY <1>2, <1>6, Zenon
  <2>2. \E m \in 1..7 : WorkloadLabels[m] \in S BY <1>6, ListedLabels
  <2>3. PICK m \in 1..7 : /\ FirstIn(WorkloadLabels, S) = WorkloadLabels[m] /\ WorkloadLabels[m] \in S
                          /\ \A j \in 1..(m - 1) : WorkloadLabels[j] \notin S
    BY <1>3, <2>2, Zenon
  <2> QED BY <1>5, <2>1, <2>3, Zenon
<1> QED BY <1>4, <1>6

\* The name under which an object of the bundle's kind is looked up.
Target(b) == IF b.kind = "Pod" THEN b.pod ELSE b.workload

LEMMA BundleTypes == ASSUME NEW a \in Alerts PROVE NewEvidenceBundle(a) \in Bundles
<1> DEFINE S == {k \in LabelKeys : a.labels[k] # None}
           w == FirstIn(WorkloadLabels, S)
           k == FirstIn(KindLabels, S)
<1>1. a.labels \in [LabelKeys -> Names \cup {None}] /\ a.name \in AlertNames /\ a.annotated \in BOOLEAN
  BY DEF Alerts
<1>3. w = "" \/ w \in LabelKeys
  <2> HIDE DEF S
  <2>1. w = "" \/ \E i \in DOMAIN WorkloadLabels : w = WorkloadLabels[i] /\ WorkloadLabels[i] \in S
    BY ShortLists, FirstInShort, Zenon
  <2>2. S \subseteq LabelKeys BY DEF S
  <2> QED BY <2>1, <2>2
<1>4. k = "" \/ k \in DOMAIN KindOf
  <2> HIDE DEF S
  <2>1. k = "" \/ \E i \in DOMAIN KindLabels : k = KindLabels[i] BY ShortLists, FirstInShort, Zenon
  <2> QED BY <2>1, KindOfLabels
<1>5. k = "" \/ KindOf[k] \in Kinds BY <1>4, KindOfLabels
<1>6. {"namespace", "pod"} \subseteq LabelKeys BY DEF LabelKeys
<1> HIDE DEF w, k, S
<1>7. NoStatus \in [kind : Kinds \cup {""}, name : Names \cup {None}, says : SUBSET RuleCategories]
  BY DEF NoStatus
<1> DEFINE wl == IF w = "" THEN None ELSE a.labels[w]
           kd == IF k = "" THEN "" ELSE KindOf[k]
           ns == a.labels["namespace"]
           p == a.labels["pod"]
           n == a.name
           b == a.annotated
<1>8. wl \in Names \cup {None} /\ ns \in Names \cup {None} /\ p \in Names \cup {None}
  BY <1>1, <1>3, <1>6
<1>9. kd \in Kinds \cup {""} BY <1>5
<1>10. n \in AlertNames /\ b \in BOOLEAN BY <1>1
<1>11. NewEvidenceBundle(a) =
         [alert |-> n, annotated |-> b, namespace |-> ns, pod |-> p, workload |-> wl,
          kind |-> kd, metrics |-> FALSE, logs |-> FALSE, events |-> {}, status |-> NoStatus,
          category |-> "Unknown", findings |-> {}, runbooks |-> {}]
  BY DEF NewEvidenceBundle, BundleFor, FirstKey, w, k, S
<1> HIDE DEF wl, kd, ns, p, n, b
<1>12. [alert |-> n, annotated |-> b, namespace |-> ns, pod |-> p, workload |-> wl,
          kind |-> kd, metrics |-> FALSE, logs |-> FALSE, events |-> {}, status |-> NoStatus,
          category |-> "Unknown", findings |-> {}, runbooks |-> {}] \in Bundles
  BY <1>7, <1>8, <1>9, <1>10 DEF Bundles
<1> QED BY <1>11, <1>12

\* Without a label "workload" the target is what a label of the kind names.
LEMMA TargetIsNamed ==
    ASSUME NEW a \in Alerts, a.labels["workload"] = None, NewEvidenceBundle(a).kind # ""
    PROVE  \E key \in DOMAIN KindOf : /\ KindOf[key] = NewEvidenceBundle(a).kind
                                      /\ a.labels[key] = Target(NewEvidenceBundle(a))
<1> DEFINE S == {k \in LabelKeys : a.labels[k] # None}
           k == FirstIn(KindLabels, S)
<1>2. k = FirstIn(WorkloadLabels, S)
  <2>1. "workload" \notin S OBVIOUS
  <2> QED BY <2>1, SameKey, Zenon
<1>3. k = "" \/ \E i \in DOMAIN KindLabels : k = KindLabels[i] BY ShortLists, FirstInShort, Zenon
<1> HIDE DEF k, S
<1>4. /\ NewEvidenceBundle(a).kind = IF k = "" THEN "" ELSE KindOf[k]
      /\ NewEvidenceBundle(a).pod = a.labels["pod"]
      /\ NewEvidenceBundle(a).workload = IF k = "" THEN None ELSE a.labels[k]
  BY <1>2 DEF NewEvidenceBundle, BundleFor, FirstKey, k, S
<1>5. k # "" /\ k \in DOMAIN KindOf BY <1>3, <1>4, KindOfLabels
<1>6. KindOf[k] = "Pod" => k = "pod" BY <1>5, KindOfLabels
<1>7. NewEvidenceBundle(a).kind = KindOf[k] BY <1>4, <1>5
<1>8. Target(NewEvidenceBundle(a)) = a.labels[k] BY <1>4, <1>5, <1>6, <1>7 DEF Target
<1> QED BY <1>5, <1>7, <1>8, Zenon

\* A bundle of the kind Pod has a pod.
LEMMA PodKindHasPod ==
    ASSUME NEW a \in Alerts, NewEvidenceBundle(a).kind = "Pod"
    PROVE  NewEvidenceBundle(a).pod # None
<1> DEFINE S == {k \in LabelKeys : a.labels[k] # None}
           k == FirstIn(KindLabels, S)
<1>1. k = "" \/ \E i \in DOMAIN KindLabels : k = KindLabels[i] /\ KindLabels[i] \in S
  <2> HIDE DEF S
  <2> QED BY ShortLists, FirstInShort, Zenon
<1>2. k = "" \/ a.labels[k] # None BY <1>1
<1> HIDE DEF k, S
<1>3. /\ NewEvidenceBundle(a).kind = IF k = "" THEN "" ELSE KindOf[k]
      /\ NewEvidenceBundle(a).pod = a.labels["pod"]
  BY DEF NewEvidenceBundle, BundleFor, FirstKey, k, S
<1>4. k # "" /\ k \in DOMAIN KindOf BY <1>1, <1>3, KindOfLabels
<1> QED BY <1>2, <1>3, <1>4, KindOfLabels

-----------------------------------------------------------------------------
(* The triage keeps the target, and what it adds is about it.  The strengthening *)
(* says when the parts of the bundle are filled in.                              *)

SameTarget ==
    /\ bundle.namespace = NewEvidenceBundle(alert).namespace
    /\ bundle.pod = NewEvidenceBundle(alert).pod
    /\ bundle.workload = NewEvidenceBundle(alert).workload
    /\ bundle.kind = NewEvidenceBundle(alert).kind

NotYetFilled ==
    /\ step \in {"metrics", "logs", "cluster"} => bundle.events = {} /\ bundle.status = NoStatus
    /\ step \in {"metrics", "logs", "cluster", "rules", "probe"} => bundle.findings = {}

StatusOfTarget ==
    bundle.status # NoStatus =>
        /\ bundle.status.kind = bundle.kind /\ bundle.kind # ""
        /\ bundle.status.name = Target(bundle)

TriageTypes ==
    /\ step \in {"metrics", "logs", "cluster", "rules", "probe", "runbooks", "collected", "analysis", "settled"}
    /\ given \in DOMAIN Cases
    /\ bundle \in Bundles

TriageInv ==
    TriageTypes /\ SameTarget /\ NotYetFilled /\ StatusOfTarget /\ BlamesGrounded /\ EvidenceOfPod

\* The invariant gives the property: the status is the target's, and the target
\* is what a label of its kind names.
LEMMA TriageInvNames == ASSUME TriageInv PROVE AboutTheTarget
<1>1. alert \in Alerts BY GivenTypes DEF TriageInv, TriageTypes
<1>2. Target(bundle) = Target(NewEvidenceBundle(alert)) BY DEF TriageInv, SameTarget, Target
<1>3. ASSUME bundle.status # NoStatus, alert.labels["workload"] = None
      PROVE  \E key \in DOMAIN KindOf :
                KindOf[key] = bundle.status.kind /\ alert.labels[key] = bundle.status.name
  <2>1. /\ bundle.status.kind = NewEvidenceBundle(alert).kind /\ bundle.status.kind # ""
        /\ bundle.status.name = Target(NewEvidenceBundle(alert))
    BY <1>2, <1>3 DEF TriageInv, SameTarget, StatusOfTarget
  <2> QED BY <1>1, <1>3, <2>1, TargetIsNamed
<1> QED BY <1>3 DEF AboutTheTarget, StatusOfNamed, TriageInv

LEMMA TriageInitInv == ASSUME TriageInit PROVE TriageInv
<1>1. given \in DOMAIN Cases /\ alert \in Alerts /\ bundle = NewEvidenceBundle(alert)
  BY GivenTypes DEF TriageInit
<1>2. bundle \in Bundles BY <1>1, BundleTypes
<1>3. /\ bundle.events = {} /\ bundle.status = NoStatus /\ bundle.findings = {}
  BY <1>1 DEF NewEvidenceBundle, BundleFor
<1>4. TriageTypes BY <1>1, <1>2 DEF TriageInit, TriageTypes
<1>5. SameTarget BY <1>1 DEF SameTarget
<1>6. NotYetFilled /\ StatusOfTarget BY <1>3 DEF NotYetFilled, StatusOfTarget
<1>7. BlamesGrounded /\ EvidenceOfPod BY <1>3 DEF BlamesGrounded, EvidenceOfPod
<1> QED BY <1>4, <1>5, <1>6, <1>7 DEF TriageInv

\* Steps that add neither events, nor a status, nor findings.
LEMMA AddsNothingJudged ==
    ASSUME TriageInv, given' = given, bundle' \in Bundles,
           bundle'.namespace = bundle.namespace, bundle'.pod = bundle.pod,
           bundle'.workload = bundle.workload, bundle'.kind = bundle.kind,
           bundle'.events = bundle.events, bundle'.status = bundle.status,
           bundle'.findings = bundle.findings,
           \/ step = "metrics" /\ step' = "logs"
           \/ step = "logs" /\ step' = "cluster"
           \/ step = "rules" /\ step' = "probe"
           \/ step = "runbooks" /\ step' = "collected"
    PROVE  TriageInv'
<1>1. alert' = alert /\ cluster' = cluster BY DEF alert, cluster
<1>2. TriageTypes' BY DEF TriageInv, TriageTypes
<1>3. SameTarget' BY <1>1 DEF TriageInv, SameTarget
<1>4. NotYetFilled' BY DEF TriageInv, NotYetFilled
<1>5. StatusOfTarget' BY DEF TriageInv, StatusOfTarget, Target
<1>6. BlamesGrounded' BY <1>1 DEF TriageInv, BlamesGrounded
<1>7. EvidenceOfPod' BY <1>1 DEF TriageInv, EvidenceOfPod
<1> QED BY <1>2, <1>3, <1>4, <1>5, <1>6, <1>7 DEF TriageInv

LEMMA QueryMetricsKeeps == ASSUME TriageInv, QueryMetrics PROVE TriageInv'
<1>1. PICK found \in BOOLEAN : bundle' = [bundle EXCEPT !.metrics = found] BY DEF QueryMetrics
<1>2. bundle \in Bundles BY DEF TriageInv, TriageTypes
<1>3. bundle' \in Bundles BY <1>1, <1>2 DEF Bundles
<1>4. /\ bundle'.namespace = bundle.namespace /\ bundle'.pod = bundle.pod
      /\ bundle'.workload = bundle.workload /\ bundle'.kind = bundle.kind
      /\ bundle'.events = bundle.events /\ bundle'.status = bundle.status
      /\ bundle'.findings = bundle.findings
  BY <1>1, <1>2 DEF Bundles
<1> QED BY <1>3, <1>4, AddsNothingJudged DEF QueryMetrics

LEMMA QueryLogsKeeps == ASSUME TriageInv, QueryLogs PROVE TriageInv'
<1>1. PICK found \in BOOLEAN : bundle' = [bundle EXCEPT !.logs = found] BY DEF QueryLogs
<1>2. bundle \in Bundles BY DEF TriageInv, TriageTypes
<1>3. bundle' \in Bundles BY <1>1, <1>2 DEF Bundles
<1>4. /\ bundle'.namespace = bundle.namespace /\ bundle'.pod = bundle.pod
      /\ bundle'.workload = bundle.workload /\ bundle'.kind = bundle.kind
      /\ bundle'.events = bundle.events /\ bundle'.status = bundle.status
      /\ bundle'.findings = bundle.findings
  BY <1>1, <1>2 DEF Bundles
<1> QED BY <1>3, <1>4, AddsNothingJudged DEF QueryLogs

LEMMA ClassifyKeeps == ASSUME TriageInv, Classify PROVE TriageInv'
<1>1. Category \in RuleCategories \cup {"Unknown"}
  <2>1. FirstIn(RulePriority, Heard) = "" \/ FirstIn(RulePriority, Heard) \in RuleCategories
    <3>1. \/ FirstIn(RulePriority, Heard) = ""
          \/ \E i \in DOMAIN RulePriority : FirstIn(RulePriority, Heard) = RulePriority[i]
      BY ShortLists, FirstInShort, Zenon
    <3> QED BY <3>1 DEF RuleCategories
  <2> QED BY <2>1 DEF Category
<1>2. bundle \in Bundles BY DEF TriageInv, TriageTypes
<1>3. bundle' = [bundle EXCEPT !.category = Category] BY DEF Classify
<1>4. bundle' \in Bundles BY <1>1, <1>2, <1>3 DEF Bundles
<1>5. /\ bundle'.namespace = bundle.namespace /\ bundle'.pod = bundle.pod
      /\ bundle'.workload = bundle.workload /\ bundle'.kind = bundle.kind
      /\ bundle'.events = bundle.events /\ bundle'.status = bundle.status
      /\ bundle'.findings = bundle.findings
  BY <1>2, <1>3 DEF Bundles
<1> QED BY <1>4, <1>5, AddsNothingJudged DEF Classify

LEMMA MatchRunbooksKeeps == ASSUME TriageInv, MatchRunbooks PROVE TriageInv'
<1>1. PICK chosen \in SUBSET (DOMAIN Books) : bundle' = [bundle EXCEPT !.runbooks = chosen]
  BY DEF MatchRunbooks
<1>2. bundle \in Bundles BY DEF TriageInv, TriageTypes
<1>3. bundle' \in Bundles BY <1>1, <1>2 DEF Bundles
<1>4. /\ bundle'.namespace = bundle.namespace /\ bundle'.pod = bundle.pod
      /\ bundle'.workload = bundle.workload /\ bundle'.kind = bundle.kind
      /\ bundle'.events = bundle.events /\ bundle'.status = bundle.status
      /\ bundle'.findings = bundle.findings
  BY <1>1, <1>2 DEF Bundles
<1> QED BY <1>3, <1>4, AddsNothingJudged DEF MatchRunbooks

\* A page has nothing but what is asked for.
LEMMA PageOfEvents ==
    ASSUME NEW S, NEW page \in Pages(S)
    PROVE  page \subseteq S /\ (Cardinality(S) <= PageLimit => page = S)
BY DEF Pages

\* What KubeCollector.Enrich reads.
LEMMA ReadTypes ==
    ASSUME given \in DOMAIN Cases, bundle \in Bundles
    PROVE  /\ \A ns, object : \A events \in EventsOf(ns, object) :
                 /\ events \subseteq Events
                 /\ events \subseteq {e \in cluster.events : e.namespace = ns /\ object \in {None, e.about}}
           /\ NodeHealth \subseteq Events
<1>1. cluster.events \subseteq Events /\ cluster.nodes \subseteq Nodes BY GivenTypes DEF Clusters
<1>2. ASSUME NEW ns, NEW object, NEW events \in EventsOf(ns, object)
      PROVE  events \subseteq {e \in cluster.events : e.namespace = ns /\ object \in {None, e.about}}
  <2> DEFINE wanted == {e \in cluster.events : e.namespace = ns /\ object \in {None, e.about}}
  <2>1. PICK page \in Pages(wanted) : events = Recent(page) BY <1>2 DEF EventsOf
  <2> HIDE DEF wanted
  <2>2. page \subseteq wanted BY PageOfEvents
  <2>3. events \subseteq page BY <2>1 DEF Recent
  <2>4. events \subseteq wanted BY <2>2, <2>3
  <2> QED BY <2>4 DEF wanted
<1>3. ASSUME NEW says \in SUBSET RuleCategories PROVE NodeLine(says) \in Events
  BY DEF NodeLine, Events
<1>4. \A n \in cluster.nodes : n.says \in SUBSET RuleCategories BY <1>1 DEF Nodes
<1>5. {} \in SUBSET RuleCategories OBVIOUS
<1>6. NodeHealth \subseteq Events BY <1>3, <1>4, <1>5 DEF NodeHealth
<1> QED BY <1>1, <1>2, <1>6

LEMMA StatusTypes ==
    ASSUME TriageInv
    PROVE  /\ ResourceStatus \in [kind : Kinds \cup {""}, name : Names \cup {None}, says : SUBSET RuleCategories]
           /\ ResourceStatus # NoStatus =>
                 /\ ResourceStatus.kind = bundle.kind /\ bundle.kind # ""
                 /\ ResourceStatus.name = Target(bundle)
<1> DEFINE Type == [kind : Kinds \cup {""}, name : Names \cup {None}, says : SUBSET RuleCategories]
           name == IF bundle.kind = "Pod" THEN bundle.pod ELSE bundle.workload
           said == UNION {c.says : c \in {d \in cluster.pods[name] : ~d.init}}
<1>1. alert \in Alerts /\ cluster \in Clusters BY GivenTypes DEF TriageInv, TriageTypes
<1>2. name \in Names \cup {None} BY DEF TriageInv, TriageTypes, Bundles
<1>3. name = Target(bundle) BY DEF Target
<1>4. bundle.kind = "Pod" => bundle.pod \in Names
  BY <1>1, PodKindHasPod DEF TriageInv, SameTarget, TriageTypes, Bundles
<1>5. CASE bundle.kind = "Pod" /\ cluster.pods[name] # {}
  <2>1. name \in Names BY <1>4, <1>5
  <2>2. cluster.pods[name] \subseteq Containers BY <1>1, <2>1 DEF Clusters
  <2>3. said \in SUBSET RuleCategories BY <2>2 DEF Containers
  <2> HIDE DEF said, name
  <2>4. ResourceStatus = [kind |-> "Pod", name |-> name, says |-> said] BY <1>5 DEF ResourceStatus, name, said
  <2>5. "Pod" \in Kinds BY DEF Kinds
  <2>6. ResourceStatus \in Type BY <2>1, <2>3, <2>4, <2>5
  <2> QED BY <1>3, <1>5, <2>4, <2>6
<1>6. CASE bundle.kind # "Pod" /\ <<bundle.kind, name>> \in cluster.objects
  <2> HIDE DEF name
  <2>1. bundle.kind \in Kinds /\ name \in Names BY <1>1, <1>6 DEF Clusters
  <2>2. bundle.kind # "" BY <2>1 DEF Kinds
  <2>3. ResourceStatus = [kind |-> bundle.kind, name |-> name, says |-> {}] BY <1>6 DEF ResourceStatus, name
  <2>4. {} \in SUBSET RuleCategories OBVIOUS
  <2>5. ResourceStatus \in Type BY <2>1, <2>3, <2>4
  <2> QED BY <1>3, <2>2, <2>3, <2>5
<1>7. CASE /\ ~(bundle.kind = "Pod" /\ cluster.pods[name] # {})
           /\ ~(bundle.kind # "Pod" /\ <<bundle.kind, name>> \in cluster.objects)
  <2>1. ResourceStatus = NoStatus BY <1>7 DEF ResourceStatus
  <2>2. NoStatus \in Type BY DEF NoStatus
  <2> QED BY <2>1, <2>2
<1> QED BY <1>5, <1>6, <1>7

LEMMA ReadClusterKeeps == ASSUME TriageInv, ReadCluster PROVE TriageInv'
<1>1. given \in DOMAIN Cases /\ bundle \in Bundles BY DEF TriageInv, TriageTypes
<1>2. PICK events \in SUBSET Events,
           status \in [kind : Kinds \cup {""}, name : Names \cup {None}, says : SUBSET RuleCategories] :
        /\ bundle' = [bundle EXCEPT !.events = events, !.status = status]
        /\ bundle.namespace # None /\ bundle.pod # None => \A e \in events : e.about = bundle.pod
        /\ status # NoStatus => status.kind = bundle.kind /\ bundle.kind # "" /\ status.name = Target(bundle)
  <2>1. NoStatus \in [kind : Kinds \cup {""}, name : Names \cup {None}, says : SUBSET RuleCategories]
    BY DEF NoStatus
  <2>2. CASE bundle.namespace # None
    <3>1. PICK events \in Attempt(EventsOf(bundle.namespace, bundle.pod), {}),
               status \in Attempt({ResourceStatus}, NoStatus) :
              bundle' = [bundle EXCEPT !.events = events, !.status = status]
      BY <2>2, Zenon DEF ReadCluster
    <3>2. (events = {} \/ events \in EventsOf(bundle.namespace, bundle.pod))
          /\ status \in {NoStatus, ResourceStatus}
      BY DEF Attempt
    <3>3. events \subseteq Events /\ (bundle.pod # None => \A e \in events : e.about = bundle.pod)
      BY <1>1, <3>2, ReadTypes
    <3>4. /\ status \in [kind : Kinds \cup {""}, name : Names \cup {None}, says : SUBSET RuleCategories]
          /\ status # NoStatus => status.kind = bundle.kind /\ bundle.kind # "" /\ status.name = Target(bundle)
      BY <2>1, <3>2, StatusTypes
    <3> QED BY <3>1, <3>3, <3>4
  <2>3. CASE bundle.namespace = None
    <3>1. PICK nodes \in Attempt({NodeHealth}, {}), events \in Attempt(EventsOf("kube-system", None), {}) :
              bundle' = [bundle EXCEPT !.events = nodes \cup events]
      BY <2>3, Zenon DEF ReadCluster
    <3>2. nodes \in {{}, NodeHealth} /\ (events = {} \/ events \in EventsOf("kube-system", None))
      BY DEF Attempt
    <3>3. nodes \cup events \subseteq Events BY <1>1, <3>2, ReadTypes
    <3>4. bundle.status = NoStatus BY DEF TriageInv, NotYetFilled, ReadCluster
    <3>5. bundle' = [bundle EXCEPT !.events = nodes \cup events, !.status = NoStatus]
      BY <1>1, <3>1, <3>4 DEF Bundles
    <3> QED BY <2>1, <2>3, <3>3, <3>5
  <2> QED BY <2>2, <2>3
<1>3. bundle' \in Bundles BY <1>1, <1>2 DEF Bundles
<1>4. /\ bundle'.namespace = bundle.namespace /\ bundle'.pod = bundle.pod
      /\ bundle'.workload = bundle.workload /\ bundle'.kind = bundle.kind
      /\ bundle'.events = events /\ bundle'.status = status
      /\ bundle'.findings = bundle.findings
  BY <1>1, <1>2 DEF Bundles
<1>5. bundle.findings = {} /\ step' = "rules" /\ given' = given
  BY DEF TriageInv, NotYetFilled, ReadCluster
<1>6. alert' = alert /\ cluster' = cluster BY <1>5 DEF alert, cluster
<1>7. TriageTypes' BY <1>1, <1>3, <1>5 DEF TriageTypes
<1>8. SameTarget' BY <1>4, <1>6 DEF TriageInv, SameTarget
<1>9. NotYetFilled' BY <1>4, <1>5 DEF NotYetFilled
<1>10. StatusOfTarget' BY <1>2, <1>4 DEF StatusOfTarget, Target
<1>11. BlamesGrounded' BY <1>4, <1>5 DEF BlamesGrounded
<1>12. EvidenceOfPod' BY <1>2, <1>4, <1>5 DEF EvidenceOfPod
<1> QED BY <1>7, <1>8, <1>9, <1>10, <1>11, <1>12 DEF TriageInv

\* What makes a finding well-typed, right in what it blames, and about the pod.
Sound(f) ==
    /\ f \in Findings
    /\ f.verdict = "tagMissing" => cluster.registry[f.image].dockerHub /\ ~cluster.registry[f.image].tagExists
    /\ f.verdict = "mismatch" =>
          /\ cluster.registry[f.image].tagExists
          /\ {n.arch : n \in cluster.nodes} # {} /\ f.archs = {n.arch : n \in cluster.nodes}
          /\ cluster.registry[f.image].archs \cap {n.arch : n \in cluster.nodes} = {}
    /\ bundle.namespace # None /\ bundle.pod # None =>
          /\ f.pod \in {None, bundle.pod}
          /\ f.image \in {None} \cup {c.image : c \in cluster.pods[bundle.pod]}
                                \cup {e.image : e \in bundle.events}

\* A finding that is not about an image says nothing about the registry.
LEMMA PlainSound ==
    ASSUME NEW verdict \in Verdicts \ {"tagMissing", "mismatch"},
           NEW pod \in Names \cup {None}, NEW archs \in SUBSET Archs, NEW f,
           f = [verdict |-> verdict, pod |-> pod, image |-> None, archs |-> archs],
           bundle.namespace # None /\ bundle.pod # None => pod \in {None, bundle.pod}
    PROVE  Sound(f)
<1>1. f \in Findings BY DEF Findings
<1>2. f.verdict \notin {"tagMissing", "mismatch"} /\ f.pod = pod /\ f.image = None OBVIOUS
<1> QED BY <1>1, <1>2 DEF Sound

LEMMA ContainersOfPod ==
    ASSUME TriageInv, NEW read \in BOOLEAN
    PROVE  /\ PodContainers(read) \subseteq Containers
           /\ PodContainers(read) # {} => PodContainers(read) = cluster.pods[bundle.pod]
<1>1. cluster \in Clusters /\ bundle \in Bundles BY GivenTypes DEF TriageInv, TriageTypes
<1>2. bundle.pod # None => bundle.pod \in Names BY <1>1 DEF Bundles
<1>3. bundle.pod # None => cluster.pods[bundle.pod] \subseteq Containers BY <1>1, <1>2 DEF Clusters
<1> QED BY <1>3 DEF PodContainers

LEMMA CrashLoopSound ==
    ASSUME TriageInv, NEW containers, NEW f \in ProbeCrashLoop(containers)
    PROVE  Sound(f)
<1>1. bundle.pod \in Names \cup {None} BY DEF TriageInv, TriageTypes, Bundles
<1>2. \/ f = [verdict |-> "restarts", pod |-> bundle.pod, image |-> None, archs |-> {}]
      \/ f = [verdict |-> "compareLogs", pod |-> None, image |-> None, archs |-> {}]
  BY DEF ProbeCrashLoop, Finding
<1>3. "restarts" \in Verdicts \ {"tagMissing", "mismatch"} BY DEF Verdicts
<1>4. "compareLogs" \in Verdicts \ {"tagMissing", "mismatch"} BY DEF Verdicts
<1> QED BY <1>1, <1>2, <1>3, <1>4, PlainSound

LEMMA OOMSound ==
    ASSUME TriageInv, NEW containers, NEW f \in ProbeOOM(containers)
    PROVE  Sound(f)
<1>1. bundle.pod \in Names \cup {None} BY DEF TriageInv, TriageTypes, Bundles
<1>2. f = [verdict |-> "oom", pod |-> bundle.pod, image |-> None, archs |-> {}]
  BY DEF ProbeOOM, Finding
<1>3. "oom" \in Verdicts \ {"tagMissing", "mismatch"} BY DEF Verdicts
<1> QED BY <1>1, <1>2, <1>3, PlainSound

LEMMA NodeArchTypes == ASSUME TriageInv PROVE {n.arch : n \in cluster.nodes} \in SUBSET Archs
<1>1. cluster \in Clusters BY GivenTypes DEF TriageInv, TriageTypes
<1>2. cluster.nodes \subseteq Nodes BY <1>1 DEF Clusters
<1> QED BY <1>2 DEF Nodes

LEMMA UnschedulableSound ==
    ASSUME TriageInv, NEW read \in BOOLEAN, NEW f \in ProbeUnschedulable(read)
    PROVE  Sound(f)
<1> DEFINE archs == {n.arch : n \in cluster.nodes}
<1>1. bundle.events \subseteq Events BY DEF TriageInv, TriageTypes, Bundles
<1>2. archs \in SUBSET Archs BY NodeArchTypes
<1>3. \/ \E e \in bundle.events : f = [verdict |-> "scheduler", pod |-> e.about, image |-> None, archs |-> {}]
      \/ f = [verdict |-> "nodes", pod |-> None, image |-> None, archs |-> archs]
      \/ f = [verdict |-> "nodesError", pod |-> None, image |-> None, archs |-> {}]
      \/ f = [verdict |-> "advice", pod |-> None, image |-> None, archs |-> {}]
  BY DEF ProbeUnschedulable, Finding
<1>4. {"scheduler", "nodes", "nodesError", "advice"} \subseteq Verdicts \ {"tagMissing", "mismatch"}
  BY DEF Verdicts
<1>5. CASE \E e \in bundle.events : f = [verdict |-> "scheduler", pod |-> e.about, image |-> None, archs |-> {}]
  <2>1. PICK e \in bundle.events : f = [verdict |-> "scheduler", pod |-> e.about, image |-> None, archs |-> {}]
    BY <1>5
  <2>2. e.about \in Names \cup {None} BY <1>1 DEF Events
  <2>3. bundle.namespace # None /\ bundle.pod # None => e.about = bundle.pod
    BY DEF TriageInv, EvidenceOfPod
  <2> QED BY <1>4, <2>1, <2>2, <2>3, PlainSound
<1> HIDE DEF archs
<1>6. CASE f = [verdict |-> "nodes", pod |-> None, image |-> None, archs |-> archs]
  BY <1>2, <1>4, <1>6, PlainSound
<1>7. CASE f = [verdict |-> "nodesError", pod |-> None, image |-> None, archs |-> {}]
  BY <1>4, <1>7, PlainSound
<1>8. CASE f = [verdict |-> "advice", pod |-> None, image |-> None, archs |-> {}]
  BY <1>4, <1>8, PlainSound
<1> QED BY <1>3, <1>5, <1>6, <1>7, <1>8

\* The images that are judged are those of the pod or of its events.
LEMMA ImagesOfPod ==
    ASSUME TriageInv, NEW read \in BOOLEAN, NEW i \in ImagesForBundle(PodContainers(read))
    PROVE  /\ i \in Images
           /\ i \in {c.image : c \in cluster.pods[bundle.pod]} \cup {e.image : e \in bundle.events}
<1>1. bundle.events \subseteq Events BY DEF TriageInv, TriageTypes, Bundles
<1>2. CASE PodContainers(read) # {}
  <2>1. PICK c \in PodContainers(read) : i = c.image BY <1>2 DEF ImagesForBundle
  <2>2. c \in Containers /\ c \in cluster.pods[bundle.pod] BY <2>1, ContainersOfPod
  <2> QED BY <2>1, <2>2 DEF Containers
<1>3. CASE PodContainers(read) = {}
  <2>1. PICK e \in bundle.events : i = e.image /\ i # None BY <1>3 DEF ImagesForBundle
  <2>2. e.image \in Images \cup {None} BY <1>1 DEF Events
  <2> QED BY <2>1, <2>2
<1> QED BY <1>2, <1>3

LEMMA ImagePullSound ==
    ASSUME TriageInv, NEW pod \in BOOLEAN, NEW nodes \in BOOLEAN, NEW answered \in SUBSET Images,
           NEW f \in ProbeImagePull(ImagesForBundle(PodContainers(pod)), NodeArchs(nodes), answered)
    PROVE  Sound(f)
<1> DEFINE images == ImagesForBundle(PodContainers(pod))
           there == {n.arch : n \in cluster.nodes}
<1>1. NodeArchs(nodes) \in {there, {}} BY DEF NodeArchs
<1>2. there \in SUBSET Archs BY NodeArchTypes
<1>3. CASE images = {}
  <2>1. f = [verdict |-> "unidentified", pod |-> None, image |-> None, archs |-> {}]
    BY <1>3 DEF ProbeImagePull, Finding
  <2>2. "unidentified" \in Verdicts \ {"tagMissing", "mismatch"} BY DEF Verdicts
  <2> QED BY <2>1, <2>2, PlainSound
<1>4. CASE images # {}
  <2> DEFINE seen == NodeArchs(nodes)
             judged(i) == Verdict(i, seen, i \in answered)
  <2>1. PICK i \in images :
           f = [verdict |-> judged(i), pod |-> None, image |-> i, archs |-> seen]
    BY <1>4 DEF ProbeImagePull, Finding
  <2>2. /\ i \in Images
        /\ i \in {c.image : c \in cluster.pods[bundle.pod]} \cup {e.image : e \in bundle.events}
    BY <2>1, ImagesOfPod
  <2>3. judged(i) \in Verdicts BY DEF Verdict, Judge, Verdicts
  <2>4. judged(i) = "tagMissing" => cluster.registry[i].dockerHub /\ ~cluster.registry[i].tagExists
    BY DEF Verdict, Judge
  <2>5. judged(i) = "mismatch" =>
          cluster.registry[i].tagExists /\ judged(i) = Judge(cluster.registry[i].archs, seen)
    BY DEF Verdict
  <2>6. judged(i) = "mismatch" => seen # {} /\ cluster.registry[i].archs \cap seen = {}
    BY <2>5 DEF Judge
  <2> HIDE DEF judged, seen, images, there
  <2>7. seen \in {there, {}} /\ seen \in SUBSET Archs BY <1>1, <1>2 DEF seen
  <2>8. f \in Findings BY <2>1, <2>2, <2>3, <2>7 DEF Findings
  <2>9. f.verdict = judged(i) /\ f.pod = None /\ f.image = i /\ f.archs = seen BY <2>1
  <2>10. f.verdict = "mismatch" =>
           /\ cluster.registry[f.image].tagExists
           /\ there # {} /\ f.archs = there /\ cluster.registry[f.image].archs \cap there = {}
    BY <2>5, <2>6, <2>7, <2>9
  <2> QED BY <2>2, <2>4, <2>8, <2>9, <2>10 DEF Sound, there
<1> QED BY <1>3, <1>4

LEMMA ProbeKeeps == ASSUME TriageInv, Probe PROVE TriageInv'
<1>1. given \in DOMAIN Cases /\ bundle \in Bundles BY DEF TriageInv, TriageTypes
<1>0. PICK pod \in BOOLEAN, nodes \in BOOLEAN, answered \in SUBSET Images : \E findings :
        /\ bundle' = [bundle EXCEPT !.findings = findings]
        /\ \/ findings = ProbeImagePull(ImagesForBundle(PodContainers(pod)), NodeArchs(nodes), answered)
           \/ findings = ProbeCrashLoop(PodContainers(pod))
           \/ findings = ProbeOOM(PodContainers(pod))
           \/ findings = ProbeUnschedulable(nodes)
           \/ findings = {}
  BY DEF Probe
<1>2. PICK findings :
        /\ bundle' = [bundle EXCEPT !.findings = findings]
        /\ \/ findings = ProbeImagePull(ImagesForBundle(PodContainers(pod)), NodeArchs(nodes), answered)
           \/ findings = ProbeCrashLoop(PodContainers(pod))
           \/ findings = ProbeOOM(PodContainers(pod))
           \/ findings = ProbeUnschedulable(nodes)
           \/ findings = {}
  BY <1>0
<1>3. \A f \in findings : Sound(f)
  BY <1>2, ImagePullSound, CrashLoopSound, OOMSound, UnschedulableSound
<1>4. findings \subseteq Findings BY <1>3 DEF Sound
<1>5. bundle' \in Bundles BY <1>1, <1>2, <1>4 DEF Bundles
<1>6. /\ bundle'.namespace = bundle.namespace /\ bundle'.pod = bundle.pod
      /\ bundle'.workload = bundle.workload /\ bundle'.kind = bundle.kind
      /\ bundle'.events = bundle.events /\ bundle'.status = bundle.status
      /\ bundle'.findings = findings
  BY <1>1, <1>2 DEF Bundles
<1>7. step' = "runbooks" /\ given' = given BY DEF Probe
<1>8. alert' = alert /\ cluster' = cluster BY <1>7 DEF alert, cluster
<1>9. TriageTypes' BY <1>1, <1>5, <1>7 DEF TriageTypes
<1>10. SameTarget' BY <1>6, <1>8 DEF TriageInv, SameTarget
<1>11. NotYetFilled' BY <1>7 DEF NotYetFilled
<1>12. StatusOfTarget' BY <1>6 DEF TriageInv, StatusOfTarget, Target
<1>13. BlamesGrounded' BY <1>3, <1>6, <1>8 DEF BlamesGrounded, Sound
<1>14. EvidenceOfPod' BY <1>3, <1>6, <1>8 DEF TriageInv, EvidenceOfPod, Sound
<1> QED BY <1>9, <1>10, <1>11, <1>12, <1>13, <1>14 DEF TriageInv

LEMMA TriageNextKeeps == ASSUME TriageInv, TriageNext PROVE TriageInv'
BY QueryMetricsKeeps, QueryLogsKeeps, ReadClusterKeeps, ClassifyKeeps, ProbeKeeps, MatchRunbooksKeeps
   DEF TriageNext

-----------------------------------------------------------------------------
(* The cuts: what is kept of the events and of the runbooks are the first of an *)
(* order (Ranking).                                                             *)

\* The newest of any events of the cluster are as many as allowed and the newest.
LEMMA RecentAreNewest ==
    ASSUME given \in DOMAIN Cases, NEW S \in SUBSET cluster.events
    PROVE  /\ Recent(S) \subseteq S /\ Cardinality(Recent(S)) <= MaxEvents
           /\ \A e \in S \ Recent(S) :
                 Cardinality(Recent(S)) = MaxEvents /\ \A f \in Recent(S) : f.at > e.at
<1> DEFINE B == [e \in S |-> {f \in S : f.at > e.at}]
<1>1. IsFiniteSet(cluster.events) /\ \A e, f \in cluster.events : e.at = f.at => e = f
  BY TriageAssumption DEF cluster
<1>2. IsFiniteSet(S) BY <1>1, FS_Subset
<1>3. \A e \in S : e.at \in Nat
  <2>1. cluster.events \subseteq Events BY GivenTypes DEF Clusters
  <2> QED BY <2>1 DEF Events
<1>4. StrictOrder(S, B)
  <2>1. B \in [S -> SUBSET S] OBVIOUS
  <2>2. \A e \in S : e \notin B[e] BY <1>3
  <2>3. \A e, f \in S : f \in B[e] => B[f] \subseteq B[e] BY <1>3
  <2>4. \A e, f \in S : e # f => e \in B[f] \/ f \in B[e] BY <1>1, <1>3
  <2> HIDE DEF B
  <2> QED BY <2>1, <2>2, <2>3, <2>4 DEF StrictOrder
<1>5. Recent(S) = FirstOf(S, B, MaxEvents) BY DEF Recent, FirstOf
<1>6. MaxEvents \in Nat BY TriageAssumption
<1>7. \A e \in S : \A f \in B[e] : f.at > e.at OBVIOUS
<1> HIDE DEF B
<1>8. Cardinality(Recent(S)) <= MaxEvents BY <1>2, <1>4, <1>5, <1>6, FirstAreFew
<1>9. \A e \in S \ Recent(S) : Recent(S) \subseteq B[e] /\ Cardinality(Recent(S)) = MaxEvents
  BY <1>2, <1>4, <1>5, <1>6, LeftOutIsLast
<1> QED BY <1>5, <1>7, <1>8, <1>9 DEF FirstOf

LEMMA ScoreTypes == ASSUME bundle \in Bundles, NEW i \in DOMAIN Books PROVE Score(i) \in Nat
<1> DEFINE named == {a \in Books[i].alerts : a = bundle.alert}
           worded == {k \in Books[i].keywords : k = bundle.alert \/ k = bundle.category}
           fits == IF bundle.category # "Unknown" /\ Books[i].category = bundle.category THEN 8 ELSE 0
<1>1. IsFiniteSet({bundle.alert}) /\ IsFiniteSet({bundle.alert} \cup {bundle.category})
  BY FS_Singleton, FS_AddElement
<1>2. named \in SUBSET {bundle.alert} /\ worded \in SUBSET ({bundle.alert} \cup {bundle.category})
  OBVIOUS
<1> HIDE DEF named, worded
<1>3. IsFiniteSet(named) /\ IsFiniteSet(worded) BY <1>1, <1>2, FS_Subset
<1>4. Cardinality(named) \in Nat /\ Cardinality(worded) \in Nat BY <1>3, FS_CardinalityType
<1>5. fits \in Nat OBVIOUS
<1> HIDE DEF fits
<1>6. Score(i) = 10 * Cardinality(named) + fits + 2 * Cardinality(worded)
  BY DEF Score, named, worded, fits
<1> QED BY <1>4, <1>5, <1>6

\* The scores are those of the final category: nothing changes it afterwards.
LEMMA MatchedAreBest ==
    ASSUME bundle \in Bundles, MatchRunbooks
    PROVE  BestRunbooks'
<1> DEFINE hits == {i \in DOMAIN Books : Score(i) > 0}
           B == [i \in hits |-> {j \in hits : Score(j) > Score(i) \/ (Score(j) = Score(i) /\ j < i)}]
           kept == {i \in hits : Cardinality({j \in hits :
                       Score(j) > Score(i) \/ (Score(j) = Score(i) /\ j < i)}) < 2}
<1>1. bundle' = [bundle EXCEPT !.runbooks = kept] BY DEF MatchRunbooks
<1>2. hits \subseteq Int /\ IsFiniteSet(hits)
  <2>1. DOMAIN Books = 1..Len(Books) /\ Len(Books) \in Nat BY TriageAssumption, SequenceDomain
  <2>2. IsFiniteSet(1..Len(Books)) BY <2>1, FS_Interval
  <2>3. hits \in SUBSET (1..Len(Books)) BY <2>1
  <2> HIDE DEF hits
  <2>4. IsFiniteSet(hits) BY <2>2, <2>3, FS_Subset
  <2>5. hits \subseteq Int BY <2>1, <2>3
  <2> QED BY <2>4, <2>5
<1>3. \A i \in hits : Score(i) \in Nat BY ScoreTypes
<1>4. StrictOrder(hits, B)
  <2> HIDE DEF hits
  <2>1. B \in [hits -> SUBSET hits] OBVIOUS
  <2>2. \A i \in hits : i \notin B[i] BY <1>2, <1>3
  <2>3. ASSUME NEW i \in hits, NEW j \in B[i], NEW k \in B[j] PROVE k \in B[i]
    <3>1. j \in hits /\ k \in hits OBVIOUS
    <3>2. Score(j) > Score(i) \/ (Score(j) = Score(i) /\ j < i) OBVIOUS
    <3>3. Score(k) > Score(j) \/ (Score(k) = Score(j) /\ k < j) BY <3>1
    <3>4. Score(i) \in Nat /\ Score(j) \in Nat /\ Score(k) \in Nat BY <1>3, <3>1
    <3>5. i \in Int /\ j \in Int /\ k \in Int BY <1>2, <3>1
    <3>6. Score(k) > Score(i) \/ (Score(k) = Score(i) /\ k < i) BY <3>2, <3>3, <3>4, <3>5
    <3> QED BY <3>1, <3>6
  <2>4. \A i, j \in hits : i # j => i \in B[j] \/ j \in B[i] BY <1>2, <1>3
  <2> HIDE DEF B
  <2> QED BY <2>1, <2>2, <2>3, <2>4 DEF StrictOrder
<1>5. kept = FirstOf(hits, B, 2)
  <2> HIDE DEF hits
  <2> QED BY DEF FirstOf
<1>6. \A i \in DOMAIN Books : Score(i)' = Score(i) BY <1>1 DEF Score, Bundles
<1>7. bundle'.runbooks = kept BY <1>1 DEF Bundles
<1>8. \A i \in hits : \A j \in B[i] : Better(j, i) BY DEF Better
<1>9. hits \subseteq DOMAIN Books /\ \A i \in DOMAIN Books : i \in hits <=> Score(i) > 0 OBVIOUS
<1> HIDE DEF hits, B, kept
<1>10. Cardinality(kept) <= 2 BY <1>2, <1>4, <1>5, FirstAreFew
<1>11. \A i \in hits \ kept : kept \subseteq B[i] /\ Cardinality(kept) = 2
  BY <1>2, <1>4, <1>5, LeftOutIsLast
<1>12. kept \subseteq hits BY <1>5 DEF FirstOf
<1>13. \A i, j \in DOMAIN Books : Better(j, i)' <=> Better(j, i) BY <1>6 DEF Better
<1>14. \A i \in kept : Score(i)' > 0 BY <1>6, <1>9, <1>12
<1>15. ASSUME NEW i \in DOMAIN Books \ kept, Score(i)' > 0
       PROVE  Cardinality(kept) = 2 /\ \A j \in kept : Better(j, i)'
  <2>1. i \in hits \ kept BY <1>6, <1>9, <1>15
  <2> QED BY <1>8, <1>9, <1>11, <1>12, <1>13, <2>1
<1> QED BY <1>7, <1>10, <1>14, <1>15 DEF BestRunbooks

\* BestEvents looks at the target and the events only, BestRunbooks at what Match
\* has read and written.
LEMMA EventsStay ==
    ASSUME BestEvents, given' = given, bundle'.namespace = bundle.namespace,
           bundle'.pod = bundle.pod, bundle'.events = bundle.events
    PROVE  BestEvents'
<1>1. TargetEvents' = TargetEvents BY DEF TargetEvents, cluster
<1> QED BY <1>1 DEF BestEvents

LEMMA BestStay == ASSUME BestRunbooks, UNCHANGED <<step, bundle>> PROVE BestRunbooks'
<1>1. \A i, j : Better(j, i)' <=> Better(j, i) BY DEF Better, Score
<1>2. \A i : Score(i)' = Score(i) BY DEF Score
<1> QED BY <1>1, <1>2 DEF BestRunbooks

LEMMA NoneFit == Cardinality({}) <= MaxEvents
<1>1. Cardinality({}) = 0 BY FS_EmptySet, Zenon
<1>2. MaxEvents \in Nat BY TriageAssumption
<1> QED BY <1>1, <1>2

LEMMA ReadIsBest == ASSUME TriageInv, ReadCluster PROVE BestEvents'
<1>1. given \in DOMAIN Cases /\ bundle \in Bundles BY DEF TriageInv, TriageTypes
<1>2. given' = given /\ cluster' = cluster BY DEF ReadCluster, cluster
<1>3. /\ bundle'.namespace = bundle.namespace /\ bundle'.pod = bundle.pod
      /\ bundle.namespace # None =>
            bundle'.events = {} \/ bundle'.events \in EventsOf(bundle.namespace, bundle.pod)
  BY <1>1 DEF ReadCluster, Attempt, Bundles
<1>4. TargetEvents' = TargetEvents BY <1>2, <1>3 DEF TargetEvents
<1>5. EventsOf(bundle.namespace, bundle.pod) = {Recent(page) : page \in Pages(TargetEvents)}
  BY DEF EventsOf, TargetEvents
<1>6. TargetEvents \in SUBSET cluster.events BY DEF TargetEvents
<1> HIDE DEF TargetEvents
<1>7. CASE bundle.namespace # None /\ bundle'.events # {}
  <2>1. PICK page \in Pages(TargetEvents) : bundle'.events = Recent(page) BY <1>3, <1>5, <1>7
  <2>2. page \in SUBSET cluster.events /\ (Cardinality(TargetEvents) <= PageLimit => page = TargetEvents)
    BY <1>6, PageOfEvents
  <2>3. /\ Recent(page) \subseteq page /\ Cardinality(Recent(page)) <= MaxEvents
        /\ \A e \in page \ Recent(page) :
              Cardinality(Recent(page)) = MaxEvents /\ \A f \in Recent(page) : f.at > e.at
    BY <1>1, <2>2, RecentAreNewest
  <2> QED BY <1>4, <1>6, <2>1, <2>2, <2>3, PageOfEvents DEF BestEvents
<1>8. CASE bundle.namespace # None /\ bundle'.events = {}
  BY <1>8, NoneFit DEF BestEvents
<1>9. CASE bundle.namespace = None BY <1>3, <1>9 DEF BestEvents
<1> QED BY <1>7, <1>8, <1>9

LEMMA TriageKeepsBest == ASSUME TriageInv, BestKept, TriageNext PROVE BestKept'
<1>1. bundle \in Bundles BY DEF TriageInv, TriageTypes
<1>2. CASE ReadCluster
  <2>1. step' = "rules" BY <1>2 DEF ReadCluster
  <2>2. BestRunbooks' BY <2>1 DEF BestRunbooks
  <2> QED BY <1>2, <2>2, ReadIsBest DEF BestKept
<1>3. CASE QueryMetrics \/ QueryLogs \/ Classify \/ Probe
  <2>1. /\ given' = given /\ bundle'.namespace = bundle.namespace
        /\ bundle'.pod = bundle.pod /\ bundle'.events = bundle.events
    BY <1>1, <1>3 DEF QueryMetrics, QueryLogs, Classify, Probe, Bundles
  <2>2. step' \notin {"collected", "analysis", "settled"}
    BY <1>3 DEF QueryMetrics, QueryLogs, Classify, Probe
  <2>3. BestRunbooks' BY <2>2 DEF BestRunbooks
  <2> QED BY <2>1, <2>3, EventsStay DEF BestKept
<1>4. CASE MatchRunbooks
  <2>1. /\ given' = given /\ bundle'.namespace = bundle.namespace
        /\ bundle'.pod = bundle.pod /\ bundle'.events = bundle.events
    BY <1>1, <1>4 DEF MatchRunbooks, Bundles
  <2>2. BestRunbooks' BY <1>1, <1>4, MatchedAreBest
  <2> QED BY <2>1, <2>2, EventsStay DEF BestKept
<1> QED BY <1>2, <1>3, <1>4 DEF TriageNext

-----------------------------------------------------------------------------
(* The row.  It exists from the end of the collection on, and then it holds the *)
(* evidence of the bundle.                                                      *)

RowInv ==
    /\ row \in Rows \cup {NoRow}
    /\ row = NoRow <=> step \notin {"analysis", "settled"}
    /\ ReanalysisKeepsEvidence

CaseInv == TriageInv /\ RowInv

States == {"EvidenceCollected", "DiagnosisCompleted", "ValidationFailed"}

LEMMA ViewTypes ==
    ASSUME bundle \in Bundles, NEW state \in States
    PROVE  /\ View(bundle, state) \in Rows /\ View(bundle, state).state = state
           /\ View(bundle, state).quality = "" /\ View(bundle, state) # NoRow
<1>1. View(bundle, state) \in Rows BY DEF View, Rows, Bundles, States
<1>2. View(bundle, state).state = state /\ View(bundle, state).quality = "" BY DEF View
<1>3. state # "none" /\ NoRow.state = "none" BY DEF States, NoRow
<1>4. View(bundle, state) # NoRow BY <1>2, <1>3
<1> QED BY <1>1, <1>2, <1>4

LEMMA DiagnosedTypes ==
    ASSUME bundle \in Bundles, NEW cause \in Causes \cup {Blank}
    PROVE  /\ DiagnosedView(bundle, cause) \in Rows /\ DiagnosedView(bundle, cause) # NoRow
           /\ DiagnosedView(bundle, cause).state = "DiagnosisCompleted"
           /\ DiagnosedView(bundle, cause).cause = cause
           /\ DiagnosedView(bundle, cause).quality = Quality(bundle)
           /\ DiagnosedView(bundle, cause) =
                 [View(bundle, "DiagnosisCompleted") EXCEPT !.cause = cause, !.quality = Quality(bundle)]
<1> DEFINE v == View(bundle, "DiagnosisCompleted")
<1>1. v \in Rows /\ v.state = "DiagnosisCompleted" BY ViewTypes DEF States
<1>2. Quality(bundle) \in {"none", "partial", "rich"} BY DEF Quality
<1>3. DiagnosedView(bundle, cause) = [v EXCEPT !.cause = cause, !.quality = Quality(bundle)]
  BY DEF DiagnosedView
<1> HIDE DEF v
<1>4. DiagnosedView(bundle, cause) \in Rows BY <1>1, <1>2, <1>3 DEF Rows
<1>5. /\ DiagnosedView(bundle, cause).state = "DiagnosisCompleted"
      /\ DiagnosedView(bundle, cause).cause = cause
      /\ DiagnosedView(bundle, cause).quality = Quality(bundle)
  BY <1>1, <1>3 DEF Rows
<1>6. DiagnosedView(bundle, cause) # NoRow BY <1>5 DEF NoRow
<1> QED BY <1>3, <1>4, <1>5, <1>6 DEF v

\* What a row gives back is the evidence it was made of.
LEMMA RestoresEvidence ==
    ASSUME bundle \in Bundles, row # NoRow, ReanalysisKeepsEvidence, NEW cause
    PROVE  DiagnosedView(EvidenceBundleFromView(row), cause) = DiagnosedView(bundle, cause)
<1> DEFINE b == EvidenceBundleFromView(row)
<1>1. row = [View(bundle, row.state) EXCEPT !.cause = row.cause, !.quality = row.quality]
  BY DEF ReanalysisKeepsEvidence
<1>2. /\ row.alert = bundle.alert /\ row.namespace = bundle.namespace
      /\ row.workload = bundle.workload /\ row.pod = bundle.pod /\ row.category = bundle.category
      /\ row.metrics = bundle.metrics /\ row.logs = bundle.logs /\ row.events = bundle.events
      /\ row.status = bundle.status /\ row.findings = bundle.findings
      /\ row.runbooks = bundle.runbooks
  BY <1>1 DEF View
<1>3. /\ b.alert = bundle.alert /\ b.namespace = bundle.namespace
      /\ b.workload = bundle.workload /\ b.pod = bundle.pod /\ b.category = bundle.category
      /\ b.metrics = bundle.metrics /\ b.logs = bundle.logs /\ b.events = bundle.events
      /\ b.status = bundle.status /\ b.findings = bundle.findings
      /\ b.runbooks = bundle.runbooks
  BY <1>2 DEF EvidenceBundleFromView, Restored
<1> HIDE DEF b
<1>4. Quality(b) = Quality(bundle) BY <1>3 DEF Quality
<1>5. View(b, "DiagnosisCompleted") = View(bundle, "DiagnosisCompleted") BY <1>3 DEF View
<1>6. DiagnosedView(b, cause) = DiagnosedView(bundle, cause) BY <1>4, <1>5 DEF DiagnosedView
<1> QED BY <1>6 DEF b

LEMMA CaseInitInv == ASSUME CaseInit PROVE CaseInv
<1>1. TriageInv BY TriageInitInv DEF CaseInit
<1>2. RowInv BY DEF CaseInit, TriageInit, RowInv, ReanalysisKeepsEvidence
<1> QED BY <1>1, <1>2 DEF CaseInv

\* After the triage the bundle does not change.
LEMMA BundleStays ==
    ASSUME TriageInv, UNCHANGED <<given, bundle>>, step' \in {"analysis", "settled"},
           step \in {"collected", "analysis", "settled"}
    PROVE  TriageInv'
<1>1. alert' = alert /\ cluster' = cluster BY DEF alert, cluster
<1>2. TriageTypes' BY DEF TriageInv, TriageTypes
<1>3. SameTarget' /\ StatusOfTarget' BY <1>1 DEF TriageInv, SameTarget, StatusOfTarget, Target
<1>4. NotYetFilled' BY DEF NotYetFilled
<1>5. BlamesGrounded' /\ EvidenceOfPod' BY <1>1 DEF TriageInv, BlamesGrounded, EvidenceOfPod
<1> QED BY <1>2, <1>3, <1>4, <1>5 DEF TriageInv

LEMMA CollectKeeps == ASSUME CaseInv, Collect PROVE CaseInv'
<1>1. TriageInv' BY TriageNextKeeps DEF CaseInv, Collect
<1>2. /\ step \notin {"analysis", "settled"} /\ step' \notin {"analysis", "settled"}
  BY DEF Collect, TriageNext, QueryMetrics, QueryLogs, ReadCluster, Classify, Probe, MatchRunbooks
<1>3. row = NoRow /\ row' = NoRow BY <1>2 DEF CaseInv, RowInv, Collect
<1>4. RowInv' BY <1>2, <1>3 DEF CaseInv, RowInv, ReanalysisKeepsEvidence
<1> QED BY <1>1, <1>4 DEF CaseInv

LEMMA RecordEvidenceKeeps == ASSUME CaseInv, RecordEvidence PROVE CaseInv'
<1>1. bundle \in Bundles BY DEF CaseInv, TriageInv, TriageTypes
<1>2. TriageInv' BY BundleStays DEF CaseInv, RecordEvidence
<1>3. row' = View(bundle, "EvidenceCollected") /\ bundle' = bundle /\ step' = "analysis"
  BY DEF RecordEvidence
<1>4. /\ row' \in Rows /\ row' # NoRow /\ row'.state = "EvidenceCollected"
  BY <1>1, <1>3, ViewTypes DEF States
<1>5. row' = [View(bundle, row'.state) EXCEPT !.cause = row'.cause, !.quality = row'.quality]
  BY <1>3, <1>4 DEF View
<1>6. RowInv' BY <1>3, <1>4, <1>5 DEF CaseInv, RowInv, ReanalysisKeepsEvidence
<1> QED BY <1>2, <1>6 DEF CaseInv

\* A diagnosed row is that of the bundle.
LEMMA DiagnosedRowKeeps ==
    ASSUME CaseInv, NEW cause \in Causes \cup {Blank}, row' = DiagnosedView(bundle, cause),
           UNCHANGED <<given, bundle>>, step \in {"analysis", "settled"}, step' = "settled"
    PROVE  CaseInv'
<1>1. bundle \in Bundles BY DEF CaseInv, TriageInv, TriageTypes
<1>2. TriageInv' BY BundleStays DEF CaseInv
<1>3. /\ row' \in Rows /\ row' # NoRow /\ row'.state = "DiagnosisCompleted"
      /\ row'.cause = cause /\ row'.quality = Quality(bundle)
      /\ row' = [View(bundle, "DiagnosisCompleted") EXCEPT !.cause = cause, !.quality = Quality(bundle)]
  BY <1>1, DiagnosedTypes
<1>4. row' = [View(bundle, row'.state) EXCEPT !.cause = row'.cause, !.quality = row'.quality]
  BY <1>3, Zenon
<1>5. RowInv' BY <1>3, <1>4 DEF CaseInv, RowInv, ReanalysisKeepsEvidence
<1> QED BY <1>2, <1>5 DEF CaseInv

LEMMA RecordOutcomeKeeps == ASSUME CaseInv, TypeOK, RecordOutcome PROVE CaseInv'
<1>1. result \in Causes \cup {Blank} BY DEF TypeOK
<1>2. UNCHANGED <<given, bundle>> /\ step = "analysis" /\ step' = "settled" BY DEF RecordOutcome
<1>3. CASE stage = "done"
  <2>1. row' = DiagnosedView(bundle, result) BY <1>3 DEF RecordOutcome
  <2> QED BY <1>1, <1>2, <2>1, DiagnosedRowKeeps
<1>4. CASE stage # "done"
  <2>1. bundle \in Bundles BY DEF CaseInv, TriageInv, TriageTypes
  <2>2. TriageInv' BY <1>2, BundleStays DEF CaseInv
  <2>3. row' = View(bundle, "ValidationFailed") BY <1>4 DEF RecordOutcome
  <2>4. row' \in Rows /\ row' # NoRow /\ row'.state = "ValidationFailed"
    BY <2>1, <2>3, ViewTypes DEF States
  <2>5. row' = [View(bundle, row'.state) EXCEPT !.cause = row'.cause, !.quality = row'.quality]
    BY <2>3, <2>4 DEF View
  <2>6. RowInv' BY <1>2, <2>4, <2>5 DEF CaseInv, RowInv, ReanalysisKeepsEvidence
  <2> QED BY <2>2, <2>6 DEF CaseInv
<1> QED BY <1>3, <1>4

LEMMA ReanalyzeKeeps ==
    ASSUME CaseInv, NEW cause \in Causes \cup {Blank}, Reanalyze(cause) PROVE CaseInv'
<1>1. bundle \in Bundles BY DEF CaseInv, TriageInv, TriageTypes
<1>2. step = "settled" /\ step' = "settled" /\ UNCHANGED <<given, bundle>>
  BY DEF Reanalyze, triageVars
<1>3. row # NoRow /\ ReanalysisKeepsEvidence BY <1>2 DEF CaseInv, RowInv
<1>4. row' = DiagnosedView(bundle, cause) BY <1>1, <1>3, RestoresEvidence DEF Reanalyze
<1> QED BY <1>2, <1>4, DiagnosedRowKeeps

\* Steps of the engine leave bundle and row.
LEMMA EngineKeeps ==
    ASSUME CaseInv, UNCHANGED <<triageVars, row>> PROVE CaseInv'
<1>1. alert' = alert /\ cluster' = cluster BY DEF alert, cluster, triageVars
<1>2. TriageInv'
  BY <1>1 DEF CaseInv, TriageInv, TriageTypes, SameTarget, NotYetFilled, StatusOfTarget, Target,
              BlamesGrounded, EvidenceOfPod, triageVars
<1>3. RowInv' BY DEF CaseInv, RowInv, ReanalysisKeepsEvidence, triageVars
<1> QED BY <1>2, <1>3 DEF CaseInv

LEMMA CaseNextKeeps == ASSUME CaseInv, TypeOK, [CaseNext]_caseVars PROVE CaseInv'
<1>1. CASE Collect BY <1>1, CollectKeeps
<1>2. CASE RecordEvidence BY <1>2, RecordEvidenceKeeps
<1>3. CASE Investigate BY <1>3, EngineKeeps DEF Investigate
<1>5. CASE RecordOutcome BY <1>5, RecordOutcomeKeeps
<1>6. ASSUME NEW cause \in Causes \cup {Blank}, Reanalyze(cause) PROVE CaseInv'
  BY <1>6, ReanalyzeKeeps
<1>7. CASE UNCHANGED caseVars BY <1>7, EngineKeeps DEF caseVars
<1> QED BY <1>1, <1>2, <1>3, <1>5, <1>6, <1>7 DEF CaseNext

\* The inductive invariant of the case holds through any number of alerts,
\* investigations and re-analyses (alertmanager_poller.go:14-53, reanalyze_job.go:92-113).
THEOREM CaseInvariant == CaseSpec => []CaseInv
<1>1. CaseInit => CaseInv BY CaseInitInv
<1>2. CaseInv /\ TypeOK /\ [CaseNext]_caseVars => CaseInv' BY CaseNextKeeps
<1>3. CaseSpec => []TypeOK BY CaseKeepsCauses, PTL
<1> QED BY <1>1, <1>2, <1>3, PTL DEF CaseSpec

\* Once collected, the evidence stays, and with it what the cuts have left.
LEMMA CaseKeepsBest == ASSUME CaseInv, BestKept, [CaseNext]_caseVars PROVE BestKept'
<1>1. CASE Collect BY <1>1, TriageKeepsBest DEF CaseInv, Collect
<1>2. CASE RecordEvidence \/ RecordOutcome
  <2>1. /\ UNCHANGED <<given, bundle>>
        /\ step \in {"collected", "analysis", "settled"} /\ step' \in {"analysis", "settled"}
    BY <1>2 DEF RecordEvidence, RecordOutcome
  <2>2. BestEvents' BY <2>1, EventsStay DEF BestKept
  <2>3. (\A i, j : Better(j, i)' <=> Better(j, i)) /\ \A i : Score(i)' = Score(i)
    BY <2>1 DEF Better, Score
  <2>4. BestRunbooks' BY <2>1, <2>3 DEF BestKept, BestRunbooks
  <2> QED BY <2>2, <2>4 DEF BestKept
<1>3. CASE UNCHANGED triageVars BY <1>3, EventsStay, BestStay DEF BestKept, triageVars
<1> QED BY <1>1, <1>2, <1>3 DEF CaseNext, Investigate, Reanalyze, caseVars

\* Bundle and row have the types that the code gives them, and the calls of the
\* engine their bound.
THEOREM CaseTypes == CaseSpec => []CaseTypeOK
<1>1. CaseInv /\ TypeOK => CaseTypeOK
  BY DEF CaseInv, TriageInv, TriageTypes, RowInv, CaseTypeOK
<1> QED BY <1>1, CaseInvariant, CaseKeepsCauses, PTL

\* Where a probe blames the image, for a missing tag or for its architectures, that
\* is true of the registry and of all nodes, for any cluster and any failing reads.
THEOREM BlamesHold == CaseSpec => []BlamesGrounded
<1>1. CaseInv => BlamesGrounded BY DEF CaseInv, TriageInv
<1> QED BY <1>1, CaseInvariant, PTL

\* The limits on events and runbooks cut off the oldest events and the worst
\* runbooks, and none while there is room (kube.go:281, runbook.go:91), as long as
\* the events of the target fit on a page.
THEOREM BestIsKept == CaseSpec => []BestKept
<1>1. CaseInit => BestKept
  <2>1. ASSUME TriageInit PROVE bundle.events = {} /\ step = "metrics"
    BY <2>1 DEF TriageInit, NewEvidenceBundle, BundleFor
  <2> QED BY <2>1, NoneFit DEF CaseInit, BestKept, BestEvents, BestRunbooks
<1>2. CaseInv /\ BestKept /\ [CaseNext]_caseVars => BestKept' BY CaseKeepsBest
<1> QED BY <1>1, <1>2, CaseInvariant, PTL DEF CaseSpec

\* The evidence is about what the alert's labels name.
THEOREM TargetKept == CaseSpec => []AboutTheTarget
<1>1. CaseInv => AboutTheTarget BY TriageInvNames DEF CaseInv
<1> QED BY <1>1, CaseInvariant, PTL

\* No number of re-analyses loses evidence.
THEOREM EvidenceKept == CaseSpec => []ReanalysisKeepsEvidence
<1>1. CaseInv => ReanalysisKeepsEvidence BY DEF CaseInv, RowInv
<1> QED BY <1>1, CaseInvariant, PTL
=============================================================================
