--------------------------- MODULE EvidenceTriage ---------------------------
(***************************************************************************)
(* From an alert to the evidence bundle that is analysed: the target that  *)
(* NewEvidenceBundle reads from the labels, the reads of Enricher.Enrich   *)
(* (internal/collector/enrich.go, kube.go, probe.go, registry.go), the     *)
(* classification by rules (internal/models/rules.go), the probes that     *)
(* draw conclusions for the model, and the choice of runbooks.             *)
(*                                                                         *)
(* A text is known by the rule categories whose keywords it contains, a    *)
(* list that is only shown by its set.  The cluster does not change while  *)
(* its evidence is collected; every read of it may fail.  A source that is *)
(* not configured is one whose reads always fail, except for the           *)
(* Kubernetes API, whose absence the probes can tell.                      *)
(***************************************************************************)
EXTENDS Integers, Sequences, FiniteSets

CONSTANTS
    None,       \* an empty label, no image
    Names,      \* names of namespaces, workloads and pods
    Images,     \* image references
    Archs,      \* processor architectures
    AlertNames, \* values of the label alertname, and keywords of runbooks
    Books,      \* runbook.Store: the runbooks in the order of their files
    Cases,      \* a sequence of alerts with the clusters they are about
    MaxEvents,  \* KubeCollector.maxEvents
    PageLimit   \* ListOptions.Limit of KubeCollector.events

\* ClassifyRules' rules in their order; "Unknown" is the category of no rule.
RulePriority ==
    <<"OOMKilled", "CrashLoopBackOff", "ImagePullBackOff", "ConfigError", "JobFailed",
      "Unschedulable", "VolumeIssue", "ProbeFailure", "ControlPlaneDown", "NodeIssue",
      "TargetDown">>

RuleCategories == {RulePriority[i] : i \in DOMAIN RulePriority}

LabelKeys == {"namespace", "pod", "deployment", "workload", "statefulset", "daemonset",
              "job", "job_name"}

Alerts == [name : AlertNames, says : SUBSET RuleCategories,
           labels : [LabelKeys -> Names \cup {None}], annotated : BOOLEAN]

\* A Kubernetes event with the image a pull message quotes; "at" is its place in
\* the order of time, the newer the greater, as the sort arranges equal times.
Events == [namespace : Names \cup {"kube-system"}, about : Names \cup {None},
           says : SUBSET RuleCategories, image : Images \cup {None}, at : Nat]

\* A container: whether it is an init container, its waiting reason, how its
\* current and its previous run ended, and whether it was restarted.
Endings == {"running", "error", "OOMKilled"}
Containers == [init : BOOLEAN, image : Images, says : SUBSET RuleCategories,
               ended : Endings, endedBefore : Endings, restarted : BOOLEAN]

\* What the registry knows of an image reference.
Manifests == [dockerHub : BOOLEAN, tagExists : BOOLEAN, archs : SUBSET Archs]

Nodes == [arch : Archs, says : SUBSET RuleCategories]

Kinds == {"Deployment", "StatefulSet", "DaemonSet", "Job", "Pod"}

\* The cluster as the alert's namespace shows it; a pod without containers is
\* one that does not exist.
Clusters == [inCluster : BOOLEAN, events : SUBSET Events, objects : SUBSET (Kinds \X Names),
             pods : [Names -> SUBSET Containers], nodes : SUBSET Nodes,
             registry : [Images -> Manifests]]

ASSUME TriageAssumption ==
    /\ None \notin Names \cup Images
    /\ MaxEvents \in Nat \ {0} /\ PageLimit \in Nat \ {0}
    /\ Cases \in Seq([alert : Alerts, cluster : Clusters])
    /\ \A i \in DOMAIN Cases :
          LET events == Cases[i].cluster.events
          IN IsFiniteSet(events) /\ \A e, f \in events : e.at = f.at => e = f
    /\ Books \in Seq([alerts : SUBSET AlertNames, category : RuleCategories \cup {""},
                       keywords : SUBSET (AlertNames \cup RuleCategories)])

VARIABLES
    step,       \* the next step: metrics, logs, cluster, rules, probe, runbooks; later steps follow
    given,      \* the case, by its index; it stays
    bundle      \* the models.EvidenceBundle

triageVars == <<step, given, bundle>>

alert == Cases[given].alert
cluster == Cases[given].cluster

-----------------------------------------------------------------------------
(* The target of an alert *)

\* The labels that name a workload and those that tell its kind, by priority.
WorkloadLabels == <<"deployment", "workload", "statefulset", "daemonset", "job", "job_name", "pod">>
KindLabels == <<"deployment", "statefulset", "daemonset", "job", "job_name", "pod">>

KindOf == [deployment |-> "Deployment", statefulset |-> "StatefulSet", daemonset |-> "DaemonSet",
           job |-> "Job", job_name |-> "Job", pod |-> "Pod"]

\* The first element of a list that is in a set, "" if none is.
FirstIn(list, S) ==
    IF \A i \in DOMAIN list : list[i] \notin S
    THEN ""
    ELSE list[CHOOSE i \in DOMAIN list :
                 list[i] \in S /\ \A j \in 1..(i - 1) : list[j] \notin S]

\* firstNonEmpty, as the key of the label.
FirstKey(labels, keys) == FirstIn(keys, {k \in LabelKeys : labels[k] # None})

NoStatus == [kind |-> "", name |-> None, says |-> {}]

\* The bundle before any evidence, with the labels that name the workload.
BundleFor(a, workloadLabels) ==
    LET workload == FirstKey(a.labels, workloadLabels)
        kind == FirstKey(a.labels, KindLabels)
    IN [alert |-> a.name, annotated |-> a.annotated, namespace |-> a.labels["namespace"],
        pod |-> a.labels["pod"], workload |-> IF workload = "" THEN None ELSE a.labels[workload],
        kind |-> IF kind = "" THEN "" ELSE KindOf[kind], metrics |-> FALSE, logs |-> FALSE,
        events |-> {}, status |-> NoStatus, category |-> "Unknown", findings |-> {},
        runbooks |-> {}]

\* (mutant) The pod is preferred as the workload, but not as the kind.
BundlePreferringPod(a) == BundleFor(a, <<"pod">> \o WorkloadLabels)

NewEvidenceBundle(a) == BundleFor(a, WorkloadLabels)

TriageInit ==
    /\ step = "metrics"
    /\ given \in DOMAIN Cases
    /\ bundle = NewEvidenceBundle(alert)

-----------------------------------------------------------------------------
(* Metrics and logs *)

\* Two queries of the namespace; one that fails or finds nothing leaves no entry.
QueryMetrics ==
    /\ step = "metrics"
    /\ \E found \in BOOLEAN :
          /\ bundle.namespace = None => ~found
          /\ bundle' = [bundle EXCEPT !.metrics = found]
    /\ step' = "logs"
    /\ UNCHANGED given

\* Recent logs of the pod, or of the whole namespace.
QueryLogs ==
    /\ step = "logs"
    /\ \E found \in BOOLEAN :
          /\ bundle.namespace = None => ~found
          /\ bundle' = [bundle EXCEPT !.logs = found]
    /\ step' = "cluster"
    /\ UNCHANGED given

-----------------------------------------------------------------------------
(* KubeCollector.Enrich *)

\* (mutant) Sorted the wrong way round.
RecentReversed(events) ==
    {e \in events : Cardinality({f \in events : f.at < e.at}) < MaxEvents}

Recent(events) ==
    {e \in events : Cardinality({f \in events : f.at > e.at}) < MaxEvents}

\* What the API lists of some events: no more than a page of them.  It lists them
\* by their names, which may put any of them on the page.
Pages(events) ==
    IF Cardinality(events) <= PageLimit THEN {events}
    ELSE {page \in SUBSET events : Cardinality(page) = PageLimit}

\* (mutant) The field selector is left out.
EventsOfNamespace(namespace, object) ==
    {Recent(page) : page \in Pages({e \in cluster.events : e.namespace = namespace})}

\* KubeCollector.events: the newest of the listed events of an object, or of the
\* namespace.
EventsOf(namespace, object) ==
    {Recent(page) : page \in Pages({e \in cluster.events :
                                       e.namespace = namespace /\ object \in {None, e.about}})}

\* A line about the nodes among the events.
NodeLine(says) == [namespace |-> "kube-system", about |-> None, says |-> says, image |-> None, at |-> 0]

\* nodeHealth: the nodes in a bad condition, or one line saying there are none.
NodeHealth ==
    LET bad == {n \in cluster.nodes : n.says # {}}
    IN IF bad = {} THEN {NodeLine({})} ELSE {NodeLine(n.says) : n \in bad}

\* resourceStatus: the status of the object of that kind and name.  Only a pod's
\* tells of its containers, without the init containers.
ResourceStatus ==
    LET name == IF bundle.kind = "Pod" THEN bundle.pod ELSE bundle.workload
    IN CASE bundle.kind = "Pod" /\ cluster.pods[name] # {} ->
                [kind |-> "Pod", name |-> name,
                 says |-> UNION {c.says : c \in {d \in cluster.pods[name] : ~d.init}}]
         [] bundle.kind # "Pod" /\ <<bundle.kind, name>> \in cluster.objects ->
                [kind |-> bundle.kind, name |-> name, says |-> {}]
         [] OTHER -> NoStatus

\* A read gives one of its answers, or what its failure leaves.
Attempt(answers, failure) == {failure} \cup IF cluster.inCluster THEN answers ELSE {}

\* Events and status of a target in a namespace, the nodes and the events of
\* kube-system without.  One deadline covers the reads.
ReadCluster ==
    /\ step = "cluster"
    /\ \/ /\ bundle.namespace # None
          /\ \E events \in Attempt(EventsOf(bundle.namespace, bundle.pod), {}),
                status \in Attempt({ResourceStatus}, NoStatus) :
                bundle' = [bundle EXCEPT !.events = events, !.status = status]
       \/ /\ bundle.namespace = None
          /\ \E nodes \in Attempt({NodeHealth}, {}),
                events \in Attempt(EventsOf("kube-system", None), {}) :
                bundle' = [bundle EXCEPT !.events = nodes \cup events]
    /\ step' = "rules"
    /\ UNCHANGED given

-----------------------------------------------------------------------------
(* ClassifyRules *)

\* What the alert's name, the events and the containers of the status say.
Heard == alert.says \cup UNION {e.says : e \in bundle.events} \cup bundle.status.says

\* The first rule with a keyword in it.
Category == LET first == FirstIn(RulePriority, Heard) IN IF first = "" THEN "Unknown" ELSE first

Classify ==
    /\ step = "rules"
    /\ bundle' = [bundle EXCEPT !.category = Category]
    /\ step' = "probe"
    /\ UNCHANGED given

-----------------------------------------------------------------------------
(* The probes: conclusions drawn by code and passed on as findings.  A finding *)
(* names the pod or the image it is about and the architectures it quotes.    *)

Verdicts == {"restarts", "compareLogs", "oom", "scheduler", "nodes", "nodesError", "advice",
             "unidentified", "lookupFailed", "unsupported", "tagMissing", "noPlatforms",
             "mismatch", "match"}

Findings == [verdict : Verdicts, pod : Names \cup {None}, image : Images \cup {None},
             archs : SUBSET Archs]

Finding(verdict) == [verdict |-> verdict, pod |-> None, image |-> None, archs |-> {}]

\* PodContainers, init containers included; none if the pod is not known or the
\* read fails.
PodContainers(read) ==
    IF /\ cluster.inCluster /\ read
       /\ bundle.namespace # None /\ bundle.pod # None
    THEN cluster.pods[bundle.pod] ELSE {}

\* crashLoopFinding: containers that ended, now or before, or were restarted.
ProbeCrashLoop(containers) ==
    LET restarts == {[Finding("restarts") EXCEPT !.pod = bundle.pod] :
                        c \in {d \in containers : d.ended # "running" \/ d.endedBefore # "running"
                                                  \/ d.restarted}}
    IN restarts \cup IF restarts # {} /\ bundle.logs THEN {Finding("compareLogs")} ELSE {}

ProbeOOM(containers) ==
    {[Finding("oom") EXCEPT !.pod = bundle.pod] :
        c \in {d \in containers : "OOMKilled" \in {d.ended, d.endedBefore}}}

\* The newest event of the scheduler, and the first line about the nodes.
ProbeUnschedulable(read) ==
    LET refused == {e \in bundle.events : "Unschedulable" \in e.says}
        reason == {[Finding("scheduler") EXCEPT !.pod = e.about] :
                      e \in {f \in refused : \A g \in refused : g.at <= f.at}}
        nodes == IF cluster.inCluster
                 THEN {IF read THEN [Finding("nodes") EXCEPT !.archs = {n.arch : n \in cluster.nodes}]
                               ELSE Finding("nodesError")}
                 ELSE {}
    IN IF reason \cup nodes = {} THEN {} ELSE reason \cup nodes \cup {Finding("advice")}

\* NodeArchs: none when the nodes cannot be listed.
NodeArchs(read) == IF cluster.inCluster /\ read THEN {n.arch : n \in cluster.nodes} ELSE {}

\* imagesForBundle: the images of the pod, or else those that the events quote.
ImagesForBundle(containers) ==
    IF containers # {} THEN {c.image : c \in containers}
    ELSE {e.image : e \in bundle.events} \ {None}

\* (mutant) Nodes that could not be listed count as nodes of other architectures.
JudgeUnseen(imageArchs, nodeArchs) ==
    IF imageArchs \cap nodeArchs = {} THEN "mismatch" ELSE "match"

\* The image's architectures against those of the nodes.  Without nodes the code
\* takes the branch of a match.
Judge(imageArchs, nodeArchs) ==
    IF nodeArchs # {} /\ imageArchs \cap nodeArchs = {} THEN "mismatch" ELSE "match"

\* probeImagePull for one image: what InspectImage answers, and the judgement.
Verdict(image, archs, answered) ==
    LET known == cluster.registry[image]
    IN IF ~known.dockerHub THEN "unsupported"
       ELSE IF ~answered THEN "lookupFailed"
       ELSE IF ~known.tagExists THEN "tagMissing"
       ELSE IF known.archs = {} THEN "noPlatforms"
       ELSE Judge(known.archs, archs)

ProbeImagePull(images, archs, answered) ==
    IF images = {} THEN {Finding("unidentified")}
    ELSE {[Finding(Verdict(i, archs, i \in answered)) EXCEPT !.image = i, !.archs = archs] : i \in images}

\* Enricher.probe: the probe of the category, with the reads that succeed.
Probe ==
    /\ step = "probe"
    /\ \E pod, nodes \in BOOLEAN, answered \in SUBSET Images :
          bundle' = [bundle EXCEPT !.findings =
              CASE bundle.category = "ImagePullBackOff" ->
                       ProbeImagePull(ImagesForBundle(PodContainers(pod)), NodeArchs(nodes), answered)
                [] bundle.category = "CrashLoopBackOff" -> ProbeCrashLoop(PodContainers(pod))
                [] bundle.category = "OOMKilled" -> ProbeOOM(PodContainers(pod))
                [] bundle.category = "Unschedulable" -> ProbeUnschedulable(nodes)
                [] OTHER -> {}]
    /\ step' = "runbooks"
    /\ UNCHANGED given

-----------------------------------------------------------------------------
(* Runbooks *)

\* A runbook's score: the alert it is for, the category, and its keywords.
Score(i) ==
    10 * Cardinality({a \in Books[i].alerts : a = bundle.alert})
    + (IF bundle.category # "Unknown" /\ Books[i].category = bundle.category THEN 8 ELSE 0)
    + 2 * Cardinality({k \in Books[i].keywords : k = bundle.alert \/ k = bundle.category})

\* (mutant) The hits are not sorted.
MatchInFileOrder ==
    /\ step = "runbooks"
    /\ LET hits == {i \in DOMAIN Books : Score(i) > 0}
       IN bundle' = [bundle EXCEPT !.runbooks =
                        {i \in hits : Cardinality({j \in hits : j < i}) < 2}]
    /\ step' = "collected"
    /\ UNCHANGED given

\* Match: the two with the highest scores, the earlier file first among equals.
MatchRunbooks ==
    /\ step = "runbooks"
    /\ LET hits == {i \in DOMAIN Books : Score(i) > 0}
           before(i) == {j \in hits : Score(j) > Score(i) \/ (Score(j) = Score(i) /\ j < i)}
       IN bundle' = [bundle EXCEPT !.runbooks = {i \in hits : Cardinality(before(i)) < 2}]
    /\ step' = "collected"
    /\ UNCHANGED given

TriageNext ==
    QueryMetrics \/ QueryLogs \/ ReadCluster \/ Classify \/ Probe \/ MatchRunbooks

-----------------------------------------------------------------------------
(* Properties *)

Bundles ==
    [alert : AlertNames, annotated : BOOLEAN, namespace : Names \cup {None}, pod : Names \cup {None},
     workload : Names \cup {None}, kind : Kinds \cup {""}, metrics : BOOLEAN,
     logs : BOOLEAN, events : SUBSET Events,
     status : [kind : Kinds \cup {""}, name : Names \cup {None}, says : SUBSET RuleCategories],
     category : RuleCategories \cup {"Unknown"}, findings : SUBSET Findings,
     runbooks : SUBSET (DOMAIN Books)]

\* A finding that blames the image is true of the registry and of the cluster: a
\* tag is missing only if the registry was asked and lacks it, and architectures
\* clash only if all nodes there are were read and none fits.  Of a match nothing is
\* claimed: the code concludes it with no node read as well (probe.go:157-164).
BlamesGrounded ==
    \A f \in bundle.findings :
        LET known == cluster.registry[f.image]
            archs == {n.arch : n \in cluster.nodes}
        IN /\ f.verdict = "tagMissing" => known.dockerHub /\ ~known.tagExists
           /\ f.verdict = "mismatch" =>
                 known.tagExists /\ archs # {} /\ f.archs = archs /\ known.archs \cap archs = {}

\* Evidence of a pod is not mixed with that of its neighbours: with a namespace
\* and a pod in the labels the events are the pod's, a finding about a pod is
\* about that one, and the images that are judged are those it runs or fails to
\* pull.
EvidenceOfPod ==
    bundle.namespace # None /\ bundle.pod # None =>
        /\ \A e \in bundle.events : e.about = bundle.pod
        /\ \A f \in bundle.findings :
              /\ f.pod \in {None, bundle.pod}
              /\ f.image \in {None} \cup {c.image : c \in cluster.pods[bundle.pod]}
                                    \cup {e.image : e \in bundle.events}

\* The status is that of an object which a label of its kind names, although
\* the kind and the name are looked up in two different lists of labels; the
\* label "workload", which has no kind, is the exception.
StatusOfNamed ==
    bundle.status # NoStatus /\ alert.labels["workload"] = None =>
        \E key \in DOMAIN KindOf :
            KindOf[key] = bundle.status.kind /\ alert.labels[key] = bundle.status.name

TargetEvents ==
    {e \in cluster.events : e.namespace = bundle.namespace /\ bundle.pod \in {None, e.about}}

\* Of the target's events none but the oldest are cut off, and only when the rest
\* is as many as may be kept (kube.go:281); of more events than a page holds even
\* the newest may be missing (kube.go:276).
BestEvents ==
    bundle.namespace # None =>
        /\ bundle.events \subseteq TargetEvents /\ Cardinality(bundle.events) <= MaxEvents
        /\ bundle.events # {} /\ Cardinality(TargetEvents) <= PageLimit =>
              \A e \in TargetEvents \ bundle.events :
                  Cardinality(bundle.events) = MaxEvents /\ \A f \in bundle.events : f.at > e.at

\* The runbooks fit the alert and its final category, and one that would fit too
\* is left out only for two that fit better, or as well and come first
\* (runbook.go:91).
Better(j, i) == Score(j) > Score(i) \/ (Score(j) = Score(i) /\ j < i)

BestRunbooks ==
    step \in {"collected", "analysis", "settled"} =>
        /\ Cardinality(bundle.runbooks) <= 2
        /\ \A i \in bundle.runbooks : Score(i) > 0
        /\ \A i \in DOMAIN Books \ bundle.runbooks :
              Score(i) > 0 => /\ Cardinality(bundle.runbooks) = 2
                              /\ \A j \in bundle.runbooks : Better(j, i)

\* What the limits on events and runbooks cut off is the least of it, although
\* the category that chooses the runbooks is found in the events that are left.
BestKept == BestEvents /\ BestRunbooks

\* The evidence is about the target that the alert's labels name.
AboutTheTarget == EvidenceOfPod /\ StatusOfNamed
=============================================================================
