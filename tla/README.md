# KubeSentinel AI: verification project

TLA+ models of the control core of KubeSentinel AI, TLC runs that check them on
small instances, and TLAPS proofs that hold for every value of the constants.
File names below are relative to the repository; `collector/` stands for
`internal/collector/`.

## 1. The system

KubeSentinel AI turns Alertmanager alerts into incidents with an AI diagnosis.
One Go process holds everything but the database and the browser.

| Part | State it keeps | Operations | Hard behaviour |
|---|---|---|---|
| Alertmanager poller (`collector/alertmanager_poller.go`) | `seen`: fingerprints already processed | poll, filter, start `processBundle`, forget resolved | failed polls, ignored and silenced alerts, never retrying a failed analysis |
| Webhook intake (`collector/webhook.go`) | none | decode, ignore check, start `processBundle` | resends, resolved notifications, duplicates of the poller's alerts |
| Ignore rules (`collector/ignore_api.go`, `store/ignore.go`) | `ignore_rules` table, cache in the server | add, toggle, delete, refresh the cache | refresh in two steps, refresh that fails after a change that succeeded |
| Incident pipeline (`processBundle`, `alertmanager_poller.go:14-53`) | one goroutine per accepted alert | save detected, enrich and save, analyse, save, notify | two alerts of one name and day share a row; errors of saves are only logged; a crash forgets the goroutine |
| Analysis gate (`collector/analysis_gate.go`) | buffered channel | acquire, release | queueing, leaks on error paths, capacity 0 |
| Re-analysis (`collector/reanalyze_job.go`, `incidents_api.go`) | in-memory map incident -> job | start, status, finish | single flight, restart, a row copied at the request and written back minutes later |
| Incident store (`store/incidents.go`) | `incidents` table | upsert, get, list, count, acknowledge | whole-row replacement, failed or unacknowledged writes |
| Evidence collection (`collector/enrich.go`, `kube.go`, `probe.go`, `registry.go`, `models/evidence.go`) | the bundle of one alert | target from the labels, six best-effort steps, conclusions of the probes | any read may fail, and a failed read is not an answer; several lookups by different labels |
| Rules and runbooks (`models/rules.go`, `internal/runbook`) | the runbooks | classify, choose two | order of the rules, ties |
| Diagnosis engine (`internal/diagnosis/engine.go`) | transcript of one analysis | tool loop, forced answer, verification | bound on the calls, malformed answers |
| View (`models/views.go`) | none | bundle to row and back | a field forgotten in one of two copies is lost with the first re-analysis |
| AI gateway, notifier, Prometheus, Loki clients | none | one bounded HTTP call each | timeouts |
| Settings, secrets, boot (`settings_api.go`, `secrets_api.go`, `store/store.go`, `cmd/kubesentinel-ai/main.go`) | `app_settings`, `app_secrets` tables; the configuration read at boot | get, put, boot merge | query errors turned into defaults, two secrets in two writes, configuration read only at boot |
| Incident page (`frontend/src/pages/IncidentDetail.tsx`, `lib/useAsync.ts`) | data, timers, `reanalyzing`, a message | load every five seconds, start a re-analysis, poll it every three | answers that are late, overtake each other, or arrive on the page of another incident |
| Settings page (`frontend/src/pages/Settings.tsx`) | the form, typed secrets | load, save, restart | two requests per save, defaults shown for a failed load |

Webhook and poller start `processBundle` goroutines. Each collects its evidence by itself. These and the goroutines
of re-analysis requests meet at the gate, which calls the engine, and in the
`incidents` table, where each save replaces a whole row. The frontend reads the
table and the job map over HTTP.

What makes each part correct:

* gate: the bound, no leaked or doubled place, first come first served, nobody
  blocked for ever;
* re-analysis: at most one per incident, a job that reads `running` exactly
  while its goroutine lives, `done` only for a diagnosis that is in the table;
* pipeline and store: rows whose evidence, diagnosis and time belong together,
  pending rows that somebody works on, notification after the save,
  acknowledgements that no goroutine undoes;
* intake: an alert that is not ignored is analysed once while Alertmanager goes on
  listing it, one that is ignored is not, and edits of the rules take force;
* evidence: it is about what the alert's labels name, what the code blames is so in
  the cluster, and no failing source keeps an incident from its outcome;
* engine: a bounded number of calls, a verification that never loses a diagnosis;
* view: a re-analysis loses no evidence;
* incident page: it comes to show the row as it is, its spinner ends, and it says
  "restarted" only after a restart;
* settings: what the operator saved is what the next boot runs on.

## 2. Modules

| Module | Models |
|---|---|
| `AnalysisGate` | the gate on its own, with any set of goroutines |
| `AnalysisGateProofs` | its theorems |
| `IncidentPipeline` | `processBundle`, re-analysis, job map, incidents table, the gate (`Gate == INSTANCE AnalysisGate`), failed writes, restart |
| `IncidentPipelineProofs` | its theorems; uses those of the gate through the refinement |
| `AlertIntake` | poller, webhook, ignore rules, their cache and the requests that edit them |
| `AlertIntakeProofs` | its theorems |
| `BoundedAnalysis` | what the pipeline may expect of one AI analysis (abstract) |
| `DiagnosisEngine` | one run of `Engine.Analyze`, implementing `BoundedAnalysis` |
| `DiagnosisEngineProofs` | its theorems |
| `EvidenceTriage` | the bundle of one alert: target, reads, classification, probes, runbooks |
| `IncidentCase` | one incident from its alert to its row and back: `EvidenceTriage`, then `DiagnosisEngine`, the row, re-analyses |
| `IncidentCaseProofs` | its theorems |
| `Ranking` | lemmas on what is left of a finite order when it is cut to its first members |
| `ReanalysisService` | what the incidents API promises to a page (abstract); `IncidentPipeline` implements it |
| `IncidentScreen` | the incident page in front of `ReanalysisService` |
| `IncidentScreenProofs` | its theorems |
| `SettingsBoot` | the settings page, the requests that store settings and secrets, the boot that reads them, restarts |
| `SettingsBootProofs` | its theorems |
| `MCAnalysisGate`, `MCIncidentPipeline`, `MCPipelineLiveness`, `MCAlertIntake`, `MCIncidentCase`,
`MCIncidentScreen`, `MCSettingsBoot` | instances for TLC |

`AlertIntake` ends where `IncidentPipeline` begins: its `Scan` and `Receive` count the
`go s.processBundle(bundle)` that is the pipeline's `Accept`. `IncidentPipeline`
composes the gate by `INSTANCE`; its one-step `Analyze` is an execution of
`BoundedAnalysis`, which `DiagnosisEngine` is shown to implement. `IncidentCase` puts the
details into one incident that the pipeline leaves out: where the pipeline has "evidence of an
alert" and "a diagnosis of it", the case has the bundle and the rounds of the engine. Downstream, the pipeline is
shown to be a `ReanalysisService` (`ServesPages`), and `IncidentScreen` is a page in
front of any such service.

Operators marked `(mutant)` are single-bug variants of the action that follows
them. No specification uses them; each shows that a property notices the bug.

### AnalysisGate

`running` is the content of the channel's buffer, named by the goroutine that
sent the token, `waiting` the queue of blocked senders. `Enter` and `Block` are
the send on a channel with and without room, `Release` the deferred receive,
which in Go's runtime completes the oldest blocked send in the same step.
`Reset` is the death of the process. `Capacity` is `newAnalysisGate`'s correction
of settings below one.

### IncidentPipeline

| Action | Code |
|---|---|
| `Accept` | `go s.processBundle(bundle)` in webhook and poller |
| `RecordDetected`, `CollectEvidence` | `alertmanager_poller.go:19-34` |
| `EnterGate`, `Analyze` | `analyzeGated`, `analysis_gate.go:30-53` |
| `RecordDiagnosis`, `RecordFailure`, `Notify` | `alertmanager_poller.go:37-52` |
| `ReadIncident` | `incidents_api.go:132-146` |
| `StartJob` | `incidents_api.go:148-159`, `reanalyze_job.go:53-62` |
| `StoreReanalysis`, `FinishJob` | `reanalyze_job.go:92-113`, `64-77` |
| `Acknowledge` | `PATCH`, `store/incidents.go:67-76` |
| `Restart` | the process stops anywhere and starts; only the table survives |

`pc` says which step a goroutine takes next. A step contains at most one access
to shared state (table, job map or gate), so that every interleaving of the
goroutines is a behaviour. A save succeeds, fails, or is applied although the
connection drops before the answer; the last two count as `dbFaults`.

Abstractions: evidence is the alert it describes and whether the enricher had
run; a diagnosis is the evidence it was drawn from; `created_at` is the alert
whose arrival stamped it. A store is configured (without one nothing is kept
and the API answers 503). `lastWriter` is a history variable: no action
reads it. One process runs, as in the chart (`replicaCount: 1`).

### AlertIntake

| Action | Code |
|---|---|
| `World` | Alertmanager (external): an alert fires, becomes active, is silenced, resolves |
| `Fetch`, `FetchFails` | `fetchActiveAlerts` and the early return of the poll, `alertmanager_poller.go:88-95` |
| `Scan` | the loop body for one alert: state, severity, ignore rules, `seen`, start |
| `FinishPoll` | the clean-up of `seen` |
| `Receive` | `webhook.go`, `handleAlertmanagerWebhook` |
| `Edit`, `EditFails` | add, toggle or delete one row of `ignore_rules` |
| `ListRules`, `ListFails`, `InstallRules` | `RefreshIgnoreRules`: read the table, then replace the cache |
| `Restart` | the process dies; the next one loads the rules (`main.go:83`) before it serves and polls |
| `BootLists`, `TakeOver` | a roll: the new process loads the rules while the old one serves and polls, then takes over |

A keyword is known by the alerts it matches. Poller and webhook search different
texts (all labels and annotations; name, target and annotations), hence two
constants. A keyword is assumed to lie within one of the joined values: in
which order Go joins the values of a map is random, so that whether a keyword that spans
two of them matches is too. The webhook remembers nothing, so a notification that
Alertmanager resends starts another analysis; what those do to each other is the
pipeline's subject. `handled` and `inDoubt` are history variables.

The chart names no strategy for its Deployment, so that a new version is rolled out: the
old process answers `/api/ignores` until it is stopped. An edit that it answers after the new
one has read the table reaches the table and its own cache, and the new process lacks it until the
next edit. `boot` says whether a process is booting and whether an edit has been made since it read. In
the model requests and polls go from the old process to the new one at one moment, `TakeOver`,
when the old one is gone. An edit made before leaves the new process in doubt, whichever of the two answered it.
What both do in the short time in which both serve, two pollers with a cache each, is not modelled
(section 5).

### DiagnosisEngine

| Action | Code (`diagnosis/engine.go`) |
|---|---|
| `Single` | `analyzeSingle`, an engine without a tool runner |
| `RunTool`, `Conclude`, `Correct` | one round of `analyzeWithTools`: a tool request, an answer, anything else |
| `ForceAnswer` | the answer demanded after the last round |
| `Verify`, `VerifyFails` | `verify` |
| `CallFails` | an error of `ChatMessages` before there is a draft |

A reply is known by what `parseToolRequest` and `parseJSONResponse` tell apart:
whether it holds a JSON object, names a tool, has a `root_cause` and which, and
whether its actions decode. The model of an LLM may give any of them at any time. A
step is one call and what the engine does with its answer; an engine shares no
state with other analyses, so that nothing comes between. `ToolRunner.Run`
returns a text in every case, also for errors and unknown tools.

### EvidenceTriage and IncidentCase

| Action | Code |
|---|---|
| `NewEvidenceBundle` (initial state) | `models/evidence.go:60-115` |
| `QueryMetrics`, `QueryLogs` | `collector/enrich.go:41-75` |
| `ReadCluster` | `collector/kube.go:47-67`, with `events`, `resourceStatus`, `nodeHealth` |
| `Classify` | `models/rules.go:12-66` |
| `Probe` | `collector/probe.go:12-190`, `registry.go:43-79` |
| `MatchRunbooks` | `runbook/runbook.go:58-99` |
| `RecordEvidence`, `RecordOutcome` | the second and the last save of `processBundle` |
| `Investigate` | a step of `DiagnosisEngine` |
| `Reanalyze` | `runReanalyze`: `EvidenceBundleFromView`, a diagnosis, `NewIncidentView` |

A text is known by the rule categories whose keywords it contains; a list that is only
shown is the set of its members. Each read succeeds or fails; a source that is not configured is
one whose reads always fail, except for the Kubernetes API, whose absence the probes can
tell. The cluster does not change while its evidence is collected. `PageLimit` is the
limit of 200 events that the code asks the API for. The API lists by name, which says nothing of the time, so
that any events may be on the page (`Pages`). Left out: severity, source and related
alerts, and the wording.

Three things the code does that a reader may not expect, kept in the model as they are.
The image probe takes the branch of a match when no node could be listed
(`probe.go:157`), where `docs/design/specific-diagnosis-probes.md:19-20` describes a
comparison; it quotes the empty list then. `BlamesGrounded` claims nothing of a match. A match
also needs only one fitting node of a mixed cluster. The label `workload` names a workload but no kind, so
that the status may be that of another object which has that name and the kind of the next label:
`StatusOfNamed` excepts it.

### ReanalysisService and IncidentScreen

The service is what a page can rely on: the row by what the page tells apart
(absent, pending, failed, diagnosed) and the status of the latest re-analysis. Rows may be written
at any time; a job is started on a row that is there and has none running, says "done"
only if it has stored its diagnosis, ends by itself, and is forgotten by a restart.

| Action | Code |
|---|---|
| `Visit`, `Leave`, `Jump` | the route: to a page, back to the list, by the history from one incident to another (the route has no key, so the page stays) |
| `LoadAgain`, `Show` | `useAsync.ts:13-36`, and the copy of `data` to `inc`, `IncidentDetail.tsx:42-43` |
| `Resume` | `IncidentDetail.tsx:52-64` |
| `PollTick`, `Follow`, `FollowDone`, `FollowEnd`, `Reload` | `IncidentDetail.tsx:67-91` |
| `Click`, `Started`, `Refused` | `onReanalyze`, `IncidentDetail.tsx:93-103` |
| `ServeLoad`, `ServeStatus`, `ServeStart`, `ServeAccepted` | `incidents_api.go:105-179` |
| `Fail` | a call fails on its way or in the process |
| `Restart`, `EndJob`, `Elsewhere` | the service: forget, end, a write or a start that is not this page's |

`calls` holds the requests whose answer the page will still act on. When an effect is
renewed, its calls leave the set (the `alive` flags of the code); a start and the reload
after "done" belong to no effect and stay. Both answers to a start read the state of the job after
it was started, hence two steps. The code reads it from the job it has just started, the model from the latest job
of the incident, which is the same job unless it has ended and another was started before the answer was
written. `restarted` and `jumped` are history.

### SettingsBoot

| Action | Code |
|---|---|
| `LoadSettings` | `main.go:36-43`: `GetSettings` (`store/store.go:61-77`), `applyDBSettings` |
| `LoadSecret` | `main.go:45-52`, key and token in turn |
| `Serve` | the process listens and takes over from the one before |
| `Die`, `BootDies` | the cluster (external): the serving process dies; a boot ends in `log.Fatalf` or dies |
| `Open` | `fetchSettings`, `frontend/src/api/client.ts:99-107` |
| `Save` | the click: `onSave`, `pages/Settings.tsx:104-112`, or `onRestartPod`, `146-162` |
| `PutSettings` | `PUT /api/settings`, `store/store.go:79-94` |
| `PutSecret` | `applySecret` for one secret of `PUT /api/secrets` |
| `Refused` | a request while no process serves |
| `AskRestart` | `POST /api/ai/restart`, `collector/ai_restart_api.go` |

`HealthKey` is the key that `handleAIHealth` tries (`ai_status_api.go:46-66`).

The chart names no strategy for its Deployment, so that a restart is a rolling
update: the old process serves while the new one boots, and `Serve` hands over.
Requests under way are then cut off or, when they have not arrived, answered by
the next process (`CutOff`).

Abstractions: settings are a few fields and their texts, of which blank is one; the
boolean fields, which override the environment always, are fields that are never
blank. An operator edits one field per save; edits made while a save is under way are
left out. Secrets typed into the page are never blank; a patch that deletes one
comes from other clients of the API, and stands for them. The fields are those that
`applyDBSettings` copies (`main.go:104-145`); the form has a few more, which the process has no use
for. A database is configured.
`edited`, `foreign`, `misled` and `failed` are history.

## 3. Runs

| Run | Instance | Shows |
|---|---|---|
| `gate` | 5 goroutines, 2 places | the bound, accounting of places, order, service |
| `pipeline` | 1 incident, 2 alerts, 2 re-analyses, 1 place, 1 restart, 1 lost write | nobody stuck at the gate, single flight, rows and outcomes on the evidence they claim, reports and notifications that are true, no diagnosis lost to a re-analysis |
| `pipeline_liveness` | 2 incidents, 1 alert each, 1 re-analysis, setting 0, no notifier, 1 restart, 1 lost write | goroutines end; pending ends without faults; the pipeline is a re-analysis service, its liveness included |
| `evidence_lost` (violation) | as `pipeline`, without faults | a re-analysis requested during enrichment restores the bare alert over the collected evidence |
| `pending_forever` (violation) | as `pipeline_liveness`, no lost write | a restart leaves rows pending for ever |
| `intake` | 1 alert, 1 keyword that matches it, 2 requests, 2 firings, 1 silence, 1 push, 1 failed poll, 1 failed query, 1 crash or roll | one analysis while an alert is listed, nothing marked as seen without it, the cache is the table after an edit that had the field to itself, ignored alerts stay out |
| `stale_rules` (violation) | as `intake`, 1 firing, without faults and restarts | of two overlapping edits the older list stays in force |
| `refired` (violation) | 1 alert, 2 firings, nobody edits, nothing fails | an alert that resolves and fires again between two polls gets no second analysis |
| `case` | 10 alerts with their clusters, 3 images, 2 architectures, 3 runbooks, pages of 3 events of which 2 are kept, 3 rounds (`NewEngine`), 2 root causes, any read failing, any reply at any time | evidence of the right target, nothing blamed that is not so, the newest events and the best runbooks, bounded calls, an outcome, no root cause and no evidence lost, the abstract analysis |
| `screen` | 2 incidents, one failed and one diagnosed, 2 clicks in flight, 1 disturbance | no false "restarted", the row comes to be shown, the spinner ends |
| `settings` | 2 pages, 2 fields, 1 value, 2 saves, 1 restart, 1 failed call | saved is stored, saves change only what was edited, the next process runs on it |
| `page_overwrites` (violation) | as `settings`, no failed call | a page opened during a restart saves defaults over the stored settings |

Why these bounds are enough. All races on a row are between goroutines of the
same incident; two alerts and two requests give every pair (alert/alert,
alert/request, request/request) and a third party to come between. One place
makes each of them wait for each other; the capacity beyond one is what `gate`
checks, and the refinement theorem carries it over. One restart leaves
goroutines of both lives; a second adds only another set of lost ones. In
`pipeline` alerts are interchangeable, as are requests, so both sets are
symmetric; the liveness runs use no symmetry. `MaxRestarts` and `MaxDbFaults`
are the only bounds on counters of the pipeline, and appear in the guards of `Restart` and
`SaveFails`. Deadlock is not checked in the pipeline: when all alerts are
processed there is nothing left to do.

In the intake, alerts meet only in the loop of one poll, where each is handled by itself, so that
one alert shows what can happen to any; alerts that are dropped by severity, ignored by the
configuration or matched in one of the two texts only are left to the theorems. Two firings, with a
silence, take it out of the listing and back, and let it resolve and fire again unnoticed. Two requests
are needed for the refresh to race, and a third adds an edit between two that `inDoubt` already
covers; they are interchangeable, hence symmetric. One restart is a crash or a roll. The bounds
`Max...` are the guards of the actions that count. When alerts, pushes and faults are
used up the poller still polls; deadlock is not checked because `FinishPoll` and `Fetch`
always alternate.

In `case` the ten alerts are chosen so that every probe, every verdict and every
lookup by label occurs: a failing pull seen from its pod, from its deployment, without the
Kubernetes API and on mixed nodes; a crash loop and the same called out of memory; a
pod nobody can place; labels of several objects, with and without `workload`; an
alert on the nodes. Alerts do not interact, so more of them would add cases and no
behaviour. Three events about one pod exceed the two that are kept, four in the namespace the
page of three. The engine's state is
finite without bounds: three rounds are the code's own constant. Nothing
is left to do after a row is settled but further re-analyses, which repeat its state.

In `screen` one load, one status at the opening, one poll and one reload are under way
at a time, and two starts. A tick before the last poll is answered
is left out, as is a second load, which the code does not send. The one disturbance is any of: a
failed call, a restart, a write or start from elsewhere, a jump. The second incident is
diagnosed so that the answers of both can be told apart. A click needs fewer than `MaxCalls`
calls under way. These bounds stand for what the time limit allows; the theorems have
no bound on clicks and disturbances. Deadlock is checked.

Two pages and two saves make either page's save come before, after or amid the
other's, or one page try again what failed. Of the two fields the
environment sets one and the defaults the other, which are the cases in which
stored, default and environment values compete; with `Blank` each has two
values. Secrets are typed both or not at all, which a set and an unnamed secret need; that
some are deleted only the theorems cover. One
restart is a roll, a death while serving or a death while booting; the failed
call can be any read or write, applied or not. The pages are
interchangeable, hence symmetric. Deadlock is not checked: with the bounds used up
only pages are opened again.

### Fairness

`GateFairness` and `Fairness` are weak fairness of each goroutine's own next
step. The Go scheduler runs every runnable goroutine, and every call between two
steps returns: the LLM client has a timeout of five minutes
(`provider/ai_gateway.go:30`) and the engine makes a bounded number of calls,
Kubernetes, Prometheus, Loki and notifier clients time out after 8 to 10 seconds.
Arrival of alerts and requests, acknowledgement and restart have no fairness.
The database calls have no timeout of their own; the assumption is that
Postgres answers or the connection breaks. A blocked sender needs no fairness of its own: the
receive of another goroutine moves it.

`AlertIntake!Fairness` is weak fairness of the poller's goroutine: its query has a
timeout of ten seconds, its ticker goes on, and `MaxPollFailures` says that Alertmanager
answers in the end. `FiringsAnalysed`, which it is for, gives an alert up when it goes away,
is silenced or comes to be ignored; requests and Alertmanager have no fairness.
`DiagnosisEngine!FairSpec` is weak fairness of its next call, which returns or
runs into the client's timeout of five minutes; `CaseFairSpec` adds the reads of the
enricher, each with a timeout of 8 to 10 seconds, and asks for no re-analysis.
`ScreenFairSpec` is weak fairness of the page's two timers while they are set, of the
answer to each kind of call and its handling (a call that gets none fails in the
browser), and of the end of a re-analysis, which `ServesPages` shows for the pipeline. Clicks,
jumps, restarts and failures have none.
`SettingsBoot` has no fairness and no liveness property: nothing retries there.

### Disagreements with the code's own text

* `evidence_lost`: `incidents_api.go:70-71` says re-analysis uses the evidence already
  collected. The handler does not look at the state of the row. A request on a
  row in `IncidentDetected` (the frontend disables the button, but the screen
  may be up to five seconds old and the API does not refuse) copies the bare
  alert and later writes it back over the collected evidence. `OutcomeOnCollectedEvidence`
  is the positive half: nothing but such a request puts an outcome on the bare alert.
* `pending_forever`: `IncidentDetail.tsx:224` promises that the diagnosis
  appears by itself once complete. After a restart nobody works on the row, and
  line 209 keeps the re-analysis button disabled. The remark in
  `reanalyze_job.go:40-41` (a flag in the database would look stuck for ever after a
  restart) describes the very problem the incident's own state has.
* `stale_rules`: `webhook.go:32` says that the cache is refreshed when the API
  changes the rules. `RefreshIgnoreRules` reads the table and installs what it
  read in two steps; of two edits at the same time the one that read first may install
  last. Both are answered with 200, and the cache lacks the later edit until
  the next edit or restart. Three things lead to that: overlapping edits; a failing
  query, which `handleIgnores` answers with 200 when it was the refresh that failed; and an edit which the old process of a roll
  answers after the new one has read the rules (`main.go:83`). Without these, and with a roll taken
  to last until the old process is gone, the cache is the table: theorem `SerialEditsTakeForce`.
* `refired`: `alertmanager_poller.go:82` and `docs/implementation-status.md:118` say that an alert
  which resolves is no longer tracked, so that it is processed anew when it fires again. The poller
  sees fingerprints, which are the same for both firings, and forgets only what an answer
  lacks. An alert that resolves and fires again between two polls (30 seconds) is skipped
  for as long as it goes on firing. `OneStartPerPresence` and `SeenMeansStarted` are what does
  hold: one analysis per presence in the answers, and nothing marked that was not started.
* `page_overwrites`: `frontend/src/pages/Settings.tsx:169` shows an error instead of the
  form when the settings cannot be loaded. It never does, since `fetchSettings`
  (`client.ts:104`) turns every failure into `mockSettings`. The page shows these as
  if they were stored, and the next save puts the whole form over the row.
  `GetSettings` does the same to a failing query: it looks at the bytes, which are
  empty then, before it looks at the error (`store/store.go:65`), so that
  the warning "using env config" of `main.go:39` cannot come from a failing
  query and the process boots on the defaults over the environment. The model's
  `LoadSettings` and `Open` have that outcome; `RestartedRunsOnSaved` and
  `EditsOnly` except it.

Seen while modelling, without a run of their own:

* The image probe says "match, no problem of architectures" when it has read no node at all: without the
  Kubernetes API, or when listing the nodes fails (`probe.go:157-164`).
  `docs/design/specific-diagnosis-probes.md:19-20` has that conclusion for architectures which
  intersect. The model reaches it (`Judge` with no node architectures), and no property claims that a match is
  grounded: `BlamesGrounded` and `BlamesHold` are about the findings that blame the image.
* A re-analysis does not ask what the analysis asked: kind, annotations and source are not in the
  row, though the engine puts the whole bundle into the prompt (`views.go:107-108`, `engine.go:80`).
* The metrics of kube-state-metrics carry a label `job` of their own, which makes the kind
  "Job" for an alert on a pod, whose status is then not read (`evidence.go:89`).
* `kube.go:273` says that the recent events are returned, newest first. The API is asked for 200,
  which it lists by name, and only what it gives is sorted by time (`kube.go:276`): in a
  namespace with more events the newest may be missing. As long as a page holds
  them all the newest are kept, and `BestKept` says no more.
* The tools for events and logs answer with an empty text when the read fails, which
  the model cannot tell from "nothing found" (`kube.go:281`, `k8sget.go:141`).
* After a jump of the browser history the answer to a start sets the spinner of another
  incident, and the message about a restart may then be false (`jumped` in
  `LostMeansRestart`). The answer to a start may already say "failed"; the spinner then ends
  and no message is shown, but the row is.
* A save of the settings page leaves the inputs enabled: what is typed during its second request
  ends under the mark "saved" (`Settings.tsx:113-124`).
* The list page hides what its operator has acknowledged until the tab changes, also when
  another operator takes it back (`Incidents.tsx:46-60`).

## 4. Theorems

All for every value of the constants: sets of incidents, alerts, rules and requests,
the capacity setting, the rounds of the engine, and the number of restarts and
failures. They assume `GateAssumption` (the setting is an integer) and `PipelineAssumption` (alerts
and requests are different things, `IncidentOf` maps alerts to incidents, `None` is no value, the
bounds are natural numbers), `IntakeAssumption` (which alerts are dropped or matched, and that
what matches the bundle matches the alert it was made from),
`EngineAssumption` (the rounds are a natural number; `Blank` and the marks for an absent and an
empty `root_cause` are no root causes),
`TriageAssumption` (the types of alerts, clusters and runbooks; a cluster has finitely many
events, each with its own place in the order of time, which is the one that the
sort gives to events of the same time; pages and what is kept of them are not empty),
`ScreenAssumption` (`None` is no incident, the bounds are natural numbers) and
`SettingsAssumption` (`Blank`, `Unchanged` and `Unsaved` are told apart from values
and settings; environment and defaults are settings).

* **Gate.** `GateInv` joins the bound with "nobody waits while a place is free"
  and "nobody waits twice or while running". The bound alone is not inductive: a
  release hands its place to the head of the queue, and that keeps the number
  of holders only if the head was not already one. `GatePlaces` and `GateOrder` follow,
  and `WaitersHaveHolders`: capacity is never zero, so that with no holder a
  place is free and nobody waits.
* **Types.** `PipelineTypes`: `TypeOK` needs `ViewRead`, that a request past its first step
  has read a stored row, since that is what it writes back.
* **Single flight.** `SingleFlight`: `JobsInv` says that the map's job of an incident belongs to a
  request for that incident which has left the handler, that a live re-analysis
  is the map's job and reads `running`, and that nothing else does.
* **Gate in the pipeline.** `PipelineUsesGate` is a step simulation;
  `PipelineCapacity` gets the gate's invariant from it without a new induction, and
  `PlacesAreHeld` uses it: the goroutine that releases is not also waiting. With
  it `NobodyIsStuck` says that whoever is blocked is queued behind goroutines which are alive and
  inside an analysis: the safety half of `Served` for the pipeline. `PipelineInOrder` carries the
  order over in the same way, from `PipelineRunsGate`: every behaviour of the pipeline is one of the gate.
* **Rows.** `RowsConsistent`: rows and the copies requests carry are consistent
  together (`RowsInv`).
* **Writers.** `PendingIsWorkedOn`, `DoneIsStored`, `NotifiedIsStored`: `PendingWritten`
  strengthens "the writer of a pending row is alive" to "it is before its last
  save". `FailedIsUntouched` needs `WroteNothing`, that a request before its save is no
  row's last writer; `ReportsAreTrue` joins it with `DoneIsStored` and `NotifiedIsStored`.
  `OutcomeIsOnEvidence` needs `BareTraced`: an outcome on the bare
  alert can be copied by another request and written back, so the copies that requests carry
  must be traced to a request that came too early, too. `StageInv` says that a row which shows a stage of an alert was written
  by a goroutine past that stage, so that no later write can look like the
  copy a re-analysis started from.
* **Regressions.** `RegressionsNeedAlerts`: only alerts take a diagnosis away.
  `OperatorAcknowledges`: only the operator changes an acknowledgement.
* **Service.** `PipelineServes` is the safety half of `ServesPages`: every step of the pipeline is a
  step of `ReanalysisService` or a stutter. It needs `JobsInv`, to know that the job which a
  goroutine ends is the one its incident shows, and `ReadRowStays`: a row once read is
  never gone.
* **Intake.** `OneStart` rests on `PollInv`: what the poller has started and not missed
  since is in `seen` and, within a poll, in the answer, so that the clean-up cannot
  drop it. `SettledCache` rests on `RuleInv`: without doubt, the cache is the table or
  exactly one request is still on its way, and what it has read is the table.
  A process that is booting has read what is still the table, or is known to be outdated.
  `IgnoredStayOut` follows from it for polled and pushed alerts. `SerialEditsTakeForce` is about
  behaviours in which edits never overlap, no call fails and none is made while a process takes
  over: in them there is never doubt (`NoDoubt`), through polls, crashes and rolls. `SeenIsStarted`: what is in `seen` was started since a
  poll last missed it; within a poll this is said of what the answer lists, since the rest is
  about to be dropped from `seen`.
* **Engine.** `EngineTypes` bounds the calls by `CallsInv`, which ties them to the round and the
  stage. `EngineKeepsCauses` is about the result: whoever replies with a root cause is never
  taken for a tool request or a stray reply; `EngineIsAnalysis` is the step simulation of `BoundedAnalysis`.
* **Case.** `CaseInv` joins the types with what each step may know: while the probe
  runs the bundle's events and status are those of the target, so that the findings drawn from
  them are (`TriageInv`), and once a row is there it is the view of the bundle
  (`RowInv`), which restoring and viewing again gives back. `BlamesHold`, `TargetKept` and
  `EvidenceKept` follow; the theorems on the engine are used for its steps, and
  `CaseIsAnalysis` adds that the investigation of a case is the abstract analysis the pipeline stands on.
* **Cuts.** `BestIsKept` speaks of sorting without induction over the sorted list. `Ranking`
  takes a strict order as the set of what comes before each member; a member is kept if that set
  has fewer than n elements, its rank. Ranks grow along the order and so differ, which
  maps what is kept into `0..(n - 1)`: there are at most n. Before a member that is left out there
  is a first one left out (strict subsets of a finite set are well-founded); what is before
  that one is exactly what is kept, n members. Events and runbooks are two instances.
* **Screen.** `LostIsRestart`: a page that has seen neither a restart nor a jump has only calls about
  its own incident, and whoever was told of a re-analysis, or asks how it is going,
  has it on record (`OnRecord`); so no poll is answered "idle". The service enters
  only by `Kept`: no step but a restart takes a job off the record. `ScreenUsesService`: whatever
  the page does, the service behind it makes a step of its own or none, so that
  `PipelineServes` puts the pipeline behind the page.
* **Settings.** `SettingsTypes` needs `NamedInv`: a page that is about to write a
  secret has one in its patch, or the table would hold the mark for "unchanged".
  `SavedStays` rests on `SaveInv`, which extends it to pages still saving: the
  items already written are in the tables. `SavesOnlyEdits` rests on `FormsInv`:
  the form of a well-loaded page differs from the row only where it was edited.
  `RestartedOnSaved` rests on `BootInv`: for a page that waits for its restart,
  what the boot has read so far is what the page wrote, and when no boot is
  under way the active configuration is; it needs `SaveInv` for each read.

Only model-checked: the liveness properties (`Served`, `EveryGoroutineEnds`,
`PendingEndsWithoutFaults`, `CaseSettles`, `ResultShown`,
`SpinnerResolved`, and the fairness of `IsAnalysis` and `ServesPages`), since
liveness under fairness is out of the prover's reach.

## 5. Plan

1. `AnalysisGate`, `IncidentPipeline`, their runs and proofs (done).
2. `AlertIntake`, its runs and proofs (done).
3. `BoundedAnalysis`, `DiagnosisEngine`, their proofs (done).
4. `SettingsBoot`, its runs and proofs (done).
5. `ReanalysisService`, `IncidentScreen`, its run and proofs, the refinement by the pipeline (done).
6. `EvidenceTriage`, `IncidentCase`, its run and proofs (done).
7. The time of a roll in which the old and the new process are both at work: two maps of
   jobs, two gates and two pollers on one table. The boot beside the old process is modelled
   for the rules (`AlertIntake`) and the settings (`SettingsBoot`).
8. Edits made on the settings page while it saves; the list page with two operators.

Not modelled: the interactive tools of the engine beyond that each answers with a text
(`toolrunner.go`, `k8sget.go`: reads without state), the search for services
(`discover_api.go`) and the guess of a provider from its URL (read-only answers for the settings page),
parsing of runbook files, formatting of messages and prompts, the dashboard (a view
that is loaded again), static pages, packaging.
