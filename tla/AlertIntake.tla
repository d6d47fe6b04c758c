----------------------------- MODULE AlertIntake -----------------------------
(***************************************************************************)
(* How alerts get in: the poller of the Alertmanager API and the webhook   *)
(* (internal/collector/alertmanager_poller.go, webhook.go), and the rules  *)
(* that keep alerts out: the ignore_rules table, the requests that edit it *)
(* and the cache that poller and webhook look at (ignore_api.go,           *)
(* store/ignore.go).                                                       *)
(*                                                                         *)
(* Where the code runs `go s.processBundle(bundle)` the model counts an    *)
(* analysis; what becomes of it is the subject of IncidentPipeline, whose  *)
(* action Accept is this step.                                             *)
(*                                                                         *)
(* Alertmanager is external: an alert comes and goes, and the query asks   *)
(* for neither silenced nor inhibited alerts.  A keyword is known by the   *)
(* alerts it matches.  The poller matches it with all labels and           *)
(* annotations, the webhook with the name, the target and the annotations. *)
(***************************************************************************)
EXTENDS Integers, FiniteSets

CONSTANTS
    Alerts,          \* alerts, by fingerprint
    Noise,           \* those the poller drops: Watchdog, or neither warning nor critical
    Baseline,        \* those whose name is on the ignore list of the configuration
    Keywords,        \* the keywords of ignore rules
    PolledMatch,     \* per keyword, the alerts whose labels or annotations contain it
    PushedMatch,     \* per keyword, the alerts whose bundle contains it
    Requests,        \* the goroutines that serve /api/ignores
    MaxFirings,      \* bound: firings of one alert
    MaxSilences,     \* bound: alerts silenced
    MaxPollFailures, \* bound: polls that fail
    MaxPushes,       \* bound: webhook notifications
    MaxDbFaults,     \* bound: failing database calls
    MaxRestarts      \* bound: processes started after the first

ASSUME IntakeAssumption ==
    /\ Noise \subseteq Alerts
    /\ Baseline \subseteq Alerts
    /\ PolledMatch \in [Keywords -> SUBSET Alerts]
    /\ PushedMatch \in [Keywords -> SUBSET Alerts]
    \* The bundle keeps a part of the labels.
    /\ \A k \in Keywords : PushedMatch[k] \subseteq PolledMatch[k]
    /\ {MaxFirings, MaxSilences, MaxPollFailures, MaxPushes, MaxDbFaults, MaxRestarts} \subseteq Nat

VARIABLES
    status,     \* Alertmanager: the state of each alert
    firing,     \* Alertmanager: how often each alert has fired
    phase,      \* the poller: about to fetch, or scanning what it fetched
    listed,     \* the poller: the alerts of the last answer
    todo,       \* the poller: those not looked at yet
    seen,       \* the poller: fingerprints already processed
    table,      \* the ignore_rules table
    cache,      \* the server's ignoreRules
    editing,    \* per request: idle, or how far it has got
    loaded,     \* per request: the rules its refresh has read
    boot,       \* none, or a process is starting beside the one that serves: the rules it has
                \* read are current, or (history) outdated by an edit or for want of an answer
    bootRules,  \* the rules it has read
    polled,     \* per alert, analyses the poller has started
    pushed,     \* per alert, analyses the webhook has started
    handled,    \* history: the firing the poller started since it last missed the alert, or 0
    inDoubt,    \* history: no edit with the field to itself since one overlapped, failed, or missed a boot
    silences, pollFailures, dbFaults, restarts  \* what the bounds count

worldVars == <<status, firing, silences>>
pollVars == <<phase, listed, todo, seen, polled, handled, pollFailures>>
ruleVars == <<table, cache, editing, loaded, boot, bootRules, inDoubt, dbFaults>>
vars == <<worldVars, pollVars, ruleVars, pushed, restarts>>

Cells == {"none", "on", "off"}
Rules == [Keywords -> Cells]
NoRules == [k \in Keywords |-> "none"]

NothingListed == [a \in {} |-> [status |-> "active", firing |-> 0]]
Listings == UNION {[A -> [status : {"unprocessed", "active"}, firing : 1..MaxFirings]] : A \in SUBSET Alerts}

\* shouldIgnore, for the haystack that Match stands for.
ShouldIgnore(a, rules, Match) ==
    \/ a \in Baseline
    \/ \E k \in Keywords : rules[k] = "on" /\ a \in Match[k]

InFlight == {r \in Requests : editing[r] # "idle"}

Init ==
    /\ status = [a \in Alerts |-> "resolved"]
    /\ firing = [a \in Alerts |-> 0]
    /\ phase = "fetch"
    /\ listed = NothingListed
    /\ todo = {}
    /\ seen = {}
    /\ table = NoRules
    /\ cache = NoRules
    /\ editing = [r \in Requests |-> "idle"]
    /\ loaded = [r \in Requests |-> NoRules]
    /\ boot = "none" /\ bootRules = NoRules
    /\ polled = [a \in Alerts |-> 0]
    /\ pushed = [a \in Alerts |-> 0]
    /\ handled = [a \in Alerts |-> 0]
    /\ inDoubt = FALSE
    /\ silences = 0 /\ pollFailures = 0 /\ dbFaults = 0 /\ restarts = 0

-----------------------------------------------------------------------------
(* Alertmanager *)

Become(a, s) == status' = [status EXCEPT ![a] = s]

World(a) ==
    /\ \/ /\ status[a] = "resolved" /\ firing[a] < MaxFirings
          /\ Become(a, "unprocessed")
          /\ firing' = [firing EXCEPT ![a] = @ + 1]
          /\ UNCHANGED silences
       \/ /\ status[a] = "unprocessed"
          /\ Become(a, "active")
          /\ UNCHANGED <<firing, silences>>
       \/ /\ status[a] = "active" /\ silences < MaxSilences
          /\ Become(a, "suppressed")
          /\ silences' = silences + 1
          /\ UNCHANGED firing
       \/ /\ status[a] = "suppressed"
          /\ Become(a, "active")
          /\ UNCHANGED <<firing, silences>>
       \/ /\ status[a] # "resolved"
          /\ Become(a, "resolved")
          /\ UNCHANGED <<firing, silences>>
    /\ UNCHANGED <<pollVars, ruleVars, pushed, restarts>>

-----------------------------------------------------------------------------
(* The poller *)

\* (mutant) The query does not exclude silenced alerts.
FetchSilenced ==
    /\ phase = "fetch"
    /\ phase' = "scan"
    /\ listed' = [a \in {b \in Alerts : status[b] # "resolved"} |->
                      [status |-> status[a], firing |-> firing[a]]]
    /\ todo' = DOMAIN listed'
    /\ handled' = [a \in Alerts |-> IF a \in DOMAIN listed' THEN handled[a] ELSE 0]
    /\ UNCHANGED <<seen, polled, pollFailures, worldVars, ruleVars, pushed, restarts>>

\* fetchActiveAlerts succeeds with what is neither silenced nor resolved.
Fetch ==
    /\ phase = "fetch"
    /\ phase' = "scan"
    /\ listed' = [a \in {b \in Alerts : status[b] \in {"unprocessed", "active"}} |->
                      [status |-> status[a], firing |-> firing[a]]]
    /\ todo' = DOMAIN listed'
    /\ handled' = [a \in Alerts |-> IF a \in DOMAIN listed' THEN handled[a] ELSE 0]
    /\ UNCHANGED <<seen, polled, pollFailures, worldVars, ruleVars, pushed, restarts>>

\* (mutant) A failed poll is taken for an empty answer.
ForgetOnFailure ==
    /\ phase = "fetch"
    /\ pollFailures < MaxPollFailures
    /\ pollFailures' = pollFailures + 1
    /\ seen' = {}
    /\ UNCHANGED <<phase, listed, todo, polled, handled, worldVars, ruleVars, pushed, restarts>>

\* It fails: wait for the next tick and forget nothing.
FetchFails ==
    /\ phase = "fetch"
    /\ pollFailures < MaxPollFailures
    /\ pollFailures' = pollFailures + 1
    /\ UNCHANGED <<phase, listed, todo, seen, polled, handled, worldVars, ruleVars, pushed, restarts>>

Skipped(a) ==
    \/ listed[a].status # "active"
    \/ a \in Noise
    \/ ShouldIgnore(a, cache, PolledMatch)
    \/ a \in seen

\* (mutant) An alert is marked as seen before the ignore rules are asked.
ScanMarkingFirst(a) ==
    /\ phase = "scan"
    /\ a \in todo
    /\ todo' = todo \ {a}
    /\ seen' = IF listed[a].status = "active" THEN seen \cup {a} ELSE seen
    /\ IF Skipped(a)
       THEN UNCHANGED <<polled, handled>>
       ELSE /\ polled' = [polled EXCEPT ![a] = @ + 1]
            /\ handled' = [handled EXCEPT ![a] = listed[a].firing]
    /\ UNCHANGED <<phase, listed, pollFailures, worldVars, ruleVars, pushed, restarts>>

\* The loop body for one alert of the answer; the answer has no order to rely on.
Scan(a) ==
    /\ phase = "scan"
    /\ a \in todo
    /\ todo' = todo \ {a}
    /\ IF Skipped(a)
       THEN UNCHANGED <<seen, polled, handled>>
       ELSE /\ seen' = seen \cup {a}
            /\ polled' = [polled EXCEPT ![a] = @ + 1]
            /\ handled' = [handled EXCEPT ![a] = listed[a].firing]
    /\ UNCHANGED <<phase, listed, pollFailures, worldVars, ruleVars, pushed, restarts>>

\* Fingerprints that the answer did not contain are forgotten.
FinishPoll ==
    /\ phase = "scan"
    /\ todo = {}
    /\ phase' = "fetch"
    /\ seen' = seen \cap DOMAIN listed
    /\ listed' = NothingListed
    /\ UNCHANGED <<todo, polled, handled, pollFailures, worldVars, ruleVars, pushed, restarts>>

PollStep == Fetch \/ FetchFails \/ (\E a \in Alerts : Scan(a)) \/ FinishPoll

-----------------------------------------------------------------------------
(* The webhook *)

\* (mutant) The webhook asks the list of the configuration only.
ReceiveOnBaseline(a) ==
    /\ firing[a] > 0
    /\ pushed[a] < MaxPushes
    /\ a \notin Baseline
    /\ pushed' = [pushed EXCEPT ![a] = @ + 1]
    /\ UNCHANGED <<worldVars, pollVars, ruleVars, restarts>>

\* A notification arrives, firing or resolved, new or sent again; the handler
\* looks at the first alert of the group only.
Receive(a) ==
    /\ firing[a] > 0
    /\ pushed[a] < MaxPushes
    /\ ~ShouldIgnore(a, cache, PushedMatch)
    /\ pushed' = [pushed EXCEPT ![a] = @ + 1]
    /\ UNCHANGED <<worldVars, pollVars, ruleVars, restarts>>

-----------------------------------------------------------------------------
(* The requests that edit the rules *)

\* AddIgnoreRule, SetIgnoreRuleEnabled, DeleteIgnoreRule on one row.
Edits(cell) ==
    {"on", "none"} \cup (IF cell = "none" THEN {} ELSE {"off"})

\* A process that is starting has read the rules too early for this edit.
OutdateBoot == boot' = IF boot = "none" THEN "none" ELSE "outdated"

\* (mutant) The handler answers without a refresh.
EditUnrefreshed(r, k) ==
    /\ editing[r] = "idle"
    /\ \E cell \in Edits(table[k]) : table' = [table EXCEPT ![k] = cell]
    /\ inDoubt' = (InFlight # {})
    /\ OutdateBoot
    /\ UNCHANGED <<editing, cache, loaded, bootRules, dbFaults, worldVars, pollVars, pushed, restarts>>

\* The statement succeeds.  An edit that has the field to itself settles what
\* earlier ones may have left behind.
Edit(r, k) ==
    /\ editing[r] = "idle"
    /\ \E cell \in Edits(table[k]) : table' = [table EXCEPT ![k] = cell]
    /\ editing' = [editing EXCEPT ![r] = "edited"]
    /\ inDoubt' = (InFlight # {})
    /\ OutdateBoot
    /\ UNCHANGED <<cache, loaded, bootRules, dbFaults, worldVars, pollVars, pushed, restarts>>

\* The statement fails, applied or not: the answer is 500 and nothing is refreshed.
EditFails(r, k) ==
    /\ editing[r] = "idle"
    /\ dbFaults < MaxDbFaults
    /\ dbFaults' = dbFaults + 1
    /\ \E cell \in Edits(table[k]) : table' = [table EXCEPT ![k] = cell]
    /\ inDoubt' = TRUE
    /\ OutdateBoot
    /\ UNCHANGED <<editing, cache, loaded, bootRules, worldVars, pollVars, pushed, restarts>>

\* RefreshIgnoreRules reads the table ...
ListRules(r) ==
    /\ editing[r] = "edited"
    /\ loaded' = [loaded EXCEPT ![r] = table]
    /\ editing' = [editing EXCEPT ![r] = "listed"]
    /\ UNCHANGED <<table, cache, boot, bootRules, inDoubt, dbFaults, worldVars, pollVars, pushed, restarts>>

\* ... or fails to, which is logged, and the answer is 200 all the same.
ListFails(r) ==
    /\ editing[r] = "edited"
    /\ dbFaults < MaxDbFaults
    /\ dbFaults' = dbFaults + 1
    /\ editing' = [editing EXCEPT ![r] = "idle"]
    /\ inDoubt' = TRUE
    /\ UNCHANGED <<table, cache, loaded, boot, bootRules, worldVars, pollVars, pushed, restarts>>

\* ... and replaces the cache under the mutex.  The rules it read are not kept.
InstallRules(r) ==
    /\ editing[r] = "listed"
    /\ cache' = loaded[r]
    /\ editing' = [editing EXCEPT ![r] = "idle"]
    /\ loaded' = [loaded EXCEPT ![r] = NoRules]
    /\ UNCHANGED <<table, boot, bootRules, inDoubt, dbFaults, worldVars, pollVars, pushed, restarts>>

RuleStep(r) ==
    \/ \E k \in Keywords : Edit(r, k) \/ EditFails(r, k)
    \/ ListRules(r) \/ ListFails(r) \/ InstallRules(r)

-----------------------------------------------------------------------------
(* A process starts: after the death of the one before, or beside it when    *)
(* the deployment is rolled.  It loads the rules before its server and its   *)
(* poller start (main.go:83-95).                                             *)

\* The memory of a process that starts to serve: its poller has seen nothing,
\* and the requests of the one before are gone.
Reborn ==
    /\ phase' = "fetch" /\ listed' = NothingListed /\ todo' = {} /\ seen' = {}
    /\ handled' = [a \in Alerts |-> 0]
    /\ editing' = [r \in Requests |-> "idle"]
    /\ loaded' = [r \in Requests |-> NoRules]
    /\ UNCHANGED <<table, polled, pollFailures, worldVars, pushed>>

StartProcess == restarts < MaxRestarts /\ restarts' = restarts + 1

\* (mutant) Nobody loads the rules at start-up.
BootWithoutRules ==
    /\ StartProcess
    /\ Reborn
    /\ cache' = NoRules
    /\ inDoubt' = FALSE
    /\ UNCHANGED <<boot, bootRules, dbFaults>>

\* The process dies and starts again.  Nobody edits the rules in between.
Restart ==
    /\ StartProcess
    /\ Reborn
    /\ \/ /\ cache' = table
          /\ inDoubt' = FALSE
          /\ UNCHANGED dbFaults
       \/ /\ dbFaults < MaxDbFaults
          /\ dbFaults' = dbFaults + 1
          /\ cache' = NoRules
          /\ inDoubt' = TRUE
    /\ UNCHANGED <<boot, bootRules>>

\* In a roll the new process reads the rules, or fails to, while the old one
\* still polls and answers requests ...
BootLists ==
    /\ StartProcess
    /\ \/ /\ boot' = "current" /\ bootRules' = table
          /\ UNCHANGED dbFaults
       \/ /\ dbFaults < MaxDbFaults
          /\ dbFaults' = dbFaults + 1
          /\ boot' = "outdated" /\ bootRules' = NoRules
    /\ UNCHANGED <<table, cache, editing, loaded, inDoubt, worldVars, pollVars, pushed>>

\* (mutant) The new process is taken to have the rules of the old one.
TakeOverCache ==
    /\ boot # "none"
    /\ boot' = "none" /\ bootRules' = NoRules
    /\ Reborn
    /\ inDoubt' = (boot = "outdated")
    /\ UNCHANGED <<cache, dbFaults, restarts>>

\* ... and takes over with what it read, however much older that is by now.  The
\* old one is gone from this moment; that both serve for a while is left out.
TakeOver ==
    /\ boot # "none"
    /\ boot' = "none" /\ bootRules' = NoRules
    /\ Reborn
    /\ cache' = bootRules
    /\ inDoubt' = (boot = "outdated")
    /\ UNCHANGED <<dbFaults, restarts>>

Next ==
    \/ PollStep
    \/ \E a \in Alerts : World(a) \/ Receive(a)
    \/ \E r \in Requests : RuleStep(r)
    \/ Restart \/ BootLists \/ TakeOver

Spec == Init /\ [][Next]_vars

\* The poller's goroutine keeps going: its request has a timeout of ten
\* seconds, and MaxPollFailures says that Alertmanager answers in the end.
Fairness == WF_vars(PollStep)

FairSpec == Spec /\ Fairness

-----------------------------------------------------------------------------
(* Properties *)

\* Type correctness; the poller never sees a silenced or resolved alert.
TypeOK ==
    /\ status \in [Alerts -> {"resolved", "unprocessed", "active", "suppressed"}]
    /\ firing \in [Alerts -> 0..MaxFirings]
    /\ phase \in {"fetch", "scan"}
    /\ listed \in Listings
    /\ todo \subseteq DOMAIN listed
    /\ seen \subseteq Alerts
    /\ table \in Rules /\ cache \in Rules
    /\ editing \in [Requests -> {"idle", "edited", "listed"}]
    /\ loaded \in [Requests -> Rules]
    /\ boot \in {"none", "current", "outdated"} /\ bootRules \in Rules
    /\ polled \in [Alerts -> Nat] /\ pushed \in [Alerts -> 0..MaxPushes]
    /\ handled \in [Alerts -> 0..MaxFirings]
    /\ inDoubt \in BOOLEAN
    /\ silences \in 0..MaxSilences /\ pollFailures \in 0..MaxPollFailures
    /\ dbFaults \in 0..MaxDbFaults /\ restarts \in 0..MaxRestarts

\* While Alertmanager goes on listing an alert, the poller starts one analysis
\* for it: not another at the next tick, after a failed poll, or because rules
\* went on and off.  A new one needs an answer without the alert, or a restart.
OneStartPerPresence ==
    [][\A a \in Alerts : polled'[a] > polled[a] => handled[a] = 0]_vars

\* The converse: what is marked as seen has been started.  An alert that was
\* dropped, ignored or not yet active when it was looked at is never marked,
\* so that the next poll looks at it again (alertmanager_poller.go:113-116).
SeenMeansStarted ==
    \A a \in seen : (phase = "scan" => a \in DOMAIN listed) => handled[a] # 0

\* alertmanager_poller.go:82: an alert that resolves is no longer tracked, so that
\* it is processed anew when it fires again.  So each firing that is active, of
\* interest and not ignored should get an analysis of its own, unless it goes
\* away or comes to be ignored first.
FiringsAnalysed ==
    \A a \in Alerts \ Noise :
        LET due == status[a] = "active" /\ ~ShouldIgnore(a, cache, PolledMatch)
        IN  due ~> (handled[a] = firing[a] \/ ~due)

\* The cache is known to be current: nobody is editing, and the last edit
\* neither overlapped another, nor met a failing database call, nor was
\* answered after a process that has taken over since had read the rules.
Settled == InFlight = {} /\ ~inDoubt

\* Then the cache is what the table holds, whatever happened before.
SettledCacheIsTable == Settled => cache = table

\* Then no analysis starts for an alert that an enabled rule of the table
\* matches; and never for one that the configuration ignores.
IgnoredNotStarted ==
    [][\A a \in Alerts :
          /\ polled'[a] > polled[a] =>
                a \notin Baseline /\ (Settled => ~ShouldIgnore(a, table, PolledMatch))
          /\ pushed'[a] > pushed[a] =>
                a \notin Baseline /\ (Settled => ~ShouldIgnore(a, table, PushedMatch))]_vars

\* webhook.go:32: the cache "is refreshed when the API changes" the rules.  So
\* when every request has been answered it should be what the table holds.
AnsweredEditsInForce == InFlight = {} => cache = table
=============================================================================
