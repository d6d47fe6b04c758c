-------------------------- MODULE AlertIntakeProofs --------------------------
(* Theorems about AlertIntake, for any alerts, keywords and requests.       *)
EXTENDS AlertIntake, TLAPS

-----------------------------------------------------------------------------
(* Types *)

\* An alert that is not resolved has fired, so that a listing names a firing.
FiredInv == \A a \in Alerts : status[a] # "resolved" => firing[a] > 0

TypeInv == TypeOK /\ FiredInv

\* A listing is any record of an unprocessed or active firing for each of its alerts.
LEMMA ListingType ==
    ASSUME NEW A \in SUBSET Alerts, NEW f,
           f \in [A -> [status : {"unprocessed", "active"}, firing : 1..MaxFirings]]
    PROVE  f \in Listings
BY DEF Listings

LEMMA TypeInit == ASSUME Init PROVE TypeInv
<1>1. NothingListed \in Listings /\ {} \subseteq DOMAIN NothingListed
  <2>1. NothingListed \in [{} -> [status : {"unprocessed", "active"}, firing : 1..MaxFirings]]
    BY DEF NothingListed
  <2> QED BY <2>1, ListingType
<1>2. NoRules \in Rules BY DEF NoRules, Rules, Cells
<1>3. /\ MaxFirings \in Nat /\ MaxSilences \in Nat /\ MaxPollFailures \in Nat
      /\ MaxPushes \in Nat /\ MaxDbFaults \in Nat /\ MaxRestarts \in Nat
  BY IntakeAssumption
<1>4. /\ status \in [Alerts -> {"resolved", "unprocessed", "active", "suppressed"}]
      /\ editing \in [Requests -> {"idle", "edited", "listed"}]
      /\ loaded \in [Requests -> Rules] /\ cache \in Rules /\ table \in Rules
      /\ bootRules \in Rules
  BY <1>2 DEF Init
<1>5. /\ firing \in [Alerts -> 0..MaxFirings] /\ handled \in [Alerts -> 0..MaxFirings]
      /\ polled \in [Alerts -> Nat] /\ pushed \in [Alerts -> 0..MaxPushes]
  BY <1>3 DEF Init
<1>6. /\ silences \in 0..MaxSilences /\ pollFailures \in 0..MaxPollFailures
      /\ dbFaults \in 0..MaxDbFaults /\ restarts \in 0..MaxRestarts
  BY <1>3 DEF Init
<1>7. listed \in Listings /\ todo \subseteq DOMAIN listed BY <1>1 DEF Init
<1>8. FiredInv BY DEF Init, FiredInv
<1> QED BY <1>4, <1>5, <1>6, <1>7, <1>8 DEF Init, TypeInv, TypeOK

\* What a successful poll returns is a listing.
LEMMA FetchTyped == ASSUME TypeInv, Fetch PROVE TypeInv'
<1> USE IntakeAssumption DEF TypeInv, TypeOK, FiredInv
<1> DEFINE A == {b \in Alerts : status[b] \in {"unprocessed", "active"}}
<1>1. listed' = [a \in A |-> [status |-> status[a], firing |-> firing[a]]]
  BY DEF Fetch
<1>2. listed' \in [A -> [status : {"unprocessed", "active"}, firing : 1..MaxFirings]]
  <2>1. ASSUME NEW a \in A
        PROVE  [status |-> status[a], firing |-> firing[a]]
                   \in [status : {"unprocessed", "active"}, firing : 1..MaxFirings]
    BY <2>1
  <2> QED BY <1>1, <2>1
<1>3. listed' \in Listings BY <1>2, ListingType
<1>4. todo' \subseteq DOMAIN listed' BY DEF Fetch
<1>5. handled' \in [Alerts -> 0..MaxFirings] BY DEF Fetch
<1> QED BY <1>3, <1>4, <1>5 DEF Fetch, worldVars, ruleVars

LEMMA TypeStep == ASSUME TypeInv, [Next]_vars PROVE TypeInv'
<1> USE IntakeAssumption DEF TypeInv, TypeOK, FiredInv
<1>1. NothingListed \in Listings
  <2>1. NothingListed \in [{} -> [status : {"unprocessed", "active"}, firing : 1..MaxFirings]]
    BY DEF NothingListed
  <2> QED BY <2>1, ListingType
<1>2. NoRules \in Rules BY DEF NoRules, Rules, Cells
<1>3. CASE Fetch BY <1>3, FetchTyped
<1>4. CASE FetchFails BY <1>4 DEF FetchFails, worldVars, ruleVars
<1>5. ASSUME NEW a \in Alerts, Scan(a) PROVE TypeInv'
  <2>1. a \in DOMAIN listed BY <1>5 DEF Scan
  <2>2. listed[a].firing \in 0..MaxFirings
    <3>1. PICK A \in SUBSET Alerts :
              listed \in [A -> [status : {"unprocessed", "active"}, firing : 1..MaxFirings]]
      BY DEF Listings
    <3> QED BY <2>1, <3>1
  <2>3. polled' \in [Alerts -> Nat] /\ handled' \in [Alerts -> 0..MaxFirings] /\ seen' \subseteq Alerts
    BY <1>5, <2>2 DEF Scan
  <2> QED BY <1>5, <2>3 DEF Scan, worldVars, ruleVars
<1>6. CASE FinishPoll BY <1>1, <1>6 DEF FinishPoll, worldVars, ruleVars
<1>7. ASSUME NEW a \in Alerts, World(a) PROVE TypeInv'
  BY <1>7 DEF World, Become, pollVars, ruleVars
<1>8. ASSUME NEW a \in Alerts, Receive(a) PROVE TypeInv'
  BY <1>8 DEF Receive, worldVars, pollVars, ruleVars
<1>9. ASSUME NEW r \in Requests, RuleStep(r) PROVE TypeInv'
  <2>1. ASSUME NEW k \in Keywords, NEW cell \in Edits(table[k])
        PROVE  [table EXCEPT ![k] = cell] \in Rules
    BY DEF Edits, Rules, Cells
  <2>2. ASSUME NEW k \in Keywords, Edit(r, k) PROVE TypeInv'
    BY <2>1, <2>2 DEF Edit, OutdateBoot, worldVars, pollVars
  <2>3. ASSUME NEW k \in Keywords, EditFails(r, k) PROVE TypeInv'
    <3>1. table' \in Rules BY <2>1, <2>3 DEF EditFails
    <3>2. dbFaults' \in 0..MaxDbFaults BY <2>3 DEF EditFails
    <3> QED BY <2>3, <3>1, <3>2 DEF EditFails, OutdateBoot, worldVars, pollVars
  <2>4. CASE ListRules(r) BY <2>4 DEF ListRules, worldVars, pollVars
  <2>5. CASE ListFails(r) BY <2>5 DEF ListFails, worldVars, pollVars
  <2>6. CASE InstallRules(r) BY <1>2, <2>6 DEF InstallRules, worldVars, pollVars
  <2> QED BY <1>9, <2>2, <2>3, <2>4, <2>5, <2>6 DEF RuleStep
<1>10. CASE Restart
  <2>1. restarts' \in 0..MaxRestarts /\ dbFaults' \in 0..MaxDbFaults
    BY <1>10 DEF Restart, StartProcess
  <2>2. cache' \in Rules /\ inDoubt' \in BOOLEAN
    BY <1>2, <1>10 DEF Restart
  <2> QED BY <1>1, <1>2, <1>10, <2>1, <2>2 DEF Restart, Reborn, worldVars
<1>11. CASE BootLists
  <2>1. restarts' \in 0..MaxRestarts /\ dbFaults' \in 0..MaxDbFaults
    BY <1>11 DEF BootLists, StartProcess
  <2>2. bootRules' \in Rules /\ boot' \in {"none", "current", "outdated"}
    BY <1>2, <1>11 DEF BootLists
  <2> QED BY <1>11, <2>1, <2>2 DEF BootLists, worldVars, pollVars
<1>12. CASE TakeOver BY <1>1, <1>2, <1>12 DEF TakeOver, Reborn, worldVars
<1>13. CASE UNCHANGED vars BY <1>13 DEF vars, worldVars, pollVars, ruleVars
<1> QED BY <1>3, <1>4, <1>5, <1>6, <1>7, <1>8, <1>9, <1>10, <1>11, <1>12, <1>13 DEF Next, PollStep

\* The intake is type correct; the poller never sees a silenced or resolved alert.
THEOREM IntakeTypes == Spec => []TypeOK
<1>1. Spec => []TypeInv BY TypeInit, TypeStep, PTL DEF Spec
<1> QED BY <1>1, PTL DEF TypeInv

-----------------------------------------------------------------------------
(* The poller *)

\* What the poller has started, and Alertmanager has listed since, is in seen,
\* and stays there: the answer being scanned contains it.
PollInv ==
    \A a \in Alerts : handled[a] # 0 =>
        a \in seen /\ (phase = "scan" => a \in DOMAIN listed)

LEMMA PollInit == ASSUME Init PROVE PollInv
BY DEF Init, PollInv

LEMMA PollInvStep == ASSUME TypeInv, PollInv, [Next]_vars PROVE PollInv'
<1> USE DEF PollInv
<1>1. CASE Fetch
  <2>1. ASSUME NEW a \in Alerts, handled'[a] # 0 PROVE a \in DOMAIN listed' /\ handled[a] # 0
    BY <1>1, <2>1 DEF Fetch
  <2> QED BY <1>1, <2>1 DEF Fetch
<1>2. CASE FetchFails BY <1>2 DEF FetchFails
<1>3. ASSUME NEW b \in Alerts, Scan(b) PROVE PollInv'
  <2>1. b \in DOMAIN listed BY <1>3 DEF Scan, TypeInv, TypeOK
  <2>2. handled \in [Alerts -> 0..MaxFirings] BY DEF TypeInv, TypeOK
  <2> QED BY <1>3, <2>1, <2>2 DEF Scan
<1>4. CASE FinishPoll BY <1>4 DEF FinishPoll
<1>5. ASSUME NEW a \in Alerts, World(a) \/ Receive(a) PROVE PollInv'
  BY <1>5 DEF World, Receive, pollVars
<1>6. ASSUME (\E r \in Requests : RuleStep(r)) \/ BootLists PROVE PollInv'
  BY <1>6 DEF RuleStep, Edit, EditFails, ListRules, ListFails, InstallRules, BootLists, pollVars
<1>7. CASE Restart \/ TakeOver BY <1>7 DEF Restart, TakeOver, Reborn
<1>8. CASE UNCHANGED vars BY <1>8 DEF vars, pollVars
<1> QED BY <1>1, <1>2, <1>3, <1>4, <1>5, <1>6, <1>7, <1>8 DEF Next, PollStep

\* Only Scan starts an analysis for the poller, and it skips what is in seen.
LEMMA PollStarts ==
    ASSUME TypeInv, [Next]_vars, NEW a \in Alerts, polled'[a] > polled[a]
    PROVE  Scan(a) /\ ~Skipped(a)
<1>1. polled \in [Alerts -> Nat] BY DEF TypeInv, TypeOK
<1>2. UNCHANGED polled => FALSE BY <1>1
<1>3. ASSUME NEW b \in Alerts, Scan(b) PROVE b = a /\ ~Skipped(a)
  BY <1>1, <1>3 DEF Scan
<1>4. Next \/ UNCHANGED vars OBVIOUS
<1>5. \A b \in Alerts : ~World(b) /\ ~Receive(b)
  BY <1>2 DEF World, Receive, pollVars
<1>6. \A r \in Requests : ~RuleStep(r)
  BY <1>2 DEF RuleStep, Edit, EditFails, ListRules, ListFails, InstallRules, pollVars
<1>7. /\ ~Restart /\ ~BootLists /\ ~TakeOver
      /\ ~Fetch /\ ~FetchFails /\ ~FinishPoll /\ ~UNCHANGED vars
  BY <1>2 DEF Restart, BootLists, TakeOver, Reborn, Fetch, FetchFails, FinishPoll, vars, pollVars
<1> QED BY <1>3, <1>4, <1>5, <1>6, <1>7 DEF Next, PollStep

\* While Alertmanager goes on listing an alert, the poller starts one analysis
\* for it, whatever polls fail and rules change in between.
THEOREM OneStart == Spec => OneStartPerPresence
<1>1. TypeInv /\ PollInv /\ [Next]_vars =>
          [\A a \in Alerts : polled'[a] > polled[a] => handled[a] = 0]_vars
  <2> SUFFICES ASSUME TypeInv, PollInv, [Next]_vars, NEW a \in Alerts, polled'[a] > polled[a]
               PROVE  handled[a] = 0
    OBVIOUS
  <2>1. ~Skipped(a) BY PollStarts
  <2> QED BY <2>1 DEF Skipped, PollInv
<1>2. Spec => [](TypeInv /\ PollInv)
  BY TypeInit, TypeStep, PollInit, PollInvStep, PTL DEF Spec
<1> QED BY <1>1, <1>2, PTL DEF Spec, OneStartPerPresence

\* Conversely what is in seen has been started, unless the answer being scanned
\* lacks it: then the end of the poll takes it out.
LEMMA SeenStep == ASSUME TypeInv, SeenMeansStarted, [Next]_vars PROVE SeenMeansStarted'
<1> USE DEF SeenMeansStarted
<1>1. CASE Fetch
  <2>1. ASSUME NEW a \in seen', a \in DOMAIN listed' PROVE handled'[a] # 0
    <3>1. a \in Alerts /\ handled'[a] = handled[a] /\ phase = "fetch" /\ a \in seen
      BY <1>1, <2>1 DEF Fetch
    <3> QED BY <3>1
  <2> QED BY <1>1, <2>1 DEF Fetch
<1>2. CASE FetchFails BY <1>2 DEF FetchFails
<1>3. ASSUME NEW b \in Alerts, Scan(b) PROVE SeenMeansStarted'
  <2>1. b \in DOMAIN listed BY <1>3 DEF Scan, TypeInv, TypeOK
  <2>2. handled \in [Alerts -> 0..MaxFirings] BY DEF TypeInv, TypeOK
  <2>3. listed[b].firing # 0
    <3>1. PICK A \in SUBSET Alerts :
              listed \in [A -> [status : {"unprocessed", "active"}, firing : 1..MaxFirings]]
      BY DEF TypeInv, TypeOK, Listings
    <3>2. listed[b].firing \in 1..MaxFirings BY <2>1, <3>1
    <3> QED BY <3>2, IntakeAssumption
  <2>4. CASE Skipped(b) BY <1>3, <2>4 DEF Scan
  <2>5. CASE ~Skipped(b)
    <3>1. /\ seen' = seen \cup {b} /\ handled' = [handled EXCEPT ![b] = listed[b].firing]
          /\ phase' = phase /\ listed' = listed
      BY <1>3, <2>5 DEF Scan
    <3>2. \A a \in seen : a # b => handled'[a] = handled[a]
      BY <2>2, <3>1 DEF TypeInv, TypeOK
    <3>3. handled'[b] # 0 BY <2>2, <2>3, <3>1
    <3> QED BY <3>1, <3>2, <3>3
  <2> QED BY <2>4, <2>5
<1>4. CASE FinishPoll BY <1>4 DEF FinishPoll
<1>5. ASSUME NEW a \in Alerts, World(a) \/ Receive(a) PROVE SeenMeansStarted'
  BY <1>5 DEF World, Receive, pollVars
<1>6. ASSUME (\E r \in Requests : RuleStep(r)) \/ BootLists PROVE SeenMeansStarted'
  BY <1>6 DEF RuleStep, Edit, EditFails, ListRules, ListFails, InstallRules, BootLists, pollVars
<1>7. CASE Restart \/ TakeOver BY <1>7 DEF Restart, TakeOver, Reborn
<1>8. CASE UNCHANGED vars BY <1>8 DEF vars, pollVars
<1> QED BY <1>1, <1>2, <1>3, <1>4, <1>5, <1>6, <1>7, <1>8 DEF Next, PollStep

\* An alert that was dropped or ignored is looked at again by the next poll:
\* the poller marks nothing that it has not started.
THEOREM SeenIsStarted == Spec => []SeenMeansStarted
<1>1. Init => SeenMeansStarted BY DEF Init, SeenMeansStarted
<1>2. TypeInv /\ SeenMeansStarted /\ [Next]_vars => SeenMeansStarted' BY SeenStep
<1> QED BY <1>1, <1>2, TypeInit, TypeStep, PTL DEF Spec

-----------------------------------------------------------------------------
(* The rules *)

\* Unless the cache is in doubt one request at most is under way, the list it
\* has read is the table, and with no request under way the cache is.  Unless a
\* process that is starting has missed an edit, what it has read is the table.
RuleInv ==
    /\ ~inDoubt =>
        /\ \A r, s \in InFlight : r = s
        /\ \A r \in Requests : editing[r] = "listed" => loaded[r] = table
        /\ InFlight = {} => cache = table
    /\ boot = "current" => bootRules = table

LEMMA RuleInit == ASSUME Init PROVE RuleInv
BY DEF Init, RuleInv, InFlight

LEMMA RuleInvStep == ASSUME TypeInv, RuleInv, [Next]_vars PROVE RuleInv'
<1> USE DEF RuleInv, InFlight
<1>1. editing \in [Requests -> {"idle", "edited", "listed"}] /\ loaded \in [Requests -> Rules]
  BY DEF TypeInv, TypeOK
<1>2. ASSUME NEW r \in Requests, NEW k \in Keywords, Edit(r, k) PROVE RuleInv'
  BY <1>1, <1>2 DEF Edit, OutdateBoot
<1>3. ASSUME NEW r \in Requests, NEW k \in Keywords, EditFails(r, k) PROVE RuleInv'
  BY <1>3 DEF EditFails, OutdateBoot
<1>4. ASSUME NEW r \in Requests, ListRules(r) PROVE RuleInv'
  BY <1>1, <1>4 DEF ListRules
<1>5. ASSUME NEW r \in Requests, ListFails(r) PROVE RuleInv'
  BY <1>5 DEF ListFails
<1>6. ASSUME NEW r \in Requests, InstallRules(r) PROVE RuleInv'
  BY <1>1, <1>6 DEF InstallRules
<1>7. CASE Restart \/ BootLists \/ TakeOver
  BY <1>7 DEF Restart, BootLists, TakeOver, Reborn, TypeInv, TypeOK
<1>8. ASSUME PollStep \/ (\E a \in Alerts : World(a) \/ Receive(a)) \/ UNCHANGED vars PROVE RuleInv'
  <2>1. UNCHANGED ruleVars
    BY <1>8 DEF PollStep, Fetch, FetchFails, Scan, FinishPoll, World, Receive, vars
  <2> QED BY <2>1 DEF ruleVars
<1> QED BY <1>2, <1>3, <1>4, <1>5, <1>6, <1>7, <1>8 DEF Next, RuleStep

\* The cache is what the table holds whenever nobody edits the rules and the
\* last edit neither overlapped another nor met a failing database call.
THEOREM SettledCache == Spec => []SettledCacheIsTable
<1>1. TypeInv /\ RuleInv => SettledCacheIsTable BY DEF RuleInv, SettledCacheIsTable, Settled
<1>2. Spec => [](TypeInv /\ RuleInv)
  BY TypeInit, TypeStep, RuleInit, RuleInvStep, PTL DEF Spec
<1> QED BY <1>1, <1>2, PTL

\* The rules are edited by one request at a time, no call fails, and nobody edits
\* them after a process that is starting has read them.
SerialEdits ==
    /\ dbFaults = 0
    /\ \A r, s \in InFlight : r = s
    /\ boot # "none" => InFlight = {}

\* Neither the cache nor what the starting process has read is in doubt.
Trusted == ~inDoubt /\ boot # "outdated"

\* Such edits keep it so.
LEMMA NoDoubt ==
    ASSUME TypeInv, [Next]_vars, Trusted, SerialEdits, SerialEdits'
    PROVE  Trusted'
<1> USE DEF Trusted
<1>1. editing \in [Requests -> {"idle", "edited", "listed"}] /\ dbFaults \in Nat
  BY IntakeAssumption DEF TypeInv, TypeOK
<1>2. dbFaults = 0 /\ dbFaults' = 0 BY DEF SerialEdits
<1>3. ASSUME NEW r \in Requests, NEW k \in Keywords, Edit(r, k)
      PROVE  Trusted'
  <2>1. r \in InFlight' /\ InFlight \subseteq InFlight' /\ r \notin InFlight
    BY <1>1, <1>3 DEF Edit, InFlight
  <2>2. InFlight = {} BY <2>1 DEF SerialEdits
  <2>3. boot' = "none" BY <2>1 DEF SerialEdits
  <2> QED BY <1>3, <2>2, <2>3 DEF Edit
<1>4. ASSUME NEW r \in Requests, RuleStep(r) PROVE Trusted'
  BY <1>2, <1>3, <1>4 DEF RuleStep, EditFails, ListRules, ListFails, InstallRules
<1>5. CASE Restart \/ BootLists \/ TakeOver
  <2>1. CASE Restart BY <1>2, <2>1 DEF Restart
  <2>2. CASE BootLists BY <1>2, <2>2 DEF BootLists
  <2>3. CASE TakeOver
    <3>1. inDoubt' = (boot = "outdated") /\ boot' = "none" BY <2>3 DEF TakeOver
    <3> QED BY <3>1
  <2> QED BY <1>5, <2>1, <2>2, <2>3
<1>6. ASSUME PollStep \/ (\E a \in Alerts : World(a) \/ Receive(a)) \/ UNCHANGED vars
      PROVE  Trusted'
  <2>1. UNCHANGED ruleVars
    BY <1>6 DEF PollStep, Fetch, FetchFails, Scan, FinishPoll, World, Receive, vars
  <2> QED BY <2>1 DEF ruleVars
<1> QED BY <1>4, <1>5, <1>6 DEF Next

\* Overlapping edits, failing calls, and edits made while a new process is taking
\* over are the only ways to a cache that lacks an answered edit (webhook.go:32):
\* without them it is what the table holds whenever no request is under way,
\* through polls, crashes and rolls.  A roll lasts until the old process is gone.
THEOREM SerialEditsTakeForce == Spec => ([]SerialEdits => []AnsweredEditsInForce)
<1>1. Init => TypeInv /\ RuleInv /\ Trusted BY TypeInit, RuleInit DEF Init, Trusted
<1>2. TypeInv /\ RuleInv /\ [Next]_vars => TypeInv' /\ RuleInv' BY TypeStep, RuleInvStep
<1>3. TypeInv /\ [Next]_vars /\ Trusted /\ SerialEdits /\ SerialEdits' => Trusted'
  BY NoDoubt
<1>4. RuleInv /\ Trusted => AnsweredEditsInForce
  BY DEF RuleInv, Trusted, AnsweredEditsInForce
<1> QED BY <1>1, <1>2, <1>3, <1>4, PTL DEF Spec

\* With a settled cache no analysis starts for an alert that an enabled rule
\* matches; never for one that the configuration ignores.
THEOREM IgnoredStayOut == Spec => IgnoredNotStarted
<1> DEFINE Kept(a) ==
      /\ polled'[a] > polled[a] =>
            a \notin Baseline /\ (Settled => ~ShouldIgnore(a, table, PolledMatch))
      /\ pushed'[a] > pushed[a] =>
            a \notin Baseline /\ (Settled => ~ShouldIgnore(a, table, PushedMatch))
<1>1. ASSUME TypeInv, RuleInv, [Next]_vars, NEW a \in Alerts PROVE Kept(a)
  <2>1. Settled => cache = table BY <1>1 DEF RuleInv, Settled
  <2>2. ASSUME polled'[a] > polled[a] PROVE ~ShouldIgnore(a, cache, PolledMatch)
    BY <1>1, <2>2, PollStarts DEF Skipped
  <2>3. ASSUME pushed'[a] > pushed[a] PROVE ~ShouldIgnore(a, cache, PushedMatch)
    <3>1. pushed \in [Alerts -> 0..MaxPushes] BY <1>1 DEF TypeInv, TypeOK
    <3>2. ASSUME NEW b \in Alerts, Receive(b) PROVE b = a
      BY <2>3, <3>1, <3>2 DEF Receive
    <3>3. ~UNCHANGED pushed BY <2>3, <3>1, IntakeAssumption
    <3>4. PICK b \in Alerts : Receive(b)
      BY <1>1, <3>3 DEF Next, PollStep, Fetch, FetchFails, Scan, FinishPoll, World, RuleStep,
         Edit, EditFails, ListRules, ListFails, InstallRules, Restart, BootLists, TakeOver,
         Reborn, vars
    <3> QED BY <3>2, <3>4 DEF Receive
  <2> QED BY <2>1, <2>2, <2>3 DEF ShouldIgnore
<1>2. TypeInv /\ RuleInv /\ [Next]_vars => [\A a \in Alerts : Kept(a)]_vars
  BY <1>1
<1>3. Spec => [](TypeInv /\ RuleInv)
  BY TypeInit, TypeStep, RuleInit, RuleInvStep, PTL DEF Spec
<1> QED BY <1>2, <1>3, PTL DEF Spec, IgnoredNotStarted
=============================================================================
