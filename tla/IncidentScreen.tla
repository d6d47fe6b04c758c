--------------------------- MODULE IncidentScreen ---------------------------
(***************************************************************************)
(* The incident page in the browser (frontend/src/pages/IncidentDetail.tsx *)
(* with lib/useAsync.ts and api/client.ts) in front of the incidents API   *)
(* (ReanalysisService): it loads its incident every five seconds, starts a *)
(* re-analysis, and asks every three seconds how it is going while it      *)
(* shows a spinner.  Answers may be late, overtake each other or fail; the *)
(* operator goes to other incidents meanwhile, other tabs and new alerts   *)
(* change the incident, and the process may restart.                       *)
(*                                                                         *)
(* The history of the browser leads from one incident to another without   *)
(* taking the page down: the route has no key.  Closures of the page that  *)
(* was are then either dead (the alive flag of their effect) or go on to   *)
(* act on the new one; "calls" holds those that still act.                 *)
(***************************************************************************)
EXTENDS ReanalysisService, Integers, FiniteSets

CONSTANTS
    None,               \* no incident
    Found,              \* the rows in the beginning
    MaxCalls,           \* bound: the operator does not click while so many calls are under way
    MaxDisturbances     \* bound: alerts, re-analyses from elsewhere, restarts, failures, jumps

ASSUME ScreenAssumption ==
    /\ None \notin Incidents
    /\ Found \in [Incidents -> RowStates]
    /\ MaxCalls \in Nat
    /\ MaxDisturbances \in Nat

VARIABLES
    url,            \* the incident of the URL, None on the list of incidents
    data,           \* useAsync: whether the last load found the incident
    inc,            \* the incident on the page
    loading,        \* useAsync: nothing loaded since the URL changed
    reanalyzing,    \* the spinner
    reanalyzeErr,   \* the message beside the button
    calls,          \* requests under way whose answer the page will act on
    disturbances,   \* how many there have been
    restarted,      \* history: a restart since the page was opened
    jumped          \* history: the URL changed under the open page

pageVars == <<url, data, inc, loading, reanalyzing, reanalyzeErr, calls>>
historyVars == <<restarted, jumped>>
screenVars == <<serviceVars, pageVars, disturbances, historyVars>>

\* An incident as it was loaded; None is undefined, "not found" on the page.
Loaded == [of : Incidents, state : RowStates \ {"absent"}]

\* A call, with a number to tell two starts apart (bound: two starts and one call
\* of every other kind are under way).  The answer to a load is the state of the
\* row, "absent" when it fails; the others are answered with the status of the
\* job.  A start is accepted before its answer is written.
Kinds == {"load", "mount", "poll", "reload", "start"}
Numbers(kind) == IF kind = "start" THEN 1..2 ELSE {1}
Open == {"asked", "accepted"}
Answers == RowStates \cup JobStates \cup {"error"} \cup Open
Calls == [kind : Kinds, nr : 1..2, of : Incidents, answer : Answers]

Call(kind, nr, i) == [kind |-> kind, nr |-> nr, of |-> i, answer |-> "asked"]
Free(kind) == {nr \in Numbers(kind) : \A c \in calls : c.kind = kind => c.nr # nr}
Answered(c, kind) == c.kind = kind /\ c.answer \notin Open

\* (mutant) The status of the response is not looked at.
IncidentUnchecked(c) == [of |-> c.of, state |-> c.answer]

\* fetchIncident: an error is an incident that is not there.
Incident(c) == IF c.answer = "absent" THEN None ELSE [of |-> c.of, state |-> c.answer]

Polls == {c \in calls : c.kind = "poll"}

Disturb ==
    /\ disturbances < MaxDisturbances
    /\ disturbances' = disturbances + 1

ScreenInit ==
    /\ shown = Found
    /\ job = [i \in Incidents |-> "idle"]
    /\ stored = [i \in Incidents |-> FALSE]
    /\ url = None
    /\ data = FALSE /\ inc = None
    /\ loading = FALSE
    /\ reanalyzing = FALSE
    /\ reanalyzeErr = ""
    /\ calls = {}
    /\ restarted = FALSE /\ jumped = FALSE
    /\ disturbances = 0

-----------------------------------------------------------------------------
(* The operator *)

\* The effects of a new URL: the first load, and whether a re-analysis runs.
Opening(i) == {Call("load", 1, i), Call("mount", 1, i)}

\* From the list: a new page.
Visit(i) ==
    /\ url = None
    /\ url' = i
    /\ loading' = TRUE
    /\ calls' = Opening(i)
    /\ UNCHANGED <<serviceVars, data, inc, reanalyzing, reanalyzeErr, disturbances, historyVars>>

\* To the list: the page is unmounted, and what it sets later has no effect.
Leave ==
    /\ url # None
    /\ url' = None
    /\ data' = FALSE /\ inc' = None
    /\ loading' = FALSE
    /\ reanalyzing' = FALSE
    /\ reanalyzeErr' = ""
    /\ calls' = {}
    /\ restarted' = FALSE /\ jumped' = FALSE
    /\ UNCHANGED <<serviceVars, disturbances>>

\* By the history to another incident: the page stays, its effects are renewed.
Jump(i) ==
    /\ url \notin {None, i}
    /\ url' = i
    /\ loading' = TRUE
    /\ calls' = {c \in calls : c.kind \in {"start", "reload"}} \cup Opening(i)
    /\ jumped' = TRUE
    /\ Disturb
    /\ UNCHANGED <<serviceVars, data, inc, reanalyzing, reanalyzeErr, restarted>>

\* onReanalyze: the button is there without a diagnosis, and enabled unless the
\* row is pending or the spinner shows.
Click ==
    /\ url # None /\ ~loading
    /\ inc # None
    /\ inc.state = "failed"
    /\ ~reanalyzing
    /\ reanalyzeErr' = ""
    /\ Cardinality(calls) < MaxCalls
    /\ \E nr \in Free("start") : calls' = calls \cup {Call("start", nr, inc.of)}
    /\ UNCHANGED <<serviceVars, url, data, inc, loading, reanalyzing, disturbances, historyVars>>

-----------------------------------------------------------------------------
(* Timers *)

LoadAgain ==
    /\ url # None
    /\ \E nr \in Free("load") : calls' = calls \cup {Call("load", nr, url)}
    /\ UNCHANGED <<serviceVars, url, data, inc, loading, reanalyzing, reanalyzeErr, disturbances, historyVars>>

\* While the spinner shows, every three seconds; a tick before the last poll is
\* answered is left out.
PollTick ==
    /\ url # None /\ reanalyzing
    /\ \E nr \in Free("poll") : calls' = calls \cup {Call("poll", nr, url)}
    /\ UNCHANGED <<serviceVars, url, data, inc, loading, reanalyzing, reanalyzeErr, disturbances, historyVars>>

-----------------------------------------------------------------------------
(* The process *)

Answer(c, answer) ==
    /\ calls' = (calls \ {c}) \cup {[c EXCEPT !.answer = answer]}
    /\ UNCHANGED <<url, data, inc, loading, reanalyzing, reanalyzeErr, historyVars>>

ServeLoad(c) ==
    /\ c.kind \in {"load", "reload"} /\ c.answer = "asked"
    /\ Answer(c, shown[c.of])
    /\ UNCHANGED <<serviceVars, disturbances>>

\* handleIncidentReanalyzeStatus
ServeStatus(c) ==
    /\ c.kind \in {"mount", "poll"} /\ c.answer = "asked"
    /\ Answer(c, job[c.of])
    /\ UNCHANGED <<serviceVars, disturbances>>

\* handleIncidentReanalyze: a new job, or 409 for the one under way.  No row is
\* ever deleted: the page has none to ask about that is not there.
ServeStart(c) ==
    /\ c.kind = "start" /\ c.answer = "asked"
    /\ Start(c.of) \/ (job[c.of] = "running" /\ UNCHANGED serviceVars)
    /\ Answer(c, "accepted")
    /\ UNCHANGED disturbances

\* Both answers read the state of the job only now (incidents_api.go:151, 162).
ServeAccepted(c) ==
    /\ c.kind = "start" /\ c.answer = "accepted"
    /\ Answer(c, job[c.of])
    /\ UNCHANGED <<serviceVars, disturbances>>

\* The call fails on its way, or in the process.
Fail(c) ==
    /\ c.answer \in Open
    /\ Answer(c, IF c.kind \in {"load", "reload"} THEN "absent" ELSE "error")
    /\ Disturb
    /\ UNCHANGED serviceVars

\* The connections of requests in the process end with it.
Restart ==
    /\ Forget
    /\ Disturb
    /\ calls' = {IF c.answer = "accepted" THEN [c EXCEPT !.answer = "error"] ELSE c : c \in calls}
    /\ restarted' = (url # None)
    /\ UNCHANGED <<url, data, inc, loading, reanalyzing, reanalyzeErr, jumped>>

\* (mutant) The record of a job is dropped when it ends.
EndForgetting(i) ==
    /\ job[i] = "running"
    /\ job' = [job EXCEPT ![i] = "idle"]
    /\ UNCHANGED <<shown, stored, pageVars, disturbances, historyVars>>

EndJob(i) == End(i) /\ UNCHANGED <<pageVars, disturbances, historyVars>>

Elsewhere(i) ==
    /\ Write(i) \/ Start(i)
    /\ Disturb
    /\ UNCHANGED <<pageVars, historyVars>>

-----------------------------------------------------------------------------
(* The page, as the answers arrive *)

\* (mutant) An unsuccessful load is not repeated.
ShowOnce(c) ==
    /\ Answered(c, "load") /\ c.answer # "absent"
    /\ data' = TRUE
    /\ inc' = Incident(c)
    /\ loading' = FALSE
    /\ calls' = calls \ {c}
    /\ UNCHANGED <<serviceVars, url, reanalyzing, reanalyzeErr, disturbances, historyVars>>

\* useAsync: every answer is a new object and replaces inc, undefined only if
\* the answer before was an object.
Show(c) ==
    /\ Answered(c, "load")
    /\ data' = (c.answer # "absent")
    /\ inc' = IF data \/ data' THEN Incident(c) ELSE inc
    /\ loading' = FALSE
    /\ calls' = calls \ {c}
    /\ UNCHANGED <<serviceVars, url, reanalyzing, reanalyzeErr, disturbances, historyVars>>

\* The status at the opening: a re-analysis under way is followed.
Resume(c) ==
    /\ Answered(c, "mount")
    /\ reanalyzing' = (reanalyzing \/ c.answer = "running")
    /\ calls' = calls \ {c}
    /\ UNCHANGED <<serviceVars, url, data, inc, loading, reanalyzeErr, disturbances, historyVars>>

\* A poll while the re-analysis runs, or one that fails, changes nothing.
Follow(c) ==
    /\ c.kind = "poll"
    /\ c.answer \in {"running", "error"}
    /\ calls' = calls \ {c}
    /\ UNCHANGED <<serviceVars, url, data, inc, loading, reanalyzing, reanalyzeErr, disturbances, historyVars>>

\* A poll finds it done: the incident is loaded once more, by a call that no
\* effect owns.
FollowDone(c) ==
    /\ Answered(c, "poll") /\ c.answer = "done"
    /\ reanalyzing' = FALSE
    /\ \E nr \in Free("reload") : calls' = (calls \ Polls) \cup {Call("reload", nr, url)}
    /\ UNCHANGED <<serviceVars, url, data, inc, loading, reanalyzeErr, disturbances, historyVars>>

\* (mutant) An idle status is taken for that of a re-analysis yet to begin.
FollowOn(c) ==
    /\ Answered(c, "poll") /\ c.answer \in {"failed", "idle"}
    /\ reanalyzing' = (c.answer = "idle")
    /\ reanalyzeErr' = IF c.answer = "idle" THEN reanalyzeErr ELSE "failed"
    /\ calls' = calls \ Polls
    /\ UNCHANGED <<serviceVars, url, data, inc, loading, disturbances, historyVars>>

\* A poll finds it failed, or finds no record of it and tells of a restart.
FollowEnd(c) ==
    /\ Answered(c, "poll") /\ c.answer \in {"failed", "idle"}
    /\ reanalyzing' = FALSE
    /\ reanalyzeErr' = IF c.answer = "idle" THEN "lost" ELSE "failed"
    /\ calls' = calls \ Polls
    /\ UNCHANGED <<serviceVars, url, data, inc, loading, disturbances, historyVars>>

Reload(c) ==
    /\ Answered(c, "reload")
    /\ inc' = Incident(c)
    /\ calls' = calls \ {c}
    /\ UNCHANGED <<serviceVars, url, data, loading, reanalyzing, reanalyzeErr, disturbances, historyVars>>

\* onReanalyze after its await: whatever page is open by now.
Started(c) ==
    /\ Answered(c, "start") /\ c.answer # "error"
    /\ reanalyzing' = (c.answer = "running")
    /\ calls' = IF c.answer = "running" THEN calls \ {c} ELSE calls \ ({c} \cup Polls)
    /\ UNCHANGED <<serviceVars, url, data, inc, loading, reanalyzeErr, disturbances, historyVars>>

Refused(c) ==
    /\ c.kind = "start" /\ c.answer = "error"
    /\ reanalyzeErr' = "failed"
    /\ calls' = calls \ {c}
    /\ UNCHANGED <<serviceVars, url, data, inc, loading, reanalyzing, disturbances, historyVars>>

Serve(c) == ServeLoad(c) \/ ServeStatus(c) \/ ServeStart(c) \/ ServeAccepted(c)
Arrive(c) ==
    Show(c) \/ Resume(c) \/ Follow(c) \/ FollowDone(c) \/ FollowEnd(c)
    \/ Reload(c) \/ Started(c) \/ Refused(c)

ScreenNext ==
    \/ \E i \in Incidents : Visit(i) \/ Jump(i) \/ EndJob(i) \/ Elsewhere(i)
    \/ Leave \/ Click \/ LoadAgain \/ PollTick \/ Restart
    \/ \E c \in calls : Serve(c) \/ Fail(c) \/ Arrive(c)

ScreenSpec == ScreenInit /\ [][ScreenNext]_screenVars

\* Timers fire, every call gets an answer or an error, and the page acts on it;
\* a re-analysis ends.
Progress(kind, nr) ==
    \E c \in calls : c.kind = kind /\ c.nr = nr /\ (Serve(c) \/ Arrive(c))

ScreenFairSpec ==
    /\ ScreenSpec
    /\ WF_screenVars(LoadAgain) /\ WF_screenVars(PollTick)
    /\ \A kind \in Kinds : \A nr \in Numbers(kind) : WF_screenVars(Progress(kind, nr))
    /\ \A i \in Incidents : WF_screenVars(EndJob(i))

-----------------------------------------------------------------------------
(* Properties *)

ScreenTypeOK ==
    /\ shown \in [Incidents -> RowStates]
    /\ job \in [Incidents -> JobStates]
    /\ stored \in [Incidents -> BOOLEAN]
    /\ url \in Incidents \cup {None}
    /\ inc \in Loaded \cup {None}
    /\ data \in BOOLEAN /\ loading \in BOOLEAN /\ reanalyzing \in BOOLEAN
    /\ reanalyzeErr \in {"", "lost", "failed"}
    /\ calls \subseteq Calls
    /\ disturbances \in 0..MaxDisturbances
    /\ restarted \in BOOLEAN /\ jumped \in BOOLEAN

\* The page tells the operator that the process restarted (IncidentDetail.tsx:82)
\* only if it did, as long as it is the page of one incident: in no order of
\* polls, clicks and starts from elsewhere is a running or finished re-analysis
\* mistaken for a forgotten one.
LostMeansRestart == reanalyzeErr = "lost" => restarted \/ jumped

\* "When it is complete the result is shown by itself" (IncidentDetail.tsx:215,
\* 224): a page that stays comes to show the row of its incident as it is, in
\* spite of failed loads, of answers that overtake each other, and of answers
\* for an incident that was open before.
ResultShown ==
    \A i \in Incidents : \A state \in RowStates \ {"absent"} :
        <>[](url = i /\ shown[i] = state) => <>[](inc = [of |-> i, state |-> state] /\ ~loading)

\* The spinner does not stay, and it does not go without a word: there is a
\* message, or the page shows the row as it is, unless the operator goes away.
SpinnerResolved ==
    \A i \in Incidents :
        url = i /\ reanalyzing ~>
            \/ url # i
            \/ ~reanalyzing /\ (reanalyzeErr # "" \/ inc = [of |-> i, state |-> shown[i]])
=============================================================================
