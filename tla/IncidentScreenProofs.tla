------------------------ MODULE IncidentScreenProofs ------------------------
(***************************************************************************)
(* Proofs about IncidentScreen, for any number of incidents and any bounds. *)
(* On a page that has seen neither a restart nor a jump everything under   *)
(* way is about its own incident, and what it was told of a re-analysis    *)
(* keeps that re-analysis on record: no poll can be answered "idle".       *)
(***************************************************************************)
EXTENDS IncidentScreen, TLAPS

\* A call that the page acts on, with an answer of its kind.
CallOK(c) ==
    /\ c \in Calls
    /\ c.kind \in {"load", "reload"} => c.answer \in RowStates \cup {"asked"}

\* Whoever was told of a re-analysis of the incident on the page, or asks how it
\* is going.
Knows(c) ==
    \/ c.kind = "poll"
    \/ c.kind = "mount" /\ c.answer = "running"
    \/ c.kind = "start" /\ c.answer \notin {"asked", "error"}

Undisturbed == ~restarted /\ ~jumped

OnRecord ==
    /\ reanalyzing => url # None /\ job[url] # "idle"
    /\ inc # None => inc.of = url
    /\ \A c \in calls : c.of = url
    /\ \A c \in calls : Knows(c) => job[url] # "idle"
    /\ \A c \in calls : c.kind = "poll" => c.answer # "idle"

\* On the list nothing is under way.
Unmounted == url = None => calls = {} /\ inc = None /\ ~reanalyzing /\ ~restarted /\ ~jumped

ScreenInv ==
    /\ ScreenTypeOK
    /\ \A c \in calls : CallOK(c)
    /\ Unmounted
    /\ Undisturbed => OnRecord
    /\ LostMeansRestart

LEMMA ScreenInitInv == ScreenInit => ScreenInv
<1> SUFFICES ASSUME ScreenInit PROVE ScreenInv OBVIOUS
<1> USE ScreenAssumption DEF ScreenInit
<1>1. ScreenTypeOK
  <2>1. stored \in [Incidents -> BOOLEAN] /\ job \in [Incidents -> JobStates] BY DEF JobStates
  <2>2. disturbances \in 0..MaxDisturbances
    <3>1. disturbances = 0 /\ MaxDisturbances \in Nat OBVIOUS
    <3> HIDE ScreenAssumption DEF ScreenInit
    <3> QED BY <3>1
  <2> QED BY <2>1, <2>2 DEF ScreenTypeOK
<1>2. (\A c \in calls : CallOK(c)) /\ Unmounted BY DEF Unmounted
<1>3. OnRecord BY DEF OnRecord
<1>4. LostMeansRestart BY DEF LostMeansRestart
<1> QED BY <1>1, <1>2, <1>3, <1>4 DEF ScreenInv

-----------------------------------------------------------------------------
(* The service under the page *)

ServiceType ==
    /\ shown \in [Incidents -> RowStates]
    /\ job \in [Incidents -> JobStates]
    /\ stored \in [Incidents -> BOOLEAN]

\* A re-analysis stays on record until a restart.
Kept == ServiceType' /\ \A i \in Incidents : job[i] # "idle" => job'[i] # "idle"

LEMMA StepsKeepRecords ==
    ASSUME ServiceType, NEW i \in Incidents, Write(i) \/ Start(i) \/ End(i)
    PROVE  Kept
<1> USE DEF ServiceType, Kept, RowStates, JobStates
<1>1. CASE Write(i) BY <1>1 DEF Write
<1>2. CASE Start(i) BY <1>2 DEF Start
<1>3. CASE Store(i) BY <1>3 DEF Store
<1>4. CASE Finish(i) BY <1>4 DEF Finish
<1> QED BY <1>1, <1>2, <1>3, <1>4 DEF End

LEMMA StayingKeepsRecords ==
    ASSUME ServiceType, UNCHANGED serviceVars
    PROVE  Kept
BY DEF ServiceType, Kept, serviceVars

\* Steps of the service leave the page's invariant alone.
LEMMA ServiceKeeps ==
    ASSUME ScreenInv, Kept, disturbances' \in 0..MaxDisturbances,
           UNCHANGED <<pageVars, historyVars>>
    PROVE  ScreenInv'
<1> USE DEF pageVars, historyVars
<1>1. ScreenTypeOK' BY DEF ScreenInv, ScreenTypeOK, Kept, ServiceType
<1>2. (\A c \in calls : CallOK(c))' BY DEF ScreenInv, CallOK
<1>3. Unmounted' BY DEF ScreenInv, Unmounted
<1>4. (Undisturbed => OnRecord)'
  <2> SUFFICES ASSUME Undisturbed' PROVE OnRecord' OBVIOUS
  <2>1. OnRecord BY DEF ScreenInv, Undisturbed
  <2>2. url # None => url \in Incidents BY DEF ScreenInv, ScreenTypeOK
  <2>3. calls # {} => url # None BY DEF ScreenInv, Unmounted
  <2> QED BY <2>1, <2>2, <2>3 DEF OnRecord, Kept, Knows
<1>5. LostMeansRestart' BY DEF ScreenInv, LostMeansRestart
<1> QED BY <1>1, <1>2, <1>3, <1>4, <1>5 DEF ScreenInv

-----------------------------------------------------------------------------
(* The operator and the timers *)

LEMMA NewCall ==
    ASSUME NEW kind \in Kinds, NEW nr \in Numbers(kind), NEW i \in Incidents
    PROVE  /\ CallOK(Call(kind, nr, i))
           /\ Call(kind, nr, i).of = i
           /\ Call(kind, nr, i).kind = kind
           /\ Call(kind, nr, i).answer = "asked"
BY DEF CallOK, Call, Calls, Kinds, Numbers, Answers, Open

LEMMA VisitKeeps ==
    ASSUME ScreenInv, NEW i \in Incidents, Visit(i)
    PROVE  ScreenInv'
<1> USE ScreenAssumption DEF Visit, serviceVars, historyVars
<1>1. \A c \in calls' : CallOK(c) /\ c.of = i /\ ~Knows(c) /\ c.kind # "poll"
  BY NewCall DEF Opening, Kinds, Numbers, Knows
<1>2. ScreenTypeOK' BY <1>1 DEF ScreenInv, ScreenTypeOK, CallOK
<1>3. OnRecord' BY <1>1 DEF ScreenInv, Unmounted, OnRecord
<1>4. (Unmounted /\ LostMeansRestart)' BY DEF ScreenInv, Unmounted, LostMeansRestart
<1>5. (\A c \in calls : CallOK(c))' BY <1>1 DEF CallOK
<1> QED BY <1>2, <1>3, <1>4, <1>5 DEF ScreenInv

LEMMA LeaveKeeps ==
    ASSUME ScreenInv, Leave
    PROVE  ScreenInv'
<1> USE ScreenAssumption DEF Leave, serviceVars
<1>1. ScreenTypeOK' BY DEF ScreenInv, ScreenTypeOK
<1>2. (Unmounted /\ LostMeansRestart /\ OnRecord)' BY DEF Unmounted, LostMeansRestart, OnRecord
<1>3. (\A c \in calls : CallOK(c))' OBVIOUS
<1> QED BY <1>1, <1>2, <1>3 DEF ScreenInv

LEMMA JumpKeeps ==
    ASSUME ScreenInv, NEW i \in Incidents, Jump(i)
    PROVE  ScreenInv'
<1> USE ScreenAssumption DEF Jump, Disturb, serviceVars
<1>1. \A c \in calls' : CallOK(c)
  BY NewCall DEF Opening, Kinds, Numbers, ScreenInv
<1>2. ScreenTypeOK'
  <2>1. calls' \subseteq Calls BY <1>1 DEF CallOK
  <2>2. disturbances' \in 0..MaxDisturbances
    <3>1. /\ disturbances \in 0..MaxDisturbances /\ MaxDisturbances \in Nat
          /\ disturbances < MaxDisturbances /\ disturbances' = disturbances + 1
      BY DEF ScreenInv, ScreenTypeOK
    <3> HIDE ScreenAssumption DEF Jump, Disturb, serviceVars
    <3> QED BY <3>1
  <2> QED BY <2>1, <2>2 DEF ScreenInv, ScreenTypeOK
<1>3. (Unmounted /\ LostMeansRestart)' /\ ~Undisturbed'
  BY DEF Unmounted, LostMeansRestart, Undisturbed
<1>4. (\A c \in calls : CallOK(c))' BY <1>1 DEF CallOK
<1> QED BY <1>2, <1>3, <1>4 DEF ScreenInv

\* A new call that nobody has answered, about the incident on the page.
LEMMA AskingKeeps ==
    ASSUME ScreenInv, url # None,
           NEW kind \in Kinds, NEW nr \in Numbers(kind), NEW i \in Incidents,
           calls' = calls \cup {Call(kind, nr, i)},
           Undisturbed => i = url /\ (kind = "poll" => job[url] # "idle"),
           reanalyzeErr' \in {"", reanalyzeErr},
           UNCHANGED <<serviceVars, url, data, inc, loading, reanalyzing, disturbances, historyVars>>
    PROVE  ScreenInv'
<1> DEFINE new == Call(kind, nr, i)
<1>0. CallOK(new) /\ new.of = i /\ new.kind = kind /\ new.answer = "asked" BY NewCall DEF Call
<1> HIDE DEF new
<1> USE DEF serviceVars, historyVars
<1>1. \A c \in calls' : CallOK(c)
  <2>1. \A c \in calls' : c = new \/ c \in calls BY DEF new
  <2> QED BY <1>0, <2>1 DEF ScreenInv
<1>2. ScreenTypeOK'
  <2>1. calls' \subseteq Calls BY <1>1 DEF CallOK
  <2> QED BY <2>1 DEF ScreenInv, ScreenTypeOK
<1>3. (Unmounted /\ LostMeansRestart)' BY DEF ScreenInv, Unmounted, LostMeansRestart
<1>4. (\A c \in calls : CallOK(c))' BY <1>1 DEF CallOK
<1>5. ASSUME Undisturbed' PROVE OnRecord'
  <2>1. Undisturbed /\ OnRecord BY <1>5 DEF Undisturbed, ScreenInv
  <2>2. Knows(new) => kind = "poll" BY <1>0 DEF Knows
  <2>3. \A c \in calls' : c = new \/ c \in calls BY DEF new
  <2> QED BY <1>0, <2>1, <2>2, <2>3 DEF OnRecord, Knows
<1> QED BY <1>2, <1>3, <1>4, <1>5 DEF ScreenInv

LEMMA OperatorKeeps ==
    ASSUME ScreenInv, Click \/ LoadAgain \/ PollTick
    PROVE  ScreenInv'
<1>1. url # None => url \in Incidents BY DEF ScreenInv, ScreenTypeOK
<1>2. CASE Click
  <2>1. PICK nr \in Free("start") : calls' = calls \cup {Call("start", nr, inc.of)}
    BY <1>2 DEF Click
  <2>2. nr \in Numbers("start") /\ "start" \in Kinds BY DEF Free, Kinds
  <2>3. inc.of \in Incidents BY <1>2 DEF Click, ScreenInv, ScreenTypeOK, Loaded
  <2>4. Undisturbed => inc.of = url BY <1>2 DEF Click, ScreenInv, OnRecord
  <2> QED BY <1>2, <2>1, <2>2, <2>3, <2>4, AskingKeeps DEF Click
<1>3. CASE LoadAgain
  <2>1. PICK nr \in Free("load") : calls' = calls \cup {Call("load", nr, url)}
    BY <1>3 DEF LoadAgain
  <2>2. nr \in Numbers("load") /\ "load" \in Kinds BY DEF Free, Kinds
  <2> QED BY <1>1, <1>3, <2>1, <2>2, AskingKeeps DEF LoadAgain
<1>4. CASE PollTick
  <2>1. PICK nr \in Free("poll") : calls' = calls \cup {Call("poll", nr, url)}
    BY <1>4 DEF PollTick
  <2>2. nr \in Numbers("poll") /\ "poll" \in Kinds BY DEF Free, Kinds
  <2>3. Undisturbed => job[url] # "idle" BY <1>4 DEF PollTick, ScreenInv, OnRecord
  <2> QED BY <1>1, <1>4, <2>1, <2>2, <2>3, AskingKeeps DEF PollTick
<1> QED BY <1>2, <1>3, <1>4

-----------------------------------------------------------------------------
(* The process *)

\* An answer of the call's kind that does not tell of a job without a record.
LEMMA AnsweringKeeps ==
    ASSUME ScreenInv, Kept, NEW c \in calls, NEW answer \in Answers, Answer(c, answer),
           disturbances' \in 0..MaxDisturbances,
           c.kind \in {"load", "reload"} => answer \in RowStates,
           Undisturbed /\ Knows([c EXCEPT !.answer = answer])
               => job'[url] # "idle" /\ (c.kind = "poll" => answer # "idle")
    PROVE  ScreenInv'
<1> DEFINE d == [c EXCEPT !.answer = answer]
<1> USE DEF Answer, historyVars
<1>1. CallOK(c) /\ c \in Calls BY DEF ScreenInv, CallOK
<1>2. d \in Calls /\ d.kind = c.kind /\ d.of = c.of /\ d.answer = answer BY <1>1 DEF Calls
<1>3. CallOK(d) BY <1>2 DEF CallOK
<1>4. \A e \in calls' : CallOK(e) BY <1>3 DEF ScreenInv
<1>5. ScreenTypeOK' BY <1>4 DEF ScreenInv, ScreenTypeOK, CallOK, Kept, ServiceType
<1>6. (Unmounted /\ LostMeansRestart)' BY DEF ScreenInv, Unmounted, LostMeansRestart
<1>7. (\A e \in calls : CallOK(e))' BY <1>4 DEF CallOK
<1>8. ASSUME Undisturbed' PROVE OnRecord'
  <2>1. Undisturbed /\ OnRecord BY <1>8 DEF Undisturbed, ScreenInv
  <2>2. url \in Incidents BY DEF ScreenInv, Unmounted, ScreenTypeOK
  <2>3. job[url] # "idle" => job'[url] # "idle" BY <2>2 DEF Kept
  <2>4. d.of = url BY <2>1, <1>2 DEF OnRecord
  <2>5. Knows(d) => job'[url] # "idle" BY <2>1
  <2>6. d.kind = "poll" => d.answer # "idle" BY <2>1, <1>2 DEF Knows
  <2>7. \A e \in calls' : e = d \/ e \in calls OBVIOUS
  <2> HIDE DEF d
  <2> QED BY <2>1, <2>3, <2>4, <2>5, <2>6, <2>7 DEF OnRecord, Knows
<1> QED BY <1>5, <1>6, <1>7, <1>8 DEF ScreenInv

\* A start that the service accepts has its job on record.
LEMMA ServeKeeps ==
    ASSUME ScreenInv, NEW c \in calls, Serve(c)
    PROVE  ScreenInv'
<1>1. /\ ServiceType /\ c.of \in Incidents /\ disturbances \in 0..MaxDisturbances
      /\ shown[c.of] \in RowStates /\ job[c.of] \in JobStates
  BY DEF ScreenInv, ScreenTypeOK, ServiceType, Calls
<1>2. Undisturbed => c.of = url /\ (Knows(c) => job[url] # "idle") BY DEF ScreenInv, OnRecord
<1>3. CASE ServeLoad(c)
  <2>1. Kept BY <1>1, <1>3, StayingKeepsRecords DEF ServeLoad
  <2>2. shown[c.of] \in Answers BY <1>1 DEF Answers
  <2>3. ~Knows([c EXCEPT !.answer = shown[c.of]]) BY <1>1, <1>3 DEF ServeLoad, Knows, ScreenInv, CallOK, Calls
  <2> QED BY <1>1, <1>3, <2>1, <2>2, <2>3, AnsweringKeeps DEF ServeLoad
<1>4. CASE ServeStatus(c)
  <2>1. Kept /\ job' = job BY <1>1, <1>4, StayingKeepsRecords DEF ServeStatus, serviceVars
  <2>2. job[c.of] \in Answers BY <1>1 DEF Answers
  <2>3. Undisturbed /\ Knows([c EXCEPT !.answer = job[c.of]]) => job[url] # "idle"
    <3>1. c \in [kind : Kinds, nr : 1..2, of : Incidents, answer : Answers]
      BY DEF ScreenInv, CallOK, Calls
    <3>2. [c EXCEPT !.answer = job[c.of]].kind = c.kind /\ [c EXCEPT !.answer = job[c.of]].answer = job[c.of]
      BY <3>1
    <3> QED BY <1>2, <1>4, <3>2 DEF ServeStatus, Knows
  <2> QED BY <1>1, <1>2, <1>4, <2>1, <2>2, <2>3, AnsweringKeeps DEF ServeStatus, Knows
<1>5. CASE ServeStart(c)
  <2>1. Kept BY <1>1, <1>5, StayingKeepsRecords, StepsKeepRecords DEF ServeStart
  <2>2. job'[c.of] # "idle" BY <1>1, <1>5 DEF ServeStart, Start, serviceVars, ServiceType
  <2>3. "accepted" \in Answers BY DEF Answers, Open
  <2> QED BY <1>1, <1>2, <1>5, <2>1, <2>2, <2>3, AnsweringKeeps DEF ServeStart
<1>6. CASE ServeAccepted(c)
  <2>1. Kept /\ job' = job BY <1>1, <1>6, StayingKeepsRecords DEF ServeAccepted, serviceVars
  <2>2. job[c.of] \in Answers BY <1>1 DEF Answers
  <2> QED BY <1>1, <1>2, <1>6, <2>1, <2>2, AnsweringKeeps DEF ServeAccepted, Knows
<1> QED BY <1>3, <1>4, <1>5, <1>6 DEF Serve

LEMMA Disturbed ==
    ASSUME ScreenTypeOK, Disturb
    PROVE  disturbances' \in 0..MaxDisturbances
<1>1. /\ disturbances \in 0..MaxDisturbances /\ MaxDisturbances \in Nat
      /\ disturbances < MaxDisturbances /\ disturbances' = disturbances + 1
  BY ScreenAssumption DEF ScreenTypeOK, Disturb
<1> QED BY <1>1

LEMMA FailKeeps ==
    ASSUME ScreenInv, NEW c \in calls, Fail(c)
    PROVE  ScreenInv'
<1> DEFINE answer == IF c.kind \in {"load", "reload"} THEN "absent" ELSE "error"
<1>1. ServiceType /\ disturbances' \in 0..MaxDisturbances
  BY Disturbed DEF ScreenInv, ScreenTypeOK, ServiceType, Fail
<1>2. Kept /\ job' = job BY <1>1, StayingKeepsRecords DEF Fail, serviceVars
<1>3. answer \in Answers /\ (c.kind \in {"load", "reload"} => answer \in RowStates)
  BY DEF Answers, RowStates
<1>4. Undisturbed /\ Knows([c EXCEPT !.answer = answer]) => c.kind = "poll" /\ job[url] # "idle"
  <2>1. c \in [kind : Kinds, nr : 1..2, of : Incidents, answer : Answers]
    BY DEF ScreenInv, CallOK, Calls
  <2>2. [c EXCEPT !.answer = answer].kind = c.kind /\ [c EXCEPT !.answer = answer].answer = answer
    BY <2>1
  <2>3. Knows([c EXCEPT !.answer = answer]) => c.kind = "poll" BY <2>2 DEF Knows
  <2> QED BY <2>3 DEF ScreenInv, OnRecord, Knows
<1>5. c.kind = "poll" => answer # "idle" OBVIOUS
<1>6. Answer(c, answer) BY DEF Fail
<1> HIDE DEF answer
<1> QED BY <1>1, <1>2, <1>3, <1>4, <1>5, <1>6, AnsweringKeeps

LEMMA RestartKeeps ==
    ASSUME ScreenInv, Restart
    PROVE  ScreenInv'
<1> DEFINE Cut(c) == IF c.answer = "accepted" THEN [c EXCEPT !.answer = "error"] ELSE c
<1>1. ASSUME NEW c \in calls PROVE CallOK(Cut(c))
  <2>1. CallOK(c) /\ "error" \in Answers BY DEF ScreenInv, Answers
  <2>2. CASE c.answer = "accepted"
    <3>1. c \in [kind : Kinds, nr : 1..2, of : Incidents, answer : Answers] BY <2>1 DEF CallOK, Calls
    <3>2. [c EXCEPT !.answer = "error"] \in Calls BY <2>1, <3>1 DEF Calls
    <3> QED BY <2>1, <2>2, <3>1, <3>2 DEF CallOK, RowStates
  <2> QED BY <2>1, <2>2
<1>2. \A c \in calls' : CallOK(c)
  <2>1. calls' = {Cut(c) : c \in calls} BY DEF Restart
  <2> HIDE DEF Cut
  <2> QED BY <1>1, <2>1
<1>3. ScreenTypeOK'
  <2>1. calls' \subseteq Calls BY <1>2 DEF CallOK
  <2>2. disturbances' \in 0..MaxDisturbances BY Disturbed DEF ScreenInv, Restart
  <2>3. job' \in [Incidents -> JobStates] /\ stored' \in [Incidents -> BOOLEAN] /\ shown' = shown
    BY DEF Restart, Forget, JobStates, ScreenInv, ScreenTypeOK
  <2> QED BY <2>1, <2>2, <2>3 DEF Restart, ScreenInv, ScreenTypeOK
<1>4. (Unmounted /\ LostMeansRestart)'
  BY DEF Restart, ScreenInv, Unmounted, LostMeansRestart
<1>5. (\A c \in calls : CallOK(c))' BY <1>2 DEF CallOK
<1>6. Undisturbed' => OnRecord'
  BY DEF Restart, ScreenInv, Unmounted, Undisturbed, OnRecord
<1> QED BY <1>3, <1>4, <1>5, <1>6 DEF ScreenInv

-----------------------------------------------------------------------------
(* The page, as the answers arrive *)

\* What the page does with an answer: it may ask for the incident once more.
LEMMA ActingKeeps ==
    ASSUME ScreenInv, url # None,
           \A e \in calls' : e \in calls \/ \E nr \in Numbers("reload") : e = Call("reload", nr, url),
           inc' \in Loaded \cup {None}, data' \in BOOLEAN, loading' \in BOOLEAN,
           reanalyzing' \in BOOLEAN, reanalyzeErr' \in {"", "lost", "failed"},
           Undisturbed => /\ inc' # None => inc'.of = url
                          /\ reanalyzing' => job[url] # "idle"
                          /\ reanalyzeErr' # "lost",
           UNCHANGED <<serviceVars, url, disturbances, historyVars>>
    PROVE  ScreenInv'
<1>0. url \in Incidents BY DEF ScreenInv, ScreenTypeOK
<1>1. \A nr \in Numbers("reload") :
          /\ CallOK(Call("reload", nr, url))
          /\ Call("reload", nr, url).of = url
          /\ Call("reload", nr, url).kind = "reload"
  BY <1>0, NewCall DEF Kinds, Call
<1>2. \A e \in calls' : e \in calls \/ (CallOK(e) /\ e.of = url /\ e.kind = "reload") BY <1>1
<1> USE DEF serviceVars, historyVars
<1>3. \A e \in calls' : CallOK(e) BY <1>2 DEF ScreenInv
<1>4. ScreenTypeOK' BY <1>3 DEF ScreenInv, ScreenTypeOK, CallOK
<1>5. (Unmounted /\ LostMeansRestart)' BY DEF Unmounted, LostMeansRestart, Undisturbed
<1>6. (\A e \in calls : CallOK(e))' BY <1>3 DEF CallOK
<1>7. ASSUME Undisturbed' PROVE OnRecord'
  <2>1. Undisturbed /\ OnRecord BY <1>7 DEF Undisturbed, ScreenInv
  <2> QED BY <1>2, <2>1 DEF OnRecord, Knows
<1> QED BY <1>4, <1>5, <1>6, <1>7 DEF ScreenInv

LEMMA ArriveKeeps ==
    ASSUME ScreenInv, NEW c \in calls, Arrive(c)
    PROVE  ScreenInv'
<1>1. /\ url # None /\ c.of \in Incidents
      /\ inc \in Loaded \cup {None} /\ data \in BOOLEAN /\ loading \in BOOLEAN
      /\ reanalyzing \in BOOLEAN /\ reanalyzeErr \in {"", "lost", "failed"}
  BY DEF ScreenInv, ScreenTypeOK, Unmounted, Calls
<1>2. Undisturbed => /\ c.of = url
                     /\ Knows(c) => job[url] # "idle"
                     /\ c.kind = "poll" => c.answer # "idle"
                     /\ inc # None => inc.of = url
                     /\ reanalyzing => job[url] # "idle"
                     /\ reanalyzeErr # "lost"
  BY DEF ScreenInv, OnRecord, Undisturbed, LostMeansRestart
<1>3. Answered(c, "load") \/ Answered(c, "reload")
      => Incident(c) \in Loaded \cup {None} /\ (Incident(c) # None => Incident(c).of = c.of)
  BY DEF Answered, Incident, Loaded, ScreenInv, CallOK, Calls, Open
<1>4. CASE Show(c)
  <2>1. Answered(c, "load") /\ calls' \subseteq calls BY <1>4 DEF Show
  <2>2. inc' \in {inc, Incident(c)} /\ data' \in BOOLEAN /\ loading' \in BOOLEAN BY <1>4 DEF Show
  <2>3. UNCHANGED <<serviceVars, url, reanalyzing, reanalyzeErr, disturbances, historyVars>>
    BY <1>4 DEF Show
  <2>4. inc' \in Loaded \cup {None} BY <1>1, <1>3, <2>1, <2>2
  <2>5. Undisturbed => (inc' # None => inc'.of = url) BY <1>2, <1>3, <2>1, <2>2
  <2> QED BY <1>1, <1>2, <2>1, <2>2, <2>3, <2>4, <2>5, ActingKeeps
<1>5. CASE Resume(c)
  <2>1. calls' \subseteq calls /\ reanalyzing' \in BOOLEAN BY <1>1, <1>5 DEF Resume
  <2>2. Undisturbed /\ reanalyzing' => job[url] # "idle"
    BY <1>1, <1>2, <1>5 DEF Resume, Answered, Knows
  <2> QED BY <1>1, <1>2, <1>5, <2>1, <2>2, ActingKeeps DEF Resume
<1>6. CASE Follow(c)
  <2>1. calls' \subseteq calls BY <1>6 DEF Follow
  <2> QED BY <1>1, <1>2, <1>6, <2>1, ActingKeeps DEF Follow
<1>7. CASE FollowDone(c)
  <2>1. \A e \in calls' : e \in calls \/ \E nr \in Numbers("reload") : e = Call("reload", nr, url)
    BY <1>7 DEF FollowDone, Free
  <2> QED BY <1>1, <1>2, <1>7, <2>1, ActingKeeps DEF FollowDone
<1>8. CASE FollowEnd(c)
  <2>1. calls' \subseteq calls /\ Undisturbed => c.answer # "idle" BY <1>2, <1>8 DEF FollowEnd, Answered
  <2>2. calls' \subseteq calls /\ reanalyzing' = FALSE /\ reanalyzeErr' \in {"lost", "failed"}
    BY <1>8 DEF FollowEnd
  <2>3. Undisturbed => reanalyzeErr' # "lost" BY <1>2, <1>8 DEF FollowEnd, Answered
  <2> QED BY <1>1, <1>2, <1>8, <2>2, <2>3, ActingKeeps DEF FollowEnd
<1>9. CASE Reload(c)
  <2>1. Answered(c, "reload") /\ calls' \subseteq calls /\ inc' = Incident(c) BY <1>9 DEF Reload
  <2> QED BY <1>1, <1>2, <1>3, <1>9, <2>1, ActingKeeps DEF Reload
<1>10. CASE Started(c)
  <2>1. calls' \subseteq calls /\ reanalyzing' \in BOOLEAN BY <1>10 DEF Started
  <2>2. Knows(c) BY <1>10 DEF Started, Answered, Knows, Open
  <2>3. Undisturbed => job[url] # "idle" BY <1>2, <2>2
  <2> QED BY <1>1, <1>2, <1>10, <2>1, <2>3, ActingKeeps DEF Started
<1>11. CASE Refused(c)
  <2>1. calls' \subseteq calls BY <1>11 DEF Refused
  <2> QED BY <1>1, <1>2, <1>11, <2>1, ActingKeeps DEF Refused
<1> QED BY <1>4, <1>5, <1>6, <1>7, <1>8, <1>9, <1>10, <1>11 DEF Arrive

-----------------------------------------------------------------------------
(* Every step *)

LEMMA ScreenNextKeeps == ScreenInv /\ [ScreenNext]_screenVars => ScreenInv'
<1> SUFFICES ASSUME ScreenInv, [ScreenNext]_screenVars PROVE ScreenInv' OBVIOUS
<1>1. ServiceType /\ disturbances \in 0..MaxDisturbances
  BY DEF ScreenInv, ScreenTypeOK, ServiceType
<1>2. ASSUME NEW i \in Incidents, EndJob(i) PROVE ScreenInv'
  <2>1. Kept BY <1>1, <1>2, StepsKeepRecords DEF EndJob
  <2> QED BY <1>1, <1>2, <2>1, ServiceKeeps DEF EndJob
<1>3. ASSUME NEW i \in Incidents, Elsewhere(i) PROVE ScreenInv'
  <2>1. Kept BY <1>1, <1>3, StepsKeepRecords DEF Elsewhere
  <2>2. disturbances' \in 0..MaxDisturbances BY <1>3, Disturbed DEF ScreenInv, Elsewhere
  <2> QED BY <1>3, <2>1, <2>2, ServiceKeeps DEF Elsewhere
<1>4. CASE UNCHANGED screenVars
  <2>1. Kept BY <1>1, <1>4, StayingKeepsRecords DEF screenVars
  <2> QED BY <1>1, <1>4, <2>1, ServiceKeeps DEF screenVars
<1> QED BY <1>2, <1>3, <1>4, VisitKeeps, JumpKeeps, LeaveKeeps, OperatorKeeps, RestartKeeps,
           ServeKeeps, FailKeeps, ArriveKeeps DEF ScreenNext

\* The inductive invariant holds, whatever the order of answers, clicks and restarts.
THEOREM ScreenInvariant == ScreenSpec => []ScreenInv
BY ScreenInitInv, ScreenNextKeeps, PTL DEF ScreenSpec

\* Type correctness of the page, the calls and the service under them.
THEOREM ScreenTypes == ScreenSpec => []ScreenTypeOK
<1>1. ScreenInv => ScreenTypeOK BY DEF ScreenInv
<1> QED BY <1>1, ScreenInvariant, PTL

\* A page of one incident says that the process restarted (IncidentDetail.tsx:82)
\* only if it did, for any number of incidents, clicks and disturbances.
THEOREM LostIsRestart == ScreenSpec => []LostMeansRestart
<1>1. ScreenInv => LostMeansRestart BY DEF ScreenInv
<1> QED BY <1>1, ScreenInvariant, PTL

-----------------------------------------------------------------------------
(* The page and the service it is put in front of *)

LEMMA ScreenStepUsesService ==
    ASSUME ScreenInv, [ScreenNext]_screenVars
    PROVE  [ServiceNext]_serviceVars
<1>1. ASSUME NEW i \in Incidents, EndJob(i) \/ Elsewhere(i) PROVE ServiceNext
  BY <1>1 DEF EndJob, Elsewhere, End, ServiceNext
<1>2. ASSUME NEW i \in Incidents, Visit(i) \/ Jump(i) PROVE UNCHANGED serviceVars
  BY <1>2 DEF Visit, Jump
<1>3. CASE Leave \/ Click \/ LoadAgain \/ PollTick
  BY <1>3 DEF Leave, Click, LoadAgain, PollTick
<1>4. CASE Restart BY <1>4 DEF Restart, ServiceNext
<1>5. ASSUME NEW c \in calls, Serve(c) PROVE [ServiceNext]_serviceVars
  <2>1. c.of \in Incidents BY DEF ScreenInv, CallOK, Calls
  <2>2. CASE ServeStart(c) BY <2>1, <2>2 DEF ServeStart, ServiceNext
  <2>3. CASE ServeLoad(c) \/ ServeStatus(c) \/ ServeAccepted(c)
    BY <2>3 DEF ServeLoad, ServeStatus, ServeAccepted
  <2> QED BY <1>5, <2>2, <2>3 DEF Serve
<1>6. ASSUME NEW c \in calls, Fail(c) \/ Arrive(c) PROVE UNCHANGED serviceVars
  BY <1>6 DEF Fail, Arrive, Show, Resume, Follow, FollowDone, FollowEnd, Reload, Started, Refused
<1>7. CASE UNCHANGED screenVars BY <1>7 DEF screenVars, serviceVars
<1> QED BY <1>1, <1>2, <1>3, <1>4, <1>5, <1>6, <1>7 DEF ScreenNext

\* From the rows it finds on, the page and its calls do with the incidents only
\* what the service offers: what is proved of the page holds in front of the
\* pipeline, which implements the service (PipelineServes).
THEOREM ScreenUsesService == ScreenSpec => [][ServiceNext]_serviceVars
<1>1. ScreenInv /\ [ScreenNext]_screenVars => [ServiceNext]_serviceVars BY ScreenStepUsesService
<1> QED BY <1>1, ScreenInvariant, PTL DEF ScreenSpec
=============================================================================
