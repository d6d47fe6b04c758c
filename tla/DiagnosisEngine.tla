-------------------------- MODULE DiagnosisEngine --------------------------
(***************************************************************************)
(* One run of Engine.Analyze (internal/diagnosis/engine.go): the loop in   *)
(* which the model asks for evidence with tools, the answer forced when    *)
(* the loop has used up its rounds, and the verification of what came out. *)
(* The engine has no state besides its configuration, so that analyses     *)
(* running at the same time do not meet here.                              *)
(*                                                                         *)
(* The model is external and may reply anything, or the call may fail.  A  *)
(* reply is known by what the two parsers tell apart.                      *)
(***************************************************************************)
EXTENDS Integers, Sequences

CONSTANTS
    MaxIter,    \* Engine.maxIter: rounds of the loop
    Causes,     \* root causes
    Blank       \* the empty string

ASSUME EngineAssumption ==
    /\ MaxIter \in Nat
    /\ {Blank, "absent", "empty"} \cap Causes = {}

VARIABLES
    stage,      \* single, loop, forced, verify, done or failed
    round,      \* the loop's i
    calls,      \* calls of ChatMessages so far
    messages,   \* the conversation of the investigation, by what each message is
    result,     \* the root cause of the diagnosis, once there is one
    offered     \* history: root causes in the replies so far that decode to a diagnosis

vars == <<stage, round, calls, messages, result, offered>>

-----------------------------------------------------------------------------
(* Replies and their parsers *)

\* json: there is a JSON object between the first and the last brace;
\* tool: it has a non-empty string "tool"; rootCause: its "root_cause" is
\* absent, an empty string or null ("empty"), or something with a text;
\* actionsValid: its "proposed_actions" decode.
Replies ==
    [json : BOOLEAN, tool : BOOLEAN, rootCause : {"absent", "empty"} \cup Causes,
     actionsValid : BOOLEAN]

\* (mutant) Whatever names a tool is a tool request.
ToolWheneverNamed(reply) == reply.json /\ reply.tool

\* parseToolRequest: a reply with a root_cause, even null, is an answer.
IsToolRequest(reply) == reply.json /\ reply.tool /\ reply.rootCause = "absent"

\* parseJSONResponse: any object is a diagnosis if its actions decode.
IsDiagnosis(reply) == reply.json /\ reply.actionsValid

\* asText of its root_cause.
RootCause(reply) == IF reply.rootCause \in Causes THEN reply.rootCause ELSE Blank

NamesCause(reply) == IsDiagnosis(reply) /\ RootCause(reply) # Blank

Offer(reply) == IF NamesCause(reply) THEN {RootCause(reply)} ELSE {}

-----------------------------------------------------------------------------
\* An engine with a tool runner investigates, one without asks once.
Init ==
    /\ stage \in {"single", IF MaxIter = 0 THEN "forced" ELSE "loop"}
    /\ round = 0
    /\ calls = 0
    /\ messages = <<"system", "evidence">>
    /\ result = Blank
    /\ offered = {}

\* ChatMessages returns an error: the analysis fails.
CallFails ==
    /\ stage \in {"single", "loop", "forced"}
    /\ calls' = calls + 1
    /\ stage' = "failed"
    /\ UNCHANGED <<round, messages, result, offered>>

\* A diagnosis is there; what remains is its verification.
Draft(reply) ==
    /\ stage' = "verify"
    /\ result' = RootCause(reply)
    /\ offered' = offered \cup Offer(reply)

\* The reply does not parse and there is no further attempt.
Reject(reply) ==
    /\ stage' = "failed"
    /\ offered' = offered \cup Offer(reply)
    /\ UNCHANGED result

\* analyzeSingle: one question, one answer.
Single(reply) ==
    /\ stage = "single"
    /\ calls' = calls + 1
    /\ IF IsDiagnosis(reply) THEN Draft(reply) ELSE Reject(reply)
    /\ UNCHANGED <<round, messages>>

\* (mutant) One round too many.
NextRoundLate ==
    /\ round' = round + 1
    /\ stage' = IF round' > MaxIter THEN "forced" ELSE "loop"

\* The next round, or the forced answer after the last one.
NextRound ==
    /\ round' = round + 1
    /\ stage' = IF round' < MaxIter THEN "loop" ELSE "forced"

\* ToolRunner.Run: what the tool finds, that it finds nothing, that it fails, is
\* not configured or does not exist, all is a text for the model.
ToolText == "toolResult"

\* The model asks for a tool and gets its text.
RunTool(reply) ==
    /\ stage = "loop"
    /\ IsToolRequest(reply)
    /\ calls' = calls + 1
    /\ messages' = messages \o <<"toolRequest", ToolText>>
    /\ offered' = offered \cup Offer(reply)
    /\ NextRound
    /\ UNCHANGED result

\* The model answers with a root cause: the investigation is over.
Conclude(reply) ==
    /\ stage = "loop"
    /\ ~IsToolRequest(reply)
    /\ NamesCause(reply)
    /\ calls' = calls + 1
    /\ Draft(reply)
    /\ UNCHANGED <<round, messages>>

\* Neither: it is told so and the round is spent.
Correct(reply) ==
    /\ stage = "loop"
    /\ ~IsToolRequest(reply)
    /\ ~NamesCause(reply)
    /\ calls' = calls + 1
    /\ messages' = messages \o <<"strayReply", "correction">>
    /\ offered' = offered \cup Offer(reply)
    /\ NextRound
    /\ UNCHANGED result

\* The rounds are spent: the model is told to stop, and any object in its
\* reply is the diagnosis, with a root cause or without.
ForceAnswer(reply) ==
    /\ stage = "forced"
    /\ calls' = calls + 1
    /\ messages' = Append(messages, "stop")
    /\ IF IsDiagnosis(reply) THEN Draft(reply) ELSE Reject(reply)
    /\ UNCHANGED round

\* (mutant) The reviewer's answer replaces the diagnosis even without a cause.
VerifyAcceptingAny(reply) ==
    /\ stage = "verify"
    /\ calls' = calls + 1
    /\ stage' = "done"
    /\ result' = IF IsDiagnosis(reply) THEN RootCause(reply) ELSE result
    /\ offered' = offered \cup Offer(reply)
    /\ UNCHANGED <<round, messages>>

\* verify: a reply that names a root cause replaces the diagnosis, any other
\* leaves it.
Verify(reply) ==
    /\ stage = "verify"
    /\ calls' = calls + 1
    /\ stage' = "done"
    /\ result' = IF NamesCause(reply) THEN RootCause(reply) ELSE result
    /\ offered' = offered \cup Offer(reply)
    /\ UNCHANGED <<round, messages>>

\* (mutant) A failing review fails the analysis.
ReviewAborts ==
    /\ stage = "verify"
    /\ calls' = calls + 1
    /\ stage' = "failed"
    /\ UNCHANGED <<round, messages, result, offered>>

\* The call of the verification fails: the diagnosis stays as it is.
VerifyFails ==
    /\ stage = "verify"
    /\ calls' = calls + 1
    /\ stage' = "done"
    /\ UNCHANGED <<round, messages, result, offered>>

Next ==
    \/ CallFails \/ VerifyFails
    \/ \E reply \in Replies :
          \/ Single(reply) \/ RunTool(reply) \/ Conclude(reply) \/ Correct(reply)
          \/ ForceAnswer(reply) \/ Verify(reply)

Spec == Init /\ [][Next]_vars

\* Every call returns or runs into the client's timeout of five minutes.
FairSpec == Spec /\ WF_vars(Next)

-----------------------------------------------------------------------------
(* Properties *)

\* Type correctness; the number of calls is that of the rounds and two more at most.
TypeOK ==
    /\ stage \in {"single", "loop", "forced", "verify", "done", "failed"}
    /\ round \in 0..MaxIter
    /\ calls \in 0..(MaxIter + 2)
    /\ messages \in Seq({"system", "evidence", "toolRequest", "toolResult",
                         "strayReply", "correction", "stop"})
    /\ result \in Causes \cup {Blank}
    /\ offered \subseteq Causes

\* Failing, or diagnosing without a root cause, is the last resort: then no reply
\* of the whole analysis was a diagnosis with one, be it in the loop, where it may
\* name a tool as well (engine.go:212-213), in the forced answer or in the review.
NoCauseDropped == result = Blank => offered = {}

\* What the pipeline may expect of an analysis (engine.go:114, 161: at most
\* maxIter rounds, and a failing verification keeps the original).
Analysis == INSTANCE BoundedAnalysis WITH
    Budget <- MaxIter + 2,
    left <- MaxIter + 2 - calls,
    phase <- CASE stage \in {"single", "loop", "forced"} -> "investigating"
               [] stage = "verify" -> "drafted"
               [] stage = "done" -> "diagnosed"
               [] stage = "failed" -> "failed",
    cause <- result

IsAnalysis == Analysis!FairAnalysisSpec
=============================================================================
