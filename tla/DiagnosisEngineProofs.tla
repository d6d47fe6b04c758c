------------------------ MODULE DiagnosisEngineProofs ------------------------
(* Theorems about DiagnosisEngine, for any number of rounds and any replies. *)
EXTENDS DiagnosisEngine, TLAPS

-----------------------------------------------------------------------------
(* The bound on the calls needs to know how they are spent: one per round, *)
(* one for the forced answer, one for the verification.                    *)

CallsInv ==
    /\ stage = "single" => calls = 0
    /\ stage = "loop" => calls = round /\ round < MaxIter
    /\ stage = "forced" => calls = round
    /\ stage = "verify" => calls \in 1..(MaxIter + 1)

\* Before the draft there is no root cause.
NothingYet == stage \in {"verify", "done"} \/ result = Blank

EngineInv == TypeOK /\ CallsInv /\ NoCauseDropped /\ NothingYet

\* What a reply that names a cause offers.
LEMMA OfferIsCause ==
    ASSUME NEW reply \in Replies
    PROVE  /\ RootCause(reply) \in Causes \cup {Blank}
           /\ Offer(reply) \subseteq Causes
           /\ NamesCause(reply) => RootCause(reply) \in Causes
           /\ RootCause(reply) = Blank \/ ~NamesCause(reply) \/ IsToolRequest(reply) =>
                 Offer(reply) = {}
BY EngineAssumption DEF Replies, RootCause, Offer, NamesCause, IsToolRequest

Message == {"system", "evidence", "toolRequest", "toolResult", "strayReply", "correction", "stop"}

\* What the conversation may be extended with.
LEMMA StillMessages ==
    ASSUME messages \in Seq(Message), NEW x \in Message, NEW y \in Message
    PROVE  messages \o <<x, y>> \in Seq(Message) /\ Append(messages, x) \in Seq(Message)
OBVIOUS

LEMMA EngineInit == ASSUME Init PROVE EngineInv
BY EngineAssumption DEF Init, EngineInv, TypeOK, CallsInv, NoCauseDropped, NothingYet

\* Every step keeps the invariant.
LEMMA EngineStep == ASSUME EngineInv, [Next]_vars PROVE EngineInv'
<1> USE EngineAssumption DEF EngineInv, TypeOK, CallsInv, NoCauseDropped, NothingYet
<1>m. messages \in Seq(Message) BY DEF Message
<1>t. {"toolRequest", "toolResult", "strayReply", "correction", "stop"} \subseteq Message BY DEF Message
<1>1. CASE CallFails BY <1>1 DEF CallFails
<1>2. CASE VerifyFails BY <1>2 DEF VerifyFails
<1>3. ASSUME NEW reply \in Replies, Single(reply) PROVE EngineInv'
  <2>1. CASE IsDiagnosis(reply)
    <3>1. result' \in Causes \cup {Blank} /\ offered' \subseteq Causes /\ (result' = Blank => offered' = offered)
      BY <1>3, <2>1, OfferIsCause DEF Single, Draft
    <3>2. calls' = 1 /\ offered = {} BY <1>3 DEF Single
    <3> QED BY <1>3, <2>1, <3>1, <3>2 DEF Single, Draft
  <2>2. CASE ~IsDiagnosis(reply)
    <3>1. offered' = offered BY <1>3, <2>2, OfferIsCause DEF Single, Reject, NamesCause
    <3> QED BY <1>3, <2>2, <3>1 DEF Single, Reject
  <2> QED BY <2>1, <2>2
<1>4. ASSUME NEW reply \in Replies, RunTool(reply) PROVE EngineInv'
  <2>1. messages' \in Seq(Message) BY <1>4, <1>m, <1>t, StillMessages DEF RunTool, ToolText
  <2>2. offered' = offered BY <1>4, OfferIsCause DEF RunTool
  <2> QED BY <1>4, <2>1, <2>2 DEF RunTool, NextRound, Message
<1>5. ASSUME NEW reply \in Replies, Conclude(reply) PROVE EngineInv'
  BY <1>5, OfferIsCause DEF Conclude, Draft
<1>6. ASSUME NEW reply \in Replies, Correct(reply) PROVE EngineInv'
  <2>1. messages' \in Seq(Message) BY <1>6, <1>m, <1>t, StillMessages DEF Correct
  <2>2. offered' = offered BY <1>6, OfferIsCause DEF Correct
  <2> QED BY <1>6, <2>1, <2>2 DEF Correct, NextRound, Message
<1>7. ASSUME NEW reply \in Replies, ForceAnswer(reply) PROVE EngineInv'
  <2>1. messages' \in Seq(Message) BY <1>7, <1>m, <1>t, StillMessages DEF ForceAnswer
  <2>2. CASE IsDiagnosis(reply)
    <3>1. result' \in Causes \cup {Blank} /\ offered' \subseteq Causes /\ (result' = Blank => offered' = offered)
      BY <1>7, <2>2, OfferIsCause DEF ForceAnswer, Draft
    <3>2. calls' \in 1..(MaxIter + 1) /\ offered = {} BY <1>7 DEF ForceAnswer
    <3> QED BY <1>7, <2>1, <2>2, <3>1, <3>2 DEF ForceAnswer, Draft, Message
  <2>3. CASE ~IsDiagnosis(reply)
    <3>1. offered' = offered BY <1>7, <2>3, OfferIsCause DEF ForceAnswer, Reject, NamesCause
    <3> QED BY <1>7, <2>1, <2>3, <3>1 DEF ForceAnswer, Reject, Message
  <2> QED BY <2>2, <2>3
<1>8. ASSUME NEW reply \in Replies, Verify(reply) PROVE EngineInv'
  BY <1>8, OfferIsCause DEF Verify, Offer
<1>9. CASE UNCHANGED vars BY <1>9 DEF vars
<1> QED BY <1>1, <1>2, <1>3, <1>4, <1>5, <1>6, <1>7, <1>8, <1>9 DEF Next

LEMMA EngineInvariant == Spec => []EngineInv
BY EngineInit, EngineStep, PTL DEF Spec

\* An analysis makes at most maxIter + 2 calls, whatever the model replies.
THEOREM EngineTypes == Spec => []TypeOK
BY EngineInvariant, PTL DEF EngineInv

\* An analysis ends without a root cause only if no usable reply named one.
THEOREM EngineKeepsCauses == Spec => []NoCauseDropped
BY EngineInvariant, PTL DEF EngineInv

-----------------------------------------------------------------------------
(* The engine implements BoundedAnalysis *)

LEMMA RefineInit == ASSUME Init PROVE Analysis!AnalysisInit
BY EngineAssumption DEF Init, Analysis!AnalysisInit

LEMMA RefineStep == ASSUME EngineInv, [Next]_vars
                    PROVE  [Analysis!AnalysisNext]_(Analysis!analysisVars)
<1> USE EngineAssumption DEF EngineInv, TypeOK, CallsInv, Analysis!AnalysisNext, Analysis!Investigate,
        Analysis!Verify, Analysis!analysisVars
<1>1. CASE CallFails BY <1>1 DEF CallFails
<1>2. CASE VerifyFails BY <1>2 DEF VerifyFails
<1>3. ASSUME NEW reply \in Replies, Single(reply) PROVE Analysis!AnalysisNext
  BY <1>3, OfferIsCause DEF Single, Draft, Reject
<1>4. ASSUME NEW reply \in Replies, RunTool(reply) PROVE Analysis!AnalysisNext
  BY <1>4 DEF RunTool, NextRound
<1>5. ASSUME NEW reply \in Replies, Conclude(reply) PROVE Analysis!AnalysisNext
  BY <1>5, OfferIsCause DEF Conclude, Draft
<1>6. ASSUME NEW reply \in Replies, Correct(reply) PROVE Analysis!AnalysisNext
  BY <1>6 DEF Correct, NextRound
<1>7. ASSUME NEW reply \in Replies, ForceAnswer(reply) PROVE Analysis!AnalysisNext
  BY <1>7, OfferIsCause DEF ForceAnswer, Draft, Reject
<1>8. ASSUME NEW reply \in Replies, Verify(reply) PROVE Analysis!AnalysisNext
  BY <1>8, OfferIsCause DEF Verify
<1>9. CASE UNCHANGED vars BY <1>9 DEF vars
<1> QED BY <1>1, <1>2, <1>3, <1>4, <1>5, <1>6, <1>7, <1>8, <1>9 DEF Next

\* Every run of the engine is a bounded analysis: a draft is never lost to a
\* failing verification, and the calls are bounded.
THEOREM EngineIsAnalysis == Spec => Analysis!AnalysisSpec
<1>1. Spec => []EngineInv BY EngineInvariant
<1> QED BY <1>1, RefineInit, RefineStep, PTL DEF Spec, Analysis!AnalysisSpec
=============================================================================
