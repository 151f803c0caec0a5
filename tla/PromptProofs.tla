--------------------------- MODULE PromptProofs ----------------------------
(***************************************************************************)
(* Proofs about Prompt.  What Extract promises holds for every document,   *)
(* by the invariant of its walk (DocInv of HtmlTextProofs).  What the two  *)
(* model clients promise holds for answers of any length: a result is      *)
(* determined by the call and by the response it came from (CallInv), and  *)
(* from there it is a comparison of the two wire formats.                  *)
(***************************************************************************)
EXTENDS Prompt, HtmlTextProofs, FiniteSetTheorems

-----------------------------------------------------------------------------
(* Least elements.                                                         *)

\* A nonempty set of naturals has a least element: of the sets 0..x, one does
\* not strictly include another (FS_StrictSubsetOrderingWellFounded).
LEMMA LeastElement ==
    ASSUME NEW X, X \subseteq Nat, X # {}
    PROVE  \E x \in X : \A y \in X : x <= y
<1> DEFINE T == {0..i : i \in X}
<1>1. T \subseteq FiniteSubsetsOf(Nat)
  <2> SUFFICES ASSUME NEW i \in X PROVE 0..i \in FiniteSubsetsOf(Nat)
    OBVIOUS
  <2>1. IsFiniteSet(0..i)
    BY FS_Interval
  <2> QED
    BY <2>1 DEF FiniteSubsetsOf
<1>2. T # {}
  OBVIOUS
<1>3. PICK s \in T : \A t \in T : <<t, s>> \notin StrictSubsetOrdering(Nat)
  <2> HIDE DEF T
  <2> QED
    BY <1>1, <1>2, FS_StrictSubsetOrderingWellFounded, WFMin
<1>4. PICK x \in X : s = 0..x
  OBVIOUS
<1>5. ASSUME NEW y \in X, y < x
      PROVE  FALSE
  <2>1. 0..y \subseteq 0..x /\ 0..y # 0..x
    BY <1>5
  <2>2. <<0..y, 0..x>> \in StrictSubsetOrdering(Nat)
    BY <2>1 DEF StrictSubsetOrdering
  <2> QED
    BY <1>3, <1>4, <2>2
<1> QED
  BY <1>5

\* Min is an element of its set.
LEMMA MinIsAnElement ==
    ASSUME NEW X, X \subseteq Nat, X # {}
    PROVE  Min(X) \in X
BY LeastElement DEF Min

-----------------------------------------------------------------------------
(* The wire formats.                                                       *)

\* An answer's places and parts.
LEMMA PartsOfAnswer ==
    ASSUME NEW a \in Answers
    PROVE  /\ DOMAIN a \subseteq Nat
           /\ \A i \in DOMAIN a : a[i] \in Part
BY DEF Answers

\* An array that keeps all calls of the answer yields the promised one.
LEMMA FirstCallOfAnswer ==
    ASSUME answer \in Answers, call.method = "Tool",
           NEW parts, DOMAIN parts \subseteq DOMAIN answer,
           \A i \in DOMAIN parts : parts[i] = answer[i],
           \A i \in DOMAIN answer : answer[i].kind = "call" => i \in DOMAIN parts
    PROVE  FirstCall(parts) = Promised
<1> DEFINE calls == {i \in DOMAIN parts : parts[i].kind = "call" /\ parts[i].tool = "forced"}
           forced == {i \in DOMAIN answer : answer[i].tool = "forced"}
<1>1. calls = forced
  BY PartsOfAnswer DEF Part
<1>2. CASE forced = {}
  BY <1>1, <1>2 DEF FirstCall, Promised
<1>3. CASE forced # {}
  <2>1. Min(forced) \in forced
    BY <1>3, PartsOfAnswer, MinIsAnElement
  <2>2. parts[Min(forced)] = answer[Min(forced)]
    BY <1>1, <2>1
  <2>3. Restrict(parts, {Min(forced)}) = Restrict(answer, {Min(forced)})
    BY <2>2 DEF Restrict
  <2> QED
    BY <1>1, <1>3, <2>2, <2>3 DEF FirstCall, Promised, Unmarshal
<1> QED
  BY <1>2, <1>3

\* From a whole answer, the client of Anthropic returns what Client promises.
LEMMA AnthropicKeepsPromise ==
    ASSUME answer \in Answers, call \in Call, Sound
    PROVE  AnthropicResult = Promised
<1>1. ~AnthropicRefuses /\ Blocks = answer
  BY DEF Sound, AnthropicRefuses, Undecodable, Blocks
<1>2. CASE call.method = "Text"
  BY <1>1, <1>2 DEF AnthropicResult, Promised
<1>3. CASE call.method = "Tool"
  <2>1. FirstCall(answer) = Promised
    BY <1>3, FirstCallOfAnswer
  <2> QED
    BY <1>1, <1>3, <2>1 DEF AnthropicResult
<1> QED
  BY <1>2, <1>3 DEF Call

\* And so does the client of Ollama, whose format parts the calls from the texts.
LEMMA OllamaKeepsPromise ==
    ASSUME answer \in Answers, call \in Call, Sound
    PROVE  OllamaResult = Promised
<1> DEFINE calls == OfKind(answer, "call")
<1>1. /\ ~OllamaRefuses
      /\ OaChoices # <<>>
      /\ OaChoices[1].content = OfKind(answer, "text")
      /\ OaChoices[1].tool_calls = calls
  BY DEF Sound, OllamaRefuses, Undecodable, OaChoices
<1>2. CASE call.method = "Text"
  BY <1>1, <1>2 DEF OllamaResult, Promised
<1>3. CASE call.method = "Tool"
  <2>1. /\ DOMAIN calls = {i \in DOMAIN answer : answer[i].kind = "call"}
        /\ \A i \in DOMAIN calls : calls[i] = answer[i]
    BY DEF OfKind, Restrict
  <2>2. FirstCall(calls) = Promised
    <3> HIDE DEF calls
    <3> QED
      BY <1>3, <2>1, FirstCallOfAnswer
  <2> QED
    BY <1>1, <1>3, <2>2 DEF OllamaResult
<1> QED
  BY <1>2, <1>3 DEF Call

\* What is not an answer has no blocks and no choices.
LEMMA NothingInForeignBody ==
    ASSUME call \in Call, response \in Response, ~Sound, response # None, Outcome.ok
    PROVE  /\ call = [client |-> "anthropic", method |-> "Text"]
           /\ response.status = 200 /\ response.body \in {"error", "foreign"}
           /\ ~response.long
           /\ DOMAIN Outcome.value = {}
<1>1. CASE call.client = "anthropic"
  <2>1. /\ ~AnthropicRefuses
        /\ response.status = 200 /\ response.body \in {"error", "foreign"}
        /\ ~response.long
        /\ Blocks = <<>>
    BY <1>1 DEF Outcome, AnthropicResult, Failed, AnthropicRefuses, Undecodable,
                Sound, Response, Blocks
  <2>2. call.method = "Text"
    <3>1. ~FirstCall(<<>>).ok
      BY DEF FirstCall, Failed
    <3> QED
      BY <1>1, <2>1, <3>1 DEF Outcome, AnthropicResult
  <2>3. Outcome = Returned(OfKind(<<>>, "text"))
    BY <1>1, <2>1, <2>2 DEF Outcome, AnthropicResult
  <2> QED
    BY <1>1, <2>1, <2>2, <2>3 DEF Call, Returned, OfKind, Restrict
<1>2. CASE call.client = "ollama"
  <2>1. OllamaRefuses \/ OaChoices = <<>>
    BY DEF OllamaRefuses, Undecodable, Sound, Response, OaChoices
  <2> QED
    BY <1>2, <2>1 DEF Outcome, OllamaResult, Failed, Call
<1> QED
  BY <1>1, <1>2 DEF Call

-----------------------------------------------------------------------------
(* A call, from Send to Forget.                                            *)

\* The steps of a call, as Prompt takes them.
CallNext ==
    \/ \E c \in Call : Send(c)
    \/ Respond \/ BreakOff \/ Return \/ Forget

\* What a call has come to, and from what.
CallInv ==
    /\ call = None => response = None /\ result = None
    /\ call # None => call \in Call
    /\ answer \in Answers
    /\ response # None => response \in Response
    /\ result # None =>
          \/ result = Failed("do")
          \/ response # None /\ result = Outcome

LEMMA OutcomeUnchanged ==
    UNCHANGED <<call, answer, response>> => UNCHANGED Outcome
BY DEF Outcome, AnthropicResult, OllamaResult, AnthropicRefuses, OllamaRefuses,
       Undecodable, Blocks, OaChoices, FirstCall, Unmarshal

LEMMA CallInvStep == CallInv /\ [CallNext]_call_vars => CallInv'
<1> SUFFICES ASSUME CallInv, [CallNext]_call_vars
             PROVE  CallInv'
  OBVIOUS
<1>1. ASSUME NEW c \in Call, Send(c)
      PROVE  CallInv'
  BY <1>1 DEF CallInv, Send
<1>2. CASE Respond
  BY <1>2 DEF CallInv, Respond
<1>3. CASE BreakOff
  BY <1>3 DEF CallInv, BreakOff
<1>4. CASE Return
  <2>1. Outcome' = Outcome
    BY <1>4, OutcomeUnchanged DEF Return
  <2> QED
    BY <1>4, <2>1 DEF CallInv, Return
<1>5. CASE Forget
  <2>1. <<>> \in Answers
    BY PartsAssumption DEF Answers
  <2> QED
    BY <1>5, <2>1 DEF CallInv, Forget
<1>6. CASE UNCHANGED call_vars
  <2>1. Outcome' = Outcome
    BY <1>6, OutcomeUnchanged DEF call_vars
  <2> QED
    BY <1>6, <2>1 DEF CallInv, call_vars
<1> QED
  BY <1>1, <1>2, <1>3, <1>4, <1>5, <1>6 DEF CallNext

LEMMA PromptTakesCallSteps == [PromptNext]_prompt_vars => [CallNext]_call_vars
BY DEF PromptNext, prompt_vars, CallNext, AskForExtraction, NothingToExtract, AskForText,
       call_vars

LEMMA CallInvariant == PromptSpec => []CallInv
<1>1. PromptInit => CallInv
  <2>1. <<>> \in Answers
    BY PartsAssumption DEF Answers
  <2> QED
    BY <2>1 DEF PromptInit, CallInit, CallInv
<1> QED
  BY <1>1, CallInvStep, PromptTakesCallSteps, PTL DEF PromptSpec

\* Whichever provider is set, a whole answer gives the same texts, the same
\* forced call or the same error, for answers of any length: Client's two
\* implementations in llm.go and ollama.go cannot be told apart by their results.
THEOREM ProvidersAgree == PromptSpec => []SameThroughEither
<1>1. CallInv => SameThroughEither
  <2> SUFFICES ASSUME CallInv, result # None, Sound
               PROVE  result \in {Promised, Failed("do")}
    BY DEF SameThroughEither
  <2>1. CASE result = Outcome
    <3>1. call \in Call
      BY DEF CallInv, Sound
    <3> QED
      BY <2>1, <3>1, AnthropicKeepsPromise, OllamaKeepsPromise DEF CallInv, Outcome
  <2> QED
    BY <2>1 DEF CallInv
<1> QED
  BY <1>1, CallInvariant, PTL

\* No error page, error object, cut or foreign body is taken for an answer, but
\* for Anthropic's Text on a 200 (do of llm.go and of ollama.go).
THEOREM OnlyAnswersSucceed == PromptSpec => []SuccessIsAnAnswer
<1>1. CallInv => SuccessIsAnAnswer
  <2> SUFFICES ASSUME CallInv, result # None, result.ok, ~Sound
               PROVE  /\ call = [client |-> "anthropic", method |-> "Text"]
                      /\ response.status = 200 /\ response.body \in {"error", "foreign"}
                      /\ ~response.long
                      /\ DOMAIN result.value = {}
    BY DEF SuccessIsAnAnswer
  <2>1. result = Outcome /\ response # None
    BY DEF CallInv, Failed
  <2>2. call \in Call /\ response \in Response
    BY <2>1 DEF CallInv
  <2> QED
    BY <2>1, <2>2, NothingInForeignBody
<1> QED
  BY <1>1, CallInvariant, PTL

-----------------------------------------------------------------------------
(* The document.                                                           *)

LEMMA PromptDocInvariant == PromptSpec => []DocInv
<1>1. PromptInit => DocInv
  BY DocInitInv DEF PromptInit
<1>2. ASSUME DocInv, [PromptNext]_prompt_vars
      PROVE  DocInv'
  <2>1. CASE DocNext
    BY <1>2, <2>1, DocStepInv
  <2>2. CASE extracted # NULL /\ Consume
    BY <1>2, <2>2, NewDocumentInv DEF Consume
  <2>3. CASE UNCHANGED doc_vars
    BY <1>2, <2>3, DocStutterInv
  <2> QED
    BY <1>2, <2>1, <2>2, <2>3
    DEF PromptNext, AskForExtraction, NothingToExtract, AskForText, prompt_vars
<1> QED
  BY <1>1, <1>2, PTL DEF PromptSpec

\* Candidate [N] of the prompt is the N-th visible image of the document, with the
\* nearest link around it, for documents of any size and nesting: what the nested
\* extractors of anchor collected is in document order when it is joined.
THEOREM CandidatesInOrder == PromptSpec => []CandidatesFollowDocument
BY PromptDocInvariant, PTL DEF DocInv

\* Every visible word reaches the prompt once, in document order and in exactly
\* its own usable links, and nothing else does: walk, anchor and normalize lose
\* nothing and tear no link apart, however links and blocks are nested.
THEOREM WordsInOrder == PromptSpec => []TextFollowsDocument
BY PromptDocInvariant, PTL DEF DocInv

\* No paragraph holds words from both sides of the beginning or the end of a block
\* outside the links: the line breaks walk writes before and defers after a block
\* are enough.
THEOREM SectionsStayApart == PromptSpec => []BlocksStayApart
BY PromptDocInvariant, PTL DEF DocInv
=============================================================================
