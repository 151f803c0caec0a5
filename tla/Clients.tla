------------------------------ MODULE Clients -------------------------------
(***************************************************************************)
(* One call to a model: the two clients of internal/llm, HTTP for          *)
(* Anthropic and Ollama for a local server, behind the interface Client.   *)
(*                                                                         *)
(* The model's answer is a sequence of parts.  Each server puts it into a  *)
(* format of its own (external), and each client takes it out again.       *)
(***************************************************************************)
EXTENDS Naturals, Sequences, FiniteSetsExt, Functions

CONSTANTS
    MaxParts,  \* bound: parts of an answer
    None

ASSUME PartsAssumption == MaxParts \in Nat

\* A text, or a call of a tool; args: whether they unmarshal into out.
Part ==
    [kind : {"text"}, tool : {""}, args : {""}]
    \cup [kind : {"call"}, tool : {"forced", "other"}, args : {"fit", "unfit"}]

Answers == UNION {[1..n -> Part] : n \in 0..MaxParts}

\* What comes back: "foreign" is JSON that is neither an answer nor an error
\* object, "long" goes beyond the LimitReader.
Response ==
    [status : {200, 500}, body : {"answer", "error", "foreign", "noise"},
     long : BOOLEAN]

VARIABLES
    call,      \* the client and the method of the call under way
    answer,    \* the model's parts
    response,  \* what the network delivers, None before
    result     \* what the method returns, None before

call_vars == <<call, answer, response, result>>

Call == [client : {"anthropic", "ollama"}, method : {"Text", "Tool"}]

Failed(reason) == [ok |-> FALSE, value |-> reason]
Returned(value) == [ok |-> TRUE, value |-> value]

CallInit ==
    /\ call = None
    /\ answer = <<>>
    /\ response = None
    /\ result = None

-----------------------------------------------------------------------------
(* The wire formats (external).  An array keeps the places its parts have  *)
(* in the answer, and thereby their order.                                 *)

OfKind(parts, kind) == Restrict(parts, {i \in DOMAIN parts : parts[i].kind = kind})

\* content of apiResponse: every part is a block.
Blocks == IF response.body = "answer" THEN answer ELSE <<>>

\* choices of oaResponse: one, with the texts joined and the calls apart.
OaChoices ==
    IF response.body = "answer"
    THEN <<[content |-> OfKind(answer, "text"), tool_calls |-> OfKind(answer, "call")]>>
    ELSE <<>>

-----------------------------------------------------------------------------
(* What the clients make of a response.                                    *)

Undecodable == response.long \/ response.body = "noise"

\* Mutant: the status is left to the decoder.
AnthropicRefusesUndecodable == Undecodable

\* do of llm.go: the status is looked at first, an error object is not.
AnthropicRefuses == response.status # 200 \/ Undecodable

\* do of ollama.go: decode, then the error object, then the status.
OllamaRefuses == Undecodable \/ response.body = "error" \/ response.status # 200

\* json.Unmarshal into out, the arguments of the call at place i.
Unmarshal(parts, i) ==
    IF parts[i].args = "fit" THEN Returned(Restrict(parts, {i}))
    ELSE Failed("arguments")

\* Mutant: the first call is taken for the forced one.
FirstCallAny(parts) ==
    LET calls == {i \in DOMAIN parts : parts[i].kind = "call"}
    IN  IF calls = {} THEN Failed("ErrNoToolCall") ELSE Unmarshal(parts, Min(calls))

\* The loops of Tool: the first call of the forced tool decides.
FirstCall(parts) ==
    LET calls == {i \in DOMAIN parts : parts[i].kind = "call" /\ parts[i].tool = "forced"}
    IN  IF calls = {} THEN Failed("ErrNoToolCall") ELSE Unmarshal(parts, Min(calls))

AnthropicResult ==
    IF AnthropicRefuses THEN Failed("do")
    ELSE IF call.method = "Text" THEN Returned(OfKind(Blocks, "text"))
         ELSE FirstCall(Blocks)

OllamaResult ==
    IF OllamaRefuses THEN Failed("do")
    ELSE IF call.method = "Text"
         THEN IF OaChoices = <<>> THEN Failed("no choices")
              ELSE Returned(OaChoices[1].content)
         ELSE IF OaChoices = <<>> THEN Failed("ErrNoToolCall")
              ELSE FirstCall(OaChoices[1].tool_calls)

-----------------------------------------------------------------------------
Send(c) ==
    /\ call = None
    /\ call' = c
    /\ UNCHANGED <<answer, response, result>>

\* The server (external).
Respond ==
    /\ call # None /\ response = None /\ result = None
    /\ answer' \in Answers
    /\ response' \in Response
    /\ UNCHANGED <<call, result>>

\* The client's Timeout, the caller's context or the connection ends the call,
\* before the answer or in the middle of it.
BreakOff ==
    /\ call # None /\ result = None
    /\ result' = Failed("do")
    /\ UNCHANGED <<call, answer, response>>

Outcome == IF call.client = "anthropic" THEN AnthropicResult ELSE OllamaResult

Return ==
    /\ response # None /\ result = None
    /\ result' = Outcome
    /\ UNCHANGED <<call, answer, response>>

\* The caller has the result.
Forget ==
    /\ result # None
    /\ call' = None /\ answer' = <<>> /\ response' = None /\ result' = None

-----------------------------------------------------------------------------
(* Properties.                                                             *)

\* The response is the model's answer, whole.
Sound ==
    /\ response # None
    /\ response.status = 200 /\ response.body = "answer" /\ ~response.long

\* What Client promises of an answer, whoever gave it.
Promised ==
    IF call.method = "Text" THEN Returned(OfKind(answer, "text"))
    ELSE LET forced == {i \in DOMAIN answer : answer[i].tool = "forced"}
         IN  IF forced = {} THEN Failed("ErrNoToolCall")
             ELSE IF answer[Min(forced)].args = "fit"
                  THEN Returned(Restrict(answer, {Min(forced)}))
                  ELSE Failed("arguments")

\* Switching the provider changes nothing: from the same answer either client
\* returns the same texts, the same forced call's arguments or the same error,
\* unless the call broke off.
SameThroughEither ==
    result # None /\ Sound => result \in {Promised, Failed("do")}

\* A call succeeds with a model's answer, delivered whole: no error page, error
\* object, cut or foreign body is taken for one.  But Anthropic's Text takes
\* any JSON that comes with a 200, and finds it empty.
SuccessIsAnAnswer ==
    result # None /\ result.ok /\ ~Sound =>
        /\ call = [client |-> "anthropic", method |-> "Text"]
        /\ response.status = 200 /\ response.body \in {"error", "foreign"}
        /\ ~response.long
        /\ DOMAIN result.value = {}
=============================================================================
