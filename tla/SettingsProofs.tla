--------------------------- MODULE SettingsProofs ---------------------------
(***************************************************************************)
(* Theorems about Settings for any number of forms, calls and values.      *)
(***************************************************************************)
EXTENDS Settings, TLAPS

LEMMA KeysSaved ==
    /\ Len(KeyOrder) = 5
    /\ DOMAIN KeyOrder = 1..5
    /\ \A i \in 1..5 : KeyOrder[i] \in Keys
    /\ {"llm_provider", "model_fast", "ollama_url", "ollama_model"} \subseteq Keys
<1>1. Len(KeyOrder) = 5 /\ DOMAIN KeyOrder = 1..5
  <2>1. Len(KeyOrder) = 5
    BY DEF KeyOrder
  <2>2. DOMAIN KeyOrder = 1..5
    BY DEF KeyOrder
  <2>. QED  BY <2>1, <2>2
<1>2. \A i \in 1..5 : KeyOrder[i] \in Keys
  BY <1>1 DEF Keys
<1>3. /\ KeyOrder[1] = "llm_provider" /\ KeyOrder[2] = "model_fast"
      /\ KeyOrder[4] = "ollama_url" /\ KeyOrder[5] = "ollama_model"
  BY DEF KeyOrder
<1>. QED  BY <1>1, <1>2, <1>3

\* The settings that stand for a key are a value, whether or not it has a row.
LEMMA EffectiveValue == TypeOK => \A k \in Keys : Effective(k) \in Values
BY SettingsAssumption DEF TypeOK, Effective

\* The requests of a form and of a call keep their types.
THEOREM TypeCorrect == Spec => []TypeOK
<1>1. Init => TypeOK
  <2>. SUFFICES ASSUME Init PROVE TypeOK
    OBVIOUS
  <2>1. Anthropic \in Choice
    BY SettingsAssumption, KeysSaved DEF Anthropic, Choice, CallerModel
  <2>. QED  BY <2>1, KeysSaved DEF Init, TypeOK
<1>2. TypeOK /\ [Next]_vars => TypeOK'
  <2>. SUFFICES ASSUME TypeOK, [Next]_vars PROVE TypeOK'
    OBVIOUS
  <2>. USE DEF TypeOK, post_vars, call_vars
  <2>1. CASE UNCHANGED vars
    BY <2>1 DEF vars
  <2>2. ASSUME NEW p \in Posts, NEW f \in Forms, Submit(p, f) PROVE TypeOK'
    BY <2>2, KeysSaved, SettingsAssumption DEF Submit
  <2>3. ASSUME NEW p \in Posts, NEW k \in Keys, post[p] = "saving",
               k \in DOMAIN form[p], Set(p, k)
        PROVE  /\ table' \in [Keys -> Values \cup {NULL}]
               /\ overwritten' \in [Posts -> SUBSET Keys]
               /\ window' \in [Calls -> [Keys -> SUBSET Values]]
    <3>1. form[p][k] \in Values
      BY <2>3, SettingsAssumption
    <3>2. table' \in [Keys -> Values \cup {NULL}]
      BY <2>3, <3>1 DEF Set
    <3>3. overwritten' \in [Posts -> SUBSET Keys]
      BY <2>3 DEF Set
    <3>4. window' \in [Calls -> [Keys -> SUBSET Values]]
      BY <2>3, <3>1 DEF Set
    <3>. QED  BY <3>2, <3>3, <3>4
  <2>4. ASSUME NEW p \in Posts, SaveNext(p) PROVE TypeOK'
    <3>. DEFINE k == KeyOrder[next[p]]
    <3>1. next[p] \in 1..5 /\ k \in Keys
      BY <2>4, KeysSaved DEF SaveNext
    <3>2. next' \in [Posts -> 1..(Len(KeyOrder) + 1)]
      BY <2>4, <3>1, KeysSaved DEF SaveNext
    <3>3. CASE k \in DOMAIN form[p]
      <4>1. Set(p, k) /\ post[p] = "saving"
        BY <2>4, <3>3 DEF SaveNext
      <4>. QED  BY <2>3, <2>4, <3>1, <3>2, <3>3, <4>1 DEF SaveNext
    <3>4. CASE k \notin DOMAIN form[p]
      BY <2>4, <3>2, <3>4 DEF SaveNext
    <3>. QED  BY <3>3, <3>4
  <2>5. ASSUME NEW p \in Posts, Refuse(p), post[p] # "idle"
        PROVE  /\ post' \in [Posts -> {"idle", "saving", "saved"}]
               /\ next' \in [Posts -> 1..(Len(KeyOrder) + 1)]
               /\ form' \in [Posts -> Forms \cup {NULL}]
               /\ \A q \in Posts : form'[q] = NULL <=> post'[q] = "idle"
    BY <2>5, KeysSaved DEF Refuse
  <2>6. ASSUME NEW p \in Posts, SaveFails(p) PROVE TypeOK'
    <3>. DEFINE k == KeyOrder[next[p]]
    <3>1. k \in Keys /\ k \in DOMAIN form[p] /\ post[p] = "saving"
      BY <2>6, KeysSaved DEF SaveFails
    <3>2. Refuse(p) /\ UNCHANGED call_vars
      BY <2>6 DEF SaveFails
    <3>3. CASE Set(p, k)
      BY <2>3, <2>5, <3>1, <3>2, <3>3
    <3>4. CASE UNCHANGED <<table, overwritten, window>>
      BY <2>5, <3>1, <3>2, <3>4
    <3>. QED  BY <2>6, <3>3, <3>4 DEF SaveFails
  <2>7. ASSUME NEW p \in Posts, Answer(p) PROVE TypeOK'
    <3>1. CASE Refuse(p)
      BY <2>5, <2>7, <3>1 DEF Answer
    <3>2. CASE post' = [post EXCEPT ![p] = "saved"] /\ UNCHANGED <<form, next>>
      BY <2>7, <3>2 DEF Answer
    <3>. QED  BY <2>7, <3>1, <3>2 DEF Answer
  <2>8. ASSUME NEW c \in Calls, Begin(c) PROVE TypeOK'
    BY <2>8, EffectiveValue DEF Begin, Goto
  <2>9. ASSUME NEW c \in Calls, NEW k \in Keys, NEW v \in Values, Get(c, k, v)
        PROVE  failed' \in [Calls -> BOOLEAN]
    BY <2>9 DEF Get
  <2>10. ASSUME NEW c \in Calls, ReadProvider(c) PROVE TypeOK'
    <3>1. PICK v \in Values :
             /\ Get(c, "llm_provider", v)
             /\ IF v = "ollama"
                THEN /\ Goto(c, "url")
                     /\ chosen' = [chosen EXCEPT ![c].client = "ollama"]
                ELSE Goto(c, "resolved") /\ UNCHANGED chosen
      BY <2>10 DEF ReadProvider
    <3>2. failed' \in [Calls -> BOOLEAN]
      BY <2>9, <3>1, KeysSaved
    <3>3. chosen' \in [Calls -> Choice]
      <4>1. CASE v = "ollama"
        <5>1. [chosen[c] EXCEPT !.client = "ollama"] \in Choice
          BY DEF Choice
        <5>2. chosen' = [chosen EXCEPT ![c] = [chosen[c] EXCEPT !.client = "ollama"]]
          BY <3>1, <4>1
        <5>. QED  BY <5>1, <5>2
      <4>2. CASE v # "ollama"
        BY <3>1, <4>2
      <4>. QED  BY <4>1, <4>2
    <3>4. call' \in [Calls -> {"idle", "provider", "url", "model", "resolved"}]
      BY <3>1 DEF Goto
    <3>. QED  BY <2>10, <3>2, <3>3, <3>4 DEF ReadProvider
  <2>11. ASSUME NEW c \in Calls, ReadURL(c) PROVE TypeOK'
    <3>1. PICK v \in Values : /\ Get(c, "ollama_url", v)
                              /\ chosen' = [chosen EXCEPT ![c].url = v]
      BY <2>11 DEF ReadURL
    <3>2. failed' \in [Calls -> BOOLEAN]
      BY <2>9, <3>1, KeysSaved
    <3>3. chosen' \in [Calls -> Choice]
      BY <3>1 DEF Choice
    <3>. QED  BY <2>11, <3>2, <3>3 DEF ReadURL, Goto
  <2>12. ASSUME NEW c \in Calls, ReadModel(c) PROVE TypeOK'
    <3>1. PICK v \in Values : /\ Get(c, "ollama_model", v)
                              /\ chosen' = [chosen EXCEPT ![c].model = v]
      BY <2>12 DEF ReadModel
    <3>2. failed' \in [Calls -> BOOLEAN]
      BY <2>9, <3>1, KeysSaved
    <3>3. chosen' \in [Calls -> Choice]
      BY <3>1 DEF Choice
    <3>. QED  BY <2>12, <3>2, <3>3 DEF ReadModel, Goto
  <2>13. ASSUME NEW c \in Calls, End(c) PROVE TypeOK'
    <3>1. Anthropic \in Choice
      BY SettingsAssumption, KeysSaved DEF Anthropic, Choice, CallerModel
    <3>. QED  BY <2>13, <3>1 DEF End, Goto
  <2>. QED
    BY <2>1, <2>2, <2>4, <2>6, <2>7, <2>8, <2>10, <2>11, <2>12, <2>13 DEF Next
<1>. QED  BY <1>1, <1>2, PTL DEF Spec

-----------------------------------------------------------------------------
(* Calls.                                                                  *)

\* What a call knows at each of its queries: its choice so far is Anthropic's,
\* or Ollama with a URL that was a value of the setting while the call ran, or
\* is the default if a query failed.
CallInv ==
    \A c \in Calls :
        /\ call[c] # "idle" => \A k \in Keys : Effective(k) \in window[c][k]
        /\ call[c] \in {"idle", "provider"} => chosen[c] = Anthropic /\ ~failed[c]
        /\ call[c] \in {"url", "model"} =>
              /\ chosen[c].client = "ollama"
              /\ ~failed[c] => "ollama" \in window[c]["llm_provider"]
        /\ call[c] = "model" =>
              /\ chosen[c].url # NULL
              /\ ~failed[c] => chosen[c].url \in window[c]["ollama_url"]

CallSafety == CallInv /\ NoStaleChoice /\ ModelFitsClient

\* A save only adds to the windows of running calls.
LEMMA SetKeepsCalls ==
    ASSUME TypeOK, CallSafety, NEW p \in Posts, NEW k \in Keys,
           post[p] = "saving", k \in DOMAIN form[p], Set(p, k),
           UNCHANGED call_vars
    PROVE  CallSafety'
<1>. DEFINE x == form[p][k]
<1>1. x \in Values /\ x # NULL
  BY SettingsAssumption DEF TypeOK
<1>2. \A j \in Keys : Effective(j)' = IF j = k THEN x ELSE Effective(j)
  BY <1>1 DEF Effective, Set, TypeOK
<1>3. \A c \in Calls, j \in Keys :
         /\ window[c][j] \subseteq window'[c][j]
         /\ window'[c][j] \subseteq window[c][j] \cup {x}
         /\ call[c] # "idle" /\ j = k => x \in window'[c][j]
         /\ call[c] # "idle" /\ j # k => window'[c][j] = window[c][j]
  BY DEF Set, TypeOK
<1>4. CallInv'
  <2>. SUFFICES ASSUME NEW c \in Calls
       PROVE  /\ call[c] # "idle" => \A j \in Keys : Effective(j)' \in window'[c][j]
              /\ call[c] \in {"idle", "provider"} => chosen[c] = Anthropic /\ ~failed[c]
              /\ call[c] \in {"url", "model"} =>
                    /\ chosen[c].client = "ollama"
                    /\ ~failed[c] => "ollama" \in window'[c]["llm_provider"]
              /\ call[c] = "model" =>
                    /\ chosen[c].url # NULL
                    /\ ~failed[c] => chosen[c].url \in window'[c]["ollama_url"]
    BY DEF CallInv, call_vars
  <2>1. call[c] # "idle" => \A j \in Keys : Effective(j)' \in window'[c][j]
    BY <1>2, <1>3 DEF CallSafety, CallInv
  <2>. QED  BY <1>3, <2>1, KeysSaved DEF CallSafety, CallInv
<1>5. NoStaleChoice'
  <2>1. \A c \in Calls : call[c] = "resolved" /\ window[c]["llm_provider"] # {"ollama"}
           /\ CallInv => window'[c]["llm_provider"] # {"ollama"}
    <3>. SUFFICES ASSUME NEW c \in Calls, call[c] = "resolved",
                         window[c]["llm_provider"] # {"ollama"}
         PROVE  window'[c]["llm_provider"] # {"ollama"}
      OBVIOUS
    <3>1. Effective("llm_provider") \in window[c]["llm_provider"]
      BY KeysSaved DEF CallSafety, CallInv
    <3>2. window[c]["llm_provider"] \subseteq window'[c]["llm_provider"]
      BY <1>3, KeysSaved
    <3>. QED  BY <3>1, <3>2
  <2>. QED  BY <1>3, <2>1, KeysSaved DEF CallSafety, NoStaleChoice, call_vars
<1>6. ModelFitsClient'
  BY <1>3, KeysSaved DEF CallSafety, ModelFitsClient, call_vars
<1>. QED  BY <1>4, <1>5, <1>6 DEF CallSafety

\* A query answers with a value the setting has now, or has failed.
LEMMA GetAnswers ==
    ASSUME TypeOK, CallInv, NEW c \in Calls, call[c] # "idle",
           NEW k \in Keys, NEW v \in Values, Get(c, k, v)
    PROVE  /\ ~failed'[c] => ~failed[c] /\ v \in window[c][k]
           /\ v \in window[c][k] \cup {Default[k]}
           /\ \A d \in Calls \ {c} : failed'[d] = failed[d]
BY DEF Get, TypeOK, CallInv

\* What resolve knows at each query, for every call at once (Router.resolve).
THEOREM CallsSafe == Spec => []CallSafety
<1>1. Init => CallSafety
  BY DEF Init, CallSafety, CallInv, NoStaleChoice, ModelFitsClient
<1>2. TypeOK /\ CallSafety /\ [Next]_vars => CallSafety'
  <2>. SUFFICES ASSUME TypeOK, CallSafety, [Next]_vars PROVE CallSafety'
    OBVIOUS
  <2>1. ASSUME UNCHANGED <<table, call_vars, window>> PROVE CallSafety'
    BY <2>1 DEF CallSafety, CallInv, NoStaleChoice, ModelFitsClient, Effective, call_vars
  <2>2. CASE UNCHANGED vars
    BY <2>1, <2>2 DEF vars, post_vars
  <2>3. ASSUME NEW p \in Posts, NEW f \in Forms, Submit(p, f) PROVE CallSafety'
    BY <2>1, <2>3 DEF Submit
  <2>4. ASSUME NEW p \in Posts, SaveNext(p) PROVE CallSafety'
    <3>. DEFINE k == KeyOrder[next[p]]
    <3>1. k \in Keys /\ post[p] = "saving" /\ UNCHANGED call_vars
      BY <2>4, KeysSaved DEF SaveNext, TypeOK
    <3>2. CASE k \in DOMAIN form[p]
      <4>1. Set(p, k)
        BY <2>4, <3>2 DEF SaveNext
      <4>. QED  BY <3>1, <3>2, <4>1, SetKeepsCalls
    <3>3. CASE k \notin DOMAIN form[p]
      BY <2>1, <2>4, <3>1, <3>3 DEF SaveNext
    <3>. QED  BY <3>2, <3>3
  <2>5. ASSUME NEW p \in Posts, SaveFails(p) PROVE CallSafety'
    <3>. DEFINE k == KeyOrder[next[p]]
    <3>1. k \in Keys /\ post[p] = "saving" /\ k \in DOMAIN form[p] /\ UNCHANGED call_vars
      BY <2>5, KeysSaved DEF SaveFails, TypeOK
    <3>2. CASE Set(p, k)
      BY <3>1, <3>2, SetKeepsCalls
    <3>3. CASE UNCHANGED <<table, overwritten, window>>
      BY <2>1, <3>1, <3>3
    <3>. QED  BY <2>5, <3>2, <3>3 DEF SaveFails
  <2>6. ASSUME NEW p \in Posts, Answer(p) PROVE CallSafety'
    BY <2>1, <2>6 DEF Answer
  <2>7. ASSUME NEW c \in Calls, Begin(c) PROVE CallSafety'
    <3>1. /\ call' = [call EXCEPT ![c] = "provider"]
          /\ window' = [window EXCEPT ![c] = [k \in Keys |-> {Effective(k)}]]
          /\ call[c] = "idle"
          /\ UNCHANGED <<table, chosen, failed>>
      BY <2>7 DEF Begin, Goto, post_vars
    <3>2. \A k \in Keys : Effective(k)' = Effective(k)
      BY <3>1 DEF Effective
    <3>3. CallInv'
      <4>1. \A k \in Keys : Effective(k)' \in window'[c][k]
        BY <3>1, <3>2 DEF TypeOK
      <4>2. \A d \in Calls \ {c} : call'[d] = call[d] /\ window'[d] = window[d]
        BY <3>1 DEF TypeOK
      <4>3. call'[c] = "provider" /\ chosen'[c] = Anthropic /\ ~failed'[c]
        BY <3>1 DEF CallSafety, CallInv, TypeOK
      <4>. QED  BY <3>1, <3>2, <4>1, <4>2, <4>3 DEF CallSafety, CallInv
    <3>4. NoStaleChoice' /\ ModelFitsClient'
      BY <3>1 DEF CallSafety, NoStaleChoice, ModelFitsClient, TypeOK
    <3>. QED  BY <3>3, <3>4 DEF CallSafety
  <2>8. ASSUME NEW c \in Calls, NEW to \in {"url", "model", "resolved"},
               call[c] # "idle", Goto(c, to), UNCHANGED <<table, window>>,
               DOMAIN chosen' = Calls,
               \A d \in Calls \ {c} : chosen'[d] = chosen[d] /\ failed'[d] = failed[d],
               to \in {"url", "model"} =>
                  /\ chosen'[c].client = "ollama"
                  /\ ~failed'[c] => "ollama" \in window[c]["llm_provider"],
               to = "model" =>
                  /\ chosen'[c].url # NULL
                  /\ ~failed'[c] => chosen'[c].url \in window[c]["ollama_url"],
               to = "resolved" /\ ~failed'[c] =>
                  IF chosen'[c].client = "ollama"
                  THEN /\ "ollama" \in window[c]["llm_provider"]
                       /\ chosen'[c].url \in window[c]["ollama_url"]
                       /\ chosen'[c].model \in window[c]["ollama_model"]
                  ELSE window[c]["llm_provider"] # {"ollama"},
               to = "resolved" =>
                  IF chosen'[c].client = "ollama"
                  THEN /\ chosen'[c].url # NULL
                       /\ chosen'[c].model \in
                             window[c]["ollama_model"] \cup {Default["ollama_model"]}
                  ELSE chosen'[c] = Anthropic
        PROVE  CallSafety'
    <3>1. call'[c] = to /\ \A d \in Calls \ {c} : call'[d] = call[d]
      BY <2>8 DEF Goto, TypeOK
    <3>2. \A k \in Keys : Effective(k)' = Effective(k)
      BY <2>8 DEF Effective
    <3>3. CallInv'
      BY <2>8, <3>1, <3>2 DEF CallSafety, CallInv
    <3>4. NoStaleChoice'
      BY <2>8, <3>1 DEF CallSafety, NoStaleChoice
    <3>5. ModelFitsClient'
      BY <2>8, <3>1 DEF CallSafety, ModelFitsClient
    <3>. QED  BY <3>3, <3>4, <3>5 DEF CallSafety
  <2>9. ASSUME NEW c \in Calls, ReadProvider(c) PROVE CallSafety'
    <3>1. PICK v \in Values :
             /\ Get(c, "llm_provider", v)
             /\ IF v = "ollama"
                THEN /\ Goto(c, "url")
                     /\ chosen' = [chosen EXCEPT ![c].client = "ollama"]
                ELSE Goto(c, "resolved") /\ UNCHANGED chosen
      BY <2>9 DEF ReadProvider
    <3>2. /\ call[c] = "provider" /\ UNCHANGED <<table, window>>
          /\ chosen[c] = Anthropic
      BY <2>9 DEF ReadProvider, post_vars, CallSafety, CallInv
    <3>3. /\ ~failed'[c] => v \in window[c]["llm_provider"]
          /\ \A d \in Calls \ {c} : failed'[d] = failed[d]
      BY <3>1, <3>2, GetAnswers, KeysSaved DEF CallSafety
    <3>4. CASE v = "ollama"
      <4>1. /\ DOMAIN chosen' = Calls /\ chosen'[c].client = "ollama"
            /\ \A d \in Calls \ {c} : chosen'[d] = chosen[d]
        BY <3>1, <3>4 DEF TypeOK, Choice
      <4>. QED  BY <2>8, <3>1, <3>2, <3>3, <3>4, <4>1
    <3>5. CASE v # "ollama"
      <4>1. chosen' = chosen /\ DOMAIN chosen = Calls /\ chosen[c].client = "anthropic"
        BY <3>1, <3>2, <3>5 DEF TypeOK, Anthropic
      <4>. QED  BY <2>8, <3>1, <3>2, <3>3, <3>5, <4>1
    <3>. QED  BY <3>4, <3>5
  <2>10. ASSUME NEW c \in Calls, ReadURL(c) PROVE CallSafety'
    <3>1. PICK v \in Values : /\ Get(c, "ollama_url", v)
                              /\ chosen' = [chosen EXCEPT ![c].url = v]
      BY <2>10 DEF ReadURL
    <3>2. call[c] = "url" /\ UNCHANGED <<table, window>> /\ Goto(c, "model")
      BY <2>10 DEF ReadURL, post_vars
    <3>3. /\ ~failed'[c] => ~failed[c] /\ v \in window[c]["ollama_url"]
          /\ \A d \in Calls \ {c} : failed'[d] = failed[d]
      BY <3>1, <3>2, GetAnswers, KeysSaved DEF CallSafety
    <3>4. /\ DOMAIN chosen' = Calls /\ chosen'[c].client = chosen[c].client
          /\ chosen'[c].url = v /\ v # NULL
          /\ \A d \in Calls \ {c} : chosen'[d] = chosen[d]
      BY <3>1, SettingsAssumption DEF TypeOK, Choice
    <3>5. /\ chosen[c].client = "ollama"
          /\ ~failed[c] => "ollama" \in window[c]["llm_provider"]
      BY <3>2 DEF CallSafety, CallInv
    <3>. QED  BY <2>8, <3>2, <3>3, <3>4, <3>5
  <2>11. ASSUME NEW c \in Calls, ReadModel(c) PROVE CallSafety'
    <3>1. PICK v \in Values : /\ Get(c, "ollama_model", v)
                              /\ chosen' = [chosen EXCEPT ![c].model = v]
      BY <2>11 DEF ReadModel
    <3>2. call[c] = "model" /\ UNCHANGED <<table, window>> /\ Goto(c, "resolved")
      BY <2>11 DEF ReadModel, post_vars
    <3>3. /\ ~failed'[c] => ~failed[c] /\ v \in window[c]["ollama_model"]
          /\ v \in window[c]["ollama_model"] \cup {Default["ollama_model"]}
          /\ \A d \in Calls \ {c} : failed'[d] = failed[d]
      BY <3>1, <3>2, GetAnswers, KeysSaved DEF CallSafety
    <3>4. /\ DOMAIN chosen' = Calls /\ chosen'[c].client = chosen[c].client
          /\ chosen'[c].url = chosen[c].url /\ chosen'[c].model = v
          /\ \A d \in Calls \ {c} : chosen'[d] = chosen[d]
      BY <3>1 DEF TypeOK, Choice
    <3>5. /\ chosen[c].client = "ollama" /\ chosen[c].url # NULL
          /\ ~failed[c] => /\ "ollama" \in window[c]["llm_provider"]
                           /\ chosen[c].url \in window[c]["ollama_url"]
      BY <3>2 DEF CallSafety, CallInv
    <3>. QED  BY <2>8, <3>2, <3>3, <3>4, <3>5
  <2>12. ASSUME NEW c \in Calls, End(c) PROVE CallSafety'
    <3>1. /\ call' = [call EXCEPT ![c] = "idle"]
          /\ chosen' = [chosen EXCEPT ![c] = Anthropic]
          /\ failed' = [failed EXCEPT ![c] = FALSE]
          /\ window' = [window EXCEPT ![c] = [k \in Keys |-> {}]]
          /\ table' = table
      BY <2>12 DEF End, Goto, post_vars
    <3>2. /\ call'[c] = "idle" /\ chosen'[c] = Anthropic /\ ~failed'[c]
          /\ \A d \in Calls \ {c} :
                /\ call'[d] = call[d] /\ chosen'[d] = chosen[d]
                /\ failed'[d] = failed[d] /\ window'[d] = window[d]
      BY <3>1 DEF TypeOK
    <3>3. \A k \in Keys : Effective(k)' = Effective(k)
      BY <3>1 DEF Effective
    <3>. QED  BY <3>2, <3>3 DEF CallSafety, CallInv, NoStaleChoice, ModelFitsClient
  <2>. QED
    BY <2>2, <2>3, <2>4, <2>5, <2>6, <2>7, <2>9, <2>10, <2>11, <2>12 DEF Next
<1>. QED  BY <1>1, <1>2, TypeCorrect, PTL DEF Spec

\* No call is sent on a value replaced before it began (resolve).
THEOREM ChoicesNotStale == Spec => []NoStaleChoice
<1>1. CallSafety => NoStaleChoice
  BY DEF CallSafety
<1>. QED  BY <1>1, CallsSafe, PTL

\* No call carries one provider's model to the other (resolve).
THEOREM ModelsFitClients == Spec => []ModelFitsClient
<1>1. CallSafety => ModelFitsClient
  BY DEF CallSafety
<1>. QED  BY <1>1, CallsSafe, PTL
-----------------------------------------------------------------------------
(* Forms.                                                                  *)

\* What a post has done by each step of its loop: the keys it is past have the
\* values of its form unless another post has written them since.
FormsInv ==
    \A p \in Posts : post[p] # "idle" =>
        /\ post[p] = "saved" => next[p] = Len(KeyOrder) + 1
        /\ \A i \in 1..5 :
              i < next[p] /\ KeyOrder[i] \in DOMAIN form[p] \ overwritten[p]
                  => table[KeyOrder[i]] = form[p][KeyOrder[i]]

\* A write keeps what the other posts rely on, and its own earlier keys.
LEMMA SetKeepsForms ==
    ASSUME TypeOK, FormsInv, NEW p \in Posts, NEW k \in Keys,
           post[p] = "saving", k \in DOMAIN form[p], Set(p, k),
           NEW q \in Posts, post[q] # "idle", NEW i \in 1..5, i < next[q],
           KeyOrder[i] \in DOMAIN form[q] \ overwritten'[q]
    PROVE  table'[KeyOrder[i]] = form[q][KeyOrder[i]]
<1>1. KeyOrder[i] \in Keys
  BY KeysSaved
<1>2. CASE KeyOrder[i] = k
  <2>1. q = p
    BY <1>2 DEF Set, TypeOK
  <2>. QED  BY <1>1, <1>2, <2>1 DEF Set, TypeOK
<1>3. CASE KeyOrder[i] # k
  <2>1. KeyOrder[i] \notin overwritten[q]
    BY <1>3 DEF Set, TypeOK
  <2>2. table'[KeyOrder[i]] = table[KeyOrder[i]]
    BY <1>1, <1>3 DEF Set, TypeOK
  <2>. QED  BY <2>1, <2>2 DEF FormsInv
<1>. QED  BY <1>2, <1>3

\* An acknowledged form holds, key by key, except where another post wrote
\* later, however many posts are served at once (ServeHTTP's loop of Set).
THEOREM SavedFormsHeld == Spec => []SavedFormsHold
<1>1. Init => FormsInv
  BY DEF Init, FormsInv
<1>2. TypeOK /\ FormsInv /\ [Next]_vars => FormsInv'
  <2>. SUFFICES ASSUME TypeOK, FormsInv, [Next]_vars PROVE FormsInv'
    OBVIOUS
  <2>1. ASSUME UNCHANGED post_vars PROVE FormsInv'
    BY <2>1 DEF FormsInv, post_vars
  <2>2. CASE UNCHANGED vars
    BY <2>1, <2>2 DEF vars
  <2>3. ASSUME NEW p \in Posts, NEW f \in Forms, Submit(p, f) PROVE FormsInv'
    BY <2>3 DEF Submit, FormsInv, TypeOK
  <2>4. ASSUME NEW p \in Posts, SaveNext(p) PROVE FormsInv'
    <3>. DEFINE k == KeyOrder[next[p]]
    <3>1. /\ next[p] \in 1..5 /\ k \in Keys /\ post[p] = "saving"
          /\ next' = [next EXCEPT ![p] = @ + 1] /\ UNCHANGED <<post, form>>
      BY <2>4, KeysSaved DEF SaveNext, TypeOK
    <3>2. \A q \in Posts \ {p} : next'[q] = next[q]
      BY <3>1 DEF TypeOK
    <3>3. next'[p] = next[p] + 1
      BY <3>1 DEF TypeOK
    <3>4. ASSUME NEW q \in Posts, post[q] # "idle", NEW i \in 1..5, i < next'[q],
                 KeyOrder[i] \in DOMAIN form[q] \ overwritten'[q]
          PROVE  table'[KeyOrder[i]] = form[q][KeyOrder[i]]
      <4>1. CASE k \in DOMAIN form[p]
        <5>1. Set(p, k)
          BY <2>4, <4>1 DEF SaveNext
        <5>2. CASE q = p /\ i = next[p]
          BY <3>1, <5>1, <5>2 DEF Set, TypeOK
        <5>3. CASE i < next[q]
          BY <3>1, <3>4, <4>1, <5>1, <5>3, SetKeepsForms
        <5>. QED  BY <3>1, <3>2, <3>3, <3>4, <5>2, <5>3
      <4>2. CASE k \notin DOMAIN form[p]
        <5>1. UNCHANGED <<table, overwritten>>
          BY <2>4, <4>2 DEF SaveNext
        <5>2. i < next[q]
          BY <3>1, <3>2, <3>3, <3>4, <4>2
        <5>. QED  BY <3>4, <5>1, <5>2 DEF FormsInv
      <4>. QED  BY <4>1, <4>2
    <3>5. \A q \in Posts : post[q] = "saved" => next'[q] = Len(KeyOrder) + 1
      BY <3>1, <3>2 DEF FormsInv
    <3>. QED  BY <3>1, <3>4, <3>5 DEF FormsInv
  <2>5. ASSUME NEW p \in Posts, Refuse(p), NEW q \in Posts, post'[q] # "idle"
        PROVE  /\ q # p /\ post'[q] = post[q] /\ form'[q] = form[q]
               /\ next'[q] = next[q]
    BY <2>5 DEF Refuse, TypeOK
  <2>6. ASSUME NEW p \in Posts, SaveFails(p) PROVE FormsInv'
    <3>. DEFINE k == KeyOrder[next[p]]
    <3>1. k \in Keys /\ k \in DOMAIN form[p] /\ post[p] = "saving" /\ Refuse(p)
      BY <2>6, KeysSaved DEF SaveFails, TypeOK
    <3>2. ASSUME NEW q \in Posts, post'[q] # "idle", NEW i \in 1..5, i < next'[q],
                 KeyOrder[i] \in DOMAIN form'[q] \ overwritten'[q]
          PROVE  table'[KeyOrder[i]] = form'[q][KeyOrder[i]]
      <4>1. post[q] # "idle" /\ form'[q] = form[q] /\ i < next[q]
        BY <2>5, <3>1, <3>2
      <4>2. CASE Set(p, k)
        BY <3>1, <3>2, <4>1, <4>2, SetKeepsForms
      <4>3. CASE UNCHANGED <<table, overwritten, window>>
        BY <3>2, <4>1, <4>3 DEF FormsInv
      <4>. QED  BY <2>6, <4>2, <4>3 DEF SaveFails
    <3>3. \A q \in Posts : post'[q] = "saved" => next'[q] = Len(KeyOrder) + 1
      BY <2>5, <3>1 DEF FormsInv
    <3>. QED  BY <3>2, <3>3 DEF FormsInv
  <2>7. ASSUME NEW p \in Posts, Answer(p) PROVE FormsInv'
    <3>1. UNCHANGED <<table, overwritten>>
      BY <2>7 DEF Answer
    <3>2. CASE Refuse(p)
      BY <2>5, <3>1, <3>2 DEF FormsInv
    <3>3. CASE post' = [post EXCEPT ![p] = "saved"] /\ UNCHANGED <<form, next>>
      BY <2>7, <3>1, <3>3 DEF FormsInv, Answer, TypeOK
    <3>. QED  BY <2>7, <3>2, <3>3 DEF Answer
  <2>8. ASSUME NEW c \in Calls,
               Begin(c) \/ ReadProvider(c) \/ ReadURL(c) \/ ReadModel(c) \/ End(c)
        PROVE  FormsInv'
    BY <2>1, <2>8 DEF Begin, ReadProvider, ReadURL, ReadModel, End
  <2>. QED  BY <2>2, <2>3, <2>4, <2>6, <2>7, <2>8 DEF Next
<1>3. TypeOK /\ FormsInv => SavedFormsHold
  <2>. SUFFICES ASSUME TypeOK, FormsInv, NEW p \in Posts, post[p] = "saved",
                       NEW k \in DOMAIN form[p] \ overwritten[p]
       PROVE  table[k] = form[p][k]
    BY DEF SavedFormsHold
  <2>1. k \in Keys
    BY SettingsAssumption DEF TypeOK
  <2>2. PICK i \in 1..5 : KeyOrder[i] = k
    BY <2>1, KeysSaved DEF Keys
  <2>3. i < next[p]
    BY KeysSaved DEF FormsInv
  <2>. QED  BY <2>2, <2>3 DEF FormsInv
<1>. QED  BY <1>1, <1>2, <1>3, TypeCorrect, PTL DEF Spec
=============================================================================
