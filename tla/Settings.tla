------------------------------ MODULE Settings ------------------------------
(***************************************************************************)
(* The runtime settings: the settings table with its accessors             *)
(* (internal/settings), the admin form that writes it (internal/admin) and *)
(* the router that reads it on every model call (internal/llm/router.go).  *)
(*                                                                         *)
(* A save writes one key per autocommitted statement and a call reads one  *)
(* key per query, so saves and calls interleave key by key, and each       *)
(* statement may fail by itself.                                           *)
(***************************************************************************)
EXTENDS Naturals, Sequences

CONSTANTS
    Posts,      \* goroutines serving the admin form
    Calls,      \* goroutines making model calls
    Values,
    Default,    \* settings.Defaults: a value for every key
    Forms,      \* what may be posted: values for some of the keys
    NULL

\* The order in which ServeHTTP saves.
KeyOrder == <<"llm_provider", "model_fast", "model_strong",
              "ollama_url", "ollama_model">>

Keys == {KeyOrder[i] : i \in DOMAIN KeyOrder}

\* cfg.ModelFast: both stages name it in every request.
CallerModel == Default["model_fast"]

ASSUME SettingsAssumption ==
    /\ NULL \notin Values
    /\ Default \in [Keys -> Values]
    /\ NULL \notin Forms
    /\ \A f \in Forms : DOMAIN f \subseteq Keys /\ f \in [DOMAIN f -> Values]

VARIABLES
    table,        \* settings: key -> value, NULL if there is no row
    post,         \* each goroutine: idle, saving a form, or has answered 200
    form,         \* its values
    next,         \* its position in KeyOrder
    overwritten,  \* history: keys other posts have written since it began
    call,         \* each call: idle, the query it is at, or resolved
    chosen,       \* the client, base URL and model it goes to
    window,       \* history: the values each key has had since it began
    failed        \* history: a query of it has failed

post_vars == <<table, post, form, next, overwritten>>
call_vars == <<call, chosen, failed>>
vars == <<post_vars, call_vars, window>>

Choice == [client : {"anthropic", "ollama"}, url : Values \cup {NULL},
           model : Values]

Anthropic == [client |-> "anthropic", url |-> NULL, model |-> CallerModel]

TypeOK ==
    /\ table \in [Keys -> Values \cup {NULL}]
    /\ post \in [Posts -> {"idle", "saving", "saved"}]
    /\ next \in [Posts -> 1..(Len(KeyOrder) + 1)]
    /\ form \in [Posts -> Forms \cup {NULL}]
    /\ \A p \in Posts : form[p] = NULL <=> post[p] = "idle"
    /\ overwritten \in [Posts -> SUBSET Keys]
    /\ call \in [Calls -> {"idle", "provider", "url", "model", "resolved"}]
    /\ chosen \in [Calls -> Choice]
    /\ window \in [Calls -> [Keys -> SUBSET Values]]
    /\ failed \in [Calls -> BOOLEAN]

Init ==
    /\ table = [k \in Keys |-> NULL]
    /\ post = [p \in Posts |-> "idle"]
    /\ form = [p \in Posts |-> NULL]
    /\ next = [p \in Posts |-> 1]
    /\ overwritten = [p \in Posts |-> {}]
    /\ call = [c \in Calls |-> "idle"]
    /\ chosen = [c \in Calls |-> Anthropic]
    /\ window = [c \in Calls |-> [k \in Keys |-> {}]]
    /\ failed = [c \in Calls |-> FALSE]

\* All, and Get when its query succeeds: defaults stand for unset keys.
Effective(k) == IF table[k] = NULL THEN Default[k] ELSE table[k]

-----------------------------------------------------------------------------
(* The admin form.                                                         *)

Submit(p, f) ==
    /\ post[p] # "saving"
    /\ post' = [post EXCEPT ![p] = "saving"]
    /\ form' = [form EXCEPT ![p] = f]
    /\ next' = [next EXCEPT ![p] = 1]
    /\ overwritten' = [overwritten EXCEPT ![p] = {}]
    /\ UNCHANGED <<table, call_vars, window>>

\* Store.Set: an upsert of one key, seen by every call from now on.
Set(p, k) ==
    /\ table' = [table EXCEPT ![k] = form[p][k]]
    /\ overwritten' = [q \in Posts |->
                          CASE q = p -> overwritten[q] \ {k}
                            [] q # p /\ post[q] # "idle" -> overwritten[q] \cup {k}
                            [] OTHER -> overwritten[q]]
    /\ window' = [c \in Calls |->
                     IF call[c] = "idle" THEN window[c]
                     ELSE [window[c] EXCEPT ![k] = @ \cup {form[p][k]}]]

\* Mutant: the loop ends at the first key the form does not have.
SaveNextStopping(p) ==
    /\ post[p] = "saving"
    /\ next[p] <= Len(KeyOrder)
    /\ LET k == KeyOrder[next[p]] IN
       IF k \in DOMAIN form[p]
       THEN /\ Set(p, k)
            /\ next' = [next EXCEPT ![p] = @ + 1]
       ELSE /\ next' = [next EXCEPT ![p] = Len(KeyOrder) + 1]
            /\ UNCHANGED <<table, overwritten, window>>
    /\ UNCHANGED <<post, form, call_vars>>

\* setIfPresent, and on to the next key.
SaveNext(p) ==
    /\ post[p] = "saving"
    /\ next[p] <= Len(KeyOrder)
    /\ LET k == KeyOrder[next[p]] IN
       IF k \in DOMAIN form[p] THEN Set(p, k)
       ELSE UNCHANGED <<table, overwritten, window>>
    /\ next' = [next EXCEPT ![p] = @ + 1]
    /\ UNCHANGED <<post, form, call_vars>>

\* Mutant: a refused request's form is left behind.
RefuseKeepingForm(p) ==
    /\ post' = [post EXCEPT ![p] = "idle"]
    /\ next' = [next EXCEPT ![p] = 1]
    /\ UNCHANGED form

\* A 500: the request and its form are gone.
Refuse(p) ==
    /\ post' = [post EXCEPT ![p] = "idle"]
    /\ form' = [form EXCEPT ![p] = NULL]
    /\ next' = [next EXCEPT ![p] = 1]

\* A failed Set ends the request: earlier keys stay saved, and the failing one
\* may be, if only its answer was lost.
SaveFails(p) ==
    /\ post[p] = "saving"
    /\ next[p] <= Len(KeyOrder)
    /\ LET k == KeyOrder[next[p]] IN
       /\ k \in DOMAIN form[p]
       /\ Set(p, k) \/ UNCHANGED <<table, overwritten, window>>
    /\ Refuse(p)
    /\ UNCHANGED call_vars

\* After the last key the page is loaded and rendered, or loading it fails.
Answer(p) ==
    /\ post[p] = "saving"
    /\ next[p] = Len(KeyOrder) + 1
    /\ \/ post' = [post EXCEPT ![p] = "saved"] /\ UNCHANGED <<form, next>>
       \/ Refuse(p)
    /\ UNCHANGED <<table, overwritten, call_vars, window>>

-----------------------------------------------------------------------------
(* Router.resolve.                                                         *)

\* Mutant: values are read from the database once, when the process starts.
GetCached(c, k, v) == v = Default[k] /\ UNCHANGED failed

\* Store.Get: any error, not only a missing row, yields the default; every key
\* has one, so a call never sees an error.
Get(c, k, v) ==
    \/ v = Effective(k) /\ UNCHANGED failed
    \/ v = Default[k] /\ failed' = [failed EXCEPT ![c] = TRUE]

Goto(c, to) == call' = [call EXCEPT ![c] = to]

Begin(c) ==
    /\ call[c] = "idle"
    /\ Goto(c, "provider")
    /\ window' = [window EXCEPT ![c] = [k \in Keys |-> {Effective(k)}]]
    /\ UNCHANGED <<post_vars, chosen, failed>>

ReadProvider(c) ==
    /\ call[c] = "provider"
    /\ \E v \in Values :
          /\ Get(c, "llm_provider", v)
          /\ IF v = "ollama"
             THEN /\ Goto(c, "url")
                  /\ chosen' = [chosen EXCEPT ![c].client = "ollama"]
             ELSE Goto(c, "resolved") /\ UNCHANGED chosen
    /\ UNCHANGED <<post_vars, window>>

\* Mutant: the request keeps the model its caller named.
ReadURLOnly(c) ==
    /\ call[c] = "url"
    /\ \E v \in Values :
          /\ Get(c, "ollama_url", v)
          /\ chosen' = [chosen EXCEPT ![c].url = v]
    /\ Goto(c, "resolved")
    /\ UNCHANGED <<post_vars, window>>

ReadURL(c) ==
    /\ call[c] = "url"
    /\ \E v \in Values :
          /\ Get(c, "ollama_url", v)
          /\ chosen' = [chosen EXCEPT ![c].url = v]
    /\ Goto(c, "model")
    /\ UNCHANGED <<post_vars, window>>

ReadModel(c) ==
    /\ call[c] = "model"
    /\ \E v \in Values :
          /\ Get(c, "ollama_model", v)
          /\ chosen' = [chosen EXCEPT ![c].model = v]
    /\ Goto(c, "resolved")
    /\ UNCHANGED <<post_vars, window>>

\* Text or Tool of the chosen client returns.
End(c) ==
    /\ call[c] = "resolved"
    /\ Goto(c, "idle")
    /\ chosen' = [chosen EXCEPT ![c] = Anthropic]
    /\ failed' = [failed EXCEPT ![c] = FALSE]
    /\ window' = [window EXCEPT ![c] = [k \in Keys |-> {}]]
    /\ UNCHANGED post_vars

Next ==
    \/ \E p \in Posts, f \in Forms : Submit(p, f)
    \/ \E p \in Posts : SaveNext(p) \/ SaveFails(p) \/ Answer(p)
    \/ \E c \in Calls : Begin(c) \/ ReadProvider(c) \/ ReadURL(c)
                        \/ ReadModel(c) \/ End(c)

Spec == Init /\ [][Next]_vars

-----------------------------------------------------------------------------
(* Properties.                                                             *)

\* A call goes where the settings said at some moment between its beginning
\* and its end, key by key: none is sent on a value that had been replaced
\* before it began, unless one of its queries failed (resolve reads the table
\* for every request).
NoStaleChoice ==
    \A c \in Calls : call[c] = "resolved" /\ ~failed[c] =>
        IF chosen[c].client = "ollama"
        THEN /\ "ollama" \in window[c]["llm_provider"]
             /\ chosen[c].url \in window[c]["ollama_url"]
             /\ chosen[c].model \in window[c]["ollama_model"]
        ELSE window[c]["llm_provider"] # {"ollama"}

\* However saves and failing queries fall between the reads of a call, it never
\* takes the caller's Anthropic model to Ollama nor Ollama's to Anthropic.
ModelFitsClient ==
    \A c \in Calls : call[c] = "resolved" =>
        IF chosen[c].client = "ollama"
        THEN /\ chosen[c].url # NULL
             /\ chosen[c].model \in
                   window[c]["ollama_model"] \cup {Default["ollama_model"]}
        ELSE chosen[c] = Anthropic

\* Once a save has been answered 200, each key of its form has the value given,
\* or another save has written that key since this one wrote it or began.
SavedFormsHold ==
    \A p \in Posts : post[p] = "saved" =>
        \A k \in DOMAIN form[p] \ overwritten[p] : table[k] = form[p][k]
=============================================================================
