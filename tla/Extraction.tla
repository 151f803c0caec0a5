----------------------------- MODULE Extraction -----------------------------
(***************************************************************************)
(* One Parser.Run of internal/parse: a tool call that extracts quotes and  *)
(* links, a model call per quote that may drop it, and a bounded pool of   *)
(* goroutines that resolves the editorial links (Canonical and follow of   *)
(* internal/htmlx/links.go).  What the models and the servers answer is    *)
(* left open.                                                              *)
(***************************************************************************)
EXTENDS Naturals, FiniteSets

CONSTANTS
    Quotes,       \* number of quotes the tool call returns
    Links,        \* links it returns
    Urls,
    Raw,          \* URL of each link, as the model copied it
    Wrapped,      \* URL in the query of a wrapper URL, NULL for any other URL
    LinkWorkers,  \* linkWorkers
    MaxRequests,  \* requests of a redirect chain before CheckRedirect ends it
    NULL

ASSUME ExtractionAssumption ==
    /\ Quotes \in Nat
    /\ IsFiniteSet(Links)
    /\ Raw \in [Links -> Urls]
    /\ Wrapped \in [Urls -> Urls \cup {NULL}]
    /\ NULL \notin Urls
    /\ LinkWorkers \in Nat \ {0}
    /\ MaxRequests \in Nat \ {0}

\* unwrapParam, all the way in.
Unwrap[u \in Urls] == IF Wrapped[u] = NULL THEN u ELSE Unwrap[Wrapped[u]]

\* A wrapped URL is shorter than its wrapper, so there is an innermost one.
ASSUME UnwrapAssumption ==
    \A u \in Urls : Unwrap[u] \in Urls /\ Wrapped[Unwrap[u]] = NULL

VARIABLES
    run,        \* what Run is doing
    judged,     \* quotes checked so far
    keptQuotes,
    kept,       \* editorial links, NULL before the tool call returns
    goroutine,  \* of each link in kept
    slots,      \* tokens in sem
    url,        \* the URL a goroutine is requesting
    requests,   \* requests of the current chain
    final,      \* the variable of follow that CheckRedirect assigns
    stored,     \* kept[i].URL
    passed,     \* history: quotes whose verdict was PASS
    answered    \* history: the URL that answered without an error, or NULL

run_vars == <<run, judged, keptQuotes, kept, passed>>
link_vars == <<goroutine, slots, url, requests, final, stored, answered>>
vars == <<run_vars, link_vars>>

Attempt == {"HEAD", "GET"}

TypeOK ==
    /\ run \in {"tool", "quotes", "links", "returned", "failed"}
    /\ judged \in 0..Quotes
    /\ keptQuotes \subseteq 1..Quotes
    /\ kept \subseteq Links
    /\ goroutine \in [Links -> {"none", "queued", "finished"} \cup Attempt]
    /\ slots \in 0..LinkWorkers
    /\ url \in [Links -> Urls]
    /\ requests \in [Links -> 0..MaxRequests]
    /\ final \in [Links -> Urls]
    /\ stored \in [Links -> Urls]
    /\ passed \subseteq 1..Quotes
    /\ answered \in [Links -> Urls \cup {NULL}]

Init ==
    /\ run = "tool"
    /\ judged = 0
    /\ keptQuotes = {}
    /\ kept = {}
    /\ goroutine = [l \in Links |-> "none"]
    /\ slots = 0
    /\ url = Raw
    /\ requests = [l \in Links |-> 0]
    /\ final = Raw
    /\ stored = Raw
    /\ passed = {}
    /\ answered = [l \in Links |-> NULL]

-----------------------------------------------------------------------------
(* Run, up to the links.                                                   *)

\* No text to extract, or a model call failed: nothing of the run survives.
Fail ==
    /\ run \in {"tool", "quotes"}
    /\ run' = "failed"
    /\ UNCHANGED <<judged, keptQuotes, kept, passed, link_vars>>

\* The model marks any of the links editorial; the others are dropped.
CallTool ==
    /\ run = "tool"
    /\ run' = "quotes"
    /\ kept' \in SUBSET Links
    /\ UNCHANGED <<judged, keptQuotes, passed, link_vars>>

\* Mutant: a check that could not be made drops its quote.
JudgeQuoteLenient ==
    /\ run = "quotes"
    /\ judged < Quotes
    /\ judged' = judged + 1
    /\ \/ /\ keptQuotes' = keptQuotes \cup {judged + 1}
          /\ passed' = passed \cup {judged + 1}
       \/ UNCHANGED keptQuotes /\ passed' \in {passed, passed \cup {judged + 1}}
    /\ UNCHANGED <<run, kept, link_vars>>

\* keepSelfContained: one verdict at a time, in order; an error is Fail.
JudgeQuote ==
    /\ run = "quotes"
    /\ judged < Quotes
    /\ judged' = judged + 1
    /\ \/ /\ keptQuotes' = keptQuotes \cup {judged + 1}
          /\ passed' = passed \cup {judged + 1}
       \/ UNCHANGED <<keptQuotes, passed>>
    /\ UNCHANGED <<run, kept, link_vars>>

\* editorialLinks starts a goroutine per editorial link and waits.
StartLinks ==
    /\ run = "quotes"
    /\ judged = Quotes
    /\ run' = "links"
    /\ goroutine' = [l \in Links |-> IF l \in kept THEN "queued" ELSE "none"]
    /\ UNCHANGED <<judged, keptQuotes, kept, passed, slots, url, requests, final,
                   stored, answered>>

\* wg.Wait
Return ==
    /\ run = "links"
    /\ \A l \in kept : goroutine[l] = "finished"
    /\ run' = "returned"
    /\ UNCHANGED <<judged, keptQuotes, kept, passed, link_vars>>

-----------------------------------------------------------------------------
(* The goroutine of a link.                                                *)

Input(l) == Unwrap[Raw[l]]

\* Mutant: final is set once, before the first chain.
StartChainKeepFinal(l, method) ==
    /\ goroutine' = [goroutine EXCEPT ![l] = method]
    /\ url' = [url EXCEPT ![l] = Input(l)]
    /\ requests' = [requests EXCEPT ![l] = 1]
    /\ final' = IF method = "GET" THEN final ELSE [final EXCEPT ![l] = Input(l)]

\* A chain of requests begins; final is that of an empty chain.
StartChain(l, method) ==
    /\ goroutine' = [goroutine EXCEPT ![l] = method]
    /\ url' = [url EXCEPT ![l] = Input(l)]
    /\ requests' = [requests EXCEPT ![l] = 1]
    /\ final' = [final EXCEPT ![l] = Input(l)]

\* Mutant: nobody waits for a slot.
AcquireUnbounded(l) ==
    /\ goroutine[l] = "queued"
    /\ slots' = slots + 1
    /\ StartChain(l, "HEAD")
    /\ UNCHANGED <<run_vars, stored, answered>>

\* sem <- struct{}{}, then HEAD.
Acquire(l) ==
    /\ goroutine[l] = "queued"
    /\ slots < LinkWorkers
    /\ slots' = slots + 1
    /\ StartChain(l, "HEAD")
    /\ UNCHANGED <<run_vars, stored, answered>>

\* Mutant: the goroutine leaves the pool only with a resolved URL.
FinishHolding(l, u) ==
    /\ goroutine' = [goroutine EXCEPT ![l] = "finished"]
    /\ slots' = IF u = Input(l) THEN slots ELSE slots - 1
    /\ stored' = [stored EXCEPT ![l] = u]

\* Canonical returns u: the goroutine stores it and leaves the pool.
Finish(l, u) ==
    /\ goroutine' = [goroutine EXCEPT ![l] = "finished"]
    /\ slots' = slots - 1
    /\ stored' = [stored EXCEPT ![l] = u]

\* A redirect within the limit; CheckRedirect turns a later one into a failure.
Redirect(l, u) ==
    /\ goroutine[l] \in Attempt
    /\ requests[l] < MaxRequests
    /\ url' = [url EXCEPT ![l] = u]
    /\ final' = [final EXCEPT ![l] = u]
    /\ requests' = [requests EXCEPT ![l] = @ + 1]
    /\ UNCHANGED <<run_vars, goroutine, slots, stored, answered>>

\* A status below 400 ends both chains.
Answer(l) ==
    /\ goroutine[l] \in Attempt
    /\ Finish(l, Unwrap[final[l]])
    /\ answered' = [answered EXCEPT ![l] = url[l]]
    /\ UNCHANGED <<run_vars, url, requests, final>>

\* The HEAD chain ends in an error, a status of 400 or more, or at the limit.
FailHead(l) ==
    /\ goroutine[l] = "HEAD"
    /\ StartChain(l, "GET")
    /\ UNCHANGED <<run_vars, slots, stored, answered>>

\* So does the GET chain, or the ten seconds both share are over.
GiveUp(l) ==
    /\ goroutine[l] \in Attempt
    /\ Finish(l, Input(l))
    /\ UNCHANGED <<run_vars, url, requests, final, answered>>

Resolve(l) ==
    \/ Acquire(l)
    \/ \E u \in Urls : Redirect(l, u)
    \/ Answer(l)
    \/ FailHead(l)
    \/ GiveUp(l)

Next ==
    \/ Fail \/ CallTool \/ JudgeQuote \/ StartLinks \/ Return
    \/ \E l \in Links : Resolve(l)

Spec == Init /\ [][Next]_vars

\* Model calls have timeouts, and so has every chain of requests.
FairSpec ==
    /\ Spec
    /\ WF_vars(Fail \/ CallTool \/ JudgeQuote \/ StartLinks \/ Return)
    /\ \A l \in Links : WF_vars(Resolve(l))

-----------------------------------------------------------------------------
(* Properties.                                                             *)

\* What is stored for a link is the destination of the chain that answered,
\* out of its wrapper: never where an abandoned chain had led ("the GET chain
\* must not inherit the abandoned chain's destination").  With no answer it is
\* what the link wrapped.
StoredIsReached ==
    \A l \in Links : goroutine[l] = "finished" =>
        stored[l] = IF answered[l] = NULL THEN Input(l) ELSE Unwrap[answered[l]]

\* A run that returns has a verdict for every quote and kept exactly those that
\* passed: a failed check fails the run, it never loses a quote silently.
QuotesKeptByVerdict ==
    run = "returned" => judged = Quotes /\ keptQuotes = passed

\* Every goroutine that resolves a link holds one of the slots, and no other
\* does: on every path out of Canonical the slot is given back.
SlotsAreHeld ==
    slots = Cardinality({l \in Links : goroutine[l] \in Attempt})

\* The links of a run are all resolved or given up in the end, whatever the
\* servers do and however few the slots: wg.Wait returns.
RunEnds == <>(run \in {"returned", "failed"})
=============================================================================
