------------------------------ MODULE Process -------------------------------
(***************************************************************************)
(* One process: the two kinds of goroutines that cmd/quicky/main.go starts *)
(* (queue workers and HTTP requests), the connection pool they share, and  *)
(* its shutdown.                                                           *)
(*                                                                         *)
(* A worker's handler keeps the connection of its transaction while its    *)
(* model calls query the settings, and while its failure is recorded, on a *)
(* second one.  A request uses one connection per statement.               *)
(*                                                                         *)
(* The pool (pgxpool, external) hands an idle connection to a goroutine    *)
(* that waits for one, in order of arrival; Close refuses new ones and     *)
(* waits until those in use have been returned.                            *)
(***************************************************************************)
EXTENDS Naturals, FiniteSets

CONSTANTS
    Workers,   \* queue.Run goroutines
    Requests,  \* net/http goroutines
    Conns,     \* connections of the pool
    NULL

Goroutines == Workers \cup Requests

ASSUME PoolAssumption ==
    /\ Workers \cap Requests = {}
    /\ NULL \notin Goroutines
    /\ IsFiniteSet(Conns)
    /\ IsFiniteSet(Workers)

\* pgxpool's default of at least four, and one handler per worker.
ASSUME WorkersFit == Cardinality(Workers) < Cardinality(Conns)

VARIABLES
    pc,         \* where each goroutine is
    holder,     \* the goroutine that has each connection, NULL if idle
    cancelled,  \* the context of run, cancelled by SIGTERM
    listening,  \* ListenAndServe has not returned
    pool,       \* open, closing while Close waits, closed when run returns
    dropped     \* history: after SIGTERM, a failure's reason met a closed pool

vars == <<pc, holder, cancelled, listening, pool, dropped>>
process_vars == <<cancelled, listening, pool>>

\* What a goroutine wants a connection for: a claim, a handler's transaction,
\* a settings query of a model call, a failure's reason, a request's statement.
Wanting == {"poll", "claimed", "ask", "failed", "request"}

\* Connections it has meanwhile, its transaction's included.
Uses(place) ==
    IF place \in {"claim", "handler", "ask", "failed", "query"} THEN 1
    ELSE IF place \in {"asking", "recording"} THEN 2
    ELSE 0

Places == Wanting \cup {"none", "stopped", "claim", "handler", "query", "asking",
                        "recording"}

TypeOK ==
    /\ pc \in [Goroutines -> Places]
    /\ \A r \in Requests : pc[r] \in {"none", "request", "query"}
    /\ \A w \in Workers : pc[w] \notin {"none", "request", "query"}
    /\ holder \in [Conns -> Goroutines \cup {NULL}]
    /\ cancelled \in BOOLEAN
    /\ listening \in BOOLEAN
    /\ pool \in {"open", "closing", "closed"}
    /\ pool = "open" \/ ~listening
    /\ dropped \in BOOLEAN

Init ==
    /\ pc = [g \in Goroutines |-> IF g \in Workers THEN "poll" ELSE "none"]
    /\ holder = [c \in Conns |-> NULL]
    /\ cancelled = FALSE
    /\ listening = TRUE
    /\ pool = "open"
    /\ dropped = FALSE

Held(g) == {c \in Conns : holder[c] = g}

Idle == Held(NULL)

Goto(g, from, to) ==
    /\ pc[g] = from
    /\ pc' = [pc EXCEPT ![g] = to]

-----------------------------------------------------------------------------
(* The pool.                                                               *)

Take(g) ==
    /\ pool = "open"
    /\ \E c \in Idle : holder' = [holder EXCEPT ![c] = g]

\* Mutant: a query's rows are not closed.
GiveBackNot(g) == UNCHANGED holder

\* One of the connections goes back.
GiveBack(g) == \E c \in Held(g) : holder' = [holder EXCEPT ![c] = NULL]

GiveBackAll(g) ==
    holder' = [c \in Conns |-> IF holder[c] = g THEN NULL ELSE holder[c]]

\* A wait that ends without a connection: the pool is closed, the database
\* does not accept one more, or the goroutine's context is cancelled.
Refused(g) ==
    /\ pool # "open" \/ Idle # {} \/ (cancelled /\ g \in Workers)
    /\ UNCHANGED holder

-----------------------------------------------------------------------------
(* A worker: Run and step.                                                 *)

StartClaim(w) == Goto(w, "poll", "claim") /\ Take(w)

\* Mutant: the claim's transaction stays open while the handler runs, as the
\* comment of Run says it does.
EndClaimHolding(w) ==
    \/ Goto(w, "claim", "claimed") /\ UNCHANGED holder
    \/ Goto(w, "claim", "poll") /\ GiveBack(w)

\* claim commits with a row, or there is none, or a statement failed.
EndClaim(w) ==
    /\ Goto(w, "claim", "claimed") \/ Goto(w, "claim", "poll")
    /\ GiveBack(w)

\* Run sees ctx.Done at the end of a round.
Stop(w) == cancelled /\ Goto(w, "poll", "stopped") /\ UNCHANGED holder

\* pool.Begin for the handler; without it the attempt is charged for nothing.
BeginHandler(w) ==
    \/ Goto(w, "claimed", "handler") /\ Take(w)
    \/ Goto(w, "claimed", "poll") /\ Refused(w)

\* The handler makes a model call, which asks for the provider.
Ask(w) == Goto(w, "handler", "ask") /\ UNCHANGED holder

\* Settings.Get: without a connection it answers the default.
Get(w) ==
    \/ Goto(w, "ask", "asking") /\ Take(w)
    \/ Goto(w, "ask", "handler") /\ Refused(w)

\* ... and with one it gives it back.
Answered(w) == Goto(w, "asking", "handler") /\ GiveBack(w)

\* The handler succeeds and its commit does, or fails, or it returns an error.
EndHandler(w) ==
    \/ Goto(w, "handler", "poll") /\ GiveBack(w)
    \/ Goto(w, "handler", "failed") /\ UNCHANGED holder

\* recordFailure is not cancelled with run but gives up after five seconds;
\* then step's deferred Rollback returns the transaction's connection.
StartRecord(w) ==
    \/ /\ Goto(w, "failed", "recording")
       /\ Take(w)
       /\ UNCHANGED dropped
    \/ /\ Goto(w, "failed", "poll")
       /\ GiveBack(w)
       /\ dropped' = (dropped \/ (cancelled /\ pool # "open"))

\* Mutant: step returns without its deferred Rollback.
EndRecordKeepingTx(w) == Goto(w, "recording", "poll") /\ GiveBack(w)

EndRecord(w) == Goto(w, "recording", "poll") /\ GiveBackAll(w)

Step(w) ==
    /\ \/ /\ \/ StartClaim(w) \/ EndClaim(w) \/ Stop(w) \/ BeginHandler(w)
             \/ Ask(w) \/ Get(w) \/ Answered(w) \/ EndHandler(w) \/ EndRecord(w)
          /\ UNCHANGED dropped
       \/ StartRecord(w)
    /\ UNCHANGED process_vars

-----------------------------------------------------------------------------
(* A request: any number of statements, one at a time.                     *)

Accept(r) == listening /\ Goto(r, "none", "request") /\ UNCHANGED holder

StartQuery(r) == Goto(r, "request", "query") /\ Take(r)

EndQuery(r) == Goto(r, "query", "request") /\ GiveBack(r)

\* Answered, with or without a failed statement, or the client has gone.
EndRequest(r) == Goto(r, "request", "none") /\ UNCHANGED holder

Serve(r) ==
    /\ Accept(r) \/ StartQuery(r) \/ EndQuery(r) \/ EndRequest(r)
    /\ UNCHANGED <<process_vars, dropped>>

-----------------------------------------------------------------------------
(* run.                                                                    *)

Signal ==
    /\ ~cancelled
    /\ cancelled' = TRUE
    /\ UNCHANGED <<pc, holder, listening, pool, dropped>>

\* Shutdown closes the listener and ListenAndServe returns at once, or returns
\* by itself with an error.
StopListening ==
    /\ listening
    /\ listening' = FALSE
    /\ UNCHANGED <<pc, holder, cancelled, pool, dropped>>

\* Mutant: SIGTERM closes the pool, before the listener.
StartCloseOnSignal ==
    /\ cancelled
    /\ pool = "open"
    /\ pool' = "closing"
    /\ UNCHANGED <<pc, holder, cancelled, listening, dropped>>

\* The deferred db.Close.  Nobody waits for the workers, nor for Shutdown to
\* have drained the requests.
StartClose ==
    /\ ~listening
    /\ pool = "open"
    /\ pool' = "closing"
    /\ UNCHANGED <<pc, holder, cancelled, listening, dropped>>

EndClose ==
    /\ pool = "closing"
    /\ Idle = Conns
    /\ pool' = "closed"
    /\ UNCHANGED <<pc, holder, cancelled, listening, dropped>>

Next ==
    /\ pool # "closed"
    /\ \/ \E w \in Workers : Step(w)
       \/ \E r \in Requests : Serve(r)
       \/ Signal \/ StopListening \/ StartClose \/ EndClose

Spec == Init /\ [][Next]_vars

\* Goroutines run on: each statement and model call has an end, and a handler
\* makes finitely many calls.  The pool serves those that wait in order, so
\* nobody who waits is passed over for ever.  A cancelled context stops the
\* listener.
Fairness ==
    /\ \A w \in Workers : /\ WF_vars(Step(w))
                           /\ SF_vars(Step(w) /\ Take(w))
                           /\ SF_vars(Step(w) /\ EndHandler(w))
    /\ \A r \in Requests : WF_vars(EndQuery(r) /\ Serve(r))
    /\ WF_vars(cancelled /\ StopListening)
    /\ WF_vars(StartClose)
    /\ WF_vars(EndClose)

FairSpec == Spec /\ Fairness

-----------------------------------------------------------------------------
(* Properties.                                                             *)

\* Every connection is in the hands of a goroutine at a place of its code that
\* uses it: no way out of claim, a handler, a query or recordFailure keeps one.
ConnsAccounted == \A g \in Goroutines : Cardinality(Held(g)) = Uses(pc[g])

\* The pool is never divided up among goroutines that all wait for one more
\* connection: handlers that keep a transaction while they query the settings
\* cannot starve themselves, as long as there are fewer workers than connections.
NoCircularWait == \E c \in Conns : holder[c] = NULL \/ pc[holder[c]] \notin Wanting

\* A handler that asks for the settings in the middle of its transaction gets
\* on, however busy the requests keep the pool and whenever it is closed.
HandlersGetOn ==
    \A w \in Workers : pc[w] = "ask" ~> (pc[w] # "ask" \/ pool = "closed")

\* Once the listener is gone the process ends: no goroutine keeps the
\* connection that Close waits for.
ShutdownEnds == ~listening ~> pool = "closed"

-----------------------------------------------------------------------------
\* queue.go, recordFailure: it "detaches from ctx" because "writing the reason
\* on a dead context would silently drop it exactly when it matters".  The
\* reason would then survive a shutdown as well.
ReasonsSurviveShutdown == ~dropped
=============================================================================
