--------------------------- MODULE ProcessProofs ----------------------------
(***************************************************************************)
(* Theorems about Process for any number of workers, requests and          *)
(* connections.                                                            *)
(***************************************************************************)
EXTENDS Process, FiniteSetTheorems, TLAPS

\* Goroutines, the pool and run stay where their code can be: a request is
\* never in a worker's place, and the pool is open while the listener is.
THEOREM TypeCorrect == Spec => []TypeOK
<1>1. Init => TypeOK
  BY PoolAssumption DEF Init, TypeOK, Goroutines, Places, Wanting
<1>2. TypeOK /\ [Next]_vars => TypeOK'
  <2>. SUFFICES ASSUME TypeOK, [Next]_vars PROVE TypeOK'
    OBVIOUS
  <2>1. CASE UNCHANGED vars
    BY <2>1 DEF vars, TypeOK
  <2>2. ASSUME NEW w \in Workers, Step(w) PROVE TypeOK'
    <3>1. w \in Goroutines
      BY DEF Goroutines
    <3>2. \E from, to \in Places :
             Goto(w, from, to) /\ to \notin {"none", "request", "query"}
      BY <2>2 DEF Step, StartClaim, EndClaim, Stop, BeginHandler, Ask, Get,
         Answered, EndHandler, EndRecord, StartRecord, Goto, Places, Wanting
    <3>3. holder' \in [Conns -> Goroutines \cup {NULL}]
      BY <2>2, <3>1 DEF Step, StartClaim, EndClaim, Stop, BeginHandler, Ask, Get,
         Answered, EndHandler, EndRecord, StartRecord, TypeOK, Take, GiveBack,
         GiveBackAll, Refused
    <3>4. dropped' \in BOOLEAN
      BY <2>2 DEF Step, StartRecord, TypeOK
    <3>5. UNCHANGED process_vars
      BY <2>2 DEF Step
    <3>. QED
      BY <3>1, <3>2, <3>3, <3>4, <3>5, PoolAssumption
      DEF TypeOK, Goto, process_vars, Goroutines
  <2>3. ASSUME NEW r \in Requests, Serve(r) PROVE TypeOK'
    <3>1. r \in Goroutines
      BY DEF Goroutines
    <3>2. \E from, to \in {"none", "request", "query"} : Goto(r, from, to)
      BY <2>3 DEF Serve, Accept, StartQuery, EndQuery, EndRequest
    <3>3. holder' \in [Conns -> Goroutines \cup {NULL}]
      BY <2>3, <3>1 DEF Serve, Accept, StartQuery, EndQuery, EndRequest, TypeOK,
         Take, GiveBack
    <3>4. UNCHANGED <<process_vars, dropped>>
      BY <2>3 DEF Serve
    <3>. QED
      BY <3>1, <3>2, <3>3, <3>4, PoolAssumption
      DEF TypeOK, Goto, process_vars, Goroutines, Places, Wanting
  <2>4. CASE Signal
    BY <2>4 DEF Signal, TypeOK
  <2>5. CASE StopListening
    BY <2>5 DEF StopListening, TypeOK
  <2>6. CASE StartClose
    BY <2>6 DEF StartClose, TypeOK
  <2>7. CASE EndClose
    BY <2>7 DEF EndClose, TypeOK
  <2>. QED
    BY <2>1, <2>2, <2>3, <2>4, <2>5, <2>6, <2>7 DEF Next
<1>. QED
  BY <1>1, <1>2, PTL DEF Spec

-----------------------------------------------------------------------------
(* Connections.                                                            *)

LEMMA HeldFinite == ASSUME NEW g PROVE IsFiniteSet(Held(g))
BY FS_Subset, PoolAssumption DEF Held

\* A goroutine that takes a connection has one more, and nobody has one less.
LEMMA TakeHolds ==
    ASSUME TypeOK, NEW g \in Goroutines, Take(g)
    PROVE  /\ Cardinality(Held(g)') = Cardinality(Held(g)) + 1
           /\ \A h \in Goroutines \ {g} : Held(h)' = Held(h)
<1>1. PICK c \in Idle : holder' = [holder EXCEPT ![c] = g]
  BY DEF Take
<1>2. c \in Conns /\ holder[c] = NULL
  BY DEF Idle, Held
<1>3. Held(g)' = Held(g) \cup {c}
  BY <1>1, <1>2 DEF Held, TypeOK
<1>4. c \notin Held(g)
  BY <1>2, PoolAssumption DEF Held
<1>5. \A h \in Goroutines \ {g} : Held(h)' = Held(h)
  BY <1>1, <1>2, PoolAssumption DEF Held, TypeOK
<1>. QED
  BY <1>3, <1>4, <1>5, HeldFinite, FS_AddElement

\* One that gives a connection back has one less.
LEMMA GiveBackReleases ==
    ASSUME TypeOK, NEW g \in Goroutines, GiveBack(g)
    PROVE  /\ Cardinality(Held(g)') = Cardinality(Held(g)) - 1
           /\ \A h \in Goroutines \ {g} : Held(h)' = Held(h)
<1>1. PICK c \in Held(g) : holder' = [holder EXCEPT ![c] = NULL]
  BY DEF GiveBack
<1>2. c \in Conns /\ holder[c] = g
  BY DEF Held
<1>3. Held(g)' = Held(g) \ {c}
  BY <1>1, <1>2, PoolAssumption DEF Held, TypeOK
<1>4. \A h \in Goroutines \ {g} : Held(h)' = Held(h)
  BY <1>1, <1>2, PoolAssumption DEF Held, TypeOK
<1>. QED
  BY <1>3, <1>4, HeldFinite, FS_RemoveElement

\* One that gives all of them back has none.
LEMMA GiveBackAllReleases ==
    ASSUME TypeOK, NEW g \in Goroutines, GiveBackAll(g)
    PROVE  /\ Cardinality(Held(g)') = 0
           /\ \A h \in Goroutines \ {g} : Held(h)' = Held(h)
<1>1. Held(g)' = {}
  BY PoolAssumption DEF GiveBackAll, Held
<1>2. \A h \in Goroutines \ {g} : Held(h)' = Held(h)
  BY PoolAssumption DEF GiveBackAll, Held
<1>. QED
  BY <1>1, <1>2, FS_EmptySet

\* A goroutine keeps the books when its new place uses what it now holds.
LEMMA BooksKept ==
    ASSUME TypeOK, ConnsAccounted, NEW g \in Goroutines, NEW from, NEW to,
           Goto(g, from, to),
           \A h \in Goroutines \ {g} : Held(h)' = Held(h),
           Cardinality(Held(g)') = Uses(to)
    PROVE  ConnsAccounted'
<1>. SUFFICES ASSUME NEW h \in Goroutines
             PROVE  Cardinality(Held(h)') = Uses(pc'[h])
  BY DEF ConnsAccounted
<1>1. CASE h = g
  BY <1>1 DEF Goto, TypeOK
<1>2. CASE h # g
  <2>1. Held(h)' = Held(h) /\ pc'[h] = pc[h]
    BY <1>2 DEF Goto, TypeOK
  <2>. QED
    BY <2>1 DEF ConnsAccounted
<1>. QED
  BY <1>1, <1>2

LEMMA HoldingTyped ==
    ASSUME TypeOK, ConnsAccounted, NEW g \in Goroutines, NEW from, NEW to,
           Goto(g, from, to)
    PROVE  Cardinality(Held(g)) = Uses(from)
BY DEF ConnsAccounted, Goto

\* The four ways a step may change what its goroutine holds.
LEMMA Taking ==
    ASSUME TypeOK, ConnsAccounted, NEW g \in Goroutines, NEW from, NEW to,
           Goto(g, from, to), Take(g), Uses(to) = Uses(from) + 1
    PROVE  ConnsAccounted'
BY TakeHolds, HoldingTyped, BooksKept

LEMMA GivingBack ==
    ASSUME TypeOK, ConnsAccounted, NEW g \in Goroutines, NEW from, NEW to,
           Goto(g, from, to), GiveBack(g), Uses(to) = Uses(from) - 1
    PROVE  ConnsAccounted'
BY GiveBackReleases, HoldingTyped, BooksKept

LEMMA GivingAllBack ==
    ASSUME TypeOK, ConnsAccounted, NEW g \in Goroutines, NEW from, NEW to,
           Goto(g, from, to), GiveBackAll(g), Uses(to) = 0
    PROVE  ConnsAccounted'
BY GiveBackAllReleases, BooksKept

LEMMA Keeping ==
    ASSUME TypeOK, ConnsAccounted, NEW g \in Goroutines, NEW from, NEW to,
           Goto(g, from, to), UNCHANGED holder, Uses(to) = Uses(from)
    PROVE  ConnsAccounted'
<1>1. \A h : Held(h)' = Held(h)
  BY DEF Held
<1>. QED
  BY <1>1, HoldingTyped, BooksKept

\* Every step of a worker keeps the books.
LEMMA StepKeepsBooks ==
    ASSUME TypeOK, ConnsAccounted, NEW w \in Workers, Step(w)
    PROVE  ConnsAccounted'
<1>. USE DEF Uses
<1>. w \in Goroutines
  BY DEF Goroutines
<1>1. CASE StartClaim(w)
  BY <1>1, Taking DEF StartClaim
<1>2. CASE EndClaim(w)
  <2>1. CASE Goto(w, "claim", "claimed")
    BY <1>2, <2>1, GivingBack DEF EndClaim
  <2>2. CASE Goto(w, "claim", "poll")
    BY <1>2, <2>2, GivingBack DEF EndClaim
  <2>. QED
    BY <1>2, <2>1, <2>2 DEF EndClaim
<1>3. CASE Stop(w)
  BY <1>3, Keeping DEF Stop
<1>4. CASE BeginHandler(w)
  <2>1. CASE Goto(w, "claimed", "handler") /\ Take(w)
    BY <2>1, Taking
  <2>2. CASE Goto(w, "claimed", "poll") /\ Refused(w)
    BY <2>2, Keeping DEF Refused
  <2>. QED
    BY <1>4, <2>1, <2>2 DEF BeginHandler
<1>5. CASE Ask(w)
  BY <1>5, Keeping DEF Ask
<1>6. CASE Get(w)
  <2>1. CASE Goto(w, "ask", "asking") /\ Take(w)
    BY <2>1, Taking
  <2>2. CASE Goto(w, "ask", "handler") /\ Refused(w)
    BY <2>2, Keeping DEF Refused
  <2>. QED
    BY <1>6, <2>1, <2>2 DEF Get
<1>7. CASE Answered(w)
  BY <1>7, GivingBack DEF Answered
<1>8. CASE EndHandler(w)
  <2>1. CASE Goto(w, "handler", "poll") /\ GiveBack(w)
    BY <2>1, GivingBack
  <2>2. CASE Goto(w, "handler", "failed") /\ UNCHANGED holder
    BY <2>2, Keeping
  <2>. QED
    BY <1>8, <2>1, <2>2 DEF EndHandler
<1>9. CASE EndRecord(w)
  BY <1>9, GivingAllBack DEF EndRecord
<1>10. CASE StartRecord(w)
  <2>1. CASE Goto(w, "failed", "recording") /\ Take(w)
    BY <2>1, Taking
  <2>2. CASE Goto(w, "failed", "poll") /\ GiveBack(w)
    BY <2>2, GivingBack
  <2>. QED
    BY <1>10, <2>1, <2>2 DEF StartRecord
<1>. QED
  BY <1>1, <1>2, <1>3, <1>4, <1>5, <1>6, <1>7, <1>8, <1>9, <1>10 DEF Step

\* Every step of a request does.
LEMMA ServeKeepsBooks ==
    ASSUME TypeOK, ConnsAccounted, NEW r \in Requests, Serve(r)
    PROVE  ConnsAccounted'
<1>. USE DEF Uses
<1>. r \in Goroutines
  BY DEF Goroutines
<1>1. CASE Accept(r)
  BY <1>1, Keeping DEF Accept
<1>2. CASE StartQuery(r)
  BY <1>2, Taking DEF StartQuery
<1>3. CASE EndQuery(r)
  BY <1>3, GivingBack DEF EndQuery
<1>4. CASE EndRequest(r)
  BY <1>4, Keeping DEF EndRequest
<1>. QED
  BY <1>1, <1>2, <1>3, <1>4 DEF Serve

\* However claims, handlers, settings queries, failures and requests end, each
\* goroutine holds as many connections as its place in the code uses.
THEOREM ConnectionsAccounted == Spec => []ConnsAccounted
<1>1. Init => ConnsAccounted
  <2>. SUFFICES ASSUME Init, NEW g \in Goroutines
               PROVE  Cardinality(Held(g)) = Uses(pc[g])
    BY DEF ConnsAccounted
  <2>1. Held(g) = {}
    BY PoolAssumption DEF Init, Held
  <2>2. Uses(pc[g]) = 0
    BY DEF Init, Uses
  <2>. QED
    BY <2>1, <2>2, FS_EmptySet
<1>2. TypeOK /\ ConnsAccounted /\ [Next]_vars => ConnsAccounted'
  <2>. SUFFICES ASSUME TypeOK, ConnsAccounted, [Next]_vars
               PROVE  ConnsAccounted'
    OBVIOUS
  <2>1. ASSUME UNCHANGED <<pc, holder>> PROVE ConnsAccounted'
    BY <2>1 DEF ConnsAccounted, Held
  <2>2. CASE \E w \in Workers : Step(w)
    BY <2>2, StepKeepsBooks
  <2>3. CASE \E r \in Requests : Serve(r)
    BY <2>3, ServeKeepsBooks
  <2>4. CASE Signal \/ StopListening \/ StartClose \/ EndClose
    BY <2>1, <2>4 DEF Signal, StopListening, StartClose, EndClose
  <2>5. CASE UNCHANGED vars
    BY <2>1, <2>5 DEF vars
  <2>. QED
    BY <2>2, <2>3, <2>4, <2>5 DEF Next
<1>. QED
  BY <1>1, <1>2, TypeCorrect, PTL DEF Spec

-----------------------------------------------------------------------------
(* Circular waits.                                                         *)

\* A goroutine that holds a connection while it waits for another is a worker
\* in a handler, and holds no other.
LEMMA WaitingHolders ==
    ASSUME TypeOK, ConnsAccounted, NEW c \in Conns,
           holder[c] # NULL, pc[holder[c]] \in Wanting
    PROVE  holder[c] \in Workers /\ Cardinality(Held(holder[c])) = 1
<1>1. holder[c] \in Goroutines
  BY DEF TypeOK
<1>2. Held(holder[c]) # {}
  BY DEF Held
<1>3. Cardinality(Held(holder[c])) # 0
  BY <1>2, HeldFinite, FS_EmptySet
<1>4. pc[holder[c]] \in {"ask", "failed"}
  BY <1>1, <1>3 DEF ConnsAccounted, Uses, Wanting
<1>. QED
  BY <1>1, <1>4 DEF ConnsAccounted, Uses, TypeOK, Goroutines

\* Fewer workers than connections are never all stuck with one connection each,
\* waiting for a second one: some connection is idle or moves on.
THEOREM NoCircularWaits == Spec => []NoCircularWait
<1>1. TypeOK /\ ConnsAccounted => NoCircularWait
  <2>. SUFFICES ASSUME TypeOK, ConnsAccounted,
                      \A c \in Conns : holder[c] # NULL /\ pc[holder[c]] \in Wanting
               PROVE  FALSE
    BY DEF NoCircularWait
  <2>1. \A c \in Conns :
           holder[c] \in Workers /\ Cardinality(Held(holder[c])) = 1
    BY WaitingHolders
  <2>2. holder \in [Conns -> Workers]
    BY <2>1 DEF TypeOK
  <2>3. PICK c, d \in Conns : c # d /\ holder[c] = holder[d]
    BY <2>2, PoolAssumption, WorkersFit, FS_PigeonHole
  <2>4. c \in Held(holder[c]) /\ d \in Held(holder[c])
    BY <2>3 DEF Held
  <2>5. PICK x : Held(holder[c]) = {x}
    BY <2>1, HeldFinite, FS_Singleton
  <2>. QED
    BY <2>3, <2>4, <2>5
<1>. QED
  BY <1>1, TypeCorrect, ConnectionsAccounted, PTL
=============================================================================
