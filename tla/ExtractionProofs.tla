-------------------------- MODULE ExtractionProofs --------------------------
(***************************************************************************)
(* Theorems about Extraction for any number of quotes, links and slots.    *)
(* Of Unwrap only UnwrapAssumption is used.                                *)
(***************************************************************************)
EXTENDS Extraction, FiniteSetTheorems, TLAPS

\* What a chain has reached is what it is requesting, and nothing has answered
\* a link whose goroutine still works on it.
ChainInv ==
    \A l \in Links :
        /\ goroutine[l] \in Attempt => final[l] = url[l]
        /\ goroutine[l] # "finished" => answered[l] = NULL

\* Verdicts are recorded as they come, and the links wait for all of them: no
\* goroutine exists before.
VerdictInv ==
    /\ keptQuotes = passed
    /\ run \in {"links", "returned"} => judged = Quotes
    /\ run \in {"tool", "quotes"} => \A l \in Links : goroutine[l] = "none"

Inv == TypeOK /\ SlotsAreHeld /\ ChainInv /\ StoredIsReached /\ VerdictInv

LEMMA InputIsUrl == \A l \in Links : Input(l) \in Urls
BY ExtractionAssumption, UnwrapAssumption DEF Input

\* The goroutines that hold a slot.
Holders == {l \in Links : goroutine[l] \in Attempt}

\* A goroutine that enters its first chain takes one slot.
LEMMA HoldersGrow ==
    ASSUME TypeOK, SlotsAreHeld, NEW l \in Links, goroutine[l] = "queued",
           goroutine' = [goroutine EXCEPT ![l] = "HEAD"], slots' = slots + 1
    PROVE  SlotsAreHeld'
<1>1. Holders' = Holders \cup {l} /\ l \notin Holders
  BY DEF Holders, Attempt, TypeOK
<1>2. IsFiniteSet(Holders)
  BY ExtractionAssumption, FS_Subset DEF Holders
<1>3. Cardinality(Holders') = Cardinality(Holders) + 1
  BY <1>1, <1>2, FS_AddElement
<1>. QED  BY <1>3 DEF SlotsAreHeld, Holders

\* One that finishes gives it back, and there was one to give back.
LEMMA HoldersShrink ==
    ASSUME TypeOK, SlotsAreHeld, NEW l \in Links, goroutine[l] \in Attempt,
           goroutine' = [goroutine EXCEPT ![l] = "finished"], slots' = slots - 1
    PROVE  SlotsAreHeld' /\ slots' \in 0..LinkWorkers
<1>1. Holders' = Holders \ {l} /\ l \in Holders
  BY DEF Holders, Attempt, TypeOK
<1>2. IsFiniteSet(Holders)
  BY ExtractionAssumption, FS_Subset DEF Holders
<1>3. Cardinality(Holders') = Cardinality(Holders) - 1
  BY <1>1, <1>2, FS_RemoveElement
<1>4. IsFiniteSet(Holders') /\ Cardinality(Holders') \in Nat
  BY <1>1, <1>2, FS_RemoveElement, FS_CardinalityType
<1>5. slots = Cardinality(Holders) /\ slots \in 0..LinkWorkers
  BY DEF SlotsAreHeld, Holders, TypeOK
<1>6. slots' = Cardinality(Holders')
  BY <1>3, <1>5
<1>7. SlotsAreHeld'
  BY <1>6 DEF SlotsAreHeld, Holders
<1>8. slots' \in 0..LinkWorkers
  BY <1>4, <1>5, <1>6, ExtractionAssumption
<1>. QED  BY <1>7, <1>8

\* Leaving the pool stores what Canonical returns and disturbs no other link.
LEMMA FinishKeepsInv ==
    ASSUME Inv, NEW l \in Links, goroutine[l] \in Attempt, NEW u \in Urls,
           Finish(l, u), UNCHANGED <<run_vars, url, requests, final>>,
           \/ answered' = [answered EXCEPT ![l] = url[l]] /\ u = Unwrap[url[l]]
           \/ UNCHANGED answered /\ u = Input(l)
    PROVE  Inv'
<1>. USE DEF Inv
<1>1. SlotsAreHeld' /\ slots' \in 0..LinkWorkers
  BY HoldersShrink DEF Finish
<1>2. TypeOK'
  BY <1>1 DEF TypeOK, Finish, run_vars
<1>3. /\ goroutine'[l] = "finished" /\ stored'[l] = u
      /\ answered[l] = NULL
      /\ \A k \in Links \ {l} : /\ goroutine'[k] = goroutine[k]
                                /\ stored'[k] = stored[k]
                                /\ answered'[k] = answered[k]
  BY DEF Finish, TypeOK, ChainInv, Attempt
<1>4. ChainInv'
  BY <1>3 DEF ChainInv, Attempt
<1>5. stored'[l] = IF answered'[l] = NULL THEN Input(l) ELSE Unwrap[answered'[l]]
  <2>1. CASE answered' = [answered EXCEPT ![l] = url[l]] /\ u = Unwrap[url[l]]
    <3>1. answered'[l] = url[l] /\ url[l] # NULL
      BY <2>1, ExtractionAssumption DEF TypeOK
    <3>. QED  BY <1>3, <2>1, <3>1
  <2>2. CASE UNCHANGED answered /\ u = Input(l)
    BY <1>3, <2>2
  <2>. QED  BY <2>1, <2>2
<1>6. StoredIsReached'
  BY <1>3, <1>5 DEF StoredIsReached, Input
<1>7. VerdictInv'
  BY DEF VerdictInv, run_vars, Attempt
<1>. QED  BY <1>1, <1>2, <1>4, <1>6, <1>7

\* The inductive invariant: besides the properties, what each chain has reached
\* (ChainInv) and where the verdicts stand (VerdictInv).
THEOREM Invariance == Spec => []Inv
<1>1. Init => Inv
  <2>. SUFFICES ASSUME Init PROVE Inv
    OBVIOUS
  <2>1. TypeOK
    BY ExtractionAssumption DEF Init, TypeOK
  <2>2. SlotsAreHeld
    <3>1. {l \in Links : goroutine[l] \in Attempt} = {}
      BY DEF Init, Attempt
    <3>. QED  BY <3>1, FS_EmptySet DEF SlotsAreHeld, Init
  <2>3. ChainInv /\ StoredIsReached /\ VerdictInv
    BY DEF Init, ChainInv, StoredIsReached, VerdictInv, Attempt
  <2>. QED  BY <2>1, <2>2, <2>3 DEF Inv
<1>2. Inv /\ [Next]_vars => Inv'
  <2>. SUFFICES ASSUME Inv, [Next]_vars PROVE Inv'
    OBVIOUS
  <2>. USE DEF Inv
  <2>1. ASSUME UNCHANGED link_vars
        PROVE  SlotsAreHeld' /\ ChainInv' /\ StoredIsReached'
    BY <2>1 DEF link_vars, SlotsAreHeld, ChainInv, StoredIsReached, Input
  <2>2. CASE UNCHANGED vars
    BY <2>1, <2>2 DEF vars, run_vars, link_vars, TypeOK, VerdictInv
  <2>3. CASE Fail
    BY <2>1, <2>3 DEF Fail, link_vars, TypeOK, VerdictInv
  <2>4. CASE CallTool
    <3>1. TypeOK'
      BY <2>4 DEF CallTool, link_vars, TypeOK
    <3>2. VerdictInv'
      BY <2>4 DEF CallTool, link_vars, VerdictInv
    <3>. QED  BY <2>1, <2>4, <3>1, <3>2 DEF CallTool
  <2>5. CASE JudgeQuote
    <3>1. judged + 1 \in 1..Quotes
      BY <2>5, ExtractionAssumption DEF JudgeQuote, TypeOK
    <3>2. /\ judged' \in 0..Quotes
          /\ keptQuotes' \subseteq 1..Quotes /\ passed' \subseteq 1..Quotes
      <4>1. judged + 1 \in 0..Quotes
        BY <3>1, ExtractionAssumption
      <4>2. keptQuotes' \in {keptQuotes, keptQuotes \cup {judged + 1}}
        BY <2>5 DEF JudgeQuote
      <4>3. passed' \in {passed, passed \cup {judged + 1}}
        BY <2>5 DEF JudgeQuote
      <4>4. keptQuotes \subseteq 1..Quotes /\ passed \subseteq 1..Quotes
        BY DEF TypeOK
      <4>5. judged' = judged + 1
        BY <2>5 DEF JudgeQuote
      <4>. QED  BY <3>1, <4>1, <4>2, <4>3, <4>4, <4>5
    <3>3. TypeOK'
      BY <2>5, <3>2 DEF JudgeQuote, link_vars, TypeOK
    <3>4. VerdictInv'
      BY <2>5 DEF JudgeQuote, VerdictInv, link_vars
    <3>. QED  BY <2>1, <2>5, <3>3, <3>4 DEF JudgeQuote
  <2>6. CASE StartLinks
    <3>1. TypeOK' /\ VerdictInv'
      BY <2>6 DEF StartLinks, TypeOK, VerdictInv
    <3>2. \A l \in Links : goroutine[l] = "none" /\ goroutine'[l] \in {"none", "queued"}
      BY <2>6 DEF StartLinks, VerdictInv
    <3>3. SlotsAreHeld'
      <4>1. {l \in Links : goroutine'[l] \in Attempt} = {l \in Links : goroutine[l] \in Attempt}
        BY <3>2 DEF Attempt
      <4>. QED  BY <2>6, <4>1 DEF StartLinks, SlotsAreHeld
    <3>4. ChainInv' /\ StoredIsReached'
      BY <2>6, <3>2 DEF StartLinks, ChainInv, StoredIsReached, Attempt
    <3>. QED  BY <3>1, <3>3, <3>4
  <2>7. CASE Return
    BY <2>1, <2>7 DEF Return, link_vars, TypeOK, VerdictInv
  <2>8. ASSUME NEW l \in Links, Acquire(l) PROVE Inv'
    <3>1. /\ goroutine[l] = "queued" /\ slots < LinkWorkers /\ slots' = slots + 1
          /\ goroutine' = [goroutine EXCEPT ![l] = "HEAD"]
          /\ url' = [url EXCEPT ![l] = Input(l)]
          /\ requests' = [requests EXCEPT ![l] = 1]
          /\ final' = [final EXCEPT ![l] = Input(l)]
          /\ UNCHANGED <<run_vars, stored, answered>>
      BY <2>8 DEF Acquire, StartChain
    <3>2. SlotsAreHeld'
      BY <3>1, HoldersGrow
    <3>3. TypeOK'
      BY <3>1, InputIsUrl, ExtractionAssumption DEF TypeOK, run_vars, Attempt
    <3>4. ChainInv'
      BY <3>1 DEF ChainInv, TypeOK, Attempt
    <3>5. StoredIsReached'
      BY <3>1 DEF StoredIsReached, TypeOK, Input
    <3>6. VerdictInv'
      BY <3>1 DEF VerdictInv, run_vars, TypeOK
    <3>. QED  BY <3>2, <3>3, <3>4, <3>5, <3>6
  <2>9. ASSUME NEW l \in Links, NEW u \in Urls, Redirect(l, u) PROVE Inv'
    <3>1. TypeOK'
      BY <2>9, ExtractionAssumption DEF Redirect, TypeOK, run_vars
    <3>2. SlotsAreHeld'
      BY <2>9 DEF Redirect, SlotsAreHeld
    <3>3. ChainInv'
      BY <2>9 DEF Redirect, ChainInv, TypeOK
    <3>4. StoredIsReached'
      BY <2>9 DEF Redirect, StoredIsReached, Input
    <3>5. VerdictInv'
      BY <2>9 DEF Redirect, VerdictInv, run_vars
    <3>. QED  BY <3>1, <3>2, <3>3, <3>4, <3>5
  <2>10. ASSUME NEW l \in Links, Answer(l) PROVE Inv'
    <3>1. final[l] = url[l] /\ url[l] \in Urls /\ Unwrap[url[l]] \in Urls
      BY <2>10, UnwrapAssumption DEF Answer, ChainInv, TypeOK
    <3>. QED  BY <2>10, <3>1, FinishKeepsInv DEF Answer
  <2>11. ASSUME NEW l \in Links, FailHead(l) PROVE Inv'
    <3>1. /\ goroutine[l] = "HEAD"
          /\ goroutine' = [goroutine EXCEPT ![l] = "GET"]
          /\ url' = [url EXCEPT ![l] = Input(l)]
          /\ requests' = [requests EXCEPT ![l] = 1]
          /\ final' = [final EXCEPT ![l] = Input(l)]
          /\ UNCHANGED <<run_vars, slots, stored, answered>>
      BY <2>11 DEF FailHead, StartChain
    <3>2. TypeOK'
      BY <3>1, InputIsUrl, ExtractionAssumption DEF TypeOK, run_vars, Attempt
    <3>3. SlotsAreHeld'
      <4>1. \A k \in Links : goroutine'[k] \in Attempt <=> goroutine[k] \in Attempt
        BY <3>1 DEF TypeOK, Attempt
      <4>2. {k \in Links : goroutine'[k] \in Attempt}
              = {k \in Links : goroutine[k] \in Attempt}
        BY <4>1
      <4>. QED  BY <3>1, <4>2 DEF SlotsAreHeld
    <3>4. ChainInv'
      BY <3>1 DEF ChainInv, TypeOK, Attempt
    <3>5. StoredIsReached'
      BY <3>1 DEF StoredIsReached, TypeOK, Input
    <3>6. VerdictInv'
      BY <3>1 DEF VerdictInv, run_vars, TypeOK
    <3>. QED  BY <3>2, <3>3, <3>4, <3>5, <3>6
  <2>12. ASSUME NEW l \in Links, GiveUp(l) PROVE Inv'
    BY <2>12, InputIsUrl, FinishKeepsInv DEF GiveUp
  <2>. QED
    BY <2>2, <2>3, <2>4, <2>5, <2>6, <2>7, <2>8, <2>9, <2>10, <2>11, <2>12
    DEF Next, Resolve
<1>. QED  BY <1>1, <1>2, PTL DEF Spec

\* No variable of a run leaves its type; slots never exceeds linkWorkers.
THEOREM TypeCorrect == Spec => []TypeOK
<1>1. Inv => TypeOK
  BY DEF Inv
<1>. QED  BY <1>1, Invariance, PTL

\* Each stored link is the destination of the chain that answered (follow),
\* however its HEAD and GET chains went.
THEOREM LinksReached == Spec => []StoredIsReached
<1>1. Inv => StoredIsReached
  BY DEF Inv
<1>. QED  BY <1>1, Invariance, PTL

\* A run that returns kept exactly the quotes that passed (keepSelfContained).
THEOREM VerdictsKept == Spec => []QuotesKeptByVerdict
<1>1. Inv => QuotesKeptByVerdict
  BY DEF Inv, VerdictInv, QuotesKeptByVerdict
<1>. QED  BY <1>1, Invariance, PTL

\* As many slots are taken as goroutines are resolving a link, on every path
\* out of Canonical (editorialLinks).
THEOREM SlotsHeld == Spec => []SlotsAreHeld
<1>1. Inv => SlotsAreHeld
  BY DEF Inv
<1>. QED  BY <1>1, Invariance, PTL
=============================================================================
