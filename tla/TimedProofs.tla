---------------------------- MODULE TimedProofs -----------------------------
(***************************************************************************)
(* Theorems about Timed for any backoffs, any number of rows and workers   *)
(* and any length of time.  Timed implements Pipeline, so every invariant  *)
(* PipelineProofs proves holds here and is used here.                      *)
(***************************************************************************)
EXTENDS Timed, PipelineProofs

timed_vars == <<vars, time_vars>>

\* What a claim finds and writes.
LEMMA ClaimEffect ==
    ASSUME TypeOK, TimedTypeOK, DueOnTime,
           NEW w \in Workers, NEW e \in Emails, TimedClaim(w, e)
    PROVE  /\ classification[e] # "absent" /\ next_attempt_at[e] <= now
           /\ attempts[e] \in 0..(MaxAttempts - 1)
           /\ Backoff[attempts[e]] \in Nat \ {0}
           /\ attempts' = [attempts EXCEPT ![e] = @ + 1]
           /\ due' = [due EXCEPT ![e] = FALSE]
           /\ job' = [job EXCEPT ![w] = e]
           /\ UNCHANGED <<classification, now>>
<1>1. Claim(w, e) /\ UNCHANGED now
  BY DEF TimedClaim
<1>2. attempts[e] \in 0..MaxAttempts /\ attempts[e] < MaxAttempts /\ due[e]
  BY <1>1 DEF Claim, Claimable, TypeOK
<1>3. attempts[e] \in 0..(MaxAttempts - 1)
  BY <1>2, RowsAssumption
<1>. QED
  BY <1>1, <1>2, <1>3, BackoffAssumption DEF Claim, ChargeAttempt, DueOnTime

\* What every other step of the program does to what the clock's bookkeeping
\* rests on: nothing becomes due, no row appears, a job only ends, and attempts
\* only go back to zero.
LEMMA UntimedEffect ==
    ASSUME TypeOK, JobsExist, Untimed
    PROVE  /\ UNCHANGED <<due, time_vars>>
           /\ \A e \in Emails :
                 /\ classification'[e] = "absent" <=> classification[e] = "absent"
                 /\ attempts'[e] \in {attempts[e], 0}
           /\ \A w \in Workers : job'[w] \in {job[w], NULL}
<1>1. UNCHANGED time_vars
  BY DEF Untimed, KeepNextAttempt, time_vars
<1>2. CASE UNCHANGED <<due, classification, attempts, job>>
  BY <1>1, <1>2
<1>3. ASSUME NEW u \in Users, NEW r \in UserRecord, SetUser(u, r)
      PROVE  UNCHANGED <<due, classification, attempts, job>>
  BY <1>3 DEF SetUser, row_vars, worker_vars
<1>4. ASSUME NEW w \in Workers, ClassifyRow(w) \/ ReadBilling(w) \/ ParseRow(w) \/ Fail(w)
      PROVE  UNCHANGED <<due, classification, attempts, job>>
  BY <1>4 DEF ClassifyRow, ReadBilling, ParseRow, Fail, row_vars
<1>5. ASSUME NEW w \in Workers, RecordFailure(w) \/ Abandon(w)
      PROVE  /\ UNCHANGED <<due, classification, attempts>>
             /\ job' = [job EXCEPT ![w] = NULL]
  BY <1>5 DEF RecordFailure, Abandon, ReleaseFaulted, Release, row_vars
<1>6. ASSUME NEW w \in Workers, CommitParse(w)
      PROVE  /\ UNCHANGED <<due, classification>>
             /\ attempts' = [attempts EXCEPT ![job[w]] = 0]
             /\ job' = [job EXCEPT ![w] = NULL]
  BY <1>6 DEF CommitParse, Save, MarkParsed, Release
<1>7. ASSUME NEW w \in Workers, CommitClassify(w)
      PROVE  /\ UNCHANGED due
             /\ job[w] \in Emails /\ classification[job[w]] # "absent"
             /\ classification' = [classification EXCEPT ![job[w]] = verdict[w].class]
             /\ verdict[w].class # "absent"
             /\ attempts' = [attempts EXCEPT ![job[w]] = 0]
             /\ job' = [job EXCEPT ![w] = NULL]
  <2>1. job[w] \in Emails /\ classification[job[w]] # "absent"
    BY <1>7 DEF CommitClassify, TypeOK, JobsExist
  <2>2. verdict[w].class # "absent"
    <3>1. verdict[w] \in Result \cup {Undecided}
      BY DEF TypeOK
    <3>. QED  BY <3>1 DEF Result, Classes, Undecided
  <2>. QED  BY <1>7, <2>1, <2>2 DEF CommitClassify, SetClassification, Release
<1>8. \/ \E u \in Users, r \in UserRecord : SetUser(u, r)
      \/ \E w \in Workers :
            \/ ClassifyRow(w) \/ ReadBilling(w) \/ ParseRow(w) \/ Fail(w)
            \/ RecordFailure(w) \/ Abandon(w)
            \/ CommitParse(w)
            \/ CommitClassify(w)
  BY DEF Untimed, Handle
<1>. QED  BY <1>1, <1>2, <1>3, <1>4, <1>5, <1>6, <1>7, <1>8 DEF TypeOK

\* A tick is an Elapse of the rows that become due with it, or nothing that
\* Pipeline sees.
LEMMA TickElapses ==
    ASSUME TypeOK, TimedTypeOK, DueOnTime, Tick
    PROVE  [Next]_vars
<1>. DEFINE S == {e \in Emails : ~due[e] /\ due'[e]}
<1>1. \A e \in Emails : due[e] => due'[e]
  <2>. SUFFICES ASSUME NEW e \in Emails, due[e] PROVE due'[e]
    OBVIOUS
  <2>1. classification[e] # "absent" /\ next_attempt_at[e] <= now
    BY DEF DueOnTime
  <2>2. next_attempt_at[e] <= now'
    BY <2>1, TimeAssumption DEF Tick, TimedTypeOK
  <2>. QED  BY <2>1, <2>2 DEF Tick
<1>2. due' = [e \in Emails |-> due[e] \/ e \in S]
  BY <1>1 DEF Tick, TypeOK
<1>3. CASE S = {}
  <2>1. due' = due
    BY <1>2, <1>3 DEF TypeOK
  <2>. QED  BY <2>1 DEF Tick, vars, row_vars
<1>4. CASE S # {}
  <2>1. \A e \in S : classification[e] # "absent" /\ ~due[e]
    BY DEF Tick
  <2>. QED  BY <1>2, <1>4, <2>1 DEF Tick, Elapse, Next
<1>. QED  BY <1>3, <1>4

LEMMA StepOfPipeline ==
    ASSUME TypeOK, TimedTypeOK, DueOnTime, [TimedNext]_timed_vars
    PROVE  [Next]_vars
<1>1. CASE UNCHANGED timed_vars
  BY <1>1 DEF timed_vars
<1>2. CASE Tick
  BY <1>2, TickElapses
<1>3. CASE \E e \in Emails : TimedInsert(e)
  BY <1>3 DEF TimedInsert, Next
<1>4. CASE \E w \in Workers, e \in Emails : TimedClaim(w, e)
  BY <1>4 DEF TimedClaim, Next
<1>5. CASE Untimed
  BY <1>5 DEF Untimed, Next
<1>. QED  BY <1>1, <1>2, <1>3, <1>4, <1>5 DEF TimedNext

\* The inductive invariant the refinement needs: types, and due as the clock
\* has it.
ClockInv == TypeOK /\ TimedTypeOK /\ DueOnTime /\ JobsExist

LEMMA ClockKept ==
    ASSUME ClockInv, [TimedNext]_timed_vars
    PROVE  ClockInv'
<1>. USE DEF ClockInv
<1>1. TypeOK'
  BY StepOfPipeline, TypeKept
<1>2. CASE UNCHANGED timed_vars
  BY <1>1, <1>2 DEF timed_vars, vars, time_vars, TimedTypeOK, DueOnTime, JobsExist,
                    row_vars, worker_vars
<1>3. CASE Tick
  <2>1. TimedTypeOK'
    BY <1>3, TimeAssumption DEF Tick, TimedTypeOK
  <2>2. DueOnTime'
    BY <1>3 DEF Tick, DueOnTime
  <2>3. JobsExist'
    BY <1>3 DEF Tick, JobsExist, worker_vars
  <2>. QED  BY <1>1, <2>1, <2>2, <2>3
<1>4. ASSUME NEW e \in Emails, TimedInsert(e)
      PROVE  TimedTypeOK' /\ DueOnTime' /\ JobsExist'
  BY <1>4 DEF TimedInsert, Insert, TypeOK, TimedTypeOK, DueOnTime, JobsExist,
              worker_vars
<1>5. ASSUME NEW w \in Workers, NEW e \in Emails, TimedClaim(w, e)
      PROVE  TimedTypeOK' /\ DueOnTime' /\ JobsExist'
  <2>1. TimedTypeOK'
    <3>1. now' \in 0..MaxTime /\ now + Backoff[attempts[e]] \in Nat /\ now \in Nat
      BY <1>5, ClaimEffect, TimeAssumption DEF TimedTypeOK
    <3>2. overtakes' \in [Emails -> [Emails -> Nat]]
      BY <1>5 DEF TimedClaim, TimedTypeOK
    <3>. QED  BY <1>5, <3>1, <3>2 DEF TimedClaim, TimedTypeOK
  <2>2. DueOnTime'
    <3>1. /\ next_attempt_at' = [next_attempt_at EXCEPT ![e] = now + Backoff[attempts[e]]]
          /\ due' = [due EXCEPT ![e] = FALSE]
          /\ UNCHANGED <<now, classification>>
      BY <1>5, ClaimEffect DEF TimedClaim
    <3>2. ~(now + Backoff[attempts[e]] <= now)
      BY <1>5, ClaimEffect, TimeAssumption DEF TimedTypeOK
    <3>3. ASSUME NEW f \in Emails, f # e
          PROVE  (due[f] <=> classification[f] # "absent" /\ next_attempt_at[f] <= now)'
      BY <3>1, <3>3 DEF DueOnTime, TimedTypeOK, TypeOK
    <3>4. (due[e] <=> classification[e] # "absent" /\ next_attempt_at[e] <= now)'
      BY <3>1, <3>2 DEF TimedTypeOK, TypeOK
    <3>. QED  BY <3>3, <3>4 DEF DueOnTime
  <2>3. JobsExist'
    BY <1>5, ClaimEffect DEF TypeOK, JobsExist
  <2>. QED  BY <2>1, <2>2, <2>3
<1>6. CASE Untimed
  <2>1. TimedTypeOK'
    BY <1>6, UntimedEffect DEF TimedTypeOK, time_vars
  <2>2. DueOnTime'
    BY <1>6, UntimedEffect DEF DueOnTime, time_vars
  <2>3. JobsExist'
    BY <1>6, UntimedEffect DEF JobsExist, TypeOK
  <2>. QED  BY <1>1, <2>1, <2>2, <2>3
<1>. QED  BY <1>1, <1>2, <1>3, <1>4, <1>5, <1>6 DEF TimedNext

LEMMA ClockInitially ==
    ASSUME TimedInit PROVE ClockInv
  BY RowsAssumption, WorkersAssumption, TimeAssumption
     DEF TimedInit, Init, ClockInv, TypeOK, TimedTypeOK, DueOnTime, JobsExist,
         Undecided, Classes

\* The rows' times keep their types and due is next_attempt_at <= NOW() in
\* every state: what Pipeline leaves free is what the column says.
THEOREM ClockInvariant == TimedSpec => []ClockInv
  BY ClockInitially, ClockKept, PTL DEF TimedSpec, timed_vars

\* Every behaviour under the clock is a behaviour of Pipeline, so everything
\* proved of Pipeline holds with the real order of claims and real backoffs.
THEOREM ImplementsPipeline == TimedSpec => Spec
<1>1. TimedInit => Init
  BY DEF TimedInit
<1>2. ClockInv /\ [TimedNext]_timed_vars => [Next]_vars
  BY StepOfPipeline DEF ClockInv
<1>. QED  BY <1>1, <1>2, ClockInvariant, PTL DEF TimedSpec, Spec, timed_vars
-----------------------------------------------------------------------------
(* Overlap.  The last claim of a row wrote its next_attempt_at, and a row   *)
(* is claimed again only after that: older claims have older times.        *)

Leases ==
    \A w \in Workers : job[w] # NULL => until[w] <= next_attempt_at[job[w]]

OverlapInv == Leases /\ OutlivedBackoff

LEMMA OverlapKept ==
    ASSUME ClockInv, OverlapInv, [TimedNext]_timed_vars
    PROVE  OverlapInv'
<1>. USE DEF ClockInv
<1>1. CASE UNCHANGED timed_vars
  BY <1>1 DEF timed_vars, vars, worker_vars, time_vars, OverlapInv, Leases,
              OutlivedBackoff
<1>2. CASE Tick
  <2>1. now \in Nat /\ now' = now + 1 /\ UNCHANGED <<job, until, next_attempt_at>>
    BY <1>2, TimeAssumption DEF Tick, worker_vars, TimedTypeOK
  <2>2. Leases'
    BY <2>1 DEF OverlapInv, Leases
  <2>3. \A x \in Workers : until[x] <= now => until[x] <= now'
    BY <2>1 DEF TimedTypeOK
  <2>4. OutlivedBackoff'
    BY <2>1, <2>3 DEF OverlapInv, OutlivedBackoff
  <2>. QED  BY <2>2, <2>4 DEF OverlapInv
<1>3. ASSUME NEW e \in Emails, TimedInsert(e)
      PROVE  /\ UNCHANGED <<job, until, now>>
             /\ \A f \in Emails : classification[f] # "absent" =>
                   next_attempt_at'[f] = next_attempt_at[f]
  BY <1>3 DEF TimedInsert, Insert, worker_vars, TimedTypeOK
<1>4. CASE \E e \in Emails : TimedInsert(e)
  <2>1. PICK e \in Emails : TimedInsert(e)
    BY <1>4
  <2>2. Leases'
    <3>. SUFFICES ASSUME NEW w \in Workers, job'[w] # NULL
                  PROVE  until'[w] <= next_attempt_at'[job'[w]]
      BY DEF Leases
    <3>1. job'[w] = job[w] /\ job[w] \in Emails /\ classification[job[w]] # "absent"
      BY <1>3, <2>1 DEF JobsExist, TypeOK
    <3>. QED  BY <1>3, <2>1, <3>1 DEF OverlapInv, Leases
  <2>3. OutlivedBackoff'
    BY <1>3, <2>1 DEF OverlapInv, OutlivedBackoff
  <2>. QED  BY <2>2, <2>3 DEF OverlapInv
<1>5. ASSUME NEW u \in Workers, NEW e \in Emails, TimedClaim(u, e)
      PROVE  OverlapInv'
  <2>. DEFINE t == now + Backoff[attempts[e]]
  <2>1. /\ next_attempt_at' = [next_attempt_at EXCEPT ![e] = t]
        /\ until' = [until EXCEPT ![u] = t]
        /\ job' = [job EXCEPT ![u] = e]
        /\ UNCHANGED now
    BY <1>5, ClaimEffect DEF TimedClaim
  <2>2. next_attempt_at[e] <= now /\ now < t /\ t \in Nat /\ now \in Nat
    BY <1>5, ClaimEffect, TimeAssumption DEF TimedTypeOK
  <2>. HIDE DEF t
  <2>3. ASSUME NEW x \in Workers, x # u, job[x] = e
        PROVE  until[x] <= now /\ until[x] < t
    BY <2>2, <2>3, RowsAssumption DEF OverlapInv, Leases, TimedTypeOK
  <2>4. Leases'
    BY <2>1, <2>2, <2>3 DEF OverlapInv, Leases, TimedTypeOK, TypeOK
  <2>5. ASSUME NEW x \in Workers, NEW y \in Workers,
               x # y, job'[x] # NULL, job'[x] = job'[y]
        PROVE  \/ until'[x] <= now' /\ until'[x] <= until'[y]
               \/ until'[y] <= now' /\ until'[y] <= until'[x]
    <3>1. CASE x = u
      BY <2>1, <2>2, <2>3, <2>5, <3>1 DEF TimedTypeOK, TypeOK
    <3>2. CASE y = u
      BY <2>1, <2>2, <2>3, <2>5, <3>2 DEF TimedTypeOK, TypeOK
    <3>3. CASE x # u /\ y # u
      BY <2>1, <2>5, <3>3 DEF TimedTypeOK, TypeOK, OverlapInv, OutlivedBackoff
    <3>. QED  BY <3>1, <3>2, <3>3
  <2>. QED  BY <2>4, <2>5 DEF OverlapInv, OutlivedBackoff
<1>6. CASE Untimed
  BY <1>6, UntimedEffect
     DEF OverlapInv, Leases, OutlivedBackoff, time_vars, TimedTypeOK, TypeOK
<1>. QED
  BY <1>1, <1>2, <1>4, <1>5, <1>6 DEF TimedNext, OverlapInv, OutlivedBackoff

\* A second handler starts on a row only after the first has run longer than
\* the backoff its own claim wrote, over any chain of claims, of stages, of
\* resets and of crashes.
THEOREM OverlapsOutlived == TimedSpec => []OutlivedBackoff
<1>1. TimedInit => OverlapInv
  BY DEF TimedInit, Init, OverlapInv, Leases, OutlivedBackoff
<1>2. OverlapInv => OutlivedBackoff
  BY DEF OverlapInv
<1>. QED
  BY <1>1, <1>2, OverlapKept, ClockInvariant, PTL DEF TimedSpec, timed_vars
-----------------------------------------------------------------------------
(* Patience.  The attempts of a row count the claims of one spread-out run. *)

Spread ==
    \A e \in Emails : attempts[e] # 0 =>
        /\ next_attempt_at[e] = last[e] + Backoff[attempts[e] - 1]
        /\ last[e] - first[e] >= Span[attempts[e]]

LEMMA SpreadKept ==
    ASSUME ClockInv, FreshRows, Spread, [TimedNext]_timed_vars
    PROVE  Spread'
<1>. USE DEF ClockInv
<1>1. CASE UNCHANGED timed_vars
  BY <1>1 DEF timed_vars, vars, row_vars, time_vars, Spread
<1>2. CASE Tick
  BY <1>2 DEF Tick, Spread
<1>3. ASSUME NEW e \in Emails, TimedInsert(e) PROVE Spread'
  BY <1>3 DEF TimedInsert, Insert, FreshRows, Spread, TimedTypeOK
<1>4. ASSUME NEW w \in Workers, NEW e \in Emails, TimedClaim(w, e) PROVE Spread'
  <2>. DEFINE a == attempts[e]
              t == now + Backoff[a]
  <2>1. /\ next_attempt_at' = [next_attempt_at EXCEPT ![e] = t]
        /\ first' = [first EXCEPT ![e] = IF a = 0 THEN now ELSE @]
        /\ last' = [last EXCEPT ![e] = now]
        /\ attempts' = [attempts EXCEPT ![e] = a + 1]
    BY <1>4, ClaimEffect DEF TimedClaim
  <2>2. /\ next_attempt_at[e] <= now /\ now \in Nat
        /\ a \in 0..(MaxAttempts - 1)
    BY <1>4, ClaimEffect, TimeAssumption DEF TimedTypeOK
  <2>3. ASSUME NEW f \in Emails, f # e, attempts'[f] # 0
        PROVE  (/\ next_attempt_at[f] = last[f] + Backoff[attempts[f] - 1]
                /\ last[f] - first[f] >= Span[attempts[f]])'
    BY <2>1, <2>3 DEF Spread, TimedTypeOK, TypeOK
  <2>4. next_attempt_at'[e] = last'[e] + Backoff[attempts'[e] - 1]
    BY <2>1, <2>2 DEF TimedTypeOK, TypeOK
  <2>5. last'[e] - first'[e] >= Span[attempts'[e]]
    <3>1. attempts'[e] = a + 1 /\ last'[e] = now
      BY <2>1 DEF TimedTypeOK, TypeOK
    <3>2. CASE a = 0
      <4>1. first'[e] = now
        BY <2>1, <3>2 DEF TimedTypeOK
      <4>. QED  BY <2>2, <3>1, <3>2, <4>1, SpanAssumption
    <3>3. CASE a # 0
      <4>. HIDE DEF a
      <4>1. first'[e] = first[e] /\ first[e] \in Nat /\ last[e] \in Nat
        BY <2>1, <3>3 DEF TimedTypeOK
      <4>2. /\ next_attempt_at[e] = last[e] + Backoff[a - 1]
            /\ last[e] - first[e] >= Span[a]
        BY <3>3 DEF Spread, a
      <4>3. /\ a \in 1..(MaxAttempts - 1)
            /\ Span[a + 1] = Span[a] + Backoff[a - 1]
            /\ Span[a] \in Nat /\ Backoff[a - 1] \in Nat
        <5>1. a \in 1..(MaxAttempts - 1) /\ a - 1 \in 0..(MaxAttempts - 1)
              /\ a \in 1..MaxAttempts
          BY <2>2, <3>3, RowsAssumption
        <5>. QED  BY <5>1, SpanAssumption, BackoffAssumption
      <4>. QED  BY <2>2, <3>1, <4>1, <4>2, <4>3
    <3>. QED  BY <3>2, <3>3
  <2>. QED  BY <2>3, <2>4, <2>5 DEF Spread
<1>5. CASE Untimed
  BY <1>5, UntimedEffect DEF Spread, time_vars
<1>. QED  BY <1>1, <1>2, <1>3, <1>4, <1>5 DEF TimedNext

\* No row is given up within Span[MaxAttempts] minutes of the first claim of
\* the stage it is stuck in.
THEOREM GivesUpPatiently == TimedSpec => []PatientBeforeGivingUp
<1>1. TimedInit => Spread
  BY DEF TimedInit, Init, Spread
<1>2. Spec => []FreshRows
  BY AccountInvariant, PTL DEF AccountInv
<1>3. Spread => PatientBeforeGivingUp
  BY RowsAssumption DEF Spread, PatientBeforeGivingUp, GivenUp
<1>. QED
  BY <1>1, <1>2, <1>3, SpreadKept, ClockInvariant, ImplementsPipeline, PTL
     DEF TimedSpec, timed_vars
-----------------------------------------------------------------------------
(* Order.  A row that was claimed while another waited is behind it.       *)

Queued ==
    \A e, f \in Emails :
        /\ overtakes[e][f] \in {0, 1}
        /\ overtakes[e][f] = 1 =>
              /\ next_attempt_at[f] > next_attempt_at[e]
              /\ classification[e] # "absent" /\ classification[f] # "absent"

LEMMA QueuedKept ==
    ASSUME ClockInv, Queued, [TimedNext]_timed_vars
    PROVE  Queued'
<1>. USE DEF ClockInv
<1>1. CASE UNCHANGED timed_vars
  BY <1>1 DEF timed_vars, vars, row_vars, time_vars, Queued
<1>2. CASE Tick
  BY <1>2 DEF Tick, Queued
<1>3. ASSUME NEW e \in Emails, TimedInsert(e) PROVE Queued'
  BY <1>3 DEF TimedInsert, Insert, Queued, TimedTypeOK, TypeOK
<1>4. ASSUME NEW w \in Workers, NEW e \in Emails, TimedClaim(w, e) PROVE Queued'
  <2>. DEFINE t == now + Backoff[attempts[e]]
  <2>1. /\ next_attempt_at' = [next_attempt_at EXCEPT ![e] = t]
        /\ overtakes' = [f \in Emails |->
              IF f = e THEN [g \in Emails |-> 0]
              ELSE IF Waiting(StageOf(w), f)
                   THEN [overtakes[f] EXCEPT ![e] = @ + 1]
              ELSE overtakes[f]]
        /\ UNCHANGED classification
    BY <1>4, ClaimEffect DEF TimedClaim
  <2>2. /\ next_attempt_at[e] <= now /\ now < t /\ t \in Nat /\ now \in Nat
        /\ classification[e] # "absent"
    BY <1>4, ClaimEffect, TimeAssumption DEF TimedTypeOK
  <2>. HIDE DEF t
  <2>3. ASSUME NEW f \in Emails, f # e, Waiting(StageOf(w), f)
        PROVE  /\ overtakes[f][e] = 0
               /\ next_attempt_at[f] <= now /\ classification[f] # "absent"
    <3>1. next_attempt_at[e] <= next_attempt_at[f]
      BY <1>4, <2>3 DEF TimedClaim, FirstInLine
    <3>2. next_attempt_at[f] <= now /\ classification[f] # "absent"
      BY <2>3 DEF Waiting, Claimable, DueOnTime
    <3>. QED  BY <3>1, <3>2 DEF Queued, TimedTypeOK
  <2>4. ASSUME NEW f \in Emails, NEW g \in Emails
        PROVE  (/\ overtakes[f][g] \in {0, 1}
                /\ overtakes[f][g] = 1 =>
                     /\ next_attempt_at[g] > next_attempt_at[f]
                     /\ classification[f] # "absent" /\ classification[g] # "absent")'
    <3>1. CASE f = e
      BY <2>1, <3>1
    <3>2. CASE f # e /\ g # e
      <4>1. overtakes'[f][g] = overtakes[f][g]
        BY <2>1, <3>2 DEF TimedTypeOK
      <4>2. /\ next_attempt_at'[f] = next_attempt_at[f]
            /\ next_attempt_at'[g] = next_attempt_at[g]
        BY <2>1, <3>2 DEF TimedTypeOK
      <4>. QED  BY <2>1, <4>1, <4>2 DEF Queued
    <3>3. CASE f # e /\ g = e /\ Waiting(StageOf(w), f)
      <4>1. overtakes'[f][g] = overtakes[f][e] + 1
        BY <2>1, <3>3 DEF TimedTypeOK
      <4>2. next_attempt_at'[f] = next_attempt_at[f] /\ next_attempt_at'[g] = t
        BY <2>1, <3>3 DEF TimedTypeOK
      <4>3. overtakes[f][e] = 0 /\ next_attempt_at[f] <= now /\ classification[f] # "absent"
        BY <2>3, <3>3
      <4>. QED  BY <2>1, <2>2, <3>3, <4>1, <4>2, <4>3 DEF TimedTypeOK
    <3>4. CASE f # e /\ g = e /\ ~Waiting(StageOf(w), f)
      <4>1. overtakes'[f][g] = overtakes[f][g]
        BY <2>1, <3>4 DEF TimedTypeOK
      <4>2. next_attempt_at'[f] = next_attempt_at[f] /\ next_attempt_at'[g] = t
        BY <2>1, <3>4 DEF TimedTypeOK
      <4>. QED  BY <2>1, <2>2, <3>4, <4>1, <4>2 DEF TimedTypeOK, Queued
    <3>. QED  BY <3>1, <3>2, <3>3, <3>4
  <2>. QED  BY <2>4 DEF Queued
<1>5. CASE Untimed
  BY <1>5, UntimedEffect DEF Queued, time_vars
<1>. QED  BY <1>1, <1>2, <1>3, <1>4, <1>5 DEF TimedNext

\* However often other rows fail and come back, each is served at most once
\* before a row that waits for the same stage.
THEOREM NobodyStarves == TimedSpec => []OvertakenOnce
<1>1. TimedInit => Queued
  BY DEF TimedInit, Queued
<1>2. Queued => OvertakenOnce
  BY DEF Queued, OvertakenOnce
<1>. QED
  BY <1>1, <1>2, QueuedKept, ClockInvariant, PTL DEF TimedSpec, timed_vars
=============================================================================
