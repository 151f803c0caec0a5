------------------------------- MODULE Timed --------------------------------
(***************************************************************************)
(* Pipeline with a clock: next_attempt_at holds times, a claim takes the   *)
(* due row that has been due longest and pushes it out by the backoff of   *)
(* its attempts.  due, which Pipeline sets free, is next_attempt_at <= now.*)
(*                                                                         *)
(* Time passes in minutes.  Handlers may take any time at all.             *)
(***************************************************************************)
EXTENDS Pipeline

CONSTANTS
    Backoff,   \* POWER(3, attempts) minutes, by the attempts before the claim
    Span,      \* Span[k]: least time from the first of k claims to the k-th
    MaxTime    \* bound: minutes a behaviour lasts

ASSUME BackoffAssumption ==
    Backoff \in [0..(MaxAttempts - 1) -> Nat \ {0}]

ASSUME SpanAssumption ==
    /\ Span \in [1..MaxAttempts -> Nat]
    /\ Span[1] = 0
    /\ \A k \in 1..(MaxAttempts - 1) : Span[k + 1] = Span[k] + Backoff[k - 1]

ASSUME TimeAssumption == MaxTime \in Nat

VARIABLES
    now,               \* NOW()
    next_attempt_at,
    \* --- history
    until,             \* until[w]: the next_attempt_at that w's claim wrote
    first, last,       \* the first and the last claim of the row's attempts
    overtakes          \* overtakes[e][f]: claims of f while e waited for its own

time_vars == <<now, next_attempt_at, until, first, last, overtakes>>

TimedTypeOK ==
    /\ now \in 0..MaxTime
    /\ next_attempt_at \in [Emails -> Nat]
    /\ until \in [Workers -> Nat]
    /\ first \in [Emails -> Nat]
    /\ last \in [Emails -> Nat]
    /\ overtakes \in [Emails -> [Emails -> Nat]]

TimedInit ==
    /\ Init
    /\ now = 0
    /\ next_attempt_at = [e \in Emails |-> 0]
    /\ until = [w \in Workers |-> 0]
    /\ first = [e \in Emails |-> 0]
    /\ last = [e \in Emails |-> 0]
    /\ overtakes = [e \in Emails |-> [f \in Emails |-> 0]]

-----------------------------------------------------------------------------
\* A poll of the stage would find the row.
Waiting(s, e) == Claimable(s, e) /\ ~RowLocked(e)

\* Mutant: no ORDER BY.
FirstInLineAny(s, e) == TRUE

\* ORDER BY next_attempt_at, over the rows that are due and not locked.
FirstInLine(s, e) ==
    \A f \in Emails : Waiting(s, f) => next_attempt_at[e] <= next_attempt_at[f]

TimedClaim(w, e) ==
    /\ Claim(w, e)
    /\ FirstInLine(StageOf(w), e)
    /\ next_attempt_at' = [next_attempt_at EXCEPT ![e] = now + Backoff[attempts[e]]]
    /\ until' = [until EXCEPT ![w] = now + Backoff[attempts[e]]]
    /\ first' = [first EXCEPT ![e] = IF attempts[e] = 0 THEN now ELSE @]
    /\ last' = [last EXCEPT ![e] = now]
    /\ overtakes' = [f \in Emails |->
          IF f = e THEN [g \in Emails |-> 0]
          ELSE IF Waiting(StageOf(w), f) THEN [overtakes[f] EXCEPT ![e] = @ + 1]
          ELSE overtakes[f]]
    /\ UNCHANGED now

\* The default of the column is NOW().
TimedInsert(e) ==
    /\ Insert(e)
    /\ next_attempt_at' = [next_attempt_at EXCEPT ![e] = now]
    /\ UNCHANGED <<now, until, first, last, overtakes>>

\* Mutant: NOW() is asked of hosts whose clocks differ.
TickBack ==
    /\ now' \in {now + 1, now - 1} \cap 0..MaxTime
    /\ due' = [e \in Emails |->
                  classification[e] # "absent" /\ next_attempt_at[e] <= now']
    /\ UNCHANGED <<content_vars, classification, needs_confirmation, parsed_at,
                   attempts, last_error, parse_vars, worker_vars, history_vars,
                   next_attempt_at, until, first, last, overtakes>>

\* NOW() of the one database.
Tick ==
    /\ now < MaxTime
    /\ now' = now + 1
    /\ due' = [e \in Emails |->
                  classification[e] # "absent" /\ next_attempt_at[e] <= now']
    /\ UNCHANGED <<content_vars, classification, needs_confirmation, parsed_at,
                   attempts, last_error, parse_vars, worker_vars, history_vars,
                   next_attempt_at, until, first, last, overtakes>>

\* Mutant: the stage transition makes the row due at once.
KeepNextAttemptInStage ==
    next_attempt_at' = [e \in Emails |->
        IF classification[e] = classification'[e] THEN next_attempt_at[e] ELSE now]

\* No other statement that runs writes the column: ResetAttempts would, but
\* nothing calls it.
KeepNextAttempt == UNCHANGED next_attempt_at

Untimed ==
    /\ \/ \E u \in Users, r \in UserRecord : SetUser(u, r)
       \/ \E w \in Workers : Handle(w) \/ Abandon(w)
    /\ KeepNextAttempt
    /\ UNCHANGED <<now, until, first, last, overtakes>>

TimedNext ==
    \/ Tick
    \/ \E e \in Emails : TimedInsert(e)
    \/ \E w \in Workers, e \in Emails : TimedClaim(w, e)
    \/ Untimed

TimedSpec == TimedInit /\ [][TimedNext]_<<vars, time_vars>>

-----------------------------------------------------------------------------
(* Properties.                                                             *)

\* due is what the clock says.
DueOnTime ==
    \A e \in Emails :
        due[e] <=> classification[e] # "absent" /\ next_attempt_at[e] <= now

\* Two handlers work on one row only if the earlier has outlived the backoff
\* that its own claim wrote, whatever stages, resets of attempts and crashes
\* fall in between.
OutlivedBackoff ==
    \A v, w \in Workers :
        v # w /\ job[v] # NULL /\ job[v] = job[w] =>
            \/ until[v] <= now /\ until[v] <= until[w]
            \/ until[w] <= now /\ until[w] <= until[v]

\* A row is given up only after claims spread over the whole backoff, 40 minutes
\* in the code: an outage of the model can fail every attempt of an email only
\* if it lasts that long, less the time the first handler ran before it began.
PatientBeforeGivingUp ==
    \A s \in Stages, e \in Emails :
        GivenUp(s, e) => last[e] - first[e] >= Span[MaxAttempts]

\* While a row waits for its stage every other row is claimed at most once
\* before it: rows that fail again and again starve nobody.
OvertakenOnce == \A e, f \in Emails : overtakes[e][f] <= 1
=============================================================================
