------------------------------ MODULE Pipeline ------------------------------
(***************************************************************************)
(* The database-as-queue of internal/queue with its two stages, classify   *)
(* and parse (cmd/quicky/main.go), run by any number of workers against    *)
(* one inbound_emails table.                                               *)
(*                                                                         *)
(* A worker claims a due row in one short committed transaction, then runs *)
(* its handler in a second transaction that holds no lock on the row until *)
(* its first write.  Nothing but the backoff written by the claim keeps a  *)
(* second worker off the row meanwhile.                                    *)
(*                                                                         *)
(* Time: next_attempt_at is abstracted to due = (next_attempt_at <= NOW()) *)
(* and backoffs elapse at any moment (Elapse).  This keeps every order of  *)
(* claims a clock could produce, among them a backoff elapsing while the   *)
(* handler it belongs to still runs.                                       *)
(***************************************************************************)
EXTENDS Classify, Naturals, FiniteSets

CONSTANTS
    Emails,           \* rows the webhook will insert
    Users,
    UserOf,           \* the owner of each email
    Contents,         \* the contents an email may have, a subset of Input
    ClassifyWorkers,  \* queue.Run loops over ClaimUnclassified
    ParseWorkers,     \* queue.Run loops over ClaimUnparsed
    MaxAttempts,      \* queue.MaxAttempts
    NULL

Workers == ClassifyWorkers \cup ParseWorkers

ASSUME WorkersAssumption ==
    /\ ClassifyWorkers \cap ParseWorkers = {}
    /\ IsFiniteSet(ClassifyWorkers)
    /\ IsFiniteSet(ParseWorkers)
    /\ NULL \notin Workers

ASSUME RowsAssumption ==
    /\ NULL \notin Emails
    /\ UserOf \in [Emails -> Users]
    /\ Contents \subseteq Input
    /\ MaxAttempts \in Nat \ {0}

Stages == {"classify", "parse"}

StageOf(w) == IF w \in ClassifyWorkers THEN "classify" ELSE "parse"

VARIABLES
    \* --- inbound_emails, one function per column
    content,             \* headers, subject and body: written once, by ingest
    classification,      \* "absent" until the row exists
    needs_confirmation,
    parsed_at,           \* parsed_at IS NOT NULL
    attempts,
    due,                 \* next_attempt_at <= NOW()
    last_error,          \* last_error IS NOT NULL
    \* --- parsed_emails and its three child tables
    extraction,          \* the worker whose run is the row, NULL if no row
    children,            \* the workers whose runs wrote child rows
    \* --- users
    users,
    \* --- one goroutine per worker
    pc, job,
    verdict,             \* classify: the result its transaction has written
    plan,                \* parse: "save" or "skip", from the billing read
    \* --- history, read by properties only
    claims,              \* claims[s][e]: claims of e by stage s so far
    faults,              \* faults[s][e]: those that ended without a commit
    shared,              \* emails that two workers have held at once
    lapsed               \* users seen unbillable at some time

content_vars == <<content, users, lapsed>>
row_vars == <<classification, needs_confirmation, parsed_at, attempts, due,
              last_error>>
parse_vars == <<extraction, children>>
worker_vars == <<pc, job, verdict, plan>>
history_vars == <<claims, faults, shared>>
vars == <<content_vars, row_vars, parse_vars, worker_vars, history_vars>>

Undecided == [class |-> "ambiguous", confirm |-> FALSE]

UserRecord == [active : BOOLEAN, trial : {"none", "running", "over"}]

\* Mutant: a subscription does not count.
BillableTrialOnly(u) == users[u].trial = "running"

Billable(u) == users[u].active \/ users[u].trial = "running"

TypeOK ==
    /\ content \in [Emails -> Input]
    /\ classification \in [Emails -> Classes \cup {"absent", "ambiguous"}]
    /\ needs_confirmation \in [Emails -> BOOLEAN]
    /\ parsed_at \in [Emails -> BOOLEAN]
    /\ attempts \in [Emails -> 0..MaxAttempts]
    /\ due \in [Emails -> BOOLEAN]
    /\ last_error \in [Emails -> BOOLEAN]
    /\ extraction \in [Emails -> ParseWorkers \cup {NULL}]
    /\ children \in [Emails -> SUBSET ParseWorkers]
    /\ users \in [Users -> UserRecord]
    /\ lapsed \subseteq Users
    /\ pc \in [Workers -> {"idle", "claimed", "planned", "written", "failed"}]
    /\ job \in [Workers -> Emails \cup {NULL}]
    /\ \A w \in Workers : job[w] = NULL <=> pc[w] = "idle"
    /\ verdict \in [Workers -> Result \cup {Undecided}]
    /\ plan \in [Workers -> {"none", "save", "skip"}]
    /\ claims \in [Stages -> [Emails -> Nat]]
    /\ faults \in [Stages -> [Emails -> Nat]]
    /\ shared \subseteq Emails

Init ==
    /\ content \in [Emails -> Contents]
    /\ classification = [e \in Emails |-> "absent"]
    /\ needs_confirmation = [e \in Emails |-> FALSE]
    /\ parsed_at = [e \in Emails |-> FALSE]
    /\ attempts = [e \in Emails |-> 0]
    /\ due = [e \in Emails |-> FALSE]
    /\ last_error = [e \in Emails |-> FALSE]
    /\ extraction = [e \in Emails |-> NULL]
    /\ children = [e \in Emails |-> {}]
    /\ users \in [Users -> UserRecord]
    /\ lapsed = {u \in Users : ~users[u].active /\ users[u].trial # "running"}
    /\ pc = [w \in Workers |-> "idle"]
    /\ job = [w \in Workers |-> NULL]
    /\ verdict = [w \in Workers |-> Undecided]
    /\ plan = [w \in Workers |-> "none"]
    /\ claims = [s \in Stages |-> [e \in Emails |-> 0]]
    /\ faults = [s \in Stages |-> [e \in Emails |-> 0]]
    /\ shared = {}

-----------------------------------------------------------------------------
(* The environment: the webhook inserts rows, clocks advance, billing      *)
(* changes.                                                                *)

\* InsertInbound: the column defaults of 001_init.sql, next_attempt_at = NOW().
Insert(e) ==
    /\ classification[e] = "absent"
    /\ classification' = [classification EXCEPT ![e] = "ambiguous"]
    /\ due' = [due EXCEPT ![e] = TRUE]
    /\ UNCHANGED <<content_vars, needs_confirmation, parsed_at, attempts,
                   last_error, parse_vars, worker_vars, history_vars>>

\* NOW() reaches the next_attempt_at of some rows.
Elapse(S) ==
    /\ S # {}
    /\ \A e \in S : classification[e] # "absent" /\ ~due[e]
    /\ due' = [e \in Emails |-> due[e] \/ e \in S]
    /\ UNCHANGED <<content_vars, classification, needs_confirmation, parsed_at,
                   attempts, last_error, parse_vars, worker_vars, history_vars>>

\* Nothing in the program writes users: an operator, or the clock at the end
\* of a trial, does.
SetUser(u, r) ==
    /\ users[u].trial = "over" => r.trial = "over"
    /\ users[u].trial = "running" => r.trial # "none"
    /\ users' = [users EXCEPT ![u] = r]
    /\ lapsed' = lapsed \cup (IF r.active \/ r.trial = "running" THEN {} ELSE {u})
    /\ UNCHANGED <<content, row_vars, parse_vars, worker_vars, history_vars>>

-----------------------------------------------------------------------------
(* Claiming.                                                               *)

\* Mutant: ClaimUnclassified without its classification filter.
PendingDecided(s, e) ==
    IF s = "classify" THEN classification[e] # "absent"
    ELSE classification[e] = "newsletter" /\ ~parsed_at[e]

\* Mutant: ClaimUnparsed without parsed_at IS NULL.
PendingAlways(s, e) ==
    IF s = "classify" THEN classification[e] = "ambiguous"
    ELSE classification[e] = "newsletter"

\* The stage predicates of ClaimUnclassified and ClaimUnparsed.
Pending(s, e) ==
    IF s = "classify" THEN classification[e] = "ambiguous"
    ELSE classification[e] = "newsletter" /\ ~parsed_at[e]

\* Mutant: the attempt budget is not consulted.
ClaimableUnbounded(s, e) == Pending(s, e) /\ due[e]

Claimable(s, e) ==
    /\ Pending(s, e)
    /\ attempts[e] < MaxAttempts
    /\ due[e]

\* Mutant: the handler's transaction, rolled back only after recordFailure,
\* still holds the row lock recordFailure waits for.
RowLockedUntilReturn(e) ==
    \E w \in Workers : pc[w] \in {"written", "failed"} /\ job[w] = e

\* A transaction that has written the row holds its lock until it ends.
RowLocked(e) == \E w \in Workers : pc[w] = "written" /\ job[w] = e

\* The UPDATE of claim: charge the attempt and push next_attempt_at out.
ChargeAttempt(e) ==
    /\ attempts' = [attempts EXCEPT ![e] = @ + 1]
    /\ due' = [due EXCEPT ![e] = FALSE]

\* One step: SELECT ... FOR UPDATE SKIP LOCKED, the charge, COMMIT.  Which due
\* row comes first (ORDER BY next_attempt_at) is left open.
Claim(w, e) ==
    /\ pc[w] = "idle"
    /\ Claimable(StageOf(w), e)
    /\ ~RowLocked(e)
    /\ ChargeAttempt(e)
    /\ pc' = [pc EXCEPT ![w] = "claimed"]
    /\ job' = [job EXCEPT ![w] = e]
    /\ claims' = [claims EXCEPT ![StageOf(w)][e] = @ + 1]
    /\ shared' = shared \cup {f \in {e} : \E v \in Workers : job[v] = f}
    /\ UNCHANGED <<content_vars, classification, needs_confirmation, parsed_at,
                   last_error, parse_vars, verdict, plan, faults>>

\* step returns: the goroutine forgets the job.
Release(w) ==
    /\ pc' = [pc EXCEPT ![w] = "idle"]
    /\ job' = [job EXCEPT ![w] = NULL]
    /\ verdict' = [verdict EXCEPT ![w] = Undecided]
    /\ plan' = [plan EXCEPT ![w] = "none"]

\* ... without its transaction having committed.
ReleaseFaulted(w) ==
    /\ Release(w)
    /\ faults' = [faults EXCEPT ![StageOf(w)][job[w]] = @ + 1]
    /\ UNCHANGED <<claims, shared>>

-----------------------------------------------------------------------------
(* classifyJob.                                                            *)

\* Headers, LoadBody, Classify and the UPDATE of SetClassification inside the
\* handler's transaction; the UPDATE waits for the row lock.
ClassifyRow(w) ==
    /\ w \in ClassifyWorkers
    /\ pc[w] = "claimed"
    /\ ~RowLocked(job[w])
    /\ \E reply \in Replies :
          verdict' = [verdict EXCEPT ![w] = Classify(content[job[w]], reply)]
    /\ pc' = [pc EXCEPT ![w] = "written"]
    /\ UNCHANGED <<content_vars, row_vars, parse_vars, job, plan, history_vars>>

\* Mutant: the stage transition keeps the spent budget.
SetClassificationKeepAttempts(e, v) ==
    /\ classification' = [classification EXCEPT ![e] = v.class]
    /\ needs_confirmation' = [needs_confirmation EXCEPT ![e] = v.confirm]
    /\ last_error' = [last_error EXCEPT ![e] = FALSE]
    /\ UNCHANGED <<parsed_at, attempts, due>>

\* The row's new values; next_attempt_at is not among them.
SetClassification(e, v) ==
    /\ classification' = [classification EXCEPT ![e] = v.class]
    /\ needs_confirmation' = [needs_confirmation EXCEPT ![e] = v.confirm]
    /\ attempts' = [attempts EXCEPT ![e] = 0]
    /\ last_error' = [last_error EXCEPT ![e] = FALSE]
    /\ UNCHANGED <<parsed_at, due>>

CommitClassify(w) ==
    /\ w \in ClassifyWorkers
    /\ pc[w] = "written"
    /\ SetClassification(job[w], verdict[w])
    /\ Release(w)
    /\ UNCHANGED <<content_vars, parse_vars, history_vars>>

-----------------------------------------------------------------------------
(* parseJob.                                                               *)

\* UserFor: the billing state is read first and acted on later.
ReadBilling(w) ==
    /\ w \in ParseWorkers
    /\ pc[w] = "claimed"
    /\ plan' = [plan EXCEPT ![w] =
                  IF Billable(UserOf[job[w]]) THEN "save" ELSE "skip"]
    /\ pc' = [pc EXCEPT ![w] = "planned"]
    /\ UNCHANGED <<content_vars, row_vars, parse_vars, job, verdict, history_vars>>

\* SenderID, LoadBody, Parser.Run and the statements of Save, or MarkParsed
\* alone; the INSERT and the UPDATE wait for a concurrent writer of the row.
ParseRow(w) ==
    /\ w \in ParseWorkers
    /\ pc[w] = "planned"
    /\ ~RowLocked(job[w])
    /\ pc' = [pc EXCEPT ![w] = "written"]
    /\ UNCHANGED <<content_vars, row_vars, parse_vars, job, verdict, plan,
                   history_vars>>

\* Mutant: the stage marker leaves an earlier failure's reason in place.
MarkParsedKeepError(e) ==
    /\ parsed_at' = [parsed_at EXCEPT ![e] = TRUE]
    /\ attempts' = [attempts EXCEPT ![e] = 0]
    /\ UNCHANGED <<classification, needs_confirmation, due, last_error>>

\* Mutant: the stage marker is forgotten.
MarkParsedNot(e) ==
    /\ attempts' = [attempts EXCEPT ![e] = 0]
    /\ last_error' = [last_error EXCEPT ![e] = FALSE]
    /\ UNCHANGED <<parsed_at, classification, needs_confirmation, due>>

MarkParsed(e) ==
    /\ parsed_at' = [parsed_at EXCEPT ![e] = TRUE]
    /\ attempts' = [attempts EXCEPT ![e] = 0]
    /\ last_error' = [last_error EXCEPT ![e] = FALSE]
    /\ UNCHANGED <<classification, needs_confirmation, due>>

\* Mutant: a conflicting insert replaces the row and adds a second set of
\* children, as ON CONFLICT DO UPDATE ... RETURNING id would.
SaveReplacing(w, e) ==
    /\ extraction' = [extraction EXCEPT ![e] = w]
    /\ children' = [children EXCEPT ![e] = @ \cup {w}]
    /\ MarkParsed(e)

\* ON CONFLICT (email_id) DO NOTHING: the first committed run wins, and a
\* later one only marks the row.
Save(w, e) ==
    /\ IF extraction[e] = NULL
          THEN /\ extraction' = [extraction EXCEPT ![e] = w]
               /\ children' = [children EXCEPT ![e] = @ \cup {w}]
          ELSE UNCHANGED parse_vars
    /\ MarkParsed(e)

CommitParse(w) ==
    /\ w \in ParseWorkers
    /\ pc[w] = "written"
    /\ \/ plan[w] = "save" /\ Save(w, job[w])
       \/ plan[w] = "skip" /\ MarkParsed(job[w]) /\ UNCHANGED parse_vars
    /\ Release(w)
    /\ UNCHANGED <<content_vars, history_vars>>

-----------------------------------------------------------------------------
(* Failures.                                                               *)

\* The handler returns an error: a query or a model call failed, a sender is
\* missing, there is no text to extract, a date does not parse, a timeout.
Fail(w) ==
    /\ pc[w] \in {"claimed", "planned"}
    /\ pc' = [pc EXCEPT ![w] = "failed"]
    /\ UNCHANGED <<content_vars, row_vars, parse_vars, job, verdict, plan,
                   history_vars>>

\* Mutant: the failed row is handed its budget back.
RecordFailureRefund(w) ==
    /\ pc[w] = "failed"
    /\ ~RowLocked(job[w])
    /\ last_error' = [last_error EXCEPT ![job[w]] = TRUE]
    /\ attempts' = [attempts EXCEPT ![job[w]] = 0]
    /\ ReleaseFaulted(w)
    /\ UNCHANGED <<content_vars, classification, needs_confirmation, parsed_at,
                   due, parse_vars>>

\* Mutant: the failure is charged a second time.
RecordFailureCharging(w) ==
    /\ pc[w] = "failed"
    /\ ~RowLocked(job[w])
    /\ last_error' = [last_error EXCEPT ![job[w]] = TRUE]
    /\ attempts' = [attempts EXCEPT ![job[w]] = @ + 1]
    /\ ReleaseFaulted(w)
    /\ UNCHANGED <<content_vars, classification, needs_confirmation, parsed_at,
                   due, parse_vars>>

\* recordFailure: a separate autocommitted UPDATE, on whatever the row is now.
RecordFailure(w) ==
    /\ pc[w] = "failed"
    /\ ~RowLocked(job[w])
    /\ last_error' = [last_error EXCEPT ![job[w]] = TRUE]
    /\ ReleaseFaulted(w)
    /\ UNCHANGED <<content_vars, classification, needs_confirmation, parsed_at,
                   attempts, due, parse_vars>>

\* The attempt ends and leaves no trace but the charge: the process stops at
\* any point after the claim, the handler's transaction cannot be begun, its
\* commit does not land, or recordFailure runs out of its five seconds.
Abandon(w) ==
    /\ pc[w] # "idle"
    /\ ReleaseFaulted(w)
    /\ UNCHANGED <<content_vars, row_vars, parse_vars>>

-----------------------------------------------------------------------------
Handle(w) ==
    \/ ClassifyRow(w)
    \/ CommitClassify(w)
    \/ ReadBilling(w)
    \/ ParseRow(w)
    \/ CommitParse(w)
    \/ Fail(w)
    \/ RecordFailure(w)

Next ==
    \/ \E e \in Emails : Insert(e)
    \/ \E S \in SUBSET Emails : Elapse(S)
    \/ \E u \in Users, r \in UserRecord : SetUser(u, r)
    \/ \E w \in Workers, e \in Emails : Claim(w, e)
    \/ \E w \in Workers : Handle(w) \/ Abandon(w)

Spec == Init /\ [][Next]_vars

\* Run polls every interval; every call a handler makes has a timeout; clocks
\* advance.  Nothing is assumed of the webhook, of billing or of crashes.
Fairness ==
    /\ \A w \in Workers : WF_vars(\E e \in Emails : Claim(w, e))
    /\ \A w \in Workers : WF_vars(Handle(w))
    /\ \A e \in Emails : WF_vars(Elapse({e}))

FairSpec == Spec /\ Fairness

-----------------------------------------------------------------------------
(* Properties that hold for any number of workers and processes.           *)

InFlight(s, e) == {w \in Workers : StageOf(w) = s /\ job[w] = e}

\* No stage will claim the row again, and no worker holds it.
GivenUp(s, e) ==
    /\ Pending(s, e)
    /\ attempts[e] = MaxAttempts
    /\ InFlight(s, e) = {}

\* A row leaves the queue unfinished only after the stage it is stuck in has
\* itself failed MaxAttempts times on it: no attempt of the earlier stage, and
\* no attempt that committed, is counted against it (the budget of queue.go is
\* per stage and claims charge before the handler's outcome is known).
GivenUpOnlyAfterFullBudget ==
    \A s \in Stages, e \in Emails : GivenUp(s, e) => faults[s][e] >= MaxAttempts

\* However many processes poll, an email costs at most MaxAttempts runs of the
\* classifier: resets by overlapping handlers never refill this stage.
ClassifyBudget == \A e \in Emails : claims["classify"][e] <= MaxAttempts

\* The stored extraction and every child row come from one run of the parser,
\* and exist only together with the stage marker: overlapping parse handlers
\* neither mix their output nor leave half of it (Save, one transaction).
ExtractionFromOneRun ==
    \A e \in Emails :
        IF extraction[e] = NULL THEN children[e] = {}
        ELSE children[e] = {extraction[e]} /\ parsed_at[e]

\* What was extracted is never replaced or added to, and a parsed row is never
\* unparsed (ON CONFLICT DO NOTHING; no statement clears parsed_at).
ExtractionIsFinal ==
    [][\A e \in Emails :
          /\ extraction[e] # NULL =>
                extraction'[e] = extraction[e] /\ children'[e] = children[e]
          /\ parsed_at[e] => parsed_at'[e]]_vars

\* An email whose subject asks to confirm is never taken for a newsletter and
\* never parsed; once classified it is on the user's dashboard, whatever its
\* list headers, the model's replies and the handlers that race on it.
ConfirmationSurfaced ==
    \A e \in Emails : content[e].subjectConfirms =>
        /\ classification[e] # "newsletter"
        /\ classification[e] = "transactional" => needs_confirmation[e]
        /\ extraction[e] = NULL /\ ~parsed_at[e]

\* A newsletter is marked parsed with nothing extracted only if its owner has
\* been unbillable at some time: the billing state read before the model calls
\* and acted on after them was true once (parseJob).
NoSilentSkip ==
    \A e \in Emails :
        parsed_at[e] /\ extraction[e] = NULL => UserOf[e] \in lapsed

-----------------------------------------------------------------------------
(* What holds of an email whose handlers never overlapped, whichever other *)
(* emails they overlapped on: the backoffs of its claims were long enough. *)

\* Its class is decided once: only a classifier run that another one overtook
\* can replace a verdict (SetClassification asks for no 'ambiguous').
DecidedOnce ==
    [][\A e \in Emails \ shared :
          classification[e] \in Classes => classification'[e] = classification[e]]_vars

\* Each stage starts a handler on it at most MaxAttempts times in all, through
\* crashes, lost answers of commits and the reset between the stages.
StageBudget ==
    \A s \in Stages, e \in Emails \ shared : claims[s][e] <= MaxAttempts

\* Once it has left the queue by being finished it shows no failure reason to
\* the admin table: no recordFailure comes late.
NoErrorOnFinished ==
    \A e \in Emails \ shared :
        parsed_at[e] \/ classification[e] = "transactional" => ~last_error[e]

-----------------------------------------------------------------------------
(* The deployment main.go starts: one worker per stage.                    *)

OneWorkerPerStage ==
    \A v, w \in Workers : StageOf(v) = StageOf(w) => v = w

Stage == [e \in Emails |->
             IF ~parsed_at[e] THEN classification[e]
             ELSE IF extraction[e] = NULL THEN "skipped" ELSE "parsed"]

LC == INSTANCE Lifecycle WITH stage <- Stage

\* Each email is received, classified and finished once, in that order, and no
\* stage marker ever moves back: the promise of Lifecycle.
LifecycleSpec == LC!Spec

-----------------------------------------------------------------------------
(* Liveness, under FairSpec.                                               *)

Settled(e) ==
    \/ classification[e] \in {"absent", "transactional"}
    \/ parsed_at[e]
    \/ \E s \in Stages : Pending(s, e) /\ faults[s][e] >= MaxAttempts

\* Every email that arrives is in the end classified as transactional, parsed,
\* or has used up the attempts of the stage it is in: none is forgotten by a
\* crash, a lost recordFailure or a wait for a row lock.
EventuallySettled == \A e \in Emails : <>[]Settled(e)

-----------------------------------------------------------------------------
(* What comments and documents say of the program, and its code does not.  *)

\* queue.go: "Run polls claimSQL and runs h inside the claiming transaction".
\* If it did, the row lock would keep every other worker of the stage away
\* for as long as the handler runs.
HandlerHoldsTheClaim ==
    \A v, w \in Workers :
        /\ StageOf(v) = StageOf(w)
        /\ job[v] # NULL /\ job[v] = job[w]
        => v = w
=============================================================================
