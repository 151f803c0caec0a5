--------------------------- MODULE PipelineProofs ---------------------------
(***************************************************************************)
(* Theorems about Pipeline for any number of emails, users, contents,      *)
(* workers and attempts.  Each safety argument is an inductive invariant   *)
(* proved on top of the ones before it.                                    *)
(***************************************************************************)
EXTENDS Pipeline, FiniteSetTheorems, TLAPS

\* What the decision function returns, and that a confirming subject decides
\* alone.
LEMMA ClassifyDecides ==
    ASSUME NEW in \in Input, NEW reply \in Replies
    PROVE  /\ Classify(in, reply) \in Result
           /\ in.subjectConfirms =>
                Classify(in, reply) = [class |-> "transactional", confirm |-> TRUE]
  BY DEF Classify, FromReply, Newsletter, Transactional, ListHeaders, Input,
         Result, Classes

\* One step keeps every column, every worker's program counter and every
\* counter in its type.
LEMMA TypeKept ==
    ASSUME TypeOK, [Next]_vars PROVE TypeOK'
<1>. USE RowsAssumption, WorkersAssumption
<1>1. CASE UNCHANGED vars
  BY <1>1 DEF TypeOK, vars, content_vars, row_vars, parse_vars, worker_vars,
              history_vars
<1>2. ASSUME NEW e \in Emails, Insert(e) PROVE TypeOK'
  BY <1>2 DEF TypeOK, Insert, content_vars, parse_vars, worker_vars, history_vars
<1>3. ASSUME NEW S \in SUBSET Emails, Elapse(S) PROVE TypeOK'
  BY <1>3 DEF TypeOK, Elapse, content_vars, parse_vars, worker_vars, history_vars
<1>4. ASSUME NEW u \in Users, NEW r \in UserRecord, SetUser(u, r)
      PROVE  TypeOK'
  BY <1>4 DEF TypeOK, SetUser, row_vars, parse_vars, worker_vars, history_vars
<1>5. ASSUME NEW w \in Workers, NEW e \in Emails, Claim(w, e) PROVE TypeOK'
  <2>1. attempts' \in [Emails -> 0..MaxAttempts]
    BY <1>5 DEF TypeOK, Claim, Claimable, ChargeAttempt
  <2>2. claims' \in [Stages -> [Emails -> Nat]]
    BY <1>5 DEF TypeOK, Claim, Stages, StageOf
  <2>3. job' \in [Workers -> Emails \cup {NULL}]
        /\ \A v \in Workers : job'[v] = NULL <=> pc'[v] = "idle"
    BY <1>5 DEF TypeOK, Claim
  <2>. QED
    BY <1>5, <2>1, <2>2, <2>3
       DEF TypeOK, Claim, ChargeAttempt, content_vars, parse_vars
<1>6. ASSUME NEW w \in Workers, ClassifyRow(w) PROVE TypeOK'
  <2>1. job[w] \in Emails
    BY <1>6 DEF TypeOK, ClassifyRow
  <2>2. verdict' \in [Workers -> Result \cup {Undecided}]
    <3>1. PICK reply \in Replies :
            verdict' = [verdict EXCEPT ![w] = Classify(content[job[w]], reply)]
      BY <1>6 DEF ClassifyRow
    <3>2. Classify(content[job[w]], reply) \in Result
      BY <2>1, ClassifyDecides DEF TypeOK
    <3>. QED  BY <3>1, <3>2 DEF TypeOK
  <2>. QED
    BY <1>6, <2>2
       DEF TypeOK, ClassifyRow, content_vars, row_vars, parse_vars, history_vars
<1>7. ASSUME NEW w \in Workers, CommitClassify(w) PROVE TypeOK'
  <2>1. /\ verdict[w].class \in Classes \cup {"absent", "ambiguous"}
        /\ verdict[w].confirm \in BOOLEAN
    <3>1. CASE verdict[w] \in Result
      BY <3>1 DEF Result
    <3>2. CASE verdict[w] = Undecided
      <4>1. verdict[w].class = "ambiguous" /\ verdict[w].confirm = FALSE
        BY <3>2 DEF Undecided
      <4>. QED  BY <4>1
    <3>. QED  BY <3>1, <3>2 DEF TypeOK
  <2>. QED
    BY <1>7, <2>1
       DEF TypeOK, CommitClassify, SetClassification, Release, content_vars,
           parse_vars, history_vars
<1>8. ASSUME NEW w \in Workers, ReadBilling(w) PROVE TypeOK'
  BY <1>8 DEF TypeOK, ReadBilling, content_vars, row_vars, parse_vars, history_vars
<1>9. ASSUME NEW w \in Workers, ParseRow(w) PROVE TypeOK'
  BY <1>9 DEF TypeOK, ParseRow, content_vars, row_vars, parse_vars, history_vars
<1>10. ASSUME NEW w \in Workers, CommitParse(w) PROVE TypeOK'
  <2>1. MarkParsed(job[w])
    BY <1>10 DEF CommitParse, Save
  <2>2. job[w] \in Emails
    BY <1>10 DEF TypeOK, CommitParse
  <2>3. /\ extraction' \in [Emails -> ParseWorkers \cup {NULL}]
        /\ children' \in [Emails -> SUBSET ParseWorkers]
    <3>1. CASE UNCHANGED parse_vars
      BY <3>1 DEF TypeOK, parse_vars
    <3>2. CASE /\ extraction' = [extraction EXCEPT ![job[w]] = w]
               /\ children' = [children EXCEPT ![job[w]] = @ \cup {w}]
      <4>1. w \in ParseWorkers
        BY <1>10 DEF CommitParse
      <4>. QED  BY <3>2, <4>1 DEF TypeOK
    <3>. QED  BY <1>10, <3>1, <3>2 DEF CommitParse, Save
  <2>4. /\ parsed_at' \in [Emails -> BOOLEAN]
        /\ attempts' \in [Emails -> 0..MaxAttempts]
        /\ last_error' \in [Emails -> BOOLEAN]
        /\ UNCHANGED <<classification, needs_confirmation, due>>
    BY <2>1, <2>2 DEF TypeOK, MarkParsed
  <2>. QED
    BY <1>10, <2>3, <2>4
       DEF TypeOK, CommitParse, Release, content_vars, history_vars
<1>11. ASSUME NEW w \in Workers, Fail(w) PROVE TypeOK'
  BY <1>11 DEF TypeOK, Fail, content_vars, row_vars, parse_vars, history_vars
<1>12. ASSUME NEW w \in Workers, ReleaseFaulted(w), pc[w] # "idle"
       PROVE  /\ faults' \in [Stages -> [Emails -> Nat]]
              /\ UNCHANGED <<claims, shared>>
              /\ pc' \in [Workers -> {"idle", "claimed", "planned", "written",
                                      "failed"}]
              /\ job' \in [Workers -> Emails \cup {NULL}]
              /\ \A v \in Workers : job'[v] = NULL <=> pc'[v] = "idle"
              /\ verdict' \in [Workers -> Result \cup {Undecided}]
              /\ plan' \in [Workers -> {"none", "save", "skip"}]
  BY <1>12 DEF TypeOK, ReleaseFaulted, Release, Stages, StageOf
<1>13. ASSUME NEW w \in Workers, RecordFailure(w) PROVE TypeOK'
  BY <1>12, <1>13 DEF TypeOK, RecordFailure, content_vars, parse_vars
<1>14. ASSUME NEW w \in Workers, Abandon(w) PROVE TypeOK'
  BY <1>12, <1>14 DEF TypeOK, Abandon, content_vars, row_vars, parse_vars
<1>. QED
  BY <1>1, <1>2, <1>3, <1>4, <1>5, <1>6, <1>7, <1>8, <1>9, <1>10, <1>11,
     <1>13, <1>14 DEF Next, Handle

\* Every column, every worker's program counter and every counter keeps its
\* type; attempts never passes MaxAttempts.
THEOREM TypeCorrect == Spec => []TypeOK
<1>1. Init => TypeOK
  BY RowsAssumption, WorkersAssumption
     DEF Init, TypeOK, Undecided, Classes
<1>. QED  BY <1>1, TypeKept, PTL DEF Spec
-----------------------------------------------------------------------------
(* Where a job may be, and what a classifier's transaction may write.      *)

JobsExist ==
    \A w \in Workers : job[w] # NULL => classification[job[w]] # "absent"

ParseJobsDecided ==
    \A w \in ParseWorkers : job[w] # NULL =>
        /\ classification[job[w]] \in Classes
        /\ ~content[job[w]].subjectConfirms

VerdictsSound ==
    \A w \in ClassifyWorkers : pc[w] = "written" =>
        /\ verdict[w] \in Result
        /\ content[job[w]].subjectConfirms =>
             verdict[w].class = "transactional" /\ verdict[w].confirm

SurfacedInv ==
    JobsExist /\ ParseJobsDecided /\ VerdictsSound /\ ConfirmationSurfaced

\* The invariant holds of every reachable state, so a confirmation is surfaced
\* whatever the number of workers that race on it.
THEOREM SurfacedInvariant == Spec => []SurfacedInv
<1>1. Init => SurfacedInv
  BY WorkersAssumption, RowsAssumption
     DEF Init, SurfacedInv, JobsExist, ParseJobsDecided, VerdictsSound,
         ConfirmationSurfaced, Workers, Classes
<1>2. TypeOK /\ SurfacedInv /\ [Next]_vars => SurfacedInv'
  <2>. SUFFICES ASSUME TypeOK, SurfacedInv, [Next]_vars PROVE SurfacedInv'
    OBVIOUS
  <2>. USE DEF SurfacedInv
  <2>1. CASE UNCHANGED vars
    BY <2>1 DEF vars, content_vars, row_vars, parse_vars, worker_vars,
                JobsExist, ParseJobsDecided, VerdictsSound, ConfirmationSurfaced
  <2>2. ASSUME NEW e \in Emails, Insert(e) PROVE SurfacedInv'
    BY <2>2 DEF TypeOK, Insert, content_vars, parse_vars, worker_vars, Workers,
                JobsExist, ParseJobsDecided, VerdictsSound, ConfirmationSurfaced,
                Classes
  <2>3. ASSUME NEW S \in SUBSET Emails, Elapse(S) PROVE SurfacedInv'
    BY <2>3 DEF Elapse, content_vars, parse_vars, worker_vars,
                JobsExist, ParseJobsDecided, VerdictsSound, ConfirmationSurfaced
  <2>4. ASSUME NEW u \in Users, NEW r \in UserRecord, SetUser(u, r)
        PROVE  SurfacedInv'
    BY <2>4 DEF SetUser, row_vars, parse_vars, worker_vars,
                JobsExist, ParseJobsDecided, VerdictsSound, ConfirmationSurfaced
  <2>5. ASSUME NEW w \in Workers, NEW e \in Emails, Claim(w, e)
        PROVE  SurfacedInv'
    BY <2>5, WorkersAssumption
       DEF TypeOK, Claim, Claimable, Pending, StageOf, content_vars, parse_vars,
           Workers, Classes,
           JobsExist, ParseJobsDecided, VerdictsSound, ConfirmationSurfaced
  <2>6. ASSUME NEW w \in Workers, ClassifyRow(w) PROVE SurfacedInv'
    <3>1. PICK reply \in Replies :
            verdict' = [verdict EXCEPT ![w] = Classify(content[job[w]], reply)]
      BY <2>6 DEF ClassifyRow
    <3>2. content[job[w]] \in Input
      BY <2>6 DEF ClassifyRow, TypeOK
    <3>3. /\ verdict'[w] \in Result
          /\ content[job[w]].subjectConfirms =>
               verdict'[w].class = "transactional" /\ verdict'[w].confirm
      BY <3>1, <3>2, ClassifyDecides DEF TypeOK
    <3>. QED
      BY <2>6, <3>1, <3>3
         DEF TypeOK, ClassifyRow, content_vars, row_vars, parse_vars, Workers,
             JobsExist, ParseJobsDecided, VerdictsSound, ConfirmationSurfaced
  <2>7. ASSUME NEW w \in Workers, CommitClassify(w) PROVE SurfacedInv'
    BY <2>7
       DEF TypeOK, CommitClassify, SetClassification, Release, content_vars,
           parse_vars, Workers, Result, Classes,
           JobsExist, ParseJobsDecided, VerdictsSound, ConfirmationSurfaced
  <2>8. ASSUME NEW w \in Workers, ReadBilling(w) PROVE SurfacedInv'
    BY <2>8
       DEF TypeOK, ReadBilling, content_vars, row_vars, parse_vars, Workers,
           JobsExist, ParseJobsDecided, VerdictsSound, ConfirmationSurfaced
  <2>9. ASSUME NEW w \in Workers, ParseRow(w) PROVE SurfacedInv'
    BY <2>9, WorkersAssumption
       DEF TypeOK, ParseRow, content_vars, row_vars, parse_vars, Workers,
           JobsExist, ParseJobsDecided, VerdictsSound, ConfirmationSurfaced
  <2>10. ASSUME NEW w \in Workers, CommitParse(w) PROVE SurfacedInv'
    <3>1. /\ job[w] \in Emails
          /\ ~content[job[w]].subjectConfirms
      BY <2>10 DEF TypeOK, CommitParse, ParseJobsDecided
    <3>2. /\ UNCHANGED <<content, classification, needs_confirmation>>
          /\ parsed_at' = [parsed_at EXCEPT ![job[w]] = TRUE]
      BY <2>10 DEF CommitParse, Save, MarkParsed, content_vars
    <3>3. \A e \in Emails : e # job[w] => extraction'[e] = extraction[e]
      BY <2>10, <3>1 DEF TypeOK, CommitParse, Save, parse_vars
    <3>4. ConfirmationSurfaced'
      BY <3>1, <3>2, <3>3 DEF TypeOK, ConfirmationSurfaced
    <3>5. (JobsExist /\ ParseJobsDecided /\ VerdictsSound)'
      BY <2>10, <3>2
         DEF TypeOK, CommitParse, Release, Workers, JobsExist, ParseJobsDecided,
             VerdictsSound
    <3>. QED  BY <3>4, <3>5
  <2>11. ASSUME NEW w \in Workers, Fail(w) PROVE SurfacedInv'
    BY <2>11
       DEF TypeOK, Fail, content_vars, row_vars, parse_vars, Workers,
           JobsExist, ParseJobsDecided, VerdictsSound, ConfirmationSurfaced
  <2>12. ASSUME NEW w \in Workers, RecordFailure(w) PROVE SurfacedInv'
    BY <2>12
       DEF TypeOK, RecordFailure, ReleaseFaulted, Release, content_vars,
           parse_vars, Workers,
           JobsExist, ParseJobsDecided, VerdictsSound, ConfirmationSurfaced
  <2>13. ASSUME NEW w \in Workers, Abandon(w) PROVE SurfacedInv'
    BY <2>13
       DEF TypeOK, Abandon, ReleaseFaulted, Release, content_vars, row_vars,
           parse_vars, Workers,
           JobsExist, ParseJobsDecided, VerdictsSound, ConfirmationSurfaced
  <2>. QED
    BY <2>1, <2>2, <2>3, <2>4, <2>5, <2>6, <2>7, <2>8, <2>9, <2>10, <2>11,
       <2>12, <2>13 DEF Next, Handle
<1>. QED  BY <1>1, <1>2, TypeCorrect, PTL DEF Spec

\* A confirmation email is surfaced and never parsed.
THEOREM ConfirmationsSurfaced == Spec => []ConfirmationSurfaced
  BY SurfacedInvariant, PTL DEF SurfacedInv
-----------------------------------------------------------------------------
(* The classifier's budget.  While a row is undecided nothing resets its   *)
(* attempts, so they count the classifier's claims exactly; afterwards no  *)
(* classifier claims it.                                                   *)

ClaimsCharged ==
    \A e \in Emails :
        /\ claims["classify"][e] <= MaxAttempts
        /\ classification[e] \in {"absent", "ambiguous"} =>
             claims["classify"][e] = attempts[e]

THEOREM ClaimsChargedInvariant == Spec => []ClaimsCharged
<1>1. Init => ClaimsCharged
  BY RowsAssumption DEF Init, ClaimsCharged, Stages
<1>2. TypeOK /\ SurfacedInv /\ ClaimsCharged /\ [Next]_vars => ClaimsCharged'
  <2>. SUFFICES ASSUME TypeOK, SurfacedInv, ClaimsCharged, [Next]_vars
                PROVE  ClaimsCharged'
    OBVIOUS
  <2>. USE DEF ClaimsCharged
  <2>1. CASE UNCHANGED <<attempts, classification, claims>>
    BY <2>1
  <2>2. ASSUME NEW e \in Emails, Insert(e) PROVE ClaimsCharged'
    BY <2>2 DEF TypeOK, Insert, history_vars, Classes
  <2>3. ASSUME NEW w \in Workers, NEW e \in Emails, Claim(w, e)
        PROVE  ClaimsCharged'
    <3>1. /\ attempts' = [attempts EXCEPT ![e] = @ + 1]
          /\ UNCHANGED classification
          /\ claims' = [claims EXCEPT ![StageOf(w)][e] = @ + 1]
          /\ Claimable(StageOf(w), e)
      BY <2>3 DEF Claim, ChargeAttempt
    <3>2. CASE StageOf(w) = "classify"
      <4>1. attempts[e] < MaxAttempts /\ classification[e] = "ambiguous"
        BY <3>1, <3>2 DEF Claimable, Pending
      <4>2. claims'["classify"] = [claims["classify"] EXCEPT ![e] = @ + 1]
        BY <3>1, <3>2 DEF TypeOK, Stages
      <4>. QED  BY <3>1, <4>1, <4>2, RowsAssumption DEF TypeOK, Stages
    <3>3. CASE StageOf(w) = "parse"
      <4>1. classification[e] = "newsletter"
        BY <3>1, <3>3 DEF Claimable, Pending
      <4>2. claims'["classify"] = claims["classify"]
        BY <3>1, <3>3 DEF TypeOK, Stages
      <4>. QED  BY <3>1, <4>1, <4>2 DEF TypeOK
    <3>. QED  BY <3>2, <3>3 DEF StageOf
  <2>4. ASSUME NEW w \in Workers, CommitClassify(w) PROVE ClaimsCharged'
    <3>1. /\ job[w] \in Emails
          /\ verdict[w].class \in Classes
      BY <2>4 DEF TypeOK, CommitClassify, SurfacedInv, VerdictsSound, Result
    <3>2. /\ classification' = [classification EXCEPT ![job[w]] = verdict[w].class]
          /\ attempts' = [attempts EXCEPT ![job[w]] = 0]
          /\ UNCHANGED claims
      BY <2>4 DEF CommitClassify, SetClassification, history_vars
    <3>. QED  BY <3>1, <3>2 DEF TypeOK, Classes
  <2>5. ASSUME NEW w \in Workers, CommitParse(w) PROVE ClaimsCharged'
    <3>1. /\ job[w] \in Emails
          /\ classification[job[w]] \in Classes
      BY <2>5 DEF TypeOK, CommitParse, SurfacedInv, ParseJobsDecided
    <3>2. /\ attempts' = [attempts EXCEPT ![job[w]] = 0]
          /\ UNCHANGED <<classification, claims>>
      BY <2>5 DEF CommitParse, Save, MarkParsed, history_vars
    <3>. QED  BY <3>1, <3>2 DEF TypeOK, Classes
  <2>6. ASSUME NEW w \in Workers,
               ClassifyRow(w) \/ ReadBilling(w) \/ ParseRow(w) \/ Fail(w)
        PROVE  UNCHANGED <<attempts, classification, claims>>
    BY <2>6 DEF ClassifyRow, ReadBilling, ParseRow, Fail, row_vars, history_vars
  <2>7. ASSUME NEW w \in Workers, RecordFailure(w) \/ Abandon(w)
        PROVE  UNCHANGED <<attempts, classification, claims>>
    BY <2>7 DEF RecordFailure, Abandon, ReleaseFaulted, row_vars
  <2>8. ASSUME NEW S \in SUBSET Emails, Elapse(S)
        PROVE  UNCHANGED <<attempts, classification, claims>>
    BY <2>8 DEF Elapse, history_vars
  <2>9. ASSUME NEW u \in Users, NEW r \in UserRecord, SetUser(u, r)
        PROVE  UNCHANGED <<attempts, classification, claims>>
    BY <2>9 DEF SetUser, row_vars, history_vars
  <2>10. CASE UNCHANGED vars
    BY <2>1, <2>10 DEF vars, row_vars, history_vars
  <2>. QED
    BY <2>1, <2>2, <2>3, <2>4, <2>5, <2>6, <2>7, <2>8, <2>9, <2>10
       DEF Next, Handle
<1>. QED  BY <1>1, <1>2, TypeCorrect, SurfacedInvariant, PTL DEF Spec

\* No email costs more than MaxAttempts runs of the classifier, however many
\* processes poll.
THEOREM ClassifierBudgeted == Spec => []ClassifyBudget
<1>1. ClaimsCharged => ClassifyBudget
  BY DEF ClaimsCharged, ClassifyBudget
<1>. QED  BY <1>1, ClaimsChargedInvariant, PTL
-----------------------------------------------------------------------------
(* Extractions.  Only a commit of the parse stage touches them.            *)

LEMMA OnlyCommitsExtract ==
    ASSUME [Next]_vars
    PROVE  \/ UNCHANGED <<extraction, children, parsed_at>>
           \/ \E w \in ParseWorkers : CommitParse(w)
<1>1. CASE UNCHANGED vars
  BY <1>1 DEF vars, row_vars, parse_vars
<1>2. CASE (\E e \in Emails : Insert(e)) \/ (\E S \in SUBSET Emails : Elapse(S))
  BY <1>2 DEF Insert, Elapse, parse_vars
<1>3. ASSUME NEW u \in Users, NEW r \in UserRecord, SetUser(u, r)
      PROVE  UNCHANGED <<extraction, children, parsed_at>>
  BY <1>3 DEF SetUser, row_vars, parse_vars
<1>4. ASSUME NEW w \in Workers, NEW e \in Emails, Claim(w, e)
      PROVE  UNCHANGED <<extraction, children, parsed_at>>
  BY <1>4 DEF Claim, parse_vars
<1>5. ASSUME NEW w \in Workers, CommitClassify(w)
      PROVE  UNCHANGED <<extraction, children, parsed_at>>
  BY <1>5 DEF CommitClassify, SetClassification, parse_vars
<1>6. ASSUME NEW w \in Workers,
             ClassifyRow(w) \/ ReadBilling(w) \/ ParseRow(w) \/ Fail(w)
      PROVE  UNCHANGED <<extraction, children, parsed_at>>
  BY <1>6 DEF ClassifyRow, ReadBilling, ParseRow, Fail, row_vars, parse_vars
<1>7. ASSUME NEW w \in Workers, RecordFailure(w) \/ Abandon(w)
      PROVE  UNCHANGED <<extraction, children, parsed_at>>
  BY <1>7 DEF RecordFailure, Abandon, row_vars, parse_vars
<1>8. ASSUME NEW w \in Workers, CommitParse(w) PROVE w \in ParseWorkers
  BY <1>8 DEF CommitParse
<1>. QED
  BY <1>1, <1>2, <1>3, <1>4, <1>5, <1>6, <1>7, <1>8 DEF Next, Handle

\* What such a commit does to the row of its job.
LEMMA CommitParseEffect ==
    ASSUME TypeOK, NEW w \in ParseWorkers, CommitParse(w)
    PROVE  /\ job[w] \in Emails
           /\ parsed_at' = [parsed_at EXCEPT ![job[w]] = TRUE]
           /\ \/ UNCHANGED <<extraction, children>>
              \/ /\ extraction[job[w]] = NULL
                 /\ extraction' = [extraction EXCEPT ![job[w]] = w]
                 /\ children' = [children EXCEPT ![job[w]] = @ \cup {w}]
           /\ UNCHANGED <<extraction, children>> =>
                plan[w] = "skip" \/ extraction[job[w]] # NULL
<1>1. job[w] \in Emails
  BY DEF TypeOK, CommitParse, Workers
<1>2. parsed_at' = [parsed_at EXCEPT ![job[w]] = TRUE]
  BY DEF CommitParse, Save, MarkParsed
<1>3. \/ UNCHANGED <<extraction, children>>
      \/ /\ extraction[job[w]] = NULL
         /\ extraction' = [extraction EXCEPT ![job[w]] = w]
         /\ children' = [children EXCEPT ![job[w]] = @ \cup {w}]
  BY DEF CommitParse, Save, parse_vars
<1>4. ASSUME UNCHANGED <<extraction, children>>,
             plan[w] # "skip", extraction[job[w]] = NULL
      PROVE  FALSE
  <2>1. extraction' = [extraction EXCEPT ![job[w]] = w]
    BY <1>4 DEF CommitParse, Save
  <2>. QED
    BY <1>1, <1>4, <2>1, WorkersAssumption DEF TypeOK, Workers
<1>. QED  BY <1>1, <1>2, <1>3, <1>4

\* All of an extraction comes from one run of the parser and is there only
\* with the marker that closes the stage.
THEOREM ExtractionsWhole == Spec => []ExtractionFromOneRun
<1>1. Init => ExtractionFromOneRun
  BY DEF Init, ExtractionFromOneRun
<1>2. TypeOK /\ ExtractionFromOneRun /\ [Next]_vars => ExtractionFromOneRun'
  <2>. SUFFICES ASSUME TypeOK, ExtractionFromOneRun, [Next]_vars
                PROVE  ExtractionFromOneRun'
    OBVIOUS
  <2>1. CASE UNCHANGED <<extraction, children, parsed_at>>
    BY <2>1 DEF ExtractionFromOneRun
  <2>2. ASSUME NEW w \in ParseWorkers, CommitParse(w)
        PROVE  ExtractionFromOneRun'
    BY <2>2, CommitParseEffect, WorkersAssumption
       DEF TypeOK, ExtractionFromOneRun, Workers
  <2>. QED  BY <2>1, <2>2, OnlyCommitsExtract
<1>. QED  BY <1>1, <1>2, TypeCorrect, PTL DEF Spec

\* An extraction is never replaced and a parsed row never reopened.
THEOREM ExtractionsFinal == Spec => ExtractionIsFinal
<1>1. TypeOK /\ [Next]_vars =>
        [\A e \in Emails :
            /\ extraction[e] # NULL =>
                  extraction'[e] = extraction[e] /\ children'[e] = children[e]
            /\ parsed_at[e] => parsed_at'[e]]_vars
  <2>. SUFFICES ASSUME TypeOK, [Next]_vars, NEW e \in Emails
                PROVE  /\ extraction[e] # NULL =>
                             /\ extraction'[e] = extraction[e]
                             /\ children'[e] = children[e]
                       /\ parsed_at[e] => parsed_at'[e]
    OBVIOUS
  <2>1. CASE UNCHANGED <<extraction, children, parsed_at>>
    BY <2>1
  <2>2. ASSUME NEW w \in ParseWorkers, CommitParse(w)
        PROVE  /\ extraction[e] # NULL =>
                     /\ extraction'[e] = extraction[e]
                     /\ children'[e] = children[e]
               /\ parsed_at[e] => parsed_at'[e]
    BY <2>2, CommitParseEffect DEF TypeOK
  <2>. QED  BY <2>1, <2>2, OnlyCommitsExtract
<1>. QED  BY <1>1, TypeCorrect, PTL DEF Spec, ExtractionIsFinal

-----------------------------------------------------------------------------
(* Skips: a plan outlives the billing state it was read from, but lapsed   *)
(* remembers that state.                                                   *)

PlansExplained ==
    \A w \in ParseWorkers :
        plan[w] = "skip" => job[w] # NULL /\ UserOf[job[w]] \in lapsed

LapsedComplete == \A u \in Users : Billable(u) \/ u \in lapsed

SkipInv == PlansExplained /\ LapsedComplete /\ NoSilentSkip

\* Reading the billing state, then acting on it after the model calls, skips
\* only newsletters of users who were unbillable when it was read.
THEOREM SkipsExplained == Spec => []NoSilentSkip
<1>1. Init => SkipInv
  BY DEF Init, SkipInv, PlansExplained, LapsedComplete, NoSilentSkip, Billable,
         Workers
<1>2. TypeOK /\ SkipInv /\ [Next]_vars => SkipInv'
  <2>. SUFFICES ASSUME TypeOK, SkipInv, [Next]_vars PROVE SkipInv'
    OBVIOUS
  <2>1. NoSilentSkip'
    <3>1. lapsed \subseteq lapsed'
      BY DEF Next, Handle, Insert, Elapse, SetUser, Claim, ClassifyRow,
             CommitClassify, ReadBilling, ParseRow, CommitParse, Fail,
             RecordFailure, Abandon, content_vars, vars
    <3>2. CASE UNCHANGED <<extraction, children, parsed_at>>
      BY <3>1, <3>2 DEF SkipInv, NoSilentSkip
    <3>3. ASSUME NEW w \in ParseWorkers, CommitParse(w) PROVE NoSilentSkip'
      <4>1. parsed_at' = [parsed_at EXCEPT ![job[w]] = TRUE] /\ job[w] \in Emails
        BY <3>3, CommitParseEffect
      <4>2. /\ extraction \in [Emails -> ParseWorkers \cup {NULL}]
            /\ parsed_at \in [Emails -> BOOLEAN]
            /\ w # NULL
        BY <3>3, WorkersAssumption DEF TypeOK, Workers
      <4>3. CASE UNCHANGED <<extraction, children>>
        <5>1. extraction[job[w]] = NULL => UserOf[job[w]] \in lapsed
          BY <3>3, <4>3, CommitParseEffect DEF SkipInv, PlansExplained
        <5>. QED
          BY <3>1, <4>1, <4>2, <4>3, <5>1 DEF SkipInv, NoSilentSkip
      <4>4. CASE extraction' = [extraction EXCEPT ![job[w]] = w]
        BY <3>1, <4>1, <4>2, <4>4 DEF SkipInv, NoSilentSkip
      <4>. QED  BY <3>3, <4>3, <4>4, CommitParseEffect
    <3>. QED  BY <3>2, <3>3, OnlyCommitsExtract
  <2>2. LapsedComplete'
    <3>1. CASE UNCHANGED <<users, lapsed>>
      BY <3>1 DEF SkipInv, LapsedComplete, Billable
    <3>2. ASSUME NEW u \in Users, NEW r \in UserRecord, SetUser(u, r)
          PROVE  LapsedComplete'
      BY <3>2 DEF TypeOK, SkipInv, LapsedComplete, Billable, SetUser
    <3>. QED
      BY <3>1, <3>2
         DEF Next, Handle, Insert, Elapse, Claim, ClassifyRow,
             CommitClassify, ReadBilling, ParseRow, CommitParse, Fail,
             RecordFailure, Abandon, content_vars, vars
  <2>3. PlansExplained'
    <3>. USE DEF SkipInv, PlansExplained
    <3>1. CASE UNCHANGED vars
      BY <3>1 DEF vars, content_vars, worker_vars
    <3>2. CASE (\E e \in Emails : Insert(e)) \/ (\E S \in SUBSET Emails : Elapse(S))
      BY <3>2 DEF Insert, Elapse, content_vars, worker_vars
    <3>3. ASSUME NEW u \in Users, NEW r \in UserRecord, SetUser(u, r)
          PROVE  PlansExplained'
      BY <3>3 DEF SetUser, worker_vars
    <3>4. ASSUME NEW w \in Workers, NEW e \in Emails, Claim(w, e)
          PROVE  PlansExplained'
      BY <3>4 DEF TypeOK, Claim, content_vars, Workers
    <3>5. ASSUME NEW w \in Workers, ReadBilling(w) PROVE PlansExplained'
      <4>1. job[w] \in Emails
        BY <3>5 DEF TypeOK, ReadBilling
      <4>2. UserOf[job[w]] \in Users
        BY <4>1, RowsAssumption
      <4>3. plan'[w] = "skip" => UserOf[job[w]] \in lapsed
        BY <3>5, <4>2 DEF TypeOK, ReadBilling, LapsedComplete
      <4>. QED
        BY <3>5, <4>1, <4>3, RowsAssumption
           DEF TypeOK, ReadBilling, content_vars, Workers
    <3>6. ASSUME NEW w \in Workers, ClassifyRow(w) \/ ParseRow(w) \/ Fail(w)
          PROVE  PlansExplained'
      BY <3>6 DEF ClassifyRow, ParseRow, Fail, content_vars
    <3>7. ASSUME NEW w \in Workers, Release(w), UNCHANGED lapsed
          PROVE  PlansExplained'
      BY <3>7 DEF TypeOK, Release, Workers
    <3>8. ASSUME NEW w \in Workers,
                 CommitClassify(w) \/ CommitParse(w) \/ RecordFailure(w) \/ Abandon(w)
          PROVE  PlansExplained'
      BY <3>7, <3>8 DEF CommitClassify, CommitParse, RecordFailure, Abandon,
                        ReleaseFaulted, content_vars
    <3>. QED
      BY <3>1, <3>2, <3>3, <3>4, <3>5, <3>6, <3>8 DEF Next, Handle
  <2>. QED  BY <2>1, <2>2, <2>3 DEF SkipInv
<1>3. SkipInv => NoSilentSkip
  BY DEF SkipInv
<1>. QED  BY <1>1, <1>2, <1>3, TypeCorrect, PTL DEF Spec
-----------------------------------------------------------------------------
(* Giving up.  Every attempt charged to the stage a row is in belongs to a *)
(* worker still holding the row or to a recorded fault of that stage.      *)

AttemptsAccounted ==
    \A s \in Stages, e \in Emails : Pending(s, e) =>
        attempts[e] <= faults[s][e] + Cardinality(InFlight(s, e))

FreshRows ==
    \A e \in Emails : classification[e] = "absent" => attempts[e] = 0

AccountInv == FreshRows /\ AttemptsAccounted

LEMMA InFlightFinite ==
    ASSUME NEW s \in Stages, NEW e \in Emails
    PROVE  /\ IsFiniteSet(InFlight(s, e))
           /\ Cardinality(InFlight(s, e)) \in Nat
<1>1. IsFiniteSet(Workers)
  BY WorkersAssumption, FS_Union DEF Workers
<1>2. InFlight(s, e) \subseteq Workers
  BY DEF InFlight
<1>. QED  BY <1>1, <1>2, FS_Subset, FS_CardinalityType

\* A claim adds its worker to one such set.
LEMMA ClaimInFlight ==
    ASSUME TypeOK, NEW w \in Workers, NEW e \in Emails, Claim(w, e),
           NEW s \in Stages, NEW f \in Emails
    PROVE  Cardinality(InFlight(s, f)') =
             IF s = StageOf(w) /\ f = e THEN Cardinality(InFlight(s, f)) + 1
             ELSE Cardinality(InFlight(s, f))
<1>1. job[w] = NULL /\ job' = [job EXCEPT ![w] = e]
  BY DEF Claim, TypeOK
<1>2. CASE s = StageOf(w) /\ f = e
  <2>1. w \notin InFlight(s, f)
    BY <1>1, RowsAssumption DEF InFlight
  <2>2. InFlight(s, f)' = InFlight(s, f) \cup {w}
    BY <1>1, <1>2 DEF InFlight, TypeOK, StageOf
  <2>. QED  BY <1>2, <2>1, <2>2, InFlightFinite, FS_AddElement
<1>3. CASE ~(s = StageOf(w) /\ f = e)
  <2>1. InFlight(s, f)' = InFlight(s, f)
    BY <1>1, <1>3, RowsAssumption DEF InFlight, TypeOK, StageOf
  <2>. QED  BY <1>3, <2>1
<1>. QED  BY <1>2, <1>3

\* A return takes its worker out of one.
LEMMA ReleaseInFlight ==
    ASSUME TypeOK, NEW w \in Workers, job[w] # NULL, Release(w),
           NEW s \in Stages, NEW f \in Emails
    PROVE  Cardinality(InFlight(s, f)') =
             IF s = StageOf(w) /\ f = job[w] THEN Cardinality(InFlight(s, f)) - 1
             ELSE Cardinality(InFlight(s, f))
<1>1. job' = [job EXCEPT ![w] = NULL]
  BY DEF Release
<1>2. CASE s = StageOf(w) /\ f = job[w]
  <2>1. w \in InFlight(s, f)
    BY <1>2 DEF InFlight
  <2>2. InFlight(s, f)' = InFlight(s, f) \ {w}
    BY <1>1, <1>2, RowsAssumption DEF InFlight, TypeOK, StageOf
  <2>. QED  BY <1>2, <2>1, <2>2, InFlightFinite, FS_RemoveElement
<1>3. CASE ~(s = StageOf(w) /\ f = job[w])
  <2>1. InFlight(s, f)' = InFlight(s, f)
    BY <1>1, <1>3, RowsAssumption DEF InFlight, TypeOK, StageOf
  <2>. QED  BY <1>3, <2>1
<1>. QED  BY <1>2, <1>3

THEOREM AccountInvariant == Spec => []AccountInv
<1>1. Init => AccountInv
  BY InFlightFinite DEF Init, AccountInv, FreshRows, AttemptsAccounted, Pending
<1>2. TypeOK /\ AccountInv /\ [Next]_vars => AccountInv'
  <2>. SUFFICES ASSUME TypeOK, AccountInv, [Next]_vars PROVE AccountInv'
    OBVIOUS
  <2>. USE DEF AccountInv
  <2>1. CASE UNCHANGED <<classification, parsed_at, attempts, faults, job>>
    <3>1. \A s \in Stages, e \in Emails : InFlight(s, e)' = InFlight(s, e)
      BY <2>1 DEF InFlight, StageOf
    <3>. QED
      BY <2>1, <3>1 DEF FreshRows, AttemptsAccounted, Pending
  <2>2. ASSUME NEW e \in Emails, Insert(e) PROVE AccountInv'
    <3>1. \A s \in Stages, f \in Emails : InFlight(s, f)' = InFlight(s, f)
      BY <2>2 DEF Insert, worker_vars, InFlight, StageOf
    <3>2. attempts[e] = 0
      BY <2>2 DEF Insert, FreshRows
    <3>3. \A s \in Stages : faults[s][e] \in Nat
      BY DEF TypeOK
    <3>. QED
      BY <2>2, <3>1, <3>2, <3>3, InFlightFinite
         DEF TypeOK, Insert, history_vars, FreshRows, AttemptsAccounted, Pending
  <2>3. ASSUME NEW w \in Workers, NEW e \in Emails, Claim(w, e) PROVE AccountInv'
    <3>1. /\ attempts' = [attempts EXCEPT ![e] = @ + 1]
          /\ UNCHANGED <<classification, parsed_at, faults>>
          /\ Pending(StageOf(w), e)
      BY <2>3 DEF Claim, ChargeAttempt, Claimable
    <3>2. FreshRows'
      BY <3>1 DEF FreshRows, Pending, TypeOK
    <3>3. ASSUME NEW s \in Stages, NEW f \in Emails, Pending(s, f)'
          PROVE  attempts'[f] <= faults'[s][f] + Cardinality(InFlight(s, f)')
      <4>1. Pending(s, f)
        BY <3>1, <3>3 DEF Pending
      <4>2. attempts[f] <= faults[s][f] + Cardinality(InFlight(s, f))
        BY <4>1 DEF AttemptsAccounted
      <4>3. attempts[f] \in Nat /\ faults[s][f] \in Nat
        BY RowsAssumption DEF TypeOK
      <4>4. CASE f = e
        <5>1. s = StageOf(w)
          BY <3>1, <4>1, <4>4 DEF Pending, Stages, StageOf
        <5>2. Cardinality(InFlight(s, f)') = Cardinality(InFlight(s, f)) + 1
          BY <2>3, <4>4, <5>1, ClaimInFlight
        <5>3. attempts'[f] = attempts[f] + 1 /\ faults'[s][f] = faults[s][f]
          BY <3>1, <4>4 DEF TypeOK
        <5>. QED  BY <4>2, <4>3, <5>2, <5>3, InFlightFinite
      <4>5. CASE f # e
        <5>1. Cardinality(InFlight(s, f)') = Cardinality(InFlight(s, f))
          BY <2>3, <4>5, ClaimInFlight
        <5>2. attempts'[f] = attempts[f] /\ faults'[s][f] = faults[s][f]
          BY <3>1, <4>5 DEF TypeOK
        <5>. QED  BY <4>2, <5>1, <5>2
      <4>. QED  BY <4>4, <4>5
    <3>. QED  BY <3>2, <3>3 DEF AttemptsAccounted
  <2>4. ASSUME NEW w \in Workers, job[w] # NULL, Release(w), UNCHANGED faults,
               \A f \in Emails : f # job[w] => /\ classification'[f] = classification[f]
                                              /\ parsed_at'[f] = parsed_at[f],
               attempts' = [attempts EXCEPT ![job[w]] = 0]
        PROVE  AccountInv'
    <3>1. job[w] \in Emails
      BY <2>4 DEF TypeOK
    <3>2. FreshRows'
      BY <2>4, <3>1 DEF FreshRows, TypeOK
    <3>3. ASSUME NEW s \in Stages, NEW f \in Emails, Pending(s, f)'
          PROVE  attempts'[f] <= faults'[s][f] + Cardinality(InFlight(s, f)')
      <4>1. faults'[s][f] \in Nat
        BY <2>4 DEF TypeOK
      <4>2. CASE f = job[w]
        <5>1. attempts'[f] = 0
          BY <2>4, <4>2 DEF TypeOK
        <5>2. InFlight(s, f)' \in SUBSET InFlight(s, f)
          BY <2>4, RowsAssumption DEF InFlight, TypeOK, Release, StageOf
        <5>3. Cardinality(InFlight(s, f)') \in Nat
          BY <5>2, InFlightFinite, FS_Subset, FS_CardinalityType
        <5>. QED  BY <4>1, <5>1, <5>3
      <4>3. CASE f # job[w]
        <5>1. Cardinality(InFlight(s, f)') = Cardinality(InFlight(s, f))
          BY <2>4, <4>3, ReleaseInFlight
        <5>2. attempts'[f] = attempts[f] /\ faults'[s][f] = faults[s][f]
          BY <2>4, <3>1, <4>3 DEF TypeOK
        <5>3. Pending(s, f)
          BY <2>4, <3>1, <3>3, <4>3 DEF Pending, TypeOK
        <5>. QED  BY <5>1, <5>2, <5>3 DEF AttemptsAccounted
      <4>. QED  BY <4>2, <4>3
    <3>. QED  BY <3>2, <3>3 DEF AttemptsAccounted
  <2>5. ASSUME NEW w \in Workers, CommitClassify(w) PROVE AccountInv'
    <3>1. /\ job[w] \in Emails
          /\ classification' = [classification EXCEPT ![job[w]] = verdict[w].class]
          /\ attempts' = [attempts EXCEPT ![job[w]] = 0]
          /\ UNCHANGED <<parsed_at, faults>>
          /\ Release(w)
      BY <2>5 DEF TypeOK, CommitClassify, SetClassification, history_vars
    <3>2. \A f \in Emails : f # job[w] => /\ classification'[f] = classification[f]
                                          /\ parsed_at'[f] = parsed_at[f]
      BY <3>1 DEF TypeOK
    <3>. QED  BY <2>4, <3>1, <3>2, RowsAssumption
  <2>6. ASSUME NEW w \in Workers, CommitParse(w) PROVE AccountInv'
    <3>1. /\ job[w] \in Emails
          /\ MarkParsed(job[w])
          /\ Release(w)
          /\ UNCHANGED faults
      BY <2>6 DEF TypeOK, CommitParse, Save, history_vars
    <3>2. /\ \A f \in Emails : f # job[w] => /\ classification'[f] = classification[f]
                                             /\ parsed_at'[f] = parsed_at[f]
          /\ attempts' = [attempts EXCEPT ![job[w]] = 0]
      BY <3>1 DEF TypeOK, MarkParsed
    <3>. QED  BY <2>4, <3>1, <3>2, RowsAssumption
  <2>7. ASSUME NEW w \in Workers, job[w] # NULL, ReleaseFaulted(w),
               UNCHANGED <<classification, parsed_at, attempts>>
        PROVE  AccountInv'
    <3>1. Release(w) /\ faults' = [faults EXCEPT ![StageOf(w)][job[w]] = @ + 1]
      BY <2>7 DEF ReleaseFaulted
    <3>2. job[w] \in Emails
      BY <2>7 DEF TypeOK
    <3>3. FreshRows'
      BY <2>7 DEF FreshRows
    <3>4. ASSUME NEW s \in Stages, NEW f \in Emails, Pending(s, f)'
          PROVE  attempts'[f] <= faults'[s][f] + Cardinality(InFlight(s, f)')
      <4>1. attempts[f] <= faults[s][f] + Cardinality(InFlight(s, f))
        BY <2>7, <3>4 DEF Pending, AttemptsAccounted
      <4>2. /\ attempts[f] \in Nat /\ attempts'[f] = attempts[f]
            /\ faults[s][f] \in Nat
        BY <2>7, RowsAssumption DEF TypeOK
      <4>3. faults'[s][f] = IF s = StageOf(w) /\ f = job[w] THEN faults[s][f] + 1
                            ELSE faults[s][f]
        BY <3>1, <3>2 DEF TypeOK, StageOf, Stages
      <4>4. Cardinality(InFlight(s, f)') =
              IF s = StageOf(w) /\ f = job[w] THEN Cardinality(InFlight(s, f)) - 1
              ELSE Cardinality(InFlight(s, f))
        BY <2>7, <3>1, ReleaseInFlight
      <4>. QED  BY <4>1, <4>2, <4>3, <4>4, InFlightFinite
    <3>. QED  BY <3>3, <3>4 DEF AttemptsAccounted
  <2>8. ASSUME NEW w \in Workers, RecordFailure(w) \/ Abandon(w) PROVE AccountInv'
    BY <2>7, <2>8 DEF RecordFailure, Abandon, row_vars, TypeOK
  <2>9. ASSUME NEW w \in Workers,
               ClassifyRow(w) \/ ReadBilling(w) \/ ParseRow(w) \/ Fail(w)
        PROVE  UNCHANGED <<classification, parsed_at, attempts, faults, job>>
    BY <2>9 DEF ClassifyRow, ReadBilling, ParseRow, Fail, row_vars, history_vars
  <2>10. ASSUME NEW S \in SUBSET Emails, Elapse(S)
         PROVE  UNCHANGED <<classification, parsed_at, attempts, faults, job>>
    BY <2>10 DEF Elapse, history_vars, worker_vars
  <2>11. ASSUME NEW u \in Users, NEW r \in UserRecord, SetUser(u, r)
         PROVE  UNCHANGED <<classification, parsed_at, attempts, faults, job>>
    BY <2>11 DEF SetUser, row_vars, history_vars, worker_vars
  <2>12. CASE UNCHANGED vars
    BY <2>1, <2>12 DEF vars, row_vars, history_vars, worker_vars
  <2>. QED
    BY <2>1, <2>2, <2>3, <2>5, <2>6, <2>8, <2>9, <2>10, <2>11, <2>12
       DEF Next, Handle
<1>. QED  BY <1>1, <1>2, TypeCorrect, PTL DEF Spec

\* A row leaves the queue unfinished only after MaxAttempts faults of the
\* stage it is stuck in, for any number of processes.
THEOREM GivesUpOnlyAfterFullBudget == Spec => []GivenUpOnlyAfterFullBudget
<1>1. TypeOK /\ AccountInv => GivenUpOnlyAfterFullBudget
  <2>. SUFFICES ASSUME TypeOK, AccountInv, NEW s \in Stages, NEW e \in Emails,
                       GivenUp(s, e)
                PROVE  faults[s][e] >= MaxAttempts
    BY DEF GivenUpOnlyAfterFullBudget
  <2>1. Cardinality(InFlight(s, e)) = 0
    BY FS_EmptySet DEF GivenUp
  <2>2. attempts[e] <= faults[s][e] + Cardinality(InFlight(s, e))
    BY DEF AccountInv, AttemptsAccounted, GivenUp
  <2>3. attempts[e] = MaxAttempts /\ faults[s][e] \in Nat
    BY DEF GivenUp, TypeOK
  <2>. QED  BY <2>1, <2>2, <2>3, RowsAssumption
<1>. QED  BY <1>1, TypeCorrect, AccountInvariant, PTL
-----------------------------------------------------------------------------
(* Emails whose handlers never overlapped.  While a worker holds such an   *)
(* email nobody else moves it, so its job stays pending until the worker's *)
(* own commit.                                                             *)

Unshared(e) == e \in Emails /\ e \notin shared

HeldByOne ==
    \A v, w \in Workers :
        job[v] # NULL /\ job[v] = job[w] /\ Unshared(job[v]) => v = w

JobsPending ==
    \A w \in Workers : Unshared(job[w]) => Pending(StageOf(w), job[w])

MarkersOrdered ==
    \A e \in Emails \ shared : parsed_at[e] => classification[e] = "newsletter"

ParseClaimsCharged ==
    \A e \in Emails \ shared :
        /\ claims["parse"][e] <= MaxAttempts
        /\ classification[e] \in {"absent", "ambiguous"} => claims["parse"][e] = 0
        /\ Pending("parse", e) => claims["parse"][e] = attempts[e]

UnsharedInv ==
    /\ HeldByOne
    /\ JobsPending
    /\ MarkersOrdered
    /\ ParseClaimsCharged
    /\ NoErrorOnFinished

\* What the end of an attempt leaves of the other jobs.
LEMMA OthersStayPending ==
    ASSUME TypeOK, HeldByOne, JobsPending,
           NEW w \in Workers, job[w] \in Emails, Release(w), shared' = shared,
           \A f \in Emails : f # job[w] => /\ classification'[f] = classification[f]
                                           /\ parsed_at'[f] = parsed_at[f]
    PROVE  HeldByOne' /\ JobsPending'
<1>1. \A v \in Workers : job'[v] # NULL => v # w /\ job'[v] = job[v]
  BY DEF TypeOK, Release
<1>2. HeldByOne'
  BY <1>1 DEF HeldByOne, Unshared
<1>3. ASSUME NEW v \in Workers, Unshared(job[v])'
      PROVE  Pending(StageOf(v), job[v])'
  <2>1. v # w /\ job'[v] = job[v] /\ Unshared(job[v])
    BY <1>1, <1>3, RowsAssumption DEF Unshared
  <2>2. job[v] # job[w]
    BY <2>1, RowsAssumption DEF HeldByOne, Unshared
  <2>3. Pending(StageOf(v), job[v])
    BY <2>1 DEF JobsPending
  <2>. QED  BY <2>1, <2>2, <2>3 DEF Unshared, Pending, StageOf
<1>. QED  BY <1>2, <1>3 DEF JobsPending

THEOREM UnsharedInvariant == Spec => []UnsharedInv
<1>1. Init => UnsharedInv
  BY RowsAssumption DEF Init, UnsharedInv, HeldByOne, JobsPending, Unshared,
     MarkersOrdered, ParseClaimsCharged, NoErrorOnFinished, Pending, Stages
<1>2. TypeOK /\ SurfacedInv /\ UnsharedInv /\ [Next]_vars => UnsharedInv'
  <2>. SUFFICES ASSUME TypeOK, SurfacedInv, UnsharedInv, [Next]_vars
                PROVE  UnsharedInv'
    OBVIOUS
  <2>. USE DEF UnsharedInv
  <2>1. CASE UNCHANGED <<classification, parsed_at, attempts, last_error, job,
                         claims, shared>>
    BY <2>1 DEF HeldByOne, JobsPending, Unshared, MarkersOrdered,
                ParseClaimsCharged, NoErrorOnFinished, Pending, StageOf
  <2>2. ASSUME NEW e \in Emails, Insert(e) PROVE UnsharedInv'
    <3>1. /\ classification[e] = "absent"
          /\ classification' = [classification EXCEPT ![e] = "ambiguous"]
          /\ UNCHANGED <<parsed_at, attempts, last_error, job, claims, shared>>
      BY <2>2 DEF Insert, worker_vars, history_vars
    <3>2. HeldByOne' /\ JobsPending'
      BY <3>1 DEF TypeOK, HeldByOne, JobsPending, Unshared, Pending, StageOf
    <3>. QED
      BY <3>1, <3>2 DEF TypeOK, MarkersOrdered, ParseClaimsCharged,
                        NoErrorOnFinished, Pending
  <2>3. ASSUME NEW w \in Workers, NEW e \in Emails, Claim(w, e) PROVE UnsharedInv'
    <3>1. /\ attempts' = [attempts EXCEPT ![e] = @ + 1]
          /\ job' = [job EXCEPT ![w] = e]
          /\ claims' = [claims EXCEPT ![StageOf(w)][e] = @ + 1]
          /\ UNCHANGED <<classification, parsed_at, last_error>>
          /\ Pending(StageOf(w), e)
          /\ attempts[e] < MaxAttempts
          /\ shared \subseteq shared'
          /\ \A v \in Workers : job[v] = e => e \in shared'
      BY <2>3 DEF Claim, ChargeAttempt, Claimable
    <3>2. HeldByOne'
      BY <3>1 DEF TypeOK, HeldByOne, Unshared
    <3>3. JobsPending'
      BY <3>1 DEF TypeOK, JobsPending, Unshared, Pending, StageOf
    <3>4. MarkersOrdered' /\ NoErrorOnFinished'
      BY <3>1 DEF MarkersOrdered, NoErrorOnFinished
    <3>5. ParseClaimsCharged'
      <4>1. CASE StageOf(w) = "classify"
        <5>1. claims'["parse"] = claims["parse"]
          BY <3>1, <4>1 DEF TypeOK, Stages
        <5>2. classification[e] = "ambiguous"
          BY <3>1, <4>1 DEF Pending
        <5>. QED
          BY <3>1, <5>1, <5>2 DEF TypeOK, ParseClaimsCharged, Pending
      <4>2. CASE StageOf(w) = "parse"
        <5>1. claims'["parse"] = [claims["parse"] EXCEPT ![e] = @ + 1]
          BY <3>1, <4>2 DEF TypeOK, Stages
        <5>2. classification[e] = "newsletter" /\ ~parsed_at[e]
          BY <3>1, <4>2 DEF Pending
        <5>. QED
          BY <3>1, <5>1, <5>2, RowsAssumption
             DEF TypeOK, ParseClaimsCharged, Pending, Stages
      <4>. QED  BY <4>1, <4>2 DEF StageOf
    <3>. QED  BY <3>2, <3>3, <3>4, <3>5
  <2>4. ASSUME NEW w \in Workers, CommitClassify(w) PROVE UnsharedInv'
    <3>1. /\ job[w] \in Emails
          /\ classification' = [classification EXCEPT ![job[w]] = verdict[w].class]
          /\ attempts' = [attempts EXCEPT ![job[w]] = 0]
          /\ last_error' = [last_error EXCEPT ![job[w]] = FALSE]
          /\ UNCHANGED <<parsed_at, claims, shared>>
          /\ Release(w)
      BY <2>4 DEF TypeOK, CommitClassify, SetClassification, history_vars
    <3>2. job[w] \notin shared => classification[job[w]] = "ambiguous"
      BY <2>4, <3>1 DEF CommitClassify, JobsPending, Unshared, Pending, StageOf
    <3>3. verdict[w].class \in Classes
      BY <2>4 DEF CommitClassify, SurfacedInv, VerdictsSound, Result
    <3>4. HeldByOne' /\ JobsPending'
      BY <3>1, OthersStayPending DEF TypeOK
    <3>5. MarkersOrdered' /\ NoErrorOnFinished'
      BY <3>1, <3>2 DEF TypeOK, MarkersOrdered, NoErrorOnFinished
    <3>6. ParseClaimsCharged'
      BY <3>1, <3>2, <3>3 DEF TypeOK, ParseClaimsCharged, Pending, Classes
    <3>. QED  BY <3>4, <3>5, <3>6
  <2>5. ASSUME NEW w \in Workers, CommitParse(w) PROVE UnsharedInv'
    <3>1. /\ job[w] \in Emails
          /\ w \in ParseWorkers
          /\ MarkParsed(job[w])
          /\ Release(w)
          /\ UNCHANGED <<claims, shared>>
      BY <2>5 DEF TypeOK, CommitParse, Save, history_vars
    <3>2. /\ parsed_at' = [parsed_at EXCEPT ![job[w]] = TRUE]
          /\ attempts' = [attempts EXCEPT ![job[w]] = 0]
          /\ last_error' = [last_error EXCEPT ![job[w]] = FALSE]
          /\ UNCHANGED classification
      BY <3>1 DEF MarkParsed
    <3>3. job[w] \notin shared => classification[job[w]] = "newsletter"
      BY <3>1, WorkersAssumption DEF JobsPending, Unshared, Pending, StageOf
    <3>4. HeldByOne' /\ JobsPending'
      BY <3>1, <3>2, OthersStayPending DEF TypeOK
    <3>5. MarkersOrdered' /\ NoErrorOnFinished'
      BY <3>1, <3>2, <3>3 DEF TypeOK, MarkersOrdered, NoErrorOnFinished
    <3>6. ParseClaimsCharged'
      BY <3>1, <3>2, <3>3 DEF TypeOK, ParseClaimsCharged, Pending
    <3>. QED  BY <3>4, <3>5, <3>6
  <2>6. ASSUME NEW w \in Workers, RecordFailure(w) \/ Abandon(w) PROVE UnsharedInv'
    <3>1. /\ job[w] \in Emails
          /\ Release(w)
          /\ UNCHANGED <<classification, parsed_at, attempts, claims, shared>>
          /\ last_error' \in {last_error, [last_error EXCEPT ![job[w]] = TRUE]}
      BY <2>6 DEF TypeOK, RecordFailure, Abandon, ReleaseFaulted, row_vars
    <3>2. job[w] \notin shared => Pending(StageOf(w), job[w])
      BY <3>1 DEF JobsPending, Unshared
    <3>3. HeldByOne' /\ JobsPending'
      BY <3>1, OthersStayPending
    <3>4. NoErrorOnFinished'
      <4>1. job[w] \notin shared =>
               ~parsed_at[job[w]] /\ classification[job[w]] # "transactional"
        BY <3>1, <3>2 DEF MarkersOrdered, Pending
      <4>2. \A e \in Emails \ {job[w]} : last_error'[e] = last_error[e]
        BY <3>1 DEF TypeOK
      <4>. QED  BY <3>1, <4>1, <4>2 DEF NoErrorOnFinished
    <3>5. MarkersOrdered' /\ ParseClaimsCharged'
      BY <3>1 DEF MarkersOrdered, ParseClaimsCharged, Pending
    <3>. QED  BY <3>3, <3>4, <3>5
  <2>7. ASSUME NEW w \in Workers,
               ClassifyRow(w) \/ ReadBilling(w) \/ ParseRow(w) \/ Fail(w)
        PROVE  UNCHANGED <<classification, parsed_at, attempts, last_error, job,
                           claims, shared>>
    BY <2>7 DEF ClassifyRow, ReadBilling, ParseRow, Fail, row_vars, history_vars
  <2>8. ASSUME NEW S \in SUBSET Emails, Elapse(S)
        PROVE  UNCHANGED <<classification, parsed_at, attempts, last_error, job,
                           claims, shared>>
    BY <2>8 DEF Elapse, worker_vars, history_vars
  <2>9. ASSUME NEW u \in Users, NEW r \in UserRecord, SetUser(u, r)
        PROVE  UNCHANGED <<classification, parsed_at, attempts, last_error, job,
                           claims, shared>>
    BY <2>9 DEF SetUser, row_vars, worker_vars, history_vars
  <2>10. CASE UNCHANGED vars
    BY <2>1, <2>10 DEF vars, row_vars, worker_vars, history_vars
  <2>. QED
    BY <2>1, <2>2, <2>3, <2>4, <2>5, <2>6, <2>7, <2>8, <2>9, <2>10
       DEF Next, Handle
<1>. QED  BY <1>1, <1>2, TypeCorrect, SurfacedInvariant, PTL DEF Spec

\* An email whose handlers never overlapped costs each stage at most MaxAttempts
\* handlers, whatever happens to the emails around it: claims charge the budget
\* and only the one commit of a stage refills it, for the next.
THEOREM StagesBudgeted == Spec => []StageBudget
<1>1. ClaimsCharged /\ UnsharedInv => StageBudget
  BY DEF ClaimsCharged, UnsharedInv, ParseClaimsCharged, StageBudget, Stages
<1>. QED  BY <1>1, ClaimsChargedInvariant, UnsharedInvariant, PTL

\* ... shows no failure once it is finished, as recordFailure writes on a row that
\* is still pending ...
THEOREM FinishedRowsClean == Spec => []NoErrorOnFinished
<1>1. UnsharedInv => NoErrorOnFinished
  BY DEF UnsharedInv
<1>. QED  BY <1>1, UnsharedInvariant, PTL

\* ... and keeps the class it was given: SetClassification finds it ambiguous,
\* though its statement does not ask.
THEOREM VerdictsFinal == Spec => DecidedOnce
<1>1. TypeOK /\ UnsharedInv /\ [Next]_vars =>
        [\A e \in Emails \ shared :
            classification[e] \in Classes => classification'[e] = classification[e]]_vars
  <2>. SUFFICES ASSUME TypeOK, UnsharedInv, Next,
                       NEW e \in Emails \ shared, classification[e] \in Classes
                PROVE  classification'[e] = classification[e]
    OBVIOUS
  <2>1. ASSUME NEW f \in Emails, Insert(f)
        PROVE  classification'[e] = classification[e]
    BY <2>1 DEF TypeOK, Insert, Classes
  <2>2. ASSUME NEW w \in Workers, CommitClassify(w)
        PROVE  classification'[e] = classification[e]
    <3>1. classification' = [classification EXCEPT ![job[w]] = verdict[w].class]
      BY <2>2 DEF CommitClassify, SetClassification
    <3>2. job[w] # e
      BY <2>2 DEF CommitClassify, UnsharedInv, JobsPending, Unshared, Pending,
                  StageOf, Classes
    <3>. QED  BY <3>1, <3>2 DEF TypeOK
  <2>3. ASSUME NEW w \in Workers,
               \/ ClassifyRow(w) \/ ReadBilling(w) \/ ParseRow(w) \/ CommitParse(w)
               \/ Fail(w) \/ RecordFailure(w) \/ Abandon(w)
        PROVE  classification' = classification
    BY <2>3 DEF ClassifyRow, ReadBilling, ParseRow, CommitParse, Save, MarkParsed,
                Fail, RecordFailure, Abandon, row_vars
  <2>4. ASSUME NEW S \in SUBSET Emails, Elapse(S)
        PROVE  classification' = classification
    BY <2>4 DEF Elapse
  <2>5. ASSUME NEW u \in Users, NEW r \in UserRecord, SetUser(u, r)
        PROVE  classification' = classification
    BY <2>5 DEF SetUser, row_vars
  <2>6. ASSUME NEW w \in Workers, NEW f \in Emails, Claim(w, f)
        PROVE  classification' = classification
    BY <2>6 DEF Claim
  <2>. QED  BY <2>1, <2>2, <2>3, <2>4, <2>5, <2>6 DEF Next, Handle
<1>. QED  BY <1>1, TypeCorrect, UnsharedInvariant, PTL DEF Spec, DecidedOnce

-----------------------------------------------------------------------------
(* One worker per stage.  An email is pending in one stage at a time, so   *)
(* nobody but the worker that holds it could claim it.                     *)

NeverShared == shared = {}

\* Two workers on one row would be of one stage, hence one worker.
THEOREM HandlersExclusive ==
    ASSUME OneWorkerPerStage PROVE Spec => []NeverShared
<1>1. Init => NeverShared
  BY DEF Init, NeverShared
<1>2. TypeOK /\ UnsharedInv /\ NeverShared /\ [Next]_vars => NeverShared'
  <2>. SUFFICES ASSUME TypeOK, UnsharedInv, shared = {}, [Next]_vars
                PROVE  shared' = {}
    BY DEF NeverShared
  <2>1. ASSUME NEW w \in Workers, NEW e \in Emails, Claim(w, e) PROVE shared' = {}
    <3>1. ASSUME NEW v \in Workers, job[v] = e PROVE FALSE
      <4>1. Pending(StageOf(v), e) /\ Pending(StageOf(w), e)
        BY <2>1, <3>1 DEF Claim, Claimable, UnsharedInv, JobsPending, Unshared
      <4>2. v = w
        BY <4>1 DEF OneWorkerPerStage, Pending, StageOf
      <4>. QED  BY <2>1, <3>1, <4>2, RowsAssumption DEF Claim, TypeOK
    <3>. QED  BY <2>1, <3>1 DEF Claim
  <2>2. ASSUME NEW e \in Emails, Insert(e) PROVE shared' = shared
    BY <2>2 DEF Insert, history_vars
  <2>3. ASSUME NEW S \in SUBSET Emails, Elapse(S) PROVE shared' = shared
    BY <2>3 DEF Elapse, history_vars
  <2>4. ASSUME NEW u \in Users, NEW r \in UserRecord, SetUser(u, r)
        PROVE  shared' = shared
    BY <2>4 DEF SetUser, history_vars
  <2>5. ASSUME NEW w \in Workers, Handle(w) \/ Abandon(w) PROVE shared' = shared
    BY <2>5 DEF Handle, Abandon, ClassifyRow, CommitClassify, ReadBilling, ParseRow,
                CommitParse, Fail, RecordFailure, ReleaseFaulted, history_vars
  <2>6. CASE UNCHANGED vars
    BY <2>6 DEF vars, history_vars
  <2>. QED  BY <2>1, <2>2, <2>3, <2>4, <2>5, <2>6 DEF Next
<1>. QED  BY <1>1, <1>2, TypeCorrect, UnsharedInvariant, PTL DEF Spec

-----------------------------------------------------------------------------
(* Refinement: with one worker per stage the pipeline is a Lifecycle.      *)

LEMMA StepsOfLifecycle ==
    ASSUME TypeOK, SurfacedInv, UnsharedInv, shared = {}, ExtractionFromOneRun,
           [Next]_vars
    PROVE  [LC!Next]_Stage
<1>1. CASE UNCHANGED <<classification, parsed_at, extraction>>
  BY <1>1 DEF Stage
<1>2. ASSUME NEW e \in Emails, Insert(e) PROVE LC!Next
  <2>1. /\ classification[e] = "absent"
        /\ classification' = [classification EXCEPT ![e] = "ambiguous"]
        /\ UNCHANGED <<parsed_at, extraction>>
    BY <1>2 DEF Insert, parse_vars
  <2>2. ~parsed_at[e]
    BY <2>1 DEF UnsharedInv, MarkersOrdered
  <2>3. Stage[e] = "absent" /\ Stage' = [Stage EXCEPT ![e] = "ambiguous"]
    BY <2>1, <2>2 DEF TypeOK, Stage
  <2>. QED  BY <2>3 DEF LC!Next, LC!Receive, LC!Advance
<1>3. ASSUME NEW w \in Workers, CommitClassify(w) PROVE LC!Next
  <2>1. /\ job[w] \in Emails
        /\ classification' = [classification EXCEPT ![job[w]] = verdict[w].class]
        /\ UNCHANGED <<parsed_at, extraction>>
    BY <1>3 DEF TypeOK, CommitClassify, SetClassification, parse_vars
  <2>2. classification[job[w]] = "ambiguous" /\ ~parsed_at[job[w]]
    BY <1>3, <2>1, RowsAssumption
       DEF CommitClassify, UnsharedInv, JobsPending, Unshared, MarkersOrdered, Pending,
           StageOf
  <2>3. verdict[w].class \in {"newsletter", "transactional"}
    BY <1>3 DEF CommitClassify, SurfacedInv, VerdictsSound, Result, Classes
  <2>4. /\ Stage[job[w]] = "ambiguous"
        /\ Stage' = [Stage EXCEPT ![job[w]] = verdict[w].class]
    BY <2>1, <2>2 DEF TypeOK, Stage
  <2>. QED  BY <2>1, <2>3, <2>4 DEF LC!Next, LC!Decide, LC!Advance
<1>4. ASSUME NEW w \in ParseWorkers, CommitParse(w) PROVE LC!Next
  <2>1. /\ job[w] \in Emails
        /\ parsed_at' = [parsed_at EXCEPT ![job[w]] = TRUE]
        /\ UNCHANGED classification
    BY <1>4, CommitParseEffect DEF CommitParse, Save, MarkParsed
  <2>2. \/ UNCHANGED extraction
        \/ extraction' = [extraction EXCEPT ![job[w]] = w]
    BY <1>4, CommitParseEffect
  <2>3. classification[job[w]] = "newsletter" /\ ~parsed_at[job[w]]
    BY <2>1, RowsAssumption, WorkersAssumption
       DEF UnsharedInv, JobsPending, Unshared, Pending, StageOf, Workers
  <2>4. PICK outcome \in {"parsed", "skipped"} : Stage'[job[w]] = outcome
    BY <2>1 DEF TypeOK, Stage
  <2>5. \A f \in Emails : f # job[w] => Stage'[f] = Stage[f]
    BY <2>1, <2>2 DEF TypeOK, Stage
  <2>6. Stage[job[w]] = "newsletter"
    BY <2>1, <2>3 DEF Stage
  <2>7. Stage' = [Stage EXCEPT ![job[w]] = outcome]
    BY <2>1, <2>4, <2>5 DEF Stage
  <2>. QED  BY <2>1, <2>6, <2>7 DEF LC!Next, LC!Finish, LC!Advance
<1>5. ASSUME NEW S \in SUBSET Emails, Elapse(S)
      PROVE  UNCHANGED <<classification, parsed_at, extraction>>
  BY <1>5 DEF Elapse, parse_vars
<1>6. ASSUME NEW u \in Users, NEW r \in UserRecord, SetUser(u, r)
      PROVE  UNCHANGED <<classification, parsed_at, extraction>>
  BY <1>6 DEF SetUser, row_vars, parse_vars
<1>7. ASSUME NEW w \in Workers, NEW e \in Emails, Claim(w, e)
      PROVE  UNCHANGED <<classification, parsed_at, extraction>>
  BY <1>7 DEF Claim, parse_vars
<1>8. ASSUME NEW w \in Workers,
             \/ ClassifyRow(w) \/ ReadBilling(w) \/ ParseRow(w)
             \/ Fail(w) \/ RecordFailure(w) \/ Abandon(w)
      PROVE  UNCHANGED <<classification, parsed_at, extraction>>
  BY <1>8 DEF ClassifyRow, ReadBilling, ParseRow, Fail, RecordFailure, Abandon,
              row_vars, parse_vars
<1>9. ASSUME NEW w \in Workers, CommitParse(w) PROVE w \in ParseWorkers
  BY <1>9 DEF CommitParse
<1>10. CASE UNCHANGED vars
  BY <1>1, <1>10 DEF vars, row_vars, parse_vars
<1>. QED
  BY <1>1, <1>2, <1>3, <1>4, <1>5, <1>6, <1>7, <1>8, <1>9, <1>10
     DEF Next, Handle

\* Every behaviour of the deployed pipeline takes each email through the
\* lifecycle once and in order; retries, crashes, claims and billing changes
\* are stuttering steps of it.
THEOREM ImplementsLifecycle ==
    ASSUME OneWorkerPerStage PROVE Spec => LifecycleSpec
<1>1. Init => LC!Init
  BY DEF Init, LC!Init, Stage
<1>2. TypeOK /\ SurfacedInv /\ UnsharedInv /\ NeverShared /\ ExtractionFromOneRun
        /\ [Next]_vars => [LC!Next]_Stage
  BY StepsOfLifecycle DEF NeverShared
<1>. QED
  BY <1>1, <1>2, TypeCorrect, SurfacedInvariant, UnsharedInvariant,
     HandlersExclusive, ExtractionsWhole, PTL DEF Spec, LifecycleSpec, LC!Spec
=============================================================================
