----------------------------- MODULE Lifecycle ------------------------------
(***************************************************************************)
(* What the pipeline promises for each email, without workers, claims,     *)
(* retries or failures: an email is received once, classified once, and a  *)
(* newsletter is finished once, either parsed or skipped because its owner *)
(* is not billable.  No step ever goes back.  The stages are the durable   *)
(* markers of the inbound_emails row: classification and parsed_at.        *)
(***************************************************************************)
CONSTANT Emails

VARIABLE stage

Stages == {"absent", "ambiguous", "newsletter", "transactional",
           "parsed", "skipped"}

TypeOK == stage \in [Emails -> Stages]

Init == stage = [e \in Emails |-> "absent"]

Advance(e, from, to) ==
    /\ stage[e] = from
    /\ stage' = [stage EXCEPT ![e] = to]

Receive(e) == Advance(e, "absent", "ambiguous")

Decide(e) == \E class \in {"newsletter", "transactional"} :
                Advance(e, "ambiguous", class)

Finish(e) == \E outcome \in {"parsed", "skipped"} :
                Advance(e, "newsletter", outcome)

Next == \E e \in Emails : Receive(e) \/ Decide(e) \/ Finish(e)

Spec == Init /\ [][Next]_stage
=============================================================================
