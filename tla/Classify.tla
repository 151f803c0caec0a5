------------------------------ MODULE Classify ------------------------------
(***************************************************************************)
(* The decision function of internal/classify: a fixed order of a subject  *)
(* match, the per-message list headers, and only then the model's reply.   *)
(*                                                                         *)
(* An email is abstracted to the five facts the function branches on, a    *)
(* reply of the model to the words it contains.  Notes (wording shown in   *)
(* the admin table) are left out.                                          *)
(***************************************************************************)

Classes == {"newsletter", "transactional"}

\* What a stored email shows to the classifier: whether its subject matches
\* confirmRe, its three list headers are present (precedence: equal to "bulk"
\* once trimmed and case-folded), and whether its body has a link matching
\* confirmLinkRe.
Input == [subjectConfirms : BOOLEAN, listId : BOOLEAN, listUnsub : BOOLEAN,
          bulk : BOOLEAN, confirmLink : BOOLEAN]

Result == [class : Classes, confirm : BOOLEAN]

\* The lowercased reply is only ever searched for two substrings, the first of
\* which contains the second.
Replies == {"newsletter", "not_newsletter", "garbage"}

Mentions(reply, word) ==
    \/ reply = word
    \/ reply = "not_newsletter" /\ word = "newsletter"

ListHeaders(in) == in.listId \/ in.listUnsub \/ in.bulk

\* A non-newsletter still surfaces a confirmation link found in its body.
Transactional(in) == [class |-> "transactional", confirm |-> in.confirmLink]

Newsletter == [class |-> "newsletter", confirm |-> FALSE]

FromReply(in, reply) ==
    IF Mentions(reply, "not_newsletter") THEN Transactional(in)
    ELSE IF Mentions(reply, "newsletter") THEN Newsletter
    ELSE Transactional(in)

\* Mutant: list headers are consulted before the subject.
ClassifyHeadersFirst(in, reply) ==
    CASE ListHeaders(in) -> Newsletter
      [] ~ListHeaders(in) /\ in.subjectConfirms ->
            [class |-> "transactional", confirm |-> TRUE]
      [] OTHER -> FromReply(in, reply)

Classify(in, reply) ==
    CASE in.subjectConfirms -> [class |-> "transactional", confirm |-> TRUE]
      [] ~in.subjectConfirms /\ ListHeaders(in) -> Newsletter
      [] OTHER -> FromReply(in, reply)
=============================================================================
