----------------------------- MODULE MCPipeline -----------------------------
(***************************************************************************)
(* Instances of Pipeline for TLC: one user owns every email, and an email  *)
(* has one of three contents that take the three ways through Classify.    *)
(***************************************************************************)
EXTENDS Pipeline

MCUserOf == [e \in Emails |-> CHOOSE u \in Users : TRUE]

Plain == [subjectConfirms |-> FALSE, listId |-> FALSE, listUnsub |-> FALSE,
          bulk |-> FALSE, confirmLink |-> TRUE]

FromList == [Plain EXCEPT !.listId = TRUE]

\* A list's double opt-in message.
OptIn == [FromList EXCEPT !.subjectConfirms = TRUE]

MCContents == {Plain, FromList, OptIn}

\* One content per email is enough where the property does not read it.
MCPlainOnly == {Plain}
=============================================================================
