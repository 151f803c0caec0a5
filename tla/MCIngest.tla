------------------------------ MODULE MCIngest ------------------------------
(***************************************************************************)
(* Instances of Ingest for TLC.  Only m1 has an unsubscribe header; m3     *)
(* goes to an address nobody owns.                                         *)
(***************************************************************************)
EXTENDS Ingest

CONSTANTS m1, m2, m3, m4, u1, u2, f1, id1

MCOwner == [m \in Messages |-> IF m = m3 THEN NULL ELSE u1]

\* A mailing to several users of one list.
MCOwnerEach == [m \in Messages |-> IF m = m3 THEN NULL ELSE IF m = m2 THEN u2 ELSE u1]

MCFrom == [m \in Messages |-> f1]

MCUnsubscribe == [m \in Messages |-> m = m1]

\* Only m1 has a Message-Id; m4 repeats that of m1; all have the same.
MCFirstNamed == [m \in Messages |-> IF m = m1 THEN id1 ELSE NULL]
MCRepeatedId == [m \in Messages |-> IF m \in {m1, m4} THEN id1 ELSE NULL]
MCSameId == [m \in Messages |-> id1]
=============================================================================
