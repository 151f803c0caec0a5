------------------------------ MODULE MCPrompt ------------------------------
(***************************************************************************)
(* An instance of Prompt for TLC: documents of up to MaxNodes nodes, each  *)
(* of a kind of its own for Walk, and answers of up to MaxParts parts.     *)
(***************************************************************************)
EXTENDS Prompt

Shown(kind, ref) == [kind |-> kind, ref |-> ref, hidden |-> FALSE]
Hidden(kind, ref) == [kind |-> kind, ref |-> ref, hidden |-> TRUE]

MCElements ==
    {Shown("text", "words"), Shown("text", "wrapped"),
     Shown("block", ""), Hidden("block", ""), Shown("dropped", ""),
     Shown("anchor", "url"), Shown("anchor", "mark"), Shown("anchor", ""),
     Hidden("anchor", "url"),
     Shown("image", "file"), Shown("image", "data"), Hidden("image", "file")}
=============================================================================
