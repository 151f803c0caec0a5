---------------------------- MODULE MCExtraction ----------------------------
(***************************************************************************)
(* Instances of Extraction for TLC.  l1 is a tracker around a tracker      *)
(* around an article, l2 the inner tracker, l3 the article itself.         *)
(***************************************************************************)
EXTENDS Extraction

CONSTANTS l1, l2, l3, outer, inner, article, other

MCRaw == [l \in Links |-> IF l = l1 THEN outer ELSE IF l = l2 THEN inner ELSE article]

MCWrapped ==
    [u \in Urls |-> IF u = outer THEN inner ELSE IF u = inner THEN article ELSE NULL]
=============================================================================
