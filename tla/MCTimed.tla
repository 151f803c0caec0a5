------------------------------ MODULE MCTimed -------------------------------
(***************************************************************************)
(* An instance of Timed for TLC, with the backoffs of the code.            *)
(***************************************************************************)
EXTENDS Timed, MCPipeline, TLC

MCBackoff == [a \in 0..(MaxAttempts - 1) |-> 3^a]

\* 1 + 3 + 9 + ...
MCSpan == [k \in 1..MaxAttempts |-> (3^(k - 1) - 1) \div 2]

\* Bound: billing changes only before the first row arrives; what it may be is
\* chosen freely then, and the clock's properties do not depend on it.
MCBillingFirst == users' # users => \A e \in Emails : classification[e] = "absent"

MCSymmetry == Permutations(Emails) \cup Permutations(ClassifyWorkers)
=============================================================================
