--------------------------- MODULE MCCorrelation ---------------------------
(***************************************************************************)
(* Correlation on one pooled address, two calls and one message.           *)
(***************************************************************************)
EXTENDS Correlation, TLC

CONSTANT p1

OnePool == <<p1>>

Symmetry == Permutations(Run) \cup Permutations(Caller)
=============================================================================
