----------------------------- MODULE MCEventBus -----------------------------
(* EventBus for TLC.                                                       *)
EXTENDS EventBus, TLC

Symmetry == Permutations(Client)
=============================================================================
