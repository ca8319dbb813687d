------------------------------ MODULE MCClaims ------------------------------
(***************************************************************************)
(* Constants of Claims for TLC.                                            *)
(***************************************************************************)
EXTENDS Claims, TLC

CONSTANTS l1, l2, k1, k2

\* A message reaches both leased addresses, or the second one is in doubt.
SomeEnvelopes ==
    {[l \in Lease |-> "clean"], [l \in Lease |-> IF l = l1 THEN "clean" ELSE "suspect"]}

OneEnvelope == {[l \in Lease |-> "clean"]}

\* Clients that use a key for one kind only, as the MCP proxy derives it.
KeyPerKind ==
    {<<l1, k1, "email_otp">>, <<l2, k1, "email_otp">>}

\* Clients that reuse a key for another kind.
KeyReused == {<<l1, k1, "email_otp">>, <<l1, k1, "magic_link">>, <<l1, k2, "magic_link">>}

\* The first grant runs out within the claim TTL, the second after it.
Ends == [l \in Lease |-> IF l = l1 THEN 1 ELSE 3]

Symmetry == Permutations(Caller)
=============================================================================
