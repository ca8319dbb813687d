--------------------------- MODULE OneTimeSecret ---------------------------
(***************************************************************************)
(* What a claim promises, without saying how: each secret belongs to at    *)
(* most one claimant and each claimant to at most one secret, for good;    *)
(* a secret is given to the claimant it belongs to, as often as that       *)
(* claimant asks.  (schema_v4.sql: "handed over exactly once"; an          *)
(* idempotent replay is the same handover again.)                          *)
(***************************************************************************)
CONSTANTS Secret, Claimant

VARIABLES
    owner,      \* pairs <<secret, claimant>>
    given       \* the pairs that were handed over

secretVars == <<owner, given>>

SecretInit == owner = {} /\ given = {}

Free(s, o) == \A p \in owner : p[1] # s /\ p[2] # o

\* A free secret is taken; its first answer arrives or is lost.
Take(s, o) ==
    /\ Free(s, o)
    /\ owner' = owner \cup {<<s, o>>}
    /\ given' \in {given, given \cup {<<s, o>>}}

\* A claimant is answered again.
Give(s, o) ==
    /\ <<s, o>> \in owner
    /\ given' = given \cup {<<s, o>>}
    /\ UNCHANGED owner

SecretNext == \E s \in Secret, o \in Claimant : Take(s, o) \/ Give(s, o)

SecretSpec == SecretInit /\ [][SecretNext]_secretVars
=============================================================================
