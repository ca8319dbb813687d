----------------------------- MODULE MCDataDir -----------------------------
(***************************************************************************)
(* Constants of DataDir for TLC.                                           *)
(***************************************************************************)
EXTENDS DataDir, TLC

Cmd(op, name, domains) == [op |-> op, name |-> name, domains |-> domains]

\* A server and an operator with the same flags, a mail catcher that disagrees
\* on name and list, commands without flags, and one with a typo in a domain.
SomeCommands ==
    {Cmd("serve", "demo", <<"a">>), Cmd("catch", "other", <<"b">>), Cmd("catch", None, None),
     Cmd("provision", "demo", <<"a">>), Cmd("rotate", None, None), Cmd("revoke", None, None),
     Cmd("catch", "demo", <<"bad">>)}

\* One user who starts the server, with a typo the first time.
FirstRun == {Cmd("serve", "demo", <<"bad">>), Cmd("serve", "demo", <<"a">>)}

Typos == {<<"bad">>}

Symmetry == Permutations(Process)
=============================================================================
