---------------------------- MODULE MCLeaseStore ----------------------------
(* Constants of LeaseStore for TLC.                                        *)
EXTENDS LeaseStore

CONSTANT p1

OnePool == <<p1>>
=============================================================================
