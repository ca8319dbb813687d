------------------------------ MODULE MCIngest ------------------------------
(* Ingest for TLC: two deliveries; the queue and the buffer hold one.      *)
EXTENDS Ingest
=============================================================================
