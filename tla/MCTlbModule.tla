----------------------------- MODULE MCTlbModule -----------------------------
(* Instances of TlbModule for TLC. *)
EXTENDS TlbModule

CONSTANTS t1, t2
=============================================================================
