--------------------------- MODULE MCArchivalStore ---------------------------
(* Instances of ArchivalStore for TLC. *)
EXTENDS ArchivalStore

CONSTANTS p, q
=============================================================================
