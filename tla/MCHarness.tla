------------------------------ MODULE MCHarness ------------------------------
(* Instances of Harness for TLC. *)
EXTENDS Harness

\* Scripts that were given the options the registry passes.
RegistryOptions == {"n-envs", "run-id", "run-dir"}

\* The latest checkpoint of one suite, and the one by another name.
LatestThere == {Latest("spatial", 0)} \cup OtherCkpts

\* A new directory, and one an earlier run has used.
FreshOrUsed == {None, <<"scene90", 0>>}
=============================================================================
