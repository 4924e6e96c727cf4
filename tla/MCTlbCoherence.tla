--------------------------- MODULE MCTlbCoherence ---------------------------
(* Instances of TlbCoherence for TLC. *)
EXTENDS TlbCoherence, TLC

CONSTANTS t1, t2, v1, v2, p1, p2, gfx, mm

\* "onlycomm" selects everything, or only the first thread.
AllOrOne == {{t1, t2}, {t1}}
AllTasks == {{t1, t2}}

\* Pages are told apart by nothing but the updates that name them.
PageSymmetry == Permutations({p1, p2})
=============================================================================
