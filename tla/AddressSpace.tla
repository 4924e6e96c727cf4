---------------------------- MODULE AddressSpace ----------------------------
(***************************************************************************)
(* What kmod/mempool_tlbfix.c promises to the pool allocator, without      *)
(* hooks, fences, TLBs or threads.  A range has the translation last asked *)
(* for, and the set of translations that a GPU access to it may meet.      *)
(* Asking for a new one adds it to that set; after that the set can only   *)
(* shrink.  A map or unmap that came back through the hooks has settled    *)
(* its range: an access meets what was asked for, until the next request.  *)
(***************************************************************************)
CONSTANTS
  VAs,       \* virtual ranges
  Targets,   \* translations
  Hole       \* the translation of an unmapped range

VARIABLES
  goal,      \* the translation last asked for
  seen,      \* the translations an access may meet
  settled    \* ranges that are safe to use, and whose old page may be reused

vars == <<goal, seen, settled>>

Init ==
  /\ goal = [v \in VAs |-> Hole]
  /\ seen = [v \in VAs |-> {Hole}]
  /\ settled = {}

\* The pool asks for a map or an unmap, and may not rely on the range.
Ask(v, to) ==
  /\ goal' = [goal EXCEPT ![v] = to]
  /\ seen' = [seen EXCEPT ![v] = @ \cup {to}]
  /\ settled' = settled \ {v}

\* Old translations go away.  None comes back, and one is always left.
Forget ==
  /\ seen' \in [VAs -> (SUBSET Targets) \ {{}}]
  /\ \A v \in VAs : seen'[v] \subseteq seen[v]
  /\ UNCHANGED <<goal, settled>>

\* The fixed call comes back.
Settle(v) ==
  /\ seen[v] = {goal[v]}
  /\ settled' = settled \cup {v}
  /\ UNCHANGED <<goal, seen>>

Next ==
  \/ Forget
  \/ \E v \in VAs : Settle(v) \/ \E to \in Targets : Ask(v, to)

Spec == Init /\ [][Next]_vars

\* A settled range is only ever translated to what was asked for.
SettledIsExact == \A v \in settled : seen[v] = {goal[v]}
=============================================================================
