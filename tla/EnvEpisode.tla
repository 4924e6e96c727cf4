----------------------------- MODULE EnvEpisode -----------------------------
(***************************************************************************)
(* The simulation state behind the LIBERO environments: LiberoMjxEnv and   *)
(* LiberoEnv ("mjx"), whose LiberoState holds an mjx.Data, and WarpEnv     *)
(* ("warp"), which owns one device buffer.  Both hold a pose (qpos, qvel)  *)
(* and fields derived from it.  Nothing but the order of the calls keeps   *)
(* the two together, so the model follows how many poses ago each derived  *)
(* field was computed.  Numbers are left out; of a pose only matters in    *)
(* which worlds the object is within the predicate's reach of its target.  *)
(*                                                                         *)
(* The simulator is external: forward derives every field from the pose,   *)
(* step does the same and then moves the pose on.                          *)
(***************************************************************************)
EXTENDS Naturals

CONSTANTS
  Worlds,    \* the batched environments
  NSub,      \* n_substeps: physics steps of a control step
  EnvTasks   \* the tasks: suite, and whether _post_init finds both bodies

Suites == {"spatial", "object", "goal", "scene10", "scene90"}
Flags  == [Worlds -> BOOLEAN]

ASSUME EnvAssumption ==
  /\ NSub \in Nat \ {0}
  /\ EnvTasks \subseteq [suite : Suites, obj : BOOLEAN, target : BOOLEAN]

\* How many poses ago something was computed.  Lost stands for longer ago than
\* a control step lasts, for another episode, and for never.
Lost == NSub + 2
Ages == 0 .. Lost
Older(age) == IF age < Lost THEN age + 1 ELSE Lost

VARIABLES
  api,      \* "mjx" or "warp"
  task,     \* the task of the environment
  made,     \* whether some call has made a state
  raw,      \* whether batch_reset did and no simulator call has followed
  near,     \* worlds whose object is at its target, in the pose
  seen,     \* the same, in the pose that xpos was derived from
  kin,      \* age of xpos, site_xpos, site_xmat
  dyn,      \* age of the mass matrix, the Jacobian fields and qfrc_bias
  goal,     \* age of the site pose that step set its goal from
  mass,     \* age of the mass matrix WarpEnv.step copied
  first,    \* WarpEnv._first_step
  sub,      \* substeps of the current control step still to do
  success,  \* what the last control step reported
  reached,  \* history: near in some pose since the state was made
  saved     \* the pose of the last get_sim_state, if there was one

envVars == <<api, task, made, raw, near, seen, kin, dyn, goal, mass, first, sub,
             success, reached, saved>>

-----------------------------------------------------------------------------
(* The success predicate that _get_predicate picks for a task. *)

Scenes == {"scene10", "scene90"}

\* A body that was not found is None, and xpos[None] is all bodies at once:
\* the predicate yields an array where a truth value is expected.
Malformed(k) == ~k.obj /\ k.suite \notin Scenes

\* The fallback: an object within 999 of itself.
Always_Scenes(k) == k.suite \in Scenes
Always(k) ==
  \/ k.suite \in Scenes /\ ~(k.obj /\ k.target)
  \/ k.suite \in {"object", "goal"} /\ k.obj /\ ~k.target

SuccessOf(s) == [w \in Worlds |-> ~Malformed(task) /\ (Always(task) \/ s[w])]

EnvTypeOK ==
  /\ api \in {"mjx", "warp"}
  /\ task \in EnvTasks
  /\ made \in BOOLEAN /\ raw \in BOOLEAN
  /\ near \in Flags /\ seen \in Flags /\ success \in Flags /\ reached \in Flags
  /\ kin \in Ages /\ dyn \in Ages /\ goal \in Ages /\ mass \in Ages
  /\ first \in BOOLEAN
  /\ sub \in 0 .. NSub
  /\ saved \in {{}} \cup {{f} : f \in Flags}

\* WarpEnv looks up the bodies of the spatial suite and no other.  Its buffer
\* has a pose from the start, but no field derived from it.
EnvInit ==
  /\ api \in {"mjx", "warp"}
  /\ task \in EnvTasks
  /\ api = "warp" => task.suite = "spatial" /\ task.obj /\ task.target
  /\ made = FALSE /\ raw = FALSE
  /\ near \in Flags /\ reached = near
  /\ seen = [w \in Worlds |-> FALSE] /\ success = seen
  /\ api = "mjx" => near = seen
  /\ kin = Lost /\ dyn = Lost /\ goal = Lost /\ mass = Lost
  /\ first = TRUE
  /\ sub = 0
  /\ saved = {}

-----------------------------------------------------------------------------
(* Making a state. *)

\* A new mjx.Data with a pose, metrics and info of its own; age is that of the
\* fields that batch_reset leaves out.
FreshState(age) ==
  /\ api = "mjx" /\ sub = 0
  /\ made' = TRUE /\ raw' = (age = Lost)
  /\ near' \in Flags
  /\ seen' = near' /\ reached' = near'
  /\ kin' = 0 /\ dyn' = age
  /\ goal' = Lost /\ mass' = Lost
  /\ success' = [w \in Worlds |-> FALSE]
  /\ UNCHANGED <<api, task, first, sub, saved>>

\* LiberoEnv.reset, and the make_state of the evaluation script.
Reset     == FreshState(0)
MakeState == FreshState(0)

\* LiberoSpatialBase.reset, of environments whose two bodies must exist.
SpatialReset ==
  /\ task.suite = "spatial" /\ task.obj /\ task.target
  /\ FreshState(0)

\* batch_reset copies xpos, site_xpos and site_xmat of a forward pass made
\* elsewhere into the new data, and nothing else of it.
BatchReset == FreshState(Lost)

\* WarpEnv.set_state: the pose of the one buffer, then a forward pass.
SetState ==
  /\ api = "warp" /\ sub = 0
  /\ made' = TRUE
  /\ near' \in Flags
  /\ seen' = near' /\ reached' = near'
  /\ kin' = 0 /\ dyn' = 0
  /\ goal' = Lost /\ mass' = Lost
  /\ success' = [w \in Worlds |-> FALSE]
  /\ UNCHANGED <<api, task, raw, first, sub, saved>>

GetSimState ==
  /\ api = "mjx" /\ sub = 0 /\ made
  /\ saved' = {near}
  /\ UNCHANGED <<api, task, made, raw, near, seen, kin, dyn, goal, mass, first,
                 sub, success, reached>>

\* set_sim_state puts a saved pose into the data of a state and derives its
\* fields; the metrics of that state stay.
SetSimState ==
  /\ api = "mjx" /\ sub = 0 /\ made
  /\ near' \in saved
  /\ seen' = near'
  /\ reached' = [w \in Worlds |-> reached[w] \/ near'[w]]
  /\ raw' = FALSE
  /\ kin' = 0 /\ dyn' = 0
  /\ goal' = Lost /\ mass' = Lost
  /\ UNCHANGED <<api, task, made, first, sub, success, saved>>

-----------------------------------------------------------------------------
(* The control step. *)

\* WarpEnv can be stepped and rendered before any set_state.
Steppable == made \/ api = "warp"

\* mjwarp.forward on WarpEnv's own buffer; where, if not there, nothing happens.
Forward(there) ==
  IF there THEN kin' = 0 /\ dyn' = 0 /\ seen' = near
           ELSE UNCHANGED <<kin, dyn, seen>>

\* The mass matrix that step copies for all its substeps.
CopiedMass_Once == IF first THEN dyn' ELSE mass
CopiedMass == dyn'

\* step sets its goal from site_xpos and site_xmat.  WarpEnv runs a forward pass
\* before its first step ever, and copies the mass matrix.
BeginStep ==
  /\ sub = 0 /\ Steppable
  /\ sub' = NSub
  /\ Forward(api = "warp" /\ first)
  /\ first' = (first /\ api # "warp")
  /\ goal' = kin'
  /\ mass' = IF api = "warp" THEN CopiedMass ELSE mass
  /\ UNCHANGED <<api, task, made, raw, near, success, reached, saved>>

\* One substep: torques, then a physics step.  The last one is followed by
\* the success predicate, which reads xpos.
Substep ==
  /\ sub > 0
  /\ sub' = sub - 1
  /\ seen' = near
  /\ near' \in Flags
  /\ reached' = [w \in Worlds |-> reached[w] \/ near'[w]]
  /\ raw' = FALSE
  /\ kin' = 1 /\ dyn' = 1
  /\ goal' = Older(goal) /\ mass' = Older(mass)
  /\ success' = IF sub = 1 THEN SuccessOf(seen') ELSE success
  /\ UNCHANGED <<api, task, made, first, saved>>

\* WarpRenderer.render runs a forward pass on the data it is given: WarpEnv's
\* own buffer, or a buffer of the renderer with a copy of an mjx pose.
Render ==
  /\ sub = 0 /\ Steppable
  /\ Forward(api = "warp")
  /\ UNCHANGED <<api, task, made, raw, near, goal, mass, first, sub, success,
                 reached, saved>>

-----------------------------------------------------------------------------
\* The torques of a substep mix the current qpos and qvel with derived fields.
\* Those lag behind by one pose at most; the goal, and the masses that WarpEnv
\* copied, are of this very control step: of the pose it began with or the one
\* before.  No order of resets, restores, renders and steps leads to older ones
\* or to those of another episode.  Only the first substep of a batch_reset state
\* differs, in the fields batch_reset leaves out.
TorquesAreCoherent ==
  sub > 0 =>
    /\ kin <= 1
    /\ raw \/ dyn <= 1
    /\ goal <= NSub - sub + 1
    /\ api = "warp" => mass <= NSub - sub + 1
=============================================================================
