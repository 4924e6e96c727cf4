------------------------------- MODULE Harness -------------------------------
(***************************************************************************)
(* harness/harness.py: the outer loop of a run, with what it keeps in      *)
(* memory (HarnessRunState), in the run directory (state.json,             *)
(* iter_NNN.json, rollout_*.json) and in the archival store, over the      *)
(* compute tools of harness/tools/registry.py.  The process may be         *)
(* interrupted or killed, and later runs share the directory.              *)
(*                                                                         *)
(* The language model is external: it may decide anything its schema lets  *)
(* through, its calls may raise, and its sub-agents may or may not use     *)
(* their tools.                                                            *)
(***************************************************************************)
EXTENDS Naturals, Sequences, SequencesExt

CONSTANTS
  Suites, TaskIds,
  MaxIterations,  \* cfg.max_iterations
  ExtraOptions,   \* options the scripts of repo_root take that these lack
  Reporting,      \* compute tools whose script prints a complete result line
  OtherCkpts,     \* names a result line may give a checkpoint, besides Latest
  Present,        \* the checkpoints somebody put there
  Leftovers,      \* the suite and task of the earlier run there, or None
  None,           \* an absent value
  Torn            \* a file that was truncated and not (wholly) written

Agents  == {"rollout", "design_reward", "set_curriculum", "tune_hp"}
Actions == Agents \cup {"train", "eval", "stop", "unknown"}
Rates   == 0 .. 2            \* success rates of an evaluation
Forms   == {"whole", "refused", "torn"}
Tools   == {"run_rollout", "train_bc", "eval_policy"}
RunIds  == {"earlier", "this"}
Finals  == {"error", "stopped", "interrupted", "max_iterations"}

\* train_<suite>_<task>_latest.pth, and the checkpoints there can be.
Latest(s, t) == <<s, t>>
Ckpts == {Latest(s, t) : s \in Suites, t \in TaskIds} \cup OtherCkpts

ASSUME HarnessAssumption ==
  /\ MaxIterations \in Nat
  /\ Leftovers \subseteq (Suites \X TaskIds) \cup {None}
  /\ Reporting \subseteq Tools
  /\ Present \subseteq Ckpts

VARIABLES
  pc,        \* where the process is
  i,         \* the loop counter
  it,        \* the IterationResult under construction, with what was decided
  st,        \* self.state
  open,      \* the file being saved is truncated and not yet written
  saved,     \* state.json
  iters,     \* the iter_NNN.json files
  rollouts,  \* the rollout_*.json files, oldest first
  archive,   \* kinds of the archival notes this run wrote
  cut        \* history: the run was killed while state.json was truncated

vars == <<pc, i, it, st, open, saved, iters, rollouts, archive, cut>>

\* A rollout file says what it measured, a success rate below a half or not, in
\* the fields RolloutMetrics asks for or not; a script killed while it saves one
\* leaves it torn.
Rollouts == [run : RunIds, iteration : 0 .. MaxIterations,
             low : BOOLEAN, form : Forms]
Evals == [ckpt : Ckpts, rate : Rates]
Results == [iteration : 0 .. MaxIterations, action : Actions, suite : Suites,
            task : TaskIds, rollout : Rollouts \cup {None}, train : BOOLEAN,
            eval : Evals \cup {None},
            note : {"", "refused", "failed", "blocked"}]

\* The state of a run, and what of it reaches state.json.
States == [run : RunIds, status : Finals \cup {"running"},
           iterations : Seq(Results), suite : Suites, task : TaskIds,
           best : Rates, bestCkpt : Ckpts \cup {None}, error : BOOLEAN]

\* An absent value is none of these.
ASSUME NoneAssumption ==
  /\ None # Torn
  /\ \A x \in {None, Torn} :
       x \notin States \cup Results \cup Rollouts \cup Evals \cup Ckpts

\* Where run() saves the state, and where a turn is.
StateSaves == {"start", "unreachable", "savestate", "final"}
Inside == {"act", "load", "critique", "record", "saveiter", "transcript",
           "savestate"}

TypeOK ==
  /\ pc \in {"out", "ping", "top", "returned"} \cup StateSaves \cup Inside
  /\ i \in 0 .. MaxIterations
  /\ it = None \/ it \in Results
  /\ \A s \in {st, saved} : s \notin {None, Torn} =>
       s \in States /\ Len(s.iterations) <= MaxIterations
  /\ st # Torn
  /\ open => pc \in StateSaves \cup {"saveiter"}
  /\ \A n \in 0 .. MaxIterations - 1 : iters[n] \in Results \cup {None, Torn}
  /\ rollouts \in Seq(Rollouts)
  /\ archive \subseteq {"reward_variant", "curriculum", "hp", "reflection",
                         "lesson"}
  /\ cut \in BOOLEAN

\* What an earlier run left in the directory: it measured a rollout, evaluated a
\* policy and saved its state, or was killed doing so.
OldRollout == [run |-> "earlier", iteration |-> 0, low |-> TRUE, form |-> "whole"]
OldResult(suite, task) ==
  [iteration |-> 0, action |-> "eval", suite |-> suite, task |-> task,
   rollout |-> None, train |-> FALSE,
   eval |-> [ckpt |-> Latest(suite, task), rate |-> 2], note |-> ""]
OldState(suite, task) ==
  [run |-> "earlier", status |-> "running",
   iterations |-> <<OldResult(suite, task)>>, suite |-> suite, task |-> task,
   best |-> 2, bestCkpt |-> Latest(suite, task), error |-> FALSE]

Init ==
  /\ pc = "out" /\ i = 0
  /\ it = None /\ st = None
  /\ open = FALSE /\ cut = FALSE
  /\ archive = {}
  /\ \E left \in Leftovers :
       IF left = None
       THEN /\ saved = None
            /\ iters = [n \in 0 .. MaxIterations - 1 |-> None]
            /\ rollouts = << >>
       ELSE /\ saved \in {OldState(left[1], left[2]), Torn}
            /\ iters = [n \in 0 .. MaxIterations - 1 |->
                         IF n = 0 THEN OldResult(left[1], left[2]) ELSE None]
            /\ rollouts = <<OldRollout>>

-----------------------------------------------------------------------------
(* Harness.run *)

\* _save_state: state.json is opened for writing, which empties it, and then
\* written.  What the four saves of run() are followed by is AfterSave.
AfterSave == CASE pc = "start"     -> "ping"
               [] pc = "savestate" -> "top"
               [] pc \in {"unreachable", "final"} -> "returned"

OpenState ==
  /\ pc \in StateSaves /\ ~open
  /\ saved' = Torn
  /\ open' = TRUE
  /\ UNCHANGED <<pc, i, it, st, iters, rollouts, archive, cut>>

WriteState ==
  /\ pc \in StateSaves /\ open
  /\ saved' = st
  /\ open' = FALSE
  /\ pc' = AfterSave
  /\ i' = IF pc = "savestate" THEN i + 1 ELSE i
  /\ it' = None
  /\ UNCHANGED <<st, iters, rollouts, archive, cut>>

\* A run starts from a new state and saves it before anything else: a kill
\* before the file is opened leaves what one before the run leaves.
Started_Unsaved == pc' = "ping" /\ UNCHANGED <<open, saved>>
Started == pc' = "start" /\ open' = TRUE /\ saved' = Torn

Run(s, t) ==
  /\ pc = "out" /\ st = None
  /\ st' = [run |-> "this", status |-> "running", iterations |-> << >>,
            suite |-> s, task |-> t, best |-> 0, bestCkpt |-> None,
            error |-> FALSE]
  /\ Started
  /\ i' = 0
  /\ UNCHANGED <<it, iters, rollouts, archive, cut>>

PingOk ==
  /\ pc = "ping"
  /\ pc' = "top"
  /\ UNCHANGED <<i, it, st, open, saved, iters, rollouts, archive, cut>>

PingFails ==
  /\ pc = "ping"
  /\ st' = [st EXCEPT !.status = "error", !.error = TRUE]
  /\ pc' = "unreachable"
  /\ UNCHANGED <<i, it, open, saved, iters, rollouts, archive, cut>>

NewResult(a, s, t) ==
  [iteration |-> i, action |-> a, suite |-> s, task |-> t,
   rollout |-> None, train |-> FALSE, eval |-> None, note |-> ""]

\* HarnessRunState.add: the best success rate and the checkpoint that had it.
Better_OrEqual(r) == r.eval # None /\ r.eval.rate >= st.best
Better(r) == r.eval # None /\ r.eval.rate > st.best
Added(r) ==
  [st EXCEPT !.iterations = Append(@, r),
             !.best = IF Better(r) THEN r.eval.rate ELSE @,
             !.bestCkpt = IF Better(r) THEN r.eval.ckpt ELSE @]

\* The decision: a suite or task the supervisor leaves out is the current one.
Focus_Given(named, current) == named
Focus(named, current) == IF named = None THEN current ELSE named

Decide(a, s, t) ==
  LET r == NewResult(a, Focus(s, st.suite), Focus(t, st.task)) IN
  /\ pc = "top" /\ i < MaxIterations
  /\ a # "stop"
  /\ it' = r
  /\ pc' = "act"
  /\ UNCHANGED <<i, st, open, saved, iters, rollouts, archive, cut>>

\* Every way out of the loop leads to the last save.
LeaveLoop_Return == pc' = "returned"
LeaveLoop == pc' = "final"

\* "stop" records its iteration and leaves the loop.
Stop(s, t) ==
  LET r == NewResult("stop", Focus(s, st.suite), Focus(t, st.task)) IN
  /\ pc = "top" /\ i < MaxIterations
  /\ st' = [Added(r) EXCEPT !.status = "stopped"]
  /\ LeaveLoop
  /\ UNCHANGED <<i, it, open, saved, iters, rollouts, archive, cut>>

\* An exception of a model call, of the parsing of a result or of the writing
\* of a file: error and lesson are kept, and the loop goes on without a save.
\* The iter_NNN.json that was being written stays torn.
NextTurn_Retry(n) == n
NextTurn(n) == n + 1
InIteration ==
  \/ pc \in Inside \ {"record", "savestate"}
  \/ pc = "top" /\ i < MaxIterations

Raises ==
  /\ InIteration
  /\ st' = [st EXCEPT !.error = TRUE]
  /\ archive' = archive \cup {"lesson"}
  /\ i' = NextTurn(i)
  /\ pc' = "top"
  /\ it' = None /\ open' = FALSE
  /\ UNCHANGED <<saved, iters, rollouts, cut>>

Interrupt ==
  /\ InIteration
  /\ st' = [st EXCEPT !.status = "interrupted"]
  /\ LeaveLoop
  /\ it' = None /\ open' = FALSE
  /\ UNCHANGED <<i, saved, iters, rollouts, archive, cut>>

LoopEnds ==
  /\ pc = "top" /\ i = MaxIterations
  /\ st' = [st EXCEPT !.status = "max_iterations"]
  /\ LeaveLoop
  /\ UNCHANGED <<i, it, open, saved, iters, rollouts, archive, cut>>

\* The process is killed, or an exception leaves run().
Kill ==
  /\ pc \notin {"out", "returned"}
  /\ pc' = "out"
  /\ it' = None /\ open' = FALSE
  /\ cut' = (open /\ pc \in StateSaves)
  /\ UNCHANGED <<i, st, saved, iters, rollouts, archive>>

-----------------------------------------------------------------------------
(* The tools: a script exits at once when it is given an option it does not *)
(* know.                                                                    *)

Passed(tool) ==
  {"suite", "task-id", "seed", "run-id", "run-dir"} \cup
  CASE tool = "run_rollout" -> {"n-envs", "max-steps", "ckpt"}
    [] tool = "train_bc"    -> {"epochs", "batch-size", "lr", "save"}
    [] tool = "eval_policy" -> {"ckpt", "n-eval", "max-steps"}
WarpOptions  == {"suite", "task-id", "ckpt", "n-eval", "max-steps", "seed",
                 "brightness", "run-id", "run-dir"}
TrainOptions == {"suite", "task-id", "epochs", "batch-size", "lr", "save",
                 "device", "seed", "augment", "aug-strength"}
EvalOptions  == {"suite", "task-id", "ckpt", "n-eval", "max-steps", "device",
                 "seed", "output"}
Accepted(tool) ==
  ExtraOptions \cup CASE tool = "run_rollout" -> WarpOptions
                      [] tool = "train_bc"    -> TrainOptions
                      [] tool = "eval_policy" -> EvalOptions
Takes(tool) == Passed(tool) \subseteq Accepted(tool)

Acting(a) == pc = "act" /\ it.action = a
Noted(why) ==
  /\ it' = [it EXCEPT !.note = why]
  /\ pc' = "record"
  /\ UNCHANGED <<i, st, open, saved, iters, rollouts, archive, cut>>

\* The Rollout Analyst runs a rollout of what it chooses, or none succeeds.
Measure(low, form) ==
  /\ Acting("rollout")
  /\ form # "whole" => low         \* nobody reads the rate of such a file
  /\ Takes("run_rollout")
  /\ rollouts' = Append(rollouts,
                        [run |-> "this", iteration |-> i,
                         low |-> low, form |-> form])
  /\ pc' = "load"
  /\ UNCHANGED <<i, it, st, open, saved, iters, archive, cut>>

NoMeasurement ==
  /\ Acting("rollout")
  /\ pc' = "load"
  /\ UNCHANGED <<i, it, st, open, saved, iters, rollouts, archive, cut>>

\* _maybe_load_rollout takes the newest file of the directory: a torn one
\* raises, one whose fields RolloutMetrics refuses counts as none.  A low rate
\* asks the analyst for a reflection.
LoadRollout(reflects) ==
  LET newest == IF rollouts = << >> THEN None ELSE Last(rollouts)
      loaded == IF newest # None /\ newest.form = "whole" THEN newest ELSE None IN
  /\ pc = "load"
  /\ newest # None => newest.form # "torn"
  /\ it' = [it EXCEPT !.rollout = loaded]
  /\ archive' = archive \cup {k \in {"reflection"} :
                            loaded # None /\ loaded.low /\ reflects}
  /\ pc' = "record"
  /\ UNCHANGED <<i, st, open, saved, iters, rollouts, cut>>

\* The agents that only write to the archive: the Reward Designer, whose
\* proposal then goes to the critic, the Curriculum Planner and the HP Tuner.
NoteKind(a) == CASE a = "design_reward" -> "reward_variant"
                 [] a = "set_curriculum" -> "curriculum"
                 [] a = "tune_hp" -> "hp"

Propose(a, writes) ==
  /\ a \in {"design_reward", "set_curriculum", "tune_hp"}
  /\ Acting(a)
  /\ archive' = archive \cup {k \in {NoteKind(a)} : writes}
  /\ pc' = IF a = "design_reward" THEN "critique" ELSE "record"
  /\ UNCHANGED <<i, it, st, open, saved, iters, rollouts, cut>>

Critique(approved) ==
  /\ pc = "critique"
  /\ Noted(IF approved THEN "" ELSE "blocked")

\* A script that ran without a result line leaves a dict TrainResult or
\* EvalResult refuses: that is Raises.
Train(ok) ==
  /\ Acting("train")
  /\ IF ~Takes("train_bc") THEN Noted("refused")
     ELSE IF ~ok THEN Noted("failed")
     ELSE /\ "train_bc" \in Reporting
          /\ it' = [it EXCEPT !.train = TRUE]
          /\ pc' = "record"
          /\ UNCHANGED <<i, st, open, saved, iters, rollouts, archive, cut>>

\* Evaluation takes the best checkpoint or, when no rate was better than 0, the
\* latest of the suite and task; what becomes the best one is the name the
\* script's result line gives, which need not be the path it was given.
EvalCkpt ==
  IF st.bestCkpt # None THEN st.bestCkpt ELSE Latest(it.suite, it.task)

Eval(ok, rate, name) ==
  /\ Acting("eval")
  /\ name \in {EvalCkpt} \cup OtherCkpts
  /\ IF ~Takes("eval_policy") THEN Noted("refused")
     ELSE IF ~ok \/ EvalCkpt \notin Present THEN Noted("failed")
     ELSE /\ "eval_policy" \in Reporting
          /\ it' = [it EXCEPT !.eval = [ckpt |-> name, rate |-> rate]]
          /\ pc' = "record"
          /\ UNCHANGED <<i, st, open, saved, iters, rollouts, archive, cut>>

UnknownAction ==
  /\ Acting("unknown")
  /\ pc' = "record"
  /\ UNCHANGED <<i, it, st, open, saved, iters, rollouts, archive, cut>>

-----------------------------------------------------------------------------
(* The end of an iteration. *)

Record ==
  /\ pc = "record"
  /\ st' = Added(it)
  /\ pc' = "saveiter"
  /\ UNCHANGED <<i, it, open, saved, iters, rollouts, archive, cut>>

\* iter_NNN.json is emptied and written like state.json.
OpenIteration ==
  /\ pc = "saveiter" /\ ~open
  /\ iters' = [iters EXCEPT ![i] = Torn]
  /\ open' = TRUE
  /\ UNCHANGED <<pc, i, it, st, saved, rollouts, archive, cut>>

WriteIteration ==
  /\ pc = "saveiter" /\ open
  /\ iters' = [iters EXCEPT ![i] = it]
  /\ open' = FALSE
  /\ pc' = "transcript"
  /\ UNCHANGED <<i, it, st, saved, rollouts, archive, cut>>

\* After the transcripts, which may raise, a suite or task the supervisor named
\* becomes the current one; the result already carries the current one where it
\* named none.
MoveFocus ==
  /\ pc = "transcript"
  /\ st' = [st EXCEPT !.suite = it.suite, !.task = it.task]
  /\ pc' = "savestate"
  /\ UNCHANGED <<i, it, open, saved, iters, rollouts, archive, cut>>

Targets == (Suites \cup {None}) \X (TaskIds \cup {None})

LoopStep ==
  \/ PingOk \/ PingFails
  \/ \E target \in Targets :
       \/ \E a \in Actions : Decide(a, target[1], target[2])
       \/ Stop(target[1], target[2])
  \/ Raises \/ LoopEnds
  \/ \E low \in BOOLEAN, form \in Forms : Measure(low, form)
  \/ NoMeasurement
  \/ \E b \in BOOLEAN :
       \/ LoadRollout(b)
       \/ \E a \in Agents : Propose(a, b)
       \/ Critique(b)
       \/ Train(b)
       \/ \E rate \in Rates, name \in Ckpts : Eval(b, rate, name)
  \/ UnknownAction
  \/ Record \/ OpenIteration \/ WriteIteration \/ MoveFocus
  \/ OpenState \/ WriteState

Next ==
  \/ \E s \in Suites, t \in TaskIds : Run(s, t)
  \/ LoopStep
  \/ Interrupt \/ Kill

Spec == Init /\ [][Next]_vars

\* Model calls and scripts have timeouts, so the loop always takes its step.
FairSpec == Spec /\ WF_vars(LoopStep)

-----------------------------------------------------------------------------
(* Properties *)

\* A run that has returned, whichever way, left its last state in state.json,
\* and that state does not say "running".
FinalStateSaved == pc = "returned" => saved = st /\ saved.status \in Finals

\* state.json is torn only while it is being saved, or because the run was killed
\* in a save; otherwise it never shows another run than the current one, and what
\* it shows is how that run began: a killed run loses a suffix of its iterations,
\* and the best rate it shows was reached.
SavedIsPrefix ==
  st # None =>
    IF saved = Torn THEN open \/ cut
    ELSE /\ saved # None /\ saved.run = "this"
         /\ IsPrefix(saved.iterations, st.iterations)
         /\ saved.best <= st.best

\* best_ckpt is the checkpoint that first reached best_success_rate among the
\* evaluations of this run, and no evaluation was better.
BestIsFirst ==
  st # None =>
    LET evals == {k \in DOMAIN st.iterations : st.iterations[k].eval # None}
        rate(k) == st.iterations[k].eval.rate IN
    /\ \A k \in evals : rate(k) <= st.best
    /\ IF st.best = 0 THEN st.bestCkpt = None
       ELSE \E k \in evals :
              /\ rate(k) = st.best /\ st.iterations[k].eval.ckpt = st.bestCkpt
              /\ \A j \in evals : j < k => rate(j) < st.best

\* A run ends after at most max_iterations turns, whatever raises.
RunEnds == (pc # "out") ~> (pc \in {"out", "returned"})

\* "We re-read the latest rollout file from the run dir as the source of
\* truth": the rollout of an iteration is the one its agent ran.
RolloutIsFresh ==
  st # None => \A k \in DOMAIN st.iterations :
    LET r == st.iterations[k].rollout IN
    r # None => r.run = "this" /\ r.iteration = st.iterations[k].iteration
=============================================================================
