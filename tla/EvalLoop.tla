------------------------------ MODULE EvalLoop ------------------------------
(***************************************************************************)
(* The GPU evaluation loops, scripts/eval_warp_only.py and bench_warp of   *)
(* scripts/benchmark_eval.py over LiberoEnv, scripts/eval_warp_native.py   *)
(* over WarpEnv, examples/libero_quickstart.py, which steps LiberoEnv a    *)
(* fixed number of times, and, as one more client, a user who calls the    *)
(* environments in any legal order.                                        *)
(***************************************************************************)
EXTENDS EnvEpisode, FiniteSetsExt

CONSTANTS
  Interval,    \* CHECK_INTERVAL: control steps between two success checks
  Warmup,      \* zero-action steps before the loop
  StepLimits   \* values of --max-steps

ASSUME LoopAssumption ==
  /\ Interval \in Nat \ {0}
  /\ Warmup \in Nat
  /\ StepLimits \subseteq Nat \ {0}

VARIABLES
  script,    \* one of Scripts
  maxSteps,  \* --max-steps, or STEPS
  pc,        \* where the script is
  warm,      \* warm-up steps made
  iter,      \* control steps of the loop: the native loop counter
  steps,     \* per world, the steps counted before it was done
  done,      \* per world, the script's done flag
  held,      \* history: for how many steps success has held, up to Interval
  report     \* the worlds the script counts as successful in the end

Scripts == {"warp_only", "bench", "native", "quickstart",
            "none"}   \* the user

loopVars == <<script, maxSteps, pc, warm, iter, steps, done, held, report>>
vars == <<envVars, loopVars>>

AllDone == \A w \in Worlds : done[w]
MostSteps == Max({steps[w] : w \in Worlds})

TypeOK ==
  /\ EnvTypeOK
  /\ script \in Scripts
  /\ maxSteps \in StepLimits
  /\ pc \in {"setup", "warm", "loop", "act", "step", "reported", "crashed"}
  /\ warm \in 0 .. Warmup
  /\ iter \in 0 .. maxSteps
  /\ steps \in [Worlds -> 0 .. maxSteps]
  /\ done \in Flags
  /\ held \in [Worlds -> 0 .. Interval]
  /\ report \subseteq Worlds

\* STEPS of the native script is a multiple of its check interval.
Init ==
  /\ EnvInit
  /\ script \in Scripts
  /\ maxSteps \in StepLimits
  /\ script \in {"warp_only", "bench", "quickstart"} => api = "mjx"
  /\ script = "native" => api = "warp" /\ maxSteps % Interval = 0
  /\ pc = "setup"
  /\ warm = 0 /\ iter = 0
  /\ steps = [w \in Worlds |-> 0]
  /\ done = [w \in Worlds |-> FALSE]
  /\ held = [w \in Worlds |-> 0]
  /\ report = {}

-----------------------------------------------------------------------------
\* The initial states of the benchmark: one batched state, or the buffer.
Setup ==
  /\ pc = "setup"
  /\ \/ script \in {"warp_only", "bench"} /\ MakeState /\ pc' = "warm"
     \/ script = "native" /\ SetState /\ pc' = "loop"
  /\ UNCHANGED <<script, maxSteps, warm, iter, steps, done, held, report>>

\* Each world of the example starts from a pose of the init file, or from the
\* home pose when the task has no such file.
QuickSetup ==
  /\ pc = "setup"
  /\ MakeState
  /\ pc' = "warm"
  /\ UNCHANGED <<script, maxSteps, warm, iter, steps, done, held, report>>

\* Zero actions, or in the example those for an image: rendering an mjx state
\* leaves it alone.
WarmStep ==
  /\ pc = "warm" /\ warm < Warmup
  /\ BeginStep
  /\ warm' = warm + 1
  /\ UNCHANGED <<script, maxSteps, pc, iter, steps, done, held, report>>

WarmDone ==
  /\ pc = "warm" /\ warm = Warmup /\ sub = 0
  /\ pc' = "loop"
  /\ UNCHANGED <<envVars, script, maxSteps, warm, iter, steps, done, held,
                 report>>

LoopGoesOn_AnyDone == (\A w \in Worlds : ~done[w]) /\ MostSteps < maxSteps
LoopGoesOn_NoLimit == ~AllDone
LoopGoesOn ==
  /\ ~AllDone
  /\ IF script \in {"native", "quickstart"} THEN iter < maxSteps
                                            ELSE MostSteps < maxSteps

\* Images and joint states for the policy.
Observe ==
  /\ pc = "loop" /\ LoopGoesOn
  /\ Render
  /\ pc' = "act"
  /\ UNCHANGED <<script, maxSteps, warm, iter, steps, done, held, report>>

Act ==
  /\ pc = "act"
  /\ BeginStep
  /\ pc' = "step"
  /\ UNCHANGED <<script, maxSteps, warm, iter, steps, done, held, report>>

Physics == pc \in {"warm", "step"} /\ Substep /\ UNCHANGED loopVars

Counted_Done(w) == IF done[w] THEN steps[w] + 1 ELSE steps[w]
Counted(w) == IF done[w] THEN steps[w] ELSE steps[w] + 1

\* The number of the control step just made, recovered from the counts.
CurStep_Min == Min({steps[w] : w \in Worlds}) + 1
CurStep == MostSteps + 1

Checks ==
  IF script = "native"
  THEN (iter + 1) % Interval = 0
  ELSE CurStep % Interval = 0 \/ \A w \in Worlds : steps'[w] >= maxSteps

Settles_AtLimit(w) == steps'[w] >= maxSteps
Settles(w) == success[w] \/ steps'[w] >= maxSteps

\* Counting after a control step and, at a check, the done flags.  Reading an
\* array where a truth value is expected raises.  iter is bounded by maxSteps.
Account ==
  /\ pc = "step" /\ sub = 0
  /\ iter' = IF iter < maxSteps THEN iter + 1 ELSE iter
  /\ steps' = [w \in Worlds |-> Counted(w)]
  /\ held' = [w \in Worlds |-> IF ~success[w] THEN 0
                               ELSE IF held[w] < Interval THEN held[w] + 1
                               ELSE Interval]
  /\ IF Checks
     THEN /\ done' = [w \in Worlds |-> done[w] \/ (~Malformed(task) /\ Settles(w))]
          /\ pc' = IF Malformed(task) THEN "crashed" ELSE "loop"
     ELSE pc' = "loop" /\ UNCHANGED done
  /\ UNCHANGED <<envVars, script, maxSteps, warm, report>>

\* The example checks nothing on its way.  held belongs to the scripts that do.
QuickAccount ==
  /\ pc = "step" /\ sub = 0
  /\ iter' = iter + 1
  /\ steps' = [w \in Worlds |-> steps[w] + 1]
  /\ pc' = "loop"
  /\ UNCHANGED <<envVars, script, maxSteps, warm, done, held, report>>

\* It counts truth values, also those of a predicate that yields an array.
QuickReport ==
  /\ pc = "loop" /\ ~LoopGoesOn
  /\ report' \in IF Malformed(task) THEN SUBSET Worlds
                 ELSE {{w \in Worlds : success[w]}}
  /\ pc' = "reported"
  /\ UNCHANGED <<envVars, script, maxSteps, warm, iter, steps, done, held>>

\* The final count is taken from the last state, whatever the done flags say.
Report ==
  /\ script # "bench"
  /\ pc = "loop" /\ ~LoopGoesOn
  /\ report' = {w \in Worlds : success[w]}
  /\ pc' = IF Malformed(task) THEN "crashed" ELSE "reported"
  /\ UNCHANGED <<envVars, script, maxSteps, warm, iter, steps, done, held>>

\* The benchmark wants the time and the number of steps only.
BenchEnds ==
  /\ script = "bench"
  /\ pc = "loop" /\ ~LoopGoesOn
  /\ pc' = "reported"
  /\ UNCHANGED <<envVars, script, maxSteps, warm, iter, steps, done, held, report>>

LoopStep == Observe \/ Act \/ Physics

ScriptStep ==
  /\ script \in {"warp_only", "native"}
  /\ Setup \/ WarmStep \/ WarmDone \/ LoopStep \/ Account \/ Report

BenchStep ==
  /\ script = "bench"
  /\ Setup \/ WarmStep \/ WarmDone \/ LoopStep \/ Account \/ BenchEnds

QuickStep ==
  /\ script = "quickstart"
  /\ QuickSetup \/ WarmStep \/ WarmDone \/ LoopStep \/ QuickAccount \/ QuickReport

\* The calls a user of the environments can make.
UserStep ==
  /\ script = "none"
  /\ \/ Reset \/ SpatialReset \/ BatchReset \/ SetState \/ GetSimState \/ SetSimState
     \/ BeginStep \/ Substep \/ Render
  /\ UNCHANGED loopVars

Next == ScriptStep \/ BenchStep \/ QuickStep \/ UserStep

\* The script runs: the policy and the simulator return.
Spec == Init /\ [][Next]_vars /\ WF_vars(ScriptStep \/ BenchStep \/ QuickStep)

-----------------------------------------------------------------------------
\* The loop never stores the number of its step; what it recovers from the
\* counts is right although the counts of finished worlds stand still.
CurStepIsStep == pc = "step" => CurStep = iter + 1

\* A success that lasts is noticed: a world that has been successful for as
\* many steps as lie between two checks is done.
HeldSuccessNoticed ==
  \A w \in Worlds : pc = "loop" /\ held[w] = Interval => done[w]

\* No world is given up: at the end each is done or has had all its steps.
NoneAbandoned ==
  pc = "reported" => \A w \in Worlds : done[w] \/ steps[w] = maxSteps

\* With a goal that was found, a world that is reported successful had its
\* object at the target during this evaluation.
ReportIsReached ==
  task.obj /\ task.target => \A w \in report : reached[w]

\* Every evaluation ends, with a report or with an exception.
EvalEnds == script # "none" => <>(pc \in {"reported", "crashed"})
=============================================================================
