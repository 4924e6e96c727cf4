------------------------------ MODULE TlbModule ------------------------------
(***************************************************************************)
(* Loading and unloading kmod/mempool_tlbfix.c: the srcversion guard, the  *)
(* order in which tlbfix_init arms its hooks and what it undoes when one   *)
(* fails, tlbfix_exit, and the tasks that run inside hooked_* meanwhile.   *)
(*                                                                         *)
(* kprobe and ftrace registration, Tasks RCU and the freeing of module     *)
(* text are the kernel's: synchronize_rcu_tasks returns once every task    *)
(* that was running has gone through a voluntary context switch.           *)
(***************************************************************************)
EXTENDS Integers, Sequences

CONSTANT Tasks

Ftrace  == {"map", "unmap", "gemupd"}
Kprobes == {"update", "compute", "gmc"}
Hooks   == Ftrace \cup Kprobes
Modes   == {"syncmap", "remapflush", "syncflush", "both", "fence", "other"}

VARIABLES
  srcversion,  \* of the running amdgpu: "expected", "different", "unreadable"
  strict,      \* module parameter "strict_srcversion"
  allHub,      \* module parameter "force_all_hub"
  mode,        \* module parameter "mode"
  phase,       \* where tlbfix_init or tlbfix_exit is
  step,        \* position in the list of hooks to arm or to remove
  failing,     \* the removal is the error path of tlbfix_init
  armed,       \* the armed_* flags
  registered,  \* what the kernel has registered for this module
  holdouts,    \* tasks synchronize_rcu_tasks still waits for
  text,        \* the module's code is mapped
  at,          \* where each task is: outside, or inside a replacement
  fn,          \* the replacement a task is inside
  asleep,      \* tasks that gave up the CPU voluntarily
  slept        \* history: tasks that did so since they entered

modVars  == <<mode, phase, step, failing, armed, registered, holdouts, text>>
envVars  == <<srcversion, strict, allHub>>
taskVars == <<at, fn, asleep, slept>>
vars == <<envVars, modVars, taskVars>>

\* What tlbfix_init arms, in its order; "resolve" looks the symbols up.
ArmList ==
  CASE mode = "syncmap" -> <<"update", "resolve", "map", "unmap", "gemupd">>
    [] mode \in {"remapflush", "fence"} -> <<"update">>
    [] mode = "syncflush" -> <<"compute", "gmc">>
    [] mode = "both" -> <<"update", "compute", "gmc">>
    [] OTHER -> << >>

\* What the error path and tlbfix_exit remove, in their common order, and
\* four orders they could have been given by mistake.
RemoveList_FixFirst ==
  <<"update", "map", "unmap", "gemupd", "sync", "compute", "gmc">>
RemoveList_NoGmc ==
  <<"map", "unmap", "gemupd", "sync", "compute", "update">>
RemoveList_Twice ==
  <<"map", "unmap", "gemupd", "sync", "compute", "gmc", "gmc", "update">>
RemoveList_SyncLast ==
  <<"map", "unmap", "gemupd", "compute", "gmc", "update", "sync">>
RemoveList == <<"map", "unmap", "gemupd", "sync", "compute", "gmc", "update">>

TypeOK ==
  /\ srcversion \in {"expected", "different", "unreadable"}
  /\ strict \in BOOLEAN /\ allHub \in BOOLEAN /\ mode \in Modes
  /\ phase \in {"out", "check", "arming", "in", "removing"}
  /\ step \in 1 .. 8
  /\ failing \in BOOLEAN
  /\ armed \in SUBSET Hooks /\ registered \in SUBSET Hooks
  /\ holdouts \in SUBSET Tasks
  /\ text \in BOOLEAN
  /\ at \in [Tasks -> {"outside", "entered", "orig", "back"}]
  /\ fn \in [Tasks -> Ftrace]
  /\ asleep \in SUBSET Tasks /\ slept \in SUBSET Tasks

Init ==
  /\ srcversion \in {"expected", "different", "unreadable"}
  /\ strict \in BOOLEAN /\ allHub \in BOOLEAN
  /\ mode = "other"
  /\ phase = "out" /\ step = 1 /\ failing = FALSE
  /\ armed = {} /\ registered = {}
  /\ holdouts = {}
  /\ text = FALSE
  /\ at = [t \in Tasks |-> "outside"]
  /\ fn = [t \in Tasks |-> "map"]
  /\ asleep = {} /\ slept = {}

-----------------------------------------------------------------------------
(* Loading. *)

\* insmod maps the text with every static variable reset and enters
\* tlbfix_init.
Insmod(m) ==
  /\ phase = "out"
  /\ mode' = m
  /\ phase' = "check"
  /\ text' = TRUE
  /\ armed' = {}
  /\ UNCHANGED <<envVars, step, failing, registered, holdouts, taskVars>>

\* check_srcversion refuses a readable, different version when strict.
SrcversionOk == ~(srcversion = "different" /\ strict)

\* tlbfix_init returns an error before it has armed anything.
LoadRefused ==
  /\ phase = "check"
  /\ mode = "other" \/ ~SrcversionOk
  /\ phase' = "out"
  /\ text' = FALSE
  /\ UNCHANGED <<envVars, mode, step, failing, armed, registered, holdouts,
                 taskVars>>

CheckPassed ==
  /\ phase = "check"
  /\ mode # "other" /\ SrcversionOk
  /\ phase' = "arming" /\ step' = 1
  /\ UNCHANGED <<envVars, mode, failing, armed, registered, holdouts, text,
                 taskVars>>

Arming(what) ==
  phase = "arming" /\ step <= Len(ArmList) /\ ArmList[step] = what

\* register_kprobe, or ftrace_set_filter_ip and register_ftrace_function of
\* arm_one, succeeds.
ArmHook(h) ==
  /\ Arming(h)
  /\ h = "gmc" => allHub
  /\ registered' = registered \cup {h}
  /\ armed' = armed \cup {h}
  /\ step' = step + 1
  /\ UNCHANGED <<envVars, mode, phase, failing, holdouts, text, taskVars>>

\* install_ftrace_wrapper finds its symbols.
Resolve ==
  /\ Arming("resolve")
  /\ step' = step + 1
  /\ UNCHANGED <<envVars, mode, phase, failing, armed, registered, holdouts,
                 text, taskVars>>

\* The gmc kprobe is optional: not asked for, or it fails with a warning.
GmcSkipped ==
  /\ Arming("gmc")
  /\ step' = step + 1
  /\ UNCHANGED <<envVars, mode, phase, failing, armed, registered, holdouts,
                 text, taskVars>>

\* Any other failure goes to the error path (a failing update kprobe returns
\* at once: nothing is armed then and the path is empty).
ArmFails ==
  /\ phase = "arming" /\ step <= Len(ArmList) /\ ArmList[step] # "gmc"
  /\ phase' = "removing" /\ step' = 1 /\ failing' = TRUE
  /\ UNCHANGED <<envVars, mode, armed, registered, holdouts, text, taskVars>>

LoadDone ==
  /\ phase = "arming" /\ step > Len(ArmList)
  /\ phase' = "in"
  /\ UNCHANGED <<envVars, mode, step, failing, armed, registered, holdouts,
                 text, taskVars>>

-----------------------------------------------------------------------------
(* Unloading, and the error path of tlbfix_init. *)

Rmmod ==
  /\ phase = "in"
  /\ phase' = "removing" /\ step' = 1 /\ failing' = FALSE
  /\ UNCHANGED <<envVars, mode, armed, registered, holdouts, text, taskVars>>

Removing(what) ==
  phase = "removing" /\ step <= Len(RemoveList) /\ RemoveList[step] = what

\* One armed hook is unregistered.  Unregistering the first ftrace hook is
\* where "any" is known to be true; a running task becomes a holdout of the
\* grace period that starts when the last ftrace hook is gone.
RemoveHook(h) ==
  /\ Removing(h)
  /\ registered' = IF h \in armed THEN registered \ {h} ELSE registered
  /\ step' = step + 1
  /\ holdouts' = IF h = "gemupd" /\ armed \cap Ftrace # {}
                 THEN {t \in Tasks : at[t] # "outside"} \ asleep
                 ELSE holdouts
  /\ UNCHANGED <<envVars, mode, phase, failing, armed, text, taskVars>>

\* No holdout is left; it is not that every task has left the replacements.
GraceOver_AllOutside == \A t \in Tasks : at[t] = "outside"
GraceOver == holdouts = {}

\* synchronize_rcu_tasks returns.
RcuTasksDone ==
  /\ Removing("sync")
  /\ GraceOver
  /\ step' = step + 1
  /\ UNCHANGED <<envVars, mode, phase, failing, armed, registered, holdouts,
                 text, taskVars>>

\* The module is gone and its text is freed.
FreeModule ==
  /\ phase = "removing" /\ step > Len(RemoveList)
  /\ phase' = "out" /\ step' = 1 /\ failing' = FALSE
  /\ text' = FALSE
  /\ UNCHANGED <<envVars, mode, armed, registered, holdouts, taskVars>>

-----------------------------------------------------------------------------
(* Tasks inside the replacements. *)

\* A call of a hooked driver function is redirected by its thunk.
EnterHooked(t, f) ==
  /\ at[t] = "outside"
  /\ f \in registered
  /\ at' = [at EXCEPT ![t] = "entered"]
  /\ fn' = [fn EXCEPT ![t] = f]
  /\ UNCHANGED <<envVars, modVars, asleep, slept>>

\* hooked_* calls the original, whose entry is still hooked: the thunk lets a
\* call through that comes from inside the replacement.
CallOriginal(t) ==
  /\ at[t] = "entered" /\ text
  /\ at' = [at EXCEPT ![t] = "orig"]
  /\ UNCHANGED <<envVars, modVars, fn, asleep, slept>>

\* The original takes locks, and the wait behind it sleeps on a fence.
Sleep(t) ==
  /\ at[t] \in {"orig", "back"} /\ t \notin asleep
  /\ asleep' = asleep \cup {t}
  /\ slept' = slept \cup {t}
  /\ holdouts' = holdouts \ {t}
  /\ UNCHANGED <<envVars, mode, phase, step, failing, armed, registered, text,
                 at, fn>>

Wake(t) ==
  /\ t \in asleep
  /\ asleep' = asleep \ {t}
  /\ UNCHANGED <<envVars, modVars, at, fn, slept>>

\* The original returns into the replacement, whose text must still be there.
OriginalReturns(t) ==
  /\ at[t] = "orig" /\ t \notin asleep /\ text
  /\ at' = [at EXCEPT ![t] = "back"]
  /\ UNCHANGED <<envVars, modVars, fn, asleep, slept>>

\* The replacement returns to the driver, and the task leaves the kernel.
LeaveHooked(t) ==
  /\ at[t] = "back" /\ t \notin asleep /\ text
  /\ at' = [at EXCEPT ![t] = "outside"]
  /\ slept' = slept \ {t}
  /\ fn' = [fn EXCEPT ![t] = "map"]
  /\ holdouts' = holdouts \ {t}
  /\ UNCHANGED <<envVars, mode, phase, step, failing, armed, registered, text,
                 asleep>>

-----------------------------------------------------------------------------
ModuleStep ==
  \/ LoadRefused \/ CheckPassed \/ Resolve \/ GmcSkipped \/ ArmFails \/ LoadDone
  \/ \E h \in Hooks : ArmHook(h) \/ RemoveHook(h)
  \/ RcuTasksDone \/ FreeModule

TaskStep(t) ==
  \/ CallOriginal(t)
  \/ Sleep(t) \/ Wake(t) \/ OriginalReturns(t) \/ LeaveHooked(t)

Next ==
  \/ \E m \in Modes : Insmod(m)
  \/ Rmmod
  \/ ModuleStep
  \/ \E t \in Tasks : TaskStep(t) \/ \E f \in Ftrace : EnterHooked(t, f)

Spec == Init /\ [][Next]_vars

\* The loader runs to its end, and a running task sleeps or returns; nothing
\* obliges a task that sleeps on a fence to wake.
Fairness ==
  /\ WF_vars(ModuleStep)
  /\ \A t \in Tasks :
       WF_vars(CallOriginal(t) \/ OriginalReturns(t) \/ LeaveHooked(t))

FairSpec == Spec /\ Fairness

-----------------------------------------------------------------------------
(* Properties *)

\* A hook that waits for a fence is registered only while hook (A) turns that
\* fence into the flush-completion one: loading arms (A) first, unloading and
\* the error path remove it last, so no call that is redirected from then on
\* waits on the wrong fence.
WaitersHaveFlush == registered \cap Ftrace # {} => "update" \in registered

\* Whatever fails while loading, nothing of a module that is not loaded stays
\* registered with the kernel: no probe calls into freed text.
NothingLeftBehind == ~text => registered = {}

\* When hook (A) is gone, and with it the text soon after, only tasks that have
\* slept inside a replacement can still be there: every task that runs through
\* one without sleeping is waited for before (A) is removed, so it waits for the
\* flush and returns into text that is still mapped.
OnlySleepersStay ==
  "update" \notin registered =>
    \A t \in Tasks : at[t] # "outside" => t \in slept

\* rmmod and a failing insmod come to an end even when a task sleeps inside a
\* replacement for ever.
RemovalEnds == phase = "removing" ~> phase = "out"

\* "Make sure no task is still executing inside hooked_* before unload."
NoTaskInFreedText == ~text => \A t \in Tasks : at[t] = "outside"
=============================================================================
