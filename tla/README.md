# A TLA+ model of libero_mjx

This directory specifies and verifies the parts of `libero_mjx` whose
correctness depends on the order in which things happen: the kernel module that
keeps the GPU's TLBs coherent, its loading and unloading, the patches that
rewrite installed sources in place and recover kernel names, the agent harness
with its agents and the memory they share, and the environments with the
evaluation loops that step them.
TLA+ modules model the code, TLC checks them on small instances, and TLAPS
proves the central results for every instance.

`PROJECT.json` holds the exact correspondence: under `map`, the source lines of
every definition; under `runs`, what each configuration checks; under
`hazards`, every place of the code that is hard to test.

## 1. The system

`libero_mjx` runs the LIBERO manipulation benchmark on MuJoCo Warp on an AMD
GPU. A Python library holds environments, a controller, a renderer and patches
for the libraries it stands on; a kernel module works around a TLB coherence
bug of the amdgpu driver that the pool allocator of Warp exposes; scripts train
and evaluate policies; a harness of language-model agents drives the scripts.

```
 harness/harness.py ── agents/ ── memory/store.py        user space
        │ tools/registry.py (subprocess)
        ▼
 scripts/eval_*.py, train_bc.py ── libero_mjx/envs, warp_env, render
        │ import                          │ hipMallocAsync / trim
        ▼                                 ▼
 render_*_patch.py (edits installed   GEM_VA, KFD map/unmap ioctls
 mujoco_warp)                    ─────────────────────────────────────
                                  kmod/mempool_tlbfix.c over amdgpu   kernel
```

### 1.1 Inventory

| Component | State it keeps | Operations | What is hard | What makes it correct | Module |
|---|---|---|---|---|---|
| TLB coherence hooks, `kmod/mempool_tlbfix.c` | module parameters; `need_tlb_fence`, `tlb_seq`, `kfd_last_flushed_seq` of the VM; the fences of every update | kprobes (A) on the update and (D) on the flush, wrappers (B), (C) that wait behind GEM and KFD calls | several threads, three different fences of one update, a GPU that re-caches at any time, time-outs, a parameter that changes in flight | a range that came back through the hooks is never read through a stale translation; no wait wedges an ioctl | `TlbCoherence` |
| TLB fix module loading, same file | `armed_*` flags, what the kernel has registered, the module text | insmod, arming, the error path, rmmod | any hook may fail to arm; tasks sleep inside the replacements during rmmod | waiters never without the flush they wait for; nothing left registered; only tasks that slept outlive the hooks; removal ends | `TlbModule` |
| TLB fix load script, `kmod/tlbfix.sh` | none | compare srcversion and offsets, insmod | – | the module is for the running build | not modelled |
| TLB tracer, `kmod/mempool_tlbtrace.c` | a log budget | probes that log | the budget is a 32-bit counter | it changes nothing but its log | not modelled |
| Render source patches, `render_kernel_patch.py`, `render_cube_patch.py` | the installed files, `.orig` backups, markers | read, back up, truncate, write, file by file | kills between and inside files, a layout that is read off files that may be torn, processes side by side, scripts that patch again before or after the import | a silent run imports complete sources; edits are applied once; originals can be restored; what runs is what is on disk | `RenderPatch`, `LiberoProcess` |
| Harness outer loop, `harness/harness.py`, `schemas.py` | run state, `state.json`, iteration files | run, decide, act, record, save | exceptions, interrupts, kills between truncating and writing a file, leftovers of earlier runs | what is on disk is a prefix of the run or was torn by a kill, the final state is saved, the best checkpoint is the first of the best | `Harness` |
| Compute tools, `harness/tools/registry.py` | rollout files, checkpoints, notes | scripts as subprocesses with options, time-outs and a result line; notes written to and searched in the store | options and result lines that do not match | a failing script costs an iteration, not the run | in `Harness` and `ArchivalStore` |
| Agents, `agents/base.py`, `team.py`, recall tier of `store.py` | messages, recall window, summary, reflections | ReAct loop, reflect, structured calls | windows, budgets, an exception in the middle of a tool exchange | nothing is skipped, every tool request is answered | `AgentLoop` |
| Archival and core memory, `store.py` | SQLite notes and links in one file of all processes, core facts | add, search, trim | several statements in one transaction, several processes, locks that time out, links and commits that fail; ids chosen by the model or by the clock | a note that was acknowledged stays with its links; every add ends | `ArchivalStore`; the core in `AgentLoop` |
| Environments, `envs/*.py` | `mjx.Data`, step counter, gripper accumulator, init states, rest pose | reset, batch_reset, step, save/restore, load_init_states | derived fields that lag behind or are unset, in any order of the calls | a step mixes in nothing older than one pose and no goal of another step | `EnvEpisode` |
| Warp environment, `warp_env.py` | one device buffer, `_first_step` | set_state, step, also before any set_state | the same, with a mass matrix that is copied once per control step | the same, with masses of this control step | `EnvEpisode` |
| GPU evaluation scripts, the GPU half of `benchmark_eval.py`, the quickstart | per-environment `done`, `steps` | warm-up, step, check every 50 steps, report | success is sampled and can be lost again | lasting success is noticed, no environment is given up, the report is true, the loop ends | `EvalLoop` |
| Controller, predicates, observations | none | linear algebra | floating point | numerical | what they read, in `EnvEpisode`; the arithmetic is out of reach |
| Renderer | a context built once, a buffer | render | its forward pass on somebody else's buffer | numerical | its forward pass, in `EnvEpisode` |
| Warp runtime patches | monkey-patched functions, cached kernel names | wrap, recover names | a hash that drifts while a module is built for a second `block_dim` | a kernel is found under the name its module was built with | name recovery: `WarpKernels`, `LiberoProcess` |
| Training, benchmarks, assets, container | none of interest | straight-line drivers | – | – | not modelled |

Interactions. The hooks see the pool only through the driver: an ioctl of any
thread goes through (A) while it submits its update and through (B) or (C) on
its way back, and the fences it waits for are signalled by a worker and by the
hardware. Loading decides which hooks exist while ioctls run. The harness calls
agents (chat requests that may raise), agents call tools (subprocesses with a
time-out), tools leave files, and the harness reads the newest of them back.
Agents, tools and the harness write notes through one connection per process to
a file that all harness processes of a machine share. The scripts import
`libero_mjx`, whose import runs the patches; most scripts run one of them again
by themselves, before or after that import.

### 1.2 Hard behaviours

`PROJECT.json` lists them line by line as `hazards`. In short: interleavings of
map, unmap, flush worker and GPU walks; a counter compared before its callback
has bumped it; waits while a reservation is held; hooks removed under running
calls; processes killed between two files; exceptions between two saves;
leftovers of an earlier run read as if they were new; windows that overflow;
transactions that are left open; sources rewritten after they were imported.

## 2. Plan

Modules in the order of their importance; those marked (done) exist.

1. `TlbCoherence` (done), the core: every hook of the fix over an external
   driver and GPU. `AddressSpace` (done), the abstract specification of what
   the fix promises to the pool, and the refinement between them.
   `TlbCoherenceProofs` (done).
2. `TlbModule` and `TlbModuleProofs` (done): loading and unloading, every
   invariant of it proved.
3. `RenderPatch` (done): in-place edits. `WarpKernels` and `LiberoProcess`
   (done): the kernel lookup, and its composition with the patches and the
   import. `LiberoProcessProofs` (done) proves every invariant of the three. To
   come: properties of two processes at once.
4. `Harness`, `HarnessProofs`, `AgentLoop` and `AgentLoopProofs` (done, the core
   memory included): every invariant of both proved.
5. `ArchivalStore` and `ArchivalStoreProofs` (done): the store of all processes,
   statement by statement, and the theorem that it loses nothing acknowledged.
6. `EnvEpisode` (done): which pose the derived fields of a state are of, and
   what success reads. `EvalLoop` (done) composes it with the loops of the GPU
   scripts and of the example, and `EvalLoopProofs` (done) proves every invariant
   of both. To come: the gripper accumulator and the rest pose.

No module that is proved about declares a `RECURSIVE` operator; where the code
adds up, the sum is a recursive function (`Newest` of `AgentLoop`).

## 3. Modules

### 3.1 TlbCoherence

One compute VM, the threads that map and unmap its ranges, and the device.

The source's own analysis (head of `mempool_tlbfix.c`) is what the external
part is taken from. A page table update is a job of the history `jobs`; its
index is the fence the driver returns for it. Jobs are written to the page
table in order (`Land`). A job that asked for a flush bumps `tlb_seq` later,
from a callback (`SeqBump`); and if the VM has `need_tlb_fence`, a worker waits
for the write and invalidates every TLB (`FlushWork`), in any order of the
workers. The GPU caches what the page table holds whenever it likes
(`TlbFill`), unmapped entries too, and drops what it likes (`TlbEvict`).

| Action | Code |
|---|---|
| `EnterIoctl`, `Reserve` | external: the pool's call and the VM reservation |
| `UpdateRange`, `UpdateFails` | hook (A), `pre_update_range`, then the original; `ForcesFence`, `ForcesFlush` are its conditions |
| `Hook` | whether `hooked_gemupd` (`GemWaits`) or `hooked_map`/`hooked_unmap` (`KfdWaits`) waits |
| `WaitDone`, `WaitTimesOut` | `tlbfix_fence_wait`, which reads `wait_ms` at each wait (`bounded`); the KFD wait has no time-out |
| `ComputeFlush`, `ComputeFlushSkipped` | `pre_compute_tlb` (`LastSeen`) and `pre_flush_pasid` (`FlushedHubs`) around the driver's check of `tlb_seq` |
| `WriteOnlycomm` | the module parameter, mode 0644, written by an operator |

`guarded` and `covered` are history: a call is guarded while every hook saw a
matching `onlycomm` and no wait timed out, and a range is covered when a
guarded call was the last one to update it. They say what the fix can be held
to; nothing in the model reads them but `ReturnToUser`.

Properties: `CoveredIsCoherent` (a covered range is translated by its last
update, in the page table and in every TLB), its inductive strengthening
`CoherenceInv`, `IoctlReturns`, `GemIoctlReturns`, `RemapsConverge`, and
`KfdIoctlReturns`, which fails. The parameter `wait_ms` may be written at any
time, so `GemIoctlReturns` and `KfdIoctlReturns` ask for a return only if from
some time on every wait of the path finds it positive (`WaitsBounded`).

`AddressSpace` is the same seen from the pool: per range the translation last
asked for (`goal`), those an access may meet (`seen`), and the ranges that are
settled. A request adds to `seen`, everything else only takes away from it, and
a call that returns through the hooks settles its range when nothing else is
left in `seen`. `KeepsPromise` maps `goal` to the target of the newest job of a
range, `seen` to the page table entry, the TLB entries and the targets of the
jobs that have not landed, and `settled` to `covered`. A walk that brought a
translation back after it was gone, and a hook that returned too early, would
both be steps `AddressSpace` does not have.

### 3.2 TlbModule

`tlbfix_init` is a list of things to arm per mode (`ArmList`), `tlbfix_exit`
and the error path one list of things to remove (`RemoveList`); `step` is the
place in the list. `armed` are the `armed_*` flags, `registered` what the
kernel really has. Tasks go through a replacement in four steps and may sleep
in the original or behind it. `holdouts` is the grace period of
`synchronize_rcu_tasks`: it ends when every task that was running has slept or
left, which is weaker than that every task has left. `slept` is history, the tasks
that slept since they entered: `OnlySleepersStay` says that these are the only
ones still inside when (A) is removed and the text freed, and `TlbModuleFree`
that there may be such a task. The re-entry guard is modelled by what it does
(`CallOriginal`), since the spans it compares with are fixed by the compiler.

### 3.3 RenderPatch

`Plan` is the sequence of reads of `patch_render_kernel`, and `Decision` what
the code does with the text it read at each of them: edit, go on, leave the haze
edits out, raise. `_write` is six actions from `BackupExists` to `Write`, so
that a kill or another process can come between any two. A text is how often
each edit is in it; `Torn` is a truncated file. Which of `Versions` is installed
decides what anchors there are, but which edits a call makes it decides anew
(`HasParameter`): a current version whose `io` file is torn goes the legacy way.
`cut` is history: the files whose backup a kill cut short.

A process runs one of three programs, which `Passes` lists by the calls of
`patch_render_kernel` they make (`Start`, `Call`): a library user makes the one
of `libero_mjx/__init__`, which warns of an exception; a script that patches by
path first ends where its own call raises and then imports the package; a
script that imports the package first patches again. `Import` takes `loaded`
from the files as they are after the first of these calls, which is when
`mujoco_warp` is imported.

### 3.4 WarpKernels and LiberoProcess

`WarpKernels` is the lookup of a nested kernel through the wrapper of
`get_kernel_hooks`. Warp is external: it builds a module per `block_dim` under
the name the kernel has then (`Build`), and building may change the hash and
the cached name (`Rename`). `Enter` and `Leave` are the two halves of the
wrapper around the original lookup, with `BuiltName` for
`_resolve_built_name`; `given` is history, the name as Warp itself left it.

`LiberoProcess` runs it in one process of `RenderPatch`: kernels are built and
looked up once the program runs, and are gone when it ends. Its properties are
`LoadedIsOnDisk` (what Warp extracts from the files are the lines of the
functions that were imported) and `KernelFound` (a lookup fails only in a module
where several kernels have the key and none of them the name Warp gave this
one), next to those of `RenderPatch`.

### 3.5 Harness

`Harness.run` and `_iteration` as one loop: decide, act, record, save the
iteration, move the focus, save the state. Every save is two actions, since the
code opens the file, which empties it, and then writes it (`OpenState`,
`WriteState`, `OpenIteration`, `WriteIteration`): a kill, and for the file of an
iteration an exception too, may come between and leave it `Torn`; `cut` says
that a kill did. The supervisor decides anything its schema lets through.
`Raises` is an exception anywhere inside the `try` of an iteration, `Interrupt`
the `KeyboardInterrupt` branch, `Kill` the end of the process. `Passed` and
`Accepted` are the options of both sides of the tool boundary; `ExtraOptions`
stands for scripts under another `repo_root` that take the options these lack:
without them no script ever runs, and the loop would never see a measurement. A
checkpoint is the latest one of a suite and task, or has another name that a
script's result line gives. The model starts with or without the files of an
earlier run, its `state.json` torn or not.

### 3.6 AgentLoop

`Agent.run` with its recall window and summary, `reflect`, the structured calls
of the team, and the core facts with their trimming (`CoreAppend`,
`TrimmedCore`). A turn, a fact and a reflection carry their place in everything
the memory was ever given, so that gaps and repetitions can be told
(`NothingSkipped`), and what was forgotten too early (`ForgetsOnlyWhenFull`). The
code cuts each turn to 200 characters when it rolls into the summary, and the
summary by characters; the model counts turns. `CallsAnswered` is about the
requests of one run: what the prompt repeats of earlier runs is without its
requests (section 6).

### 3.7 ArchivalStore

The SQLite file is `rows` and `links`; what the connection holding the write
lock has not committed is `txRows` and `txLinks`. The lock has one holder or
`NoProc`. `add` is one action per statement:

| Action | Code |
|---|---|
| `Open`, `End` | `ArchivalStore.__init__`; the process ends or is killed, nobody calls `close` |
| `Add` | the writers: `_write_reward`, `_set_curriculum`, `_set_hp`, `archival_add` from `reflect` and `_record_failure`; `NewIds` is how each names its note |
| `Insert`, `InsertBusy` | `INSERT OR REPLACE`, which opens the transaction or waits for the lock until it raises |
| `InsertLinks`, `LinkFails` | the rows of the reverse lookup; where one raises, the row and the links before it stay pending |
| `Commit`, `CommitFails` | the commit; where it raises nothing rolls back |

`serial` numbers the insertions and `acked` is history: of every id the newest
note whose `add` returned. `AckedIsKept` is the promise of the store. The reads
(`search`, `get`, `list_kind`) change no state and are left out, and with them
the words of the notes.

### 3.8 EnvEpisode

The state behind `LiberoState.data` and behind `WarpEnv.wd`. Both hold a pose
(`qpos`, `qvel`) and fields derived from it, and no call of the simulator says
of which pose those are: `mjx.step` derives them and then moves the pose on, so
that after a step they are one substep behind. The model gives every group of
fields an age, the number of poses ago it was computed: `kin` (`xpos`,
`site_xpos`, `site_xmat`), `dyn` (mass matrix, Jacobian fields, `qfrc_bias`),
`goal` (the site pose that `step` set its goal from) and `mass` (the copy
`WarpEnv.step` makes once per control step). `Lost` stands for longer ago than a
control step, for another episode and for never, so that an age within a control
step is exact. `TorquesAreCoherent` bounds them in every substep: current `qpos`
and `qvel` meet fields of one pose ago at most, and a goal and masses that are
as old as this control step or one pose older. `raw` marks a state of
`batch_reset` that no simulator call has followed; its missing fields are
excepted until its first substep, which derives them (section 6). `WarpEnv` may
be stepped and rendered before any `set_state` (`Steppable`), which is what its
`_first_step` is for. Of the numbers only one survives: in which worlds the
object is at its target, in the pose (`near`) and in the pose that `xpos` is of
(`seen`), which is what the success predicate reads.

| Action | Code |
|---|---|
| `Reset`, `SpatialReset`, `MakeState`, `BatchReset` | `reset` of `LiberoEnv` and of `LiberoSpatialBase`, `make_state` of the scripts, `batch_reset` |
| `SetState` | `WarpEnv.set_state` |
| `GetSimState`, `SetSimState` | `get_sim_state`, `set_sim_state` |
| `BeginStep`, `Substep` | `step` of either environment up to its substeps, and each of them; the last one evaluates the predicate |
| `Render` | `WarpRenderer.render`, whose forward pass renews WarpEnv's own buffer but, for an mjx state, only a buffer of the renderer |

`Always` and `Malformed` say what `_get_predicate` returns when `_post_init`
finds a body missing: a predicate that is true of everything, or one that
yields an array.

### 3.9 EvalLoop

Five clients over the actions of `EnvEpisode`, told apart by `script`:

| `script` | Code | Peculiar to it |
|---|---|---|
| `warp_only` | `eval_warp_only.py` | no step counter: the number of the step is `max(steps) + 1`, although the counts of finished worlds stand still (`CurStepIsStep`) |
| `bench` | `bench_warp` of `benchmark_eval.py` | the same loop, which reports time and steps, and no successes (`BenchEnds`) |
| `native` | `eval_warp_native.py` | `WarpEnv`, a `for` loop over `STEPS` |
| `quickstart` | `examples/libero_quickstart.py` | a fixed number of steps, no checks on the way, a count of truth values in the end (`QuickAccount`, `QuickReport`) |
| `none` | a user | any environment call in any order |

`iter` is the loop counter of those that have one and history for the others.
`held` is history too: for how long a world has been successful, for the
scripts that sample (`HeldSuccessNoticed`).

## 4. Runs

Violations are findings: places where a comment or a doc of the repository says
one thing and the code does another.

| Run | Instance | What it shows |
|---|---|---|
| `TlbSyncmap` | 2 threads, 1 range, 2 pages, 1 hub, 2 updates, bounded waits, a filter that changes | `CoherenceInv`, of which `CoveredIsCoherent` is a part, under `syncmap`, and that the model implements `AddressSpace`; the filter that changes between the two hooks of a call and the late flush are exercised here |
| `TlbBoth` | 2 threads, 1 range, 1 page, 2 hubs, 2 updates, a constant filter, no bounded waits | mode `both`: the forced flush covers what had landed; every forced flush arrives in the end |
| `TlbLive` | 2 threads, 1 range, `wait_ms` positive or 0 | ioctls return; GEM ioctls return although the GPU hangs when `wait_ms > 0` |
| `TlbHungKfd` | the same, violated | a KFD ioctl does not |
| `TlbModule` | 2 tasks, every mode, every failure | loading, error path and unloading are safe, and end |
| `TlbModuleFree` | 1 task, violated | a task sleeps inside text that is freed |
| `RenderRuns` | 1 process after another of three programs, 3 kills, 1 reinstallation, three versions of two layouts, 2 block_dims, 2 hashes | silent runs are complete, edits are applied once, sources restorable unless a kill cut their backup short, what runs is on disk, kernels are found |
| `HarnessRun` | 2 iterations, 2 suites with their checkpoints and one of another name, leftovers or none | saved state, first best checkpoint, termination |
| `HarnessRollout` | 2 iterations, violated | an iteration records a rollout that is not its own |
| `AgentRun` | window 3, summary of 2 turns, 11 turns, 2 tool steps; core of 4 characters, 3 facts of 1, 3 or 5 | window, summary, core and reflections lose only the oldest and only when full; tool exchanges are complete |
| `MemoryRun` | 2 processes, 4 adds, 2 kills, failed links or failed commits | acknowledged notes stay with their links, adds end |
| `EvalRuns` | the four scripts and a user; 2 worlds, 2 substeps, interval 2, limits 3 to 6, tasks with and without bodies | coherent torques, counting and checks, the report, termination |

### 4.1 Bounds, and why they are enough

* `MaxJobs = 2`: staleness needs an update and the one before it; with two, a
  task's update can be overtaken by another task's, between the write, the
  flush and the return of either. The proof covers every number.
* Two tasks: one that waits and one that updates under it, or is queued behind
  it. One range suffices, since ranges share only the TLB invalidations, which
  are for all of them; the proof covers any number.
* One hub, two hubs in `TlbBoth`, where a flush may leave one out.
* `MaxCrashes = 3`: one kill in each of the three places a run can leave behind
  (before, between and after the marked edit), on top of each other.
* `MaxReinstalls = 1`, and a change of version with it. Three versions: a legacy
  one and current ones with and without the anchors of the legacy edits, which
  matter when a torn file makes a current one look legacy.
* `MaxIterations = 2`: an iteration whose record is lost and one after it that
  is not; best-of needs two evaluations, of equal or rising rates and of
  different checkpoints: of the one suite the focus starts in, of the other, or by
  the name the script reports. Only one suite has a checkpoint to evaluate.
* `MaxTurns = 11` with a window of 3 and a summary of 2: the window overflows
  again and again, by one turn at a time as in the code, and so does the summary.
* `RenderRuns` has one process at a time. Two at once do damage each other
  (section 6), which a property of one process cannot say.
* `BlockDims` and `Hashes` have two members: the second build is the one under
  which the hash drifts, and a third hash could only differ from both.
* `AgentRun`: facts that fit together, one by one, and not at all.
* `MaxAdds = 4`: a note, one of the same id after it, one that comes between or
  fails, and one of the other process. `MaxFaults = 2`: a link or a commit that
  fails and the kill of the process that left its transaction open. `MaxTime =
  1`: a second that has passed, so that ids of one second collide and others do
  not. The theorem about `AckedIsKept` needs none of these bounds.
* In `TlbModule` nothing is bounded: its state is finite.
* `EvalRuns`: an interval of 2 for the 50 of the code, with limits that are a
  multiple of it and limits that are not, and room for two checks before the
  limit; two worlds, one that finishes early and one that does not; two
  substeps, so that a copied mass matrix grows older than the other fields, and
  one of the step before older than is allowed; the four kinds of task that
  `assets/xml` contains.

`CHECK_DEADLOCK FALSE` is given for `Harness*`, `AgentRun`, `MemoryRun` and
`EvalRuns` only: a run that has returned, a memory that has been given
`MaxTurns` turns, a store that has seen its adds and faults and an evaluation
that has reported have no next step. The TLB and patch models never stop.

### 4.2 Fairness, and why the code justifies it

* `TaskFairness`: a thread inside an ioctl takes its next step when it can (the
  kernel schedules it), and is strongly fair in `Reserve`, because the
  reservation is a fair lock (ww_mutex wakes its waiters in order). No thread is
  obliged to enter an ioctl.
* `DeviceFairness`: updates are written and flush workers run. It is assumed
  where the claim is about a GPU that works (`WorkingGpuSpec`, which `TlbBoth`
  checks and which asks nothing of the threads, and the antecedent of
  `IoctlReturns`). `HungGpuSpec` leaves it out. Neither obliges the GPU to walk
  or to evict, nor the `tlb_seq` callbacks to run.
* `TlbModule`: the loader runs, and a running task sleeps or returns. A task
  that sleeps on a fence is never obliged to wake: `RemovalEnds` holds
  nevertheless, which is the other side of `TlbModuleFree`.
* `Harness`: `WF(LoopStep)`, because chat requests and scripts have time-outs
  and every branch of an iteration ends. Interrupts and kills are not fair.
* `ArchivalStore`: `WF(AddGoesOn(p))`, because a process inside `add` runs on and
  SQLite's timeout is one of the ways on. No process is obliged to add, to open
  or to end, so a lock that a failed commit left behind may be held for ever:
  `AddEnds` holds nevertheless.
* `EvalLoop`: a script is one thread, and its policy and simulator return
  (`WF` of `ScriptStep`, `BenchStep` or `QuickStep`, of which one is enabled).
  The user is obliged to nothing.

## 5. Proofs

`TlbCoherenceProofs` proves, for every value of the constants that satisfies
`ModeAssumption`, `SentinelAssumption` and `ParamAssumption` (any number of
threads, ranges, pages, hubs and updates, any mode, any filters):

* `TypeCorrect`: `Spec => []TypeOK`;
* `CoherenceInvariant`: `Spec => []CoherenceInv`;
* `Coherence`: `Spec => []CoveredIsCoherent`;
* `ImplementsAddressSpace` (in `TlbPromiseProofs`): `Spec => KeepsPromise`, every
  step of the model is a step of `AddressSpace` or changes nothing it observes.

`CoveredIsCoherent` is not inductive: a range may become covered in
`ReturnToUser`, and the reason it is coherent then lies several steps back. The
strengthening carries that reason along:

1. `PageTableInv`: the page table holds, for every range, the newest job that
   has landed.
2. `FlushInv`: a job whose completion fence has signalled has landed, and if no
   later update of its range exists the range is coherent. Invalidating removes
   what was cached before, and what is cached after is what the page table
   holds, which no later job has changed.
3. `FenceInv`: a task that came back from the driver holds the fence of a job
   of its own range.
4. `GuardInv`: a guarded task holds, under `syncmap`, the fence of a job that
   went the fenced path, which past its wait has signalled; in the other modes
   it is guarded only after a flush of every hub that came after the write.
5. `CoveredIsCoherent` itself, preserved because a new update of a range
   removes it from `covered`.

Each action has one lemma; `CoherenceStep` combines them. The lemmas
`CoherentAppend`, `CoherentLand`, `CoherentInvalidate` and `CoherentCache` say
what one device step does to the coherence of one range and carry most of the
argument.

The refinement needs one lemma per kind of abstract step. `UpdateRangeAsks`: the
new job is the newest of its range and of no other. `ForgetStep`: a step that
puts into the page table and the TLBs only what was in `seen` makes `seen`
shrink; `LandForgets` and `CacheForgets` apply it. `ReturnSettles`: of a range
that becomes covered, `Coherent` leaves only the goal in `seen`.

`ArchivalStoreProofs` proves, from `StoreAssumption` (any number of processes,
any ids, any bounds on the clock, the adds and the faults):

* `TypeCorrect`: `Spec => []TypeOK`, which includes that nothing is pending
  without a holder of the lock, and that an add past its `INSERT` holds it;
* `Kept`: `Spec => []AckedIsKept`.

`AckedIsKept` speaks of the file, and what a commit makes of the file was laid
down by the statements before it, of this add and of those that failed. Its
strengthening `StoreInv` has three parts.
`LinksWritten`: an acknowledged note that nothing has replaced has its links in
the file. `NotePending`: an add past its `INSERT` has its note pending, as the
last one inserted, and before its `COMMIT` its links as well; so what `Commit`
acknowledges is whole, whatever else that commit brings in. `NoneOlder`: the
file holds no older note than the one acknowledged, and one that is pending is
newer. `QuietStep` covers the steps that change no row and lose no pending link,
a link that fails among them; the others have a lemma each (`InsertStep`,
`InsertLinksStep`, `CommitStep`, `RollBackStep`).

`TlbModuleProofs` proves, from no assumption at all, for any set of tasks and
every mode, every invariant of `TlbModule`: `TypeCorrect`,
`WaitersAlwaysHaveFlush`, `NothingStays`, `OnlySleepersRemain`.
`WaitersHaveFlush` and `NothingLeftBehind` depend on how far loading or removal
has come, so `RegistrationInv` says what is registered at every place of the two
lists: what has been armed while the module is loaded, and of that what has not
been passed by `step` while it is removed. That (A) is armed before the
replacements and removed after them is read off the two lists (`ArmFacts`,
`RemoveFacts`); the rest is one lemma per way of moving along them.
`OnlySleepersStay` needs `GraceInv` besides, which relates the place in the list
to the tasks inside: one that has not slept since it entered is there only while
a replacement is armed, or until the grace period that waits for it is over.

`HarnessProofs` proves, from `HarnessAssumption` and `NoneAssumption` (the absent
value and a torn file are no state, result, rollout, evaluation or checkpoint),
for any number of iterations, suites, tasks and checkpoint names and whatever
options the scripts take: `SavedIsAlwaysPrefix`, `FinalStateAlwaysSaved`,
`BestIsAlwaysFirst`. All rest on `Types`: the process has a state from its start
on, and a result inside an iteration. `SavedIsPrefix` says nothing of the run
that the next save will write; `SavedInv` adds that it is this one, that what is
saved is a state of the schema, and that `state.json` is torn only between the
two halves of a save or, when the process is out, after a kill there. So it is
whole wherever an iteration may go on (`Whole`), and two lemmas say what a step
keeps (`SavedKept`) and what one that adds an iteration leaves behind
(`SavedBehind`). `BestIsFirst` is about the whole list of iterations, and
`BestAdded` shows that `Better`, which looks at the last one only, keeps it.
`RunTyped` (`Spec => []TypeOK`) needs `TurnInv`, where the loop counter may stand
at each place of the loop, so that no run records more than `MaxIterations`, and
`FilesInv`, the same of the files; and it assumes that, if an earlier run left
files (`Leftovers # {None}`), there was an iteration to record,
`MaxIterations > 0`.

`EvalLoopProofs` proves, from `EnvAssumption` and `LoopAssumption`, for any set of
worlds and tasks, any number of substeps, and any interval, warm-up and limits:

* `TorquesAlwaysCoherent`, by `AgeInv`: the bounds hold between steps as well.
  A state that was made, or `WarpEnv`'s buffer after its first `set_state` or
  step, has derived fields at most one pose old, and during a step the goal and
  the copied masses are at most as old as the substeps that are behind, and one
  (`OlderIs`). Excepted are the fields a state of `batch_reset` is `raw` in, until
  its first substep. `OneCall` reduces every step of a script or user to one call
  of an environment, so that the argument is about the calls in any order;
* `CurStepAlwaysStep` and `NoneEverAbandoned`, by `CountInv`: worlds that are not
  done have counted every step of the loop, and the loop is inside a step only
  as long as there is such a world. Then the largest count is the number of the
  step (`MostIsIter`), and where the loop ends none is left (`EndsFairly`);
* `ReportAlwaysReached`, by `ReachedInv`: what `xpos` shows lags behind the pose
  by a substep, and was reached all the same;
* `HeldIsNoticed`, by `HeldInv`: between two checks a world that is not done has
  been successful for no longer than since the last multiple of the interval,
  which is what the step number leaves as a remainder (`RemainderIs`,
  `NextRemainder`). It needs `CountInv`, by which the number the scripts divide
  is that of the loop, and the check itself (`CheckSettles`);
* `EvalTyped`, by the types of the environment, of the loop and these two
  invariants, which bound the counts.

`LiberoProcessProofs` proves the invariants of the patches, of the kernel lookup
and of the program that runs both, from `RenderAssumption`, `VersionAssumption`,
`KernelAssumption` and `SelfAssumption`. For any set of processes that patch the
same sources at once, any kills, reinstallations, layouts, `block_dim`s and
hashes:

* `ProcessTyped`: `ProcessSpec => []ProcessTypeOK`;
* `LookupFinds`: `ProcessSpec => []KernelFound`, by `NameInv`: outside a lookup
  the wrapper has left no name of its own behind, within one it remembers the
  name Warp gave.

The others assume `Procs = {Self}`, the runs of one process after the other, as
the run does. Two processes at once do write over each other's work (section 6),
so without the assumption they are false. They hold for any number of kills, at
any step, and any number of reinstallations of any versions:

* `SilentRunComplete`, `RunsComplete`, `LoadedStays`;
* `EditsOnce`, on the earlier layout until a run is killed, on the current one
  unless a kill truncated the `io.py` or `render_util.py` by which the code tells
  the two apart;
* `Restorable`, until a reinstallation and but for the files whose backup a kill
  cut short (section 6 on both exceptions).

None is inductive: what a run may skip depends on what runs before it were
killed in. `PatchInv` has, beside the types and the place in the plan
(`StepInv`), four parts. `MarkedInv`: the sources carry the marks that a call
relies on at its entry of the plan, and so will those it is writing; a call that
raised did so because nothing can complete the sources any more (`Doomed`: a
source is torn, or the legacy haze edit has passed its parameters on in `io.py`
and not used them in `render.py`, where the edit of `io.py` raises). `CleanInv`:
while no run was killed, no file but the one being written is half done, and no
call raises. `BackupInv`: until a reinstallation a file without a backup is
pristine, a call never writes such a file, and a backup is pristine, or torn
while it is being written or because its writer was killed there (`cut`).
`LoadedInv`: what was imported is on disk, since a second call finds every edit
in place; or it raises as the first one did and ends the script. The plan's ten
entries and what `Decision` makes of a text at each (`PlanFacts`,
`DecisionFacts`) are lemmas, so are the marks a step moves forward.

`AgentLoopProofs` proves, from `AgentAssumption`, for any window, summary, core
budget, sizes of facts, tool steps and calls: `AgentTyped`, `NothingIsSkipped`,
`ForgetsWhenFull` and `CallsAreAnswered`. `AgentInv` has five parts. `CoreInv`
and `MemInv` say by position what the core, the summary and the window hold: the
latest of all that was given, with what precedes it not fitting, or summary and
window full. `ReflInv` says it of the reflections. `RunInv` has the types of a
run at each place of it; `CallsInv` adds to `CallsAnswered` the state in the
middle of an exchange: the last request is being answered, with `pending` calls
to come, and every earlier one is followed by something else.

`_trim_core` adds up sizes from the newest fact backwards until the budget is
spent. That the sum of the facts it keeps is the size of the core afterwards is
an induction, which the provers cannot take from the library, whose rule has an
operator as a parameter. `Induct` states it for a set of numbers instead, from
the least element that `WFMin` gives (`Least`), and `Sums` and `SameUpTo` apply
it to the recursive function `Newest`.

Every safety property that a passing run checks is thus the statement of a
theorem. Only model-checked are the liveness properties (`IoctlReturns`,
`GemIoctlReturns`, `RemapsConverge`, `RemovalEnds`, `RunEnds`, `AddEnds`,
`EvalEnds`), which are out of the prover's reach, and the three findings, which
are counterexamples.

## 6. Findings

1. `wait_ms` bounds "each re-map TLB-flush fence" wait (`mempool_tlbfix.c`, 124
   and 133); the KFD hooks wait without a bound (`TlbHungKfd`).
2. "Make sure no task is still executing inside hooked_* before unload" (503):
   `synchronize_rcu_tasks` does not wait for tasks that sleep there
   (`TlbModuleFree`).
3. "We re-read the latest rollout file from the run dir as the source of truth"
   (`harness.py`, 262): it may belong to another iteration, run or suite
   (`HarnessRollout`).

Met while modelling, without a run of their own:

* `patch_render_kernel` is "Idempotent" (`docs/api.md`, 205), but the legacy edit
  of `types.py` looks for no marker (`render_kernel_patch.py`, 106): after a kill
  between two files of the haze patch the next call makes it again. A current
  version takes that path too when a kill left `io.py` or `render_util.py`
  truncated, since `_has_shadow_light_fraction` (50-56) reads them at every call.
  Whence the restrictions of `AppliedOnceUnlessKilled`;
* "Backs up originals on first run" (`docs/api.md`, 205): a backup that a kill cut
  short exists and is never written again, and the original is gone once the
  file is patched. Whence the exception of `AlwaysRestorable`;
* `eval_warp_only.py` (29-30) means to patch before the import; the module it
  loads by path imports `libero_mjx`, so that the package's own pass comes
  first. Harmless: the second pass finds everything in place (`LoadedIsOnDisk`);
* two processes that import `libero_mjx` at once can read what the other has
  truncated and warn, or save an already patched file as the original
  (`docs/architecture.md`, 234, calls the patches safe across processes);
* `run_rollout` passes `--n-envs`, `train_bc` and `eval_policy` pass `--run-id`
  and `--run-dir`, which the scripts of this repository refuse
  (`harness/ARCHITECTURE.md`, 132-135);
* the store is called Zettelkasten-linked (`agents/base.py`, 130-131,
  `registry.py`, 254), but no caller hands `reflect` the `archival_links` it
  looks for: in the repository's own flows every note is without links. The
  model lets a reflection have them;
* all harness processes share one archival file by default (`config.py`, 119);
  their notes are in the order of insertion, and one of them may replace
  another's, since a plan or a setting is named by the second;
* after a commit that failed the transaction stays open: other processes' adds
  raise until this one adds again, and that add commits the note reported as
  failed as well;
* a reward variant is stored as "proposed" before the critic sees it and stays
  when the critic blocks it;
* a search wants every word of the query in the note, where the tool invites
  a question in natural language;
* an exception of the store inside `_record_failure` leaves `run()` without a
  saved final state (`harness.py`, 126);
* `state.json` is truncated before it is written, so that a kill in a save leaves
  no state of any run (the `Torn` of `SavedIsPrefix`); nothing in the repository
  reads it back;
* an evaluation uses the best checkpoint or one named "latest", never the one just
  trained (`harness.py`, 218); a call of a tool an agent was not offered is
  dispatched all the same; `core_replace` has no caller;
* `bench_warp` counts the steps of finished worlds as work done;
* held-out suites exist only as a sentence of a prompt; the iteration that
  stops a run has no file of its own; structured answers are not remembered;
* "Preserve tool_calls on assistant turns for API continuity" (`store.py`, 285):
  `recall_append` never stores them, so the prompt of an agent's next run holds
  tool results that follow a plain assistant turn;
* a success predicate whose bodies `_post_init` did not find is true of
  everything: the fallback `distance_to(x, x, dist=999)`, commented "never"
  where the object suite uses it (`envs/libero.py`, 172), asks whether a body is
  within 999 of itself. All scene10 tasks and many of scene90 take it (182) and
  report success after one step. In the object suite the object's body name is
  not among those tried, `xpos[None]` makes the predicate an array, and the
  evaluation raises at its first check. No property rules this out:
  `ReportIsReached` is about tasks whose bodies were found, and `EvalEnds` counts
  an evaluation that raised as ended;
* "The returned state can be stepped" (`envs/libero.py`, 251): `batch_reset` fills
  in three derived fields (288-289), so that the torques of the first substep come
  from a mass matrix, Jacobian fields and a bias that nothing has computed;
* the OSC goal is "current EE pose plus the clipped delta"
  (`docs/architecture.md`, 145); after the first step it is set from the pose of
  one substep ago, except in the native loop, where rendering has renewed it;
* `get_sim_state` is offered "for checkpointing" (`docs/api.md`, 53) and leaves
  out the gripper accumulator that `docs/physics.md` (60) relies on;
* `load_init_states` updates the rest pose (`docs/physics.md`, 68) in `LiberoEnv`
  but not in `LiberoSpatial`, and `WarpEnv` keeps the model's `qpos0`;
* an evaluation's final count reads the last state, so it can be lower than the
  count of its last progress line;
* a strict load continues when the srcversion cannot be read;
* `need_tlb_fence` stays set after the module is gone.

## 7. Not modelled

Numerical code (controller, predicates, rendering, observation arithmetic) has
no control state. The benchmarks, profiling scripts, asset conversion, training
and CPU evaluation scripts and container files run straight through external
libraries; of `benchmark_eval.py` the CPU half is left out, of the quickstart
the sweep over batch sizes, of every script the loading and calling of a policy.
The tracer changes nothing but its log. The other runtime patches
(`warp_gpu_patch.py`, `texture_patch.py`, `robosuite_patch.py`,
`patch_solver_condgraph.py`) replace something once and run straight through;
`patch_warp_to_gpu` wraps whatever it finds, a wrapper of its own included.
Prompts, the HTTP client's parsing, transcripts and logging are left out of the
agents; the reads of the archival store, which change nothing, are left out with
the words of its notes; of loading the fix, the checks `tlbfix.sh` makes before
`insmod` (srcversion, structure offsets) and the instructions the re-entry guard
spans, which are the compiler's; rewards, observations, the gripper accumulator,
the step counter and the rest pose are left out of the environments.

## 8. Running it

```
tlc -config TlbSyncmap.cfg MCTlbCoherence.tla
tlapm TlbCoherenceProofs.tla
tlapm TlbPromiseProofs.tla
tlapm ArchivalStoreProofs.tla
tlapm TlbModuleProofs.tla
tlapm HarnessProofs.tla
tlapm EvalLoopProofs.tla
tlapm AgentLoopProofs.tla
tlapm LiberoProcessProofs.tla
```

Every `.cfg` is named after its run; `PROJECT.json` names the module each one
belongs to.
