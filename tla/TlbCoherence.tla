---------------------------- MODULE TlbCoherence ----------------------------
(***************************************************************************)
(* The three live hooks of kmod/mempool_tlbfix.c over one amdgpu compute   *)
(* VM: (A) the kprobe on amdgpu_vm_update_range, (B) the wait around       *)
(* amdgpu_gem_va_update_vm, (C) the wait around the KFD map and unmap      *)
(* calls, and the syncflush kprobes on amdgpu_vm_flush_compute_tlb and     *)
(* amdgpu_gmc_flush_gpu_tlb_pasid.                                         *)
(*                                                                         *)
(* The driver and the GPU around the hooks are external: what they do is   *)
(* taken from the traced root cause at the head of that file.  A page      *)
(* table update is a job; jobs land in submission order; a job with        *)
(* flush_tlb bumps tlb_seq later, from a callback, and, when the VM has    *)
(* need_tlb_fence, is followed by a worker that waits for the write and    *)
(* then invalidates every TLB.  A job's index in the history "jobs" is the *)
(* fence the driver returns for it.                                        *)
(***************************************************************************)
EXTENDS Integers, Sequences

CONSTANTS
  Tasks,          \* threads of the process that owns the VM
  VAs,            \* virtual ranges
  Pages,          \* physical pages
  Hubs,           \* GPU TLBs (graphics hub, memory hub ...)
  Hole,           \* the translation of an unmapped range
  NoEntry,        \* a TLB that caches nothing for a range
  NoTask,         \* the VM reservation is free
  NoCall,         \* a task that is in no ioctl
  Mode,           \* module parameter "mode"
  ForceAllHub,    \* module parameter "force_all_hub", and its kprobe armed
  WaitSettings,   \* what "wait_ms is positive" may be when a wait begins
  IsCompute,      \* vm->is_compute_context
  Filters,        \* sets of tasks that a value of "onlycomm" can select
  MaxJobs         \* bound: once so many updates exist, the next ones fail

Targets  == Pages \cup {Hole}
Paths    == {"gem", "kfd"}
PCs      == {"user", "reserve", "update", "hook", "wait", "flush", "leave"}
Calls    == [path : Paths, va : VAs, to : Targets]
Jobs     == [va : VAs, to : Targets, flush : BOOLEAN, fenced : BOOLEAN]

ASSUME ModeAssumption ==
  Mode \in {"syncmap", "remapflush", "syncflush", "both", "fence"}
ASSUME SentinelAssumption ==
  /\ Hole \notin Pages
  /\ NoEntry \notin Pages \cup {Hole}
  /\ NoTask \notin Tasks
  /\ NoCall \notin Calls
ASSUME ParamAssumption ==
  /\ ForceAllHub \in BOOLEAN
  /\ WaitSettings \subseteq BOOLEAN /\ WaitSettings # {}
  /\ IsCompute \in BOOLEAN
  /\ Filters \subseteq SUBSET Tasks
  /\ MaxJobs \in Nat

VARIABLES
  bounded,     \* tasks whose wait began with a positive "wait_ms"
  matching,    \* tasks whose comm contains "onlycomm"
  needFence,   \* vm->need_tlb_fence
  lock,        \* holder of the VM reservation
  jobs,        \* every page table update so far, in submission order
  landed,      \* jobs 1..landed are written to the page table
  flushed,     \* jobs whose completion fence has signalled
  bumped,      \* jobs 1..bumped have run their deferred tlb_seq callback
  tlbSeq,      \* vm->tlb_seq
  lastFlushed, \* vm->kfd_last_flushed_seq
  pt,          \* the page table the GPU walks
  tlb,         \* per hub, the cached translation of each range
  pc,          \* where each task is
  call,        \* the ioctl each task is in
  fence,       \* the job whose fence the driver returned to the task
  guarded,     \* comm_ok() so far, and no wait of this call timed out
  covered      \* ranges whose last update was returned by a guarded ioctl

devVars  == <<jobs, landed, flushed, bumped, tlbSeq, lastFlushed, pt, tlb>>
taskVars == <<pc, call, fence, guarded>>
vars == <<bounded, matching, needFence, lock, devVars, taskVars, covered>>

-----------------------------------------------------------------------------
(* The mode flags tlbfix_init computes, and the filter of every hook. *)

DoSyncmap == Mode = "syncmap"
DoRemap   == Mode \in {"remapflush", "both"}
DoSync    == Mode \in {"syncflush", "both"}
DoFence   == Mode = "fence"

CommOk(t) == t \in matching

\* The fence of job i: the flush-completion fence when the update took the
\* fenced path, the page-table-write fence otherwise.
Signalled_ByWrite(i) == i <= landed
Signalled(i) == IF jobs[i].fenced THEN i \in flushed ELSE i <= landed

\* No update of the range of job i was submitted after it.
Newest(i) == \A j \in 1 .. Len(jobs) : j > i => jobs[j].va # jobs[i].va

TypeOK ==
  /\ bounded \in SUBSET Tasks
  /\ matching \in SUBSET Tasks
  /\ needFence \in BOOLEAN
  /\ lock \in Tasks \cup {NoTask}
  /\ jobs \in Seq(Jobs)
  /\ landed \in 0 .. Len(jobs)
  /\ flushed \in SUBSET (1 .. Len(jobs))
  /\ bumped \in 0 .. landed
  /\ tlbSeq \in Nat
  /\ lastFlushed \in Int
  /\ pt \in [VAs -> Targets]
  /\ tlb \in [Hubs -> [VAs -> Targets \cup {NoEntry}]]
  /\ pc \in [Tasks -> PCs]
  /\ call \in [Tasks -> Calls \cup {NoCall}]
  /\ \A t \in Tasks : call[t] = NoCall <=> pc[t] = "user"
  /\ fence \in [Tasks -> Nat]
  /\ guarded \in [Tasks -> BOOLEAN]
  /\ covered \in SUBSET VAs

\* A VM whose ranges are all unmapped; need_tlb_fence may already be set.
Init ==
  /\ bounded = {}
  /\ matching \in Filters
  /\ needFence \in BOOLEAN
  /\ lock = NoTask
  /\ jobs = << >>
  /\ landed = 0
  /\ flushed = {}
  /\ bumped = 0
  /\ tlbSeq = 0
  /\ lastFlushed = 0
  /\ pt = [v \in VAs |-> Hole]
  /\ tlb = [h \in Hubs |-> [v \in VAs |-> NoEntry]]
  /\ pc = [t \in Tasks |-> "user"]
  /\ call = [t \in Tasks |-> NoCall]
  /\ fence = [t \in Tasks |-> 0]
  /\ guarded = [t \in Tasks |-> FALSE]
  /\ covered = {}

-----------------------------------------------------------------------------
(* One ioctl of a task. *)

\* The pool maps or trims a range through the GEM VA or the KFD ioctl.
EnterIoctl(t, path, v, to) ==
  /\ pc[t] = "user"
  /\ pc' = [pc EXCEPT ![t] = "reserve"]
  /\ call' = [call EXCEPT ![t] = [path |-> path, va |-> v, to |-> to]]
  /\ UNCHANGED <<bounded, matching, needFence, lock, devVars, fence,
                 guarded, covered>>

Reserve(t) ==
  /\ pc[t] = "reserve"
  /\ lock = NoTask
  /\ lock' = t
  /\ pc' = [pc EXCEPT ![t] = "update"]
  /\ UNCHANGED <<bounded, matching, needFence, devVars, call, fence,
                 guarded, covered>>

\* (A) pre_update_range: the flags it leaves for amdgpu_vm_update_range.
ForcesFlush_Never(t) == FALSE
ForcesFence(t) == (DoFence \/ DoSyncmap) /\ IsCompute /\ CommOk(t)
ForcesFlush(t) == (DoRemap \/ DoSyncmap) /\ IsCompute /\ CommOk(t)

PreUpdateRange(t) == needFence' = (needFence \/ ForcesFence(t))

\* The KFD path drops the reservation before its hook waits, the GEM path
\* only when the ioctl returns.
ReleaseUnlessGem_Never(t) == lock' = lock
ReleaseUnlessGem(t) == lock' = IF call[t].path = "gem" THEN lock ELSE NoTask

\* The original function: hook (A), the update job, and the fence of the job.
\* The driver itself asks for a flush when it unmaps and never when it maps.
UpdateRange(t) ==
  LET flush == call[t].to = Hole \/ ForcesFlush(t) IN
  /\ pc[t] = "update"
  /\ Len(jobs) < MaxJobs
  /\ PreUpdateRange(t)
  /\ jobs' = Append(jobs, [va |-> call[t].va, to |-> call[t].to,
                           flush |-> flush, fenced |-> flush /\ needFence'])
  /\ fence' = [fence EXCEPT ![t] = Len(jobs) + 1]
  /\ guarded' = [guarded EXCEPT ![t] = DoSyncmap /\ IsCompute /\ CommOk(t)]
  /\ covered' = covered \ {call[t].va}
  /\ ReleaseUnlessGem(t)
  /\ pc' = [pc EXCEPT ![t] = "hook"]
  /\ UNCHANGED <<bounded, matching, landed, flushed, bumped, tlbSeq,
                 lastFlushed, pt, tlb, call>>

\* The original fails before it submits a job: no fence, or a nonzero ret.
UpdateFails(t) ==
  /\ pc[t] = "update"
  /\ fence' = [fence EXCEPT ![t] = 0]
  /\ guarded' = [guarded EXCEPT ![t] = FALSE]
  /\ ReleaseUnlessGem(t)
  /\ pc' = [pc EXCEPT ![t] = "hook"]
  /\ UNCHANGED <<bounded, matching, needFence, devVars, call, covered>>

AfterHook_Early(t) == IF call[t].path = "gem" THEN "user" ELSE "flush"
AfterHook(t) == IF call[t].path = "gem" THEN "leave" ELSE "flush"

\* (B) hooked_gemupd waits for the returned fence of a compute VM.
GemWaits(t) == DoSyncmap /\ fence[t] # 0 /\ CommOk(t) /\ IsCompute
\* (C) hooked_map and hooked_unmap wait on mem->sync after a success.
KfdWaits(t) == DoSyncmap /\ fence[t] # 0 /\ CommOk(t)

\* A wait reads "wait_ms" when it begins; it is writable (0644) at any time.
Hook(t) ==
  LET waits == IF call[t].path = "gem" THEN GemWaits(t) ELSE KfdWaits(t) IN
  /\ pc[t] = "hook"
  /\ pc' = [pc EXCEPT ![t] = IF waits THEN "wait" ELSE AfterHook(t)]
  /\ guarded' = [guarded EXCEPT ![t] = @ /\ waits]
  /\ \E positive \in WaitSettings :
       bounded' = IF waits /\ positive THEN bounded \cup {t} ELSE bounded
  /\ UNCHANGED <<matching, needFence, lock, devVars, call,
                 fence, covered>>

\* tlbfix_fence_wait and amdgpu_amdkfd_gpuvm_sync_memory return.
WaitDone(t) ==
  /\ pc[t] = "wait"
  /\ Signalled(fence[t])
  /\ bounded' = bounded \ {t}
  /\ pc' = [pc EXCEPT ![t] = AfterHook(t)]
  /\ UNCHANGED <<matching, needFence, lock, devVars, call,
                 fence, guarded, covered>>

\* tlbfix_fence_wait gives up after wait_ms, warns and proceeds.  The wait
\* of the KFD hooks takes no timeout.
WaitTimesOut(t) ==
  /\ pc[t] = "wait"
  /\ call[t].path = "gem"
  /\ t \in bounded
  /\ ~Signalled(fence[t])
  /\ bounded' = bounded \ {t}
  /\ pc' = [pc EXCEPT ![t] = AfterHook(t)]
  /\ guarded' = [guarded EXCEPT ![t] = FALSE]
  /\ UNCHANGED <<matching, needFence, lock, devVars, call,
                 fence, covered>>

\* pre_compute_tlb backs kfd_last_flushed_seq off, so the check cannot skip.
LastSeen_Kept(t) == lastFlushed
LastSeen(t) == IF DoSync /\ CommOk(t) THEN tlbSeq - 1 ELSE lastFlushed

\* pre_flush_pasid widens a flush to every hub; the driver picks otherwise.
FlushedHubs(t) ==
  IF DoSync /\ ForceAllHub /\ CommOk(t) THEN {Hubs} ELSE (SUBSET Hubs) \ {{}}

Invalidate(H) ==
  tlb' = [h \in Hubs |-> IF h \in H THEN [v \in VAs |-> NoEntry] ELSE tlb[h]]

\* Under syncflush the ioctl covers its range when the write had landed
\* before the flush it forced.
CoverByFlush(t) ==
  guarded' = [guarded EXCEPT ![t] =
                IF DoSync
                THEN /\ ForceAllHub /\ CommOk(t)
                     /\ fence[t] # 0 /\ fence[t] <= landed
                ELSE @]

\* amdgpu_vm_flush_compute_tlb sees tlb_seq = kfd_last_flushed_seq and skips.
ComputeFlushSkipped(t) ==
  /\ pc[t] = "flush"
  /\ tlbSeq = LastSeen(t)
  /\ CoverByFlush(t)
  /\ pc' = [pc EXCEPT ![t] = "leave"]
  /\ UNCHANGED <<bounded, matching, needFence, lock, devVars, call,
                 fence, covered>>

ComputeFlush(t) ==
  /\ pc[t] = "flush"
  /\ tlbSeq # LastSeen(t)
  /\ \E H \in FlushedHubs(t) : Invalidate(H)
  /\ lastFlushed' = tlbSeq
  /\ CoverByFlush(t)
  /\ pc' = [pc EXCEPT ![t] = "leave"]
  /\ UNCHANGED <<bounded, matching, needFence, lock, jobs, landed,
                 flushed, bumped, tlbSeq, pt, call, fence, covered>>

\* The ioctl returns to the pool.  The range counts as covered when the
\* fixed call was the last to update it.
ReturnToUser(t) ==
  /\ pc[t] = "leave"
  /\ lock' = IF lock = t THEN NoTask ELSE lock
  /\ covered' = IF guarded[t] /\ Newest(fence[t])
                THEN covered \cup {call[t].va} ELSE covered
  /\ pc' = [pc EXCEPT ![t] = "user"]
  /\ fence' = [fence EXCEPT ![t] = 0]
  /\ guarded' = [guarded EXCEPT ![t] = FALSE]
  /\ call' = [call EXCEPT ![t] = NoCall]
  /\ UNCHANGED <<bounded, matching, needFence, devVars>>

-----------------------------------------------------------------------------
(* The device, its workers, and the operator. *)

\* The oldest update is written to the page table.
Land ==
  /\ landed < Len(jobs)
  /\ landed' = landed + 1
  /\ pt' = [pt EXCEPT ![jobs[landed + 1].va] = jobs[landed + 1].to]
  /\ UNCHANGED <<bounded, matching, needFence, lock, jobs, flushed,
                 bumped, tlbSeq, lastFlushed, tlb, taskVars, covered>>

\* The dma_fence callback of a landed job bumps tlb_seq if it had flush_tlb.
SeqBump ==
  /\ bumped < landed
  /\ bumped' = bumped + 1
  /\ tlbSeq' = IF jobs[bumped + 1].flush THEN tlbSeq + 1 ELSE tlbSeq
  /\ UNCHANGED <<bounded, matching, needFence, lock, jobs, landed,
                 flushed, lastFlushed, pt, tlb, taskVars, covered>>

\* amdgpu_tlb_fence_work waits for the write, flushes all hubs and signals.
WorkReady_InOrder(i) ==
  i <= landed /\ jobs[i].fenced /\ i \notin flushed /\ \A j \in flushed : j < i
WorkReady(i) == i <= landed /\ jobs[i].fenced /\ i \notin flushed

FlushWork(i) ==
  /\ WorkReady(i)
  /\ flushed' = flushed \cup {i}
  /\ Invalidate(Hubs)
  /\ UNCHANGED <<bounded, matching, needFence, lock, jobs, landed,
                 bumped, tlbSeq, lastFlushed, pt, taskVars, covered>>

\* A walk caches what the page table holds, an unmapped entry included.
TlbFill(h, v) ==
  /\ tlb[h][v] = NoEntry
  /\ tlb' = [tlb EXCEPT ![h][v] = pt[v]]
  /\ UNCHANGED <<bounded, matching, needFence, lock, jobs, landed,
                 flushed, bumped, tlbSeq, lastFlushed, pt, taskVars, covered>>

TlbEvict(h, v) ==
  /\ tlb[h][v] # NoEntry
  /\ tlb' = [tlb EXCEPT ![h][v] = NoEntry]
  /\ UNCHANGED <<bounded, matching, needFence, lock, jobs, landed,
                 flushed, bumped, tlbSeq, lastFlushed, pt, taskVars, covered>>

\* "onlycomm" is writable (0644) while calls are in flight.
WriteOnlycomm(S) ==
  /\ S # matching
  /\ matching' = S
  /\ UNCHANGED <<bounded, needFence, lock, devVars, taskVars, covered>>

-----------------------------------------------------------------------------
TaskStep(t) ==
  \/ Reserve(t)
  \/ UpdateRange(t) \/ UpdateFails(t)
  \/ Hook(t) \/ WaitDone(t) \/ WaitTimesOut(t)
  \/ ComputeFlushSkipped(t) \/ ComputeFlush(t)
  \/ ReturnToUser(t)

DeviceStep ==
  \/ Land \/ SeqBump
  \/ \E i \in 1 .. Len(jobs) : FlushWork(i)
  \/ \E h \in Hubs, v \in VAs : TlbFill(h, v) \/ TlbEvict(h, v)

Next ==
  \/ \E t \in Tasks :
       \/ \E path \in Paths, v \in VAs, to \in Targets :
            EnterIoctl(t, path, v, to)
       \/ TaskStep(t)
  \/ DeviceStep
  \/ \E S \in Filters : WriteOnlycomm(S)

Spec == Init /\ [][Next]_vars

\* A task inside an ioctl runs whenever it is not blocked; the reservation is
\* handed to its waiters in turn.
TaskFairness ==
  \A t \in Tasks : WF_vars(TaskStep(t)) /\ SF_vars(Reserve(t))

\* A GPU that is not hung writes every update and runs every flush worker.
DeviceFairness ==
  /\ WF_vars(Land)
  /\ WF_vars(\E i \in 1 .. Len(jobs) : FlushWork(i))

WorkingGpuSpec == Spec /\ DeviceFairness
HungGpuSpec    == Spec /\ TaskFairness
-----------------------------------------------------------------------------
(* Properties *)

\* The last update of v is what every GPU access to v now sees.
Coherent(v) ==
  \A i \in 1 .. Len(jobs) :
    jobs[i].va = v /\ Newest(i) =>
      /\ i <= landed
      /\ pt[v] = jobs[i].to
      /\ \A h \in Hubs : tlb[h][v] \in {NoEntry, jobs[i].to}

\* A range whose last map or unmap came back through the hooks, with the
\* filter matching and no timed-out wait, is never translated through a stale
\* TLB entry or a page table write that has not landed: the stream may run on
\* it, and a trimmed page may be reused.
CoveredIsCoherent == \A v \in covered : Coherent(v)

\* Why that holds at every step.  Landed jobs are what the page table holds; a
\* signalled flush fence means the write landed first and nothing older was
\* cached since; a guarded task carries the fence of a fenced job, and past
\* its wait that fence has signalled.
Returned == {"hook", "wait", "flush", "leave"}
PageTableInv ==
  \A i \in 1 .. landed :
    (\A j \in 1 .. landed : j > i => jobs[j].va # jobs[i].va)
      => pt[jobs[i].va] = jobs[i].to
Settled(i) == \A v \in VAs : jobs[i].va = v /\ Newest(i) => Coherent(v)
FlushInv == \A i \in flushed : i <= landed /\ Settled(i)
FenceInv ==
  \A t \in Tasks : pc[t] \in Returned /\ fence[t] # 0 =>
    fence[t] \in 1 .. Len(jobs) /\ jobs[fence[t]].va = call[t].va
GuardInv ==
  \A t \in Tasks : guarded[t] /\ pc[t] \in Returned =>
    /\ fence[t] # 0
    /\ DoSyncmap => /\ jobs[fence[t]].fenced
                    /\ pc[t] \in {"flush", "leave"} => fence[t] \in flushed
    /\ ~DoSyncmap => /\ pc[t] = "leave"
                     /\ \A i \in 1 .. Len(jobs) : fence[t] = i => Settled(i)
CoherenceInv ==
  PageTableInv /\ FlushInv /\ FenceInv /\ GuardInv /\ CoveredIsCoherent

\* What the pool observes of the model: the translation last asked for, and
\* those an access may meet now or once the submitted writes have landed.
Last(v) == {j \in 1 .. Len(jobs) : jobs[j].va = v /\ Newest(j)}
Goal(v) ==
  IF Last(v) = {} THEN Hole ELSE jobs[CHOOSE j \in Last(v) : TRUE].to
Seen(v) ==
  ({pt[v]} \cup {tlb[h][v] : h \in Hubs}
     \cup {jobs[j].to : j \in {k \in landed + 1 .. Len(jobs) : jobs[k].va = v}})
  \ {NoEntry}

\* The fix keeps its promise to the pool: every step of the hooks, the driver
\* and the GPU is one of AddressSpace, or changes nothing the pool observes.
Promise ==
  INSTANCE AddressSpace WITH goal <- [v \in VAs |-> Goal(v)],
                             seen <- [v \in VAs |-> Seen(v)],
                             settled <- covered
KeepsPromise == Promise!Spec

\* The added waits never wedge a task: with a GPU that makes progress every
\* map and unmap returns, the tasks queued on the VM reservation included.
IoctlReturns ==
  DeviceFairness => \A t \in Tasks : (pc[t] # "user") ~> (pc[t] = "user")

\* The waits of the ioctls of a path in progress began with wait_ms > 0.
WaitsBounded(path) ==
  \A t \in Tasks : pc[t] = "wait" /\ call[t].path = path => t \in bounded

\* Once every GEM wait begins with wait_ms > 0, a GEM VA ioctl returns even when
\* the GPU is hung, and so do the ones queued behind it on the reservation it
\* holds while it waits, however wait_ms was written before.
GemIoctlReturns ==
  <>[]WaitsBounded("gem") =>
    \A t \in Tasks :
      (pc[t] # "user" /\ call[t].path = "gem") ~> (pc[t] = "user")

\* wait_ms is the most a map or unmap waits on the flush of its range, so a
\* KFD ioctl returns too when wait_ms > 0 and the GPU is hung.
KfdIoctlReturns ==
  <>[]WaitsBounded("kfd") =>
    \A t \in Tasks :
      (pc[t] # "user" /\ call[t].path = "kfd") ~> (pc[t] = "user")

\* Hook (A) alone (remapflush) creates a flush for every update of a VM that
\* has need_tlb_fence: nobody waits for it, but stale entries do not stay.
RemapsConverge == needFence => \A v \in VAs : <>[]Coherent(v)
=============================================================================
