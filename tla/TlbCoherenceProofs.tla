------------------------- MODULE TlbCoherenceProofs -------------------------
(***************************************************************************)
(* Proofs about TlbCoherence for every set of tasks, ranges, pages and     *)
(* hubs, every mode and every parameter.                                   *)
(***************************************************************************)
EXTENDS TlbCoherence, TLAPS

-----------------------------------------------------------------------------
(* Type correctness. *)

\* The history, the page table, the TLBs and the tasks keep their types
\* whatever the tasks, the device and the operator do.
THEOREM TypeCorrect == Spec => []TypeOK
<1> USE SentinelAssumption, ParamAssumption
<1>1. Init => TypeOK
  BY DEF Init, TypeOK, Targets, PCs
<1>2. TypeOK /\ [Next]_vars => TypeOK'
  <2> SUFFICES ASSUME TypeOK, [Next]_vars PROVE TypeOK'
    OBVIOUS
  <2>1. ASSUME NEW t \in Tasks, NEW path \in Paths, NEW v \in VAs,
               NEW to \in Targets, EnterIoctl(t, path, v, to)
        PROVE  TypeOK'
    BY <2>1 DEF TypeOK, EnterIoctl, devVars, PCs, Calls
  <2>2. ASSUME NEW t \in Tasks, Reserve(t) PROVE TypeOK'
    BY <2>2 DEF TypeOK, Reserve, devVars, PCs
  <2>3. ASSUME NEW t \in Tasks, UpdateRange(t) PROVE TypeOK'
    <3> DEFINE flush == call[t].to = Hole \/ ForcesFlush(t)
               job == [va |-> call[t].va, to |-> call[t].to,
                       flush |-> flush, fenced |-> flush /\ needFence']
    <3>1. needFence' \in BOOLEAN
      BY <2>3 DEF TypeOK, UpdateRange, PreUpdateRange
    <3>2. flush \in BOOLEAN /\ (flush /\ needFence') \in BOOLEAN
      BY <3>1 DEF ForcesFlush
    <3>3. pc[t] # "user" /\ call[t] \in Calls
      BY <2>3 DEF TypeOK, UpdateRange
    <3>4. job \in Jobs
      BY <3>2, <3>3 DEF Jobs, Calls
    <3>5. /\ jobs' \in Seq(Jobs)
          /\ Len(jobs') = Len(jobs) + 1
      BY <2>3, <3>4 DEF TypeOK, UpdateRange
    <3>6. /\ lock' \in Tasks \cup {NoTask}
          /\ pc' \in [Tasks -> PCs]
          /\ \A u \in Tasks : call'[u] = NoCall <=> pc'[u] = "user"
      BY <2>3, <3>3 DEF TypeOK, UpdateRange, ReleaseUnlessGem, PCs
    <3>7. /\ fence' \in [Tasks -> Nat]
          /\ guarded' \in [Tasks -> BOOLEAN]
          /\ covered' \in SUBSET VAs
      BY <2>3 DEF TypeOK, UpdateRange, CommOk, DoSyncmap
    <3> QED
      BY <2>3, <3>1, <3>5, <3>6, <3>7 DEF TypeOK, UpdateRange
  <2>4. ASSUME NEW t \in Tasks, UpdateFails(t) PROVE TypeOK'
    BY <2>4 DEF TypeOK, UpdateFails, ReleaseUnlessGem, devVars, PCs
  <2>5. ASSUME NEW t \in Tasks, Hook(t) PROVE TypeOK'
    BY <2>5 DEF TypeOK, Hook, AfterHook, GemWaits, KfdWaits, CommOk,
                DoSyncmap, devVars, PCs
  <2>6. ASSUME NEW t \in Tasks, WaitDone(t) PROVE TypeOK'
    BY <2>6 DEF TypeOK, WaitDone, AfterHook, devVars, PCs
  <2>7. ASSUME NEW t \in Tasks, WaitTimesOut(t) PROVE TypeOK'
    BY <2>7 DEF TypeOK, WaitTimesOut, AfterHook, devVars, PCs
  <2>8. ASSUME NEW t \in Tasks, ComputeFlushSkipped(t) PROVE TypeOK'
    BY <2>8 DEF TypeOK, ComputeFlushSkipped, CoverByFlush, CommOk, DoSync,
                devVars, PCs
  <2>9. ASSUME NEW t \in Tasks, ComputeFlush(t) PROVE TypeOK'
    <3>1. PICK H \in FlushedHubs(t) : Invalidate(H)
      BY <2>9 DEF ComputeFlush
    <3>2. tlb' \in [Hubs -> [VAs -> Targets \cup {NoEntry}]]
      BY <3>1 DEF TypeOK, Invalidate
    <3>3. lastFlushed' \in Int
      BY <2>9 DEF TypeOK, ComputeFlush
    <3>4. guarded' \in [Tasks -> BOOLEAN]
      BY <2>9 DEF TypeOK, ComputeFlush, CoverByFlush, CommOk, DoSync
    <3> QED
      BY <2>9, <3>2, <3>3, <3>4 DEF TypeOK, ComputeFlush, PCs
  <2>10. ASSUME NEW t \in Tasks, ReturnToUser(t) PROVE TypeOK'
    BY <2>10 DEF TypeOK, ReturnToUser, devVars, PCs, Calls
  <2>11. ASSUME Land PROVE TypeOK'
    <3>1. landed' \in 0 .. Len(jobs') /\ bumped' \in 0 .. landed'
      BY <2>11 DEF TypeOK, Land
    <3>2. jobs[landed + 1] \in Jobs
      BY <2>11 DEF TypeOK, Land
    <3>3. pt' \in [VAs -> Targets]
      BY <2>11, <3>2 DEF TypeOK, Land, Jobs
    <3> QED
      BY <2>11, <3>1, <3>3 DEF TypeOK, Land, taskVars
  <2>12. ASSUME SeqBump PROVE TypeOK'
    BY <2>12 DEF TypeOK, SeqBump, taskVars
  <2>13. ASSUME NEW i \in 1 .. Len(jobs), FlushWork(i) PROVE TypeOK'
    BY <2>13 DEF TypeOK, FlushWork, WorkReady, Invalidate, taskVars
  <2>14. ASSUME NEW h \in Hubs, NEW v \in VAs, TlbFill(h, v) PROVE TypeOK'
    BY <2>14 DEF TypeOK, TlbFill, taskVars
  <2>15. ASSUME NEW h \in Hubs, NEW v \in VAs, TlbEvict(h, v) PROVE TypeOK'
    BY <2>15 DEF TypeOK, TlbEvict, taskVars
  <2>16. ASSUME NEW S \in Filters, WriteOnlycomm(S) PROVE TypeOK'
    BY <2>16 DEF TypeOK, WriteOnlycomm, devVars, taskVars
  <2>17. CASE UNCHANGED vars
    BY <2>17 DEF TypeOK, vars, devVars, taskVars
  <2> QED
    BY <2>1, <2>2, <2>3, <2>4, <2>5, <2>6, <2>7, <2>8, <2>9, <2>10, <2>11,
       <2>12, <2>13, <2>14, <2>15, <2>16, <2>17
       DEF Next, TaskStep, DeviceStep
<1> QED
  BY <1>1, <1>2, PTL DEF Spec

-----------------------------------------------------------------------------
(* What disturbs the coherence of a range. *)

\* Every index of the history is an update of a range.
LEMMA JobFacts ==
  ASSUME TypeOK
  PROVE  /\ Len(jobs) \in Nat
         /\ landed \in Nat /\ landed <= Len(jobs)
         /\ \A i \in 1 .. Len(jobs) :
              jobs[i] \in Jobs /\ jobs[i].va \in VAs /\ jobs[i].to \in Targets
<1>1. \A i \in 1 .. Len(jobs) : jobs[i] \in Jobs
  BY DEF TypeOK
<1>2. \A j \in Jobs : j.va \in VAs /\ j.to \in Targets
  BY DEF Jobs
<1> QED
  BY <1>1, <1>2 DEF TypeOK

\* Submitting an update of another range leaves a coherent range coherent.
LEMMA CoherentAppend ==
  ASSUME TypeOK, NEW v \in VAs, NEW job \in Jobs, job.va # v,
         jobs' = Append(jobs, job), UNCHANGED <<landed, pt, tlb>>, Coherent(v)
  PROVE  Coherent(v)'
<1> SUFFICES ASSUME NEW i \in 1 .. Len(jobs'), jobs'[i].va = v, Newest(i)'
             PROVE  /\ i <= landed /\ pt[v] = jobs'[i].to
                    /\ \A h \in Hubs : tlb[h][v] \in {NoEntry, jobs'[i].to}
  BY DEF Coherent
<1>1. /\ Len(jobs') = Len(jobs) + 1
      /\ Len(jobs) \in Nat
      /\ jobs'[Len(jobs) + 1] = job
      /\ \A k \in 1 .. Len(jobs) : jobs'[k] = jobs[k]
  BY DEF TypeOK
<1>2. i \in 1 .. Len(jobs) /\ jobs'[i] = jobs[i]
  BY <1>1
<1>3. Newest(i)
  BY <1>1, <1>2 DEF Newest
<1> QED
  BY <1>2, <1>3 DEF Coherent

\* Writing the next update to the page table does too: the last update of a
\* coherent range has landed already.
LEMMA CoherentLand ==
  ASSUME TypeOK, NEW v \in VAs, Land, Coherent(v)
  PROVE  Coherent(v)'
<1> SUFFICES ASSUME NEW i \in 1 .. Len(jobs), jobs[i].va = v, Newest(i)
             PROVE  /\ i <= landed' /\ pt'[v] = jobs[i].to
                    /\ \A h \in Hubs : tlb'[h][v] \in {NoEntry, jobs[i].to}
  BY DEF Coherent, Newest, Land
<1>1. /\ i <= landed /\ pt[v] = jobs[i].to
      /\ \A h \in Hubs : tlb[h][v] \in {NoEntry, jobs[i].to}
  BY DEF Coherent
<1>2. jobs[landed + 1].va # v
  BY <1>1 DEF Land, Newest, TypeOK
<1> QED
  BY <1>1, <1>2 DEF Land, TypeOK

\* A step that keeps the history and every coherent range keeps the settled
\* updates settled.
LEMMA SettledKeeps ==
  ASSUME UNCHANGED jobs, \A v \in VAs : Coherent(v) => Coherent(v)',
         NEW i, Settled(i)
  PROVE  Settled(i)'
BY DEF Settled, Newest

\* Invalidating TLBs does.
LEMMA CoherentInvalidate ==
  ASSUME NEW v \in VAs, NEW H, Invalidate(H), UNCHANGED <<jobs, landed, pt>>,
         Coherent(v)
  PROVE  Coherent(v)'
BY DEF Coherent, Newest, Invalidate

\* Filling or evicting one TLB entry does.
LEMMA CoherentCache ==
  ASSUME TypeOK, NEW v \in VAs, NEW h \in Hubs, NEW w \in VAs,
         TlbFill(h, w) \/ TlbEvict(h, w), Coherent(v)
  PROVE  Coherent(v)'
<1>1. UNCHANGED <<jobs, landed, pt>>
  BY DEF TlbFill, TlbEvict
<1>2. PICK e \in {NoEntry, pt[w]} : tlb' = [tlb EXCEPT ![h][w] = e]
  BY DEF TlbFill, TlbEvict
<1>3. tlb \in [Hubs -> [VAs -> Targets \cup {NoEntry}]]
  BY DEF TypeOK
<1>4. \A g \in Hubs : tlb'[g][v] \in {tlb[g][v], NoEntry, pt[v]}
  BY <1>2, <1>3
<1> QED
  BY <1>1, <1>4 DEF Coherent, Newest

\* An update is settled once it has landed and every hub is invalidated.
LEMMA SettledByFlush ==
  ASSUME TypeOK, PageTableInv, NEW i \in 1 .. Len(jobs), i <= landed,
         Invalidate(Hubs), UNCHANGED <<jobs, landed, pt>>
  PROVE  Settled(i)'
<1> SUFFICES ASSUME NEW v \in VAs, jobs[i].va = v, Newest(i),
                    NEW k \in 1 .. Len(jobs), jobs[k].va = v, Newest(k)
             PROVE  /\ k <= landed /\ pt[v] = jobs[k].to
                    /\ \A h \in Hubs : tlb'[h][v] \in {NoEntry, jobs[k].to}
  BY DEF Settled, Coherent, Newest
<1>1. k = i
  BY DEF Newest
<1>2. \A j \in 1 .. landed : j > i => jobs[j].va # jobs[i].va
  BY JobFacts DEF Newest
<1>3. pt[v] = jobs[i].to
  BY <1>2, JobFacts DEF PageTableInv
<1>4. \A h \in Hubs : tlb'[h][v] = NoEntry
  BY DEF Invalidate
<1> QED
  BY <1>1, <1>3, <1>4

-----------------------------------------------------------------------------
(* The inductive invariant. *)

\* A step of a task that touches neither the device nor "covered" preserves
\* the invariant when it keeps the facts about the task's fence.
LEMMA QuietStep ==
  ASSUME TypeOK, CoherenceInv, UNCHANGED <<devVars, covered>>,
         FenceInv', GuardInv'
  PROVE  CoherenceInv'
BY DEF CoherenceInv, PageTableInv, FlushInv, CoveredIsCoherent, Settled,
       Coherent, Newest, devVars

\* A step of the device that leaves the history alone preserves it when every
\* coherent range stays coherent and every flush it signals is justified.
LEMMA DeviceKeeps ==
  ASSUME TypeOK, CoherenceInv, UNCHANGED <<jobs, taskVars, covered>>,
         PageTableInv', landed' \in Nat, landed <= landed',
         flushed \subseteq flushed',
         \A i \in flushed' \ flushed : i <= landed' /\ Settled(i)',
         \A v \in VAs : Coherent(v) => Coherent(v)'
  PROVE  CoherenceInv'
<1>1. \A i \in 1 .. Len(jobs) : Settled(i) => Settled(i)'
  BY SettledKeeps
<1>2. FenceInv'
  BY DEF CoherenceInv, FenceInv, taskVars
<1>3. GuardInv'
  BY <1>1 DEF CoherenceInv, GuardInv, taskVars
<1>4. CoveredIsCoherent'
  BY DEF CoherenceInv, CoveredIsCoherent, TypeOK
<1>5. FlushInv'
  <2> SUFFICES ASSUME NEW i \in flushed' PROVE i <= landed' /\ Settled(i)'
    BY DEF FlushInv
  <2>1. CASE i \in flushed
    BY <2>1, <1>1, JobFacts DEF CoherenceInv, FlushInv, TypeOK
  <2>2. CASE i \notin flushed
    BY <2>2
  <2> QED
    BY <2>1, <2>2
<1> QED
  BY <1>2, <1>3, <1>4, <1>5 DEF CoherenceInv

\* The update a task submits: its range is no longer covered, its fence is the
\* new job, and that job is fenced when the task is guarded.
LEMMA UpdateRangeKeeps ==
  ASSUME TypeOK, TypeOK', CoherenceInv, NEW t \in Tasks, UpdateRange(t)
  PROVE  CoherenceInv'
<1> DEFINE n == Len(jobs) + 1
<1>1. /\ n \in Nat /\ Len(jobs') = n
      /\ jobs'[n].va = call[t].va
      /\ jobs'[n] \in Jobs
      /\ jobs' = Append(jobs, jobs'[n])
      /\ \A k \in 1 .. Len(jobs) : jobs'[k] = jobs[k]
  BY DEF TypeOK, UpdateRange
<1>2. UNCHANGED <<landed, flushed, pt, tlb, call>> /\ covered' = covered \ {call[t].va}
  BY DEF UpdateRange
<1>3. \A v \in VAs : v # call[t].va /\ Coherent(v) => Coherent(v)'
  BY <1>1, <1>2, CoherentAppend
<1>4. \A i \in 1 .. Len(jobs) : Settled(i) => Settled(i)'
  <2> SUFFICES ASSUME NEW i \in 1 .. Len(jobs), Settled(i),
                      NEW v \in VAs, jobs[i].va = v, Newest(i)'
               PROVE  Coherent(v)'
    BY <1>1 DEF Settled
  <2>1. Newest(i) /\ v # call[t].va
    BY <1>1 DEF Newest
  <2> QED
    BY <2>1, <1>3 DEF Settled
<1>5. PageTableInv'
  <2>1. \A i \in 1 .. landed : i \in 1 .. Len(jobs)
    BY JobFacts
  <2> QED
    BY <2>1, <1>1, <1>2 DEF CoherenceInv, PageTableInv
<1>6. FlushInv'
  BY <1>2, <1>4 DEF CoherenceInv, FlushInv, TypeOK
<1>7. CoveredIsCoherent'
  BY <1>2, <1>3 DEF CoherenceInv, CoveredIsCoherent, TypeOK
<1>8. FenceInv'
  BY <1>1, <1>2 DEF CoherenceInv, FenceInv, UpdateRange, TypeOK, Returned
<1>9. GuardInv'
  <2> SUFFICES ASSUME NEW u \in Tasks, guarded'[u], pc'[u] \in Returned
               PROVE  /\ fence'[u] # 0
                      /\ DoSyncmap =>
                           /\ jobs'[fence'[u]].fenced
                           /\ pc'[u] \in {"flush", "leave"} =>
                                fence'[u] \in flushed'
                      /\ ~DoSyncmap =>
                           /\ pc'[u] = "leave"
                           /\ \A i \in 1 .. n :
                                fence'[u] = i => Settled(i)'
    BY <1>1 DEF GuardInv, DoSyncmap
  <2>1. CASE u = t
    <3>1. /\ fence'[t] = n /\ pc'[t] = "hook"
          /\ DoSyncmap /\ IsCompute /\ CommOk(t)
      BY <2>1 DEF UpdateRange, TypeOK
    <3>2. jobs'[n].fenced
      BY <3>1 DEF UpdateRange, PreUpdateRange, ForcesFence, ForcesFlush, TypeOK
    <3> QED
      BY <2>1, <1>1, <3>1, <3>2
  <2>2. CASE u # t
    <3>1. /\ guarded[u] /\ pc[u] \in Returned
          /\ fence'[u] = fence[u] /\ pc'[u] = pc[u] /\ call'[u] = call[u]
      BY <2>2 DEF UpdateRange, TypeOK
    <3>2. fence[u] \in 1 .. Len(jobs) /\ jobs[fence[u]].va = call[u].va
      BY <3>1 DEF CoherenceInv, FenceInv, GuardInv
    <3> QED
      BY <3>1, <3>2, <1>1, <1>2, <1>4 DEF CoherenceInv, GuardInv
  <2> QED
    BY <2>1, <2>2
<1> QED
  BY <1>5, <1>6, <1>7, <1>8, <1>9 DEF CoherenceInv

\* The KFD flush: under syncflush it covers what had landed before it.
LEMMA ComputeFlushKeeps ==
  ASSUME TypeOK, CoherenceInv, NEW t \in Tasks, ComputeFlush(t)
  PROVE  CoherenceInv'
<1>1. PICK H \in FlushedHubs(t) : Invalidate(H)
  BY DEF ComputeFlush
<1>2. UNCHANGED <<jobs, landed, flushed, pt, call, fence, covered>>
  BY DEF ComputeFlush
<1>3. \A v \in VAs : Coherent(v) => Coherent(v)'
  BY <1>1, <1>2, CoherentInvalidate
<1>4. \A i \in 1 .. Len(jobs) : Settled(i) => Settled(i)'
  BY <1>2, <1>3, SettledKeeps
<1>5. PageTableInv' /\ FenceInv'
  BY <1>2 DEF CoherenceInv, PageTableInv, FenceInv, ComputeFlush, TypeOK, Returned
<1>6. FlushInv' /\ CoveredIsCoherent'
  BY <1>2, <1>3, <1>4 DEF CoherenceInv, FlushInv, CoveredIsCoherent, TypeOK
<1>7. GuardInv'
  <2> SUFFICES ASSUME NEW u \in Tasks, guarded'[u], pc'[u] \in Returned
               PROVE  /\ fence[u] # 0
                      /\ DoSyncmap =>
                           /\ jobs[fence[u]].fenced
                           /\ pc'[u] \in {"flush", "leave"} =>
                                fence[u] \in flushed
                      /\ ~DoSyncmap =>
                           /\ pc'[u] = "leave"
                           /\ \A i \in 1 .. Len(jobs) :
                                fence[u] = i => Settled(i)'
    BY <1>2 DEF GuardInv, DoSyncmap
  <2>1. CASE u # t
    <3>1. guarded[u] /\ pc[u] \in Returned /\ pc'[u] = pc[u]
      BY <2>1 DEF ComputeFlush, CoverByFlush, TypeOK
    <3> QED
      BY <3>1, <1>4 DEF CoherenceInv, GuardInv
  <2>2. CASE u = t /\ DoSync
    <3>1. /\ ForceAllHub /\ CommOk(t) /\ fence[t] # 0 /\ fence[t] <= landed
          /\ pc'[t] = "leave"
      BY <2>2 DEF ComputeFlush, CoverByFlush, TypeOK
    <3>2. Invalidate(Hubs)
      BY <1>1, <2>2, <3>1 DEF FlushedHubs
    <3>3. \A i \in 1 .. Len(jobs) : fence[t] = i => Settled(i)'
      BY <1>2, <3>1, <3>2, SettledByFlush DEF CoherenceInv
    <3> QED
      BY <2>2, <3>1, <3>3 DEF DoSync, DoSyncmap
  <2>3. CASE u = t /\ ~DoSync
    <3>1. guarded[t] /\ pc[t] = "flush" /\ pc'[t] = "leave"
      BY <2>3 DEF ComputeFlush, CoverByFlush, TypeOK
    <3> QED
      BY <2>3, <3>1 DEF CoherenceInv, GuardInv, Returned
  <2> QED
    BY <2>1, <2>2, <2>3
<1> QED
  BY <1>5, <1>6, <1>7 DEF CoherenceInv

\* The write of the next job.
LEMMA LandKeeps ==
  ASSUME TypeOK, CoherenceInv, Land
  PROVE  CoherenceInv'
<1> DEFINE n == landed + 1
<1>1. /\ n \in 1 .. Len(jobs) /\ landed' = n
      /\ jobs[n].va \in VAs /\ UNCHANGED <<jobs, flushed, taskVars, covered>>
      /\ pt' = [pt EXCEPT ![jobs[n].va] = jobs[n].to]
  BY JobFacts DEF Land
<1>2. PageTableInv'
  <2> SUFFICES ASSUME NEW i \in 1 .. n,
                      \A j \in 1 .. n : j > i => jobs[j].va # jobs[i].va
               PROVE  pt'[jobs[i].va] = jobs[i].to
    BY <1>1 DEF PageTableInv
  <2>1. CASE i = n
    BY <2>1, <1>1 DEF TypeOK
  <2>2. CASE i # n
    <3>1. i \in 1 .. landed /\ jobs[n].va # jobs[i].va
      BY <2>2, <1>1 DEF TypeOK
    <3>2. pt[jobs[i].va] = jobs[i].to
      BY <3>1 DEF CoherenceInv, PageTableInv, TypeOK
    <3> QED
      BY <3>1, <3>2, <1>1 DEF TypeOK
  <2> QED
    BY <2>1, <2>2
<1>3. \A v \in VAs : Coherent(v) => Coherent(v)'
  BY CoherentLand
<1> QED
  BY <1>1, <1>2, <1>3, DeviceKeeps, JobFacts

\* The flush worker of job i signals its fence.
LEMMA FlushWorkKeeps ==
  ASSUME TypeOK, CoherenceInv, NEW i \in 1 .. Len(jobs), FlushWork(i)
  PROVE  CoherenceInv'
<1>1. /\ UNCHANGED <<jobs, landed, pt, taskVars, covered>>
      /\ flushed' = flushed \cup {i} /\ Invalidate(Hubs) /\ i <= landed
  BY DEF FlushWork, WorkReady
<1>2. \A v \in VAs : Coherent(v) => Coherent(v)'
  BY <1>1, CoherentInvalidate
<1>3. Settled(i)'
  BY <1>1, SettledByFlush DEF CoherenceInv
<1>4. PageTableInv'
  BY <1>1 DEF CoherenceInv, PageTableInv
<1> QED
  BY <1>1, <1>2, <1>3, <1>4, DeviceKeeps, JobFacts

\* A hook decides whether to wait: the guarded task keeps its fenced job, and
\* skips the wait only by giving up its guard.
LEMMA HookKeeps ==
  ASSUME TypeOK, CoherenceInv, NEW t \in Tasks, Hook(t)
  PROVE  CoherenceInv'
<1>1. UNCHANGED <<devVars, covered, call, fence>>
  BY DEF Hook
<1>2. \A u \in Tasks :
        /\ guarded'[u] => guarded[u]
        /\ pc'[u] \in Returned => pc[u] \in Returned
        /\ u # t => pc'[u] = pc[u]
  BY DEF Hook, AfterHook, TypeOK, Returned
<1>3. FenceInv'
  BY <1>1, <1>2 DEF CoherenceInv, FenceInv, devVars
<1>4. guarded'[t] => guarded[t] /\ pc[t] = "hook" /\ pc'[t] = "wait"
  BY DEF Hook, TypeOK
<1>5. GuardInv'
  BY <1>1, <1>2, <1>4
     DEF CoherenceInv, GuardInv, devVars, DoSyncmap, Settled, Newest,
         Coherent, Returned
<1> QED
  BY <1>1, <1>3, <1>5, QuietStep

\* The wait ends because the fence of the fenced job has signalled, or it
\* times out and the task gives up its guard.
LEMMA WaitKeeps ==
  ASSUME TypeOK, CoherenceInv, NEW t \in Tasks, WaitDone(t) \/ WaitTimesOut(t)
  PROVE  CoherenceInv'
<1>1. UNCHANGED <<devVars, covered, call, fence>>
  BY DEF WaitDone, WaitTimesOut
<1>2. \A u \in Tasks :
        /\ guarded'[u] => guarded[u]
        /\ pc'[u] \in Returned => pc[u] \in Returned
        /\ u # t => pc'[u] = pc[u]
  BY DEF WaitDone, WaitTimesOut, AfterHook, TypeOK, Returned
<1>3. FenceInv'
  BY <1>1, <1>2 DEF CoherenceInv, FenceInv, devVars
<1>4. guarded'[t] => /\ guarded[t] /\ pc[t] = "wait" /\ pc'[t] \in Returned
                     /\ Signalled(fence[t])
  BY DEF WaitDone, WaitTimesOut, AfterHook, TypeOK, Returned
<1>5. guarded'[t] => DoSyncmap /\ fence[t] \in flushed
  BY <1>4 DEF CoherenceInv, GuardInv, Returned, Signalled
<1>6. GuardInv'
  BY <1>1, <1>2, <1>5
     DEF CoherenceInv, GuardInv, devVars, DoSyncmap, Settled, Newest, Coherent
<1> QED
  BY <1>1, <1>3, <1>6, QuietStep

\* The skipped KFD flush happens outside syncflush only.
LEMMA ComputeFlushSkippedKeeps ==
  ASSUME TypeOK, CoherenceInv, NEW t \in Tasks, ComputeFlushSkipped(t)
  PROVE  CoherenceInv'
<1>1. UNCHANGED <<devVars, covered, call, fence>>
  BY DEF ComputeFlushSkipped
<1>2. ~(DoSync /\ CommOk(t))
  BY DEF ComputeFlushSkipped, LastSeen, TypeOK
<1>3. \A u \in Tasks :
        /\ guarded'[u] => guarded[u]
        /\ pc'[u] \in Returned => pc[u] \in Returned
        /\ u # t => pc'[u] = pc[u]
  BY <1>2 DEF ComputeFlushSkipped, CoverByFlush, TypeOK, Returned
<1>4. pc[t] = "flush" /\ pc'[t] = "leave"
  BY DEF ComputeFlushSkipped, TypeOK
<1>5. FenceInv'
  BY <1>1, <1>3 DEF CoherenceInv, FenceInv, devVars
<1>6. GuardInv'
  BY <1>1, <1>3, <1>4
     DEF CoherenceInv, GuardInv, devVars, DoSyncmap, Settled, Newest,
         Coherent, Returned
<1> QED
  BY <1>1, <1>5, <1>6, QuietStep

\* A task that enters, queues or fails carries no guard past its fence.
LEMMA OutsideKeeps ==
  ASSUME TypeOK, CoherenceInv, NEW t \in Tasks,
         \/ \E path \in Paths, v \in VAs, to \in Targets :
              EnterIoctl(t, path, v, to)
         \/ Reserve(t)
         \/ UpdateFails(t)
  PROVE  CoherenceInv'
<1>1. /\ UNCHANGED <<devVars, covered>>
      /\ \A u \in Tasks : u # t =>
           /\ pc'[u] = pc[u] /\ call'[u] = call[u]
           /\ fence'[u] = fence[u] /\ guarded'[u] = guarded[u]
      /\ pc'[t] \in Returned => fence'[t] = 0 /\ ~guarded'[t]
  BY DEF EnterIoctl, Reserve, UpdateFails, TypeOK, Returned
<1>2. FenceInv'
  BY <1>1 DEF CoherenceInv, FenceInv, devVars
<1>3. GuardInv'
  BY <1>1
     DEF CoherenceInv, GuardInv, devVars, DoSyncmap, Settled, Newest, Coherent
<1> QED
  BY <1>1, <1>2, <1>3, QuietStep

\* The range of a guarded call becomes covered, and it is coherent by then.
LEMMA ReturnKeeps ==
  ASSUME TypeOK, CoherenceInv, NEW t \in Tasks, ReturnToUser(t)
  PROVE  CoherenceInv'
<1>1. UNCHANGED devVars /\ pc[t] = "leave" /\ pc' = [pc EXCEPT ![t] = "user"]
  BY DEF ReturnToUser
<1>2. \A u \in Tasks : pc'[u] \in Returned =>
        /\ u # t /\ pc'[u] = pc[u] /\ call'[u] = call[u]
        /\ fence'[u] = fence[u] /\ guarded'[u] = guarded[u]
  BY DEF ReturnToUser, TypeOK, Returned
<1>3. PageTableInv' /\ FlushInv'
  BY <1>1 DEF CoherenceInv, PageTableInv, FlushInv, Settled, Newest, Coherent,
              devVars
<1>4. FenceInv'
  BY <1>1, <1>2 DEF CoherenceInv, FenceInv, devVars
<1>5. GuardInv'
  BY <1>1, <1>2
     DEF CoherenceInv, GuardInv, devVars, DoSyncmap, Settled, Newest, Coherent
<1>6. guarded[t] /\ Newest(fence[t]) => Coherent(call[t].va)
  <2> SUFFICES ASSUME guarded[t], Newest(fence[t]) PROVE Coherent(call[t].va)
    OBVIOUS
  <2>1. /\ fence[t] \in 1 .. Len(jobs) /\ jobs[fence[t]].va = call[t].va
        /\ call[t].va \in VAs
    BY <1>1, JobFacts DEF CoherenceInv, FenceInv, GuardInv, Returned
  <2>2. Settled(fence[t])
    BY <1>1, <2>1 DEF CoherenceInv, GuardInv, FlushInv, Returned
  <2> QED
    BY <2>1, <2>2 DEF Settled
<1>7. \A v \in covered' : Coherent(v)
  BY <1>6 DEF ReturnToUser, CoherenceInv, CoveredIsCoherent
<1>8. CoveredIsCoherent'
  BY <1>1, <1>7 DEF CoveredIsCoherent, Coherent, Newest, devVars
<1> QED
  BY <1>3, <1>4, <1>5, <1>8 DEF CoherenceInv

\* Bumping tlb_seq, filling and evicting entries, and writing the filter.
LEMMA BackgroundKeeps ==
  ASSUME TypeOK, CoherenceInv,
         \/ SeqBump
         \/ \E h \in Hubs, v \in VAs : TlbFill(h, v) \/ TlbEvict(h, v)
         \/ \E S \in Filters : WriteOnlycomm(S)
         \/ UNCHANGED vars
  PROVE  CoherenceInv'
<1>1. UNCHANGED <<jobs, landed, flushed, pt, taskVars, covered>>
  BY DEF SeqBump, TlbFill, TlbEvict, WriteOnlycomm, devVars, vars
<1>2. ASSUME NEW v \in VAs, Coherent(v) PROVE Coherent(v)'
  <2>1. CASE UNCHANGED tlb
    BY <1>1, <1>2, <2>1 DEF Coherent, Newest
  <2>2. CASE \E h \in Hubs, w \in VAs : TlbFill(h, w) \/ TlbEvict(h, w)
    BY <1>2, <2>2, CoherentCache
  <2> QED
    BY <2>1, <2>2 DEF SeqBump, WriteOnlycomm, devVars, vars
<1>3. PageTableInv'
  BY <1>1 DEF CoherenceInv, PageTableInv
<1> QED
  BY <1>1, <1>2, <1>3, DeviceKeeps, JobFacts

\* Every step preserves the invariant, and the initial state satisfies it.
LEMMA CoherenceStep == TypeOK /\ TypeOK' /\ CoherenceInv /\ [Next]_vars => CoherenceInv'
<1> SUFFICES ASSUME TypeOK, TypeOK', CoherenceInv, [Next]_vars
             PROVE  CoherenceInv'
  OBVIOUS
<1>1. ASSUME NEW t \in Tasks, TaskStep(t) PROVE CoherenceInv'
  BY <1>1, OutsideKeeps, UpdateRangeKeeps, HookKeeps, WaitKeeps,
     ComputeFlushSkippedKeeps, ComputeFlushKeeps, ReturnKeeps DEF TaskStep
<1>2. ASSUME DeviceStep PROVE CoherenceInv'
  BY <1>2, LandKeeps, FlushWorkKeeps, BackgroundKeeps DEF DeviceStep
<1> QED
  BY <1>1, <1>2, OutsideKeeps, BackgroundKeeps DEF Next

\* The strengthened invariant holds of every behaviour of the hooks.
THEOREM CoherenceInvariant == Spec => []CoherenceInv
<1>1. Init => CoherenceInv
  BY DEF Init, CoherenceInv, PageTableInv, FlushInv, FenceInv, GuardInv,
         CoveredIsCoherent, Returned
<1> QED
  BY <1>1, CoherenceStep, TypeCorrect, PTL DEF Spec

\* The promise of the fix, for any number of threads, ranges, pages and hubs:
\* a range whose map or unmap returned through both hooks is translated as the
\* page table says, on every hub, until it is updated again.
THEOREM Coherence == Spec => []CoveredIsCoherent
<1>1. CoherenceInv => CoveredIsCoherent
  BY DEF CoherenceInv
<1> QED
  BY <1>1, CoherenceInvariant, PTL
=============================================================================
