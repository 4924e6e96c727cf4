-------------------------- MODULE TlbPromiseProofs --------------------------
(***************************************************************************)
(* The hooks, the driver and the GPU of TlbCoherence implement the promise *)
(* AddressSpace makes to the pool, for every instance.                     *)
(***************************************************************************)
EXTENDS TlbCoherenceProofs

-----------------------------------------------------------------------------
(* What the pool observes. *)

\* A range has at most one last update, and its target is the goal.
LEMMA GoalOfLast ==
  ASSUME NEW v, NEW i \in 1 .. Len(jobs), jobs[i].va = v, Newest(i)
  PROVE  Goal(v) = jobs[i].to
<1>1. Last(v) = {i}
  BY DEF Last, Newest
<1> QED
  BY <1>1 DEF Goal

\* An access meets translations, and always meets one.
LEMMA SeenType ==
  ASSUME TypeOK, NEW v \in VAs
  PROVE  Seen(v) \in (SUBSET Targets) \ {{}}
<1>1. pt[v] \in Targets /\ \A h \in Hubs : tlb[h][v] \in Targets \cup {NoEntry}
  BY DEF TypeOK
<1>2. pt[v] # NoEntry
  BY <1>1, SentinelAssumption DEF Targets
<1>3. \A k \in landed + 1 .. Len(jobs) : jobs[k].to \in Targets
  BY JobFacts
<1> QED
  BY <1>1, <1>2, <1>3 DEF Seen

\* A step that submits nothing keeps every goal.
LEMMA GoalKeeps ==
  ASSUME UNCHANGED jobs
  PROVE  UNCHANGED [v \in VAs |-> Goal(v)]
BY DEF Goal, Last, Newest

\* A step that leaves the device and "covered" alone is not observed.
LEMMA Unobserved ==
  ASSUME UNCHANGED <<jobs, landed, pt, tlb, covered>>
  PROVE  UNCHANGED Promise!vars
<1>1. \A v \in VAs : Seen(v)' = Seen(v)
  BY DEF Seen
<1> QED
  BY <1>1, GoalKeeps DEF Promise!vars

\* A step that submits nothing, and puts into the page table and the TLBs only
\* what an access could meet already, makes the pool's observation shrink.
LEMMA ForgetStep ==
  ASSUME TypeOK, TypeOK', UNCHANGED <<jobs, covered>>, landed <= landed',
         \A v \in VAs :
           /\ pt'[v] \in Seen(v)
           /\ \A h \in Hubs : tlb'[h][v] \in Seen(v) \cup {NoEntry}
  PROVE  Promise!Forget
<1>1. ASSUME NEW v \in VAs PROVE Seen(v)' \subseteq Seen(v)
  <2>1. landed \in Int /\ landed' \in Int /\ Len(jobs) \in Int
    BY JobFacts DEF TypeOK
  <2>2. landed' + 1 .. Len(jobs) \subseteq landed + 1 .. Len(jobs)
    BY <2>1
  <2> QED
    BY <2>2 DEF Seen
<1>2. ASSUME NEW v \in VAs PROVE Seen(v)' # {}
  <2>1. pt'[v] # NoEntry
    BY SentinelAssumption DEF TypeOK, Targets
  <2> QED
    BY <2>1 DEF Seen
<1>3. [v \in VAs |-> Seen(v)]' \in [VAs -> (SUBSET Targets) \ {{}}]
  BY <1>1, <1>2, SeenType
<1> QED
  BY <1>1, <1>3, GoalKeeps DEF Promise!Forget

-----------------------------------------------------------------------------
(* One lemma per step that the pool can observe. *)

\* Submitting an update asks for its target.
LEMMA UpdateRangeAsks ==
  ASSUME TypeOK, TypeOK', NEW t \in Tasks, UpdateRange(t)
  PROVE  Promise!Ask(call[t].va, call[t].to)
<1>1. PICK va \in VAs, to \in Targets, n \in Nat :
        va = call[t].va /\ to = call[t].to /\ n = Len(jobs) + 1
  BY JobFacts DEF UpdateRange, TypeOK, Calls
<1>2. /\ Len(jobs') = n /\ jobs'[n].va = va /\ jobs'[n].to = to
      /\ \A k \in 1 .. Len(jobs) : jobs'[k] = jobs[k]
      /\ UNCHANGED <<landed, pt, tlb>> /\ covered' = covered \ {va}
  BY <1>1 DEF TypeOK, UpdateRange
<1>3. n \in 1 .. n /\ 1 .. n = (1 .. Len(jobs)) \cup {n}
  BY <1>1, JobFacts
<1>4. Last(va)' = {n}
  BY <1>1, <1>2, <1>3 DEF Last, Newest
<1>5. Goal(va)' = to
  BY <1>2, <1>4 DEF Goal
<1>6. ASSUME NEW v \in VAs, v # va PROVE Goal(v)' = Goal(v)
  <2>1. Last(v)' = Last(v)
    BY <1>1, <1>2, <1>3, <1>6 DEF Last, Newest
  <2>2. \A k \in Last(v) : jobs'[k] = jobs[k]
    BY <1>2 DEF Last
  <2> QED
    BY <2>1, <2>2 DEF Goal
<1>7. to # NoEntry
  BY SentinelAssumption DEF Targets
<1>8. ASSUME NEW v \in VAs
      PROVE  Seen(v)' = IF v = va THEN Seen(v) \cup {to} ELSE Seen(v)
  <2>1. /\ landed + 1 .. n = (landed + 1 .. Len(jobs)) \cup {n}
        /\ \A k \in landed + 1 .. Len(jobs) : jobs'[k] = jobs[k]
    BY <1>1, <1>2, JobFacts
  <2> DEFINE Waiting == {k \in landed + 1 .. Len(jobs) : jobs[k].va = v}
  <2>2. {k \in landed + 1 .. n : jobs'[k].va = v}
          = IF v = va THEN Waiting \cup {n} ELSE Waiting
    BY <2>1, <1>2
  <2> QED
    BY <2>1, <2>2, <1>2, <1>7 DEF Seen
<1>9. [v \in VAs |-> Goal(v)]' = [[v \in VAs |-> Goal(v)] EXCEPT ![va] = to]
  BY <1>5, <1>6
<1>10. [v \in VAs |-> Seen(v)]'
         = [[v \in VAs |-> Seen(v)] EXCEPT ![va] = @ \cup {to}]
  BY <1>8
<1> QED
  BY <1>1, <1>2, <1>9, <1>10 DEF Promise!Ask

\* A guarded call that is the last to update its range settles it.
LEMMA ReturnSettles ==
  ASSUME TypeOK, TypeOK', CoherenceInv, CoherenceInv',
         NEW t \in Tasks, ReturnToUser(t)
  PROVE  Promise!Settle(call[t].va) \/ UNCHANGED Promise!vars
<1>1. UNCHANGED devVars /\ pc[t] = "leave"
  BY DEF ReturnToUser
<1>2. CASE ~(guarded[t] /\ Newest(fence[t]))
  <2>1. UNCHANGED covered
    BY <1>2 DEF ReturnToUser
  <2> QED
    BY <1>1, <2>1, Unobserved DEF devVars
<1>3. CASE guarded[t] /\ Newest(fence[t])
  <2> DEFINE va == call[t].va
             i == fence[t]
  <2>1. i \in 1 .. Len(jobs) /\ jobs[i].va = va /\ va \in VAs
    BY <1>1, <1>3, JobFacts DEF CoherenceInv, FenceInv, GuardInv, Returned
  <2>2. covered' = covered \cup {va}
    BY <1>3 DEF ReturnToUser
  <2>3. Settled(i)
    BY <1>1, <1>3, <2>1 DEF CoherenceInv, GuardInv, FlushInv, Returned
  <2>4. Coherent(va)
    BY <1>3, <2>1, <2>3 DEF Settled
  <2>5. /\ i <= landed /\ pt[va] = jobs[i].to
        /\ \A h \in Hubs : tlb[h][va] \in {NoEntry, jobs[i].to}
    BY <1>3, <2>1, <2>4 DEF Coherent
  <2>6. {k \in landed + 1 .. Len(jobs) : jobs[k].va = va} = {}
    BY <1>3, <2>1, <2>5, JobFacts DEF Newest
  <2>7. jobs[i].to # NoEntry
    BY <2>1, JobFacts, SentinelAssumption DEF Targets
  <2>8. Seen(va) = {jobs[i].to}
    BY <2>5, <2>6, <2>7 DEF Seen
  <2>9. Goal(va) = jobs[i].to
    BY <1>3, <2>1, GoalOfLast
  <2>10. \A v \in VAs : Seen(v)' = Seen(v)
    BY <1>1 DEF Seen, devVars
  <2> QED
    BY <1>1, <2>1, <2>2, <2>8, <2>9, <2>10, GoalKeeps
       DEF Promise!Settle, devVars
<1> QED
  BY <1>2, <1>3

\* A write takes its target from the updates an access may already meet.
LEMMA LandForgets ==
  ASSUME TypeOK, TypeOK', Land
  PROVE  Promise!Forget
<1> DEFINE n == landed + 1
<1>1. /\ n \in 1 .. Len(jobs) /\ n \in landed + 1 .. Len(jobs)
      /\ jobs[n].to \in Targets /\ jobs[n].va \in VAs
  BY JobFacts DEF Land
<1>2. ASSUME NEW v \in VAs
      PROVE  /\ pt[v] \in Seen(v)
             /\ jobs[n].va = v => jobs[n].to \in Seen(v)
             /\ \A h \in Hubs : tlb[h][v] \in Seen(v) \cup {NoEntry}
  BY <1>1, SentinelAssumption DEF Seen, TypeOK, Targets
<1>3. /\ UNCHANGED <<jobs, covered, tlb>> /\ landed <= landed'
      /\ \A v \in VAs : pt'[v] = IF v = jobs[n].va THEN jobs[n].to ELSE pt[v]
  BY JobFacts DEF Land, TypeOK
<1> QED
  BY <1>2, <1>3, ForgetStep

\* Invalidating TLBs, filling an entry and evicting one bring nothing new.
LEMMA CacheForgets ==
  ASSUME TypeOK, TypeOK', UNCHANGED <<jobs, landed, pt, covered>>,
         \A v \in VAs, h \in Hubs : tlb'[h][v] \in {tlb[h][v], pt[v], NoEntry}
  PROVE  Promise!Forget
<1>1. ASSUME NEW v \in VAs
      PROVE  /\ pt[v] \in Seen(v)
             /\ \A h \in Hubs : tlb[h][v] \in Seen(v) \cup {NoEntry}
  BY SentinelAssumption DEF Seen, TypeOK, Targets
<1> QED
  BY <1>1, ForgetStep, JobFacts

\* Every step is one of the promise or is not observed.
LEMMA PromiseStep ==
  ASSUME TypeOK, TypeOK', CoherenceInv, CoherenceInv', [Next]_vars
  PROVE  [Promise!Next]_(Promise!vars)
<1>1. ASSUME NEW t \in Tasks, UpdateRange(t) PROVE Promise!Next
  <2>1. call[t].va \in VAs /\ call[t].to \in Targets
    BY <1>1 DEF UpdateRange, TypeOK, Calls
  <2> QED
    BY <1>1, <2>1, UpdateRangeAsks DEF Promise!Next
<1>2. ASSUME NEW t \in Tasks, ReturnToUser(t)
      PROVE  Promise!Next \/ UNCHANGED Promise!vars
  <2>1. call[t].va \in VAs
    BY <1>2 DEF ReturnToUser, TypeOK, Calls
  <2> QED
    BY <1>2, <2>1, ReturnSettles DEF Promise!Next
<1>3. ASSUME NEW t \in Tasks, ComputeFlush(t) PROVE Promise!Forget
  BY <1>3, CacheForgets DEF ComputeFlush, Invalidate
<1>4. ASSUME NEW i \in 1 .. Len(jobs), FlushWork(i) PROVE Promise!Forget
  BY <1>4, CacheForgets DEF FlushWork, Invalidate
<1>5. ASSUME NEW h \in Hubs, NEW v \in VAs, TlbFill(h, v) \/ TlbEvict(h, v)
      PROVE  Promise!Forget
  <2>1. PICK e \in {NoEntry, pt[v]} : tlb' = [tlb EXCEPT ![h][v] = e]
    BY <1>5 DEF TlbFill, TlbEvict
  <2>2. \A w \in VAs, g \in Hubs : tlb'[g][w] \in {tlb[g][w], pt[w], NoEntry}
    BY <2>1 DEF TypeOK
  <2> QED
    BY <1>5, <2>2, CacheForgets DEF TlbFill, TlbEvict
<1>6. ASSUME NEW t \in Tasks,
             \/ Reserve(t) \/ UpdateFails(t) \/ Hook(t) \/ WaitDone(t)
             \/ WaitTimesOut(t) \/ ComputeFlushSkipped(t)
             \/ \E path \in Paths, v \in VAs, to \in Targets :
                  EnterIoctl(t, path, v, to)
      PROVE  UNCHANGED Promise!vars
  BY <1>6, Unobserved DEF Reserve, UpdateFails, Hook, WaitDone, WaitTimesOut,
     ComputeFlushSkipped, EnterIoctl, devVars
<1>7. CASE \/ SeqBump \/ UNCHANGED vars
           \/ \E S \in Filters : WriteOnlycomm(S)
  BY <1>7, Unobserved DEF SeqBump, WriteOnlycomm, vars, devVars
<1> QED
  BY <1>1, <1>2, <1>3, <1>4, <1>5, <1>6, <1>7, LandForgets
     DEF Next, TaskStep, DeviceStep, Promise!Next

\* The fix implements its promise: whatever the threads, the driver and the
\* GPU do, the pool observes a behaviour of AddressSpace.
THEOREM ImplementsAddressSpace == Spec => KeepsPromise
<1>1. Init => Promise!Init
  <2> SUFFICES ASSUME Init PROVE Promise!Init
    OBVIOUS
  <2>1. \A v \in VAs : Goal(v) = Hole
    BY DEF Init, Goal, Last
  <2>2. \A v \in VAs : Seen(v) = {Hole}
    BY SentinelAssumption DEF Init, Seen
  <2> QED
    BY <2>1, <2>2 DEF Init, Promise!Init
<1>2. TypeOK /\ TypeOK' /\ CoherenceInv /\ CoherenceInv' /\ [Next]_vars
        => [Promise!Next]_(Promise!vars)
  BY PromiseStep
<1> QED
  BY <1>1, <1>2, TypeCorrect, CoherenceInvariant, PTL
     DEF Spec, KeepsPromise, Promise!Spec
=============================================================================
