--------------------------- MODULE EvalLoopProofs ---------------------------
(***************************************************************************)
(* Proofs about EvalLoop and EnvEpisode for any set of worlds, any number  *)
(* of substeps, any interval, warm-up and step limits, and any tasks.      *)
(***************************************************************************)
EXTENDS EvalLoop, TLAPS

-----------------------------------------------------------------------------
(* The age of the derived fields. *)

\* A state that can be stepped has derived fields of its pose or of the one before
\* it, but for those batch_reset leaves out; WarpEnv's buffer has them from its
\* first step or set_state on.  What a control step copied ages with its substeps.
AgeInv ==
  /\ kin \in Ages /\ dyn \in Ages /\ goal \in Ages /\ mass \in Ages
  /\ sub \in 0 .. NSub
  /\ api = "warp" => ~raw
  /\ made \/ (api = "warp" /\ ~first) => kin <= 1 /\ (raw \/ dyn <= 1)
  /\ sub > 0 =>
       /\ made \/ (api = "warp" /\ ~first)
       /\ goal <= NSub - sub + 1
       /\ api = "warp" => mass <= NSub - sub + 1

\* What is one pose older is one pose older.
LEMMA OlderIs ==
  ASSUME NEW age \in Ages
  PROVE  /\ Older(age) \in Ages
         /\ \A k \in 0 .. NSub : age <= k => Older(age) <= k + 1
BY EnvAssumption DEF Older, Ages, Lost

\* The actions of the environments keep the ages, in any order.
LEMMA AgeStep ==
  ASSUME AgeInv,
         \/ Reset \/ MakeState \/ SpatialReset \/ BatchReset \/ SetState
         \/ GetSimState \/ SetSimState \/ BeginStep \/ Substep \/ Render
         \/ UNCHANGED envVars
  PROVE  AgeInv'
<1>1. NSub \in Nat \ {0} /\ Lost = NSub + 2 /\ Ages = 0 .. NSub + 2
  BY EnvAssumption DEF Lost, Ages
<1>2. ASSUME NEW age \in {0, Lost}, FreshState(age) PROVE AgeInv'
  <2>1. /\ api = "mjx" /\ api' = api /\ sub = 0 /\ sub' = sub /\ first' = first
        /\ kin' = 0 /\ dyn' = age /\ goal' = Lost /\ mass' = Lost
    BY <1>2 DEF FreshState
  <2>2. raw' \/ dyn' <= 1
    <3>1. age = Lost => raw'
      BY <1>2, Zenon DEF FreshState
    <3> QED
      BY <2>1, <3>1
  <2> QED
    BY <1>1, <2>1, <2>2 DEF AgeInv
<1>3. CASE Reset \/ MakeState \/ SpatialReset \/ BatchReset
  BY <1>2, <1>3 DEF Reset, MakeState, SpatialReset, BatchReset
<1>4. CASE SetState
  BY <1>1, <1>4 DEF SetState, AgeInv
<1>5. CASE GetSimState
  BY <1>5 DEF GetSimState, AgeInv, Ages, Lost
<1>6. CASE SetSimState
  BY <1>1, <1>6 DEF SetSimState, AgeInv
<1>7. CASE BeginStep
  <2>1. kin' \in Ages /\ dyn' \in Ages /\ kin' <= 1 /\ (raw \/ dyn' <= 1)
    BY <1>1, <1>7 DEF BeginStep, Forward, Steppable, AgeInv
  <2>2. /\ goal' = kin' /\ (api = "warp" => mass' = dyn')
        /\ mass' \in Ages /\ sub' = NSub
        /\ api = "warp" => ~first'
        /\ made \/ api = "warp"
        /\ UNCHANGED <<api, made, raw>>
    BY <1>7, <2>1 DEF BeginStep, CopiedMass, Steppable, AgeInv
  <2> QED
    BY <1>1, <2>1, <2>2 DEF AgeInv
<1>8. CASE Substep
  <2>1. /\ sub \in 1 .. NSub /\ sub' = sub - 1
        /\ kin' = 1 /\ dyn' = 1 /\ raw' = FALSE
        /\ goal' = Older(goal) /\ mass' = Older(mass)
        /\ UNCHANGED <<api, made, first>>
    BY <1>1, <1>8 DEF Substep, AgeInv
  <2>2. /\ goal' \in Ages /\ mass' \in Ages
        /\ goal' <= NSub - sub' + 1
        /\ api = "warp" => mass' <= NSub - sub' + 1
    <3>1. NSub - sub + 1 \in 0 .. NSub /\ NSub - sub' + 1 = NSub - sub + 1 + 1
      BY <1>1, <2>1
    <3>2. /\ goal \in Ages /\ mass \in Ages /\ goal <= NSub - sub + 1
          /\ api = "warp" => mass <= NSub - sub + 1
      BY <2>1 DEF AgeInv
    <3> QED
      BY <2>1, <3>1, <3>2, OlderIs
  <2> QED
    BY <1>1, <2>1, <2>2 DEF AgeInv
<1>9. CASE Render
  BY <1>1, <1>9 DEF Render, Forward, AgeInv
<1>10. CASE UNCHANGED envVars
  BY <1>10 DEF envVars, AgeInv, Ages, Lost
<1> QED
  BY <1>3, <1>4, <1>5, <1>6, <1>7, <1>8, <1>9, <1>10

\* Every step of a script or of a user is at most one call of an environment.
LEMMA OneCall ==
  ASSUME [Next]_vars
  PROVE  \/ Reset \/ MakeState \/ SpatialReset \/ BatchReset \/ SetState
         \/ GetSimState \/ SetSimState \/ BeginStep \/ Substep \/ Render
         \/ UNCHANGED envVars
BY DEF Next, ScriptStep, BenchStep, QuickStep, UserStep, Setup, QuickSetup,
       WarmStep, WarmDone, LoopStep, Observe, Act, Physics, Account,
       QuickAccount, QuickReport, Report, BenchEnds, vars

\* Whatever a script or a user calls in which order, what the torques of a
\* substep are computed from is of its pose or the one before, and the goal and
\* WarpEnv's masses of this control step, also where WarpEnv is stepped before any
\* set_state.
THEOREM TorquesAlwaysCoherent == Spec => []TorquesAreCoherent
<1>1. Init => AgeInv
  BY EnvAssumption DEF Init, EnvInit, AgeInv, Ages, Lost
<1>2. AgeInv /\ [Next]_vars => AgeInv'
  BY OneCall, AgeStep
<1>3. AgeInv => TorquesAreCoherent
  BY DEF AgeInv, TorquesAreCoherent
<1> QED
  BY <1>1, <1>2, <1>3, PTL DEF Spec

-----------------------------------------------------------------------------
(* Counting. *)

\* Where a script is within its loop.
Loop == {"act", "step"}

\* Worlds that are not done have made every step of the loop, which runs on
\* only as long as there is one and steps are left.
CountInv ==
  /\ iter \in Nat /\ maxSteps \in Nat /\ iter <= maxSteps
  /\ steps \in [Worlds -> Nat] /\ done \in Flags
  /\ \A w \in Worlds : steps[w] <= iter /\ (done[w] \/ steps[w] = iter)
  /\ pc \in Loop => ~AllDone /\ iter < maxSteps
  /\ NoneAbandoned

\* The largest count is that of the worlds that are not done.
LEMMA MostIsIter ==
  ASSUME CountInv, ~AllDone
  PROVE  MostSteps = iter
<1> DEFINE S == {steps[w] : w \in Worlds}
<1>1. iter \in S
  BY DEF CountInv, AllDone
<1>2. \A n \in S : n \in Nat /\ n <= iter
  BY DEF CountInv
<1>3. iter \in Nat
  BY DEF CountInv
<1> HIDE DEF S
<1>4. \E n \in S : \A m \in S : n >= m
  BY <1>1, <1>2, <1>3
<1>5. Max(S) \in S /\ \A m \in S : Max(S) >= m
  BY <1>4 DEF Max
<1> DEFINE m == Max(S)
<1>6. m \in Nat /\ m <= iter
  BY <1>2, <1>5
<1>7. m >= iter
  BY <1>1, <1>5
<1> HIDE DEF m
<1>8. m = iter
  BY <1>3, <1>6, <1>7
<1> QED
  BY <1>8 DEF MostSteps, S, m

\* Where the loop ends, no world is left behind.
LEMMA EndsFairly ==
  ASSUME CountInv, ~LoopGoesOn
  PROVE  \A w \in Worlds : done[w] \/ steps[w] = maxSteps
<1>1. CASE AllDone
  BY <1>1 DEF AllDone
<1>2. CASE ~AllDone
  <2>1. iter >= maxSteps
    BY <1>2, MostIsIter DEF LoopGoesOn, CountInv
  <2>2. iter = maxSteps
    BY <2>1 DEF CountInv
  <2> QED
    BY <2>2 DEF CountInv
<1> QED
  BY <1>1, <1>2

\* Counting after a step.
LEMMA AccountStep ==
  ASSUME CountInv, Account
  PROVE  CountInv'
<1>1. iter < maxSteps /\ iter \in Nat /\ maxSteps \in Nat
  BY DEF CountInv, Account, Loop
<1>2. iter' = iter + 1 /\ maxSteps' = maxSteps
  BY <1>1 DEF Account
<1>3. steps' = [w \in Worlds |-> IF done[w] THEN steps[w] ELSE steps[w] + 1]
  BY DEF Account, Counted
<1>4. steps' \in [Worlds -> Nat]
  BY <1>3 DEF CountInv
<1>5. done' \in Flags /\ \A w \in Worlds : done[w] => done'[w]
  <2>1. CASE Checks
    BY <2>1 DEF Account, CountInv, Flags, Settles
  <2>2. CASE ~Checks
    BY <2>2 DEF Account, CountInv
  <2> QED
    BY <2>1, <2>2
<1>6. \A w \in Worlds : steps'[w] <= iter' /\ (done'[w] \/ steps'[w] = iter')
  <2> SUFFICES ASSUME NEW w \in Worlds
               PROVE  steps'[w] <= iter' /\ (done'[w] \/ steps'[w] = iter')
    OBVIOUS
  <2>1. steps[w] \in Nat /\ steps[w] <= iter /\ (done[w] \/ steps[w] = iter)
    BY DEF CountInv
  <2> QED
    BY <2>1, <1>1, <1>2, <1>3, <1>5
<1>7. pc' \in {"loop", "crashed"}
  BY DEF Account
<1> QED
  BY <1>1, <1>2, <1>4, <1>5, <1>6, <1>7 DEF CountInv, NoneAbandoned, Loop

\* The same in the example, which finishes no world before the end.
LEMMA QuickAccountStep ==
  ASSUME CountInv, QuickAccount, \A w \in Worlds : ~done[w]
  PROVE  CountInv'
<1>1. iter < maxSteps /\ iter \in Nat /\ maxSteps \in Nat
  BY DEF CountInv, QuickAccount, Loop
<1>2. /\ iter' = iter + 1 /\ maxSteps' = maxSteps /\ done' = done
      /\ steps' = [w \in Worlds |-> steps[w] + 1] /\ pc' = "loop"
  BY DEF QuickAccount
<1>3. steps' \in [Worlds -> Nat]
  BY <1>2 DEF CountInv
<1>4. \A w \in Worlds : steps'[w] <= iter' /\ (done'[w] \/ steps'[w] = iter')
  BY <1>1, <1>2 DEF CountInv
<1> QED
  BY <1>1, <1>2, <1>3, <1>4 DEF CountInv, NoneAbandoned, Loop

\* A step of the loop begins where there is a world to step.
LEMMA ObserveStep ==
  ASSUME CountInv, Observe
  PROVE  CountInv'
<1>1. ~AllDone /\ iter < maxSteps
  BY MostIsIter DEF Observe, LoopGoesOn, CountInv
<1> QED
  BY <1>1 DEF Observe, CountInv, NoneAbandoned, AllDone, Loop

\* The example sets no flag.
QuickInv == script = "quickstart" => \A w \in Worlds : ~done[w]

\* The counts stay what the loop takes them for, in every script.
LEMMA CountInvariant == Spec => [](CountInv /\ QuickInv)
<1>1. Init => CountInv /\ QuickInv
  <2> SUFFICES ASSUME Init PROVE CountInv /\ QuickInv
    OBVIOUS
  <2>1. maxSteps \in Nat \ {0} /\ iter = 0 /\ pc = "setup"
    BY LoopAssumption DEF Init
  <2>2. steps \in [Worlds -> Nat] /\ \A w \in Worlds : steps[w] = 0
    BY DEF Init
  <2>3. done \in Flags /\ \A w \in Worlds : ~done[w]
    BY DEF Init, Flags
  <2> QED
    BY <2>1, <2>2, <2>3 DEF CountInv, QuickInv, NoneAbandoned, Loop
<1>2. CountInv /\ QuickInv /\ [Next]_vars => CountInv' /\ QuickInv'
  <2> SUFFICES ASSUME CountInv, QuickInv, [Next]_vars
               PROVE  CountInv' /\ QuickInv'
    OBVIOUS
  <2>1. CASE Account /\ script # "quickstart"
    BY <2>1, AccountStep DEF Account, QuickInv
  <2>2. CASE QuickAccount /\ script = "quickstart"
    BY <2>2, QuickAccountStep DEF QuickAccount, QuickInv
  <2>3. CASE Observe
    BY <2>3, ObserveStep DEF Observe, QuickInv
  <2>4. CASE Report \/ QuickReport \/ BenchEnds
    <3>1. \A w \in Worlds : done[w] \/ steps[w] = maxSteps
      BY <2>4, EndsFairly DEF Report, QuickReport, BenchEnds
    <3> QED
      BY <2>4, <3>1 DEF Report, QuickReport, BenchEnds, CountInv, QuickInv,
                        NoneAbandoned, AllDone, Loop
  <2>5. ASSUME script' = script, maxSteps' = maxSteps, iter' = iter,
               steps' = steps, done' = done,
               pc' # "reported" \/ pc' = pc,
               pc' \in Loop => pc \in Loop
        PROVE  CountInv' /\ QuickInv'
    BY <2>5 DEF CountInv, QuickInv, NoneAbandoned, AllDone
  <2>6. CASE Setup \/ QuickSetup
    BY <2>5, <2>6 DEF Loop, Setup, QuickSetup
  <2>7. CASE WarmStep
    BY <2>5, <2>7 DEF Loop, WarmStep
  <2>8. CASE WarmDone
    BY <2>5, <2>8 DEF Loop, WarmDone
  <2>9. CASE Act
    BY <2>5, <2>9 DEF Loop, Act
  <2>10. CASE Physics \/ UserStep \/ UNCHANGED vars
    BY <2>5, <2>10 DEF Loop, Physics, UserStep, loopVars, vars
  <2> QED
    BY <2>1, <2>2, <2>3, <2>4, <2>6, <2>7, <2>8, <2>9, <2>10
       DEF Next, ScriptStep, BenchStep, QuickStep, LoopStep
<1> QED
  BY <1>1, <1>2, PTL DEF Spec

\* The step number the scripts recover from the counts is right, although the
\* counts of finished worlds stand still, for as long as they use it.
THEOREM CurStepAlwaysStep == Spec => []CurStepIsStep
<1>1. CountInv => CurStepIsStep
  BY MostIsIter DEF CurStepIsStep, CurStep, CountInv, Loop
<1> QED
  BY <1>1, CountInvariant, PTL

\* No evaluation reports while a world that is not done has steps left.
THEOREM NoneEverAbandoned == Spec => []NoneAbandoned
<1>1. CountInv => NoneAbandoned
  BY DEF CountInv
<1> QED
  BY <1>1, CountInvariant, PTL

-----------------------------------------------------------------------------
(* The report. *)

\* What success reads lags behind the pose by a substep, and is of this
\* evaluation all the same.
ReachedInv ==
  /\ near \in Flags /\ seen \in Flags
  /\ \A w \in Worlds : near[w] \/ seen[w] => reached[w]
  /\ task.obj /\ task.target => \A w \in Worlds : success[w] => reached[w]
  /\ script = "none" => pc = "setup"
  /\ pc = "setup" => report = {}
  /\ report \subseteq Worlds
  /\ \A f \in saved : f \in Flags
  /\ ReportIsReached

\* Of a task whose bodies were found success is what xpos shows.
LEMMA SuccessIsSeen ==
  ASSUME task.obj, task.target, NEW w \in Worlds, NEW s, SuccessOf(s)[w]
  PROVE  s[w]
BY DEF SuccessOf, Always, Malformed

\* A call of an environment before the report.
LEMMA ReachedCall ==
  ASSUME ReachedInv,
         \/ Reset \/ MakeState \/ SpatialReset \/ BatchReset \/ SetState
         \/ GetSimState \/ SetSimState \/ BeginStep \/ Substep \/ Render
         \/ UNCHANGED envVars
  PROVE  /\ near' \in Flags /\ seen' \in Flags /\ task' = task
         /\ \A f \in saved' : f \in Flags
         /\ \A w \in Worlds : near'[w] \/ seen'[w] => reached'[w]
         /\ task.obj /\ task.target =>
              \A w \in Worlds : success'[w] => reached'[w]
         /\ \/ \A w \in Worlds : reached[w] => reached'[w]
            \/ Reset \/ MakeState \/ SpatialReset \/ BatchReset \/ SetState
<1>1. CASE Reset \/ MakeState \/ SpatialReset \/ BatchReset \/ SetState
  BY <1>1 DEF Reset, MakeState, SpatialReset, BatchReset, SetState, FreshState,
              ReachedInv, Flags
<1>2. CASE SetSimState
  BY <1>2 DEF SetSimState, ReachedInv, Flags
<1>3. CASE Substep
  <2>1. /\ seen' = near /\ near' \in Flags /\ task' = task
        /\ \A w \in Worlds : reached'[w] = (reached[w] \/ near'[w])
        /\ success' = IF sub = 1 THEN SuccessOf(seen') ELSE success
        /\ saved' = saved
    BY <1>3 DEF Substep
  <2>2. ASSUME task.obj, task.target, NEW w \in Worlds, success'[w]
        PROVE  reached'[w]
    <3>1. CASE sub = 1
      <4>1. seen'[w]
        BY <2>1, <2>2, <3>1, SuccessIsSeen
      <4> QED
        BY <2>1, <4>1 DEF ReachedInv
    <3>2. CASE sub # 1
      BY <2>1, <2>2, <3>2 DEF ReachedInv
    <3> QED
      BY <3>1, <3>2
  <2> QED
    BY <2>1, <2>2 DEF ReachedInv
<1>4. CASE BeginStep \/ Render
  BY <1>4 DEF BeginStep, Render, Forward, ReachedInv
<1>5. CASE GetSimState \/ UNCHANGED envVars
  BY <1>5 DEF GetSimState, envVars, ReachedInv
<1> QED
  BY <1>1, <1>2, <1>3, <1>4, <1>5

\* A world is reported successful only if its object was at the target in this
\* evaluation, for every task whose goal was found.
THEOREM ReportAlwaysReached == Spec => []ReportIsReached
<1>1. Init => ReachedInv
  BY DEF Init, EnvInit, Flags, ReachedInv, ReportIsReached
<1>2. ReachedInv /\ [Next]_vars => ReachedInv'
  <2> SUFFICES ASSUME ReachedInv, [Next]_vars PROVE ReachedInv'
    OBVIOUS
  <2>1. /\ near' \in Flags /\ seen' \in Flags /\ task' = task
        /\ \A f \in saved' : f \in Flags
        /\ \A w \in Worlds : near'[w] \/ seen'[w] => reached'[w]
        /\ task.obj /\ task.target =>
             \A w \in Worlds : success'[w] => reached'[w]
        /\ \/ \A w \in Worlds : reached[w] => reached'[w]
           \/ Reset \/ MakeState \/ SpatialReset \/ BatchReset \/ SetState
    BY OneCall, ReachedCall
  <2>2. CASE Report /\ script # "none"
    BY <2>1, <2>2 DEF Report, envVars, ReachedInv, ReportIsReached
  <2>3. CASE QuickReport /\ script # "none"
    BY <2>1, <2>3 DEF QuickReport, Malformed, envVars, ReachedInv,
                      ReportIsReached
  <2>4. ASSUME report' = report, pc' = "setup" => pc = "setup",
               script' = script, script = "none" => pc' = "setup",
               \A w \in Worlds : reached[w] => reached'[w]
        PROVE  ReachedInv'
    BY <2>1, <2>4 DEF ReachedInv, ReportIsReached
  <2>5. ASSUME report' = report, pc' = "setup" => pc = "setup",
               script' = script, script = "none" => pc' = "setup",
               report = {}
        PROVE  ReachedInv'
    BY <2>1, <2>5 DEF ReachedInv, ReportIsReached
  <2>6. CASE (Setup \/ QuickSetup) /\ script # "none"
    BY <2>5, <2>6 DEF Setup, QuickSetup, ReachedInv
  <2>7. CASE UserStep
    BY <2>5, <2>7 DEF UserStep, loopVars, ReachedInv
  <2>8. CASE \/ /\ WarmStep \/ WarmDone \/ LoopStep \/ Account
                   \/ QuickAccount \/ BenchEnds
                /\ script # "none"
             \/ UNCHANGED vars
    <3>1. \A w \in Worlds : reached[w] => reached'[w]
      BY <2>8 DEF WarmStep, WarmDone, LoopStep, Observe, Act, Physics, Account,
                  QuickAccount, BenchEnds, BeginStep, Substep, Render, envVars,
                  vars
    <3>2. /\ report' = report /\ script' = script
          /\ pc' = "setup" => pc = "setup"
          /\ script = "none" => pc' = "setup"
      BY <2>8 DEF WarmStep, WarmDone, LoopStep, Observe, Act, Physics, Account,
                  QuickAccount, BenchEnds, loopVars, vars, ReachedInv
    <3> QED
      BY <2>4, <3>1, <3>2
  <2> QED
    BY <2>2, <2>3, <2>6, <2>7, <2>8
       DEF Next, ScriptStep, BenchStep, QuickStep
<1>3. ReachedInv => ReportIsReached
  BY DEF ReachedInv
<1> QED
  BY <1>1, <1>2, <1>3, PTL DEF Spec

-----------------------------------------------------------------------------
(* What is noticed. *)

\* Division leaves one remainder.
LEMMA RemainderIs ==
  ASSUME NEW n \in Nat, NEW k \in Nat \ {0}, NEW q \in Nat,
         NEW r \in 0 .. k - 1, n = k * q + r
  PROVE  n % k = r
OBVIOUS

\* Remainders go up by one and fall back to 0.
LEMMA NextRemainder ==
  ASSUME NEW n \in Nat, NEW k \in Nat \ {0}
  PROVE  /\ n % k \in 0 .. k - 1
         /\ (n + 1) % k = 0 \/ (n + 1) % k = (n % k) + 1
<1> DEFINE q == n \div k
           r == n % k
<1>1. q \in Nat /\ r \in 0 .. k - 1 /\ n = k * q + r
  <2>1. n \div k \in Nat
    OBVIOUS
  <2>2. n % k \in 0 .. k - 1
    OBVIOUS
  <2>3. n = k * (n \div k) + (n % k)
    OBVIOUS
  <2> QED
    BY <2>1, <2>2, <2>3
<1> HIDE DEF q, r
<1>2. CASE r + 1 < k
  <2>1. n + 1 = k * q + (r + 1) /\ r + 1 \in 0 .. k - 1 /\ n + 1 \in Nat
    BY <1>1, <1>2
  <2>2. (n + 1) % k = r + 1
    BY <1>1, <2>1, RemainderIs
  <2> QED
    BY <1>1, <2>2 DEF r
<1>3. CASE ~(r + 1 < k)
  <2>1. k * (q + 1) = k * q + k
    BY <1>1
  <2>2. k * q \in Nat
    BY <1>1
  <2>3. n + 1 = k * (q + 1) + 0
    BY <1>1, <1>3, <2>1, <2>2
  <2>4. 0 \in 0 .. k - 1 /\ q + 1 \in Nat /\ n + 1 \in Nat
    BY <1>1
  <2>5. (n + 1) % k = 0
    BY <2>3, <2>4, RemainderIs
  <2> QED
    BY <1>1, <2>5 DEF r
<1> QED
  BY <1>2, <1>3

\* A world that is not done has been successful for no longer than since the
\* last check; before the loop and in the example it has not been looked at.
HeldInv ==
  /\ held \in [Worlds -> 0 .. Interval]
  /\ pc \in {"setup", "warm"} => iter = 0
  /\ pc \in {"setup", "warm"} \/ script = "quickstart" =>
       \A w \in Worlds : held[w] = 0
  /\ pc \in {"loop", "act", "step"} =>
       \A w \in Worlds : done[w] \/ held[w] <= iter % Interval

\* A check settles every world that is successful or out of steps.
LEMMA CheckSettles ==
  ASSUME CountInv, HeldInv, Account, Checks, pc' = "loop"
  PROVE  \A w \in Worlds : done'[w] \/ held'[w] = 0
<1>1. ~Malformed(task)
  BY DEF Account
<1>2. done' = [w \in Worlds |-> done[w] \/ (~Malformed(task) /\ Settles(w))]
  BY DEF Account
<1>3. \A w \in Worlds : success[w] => done'[w]
  BY <1>1, <1>2 DEF Settles
<1>4. \A w \in Worlds : ~success[w] => held'[w] = 0
  BY DEF Account
<1> QED
  BY <1>3, <1>4

\* Between checks a success holds one step longer at most.
LEMMA HeldAccount ==
  ASSUME CountInv, HeldInv, Account, script # "quickstart"
  PROVE  HeldInv'
<1>1. /\ pc = "step" /\ pc' \in {"loop", "crashed"} /\ script' = script
  BY DEF Account
<1>2. iter' = iter + 1 /\ iter \in Nat /\ Interval \in Nat \ {0}
  BY <1>1, LoopAssumption DEF Account, CountInv, Loop
<1>3. /\ iter % Interval \in 0 .. Interval - 1
      /\ \/ (iter + 1) % Interval = 0
         \/ (iter + 1) % Interval = (iter % Interval) + 1
  BY <1>2, NextRemainder
<1>4. /\ (iter + 1) % Interval \in 0 .. Interval - 1
  BY <1>2
<1>5. /\ held' = [w \in Worlds |-> IF ~success[w] THEN 0
                                   ELSE IF held[w] < Interval THEN held[w] + 1
                                   ELSE Interval]
      /\ \A w \in Worlds : held[w] \in 0 .. Interval
  BY DEF Account, HeldInv
<1>6. held' \in [Worlds -> 0 .. Interval]
  BY <1>2, <1>5
<1>7. ASSUME pc' = "loop", NEW w \in Worlds
      PROVE  done'[w] \/ held'[w] <= (iter + 1) % Interval
  <2>1. CASE Checks
    BY <1>4, <1>7, <2>1, CheckSettles
  <2>2. CASE ~Checks
    <3>1. CurStep = iter + 1
      BY <1>1, MostIsIter DEF CountInv, CurStep, Loop
    <3>2. (iter + 1) % Interval = (iter % Interval) + 1
      BY <1>3, <2>2, <3>1 DEF Checks
    <3>3. done' = done
      BY <2>2 DEF Account
    <3>4. done[w] \/ held[w] <= iter % Interval
      BY <1>1 DEF HeldInv
    <3>5. held'[w] <= held[w] + 1
      BY <1>2, <1>5
    <3>6. held[w] \in Nat /\ held'[w] \in Nat /\ iter % Interval \in Nat
      BY <1>2, <1>3, <1>5, <1>6
    <3> QED
      BY <3>2, <3>3, <3>4, <3>5, <3>6
  <2> QED
    BY <2>1, <2>2
<1> QED
  BY <1>1, <1>2, <1>6, <1>7 DEF HeldInv

\* The other steps leave the flags and the count of the steps alone.
LEMMA HeldStep ==
  ASSUME CountInv, HeldInv, [Next]_vars
  PROVE  HeldInv'
<1>1. CASE Account /\ script # "quickstart"
  BY <1>1, HeldAccount
<1>2. CASE QuickAccount /\ script = "quickstart"
  <2>1. /\ held' = held /\ script' = script /\ pc' = "loop" /\ iter' = iter + 1
        /\ iter \in Nat /\ Interval \in Nat \ {0}
    BY <1>2, LoopAssumption DEF QuickAccount, CountInv
  <2>2. \A w \in Worlds : held[w] = 0
    BY <1>2 DEF HeldInv
  <2>3. (iter + 1) % Interval \in 0 .. Interval - 1
    BY <2>1
  <2> QED
    BY <2>1, <2>2, <2>3 DEF HeldInv
<1>3. ASSUME held' = held, script' = script, iter' = iter, done' = done,
             pc' \in {"setup", "warm"} => pc \in {"setup", "warm"},
             pc' \in {"loop", "act", "step"} =>
               pc \in {"loop", "act", "step", "setup", "warm"}
      PROVE  HeldInv'
  <2>1. iter = 0 => iter % Interval = 0
    BY LoopAssumption
  <2> QED
    BY <1>3, <2>1 DEF HeldInv
<1>4. CASE Setup \/ QuickSetup \/ WarmStep \/ WarmDone \/ Act \/ Observe
  BY <1>3, <1>4 DEF Setup, QuickSetup, WarmStep, WarmDone, Act, Observe
<1>5. CASE Report \/ QuickReport \/ BenchEnds
  BY <1>3, <1>5 DEF Report, QuickReport, BenchEnds
<1>6. CASE Physics \/ UserStep \/ UNCHANGED vars
  BY <1>3, <1>6 DEF Physics, UserStep, loopVars, vars
<1> QED
  BY <1>1, <1>2, <1>4, <1>5, <1>6
     DEF Next, ScriptStep, BenchStep, QuickStep, LoopStep

\* It holds always.
LEMMA HeldInvariant == Spec => []HeldInv
<1>1. Init => HeldInv
  <2>1. Interval \in Nat
    BY LoopAssumption
  <2> QED
    BY <2>1 DEF Init, HeldInv
<1>2. CountInv /\ HeldInv /\ [Next]_vars => HeldInv'
  BY HeldStep
<1> QED
  BY <1>1, <1>2, CountInvariant, PTL DEF Spec

\* A world that has been successful for as many steps as lie between two checks
\* is done, in every script that checks.
THEOREM HeldIsNoticed == Spec => []HeldSuccessNoticed
<1>1. ASSUME CountInv, HeldInv PROVE HeldSuccessNoticed
  <2>1. iter % Interval \in 0 .. Interval - 1 /\ Interval \in Nat
    BY <1>1, LoopAssumption DEF CountInv
  <2>2. \A w \in Worlds : pc = "loop" /\ held[w] = Interval => done[w]
    BY <1>1, <2>1 DEF HeldInv
  <2> QED
    BY <2>2 DEF HeldSuccessNoticed
<1>2. CountInv /\ HeldInv => HeldSuccessNoticed
  BY <1>1
<1> QED
  BY <1>2, CountInvariant, HeldInvariant, PTL

-----------------------------------------------------------------------------
(* Types. *)

\* What success reports is a flag for each world.
LEMMA SuccessFlags ==
  ASSUME NEW s
  PROVE  SuccessOf(s) \in Flags
<1>1. \A w \in Worlds :
        (~Malformed(task) /\ (Always(task) \/ s[w])) \in BOOLEAN
  BY Zenon
<1> QED
  BY <1>1, Zenon DEF SuccessOf, Flags

\* The calls of the environments keep their types.
LEMMA EnvTyped ==
  ASSUME EnvTypeOK,
         \/ Reset \/ MakeState \/ SpatialReset \/ BatchReset \/ SetState
         \/ GetSimState \/ SetSimState \/ BeginStep \/ Substep \/ Render
         \/ UNCHANGED envVars
  PROVE  EnvTypeOK'
<1> USE DEF EnvTypeOK
<1>1. NSub \in Nat \ {0} /\ Lost = NSub + 2 /\ Ages = 0 .. NSub + 2
  BY EnvAssumption DEF Lost, Ages
<1>2. ASSUME NEW age \in {0, Lost}, FreshState(age) PROVE EnvTypeOK'
  <2>1. /\ near' \in Flags /\ seen' \in Flags /\ reached' \in Flags
        /\ success' \in Flags
    BY <1>2 DEF FreshState, Flags
  <2>2. made' \in BOOLEAN /\ raw' \in BOOLEAN
    BY <1>2, Zenon DEF FreshState
  <2>3. kin' \in Ages /\ dyn' \in Ages /\ goal' \in Ages /\ mass' \in Ages
    BY <1>1, <1>2 DEF FreshState
  <2>4. UNCHANGED <<api, task, first, sub, saved, NSub>>
    BY <1>2 DEF FreshState
  <2> HIDE DEF EnvTypeOK
  <2> QED
    BY <1>1, <2>1, <2>2, <2>3, <2>4 DEF EnvTypeOK
<1>3. CASE SetState
  BY <1>1, <1>3 DEF SetState, Flags
<1>4. CASE Reset \/ MakeState \/ SpatialReset \/ BatchReset
  BY <1>2, <1>4 DEF Reset, MakeState, SpatialReset, BatchReset
<1>5. CASE GetSimState
  BY <1>5 DEF GetSimState, Ages, Lost
<1>6. CASE SetSimState
  <2>1. near' \in Flags
    BY <1>6 DEF SetSimState
  <2>2. reached' \in Flags
    BY <1>6, <2>1 DEF SetSimState, Flags
  <2>3. /\ seen' = near' /\ raw' = FALSE /\ kin' = 0 /\ dyn' = 0
        /\ goal' = Lost /\ mass' = Lost
        /\ UNCHANGED <<api, task, made, first, sub, success, saved>>
    BY <1>6 DEF SetSimState
  <2>4. kin' \in Ages /\ dyn' \in Ages /\ goal' \in Ages /\ mass' \in Ages
    BY <1>1, <2>3
  <2>5. saved' \in {{}} \cup {{f} : f \in Flags} /\ raw' \in BOOLEAN
    BY <2>3, Zenon
  <2>6. UNCHANGED <<Ages, Flags, NSub>>
    BY DEF Ages, Flags, Lost
  <2> QED
    BY <2>1, <2>2, <2>3, <2>4, <2>5, <2>6, Zenon
<1>7. CASE BeginStep
  BY <1>1, <1>7 DEF BeginStep, Forward, CopiedMass
<1>8. CASE Substep
  <2>1. near' \in Flags /\ seen' \in Flags
    BY <1>8 DEF Substep
  <2>2. reached' \in Flags
    BY <1>8, <2>1 DEF Substep, Flags
  <2>3. success' \in Flags
    BY <1>8, <2>1, SuccessFlags DEF Substep
  <2>4. sub' \in 0 .. NSub
    BY <1>8, EnvAssumption DEF Substep
  <2>5. kin' \in Ages /\ dyn' \in Ages /\ goal' \in Ages /\ mass' \in Ages
    BY <1>1, <1>8, OlderIs DEF Substep
  <2> QED
    BY <1>8, <2>1, <2>2, <2>3, <2>4, <2>5 DEF Substep, Ages, Lost
<1>9. CASE Render
  BY <1>1, <1>9 DEF Render, Forward
<1>10. CASE UNCHANGED envVars
  BY <1>10 DEF envVars, Ages, Lost
<1> QED
  BY <1>3, <1>4, <1>5, <1>6, <1>7, <1>8, <1>9, <1>10

\* The variables of the loop that the invariants above do not bound.
LoopTyped ==
  /\ script \in Scripts /\ maxSteps \in StepLimits
  /\ pc \in {"setup", "warm", "loop", "act", "step", "reported", "crashed"}
  /\ warm \in 0 .. Warmup /\ report \subseteq Worlds

\* Every step keeps them.
LEMMA LoopTypedStep ==
  ASSUME LoopTyped, [Next]_vars
  PROVE  LoopTyped'
<1> USE DEF LoopTyped
<1>1. CASE Setup \/ QuickSetup \/ WarmDone \/ Act \/ Observe
  BY <1>1 DEF Setup, QuickSetup, WarmDone, Act, Observe
<1>2. CASE WarmStep
  BY <1>2, LoopAssumption DEF WarmStep
<1>3. CASE Account \/ QuickAccount \/ BenchEnds
  BY <1>3 DEF Account, QuickAccount, BenchEnds
<1>4. CASE Report \/ QuickReport
  BY <1>4 DEF Report, QuickReport
<1>5. CASE Physics \/ UserStep \/ UNCHANGED vars
  BY <1>5 DEF Physics, UserStep, loopVars, vars
<1> QED
  BY <1>1, <1>2, <1>3, <1>4, <1>5
     DEF Next, ScriptStep, BenchStep, QuickStep, LoopStep

\* Every variable of the environment and of the scripts has its type: no count
\* passes the limit of steps.
THEOREM EvalTyped == Spec => []TypeOK
<1>1. Init => EnvTypeOK /\ LoopTyped
  <2> SUFFICES ASSUME Init PROVE EnvTypeOK /\ LoopTyped
    OBVIOUS
  <2>1. LoopTyped
    BY LoopAssumption DEF Init, LoopTyped
  <2>2. near \in Flags /\ seen \in Flags /\ success \in Flags /\ reached \in Flags
    BY DEF Init, EnvInit, Flags
  <2>3. Lost \in Ages /\ 0 \in 0 .. NSub
    BY EnvAssumption DEF Ages, Lost
  <2>4. EnvTypeOK
    BY <2>2, <2>3 DEF Init, EnvInit, EnvTypeOK
  <2> QED
    BY <2>1, <2>4
<1>2. EnvTypeOK /\ [Next]_vars => EnvTypeOK'
  BY OneCall, EnvTyped
<1>3. LoopTyped /\ [Next]_vars => LoopTyped'
  BY LoopTypedStep
<1>4. ASSUME EnvTypeOK, LoopTyped, CountInv, HeldInv PROVE TypeOK
  <2>1. iter \in 0 .. maxSteps
    BY <1>4 DEF CountInv
  <2>2. steps \in [Worlds -> 0 .. maxSteps]
    <3>1. \A w \in Worlds : steps[w] <= iter
      BY <1>4, Zenon DEF CountInv
    <3>2. /\ iter \in Nat /\ maxSteps \in Nat /\ iter <= maxSteps
          /\ steps \in [Worlds -> Nat]
      BY <1>4 DEF CountInv
    <3> QED
      BY <3>1, <3>2
  <2> QED
    BY <1>4, <2>1, <2>2 DEF TypeOK, LoopTyped, CountInv, HeldInv
<1>5. EnvTypeOK /\ LoopTyped /\ CountInv /\ HeldInv => TypeOK
  BY <1>4
<1> QED
  BY <1>1, <1>2, <1>3, <1>5, CountInvariant, HeldInvariant, PTL DEF Spec
=============================================================================
