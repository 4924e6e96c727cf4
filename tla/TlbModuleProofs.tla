--------------------------- MODULE TlbModuleProofs ---------------------------
(***************************************************************************)
(* Proofs about TlbModule for every set of tasks.                          *)
(***************************************************************************)
EXTENDS TlbModule, TLAPS

\* Every hook is removed at a place of its own, and hook (A) at the last.
LEMMA RemoveFacts ==
  /\ Len(RemoveList) = 7
  /\ \A h \in Hooks : \E k \in 1 .. 7 : RemoveList[k] = h
  /\ \A k \in 1 .. 7 : RemoveList[k] = "update" <=> k = 7
BY DEF RemoveList, Hooks, Ftrace, Kprobes

\* A mode that arms hooks arms (A) before any replacement.
LEMMA ArmFacts ==
  ASSUME mode \in Modes
  PROVE  /\ Len(ArmList) \in 0 .. 5
         /\ \A k \in 1 .. Len(ArmList) :
              ArmList[k] \in Ftrace => mode = "syncmap" /\ k > 1
         /\ mode = "syncmap" => ArmList[1] = "update"
<1>1. CASE mode = "syncmap"
  BY <1>1 DEF ArmList, Ftrace
<1>2. CASE mode \in {"remapflush", "fence"}
  BY <1>2 DEF ArmList, Ftrace
<1>3. CASE mode = "syncflush"
  BY <1>3 DEF ArmList, Ftrace
<1>4. CASE mode = "both"
  BY <1>4 DEF ArmList, Ftrace
<1>5. CASE mode = "other"
  BY <1>5 DEF ArmList, Ftrace
<1> QED
  BY <1>1, <1>2, <1>3, <1>4, <1>5 DEF Modes

-----------------------------------------------------------------------------
(* Type correctness. *)

\* Loading, unloading and the tasks keep their types, in any interleaving.
THEOREM TypeCorrect == Spec => []TypeOK
<1>1. ASSUME Init PROVE TypeOK
  <2>1. step \in 1 .. 8
    BY <1>1 DEF Init
  <2>2. /\ at \in [Tasks -> {"outside", "entered", "orig", "back"}]
        /\ fn \in [Tasks -> Ftrace]
    BY <1>1 DEF Init, Ftrace
  <2> QED
    BY <1>1, <2>1, <2>2 DEF Init, TypeOK, Modes
<1>2. TypeOK /\ [Next]_vars => TypeOK'
  <2> SUFFICES ASSUME TypeOK, [Next]_vars PROVE TypeOK'
    OBVIOUS
  <2> USE DEF TypeOK, envVars, modVars, taskVars
  <2>1. ASSUME NEW m \in Modes, Insmod(m) PROVE TypeOK'
    BY <2>1 DEF Insmod
  <2>2. CASE Rmmod \/ CheckPassed \/ ArmFails \/ FreeModule
    <3>1. step' \in 1 .. 8
      BY <2>2 DEF Rmmod, CheckPassed, ArmFails, FreeModule
    <3> QED
      BY <2>2, <3>1 DEF Rmmod, CheckPassed, ArmFails, FreeModule
  <2>3. CASE LoadRefused \/ LoadDone
    BY <2>3 DEF LoadRefused, LoadDone
  <2>4. CASE GmcSkipped
    BY <2>4, ArmFacts DEF GmcSkipped, Arming
  <2>5. ASSUME NEW h \in Hooks, ArmHook(h) PROVE TypeOK'
    BY <2>5, ArmFacts DEF ArmHook, Arming
  <2>6. ASSUME NEW h \in Hooks, RemoveHook(h) PROVE TypeOK'
    BY <2>6, RemoveFacts DEF RemoveHook, Removing
  <2>7. CASE Resolve
    BY <2>7, ArmFacts DEF Resolve, Arming
  <2>8. CASE RcuTasksDone
    BY <2>8, RemoveFacts DEF RcuTasksDone, Removing
  <2>9. ASSUME NEW t \in Tasks, TaskStep(t) PROVE TypeOK'
    <3>1. CASE CallOriginal(t)
      BY <3>1 DEF CallOriginal
    <3>2. CASE Sleep(t) \/ Wake(t)
      BY <3>2 DEF Sleep, Wake
    <3>3. CASE OriginalReturns(t)
      BY <3>3 DEF OriginalReturns
    <3>4. CASE LeaveHooked(t)
      BY <3>4 DEF LeaveHooked, Ftrace
    <3> QED
      BY <2>9, <3>1, <3>2, <3>3, <3>4 DEF TaskStep
  <2>10. ASSUME NEW t \in Tasks, NEW f \in Ftrace, EnterHooked(t, f)
         PROVE  TypeOK'
    BY <2>10 DEF EnterHooked
  <2>11. CASE UNCHANGED vars
    BY <2>11 DEF vars
  <2> QED
    BY <2>1, <2>2, <2>3, <2>4, <2>5, <2>6, <2>7, <2>8, <2>9, <2>10, <2>11
       DEF Next, ModuleStep
<1> QED
  BY <1>1, <1>2, PTL DEF Spec

-----------------------------------------------------------------------------
(* Registration.  What the kernel has registered is told by the flags and  *)
(* the place of the loader in its list, and only together do these say     *)
(* which hooks a failure or an unload leaves.                              *)

\* The hooks removed before place n of the list.
Removed(n) == {RemoveList[k] : k \in 1 .. n - 1}

\* The text is there for as long as the module is; what is armed is registered
\* until it is removed; and a replacement is only armed behind hook (A).
RegistrationInv ==
  /\ text <=> phase # "out"
  /\ phase = "out" => registered = {}
  /\ phase = "check" => registered = {} /\ armed = {}
  /\ phase \in {"arming", "in"} => registered = armed
  /\ phase = "arming" =>
       /\ armed \cap Ftrace # {} => mode = "syncmap"
       /\ mode = "syncmap" /\ step > 1 => "update" \in armed
       /\ step = 1 => armed = {}
  /\ phase = "removing" => registered = armed \ Removed(step)
  /\ phase \in {"in", "removing"} /\ armed \cap Ftrace # {} => "update" \in armed

\* The next hook of the list is armed, behind (A) if it is a replacement.
LEMMA ArmStep ==
  ASSUME TypeOK, RegistrationInv, NEW h \in Hooks, ArmHook(h)
  PROVE  RegistrationInv'
<1>1. /\ phase = "arming" /\ phase' = "arming" /\ mode' = mode
      /\ text' = text /\ step' = step + 1 /\ step \in Nat /\ step >= 1
      /\ registered' = registered \cup {h} /\ armed' = armed \cup {h}
      /\ step <= Len(ArmList) /\ ArmList[step] = h
  BY DEF ArmHook, Arming, TypeOK
<1>2. h \in Ftrace => mode = "syncmap"
  BY <1>1, ArmFacts DEF TypeOK
<1>3. mode = "syncmap" => "update" \in armed'
  <2>1. CASE step = 1
    BY <2>1, <1>1, ArmFacts DEF TypeOK
  <2>2. CASE step > 1
    BY <2>2, <1>1 DEF RegistrationInv
  <2> QED
    BY <2>1, <2>2, <1>1
<1> QED
  BY <1>1, <1>2, <1>3 DEF RegistrationInv

\* Places of the list that arm nothing come after (A).
LEMMA SkipStep ==
  ASSUME TypeOK, RegistrationInv,
         GmcSkipped \/ Resolve
  PROVE  RegistrationInv'
<1>1. /\ phase = "arming" /\ phase' = "arming" /\ mode' = mode
      /\ text' = text /\ step' = step + 1 /\ step \in Nat /\ step >= 1
      /\ registered' = registered /\ armed' = armed
      /\ step <= Len(ArmList) /\ ArmList[step] \in {"gmc", "resolve"}
  BY DEF GmcSkipped, Resolve, Arming, TypeOK
<1>2. mode = "syncmap" => step > 1
  BY <1>1, ArmFacts DEF TypeOK
<1> QED
  BY <1>1, <1>2 DEF RegistrationInv

\* The next hook of the list is removed.
LEMMA RemoveStep ==
  ASSUME TypeOK, RegistrationInv,
         RcuTasksDone \/ \E h \in Hooks : RemoveHook(h)
  PROVE  RegistrationInv'
<1>1. /\ phase = "removing" /\ phase' = "removing" /\ text' = text
      /\ step' = step + 1 /\ step \in Nat /\ step >= 1 /\ armed' = armed
      /\ step <= 7 /\ registered' = registered \ {RemoveList[step]}
  <2>1. CASE RcuTasksDone
    <3>1. RemoveList[step] = "sync" /\ "sync" \notin Hooks
      BY <2>1 DEF RcuTasksDone, Removing, Hooks, Ftrace, Kprobes
    <3> QED
      BY <2>1, <3>1, RemoveFacts DEF RcuTasksDone, Removing, TypeOK
  <2>2. ASSUME NEW h \in Hooks, RemoveHook(h)
        PROVE  /\ phase = "removing" /\ phase' = "removing" /\ text' = text
               /\ step' = step + 1 /\ step \in Nat /\ step >= 1 /\ armed' = armed
               /\ step <= 7 /\ registered' = registered \ {RemoveList[step]}
    <3>1. h \notin armed => h \notin registered
      BY <2>2 DEF RegistrationInv, RemoveHook, Removing
    <3> QED
      BY <2>2, <3>1, RemoveFacts DEF RemoveHook, Removing, TypeOK
  <2> QED
    BY <2>1, <2>2
<1>2. Removed(step + 1) = Removed(step) \cup {RemoveList[step]}
  BY <1>1 DEF Removed
<1> QED
  BY <1>1, <1>2 DEF RegistrationInv

\* Nothing is registered after the whole list.
LEMMA FreeStep ==
  ASSUME TypeOK, RegistrationInv, FreeModule
  PROVE  RegistrationInv'
<1>1. /\ phase = "removing" /\ phase' = "out" /\ ~text'
      /\ registered' = registered /\ step = 8
  BY RemoveFacts DEF FreeModule, TypeOK
<1>2. Hooks \subseteq Removed(8)
  BY RemoveFacts DEF Removed
<1>3. registered = {}
  BY <1>1, <1>2 DEF RegistrationInv, TypeOK
<1> QED
  BY <1>1, <1>3 DEF RegistrationInv

\* Registration stays as the flags and the place in the lists say, whatever
\* fails and whatever the tasks do meanwhile.
LEMMA RegistrationInvariant == Spec => []RegistrationInv
<1>1. Init => RegistrationInv
  BY DEF Init, RegistrationInv
<1>2. TypeOK /\ RegistrationInv /\ [Next]_vars => RegistrationInv'
  <2> SUFFICES ASSUME TypeOK, RegistrationInv, [Next]_vars
               PROVE  RegistrationInv'
    OBVIOUS
  <2>1. ASSUME NEW m \in Modes, Insmod(m) PROVE RegistrationInv'
    BY <2>1 DEF Insmod, RegistrationInv
  <2>2. CASE Rmmod
    <3>1. Removed(1) = {}
      BY DEF Removed
    <3> QED
      BY <2>2, <3>1 DEF Rmmod, RegistrationInv
  <2>3. CASE LoadRefused \/ CheckPassed
    BY <2>3 DEF LoadRefused, CheckPassed, RegistrationInv
  <2>4. CASE ArmFails
    <3>1. Removed(1) = {}
      BY DEF Removed
    <3>2. armed \cap Ftrace # {} => "update" \in armed
      BY <2>4 DEF ArmFails, RegistrationInv, TypeOK
    <3> QED
      BY <2>4, <3>1, <3>2 DEF ArmFails, RegistrationInv
  <2>5. CASE LoadDone
    BY <2>5 DEF LoadDone, RegistrationInv, TypeOK
  <2>6. CASE GmcSkipped \/ Resolve
    BY <2>6, SkipStep
  <2>7. ASSUME NEW h \in Hooks, ArmHook(h) PROVE RegistrationInv'
    BY <2>7, ArmStep
  <2>8. CASE RcuTasksDone \/ \E h \in Hooks : RemoveHook(h)
    BY <2>8, RemoveStep
  <2>9. CASE FreeModule
    BY <2>9, FreeStep
  <2>10. ASSUME UNCHANGED <<mode, phase, step, armed, registered, text>>
         PROVE  RegistrationInv'
    BY <2>10 DEF RegistrationInv, Removed
  <2>11. ASSUME NEW t \in Tasks, TaskStep(t) PROVE RegistrationInv'
    BY <2>10, <2>11 DEF TaskStep, CallOriginal, Sleep, Wake, OriginalReturns,
                        LeaveHooked, modVars
  <2>12. ASSUME NEW t \in Tasks, NEW f \in Ftrace, EnterHooked(t, f)
         PROVE  RegistrationInv'
    BY <2>10, <2>12 DEF EnterHooked, modVars
  <2>13. CASE UNCHANGED vars
    BY <2>10, <2>13 DEF vars, modVars
  <2> QED
    BY <2>1, <2>2, <2>3, <2>4, <2>5, <2>6, <2>7, <2>8, <2>9, <2>11, <2>12,
       <2>13 DEF Next, ModuleStep
<1> QED
  BY <1>1, <1>2, TypeCorrect, PTL DEF Spec

\* Whatever fails while loading, and wherever unloading is, a replacement that
\* waits for a fence is only registered together with hook (A), which makes the
\* fence the one of the flush.
THEOREM WaitersAlwaysHaveFlush == Spec => []WaitersHaveFlush
<1>1. TypeOK /\ RegistrationInv => WaitersHaveFlush
  <2> SUFFICES ASSUME TypeOK, RegistrationInv, registered \cap Ftrace # {}
               PROVE  "update" \in registered
    BY DEF WaitersHaveFlush
  <2>1. phase \in {"arming", "in", "removing"}
    BY DEF TypeOK, RegistrationInv
  <2>2. CASE phase = "arming"
    BY <2>2 DEF TypeOK, RegistrationInv
  <2>3. CASE phase = "in"
    BY <2>3 DEF RegistrationInv
  <2>4. CASE phase = "removing"
    <3>1. "update" \in armed /\ registered = armed \ Removed(step)
      BY <2>4 DEF RegistrationInv
    <3>2. CASE step = 8
      <4>1. Hooks \subseteq Removed(8)
        BY RemoveFacts DEF Removed
      <4> QED
        BY <3>1, <3>2, <4>1 DEF TypeOK
    <3>3. CASE step # 8
      <4>1. "update" \notin Removed(step)
        BY <3>3, RemoveFacts DEF Removed, TypeOK
      <4> QED
        BY <3>1, <4>1
    <3> QED
      BY <3>2, <3>3
  <2> QED
    BY <2>1, <2>2, <2>3, <2>4
<1> QED
  BY <1>1, TypeCorrect, RegistrationInvariant, PTL

\* Nothing of a module that is gone, or that failed to load at any of its
\* hooks, stays registered with the kernel.
THEOREM NothingStays == Spec => []NothingLeftBehind
<1>1. RegistrationInv => NothingLeftBehind
  BY DEF RegistrationInv, NothingLeftBehind
<1> QED
  BY <1>1, RegistrationInvariant, PTL

-----------------------------------------------------------------------------
(* The grace period of Tasks RCU. *)

\* A task that has not slept since it entered a replacement is there only while
\* a replacement is armed and the grace period is not over, which waits for it.
GraceInv ==
  /\ asleep \subseteq slept
  /\ \A t \in Tasks : at[t] # "outside" /\ t \notin slept =>
       /\ phase \in {"arming", "in", "removing"}
       /\ armed \cap Ftrace # {}
       /\ phase = "removing" => step <= 4 /\ (step = 4 => t \in holdouts)

\* The three replacements come first in the list, then the grace period.
LEMMA GraceFacts ==
  /\ RemoveList[3] = "gemupd" /\ RemoveList[4] = "sync"
  /\ \A k \in 1 .. 7 : RemoveList[k] = "gemupd" <=> k = 3
  /\ \A k \in 1 .. 7 : RemoveList[k] = "sync" <=> k = 4
  /\ \A k \in 4 .. 8 : Ftrace \subseteq Removed(k)
BY DEF RemoveList, Removed, Ftrace

\* The grace period covers every task that runs through a replacement, in
\* whatever order tasks enter, sleep and leave while hooks come and go.
LEMMA GraceInvariant == Spec => []GraceInv
<1>1. Init => GraceInv
  BY DEF Init, GraceInv
<1>2. TypeOK /\ RegistrationInv /\ GraceInv /\ [Next]_vars => GraceInv'
  <2> SUFFICES ASSUME TypeOK, RegistrationInv, GraceInv, [Next]_vars
               PROVE  GraceInv'
    OBVIOUS
  <2>1. ASSUME NEW m \in Modes, Insmod(m) PROVE GraceInv'
    BY <2>1 DEF Insmod, GraceInv, taskVars
  <2>2. CASE Rmmod \/ ArmFails
    BY <2>2 DEF Rmmod, ArmFails, GraceInv, taskVars
  <2>3. CASE LoadRefused \/ CheckPassed
    BY <2>3 DEF LoadRefused, CheckPassed, GraceInv, RegistrationInv, taskVars
  <2>4. CASE Resolve \/ GmcSkipped \/ LoadDone
    BY <2>4 DEF Resolve, GmcSkipped, LoadDone, Arming, GraceInv, taskVars
  <2>5. ASSUME NEW h \in Hooks, ArmHook(h) PROVE GraceInv'
    BY <2>5 DEF ArmHook, Arming, GraceInv, taskVars
  <2>6. ASSUME NEW h \in Hooks, RemoveHook(h) PROVE GraceInv'
    <3>1. /\ phase = "removing" /\ phase' = "removing" /\ step \in 1 .. 7
          /\ step' = step + 1 /\ armed' = armed /\ RemoveList[step] = h
          /\ UNCHANGED <<at, slept, asleep>>
      BY <2>6, RemoveFacts DEF RemoveHook, Removing, TypeOK, taskVars
    <3>2. h \in Hooks => h # "sync"
      BY DEF Hooks, Ftrace, Kprobes
    <3>3. step # 4
      BY <3>1, <3>2, GraceFacts
    <3>4. CASE step = 3
      <4>1. h = "gemupd"
        BY <3>1, <3>4, GraceFacts
      <4>2. armed \cap Ftrace # {} =>
              holdouts' = {t \in Tasks : at[t] # "outside"} \ asleep
        BY <2>6, <4>1 DEF RemoveHook
      <4> QED
        BY <3>1, <3>4, <4>2 DEF GraceInv
    <3>5. CASE step # 3
      BY <3>1, <3>3, <3>5 DEF GraceInv
    <3> QED
      BY <3>4, <3>5
  <2>7. CASE RcuTasksDone
    <3>1. phase = "removing" /\ step = 4 /\ holdouts = {} /\ step' = 5
      BY <2>7, RemoveFacts, GraceFacts
         DEF RcuTasksDone, Removing, GraceOver, TypeOK
    <3> QED
      BY <2>7, <3>1 DEF RcuTasksDone, GraceInv, taskVars
  <2>8. CASE FreeModule
    <3>1. phase = "removing" /\ step = 8
      BY <2>8, RemoveFacts DEF FreeModule, TypeOK
    <3> QED
      BY <2>8, <3>1 DEF FreeModule, GraceInv, taskVars
  <2>9. ASSUME NEW t \in Tasks, TaskStep(t) PROVE GraceInv'
    <3>1. CASE CallOriginal(t) \/ OriginalReturns(t)
      BY <3>1 DEF CallOriginal, OriginalReturns, GraceInv, modVars, TypeOK
    <3>2. CASE Sleep(t)
      BY <3>2 DEF Sleep, GraceInv
    <3>3. CASE Wake(t)
      BY <3>3 DEF Wake, GraceInv, modVars
    <3>4. CASE LeaveHooked(t)
      BY <3>4 DEF LeaveHooked, GraceInv, TypeOK
    <3> QED
      BY <2>9, <3>1, <3>2, <3>3, <3>4 DEF TaskStep
  <2>10. ASSUME NEW t \in Tasks, NEW f \in Ftrace, EnterHooked(t, f)
         PROVE  GraceInv'
    <3>1. /\ at[t] = "outside" /\ f \in registered
          /\ at' = [at EXCEPT ![t] = "entered"]
          /\ UNCHANGED <<modVars, asleep, slept>>
      BY <2>10 DEF EnterHooked
    <3>2. phase \in {"arming", "in", "removing"} /\ f \in armed
      BY <3>1 DEF RegistrationInv, TypeOK
    <3>3. phase = "removing" => step < 4
      BY <3>1, GraceFacts DEF RegistrationInv, TypeOK
    <3> QED
      BY <3>1, <3>2, <3>3 DEF GraceInv, TypeOK, modVars
  <2>11. CASE UNCHANGED vars
    BY <2>11 DEF vars, modVars, taskVars, GraceInv
  <2> QED
    BY <2>1, <2>2, <2>3, <2>4, <2>5, <2>6, <2>7, <2>8, <2>9, <2>10, <2>11
       DEF Next, ModuleStep
<1> QED
  BY <1>1, <1>2, TypeCorrect, RegistrationInvariant, PTL DEF Spec

\* When hook (A) and then the text are gone, only tasks that have slept inside
\* a replacement can still be there, whatever the other tasks did and wherever
\* the load failed.
THEOREM OnlySleepersRemain == Spec => []OnlySleepersStay
<1>1. TypeOK /\ RegistrationInv /\ GraceInv => OnlySleepersStay
  <2> SUFFICES ASSUME TypeOK, RegistrationInv, GraceInv, NEW t \in Tasks,
                      at[t] # "outside", t \notin slept
               PROVE  "update" \in registered
    BY DEF OnlySleepersStay
  <2>1. /\ phase \in {"arming", "in", "removing"} /\ armed \cap Ftrace # {}
        /\ phase = "removing" => step <= 4
    BY DEF GraceInv
  <2>2. CASE phase = "arming"
    BY <2>1, <2>2 DEF TypeOK, RegistrationInv
  <2>3. CASE phase = "in"
    BY <2>1, <2>3 DEF RegistrationInv
  <2>4. CASE phase = "removing"
    <3>1. "update" \notin Removed(step)
      BY <2>1, <2>4, RemoveFacts DEF Removed, TypeOK
    <3> QED
      BY <2>1, <2>4, <3>1 DEF RegistrationInv
  <2> QED
    BY <2>1, <2>2, <2>3, <2>4
<1> QED
  BY <1>1, TypeCorrect, RegistrationInvariant, GraceInvariant, PTL
=============================================================================
