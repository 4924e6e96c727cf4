---------------------------- MODULE HarnessProofs ----------------------------
(***************************************************************************)
(* Proofs about Harness for any number of iterations, any suites and tasks *)
(* and any options of the scripts.                                         *)
(***************************************************************************)
EXTENDS Harness, TLAPS

-----------------------------------------------------------------------------
(* Sequences and records of a run. *)

\* An absent value and a torn file are no states.
LEMMA Absent ==
  None \notin States /\ Torn \notin States /\ None # Torn /\ Torn \notin Results
BY NoneAssumption

\* What is a prefix stays one when an iteration is appended.
LEMMA PrefixFacts ==
  ASSUME NEW R, NEW s \in Seq(R), NEW t \in Seq(R), NEW e \in R
  PROVE  /\ IsPrefix(t, t)
         /\ IsPrefix(s, t) => IsPrefix(s, Append(t, e))
BY DEF IsPrefix

\* The state after an iteration was added.
LEMMA AddedFacts ==
  ASSUME st \in States, NEW r \in Results
  PROVE  /\ Added(r) \in States
         /\ Added(r).run = st.run /\ Added(r).status = st.status
         /\ Added(r).iterations = Append(st.iterations, r)
         /\ Added(r).best = IF Better(r) THEN r.eval.rate ELSE st.best
         /\ Added(r).bestCkpt = IF Better(r) THEN r.eval.ckpt ELSE st.bestCkpt
         /\ st.best <= Added(r).best
<1>1. /\ st.iterations \in Seq(Results) /\ st.best \in Rates
      /\ st.bestCkpt \in Ckpts \cup {None}
  BY DEF States
<1>2. r.eval # None => r.eval.rate \in Rates /\ r.eval.ckpt \in Ckpts
  BY DEF Results, Evals
<1>3. Better(r) => r.eval.rate \in Rates /\ r.eval.ckpt \in Ckpts
                   /\ st.best <= r.eval.rate
  BY <1>1, <1>2 DEF Better, Rates
<1>4. Append(st.iterations, r) \in Seq(Results)
  BY <1>1
<1>5. CASE Better(r)
  <2>1. Added(r) = [st EXCEPT !.iterations = Append(@, r),
                              !.best = r.eval.rate, !.bestCkpt = r.eval.ckpt]
    BY <1>5 DEF Added
  <2> QED
    BY <2>1, <1>3, <1>4, <1>5 DEF States
<1>6. CASE ~Better(r)
  <2>1. Added(r) = [st EXCEPT !.iterations = Append(@, r),
                              !.best = st.best, !.bestCkpt = st.bestCkpt]
    BY <1>6 DEF Added
  <2>2. st.best <= st.best
    BY <1>1 DEF Rates
  <2> QED
    BY <2>1, <2>2, <1>1, <1>4, <1>6 DEF States
<1> QED
  BY <1>5, <1>6

\* A result that was just decided.
LEMMA NewResultType ==
  ASSUME NEW a \in Actions, NEW s \in Suites, NEW t \in TaskIds,
         i \in 0 .. MaxIterations
  PROVE  NewResult(a, s, t) \in Results /\ NewResult(a, s, t).eval = None
BY DEF NewResult, Results

-----------------------------------------------------------------------------
(* Types. *)

\* While the process runs it has a state, and inside an iteration a result.
Types ==
  /\ pc \in {"out", "ping", "top", "returned"} \cup StateSaves \cup Inside
  /\ i \in 0 .. MaxIterations
  /\ pc \in Inside => it \in Results /\ i < MaxIterations
  /\ rollouts \in Seq(Rollouts)
  /\ open \in BOOLEAN /\ cut \in BOOLEAN
  /\ open => pc \in StateSaves \cup {"saveiter"}
  /\ st = None \/ st \in States
  /\ pc # "out" => st \in States

\* A result under construction is one with another note.
LEMMA NotedType ==
  ASSUME it \in Results, NEW why \in {"refused", "failed", "blocked", ""}
  PROVE  [it EXCEPT !.note = why] \in Results
BY DEF Results

\* Every step of a run keeps the types.
LEMMA TypesStep ==
  ASSUME Types, [Next]_vars
  PROVE  Types'
<1> USE HarnessAssumption
<1>1. ASSUME NEW s \in Suites, NEW t \in TaskIds, Run(s, t) PROVE Types'
  <2>1. st' \in States
    BY <1>1 DEF Run, States, RunIds, Rates
  <2> QED
    BY <1>1, <2>1 DEF Run, Started, Types, Inside, StateSaves
<1>2. CASE PingOk
  BY <1>2 DEF PingOk, Types, Inside, StateSaves
<1>3. CASE PingFails \/ LoopEnds
  <2>1. st' \in States
    BY <1>3 DEF PingFails, LoopEnds, Types, States, Finals
  <2> QED
    BY <1>3, <2>1 DEF PingFails, LoopEnds, LeaveLoop, Types, Inside, StateSaves
<1>4. ASSUME NEW target \in Targets, NEW a \in Actions,
             Decide(a, target[1], target[2])
      PROVE  Types'
  <2>1. /\ Focus(target[1], st.suite) \in Suites
        /\ Focus(target[2], st.task) \in TaskIds
    BY <1>4 DEF Decide, Focus, Targets, Types, States
  <2>2. it' \in Results
    BY <1>4, <2>1, NewResultType DEF Decide, Types
  <2> QED
    BY <1>4, <2>2 DEF Decide, Types, Inside, StateSaves
<1>5. ASSUME NEW target \in Targets, Stop(target[1], target[2]) PROVE Types'
  <2> DEFINE r == NewResult("stop", Focus(target[1], st.suite),
                            Focus(target[2], st.task))
  <2>1. /\ Focus(target[1], st.suite) \in Suites
        /\ Focus(target[2], st.task) \in TaskIds
    BY <1>5 DEF Stop, Focus, Targets, Types, States
  <2>2. r \in Results
    BY <2>1, NewResultType DEF Types, Actions
  <2> HIDE DEF r
  <2>3. Added(r) \in States
    BY <1>5, <2>2, AddedFacts DEF Stop, Types
  <2>4. st' \in States
    BY <1>5, <2>3 DEF Stop, States, Finals, r
  <2> QED
    BY <1>5, <2>4 DEF Stop, LeaveLoop, Types, Inside, StateSaves
<1>6. CASE Raises
  <2>1. st' \in States
    BY <1>6 DEF Raises, InIteration, Inside, Types, States
  <2>2. i' \in 0 .. MaxIterations
    BY <1>6 DEF Raises, InIteration, NextTurn, Types, Inside
  <2> QED
    BY <1>6, <2>1, <2>2 DEF Raises, Types, Inside, StateSaves
<1>7. CASE Interrupt
  <2>1. st' \in States
    BY <1>7 DEF Interrupt, InIteration, Inside, Types, States, Finals
  <2> QED
    BY <1>7, <2>1 DEF Interrupt, LeaveLoop, Types, Inside, StateSaves
<1>8. CASE OpenState \/ OpenIteration
  BY <1>8 DEF OpenState, OpenIteration, Types
<1>9. CASE Kill
  BY <1>9 DEF Kill, Types, Inside, StateSaves
<1>10. ASSUME NEW low \in BOOLEAN, NEW form \in Forms, Measure(low, form)
       PROVE  Types'
  <2>1. [run |-> "this", iteration |-> i, low |-> low, form |-> form] \in Rollouts
    BY DEF Types, Rollouts, RunIds
  <2>2. rollouts' \in Seq(Rollouts)
    BY <1>10, <2>1 DEF Measure, Types
  <2> QED
    BY <1>10, <2>2 DEF Measure, Acting, Types, Inside, StateSaves
<1>11. CASE NoMeasurement \/ UnknownAction
  BY <1>11 DEF NoMeasurement, UnknownAction, Acting, Types, Inside, StateSaves
<1>12. ASSUME NEW b \in BOOLEAN, LoadRollout(b) PROVE Types'
  <2> DEFINE newest == IF rollouts = << >> THEN None ELSE Last(rollouts)
             loaded == IF newest # None /\ newest.form = "whole" THEN newest
                       ELSE None
  <2>1. loaded \in Rollouts \cup {None}
    BY DEF Types, Last
  <2>2. it \in Results /\ it' = [it EXCEPT !.rollout = loaded]
    BY <1>12 DEF LoadRollout, Types, Inside
  <2>3. it' \in Results
    BY <2>1, <2>2 DEF Results
  <2> QED
    BY <1>12, <2>3 DEF LoadRollout, Types, Inside, StateSaves
<1>13. ASSUME NEW b \in BOOLEAN, NEW a \in Agents, Propose(a, b) PROVE Types'
  BY <1>13 DEF Propose, Acting, Types, Inside, StateSaves
<1>14. ASSUME NEW b \in BOOLEAN, Critique(b) PROVE Types'
  <2>1. it' \in Results
    BY <1>14, NotedType DEF Critique, Noted, Types, Inside
  <2> QED
    BY <1>14, <2>1 DEF Critique, Noted, Types, Inside, StateSaves
<1>15. ASSUME NEW b \in BOOLEAN, Train(b) PROVE Types'
  <2>1. it \in Results
    BY <1>15 DEF Train, Acting, Types, Inside
  <2>2. [it EXCEPT !.train = TRUE] \in Results
    BY <2>1 DEF Results
  <2>3. it' \in Results
    BY <1>15, <2>1, <2>2, NotedType DEF Train, Noted
  <2> QED
    BY <1>15, <2>3 DEF Train, Acting, Noted, Types, Inside, StateSaves
<1>16. ASSUME NEW b \in BOOLEAN, NEW rate \in Rates, NEW name \in Ckpts,
              Eval(b, rate, name)
       PROVE  Types'
  <2>1. it \in Results /\ st \in States
    BY <1>16 DEF Eval, Acting, Types, Inside
  <2>2. [ckpt |-> name, rate |-> rate] \in Evals
    BY DEF Evals
  <2>3. [it EXCEPT !.eval = [ckpt |-> name, rate |-> rate]] \in Results
    BY <2>1, <2>2 DEF Results
  <2>4. it' \in Results
    BY <1>16, <2>1, <2>3, NotedType DEF Eval, Noted
  <2> QED
    BY <1>16, <2>4 DEF Eval, Acting, Noted, Types, Inside, StateSaves
<1>17. CASE Record
  <2>1. st' \in States
    BY <1>17, AddedFacts DEF Record, Types, Inside
  <2> QED
    BY <1>17, <2>1 DEF Record, Types, Inside, StateSaves
<1>18. CASE MoveFocus
  <2>1. it \in Results /\ st \in States
    BY <1>18 DEF MoveFocus, Types, Inside
  <2>2. it.suite \in Suites /\ it.task \in TaskIds
    BY <2>1 DEF Results
  <2>3. st' \in States
    BY <1>18, <2>1, <2>2 DEF MoveFocus, States
  <2> QED
    BY <1>18, <2>3 DEF MoveFocus, Types, Inside, StateSaves
<1>19. CASE WriteIteration \/ WriteState
  <2>1. pc' \in {"transcript", "ping", "top", "returned"}
    BY <1>19 DEF WriteIteration, WriteState, AfterSave, StateSaves
  <2>2. i' \in 0 .. MaxIterations /\ (pc' = "transcript" => i' = i /\ it' = it)
    BY <1>19 DEF WriteIteration, WriteState, AfterSave, StateSaves, Types,
                 Inside
  <2>3. open' = FALSE /\ UNCHANGED <<st, rollouts, cut>> /\ pc # "out"
    BY <1>19 DEF WriteIteration, WriteState, StateSaves
  <2>4. pc' = "transcript" => it \in Results /\ i < MaxIterations
    BY <1>19 DEF WriteIteration, WriteState, AfterSave, StateSaves, Types,
                 Inside
  <2> QED
    BY <2>1, <2>2, <2>3, <2>4 DEF Types, Inside, StateSaves
<1>20. CASE UNCHANGED vars
  BY <1>20 DEF vars, Types
<1> QED
  BY <1>1, <1>2, <1>3, <1>4, <1>5, <1>6, <1>7, <1>8, <1>9, <1>10, <1>11,
     <1>12, <1>13, <1>14, <1>15, <1>16, <1>17, <1>18, <1>19, <1>20
     DEF Next, LoopStep

\* The process has a state from its start on, of the types of the schema.
LEMMA TypesInvariant == Spec => []Types
<1>1. Init => Types
  <2>1. OldRollout \in Rollouts
    BY HarnessAssumption DEF OldRollout, Rollouts, RunIds, Forms
  <2>2. << >> \in Seq(Rollouts) /\ \A r \in Rollouts : <<r>> \in Seq(Rollouts)
    OBVIOUS
  <2>3. Init => rollouts = << >> \/ \E r \in Rollouts : rollouts = <<r>>
    BY <2>1 DEF Init
  <2>4. Init => rollouts \in Seq(Rollouts)
    BY <2>2, <2>3
  <2>5. 0 \in 0 .. MaxIterations
    BY HarnessAssumption
  <2> QED
    BY <2>4, <2>5 DEF Init, Types, Inside, StateSaves
<1> QED
  BY <1>1, TypesStep, PTL DEF Spec

-----------------------------------------------------------------------------
(* What is on disk. *)

\* Once the run has begun, state.json is of this run and not ahead of it, or it
\* is torn and a save was begun and not ended.
SavedInv ==
  st # None =>
    /\ st.run = "this"
    /\ IF saved = Torn
       THEN IF pc = "out" THEN cut ELSE open /\ pc \in StateSaves
       ELSE /\ saved \in States /\ saved.run = "this"
            /\ IsPrefix(saved.iterations, st.iterations)
            /\ saved.best <= st.best

\* Between the saves state.json is whole.
LEMMA Whole ==
  ASSUME SavedInv, st \in States, pc \notin StateSaves \cup {"out"}
  PROVE  /\ st.run = "this" /\ saved # Torn
         /\ saved \in States /\ saved.run = "this"
         /\ IsPrefix(saved.iterations, st.iterations) /\ saved.best <= st.best
BY Absent DEF SavedInv

\* A step that saves nothing and does not touch what a run has reached.
LEMMA SavedKept ==
  ASSUME SavedInv, st \in States, pc \notin StateSaves \cup {"out"},
         saved' = saved, st'.run = st.run,
         st'.iterations = st.iterations, st'.best = st.best
  PROVE  SavedInv'
BY Whole DEF SavedInv

\* A step that adds an iteration.
LEMMA SavedBehind ==
  ASSUME SavedInv, st \in States, pc \notin StateSaves \cup {"out"},
         saved' = saved, NEW r \in Results,
         st'.run = st.run, st'.iterations = Added(r).iterations,
         st'.best = Added(r).best
  PROVE  SavedInv'
<1>1. /\ st.run = "this" /\ saved # Torn /\ saved \in States
      /\ saved.run = "this"
      /\ IsPrefix(saved.iterations, st.iterations) /\ saved.best <= st.best
  BY Whole
<1>2. /\ saved.iterations \in Seq(Results) /\ st.iterations \in Seq(Results)
      /\ saved.best \in Rates /\ st.best \in Rates
  BY <1>1 DEF States
<1>3. /\ st'.iterations = Append(st.iterations, r) /\ st.best <= st'.best
      /\ st'.best \in Rates
  <2>1. Added(r) \in States
    BY AddedFacts
  <2> QED
    BY <2>1, AddedFacts DEF States
<1>4. IsPrefix(saved.iterations, st'.iterations)
  BY <1>1, <1>2, <1>3, PrefixFacts
<1>5. saved.best <= st'.best
  BY <1>1, <1>2, <1>3 DEF Rates
<1> QED
  BY <1>1, <1>4, <1>5 DEF SavedInv

\* No step of a run lets state.json get ahead of the run or fall to another.
LEMMA SavedStep ==
  ASSUME Types, Types', SavedInv, [Next]_vars
  PROVE  SavedInv'
<1>1. ASSUME NEW s \in Suites, NEW t \in TaskIds, Run(s, t) PROVE SavedInv'
  BY <1>1 DEF Run, Started, SavedInv, StateSaves
<1>2. ASSUME NEW target \in Targets, Stop(target[1], target[2])
      PROVE  SavedInv'
  <2> DEFINE r == NewResult("stop", Focus(target[1], st.suite),
                            Focus(target[2], st.task))
  <2>1. st \in States /\ pc \notin StateSaves \cup {"out"}
    BY <1>2 DEF Stop, Types, StateSaves
  <2>2. r \in Results
    BY <1>2, <2>1, NewResultType DEF Focus, Targets, States, Types, Actions
  <2>3. st' = [Added(r) EXCEPT !.status = "stopped"] /\ saved' = saved
    BY <1>2 DEF Stop
  <2> HIDE DEF r
  <2>4. Added(r) \in States /\ Added(r).run = st.run
    BY <2>1, <2>2, AddedFacts
  <2>5. /\ st'.run = st.run /\ st'.iterations = Added(r).iterations
        /\ st'.best = Added(r).best
    BY <2>3, <2>4 DEF States
  <2> QED
    BY <2>1, <2>2, <2>3, <2>5, SavedBehind
<1>3. CASE Record
  <2>1. st \in States /\ it \in Results /\ pc \notin StateSaves \cup {"out"}
    BY <1>3 DEF Record, Types, Inside, StateSaves
  <2>2. st' = Added(it) /\ saved' = saved
    BY <1>3 DEF Record
  <2>3. Added(it).run = st.run
    BY <2>1, AddedFacts
  <2> QED
    BY <2>1, <2>2, <2>3, SavedBehind
<1>4. CASE Raises \/ Interrupt \/ MoveFocus \/ PingFails \/ LoopEnds
  <2>1. st \in States /\ pc \notin StateSaves \cup {"out"}
    BY <1>4 DEF Raises, Interrupt, MoveFocus, PingFails, LoopEnds, InIteration,
                Inside, StateSaves, Types
  <2>2. /\ saved' = saved /\ st'.run = st.run
        /\ st'.iterations = st.iterations /\ st'.best = st.best
    BY <1>4, <2>1 DEF Raises, Interrupt, MoveFocus, PingFails, LoopEnds, States
  <2> QED
    BY <2>1, <2>2, SavedKept
<1>5. CASE OpenState
  <2>1. /\ saved' = Torn /\ open' /\ pc' = pc /\ pc \in StateSaves
        /\ st' = st /\ pc # "out"
    BY <1>5 DEF OpenState, StateSaves
  <2> QED
    BY <2>1 DEF SavedInv
<1>11. CASE WriteState
  <2>1. saved' = st /\ st' = st /\ st \in States
    BY <1>11 DEF WriteState, StateSaves, Types
  <2>2. IsPrefix(st.iterations, st.iterations) /\ st.best <= st.best
    BY <2>1 DEF States, IsPrefix, Rates
  <2> QED
    BY <2>1, <2>2, Absent DEF SavedInv
<1>12. CASE Kill
  <2>1. /\ pc # "out" /\ pc' = "out" /\ st' = st /\ saved' = saved
        /\ cut' = (open /\ pc \in StateSaves)
    BY <1>12 DEF Kill
  <2> QED
    BY <2>1 DEF SavedInv
<1>6. ASSUME UNCHANGED <<st, saved>>, pc \notin StateSaves \cup {"out"}
      PROVE  SavedInv'
  <2>1. st \in States
    BY <1>6 DEF Types
  <2> QED
    BY <1>6, <2>1, SavedKept
<1>7. CASE \/ PingOk \/ NoMeasurement \/ UnknownAction \/ OpenIteration
           \/ WriteIteration
  BY <1>6, <1>7 DEF PingOk, NoMeasurement, UnknownAction, Acting,
                    OpenIteration, WriteIteration, StateSaves
<1>8. ASSUME NEW target \in Targets, NEW a \in Actions,
             Decide(a, target[1], target[2])
      PROVE  SavedInv'
  BY <1>6, <1>8 DEF Decide, StateSaves
<1>9. ASSUME NEW low \in BOOLEAN, NEW form \in Forms, Measure(low, form)
      PROVE  SavedInv'
  BY <1>6, <1>9 DEF Measure, Acting, StateSaves
<1>10. ASSUME NEW b \in BOOLEAN,
              \/ LoadRollout(b) \/ Critique(b) \/ Train(b)
              \/ \E a \in Agents : Propose(a, b)
              \/ \E rate \in Rates, name \in Ckpts : Eval(b, rate, name)
       PROVE  SavedInv'
  BY <1>6, <1>10 DEF LoadRollout, Critique, Train, Propose, Eval, Noted, Acting,
                     StateSaves
<1>13. CASE UNCHANGED vars
  BY <1>13 DEF vars, SavedInv
<1> QED
  BY <1>1, <1>2, <1>3, <1>4, <1>5, <1>7, <1>8, <1>9, <1>10, <1>11, <1>12, <1>13
     DEF Next, LoopStep

\* Once a run has begun, state.json is never another run's, whatever raises,
\* interrupts or kills: it shows how this run began, or a save of it was cut
\* short by a kill and left it torn.
THEOREM SavedIsAlwaysPrefix == Spec => []SavedIsPrefix
<1>1. Init => SavedInv
  BY DEF Init, SavedInv
<1>2. Types /\ Types' /\ SavedInv /\ [Next]_vars => SavedInv'
  BY SavedStep
<1>3. SavedInv => SavedIsPrefix
  BY Absent DEF SavedInv, SavedIsPrefix
<1> QED
  BY <1>1, <1>2, <1>3, TypesInvariant, PTL DEF Spec

\* Every way out of run() saves the state it returns, with a status that is
\* final.
THEOREM FinalStateAlwaysSaved == Spec => []FinalStateSaved
<1> DEFINE FinalInv == /\ FinalStateSaved
                       /\ pc \in {"unreachable", "final"} => st.status \in Finals
<1>1. Init => FinalInv
  BY DEF Init, FinalStateSaved
<1>2. Types /\ FinalInv /\ [Next]_vars => FinalInv'
  <2> SUFFICES ASSUME Types, FinalInv, [Next]_vars PROVE FinalInv'
    OBVIOUS
  <2>1. CASE WriteState
    BY <2>1 DEF WriteState, AfterSave, StateSaves, FinalStateSaved
  <2>2. CASE OpenState \/ UNCHANGED vars
    BY <2>2 DEF OpenState, StateSaves, vars, FinalStateSaved
  <2>3. CASE PingFails \/ LoopEnds \/ Interrupt
    <3>1. st \in States /\ st'.status \in Finals
      BY <2>3 DEF PingFails, LoopEnds, Interrupt, InIteration, Inside, Types,
                  States, Finals
    <3> QED
      BY <2>3, <3>1 DEF PingFails, LoopEnds, Interrupt, LeaveLoop,
                        FinalStateSaved
  <2>4. ASSUME NEW target \in Targets, Stop(target[1], target[2])
        PROVE  FinalInv'
    <3> DEFINE r == NewResult("stop", Focus(target[1], st.suite),
                              Focus(target[2], st.task))
    <3>1. st \in States
      BY <2>4 DEF Stop, Types
    <3>2. r \in Results
      BY <2>4, <3>1, NewResultType DEF Focus, Targets, States, Types, Actions
    <3>3. st' = [Added(r) EXCEPT !.status = "stopped"] /\ pc' = "final"
      BY <2>4 DEF Stop, LeaveLoop
    <3> HIDE DEF r
    <3>4. Added(r) \in States
      BY <3>1, <3>2, AddedFacts
    <3> QED
      BY <3>3, <3>4 DEF States, Finals, FinalStateSaved
  <2>5. CASE pc' \notin {"unreachable", "final", "returned"}
    BY <2>5 DEF FinalStateSaved
  <2> QED
    BY <2>1, <2>2, <2>3, <2>4, <2>5
       DEF Next, LoopStep, Run, Started, PingOk, Decide, Raises, Kill, Measure,
           NoMeasurement, LoadRollout, Propose, Critique, Train, Eval, Noted,
           UnknownAction, Record, OpenIteration, WriteIteration, MoveFocus
<1> QED
  BY <1>1, <1>2, TypesInvariant, PTL DEF Spec

-----------------------------------------------------------------------------
(* The best checkpoint. *)

\* Of the iterations of st: those with an evaluation, and their rates.
Evaluated(its) == {k \in DOMAIN its : its[k].eval # None}

\* The best rate and checkpoint of a list of iterations.
IsBest(its, best, ckpt) ==
  /\ \A k \in Evaluated(its) : its[k].eval.rate <= best
  /\ IF best = 0 THEN ckpt = None
     ELSE \E k \in Evaluated(its) :
            /\ its[k].eval.rate = best /\ its[k].eval.ckpt = ckpt
            /\ \A j \in Evaluated(its) : j < k => its[j].eval.rate < best

BestInv == st # None => IsBest(st.iterations, st.best, st.bestCkpt)

\* One more iteration.
LEMMA BestAdded ==
  ASSUME BestInv, st \in States, NEW r \in Results
  PROVE  IsBest(Added(r).iterations, Added(r).best, Added(r).bestCkpt)
<1> DEFINE old == st.iterations
           new == Append(old, r)
           n == Len(old) + 1
<1>1. /\ old \in Seq(Results) /\ st.best \in Rates
      /\ IsBest(old, st.best, st.bestCkpt)
  BY Absent DEF States, BestInv
<1>2. /\ \A k \in DOMAIN old : new[k] = old[k] /\ k \in Nat /\ k < n
      /\ new[n] = r /\ DOMAIN new = DOMAIN old \cup {n} /\ n \in Nat
      /\ n \notin DOMAIN old
  BY <1>1
<1>3. Evaluated(new) =
        Evaluated(old) \cup IF r.eval # None THEN {n} ELSE {}
  BY <1>2 DEF Evaluated
<1>4. \A k \in Evaluated(old) : k \in DOMAIN old /\ new[k] = old[k]
  BY <1>2 DEF Evaluated
<1>5. r.eval # None => r.eval.rate \in Rates /\ r.eval.ckpt \in Ckpts
  BY DEF Results, Evals
<1>6. \A k \in Evaluated(old) : old[k].eval.rate \in Rates
  <2> SUFFICES ASSUME NEW k \in Evaluated(old) PROVE old[k].eval.rate \in Rates
    OBVIOUS
  <2>1. old[k] \in Results /\ old[k].eval # None
    BY <1>1 DEF Evaluated
  <2> QED
    BY <2>1 DEF Results, Evals
<1>7. Added(r).iterations = new
  BY AddedFacts
<1> HIDE DEF old, new, n
<1>8. CASE Better(r)
  <2>1. /\ Added(r).best = r.eval.rate /\ Added(r).bestCkpt = r.eval.ckpt
        /\ r.eval # None /\ r.eval.rate > st.best /\ r.eval.rate \in Rates
    BY <1>5, <1>8, AddedFacts DEF Better
  <2>2. \A k \in Evaluated(old) : new[k].eval.rate < r.eval.rate
    <3> SUFFICES ASSUME NEW k \in Evaluated(old)
                 PROVE  new[k].eval.rate < r.eval.rate
      OBVIOUS
    <3>1. old[k].eval.rate <= st.best /\ new[k] = old[k]
      BY <1>1, <1>4 DEF IsBest
    <3> QED
      BY <3>1, <2>1, <1>1, <1>6 DEF Rates
  <2>3. Evaluated(new) = Evaluated(old) \cup {n}
    BY <1>3, <2>1
  <2>4. r.eval.rate # 0 /\ r.eval.rate <= r.eval.rate
    BY <2>1, <1>1 DEF Rates
  <2>5. \A k \in Evaluated(new) : new[k].eval.rate <= r.eval.rate
    <3> SUFFICES ASSUME NEW k \in Evaluated(new)
                 PROVE  new[k].eval.rate <= r.eval.rate
      OBVIOUS
    <3>1. CASE k = n
      BY <3>1, <2>4, <1>2
    <3>2. CASE k \in Evaluated(old)
      <4>1. new[k].eval.rate < r.eval.rate /\ new[k].eval.rate \in Rates
        BY <3>2, <2>2, <1>4, <1>6
      <4> QED
        BY <4>1, <2>1 DEF Rates
    <3> QED
      BY <3>1, <3>2, <2>3
  <2>6. \A j \in Evaluated(new) : j < n => new[j].eval.rate < r.eval.rate
    BY <2>2, <2>3, <1>2
  <2> QED
    BY <2>1, <2>3, <2>4, <2>5, <2>6, <1>2, <1>7 DEF IsBest
<1>9. CASE ~Better(r)
  <2>1. Added(r).best = st.best /\ Added(r).bestCkpt = st.bestCkpt
    BY <1>9, AddedFacts
  <2>2. r.eval # None => r.eval.rate <= st.best
    BY <1>1, <1>5, <1>9 DEF Better, Rates
  <2>3. \A k \in Evaluated(new) : new[k].eval.rate <= st.best
    BY <2>2, <1>1, <1>2, <1>3, <1>4 DEF IsBest
  <2>4. CASE st.best = 0
    BY <2>1, <2>3, <2>4, <1>1, <1>7 DEF IsBest
  <2>5. CASE st.best # 0
    <3>1. PICK k \in Evaluated(old) :
            /\ old[k].eval.rate = st.best /\ old[k].eval.ckpt = st.bestCkpt
            /\ \A j \in Evaluated(old) : j < k => old[j].eval.rate < st.best
      BY <2>5, <1>1 DEF IsBest
    <3>2. k \in Evaluated(new) /\ new[k] = old[k] /\ k \in Nat /\ k < n
      BY <1>2, <1>3, <1>4
    <3>3. \A j \in Evaluated(new) : j < k => new[j].eval.rate < st.best
      <4> SUFFICES ASSUME NEW j \in Evaluated(new), j < k
                   PROVE  new[j].eval.rate < st.best
        OBVIOUS
      <4>1. j # n
        BY <3>2, <1>2
      <4> QED
        BY <3>1, <4>1, <1>3, <1>4
    <3> QED
      BY <2>1, <2>3, <2>5, <3>1, <3>2, <3>3, <1>7 DEF IsBest
  <2> QED
    BY <2>4, <2>5
<1> QED
  BY <1>8, <1>9

\* A step that adds no iteration.
LEMMA BestKept ==
  ASSUME BestInv, st \in States, st'.iterations = st.iterations,
         st'.best = st.best, st'.bestCkpt = st.bestCkpt
  PROVE  BestInv'
BY Absent DEF BestInv

\* Every step of a run keeps the best checkpoint that of its iterations.
LEMMA BestStep ==
  ASSUME Types, BestInv, [Next]_vars
  PROVE  BestInv'
<1>1. ASSUME NEW s \in Suites, NEW t \in TaskIds, Run(s, t) PROVE BestInv'
  <2>1. st'.iterations = << >> /\ st'.best = 0 /\ st'.bestCkpt = None
    BY <1>1 DEF Run
  <2>2. Evaluated(<< >>) = {}
    BY DEF Evaluated
  <2> QED
    BY <2>1, <2>2 DEF BestInv, IsBest
<1>2. ASSUME NEW target \in Targets, Stop(target[1], target[2]) PROVE BestInv'
  <2> DEFINE r == NewResult("stop", Focus(target[1], st.suite),
                            Focus(target[2], st.task))
  <2>1. st \in States
    BY <1>2 DEF Stop, Types
  <2>2. r \in Results
    BY <1>2, <2>1, NewResultType DEF Focus, Targets, States, Types, Actions
  <2>3. st' = [Added(r) EXCEPT !.status = "stopped"]
    BY <1>2 DEF Stop
  <2> HIDE DEF r
  <2>4. Added(r) \in States
    BY <2>1, <2>2, AddedFacts
  <2>5. /\ st'.iterations = Added(r).iterations /\ st'.best = Added(r).best
        /\ st'.bestCkpt = Added(r).bestCkpt
    BY <2>3, <2>4 DEF States
  <2> QED
    BY <2>1, <2>2, <2>5, BestAdded DEF BestInv
<1>3. CASE Record
  <2>1. st \in States /\ it \in Results /\ st' = Added(it)
    BY <1>3 DEF Record, Types, Inside
  <2> QED
    BY <2>1, BestAdded DEF BestInv
<1>4. CASE Raises \/ Interrupt \/ MoveFocus \/ PingFails \/ LoopEnds
  <2>1. st \in States
    BY <1>4 DEF Raises, Interrupt, MoveFocus, PingFails, LoopEnds,
                InIteration, Inside, Types
  <2>2. /\ st'.iterations = st.iterations /\ st'.best = st.best
        /\ st'.bestCkpt = st.bestCkpt
    BY <1>4, <2>1 DEF Raises, Interrupt, MoveFocus, PingFails, LoopEnds,
                      States
  <2> QED
    BY <2>1, <2>2, BestKept
<1>5. ASSUME UNCHANGED st PROVE BestInv'
  BY <1>5 DEF BestInv
<1>6. CASE \/ PingOk \/ Kill \/ NoMeasurement \/ UnknownAction \/ OpenState
           \/ WriteState \/ OpenIteration \/ WriteIteration \/ UNCHANGED vars
  BY <1>5, <1>6 DEF PingOk, Kill, NoMeasurement, UnknownAction, OpenState,
                    WriteState, OpenIteration, WriteIteration, vars
<1>7. ASSUME NEW target \in Targets, NEW a \in Actions,
             Decide(a, target[1], target[2])
      PROVE  BestInv'
  BY <1>5, <1>7 DEF Decide
<1>8. ASSUME NEW low \in BOOLEAN, NEW form \in Forms, Measure(low, form)
      PROVE  BestInv'
  BY <1>5, <1>8 DEF Measure
<1>9. ASSUME NEW b \in BOOLEAN,
             \/ LoadRollout(b) \/ Critique(b) \/ Train(b)
             \/ \E a \in Agents : Propose(a, b)
             \/ \E rate \in Rates, name \in Ckpts : Eval(b, rate, name)
      PROVE  BestInv'
  BY <1>5, <1>9 DEF LoadRollout, Critique, Train, Propose, Eval, Noted
<1> QED
  BY <1>1, <1>2, <1>3, <1>4, <1>6, <1>7, <1>8, <1>9 DEF Next, LoopStep

\* best_ckpt is the first checkpoint that reached the best rate of this run, not
\* one that equalled it later or that an earlier run left.
THEOREM BestIsAlwaysFirst == Spec => []BestIsFirst
<1>1. Init => BestInv
  BY DEF Init, BestInv
<1>2. Types /\ BestInv /\ [Next]_vars => BestInv'
  BY BestStep
<1>3. BestInv => BestIsFirst
  BY DEF BestInv, IsBest, Evaluated, BestIsFirst
<1> QED
  BY <1>1, <1>2, <1>3, TypesInvariant, PTL DEF Spec

-----------------------------------------------------------------------------
(* The turns of a run and its files. *)

\* The places of a turn before its result is in the state.
Before == {"start", "ping", "top", "act", "load", "critique", "record"}
After  == {"saveiter", "transcript", "savestate"}

\* A turn adds one result at most: there are no more of them than turns.
TurnInv ==
  st # None =>
    /\ Len(st.iterations) <= MaxIterations
    /\ pc \in Before => Len(st.iterations) <= i
    /\ pc \in After => Len(st.iterations) <= i + 1

\* A step that adds no result.
LEMMA TurnKept ==
  ASSUME Types, TurnInv, st \in States, st'.iterations = st.iterations,
         \/ i' = i /\ pc \in Before /\ pc' \in Before
         \/ i' = i /\ pc \in After /\ pc' \in After
         \/ i' = i + 1 /\ pc \in Before \cup After /\ pc' = "top"
         \/ pc' \in {"final", "unreachable", "returned", "out"}
  PROVE  TurnInv'
<1>1. st # None /\ st.iterations \in Seq(Results)
  BY Absent DEF States
<1>2. Len(st.iterations) \in Nat /\ i \in Nat /\ MaxIterations \in Nat
  BY <1>1, HarnessAssumption DEF Types
<1>3. /\ Len(st.iterations) <= MaxIterations
      /\ pc \in Before => Len(st.iterations) <= i
      /\ pc \in After => Len(st.iterations) <= i + 1
  BY <1>1 DEF TurnInv
<1> QED
  BY <1>2, <1>3 DEF TurnInv, Before, After

\* A step that adds one.
LEMMA TurnAdded ==
  ASSUME Types, TurnInv, st \in States, NEW r \in Results,
         st'.iterations = Added(r).iterations,
         i' = i, i < MaxIterations, pc \in Before,
         pc' \in {"saveiter", "final"}
  PROVE  TurnInv'
<1>1. st # None /\ st.iterations \in Seq(Results)
  BY Absent DEF States
<1>2. /\ Len(st.iterations) \in Nat /\ i \in Nat /\ MaxIterations \in Nat
      /\ Len(st.iterations) <= i
  BY <1>1, HarnessAssumption DEF Types, TurnInv
<1>3. Len(st'.iterations) = Len(st.iterations) + 1
  BY <1>1, AddedFacts
<1> QED
  BY <1>2, <1>3 DEF TurnInv, Before, After

\* Every step of a run keeps the count.
LEMMA TurnStep ==
  ASSUME Types, TurnInv, [Next]_vars
  PROVE  TurnInv'
<1>1. ASSUME NEW s \in Suites, NEW t \in TaskIds, Run(s, t) PROVE TurnInv'
  <2>1. st'.iterations = << >> /\ i' = 0 /\ pc' = "start"
    BY <1>1 DEF Run, Started
  <2> QED
    BY <2>1, HarnessAssumption DEF TurnInv, After
<1>2. ASSUME NEW target \in Targets, Stop(target[1], target[2]) PROVE TurnInv'
  <2> DEFINE r == NewResult("stop", Focus(target[1], st.suite),
                            Focus(target[2], st.task))
  <2>1. st \in States
    BY <1>2 DEF Stop, Types
  <2>2. r \in Results
    BY <1>2, <2>1, NewResultType DEF Focus, Targets, States, Types, Actions
  <2>3. /\ st' = [Added(r) EXCEPT !.status = "stopped"]
        /\ pc = "top" /\ pc' = "final" /\ i < MaxIterations /\ i' = i
    BY <1>2 DEF Stop, LeaveLoop
  <2> HIDE DEF r
  <2>4. Added(r) \in States
    BY <2>1, <2>2, AddedFacts
  <2>5. st'.iterations = Added(r).iterations
    BY <2>3, <2>4 DEF States
  <2> QED
    BY <2>1, <2>2, <2>3, <2>5, TurnAdded DEF Before
<1>3. CASE Record
  <2>1. st \in States /\ it \in Results /\ i < MaxIterations
    BY <1>3 DEF Record, Types, Inside
  <2> QED
    BY <1>3, <2>1, TurnAdded DEF Record, Before
<1>4. CASE Raises \/ Interrupt \/ MoveFocus \/ PingFails \/ LoopEnds
  <2>1. st \in States
    BY <1>4 DEF Raises, Interrupt, MoveFocus, PingFails, LoopEnds,
                InIteration, Inside, Types
  <2>2. st'.iterations = st.iterations
    BY <1>4, <2>1 DEF Raises, Interrupt, MoveFocus, PingFails, LoopEnds,
                      States
  <2> QED
    BY <1>4, <2>1, <2>2, TurnKept
       DEF Raises, NextTurn, Interrupt, LeaveLoop, MoveFocus, PingFails,
           LoopEnds, InIteration, Inside, Before, After
<1>5. ASSUME pc # "out", UNCHANGED st,
             \/ i' = i /\ pc \in Before /\ pc' \in Before
             \/ i' = i /\ pc \in After /\ pc' \in After
             \/ i' = i + 1 /\ pc \in Before \cup After /\ pc' = "top"
             \/ pc' \in {"final", "unreachable", "returned", "out"}
      PROVE  TurnInv'
  <2>1. st \in States
    BY <1>5 DEF Types
  <2> QED
    BY <1>5, <2>1, TurnKept
<1>6. CASE \/ PingOk \/ Kill \/ NoMeasurement \/ UnknownAction
           \/ OpenIteration \/ WriteIteration
  BY <1>5, <1>6 DEF PingOk, Kill, NoMeasurement, UnknownAction, Acting,
                    OpenIteration, WriteIteration, Before, After
<1>11. CASE OpenState \/ WriteState
  BY <1>5, <1>11 DEF OpenState, WriteState, AfterSave, StateSaves, Before,
                     After
<1>7. CASE UNCHANGED vars
  BY <1>7 DEF vars, TurnInv
<1>8. ASSUME NEW target \in Targets, NEW a \in Actions,
             Decide(a, target[1], target[2])
      PROVE  TurnInv'
  BY <1>5, <1>8 DEF Decide, Before
<1>9. ASSUME NEW low \in BOOLEAN, NEW form \in Forms, Measure(low, form)
      PROVE  TurnInv'
  BY <1>5, <1>9 DEF Measure, Acting, Before
<1>10. ASSUME NEW b \in BOOLEAN,
              \/ LoadRollout(b) \/ Critique(b) \/ Train(b)
              \/ \E a \in Agents : Propose(a, b)
              \/ \E rate \in Rates, name \in Ckpts : Eval(b, rate, name)
       PROVE  TurnInv'
  BY <1>5, <1>10 DEF LoadRollout, Critique, Train, Propose, Eval, Noted,
                     Acting, Before
<1> QED
  BY <1>1, <1>2, <1>3, <1>4, <1>6, <1>7, <1>8, <1>9, <1>10, <1>11
     DEF Next, LoopStep

\* A result being built is one, and what is on disk has the types of the schema.
FilesInv ==
  /\ it = None \/ it \in Results
  /\ \/ saved \in {None, Torn}
     \/ saved \in States /\ Len(saved.iterations) <= MaxIterations
  /\ iters \in [0 .. MaxIterations - 1 -> Results \cup {None, Torn}]
  /\ archive \subseteq {"reward_variant", "curriculum", "hp", "reflection",
                         "lesson"}

\* Every step of a run writes such files only.
LEMMA FilesStep ==
  ASSUME Types, Types', TurnInv', FilesInv, [Next]_vars
  PROVE  FilesInv'
<1>1. ASSUME st' \in States
      PROVE  Len(st'.iterations) <= MaxIterations
  BY <1>1, Absent DEF TurnInv
<1>2. it' = None \/ it' \in Results
  <2>1. CASE pc' \in Inside
    BY <2>1 DEF Types
  <2>2. CASE pc' \notin Inside
    <3>1. it' = None \/ it' = it
      BY <2>2 DEF Next, LoopStep, Run, PingOk, PingFails, Decide, Stop, Raises,
                  Interrupt, LoopEnds, Kill, Measure, NoMeasurement,
                  LoadRollout, Propose, Critique, Train, Eval, Noted,
                  UnknownAction, Record, OpenIteration, WriteIteration,
                  MoveFocus, OpenState, WriteState, vars, Inside
    <3> QED
      BY <3>1 DEF FilesInv
  <2> QED
    BY <2>1, <2>2
<1>3. \/ saved' \in {None, Torn}
      \/ saved' \in States /\ Len(saved'.iterations) <= MaxIterations
  <2>1. CASE WriteState
    <3>1. saved' = st' /\ st' \in States
      BY <2>1 DEF WriteState, StateSaves, Types
    <3> QED
      BY <1>1, <3>1
  <2>2. \/ saved' \in {saved, Torn} \/ WriteState
    BY DEF Next, LoopStep, Run, Started, PingOk, PingFails, Decide, Stop,
           Raises, Interrupt, LoopEnds, Kill, Measure, NoMeasurement,
           LoadRollout, Propose, Critique, Train, Eval, Noted, UnknownAction,
           Record, OpenIteration, WriteIteration, MoveFocus, OpenState, vars
  <2> QED
    BY <2>1, <2>2 DEF FilesInv
<1>4. iters' \in [0 .. MaxIterations - 1 -> Results \cup {None, Torn}]
  <2>1. CASE OpenIteration \/ WriteIteration
    <3>1. it \in Results
      BY <2>1 DEF OpenIteration, WriteIteration, Types, Inside
    <3> QED
      BY <2>1, <3>1 DEF OpenIteration, WriteIteration, FilesInv
  <2>2. iters' = iters \/ OpenIteration \/ WriteIteration
    BY DEF Next, LoopStep, Run, PingOk, PingFails, Decide, Stop, Raises,
           Interrupt, LoopEnds, Kill, Measure, NoMeasurement, LoadRollout,
           Propose, Critique, Train, Eval, Noted, UnknownAction, Record,
           MoveFocus, OpenState, WriteState, vars
  <2> QED
    BY <2>1, <2>2 DEF FilesInv
<1>5. archive' \subseteq {"reward_variant", "curriculum", "hp", "reflection",
                           "lesson"}
  <2>1. ASSUME NEW b \in BOOLEAN,
               LoadRollout(b) \/ \E a \in Agents : Propose(a, b)
        PROVE  archive' \subseteq archive \cup
                 {"reward_variant", "curriculum", "hp", "reflection"}
    BY <2>1 DEF LoadRollout, Propose, NoteKind
  <2>2. CASE Raises
    BY <2>2 DEF Raises, FilesInv
  <2>3. \/ archive' = archive \/ Raises
        \/ \E b \in BOOLEAN : LoadRollout(b) \/ \E a \in Agents : Propose(a, b)
    BY DEF Next, LoopStep, Run, PingOk, PingFails, Decide, Stop, Interrupt,
           LoopEnds, Kill, Measure, NoMeasurement, Critique, Train, Eval,
           Noted, UnknownAction, Record, OpenIteration, WriteIteration,
           MoveFocus, OpenState, WriteState, vars
  <2> QED
    BY <2>1, <2>2, <2>3 DEF FilesInv
<1> QED
  BY <1>2, <1>3, <1>4, <1>5 DEF FilesInv

\* Every variable has its type, in the process and on disk, and no run has more
\* iterations than its limit; an earlier run that left an iteration had one to
\* record.
THEOREM RunTyped ==
  ASSUME Leftovers # {None} => MaxIterations > 0
  PROVE  Spec => []TypeOK
<1>1. Init => TurnInv
  BY DEF Init, TurnInv
<1>2. ASSUME Init PROVE FilesInv
  <2>1. \A suite \in Suites, task \in TaskIds :
          OldResult(suite, task) \in Results
    BY HarnessAssumption
       DEF OldResult, Results, Actions, Agents, Evals, Ckpts, Latest, Rates
  <2>2. ASSUME NEW suite \in Suites, NEW task \in TaskIds
        PROVE  /\ OldState(suite, task) \in States
               /\ Len(OldState(suite, task).iterations) = 1
    <3>1. <<OldResult(suite, task)>> \in Seq(Results)
      BY <2>1
    <3> QED
      BY <3>1 DEF OldState, States, RunIds, Finals, Rates, Ckpts, Latest
  <2>3. CASE /\ saved = None
             /\ iters = [n \in 0 .. MaxIterations - 1 |-> None]
    BY <1>2, <2>3 DEF Init, FilesInv
  <2>4. ASSUME NEW left \in Leftovers, left # None,
               saved \in {OldState(left[1], left[2]), Torn},
               iters = [n \in 0 .. MaxIterations - 1 |->
                          IF n = 0 THEN OldResult(left[1], left[2]) ELSE None]
        PROVE  FilesInv
    <3>1. /\ left[1] \in Suites /\ left[2] \in TaskIds
          /\ MaxIterations > 0 /\ MaxIterations \in Nat
      <4>1. left \in Suites \X TaskIds
        BY <2>4, HarnessAssumption
      <4>2. Leftovers # {None}
        BY <2>4
      <4> QED
        BY <4>1, <4>2, HarnessAssumption
    <3>2. \/ saved = Torn
          \/ saved \in States /\ Len(saved.iterations) <= MaxIterations
      <4>1. /\ OldState(left[1], left[2]) \in States
            /\ Len(OldState(left[1], left[2]).iterations) = 1
        BY <2>2, <3>1
      <4>2. 1 <= MaxIterations
        BY <3>1
      <4>3. CASE saved = OldState(left[1], left[2])
        <5>1. saved \in States /\ Len(saved.iterations) = 1
          BY <4>1, <4>3
        <5> QED
          BY <5>1, <4>2
      <4> QED
        BY <2>4, <4>3
    <3>3. iters \in [0 .. MaxIterations - 1 -> Results \cup {None, Torn}]
      BY <2>1, <2>4, <3>1
    <3> QED
      BY <1>2, <3>2, <3>3 DEF Init, FilesInv
  <2> QED
    BY <1>2, <2>3, <2>4 DEF Init
<1>3. Types /\ TurnInv /\ [Next]_vars => TurnInv'
  BY TurnStep
<1>4. Types /\ Types' /\ TurnInv' /\ FilesInv /\ [Next]_vars => FilesInv'
  BY FilesStep
<1>5. ASSUME Types, TurnInv, FilesInv PROVE TypeOK
  <2>1. \A s \in {st, saved} : s \notin {None, Torn} =>
          s \in States /\ Len(s.iterations) <= MaxIterations
    BY <1>5 DEF Types, TurnInv, FilesInv
  <2>2. \A n \in 0 .. MaxIterations - 1 : iters[n] \in Results \cup {None, Torn}
    BY <1>5 DEF FilesInv
  <2>3. st # Torn
    BY <1>5, Absent DEF Types
  <2> QED
    BY <1>5, <2>1, <2>2, <2>3 DEF Types, FilesInv, TypeOK
<1>6. Types /\ TurnInv /\ FilesInv => TypeOK
  BY <1>5
<1> QED
  BY <1>1, <1>2, <1>3, <1>4, <1>6, TypesInvariant, PTL DEF Spec
=============================================================================
