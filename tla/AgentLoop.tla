------------------------------ MODULE AgentLoop ------------------------------
(***************************************************************************)
(* One agent of harness/agents/base.py with the core and recall tiers and  *)
(* the summary of its memory (harness/memory/store.py): the ReAct loop of  *)
(* run, reflect, and the structured calls AgentTeam.decide and critique    *)
(* make through the agent's messages.                                      *)
(*                                                                         *)
(* A turn is its kind and its place in the history of everything the       *)
(* memory was given, so that what is forgotten and what is out of place    *)
(* can be told; a fact of the core is its place and its length.  The model *)
(* is external: it answers, asks for tools, or its call raises.            *)
(***************************************************************************)
EXTENDS Naturals, Sequences, FiniteSets, SequencesExt, FiniteSetsExt

CONSTANTS
  Window,          \* cfg.recall_window
  SummaryTurns,    \* turns that fit in cfg.summary_max_tokens
  MaxToolSteps,    \* max_tool_steps of the agent
  MaxCalls,        \* most tool calls in one answer
  MaxReflections,  \* self.max_reflections
  CoreBudget,      \* budget of _trim_core: characters of core memory
  FactSizes,       \* lengths of facts
  MaxTurns,        \* bound: turns given to the memory
  MaxFacts         \* bound: facts given to the core memory

ASSUME AgentAssumption ==
  /\ Window \in Nat \ {0} /\ SummaryTurns \in Nat \ {0}
  /\ MaxToolSteps \in Nat \ {0} /\ MaxCalls \in Nat \ {0}
  /\ MaxReflections \in Nat \ {0}
  /\ CoreBudget \in Nat /\ FactSizes \subseteq Nat
  /\ MaxTurns \in Nat /\ MaxFacts \in Nat

VARIABLES
  core,         \* self.memory.core
  facts,        \* history: the lengths of all facts given to the core
  pc,           \* "idle", or where the agent is in run, reflect or decide
  recall,       \* self.memory.recall
  summary,      \* the turns self.memory.summary stands for
  turns,        \* how many turns the memory has been given
  messages,     \* the list sent to the model
  step,         \* self._step
  pending,      \* tool calls of the last answer still to be made
  reflections,  \* self.reflections, by age
  reflected     \* how many reflections were written

coreVars == <<core, facts>>
memVars == <<recall, summary, turns>>
vars == <<coreVars, pc, memVars, messages, step, pending, reflections,
          reflected>>

\* Turns of the memory, and the messages of a call: an assistant message with
\* tool_calls is a "call", with their number.
Kinds == {"user", "assistant", "tool"}
Turns == [kind : Kinds, n : 1 .. MaxTurns]
MessageKinds == Kinds \cup {"system", "summary", "call"}
Messages == [kind : MessageKinds, calls : 0 .. MaxCalls]

Facts == [n : 1 .. MaxFacts, size : FactSizes]

TypeOK ==
  /\ core \in Seq(Facts) /\ facts \in Seq(FactSizes) /\ Len(facts) <= MaxFacts
  /\ pc \in {"idle", "chat", "dispatch", "synthesize", "reflect", "archive",
             "structured"}
  /\ recall \in Seq(Turns) /\ summary \in Seq(Turns)
  /\ turns \in 0 .. MaxTurns
  /\ messages \in Seq(Messages)
  /\ step \in 0 .. MaxToolSteps
  /\ pending \in 0 .. MaxCalls
  /\ reflections \in Seq(Nat) /\ reflected \in Nat
  /\ Len(recall) <= Window /\ Len(reflections) <= MaxReflections

Init ==
  /\ core = << >> /\ facts = << >>
  /\ pc = "idle"
  /\ recall = << >> /\ summary = << >> /\ turns = 0
  /\ messages = << >>
  /\ step = 0 /\ pending = 0
  /\ reflections = << >> /\ reflected = 0

-----------------------------------------------------------------------------
(* AgentMemory *)

LastOf(s, k) == IF Len(s) <= k THEN s ELSE SubSeq(s, Len(s) - k + 1, Len(s))

\* _trim_core: from the newest fact back, as many as fit.
Newest(some) ==
  LET total[k \in 0 .. Len(some)] ==
        IF k = 0 THEN 0 ELSE total[k - 1] + some[Len(some) - k + 1].size
  IN  total
Size(some) == Newest(some)[Len(some)]
Fitting(some) == {k \in 0 .. Len(some) : Newest(some)[k] <= CoreBudget}
TrimmedCore(some) == LastOf(some, Max(Fitting(some)))

\* The harness gives the supervisor its goal, its starting point and the
\* held-out tasks at the start of a run.
CoreAppend(size) ==
  /\ pc = "idle" /\ Len(facts) < MaxFacts
  /\ facts' = Append(facts, size)
  /\ core' = TrimmedCore(Append(core, [n |-> Len(facts) + 1, size |-> size]))
  /\ UNCHANGED <<pc, memVars, messages, step, pending, reflections, reflected>>

\* The oldest turns beyond the window roll into the summary, whose own oldest
\* text is cut off when it is extended.
Overflow_Off(s) == SubSeq(s, 1, Len(s) - Window - 1)
Overflow(s) == SubSeq(s, 1, Len(s) - Window)
Rolled_Before(old, chunk) ==
  IF old = << >> THEN chunk ELSE LastOf(chunk \o old, SummaryTurns)
Rolled(old, chunk) ==
  IF old = << >> THEN chunk ELSE LastOf(old \o chunk, SummaryTurns)

RecallAppend(kind) ==
  LET all == Append(recall, [kind |-> kind, n |-> turns + 1]) IN
  /\ turns < MaxTurns
  /\ turns' = turns + 1
  /\ recall' = LastOf(all, Window)
  /\ summary' = IF Len(all) > Window
                THEN Rolled(summary, Overflow(all)) ELSE summary

Message(kind) == [kind |-> kind, calls |-> 0]

\* recall_messages: the summary, then the recalled turns.  Recall does not
\* keep tool_calls, so a turn that asked for tools is a plain assistant turn.
RecallMessages ==
  (IF summary = << >> THEN << >> ELSE <<Message("summary")>>)
    \o [k \in 1 .. Len(recall) |-> Message(recall[k].kind)]

\* _build_initial_messages: the task also becomes a turn of the memory.
BuildInitialMessages ==
  /\ messages' = <<Message("system")>> \o RecallMessages \o <<Message("user")>>
  /\ RecallAppend("user")

-----------------------------------------------------------------------------
(* Agent.run *)

StartRun ==
  /\ pc = "idle"
  /\ BuildInitialMessages
  /\ step' = 0
  /\ pc' = "chat"
  /\ UNCHANGED <<pending, reflections, reflected>>

ChatAnswers ==
  /\ pc = "chat"
  /\ RecallAppend("assistant")
  /\ messages' = Append(messages, Message("assistant"))
  /\ step' = step + 1
  /\ pc' = "idle"
  /\ UNCHANGED <<pending, reflections, reflected>>

ChatCallsTools(k) ==
  /\ pc = "chat"
  /\ RecallAppend("assistant")
  /\ messages' = Append(messages, [kind |-> "call", calls |-> k])
  /\ step' = step + 1
  /\ pending' = k
  /\ pc' = "dispatch"
  /\ UNCHANGED <<reflections, reflected>>

\* One tool result; _safe_dispatch turns an exception of the tool into one.
\* After the last one the loop goes on or is out of its budget.
MoreCalls_SkipLast == pending > 2
MoreCalls == pending > 1
BudgetSpent_Over == step > MaxToolSteps
BudgetSpent == step = MaxToolSteps

Dispatch ==
  /\ pc = "dispatch"
  /\ messages' = Append(messages, Message("tool"))
  /\ RecallAppend("tool")
  /\ pending' = pending - 1
  /\ pc' = IF MoreCalls THEN "dispatch"
           ELSE IF BudgetSpent THEN "synthesize" ELSE "chat"
  /\ UNCHANGED <<step, reflections, reflected>>

\* The final answer asked for without tools is returned, and not remembered.
Synthesize ==
  /\ pc = "synthesize"
  /\ messages' = Append(messages, Message("system"))
  /\ pc' = "idle"
  /\ UNCHANGED <<memVars, step, pending, reflections, reflected>>

\* A chat, the validation of a structured answer or the archival store raises.
Raises ==
  /\ pc \in {"chat", "synthesize", "structured", "reflect", "archive"}
  /\ pc' = "idle"
  /\ UNCHANGED <<memVars, messages, step, pending, reflections, reflected>>

-----------------------------------------------------------------------------
(* Agent.reflect, AgentTeam.decide and critique: one structured call each. *)

StartReflect ==
  /\ pc = "idle"
  /\ BuildInitialMessages
  /\ pc' = "reflect"
  /\ UNCHANGED <<step, pending, reflections, reflected>>

\* The reflection is kept for the next runs, the oldest one dropped, before it is
\* added to the archival store, which may raise.
KeptReflections(s) == LastOf(s, MaxReflections)

Reflect ==
  /\ pc = "reflect"
  /\ reflected' = reflected + 1
  /\ reflections' = KeptReflections(Append(reflections, reflected + 1))
  /\ pc' = "archive"
  /\ UNCHANGED <<memVars, messages, step, pending>>

Archived ==
  /\ pc = "archive"
  /\ pc' = "idle"
  /\ UNCHANGED <<memVars, messages, step, pending, reflections, reflected>>

StartStructured ==
  /\ pc = "idle"
  /\ BuildInitialMessages
  /\ pc' = "structured"
  /\ UNCHANGED <<step, pending, reflections, reflected>>

\* The decision or the verdict goes to the caller only.
Structured ==
  /\ pc = "structured"
  /\ pc' = "idle"
  /\ UNCHANGED <<memVars, messages, step, pending, reflections, reflected>>

Starts == StartRun \/ StartReflect \/ StartStructured
Steps ==
  \/ ChatAnswers
  \/ \E k \in 1 .. MaxCalls : ChatCallsTools(k)
  \/ Dispatch \/ Synthesize \/ Raises
  \/ Reflect \/ Archived \/ Structured

Next ==
  \/ \E size \in FactSizes : CoreAppend(size)
  \/ (Starts \/ Steps) /\ UNCHANGED coreVars
Spec == Init /\ [][Next]_vars

-----------------------------------------------------------------------------
(* Properties *)

\* Summary and window together are the latest turns, in order and without a
\* gap, and so are the facts of the core and the reflections: rolling turns
\* over loses nothing but the oldest text of the summary, and trimming nothing
\* but the oldest facts and reflections.
AreLatest(some, count) ==
  \A k \in 1 .. Len(some) : some[k].n = count - Len(some) + k
NothingSkipped ==
  /\ AreLatest(summary \o recall, turns)
  /\ AreLatest(core, Len(facts))
  /\ \A k \in 1 .. Len(reflections) :
       reflections[k] = reflected - Len(reflections) + k

\* The turns cut from the summary are cut only when it is full, and a fact is
\* out of the core only if it does not fit there with all that came after it,
\* however the core was trimmed on the way.
ForgetsOnlyWhenFull ==
  /\ Len(summary) + Len(recall) < turns =>
       Len(summary) >= SummaryTurns /\ Len(recall) = Window
  /\ Len(core) < Len(facts) =>
       Size(core) + facts[Len(facts) - Len(core)] > CoreBudget

\* In what a run itself appends, every request for tools is answered, call by
\* call, before the model is asked again.
Kind(k) == IF k \in DOMAIN messages THEN messages[k].kind ELSE "none"
LastUser == SelectLastInSeq(messages, LAMBDA m : m.kind = "user")
Requests == {k \in DOMAIN messages : k > LastUser /\ Kind(k) = "call"}
CallsAnswered ==
  pc \in {"chat", "synthesize"} => \A k \in Requests :
    /\ \A j \in 1 .. messages[k].calls : Kind(k + j) = "tool"
    /\ Kind(k + messages[k].calls + 1) # "tool"
=============================================================================
