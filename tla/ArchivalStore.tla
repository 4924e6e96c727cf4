---------------------------- MODULE ArchivalStore ----------------------------
(***************************************************************************)
(* The archival tier of harness/memory/store.py: one SQLite file shared by *)
(* every harness process (config.py gives all of them the same path), each *)
(* with one connection for all its agents.  The notes are written by the   *)
(* tools of harness/tools/registry.py, by Agent.reflect and by the         *)
(* harness's _record_failure.                                              *)
(*                                                                         *)
(* SQLite is external: a transaction opens with the first INSERT, one      *)
(* connection at a time may have one, and an INSERT that waits longer than *)
(* the connection's timeout raises.                                        *)
(***************************************************************************)
EXTENDS Naturals, Functions

CONSTANTS
  Procs,         \* harness processes
  NoProc,        \* nobody holds the write lock
  Kinds,         \* kinds of notes written
  Variants,      \* variant_id of write_reward, chosen by the model
  Second,        \* clock ticks per second
  MaxTime,       \* bound: the clock
  MaxAdds,       \* bound: calls of ArchivalStore.add
  MaxFaults      \* bound: kills and statements that fail

ASSUME StoreAssumption ==
  /\ NoProc \notin Procs
  /\ Kinds \subseteq {"reward_variant", "curriculum", "hp", "reflection",
                      "lesson"}
  /\ Variants \subseteq Nat /\ Second \in Nat \ {0}
  /\ {MaxTime, MaxAdds, MaxFaults} \subseteq Nat

VARIABLES
  \* the database file
  rows,      \* notes: a function from the ids it has
  links,     \* links: pairs <<src, dst>>
  lock,      \* who holds the write lock
  \* of the connection that holds it: what it has not committed
  txRows, txLinks,
  \* of each process
  pc,        \* "closed", "idle", or the statement of add it is at
  note,      \* the note being added
  raised,    \* the last add raised
  \* the world
  now, adds, faults,
  \* history: how many notes were inserted, and the number of the last
  \* acknowledged note of each id
  inserts, acked

dbVars == <<rows, links, lock, txRows, txLinks>>
procVars == <<pc, note, raised>>
history == <<inserts, acked>>
vars == <<dbVars, procVars, now, adds, faults, history>>

Ids == Kinds \X (Variants \cup 0 .. MaxTime)
Notes == [id : Ids, links : SUBSET Ids]
Rows == [links : SUBSET Ids, serial : Nat]
Nothing == [i \in {} |-> 0]

\* Notes r with x as note i; and the notes of new over those of old.
With(r, i, x) == [j \in DOMAIN r \cup {i} |-> IF j = i THEN x ELSE r[j]]
Over(new, old) ==
  [j \in DOMAIN new \cup DOMAIN old |->
     IF j \in DOMAIN new THEN new[j] ELSE old[j]]

TypeOK ==
  /\ DOMAIN rows \subseteq Ids /\ Range(rows) \subseteq Rows
  /\ DOMAIN txRows \subseteq Ids /\ Range(txRows) \subseteq Rows
  /\ links \subseteq Ids \X Ids /\ txLinks \subseteq Ids \X Ids
  /\ lock \in Procs \cup {NoProc}
  /\ lock = NoProc => txRows = Nothing /\ txLinks = {}
  /\ pc \in [Procs -> {"closed", "idle", "insert", "links", "commit"}]
  /\ \A p \in Procs : pc[p] \in {"links", "commit"} => lock = p
  /\ raised \in [Procs -> BOOLEAN]
  /\ now \in 0 .. MaxTime /\ adds \in 0 .. MaxAdds /\ faults \in 0 .. MaxFaults
  /\ note \in [Procs -> {Nothing} \cup Notes]
  /\ \A p \in Procs :
       pc[p] \in {"insert", "links", "commit"} => note[p] \in Notes
  /\ inserts \in Nat
  /\ DOMAIN acked \subseteq Ids /\ Range(acked) \subseteq 0 .. inserts

Init ==
  /\ rows = Nothing /\ links = {} /\ lock = NoProc
  /\ txRows = Nothing /\ txLinks = {}
  /\ pc = [p \in Procs |-> "closed"]
  /\ note = [p \in Procs |-> Nothing]
  /\ raised = [p \in Procs |-> FALSE]
  /\ now = 0 /\ adds = 0 /\ faults = 0
  /\ inserts = 0 /\ acked = Nothing

-----------------------------------------------------------------------------
(* Connections *)

\* A connection reads what is committed and what it has itself not committed.
RowsOf(p) == IF lock = p THEN Over(txRows, rows) ELSE rows

\* The schema is created once; every later script finds it there.
Open(p) ==
  /\ pc[p] = "closed"
  /\ pc' = [pc EXCEPT ![p] = "idle"]
  /\ UNCHANGED <<dbVars, note, raised, now, adds, faults, history>>

RollBack(p) ==
  IF lock = p
  THEN /\ lock' = NoProc /\ txRows' = Nothing /\ txLinks' = {}
       /\ UNCHANGED <<rows, links>>
  ELSE UNCHANGED dbVars

\* The process ends, killed or not: nothing commits what is pending.
End(p) ==
  /\ pc[p] # "closed" /\ faults < MaxFaults
  /\ faults' = faults + 1
  /\ RollBack(p)
  /\ pc' = [pc EXCEPT ![p] = "closed"]
  /\ note' = [note EXCEPT ![p] = Nothing]
  /\ raised' = [raised EXCEPT ![p] = FALSE]
  /\ UNCHANGED <<now, adds, history>>

-----------------------------------------------------------------------------
(* Who adds notes, under which id *)

\* The ids the writers make now.  A reward variant keeps the name the model
\* gave it, proposed once or again; a plan or a setting is named by the second,
\* what archival_add names itself by the tick.
NewIds_RoundedUp ==
  {i \in {"reward_variant"} \X Variants
         \cup {"curriculum", "hp"} \X {now \div Second + 1}
         \cup {"reflection", "lesson"} \X {now} : i[1] \in Kinds}
NewIds ==
  {i \in {"reward_variant"} \X Variants
         \cup {"curriculum", "hp"} \X {now \div Second}
         \cup {"reflection", "lesson"} \X {now} : i[1] \in Kinds}

\* Only a reflection may carry links, to the notes its outcome names.
NewLinks(p, id) ==
  {{}} \cup IF id[1] = "reflection" THEN {{i} : i \in DOMAIN RowsOf(p)} ELSE {}

Add(p) ==
  /\ pc[p] = "idle" /\ adds < MaxAdds
  /\ adds' = adds + 1
  /\ \E id \in NewIds : \E linked \in NewLinks(p, id) :
       note' = [note EXCEPT ![p] = [id |-> id, links |-> linked]]
  /\ pc' = [pc EXCEPT ![p] = "insert"]
  /\ UNCHANGED <<dbVars, raised, now, faults, history>>

-----------------------------------------------------------------------------
(* ArchivalStore.add, statement by statement *)

\* The row of a note, with the number of its insertion.
Row(n, k) == [links |-> n.links, serial |-> k]
LinksOf(id, linked) == {id} \X linked

\* INSERT OR REPLACE.
WithNote(t, n, k) == With(t, n.id, Row(n, k))

\* The first statement opens the transaction, unless a commit that failed left
\* one open.
Insert(p) ==
  /\ pc[p] = "insert" /\ lock \in {p, NoProc}
  /\ lock' = p
  /\ inserts' = inserts + 1
  /\ txRows' = WithNote(txRows, note[p], inserts + 1)
  /\ pc' = [pc EXCEPT ![p] = "links"]
  /\ UNCHANGED <<rows, links, txLinks, note, raised, now, adds, faults, acked>>

Raise(p) ==
  /\ pc' = [pc EXCEPT ![p] = "idle"]
  /\ raised' = [raised EXCEPT ![p] = TRUE]
  /\ note' = [note EXCEPT ![p] = Nothing]

\* "database is locked", after the five seconds sqlite3.connect waits.
TimesOut_Never(p) == FALSE
TimesOut(p) == lock \notin {p, NoProc}
InsertBusy(p) ==
  /\ pc[p] = "insert" /\ TimesOut(p)
  /\ Raise(p)
  /\ UNCHANGED <<dbVars, now, adds, faults, history>>

InsertLinks(p) ==
  /\ pc[p] = "links"
  /\ txLinks' = txLinks \cup LinksOf(note[p].id, note[p].links)
  /\ pc' = [pc EXCEPT ![p] = "commit"]
  /\ UNCHANGED <<rows, links, lock, txRows, note, raised, now, adds, faults,
                 history>>

\* One of the links fails (a full disk): those before it and the row stay
\* pending, for the next add of this connection to commit.
LinkFails(p) ==
  /\ pc[p] = "links" /\ faults < MaxFaults
  /\ \E some \in SUBSET note[p].links :
       /\ some # note[p].links
       /\ txLinks' = txLinks \cup LinksOf(note[p].id, some)
  /\ faults' = faults + 1
  /\ Raise(p)
  /\ UNCHANGED <<rows, links, lock, txRows, now, adds, history>>

\* Mistaken variant: the links are written after the row is committed.
Flush_RowFirst ==
  /\ rows' = Over(txRows, rows) /\ txRows' = Nothing
  /\ IF txLinks \subseteq links THEN lock' = NoProc /\ txLinks' = {}
                                ELSE UNCHANGED <<lock, txLinks>>
  /\ UNCHANGED links
Flush ==
  /\ rows' = Over(txRows, rows) /\ links' = links \cup txLinks
  /\ txRows' = Nothing /\ txLinks' = {} /\ lock' = NoProc

Commit(p) ==
  /\ pc[p] = "commit"
  /\ Flush
  /\ pc' = [pc EXCEPT ![p] = "idle"]
  /\ raised' = [raised EXCEPT ![p] = FALSE]
  /\ acked' = With(acked, note[p].id, inserts)
  /\ note' = [note EXCEPT ![p] = Nothing]
  /\ UNCHANGED <<now, adds, faults, inserts>>

\* The commit raises (a reader in the way, a full disk): nothing rolls back.
CommitFails(p) ==
  /\ pc[p] = "commit" /\ faults < MaxFaults
  /\ faults' = faults + 1
  /\ Raise(p)
  /\ UNCHANGED <<dbVars, now, adds, history>>

Tick ==
  /\ now < MaxTime
  /\ now' = now + 1
  /\ UNCHANGED <<dbVars, procVars, adds, faults, history>>

AddGoesOn(p) ==
  \/ Insert(p) \/ InsertBusy(p) \/ InsertLinks(p) \/ LinkFails(p)
  \/ Commit(p) \/ CommitFails(p)

Next ==
  \/ Tick
  \/ \E p \in Procs : Open(p) \/ Add(p) \/ AddGoesOn(p) \/ End(p)

\* A process that is inside add runs on, and SQLite's timeout is one of the
\* ways on.  Nothing makes a process add again, end, or be opened.
Spec == Init /\ [][Next]_vars /\ \A p \in Procs : WF_vars(AddGoesOn(p))

-----------------------------------------------------------------------------
(* Properties *)

\* A note whose add returned is in the file until a later note of the same id
\* replaces it, and until then the table for the reverse lookup has all its
\* links, whatever adds fail, wait or are killed between their statements, in any
\* process.
AckedIsKept ==
  \A i \in DOMAIN acked :
    /\ i \in DOMAIN rows /\ rows[i].serial >= acked[i]
    /\ rows[i].serial = acked[i] => LinksOf(i, rows[i].links) \subseteq links

\* Every add returns or raises, also while another process keeps the lock.
AddEnds ==
  \A p \in Procs : pc[p] = "insert" ~> pc[p] \in {"idle", "closed"}
=============================================================================
