------------------------- MODULE ArchivalStoreProofs -------------------------
(***************************************************************************)
(* Proofs about ArchivalStore for every set of processes, any clock and    *)
(* any number of adds, kills and statements that fail.                     *)
(***************************************************************************)
EXTENDS ArchivalStore, TLAPS

-----------------------------------------------------------------------------
(* Type correctness. *)

\* The second of a time of the clock is a time of the clock.
LEMMA SecondsFit ==
  ASSUME now \in 0 .. MaxTime
  PROVE  now \div Second \in 0 .. MaxTime
BY StoreAssumption

\* A note over others, and notes over others.
LEMMA WithFacts ==
  ASSUME NEW r, NEW i, NEW x
  PROVE  /\ DOMAIN With(r, i, x) = DOMAIN r \cup {i}
         /\ With(r, i, x)[i] = x
         /\ \A j \in DOMAIN r \ {i} : With(r, i, x)[j] = r[j]
         /\ Range(With(r, i, x)) \subseteq Range(r) \cup {x}
BY DEF With, Range

\* The newer notes are found first, the older ones where there is no newer.
LEMMA OverFacts ==
  ASSUME NEW new, NEW old
  PROVE  /\ DOMAIN Over(new, old) = DOMAIN new \cup DOMAIN old
         /\ \A j \in DOMAIN new : Over(new, old)[j] = new[j]
         /\ \A j \in DOMAIN old \ DOMAIN new : Over(new, old)[j] = old[j]
         /\ Range(Over(new, old)) \subseteq Range(new) \cup Range(old)
BY DEF Over, Range

\* No notes.
LEMMA NothingFacts == DOMAIN Nothing = {} /\ Range(Nothing) = {}
BY DEF Nothing, Range

\* The fields of a note, its row and its links.
LEMMA NoteFacts ==
  ASSUME NEW n \in Notes, NEW k \in Nat
  PROVE  /\ n.id \in Ids /\ n.links \in SUBSET Ids
         /\ Row(n, k) \in Rows /\ Row(n, k).serial = k
         /\ Row(n, k).links = n.links
         /\ LinksOf(n.id, n.links) \subseteq Ids \X Ids
<1>1. n.id \in Ids /\ n.links \in SUBSET Ids
  BY DEF Notes
<1> QED
  BY <1>1 DEF Row, Rows, LinksOf

\* What a process has not committed is only there while it holds the lock.
LEMMA RollBackType ==
  ASSUME TypeOK, NEW p \in Procs, RollBack(p),
         \A q \in Procs : pc'[q] \in {"links", "commit"} =>
                            q # p /\ pc[q] \in {"links", "commit"}
  PROVE  /\ rows' = rows /\ links' = links
         /\ lock' \in Procs \cup {NoProc}
         /\ DOMAIN txRows' \subseteq Ids /\ Range(txRows') \subseteq Rows
         /\ txLinks' \subseteq Ids \X Ids
         /\ lock' = NoProc => txRows' = Nothing /\ txLinks' = {}
         /\ \A q \in Procs : pc'[q] \in {"links", "commit"} => lock' = q
<1>1. CASE lock = p
  BY <1>1, NothingFacts, StoreAssumption DEF TypeOK, RollBack
<1>2. CASE lock # p
  BY <1>2 DEF TypeOK, RollBack, dbVars
<1> QED
  BY <1>1, <1>2

\* The store keeps its types whatever the processes do, fail at or are killed
\* in: what is pending belongs to the holder of the write lock.
THEOREM TypeCorrect == Spec => []TypeOK
<1> USE StoreAssumption
<1>1. Init => TypeOK
  BY NothingFacts DEF Init, TypeOK
<1>2. TypeOK /\ [Next]_vars => TypeOK'
  <2> SUFFICES ASSUME TypeOK, [Next]_vars PROVE TypeOK'
    OBVIOUS
  <2>1. ASSUME Tick PROVE TypeOK'
    BY <2>1 DEF TypeOK, Tick, dbVars, procVars, history
  <2>2. ASSUME NEW p \in Procs, Open(p) PROVE TypeOK'
    BY <2>2 DEF TypeOK, Open, dbVars, history
  <2>3. ASSUME NEW p \in Procs, Add(p) PROVE TypeOK'
    <3>1. PICK id \in NewIds : \E linked \in NewLinks(p, id) :
            note' = [note EXCEPT ![p] = [id |-> id, links |-> linked]]
      BY <2>3 DEF Add
    <3>2. PICK linked \in NewLinks(p, id) :
            note' = [note EXCEPT ![p] = [id |-> id, links |-> linked]]
      BY <3>1
    <3>3. id \in Ids
      BY SecondsFit DEF TypeOK, NewIds, Ids
    <3>4. linked \in SUBSET Ids
      <4>1. DOMAIN RowsOf(p) \subseteq Ids
        BY DEF TypeOK, RowsOf, Over
      <4> QED
        BY <4>1 DEF NewLinks
    <3>5. [id |-> id, links |-> linked] \in Notes
      BY <3>3, <3>4 DEF Notes
    <3> QED
      BY <2>3, <3>2, <3>5 DEF TypeOK, Add, dbVars, history
  <2>4. ASSUME NEW p \in Procs, Insert(p) PROVE TypeOK'
    <3>1. note[p] \in Notes /\ inserts + 1 \in Nat
      BY <2>4 DEF TypeOK, Insert
    <3>2. note[p].id \in Ids /\ Row(note[p], inserts + 1) \in Rows
      BY <3>1, NoteFacts
    <3>3. DOMAIN txRows' \subseteq Ids /\ Range(txRows') \subseteq Rows
      <4>1. txRows' = With(txRows, note[p].id, Row(note[p], inserts + 1))
        BY <2>4 DEF Insert, WithNote
      <4>2. DOMAIN txRows \subseteq Ids /\ Range(txRows) \subseteq Rows
        BY DEF TypeOK
      <4> DEFINE i == note[p].id
                 row == Row(note[p], inserts + 1)
      <4>3. i \in Ids /\ row \in Rows /\ txRows' = With(txRows, i, row)
        BY <3>2, <4>1
      <4> HIDE DEF i, row
      <4>4. /\ DOMAIN txRows' = DOMAIN txRows \cup {i}
            /\ Range(txRows') \subseteq Range(txRows) \cup {row}
        BY <4>3, WithFacts
      <4> QED
        BY <4>2, <4>3, <4>4
    <3> QED
      BY <2>4, <3>1, <3>3 DEF TypeOK, Insert
  <2>5. ASSUME NEW p \in Procs, InsertBusy(p) PROVE TypeOK'
    <3>1. /\ pc' \in [Procs -> {"closed", "idle", "insert", "links", "commit"}]
          /\ raised' \in [Procs -> BOOLEAN]
          /\ note' \in [Procs -> {Nothing} \cup Notes]
      BY <2>5 DEF TypeOK, InsertBusy, Raise
    <3>2. \A q \in Procs : pc'[q] # "idle" => pc'[q] = pc[q] /\ note'[q] = note[q]
      BY <2>5 DEF TypeOK, InsertBusy, Raise
    <3> QED
      BY <2>5, <3>1, <3>2 DEF TypeOK, InsertBusy, dbVars, history
  <2>6. ASSUME NEW p \in Procs, InsertLinks(p) PROVE TypeOK'
    <3>1. note[p] \in Notes /\ lock = p
      BY <2>6 DEF TypeOK, InsertLinks
    <3>2. LinksOf(note[p].id, note[p].links) \subseteq Ids \X Ids
      BY <3>1, NoteFacts
    <3>3. txLinks' \subseteq Ids \X Ids
      BY <2>6, <3>2 DEF TypeOK, InsertLinks
    <3>4. /\ pc' \in [Procs -> {"closed", "idle", "insert", "links", "commit"}]
          /\ \A q \in Procs : q # p => pc'[q] = pc[q]
      BY <2>6 DEF TypeOK, InsertLinks
    <3> QED
      BY <2>6, <3>1, <3>3, <3>4 DEF TypeOK, InsertLinks, history
  <2>7. ASSUME NEW p \in Procs, Commit(p) PROVE TypeOK'
    <3>1. DOMAIN rows' \subseteq Ids /\ Range(rows') \subseteq Rows
      <4>1. rows' = Over(txRows, rows)
        BY <2>7 DEF Commit, Flush
      <4>2. /\ DOMAIN rows \subseteq Ids /\ Range(rows) \subseteq Rows
            /\ DOMAIN txRows \subseteq Ids /\ Range(txRows) \subseteq Rows
        BY DEF TypeOK
      <4> QED
        BY <4>1, <4>2, OverFacts
    <3>2. note[p].id \in Ids
      <4>1. note[p] \in Notes
        BY <2>7 DEF TypeOK, Commit
      <4> QED
        BY <4>1, NoteFacts
    <3>3. DOMAIN acked' \subseteq Ids /\ Range(acked') \subseteq 0 .. inserts'
      <4>1. acked' = With(acked, note[p].id, inserts) /\ inserts' = inserts
        BY <2>7 DEF Commit
      <4>2. DOMAIN acked \subseteq Ids /\ Range(acked) \subseteq 0 .. inserts
        BY DEF TypeOK
      <4>3. inserts \in 0 .. inserts
        BY DEF TypeOK
      <4>4. /\ DOMAIN With(acked, note[p].id, inserts) \subseteq Ids
            /\ Range(With(acked, note[p].id, inserts)) \subseteq 0 .. inserts
        <5> DEFINE T == 0 .. inserts
                   i == note[p].id
        <5>1. Range(acked) \subseteq T /\ inserts \in T /\ i \in Ids
          BY <3>2, <4>2, <4>3
        <5> HIDE DEF T, i
        <5>2. /\ DOMAIN With(acked, i, inserts) = DOMAIN acked \cup {i}
              /\ Range(With(acked, i, inserts)) \subseteq
                   Range(acked) \cup {inserts}
          BY WithFacts
        <5>3. /\ DOMAIN With(acked, i, inserts) \subseteq Ids
              /\ Range(With(acked, i, inserts)) \subseteq T
          BY <4>2, <5>1, <5>2
        <5> QED
          BY <5>3 DEF T, i
      <4> QED
        BY <4>1, <4>4
    <3> QED
      BY <2>7, <3>1, <3>3, NothingFacts DEF TypeOK, Commit, Flush
  <2>8. ASSUME NEW p \in Procs, CommitFails(p) PROVE TypeOK'
    BY <2>8 DEF TypeOK, CommitFails, Raise, dbVars, history
  <2>11. ASSUME NEW p \in Procs, LinkFails(p) PROVE TypeOK'
    <3>1. note[p] \in Notes
      BY <2>11 DEF TypeOK, LinkFails
    <3>2. txLinks' \subseteq Ids \X Ids
      <4>1. LinksOf(note[p].id, note[p].links) \subseteq Ids \X Ids
        BY <3>1, NoteFacts
      <4>2. PICK some \in SUBSET note[p].links :
              txLinks' = txLinks \cup LinksOf(note[p].id, some)
        BY <2>11 DEF LinkFails
      <4>3. LinksOf(note[p].id, some) \subseteq LinksOf(note[p].id, note[p].links)
        BY DEF LinksOf
      <4> QED
        BY <4>1, <4>2, <4>3 DEF TypeOK
    <3>3. lock = p
      BY <2>11 DEF TypeOK, LinkFails
    <3> QED
      BY <2>11, <3>2, <3>3 DEF TypeOK, LinkFails, Raise, history
  <2>9. ASSUME NEW p \in Procs, End(p) PROVE TypeOK'
    <3>1. \A q \in Procs : pc'[q] \in {"links", "commit"} =>
                             q # p /\ pc[q] \in {"links", "commit"}
      BY <2>9 DEF TypeOK, End
    <3> QED
      BY <2>9, <3>1, RollBackType DEF TypeOK, End, history
  <2>10. CASE UNCHANGED vars
    BY <2>10 DEF TypeOK, vars, dbVars, procVars, history
  <2> QED
    BY <2>1, <2>2, <2>3, <2>4, <2>5, <2>6, <2>7, <2>8, <2>9, <2>10, <2>11
       DEF Next, AddGoesOn
<1> QED
  BY <1>1, <1>2, PTL DEF Spec

-----------------------------------------------------------------------------
(* Acknowledged notes.  AckedIsKept is not inductive: what Commit makes of *)
(* the file was laid down by the statements before it, of this add and of  *)
(* those whose commit failed.                                              *)

\* An acknowledged note that nothing has replaced has its links.
LinksWritten ==
  \A i \in DOMAIN acked :
    rows[i].serial = acked[i] => LinksOf(i, rows[i].links) \subseteq links

\* An add past its INSERT has its note, the last one inserted, pending, and
\* before its COMMIT the links too.
NotePending ==
  \A p \in Procs : pc[p] \in {"links", "commit"} =>
    /\ note[p].id \in DOMAIN txRows
    /\ txRows[note[p].id].serial = inserts
    /\ txRows[note[p].id].links = note[p].links
    /\ pc[p] = "commit" => LinksOf(note[p].id, note[p].links) \subseteq txLinks

\* The file holds no older note than acknowledged, and what is pending is newer.
NoneOlder ==
  \A i \in DOMAIN acked :
    /\ i \in DOMAIN rows /\ rows[i].serial >= acked[i]
    /\ i \in DOMAIN txRows => txRows[i].serial > acked[i]

StoreInv == LinksWritten /\ NotePending /\ NoneOlder

\* A step that changes no row, loses no pending link and leaves every add past
\* its INSERT where it is, or takes it back, keeps the invariant.
LEMMA QuietStep ==
  ASSUME StoreInv, UNCHANGED <<rows, links, txRows, inserts, acked>>,
         txLinks \subseteq txLinks',
         \A q \in Procs : pc'[q] \in {"links", "commit"} =>
                            pc[q] = pc'[q] /\ note'[q] = note[q]
  PROVE  StoreInv'
<1>1. LinksWritten'
  BY DEF StoreInv, LinksWritten
<1>2. NotePending'
  <2> SUFFICES ASSUME NEW q \in Procs, pc'[q] \in {"links", "commit"}
               PROVE  /\ note'[q].id \in DOMAIN txRows
                      /\ txRows[note'[q].id].serial = inserts
                      /\ txRows[note'[q].id].links = note'[q].links
                      /\ pc'[q] = "commit" =>
                           LinksOf(note'[q].id, note'[q].links) \subseteq txLinks'
    BY DEF NotePending
  <2>1. pc[q] = pc'[q] /\ note'[q] = note[q]
    OBVIOUS
  <2> QED
    BY <2>1 DEF StoreInv, NotePending
<1>3. NoneOlder'
  BY DEF StoreInv, NoneOlder
<1> QED
  BY <1>1, <1>2, <1>3 DEF StoreInv

\* Insert puts a note after all the others, and its links are still to come.
LEMMA InsertStep ==
  ASSUME TypeOK, StoreInv, NEW p \in Procs, Insert(p)
  PROVE  StoreInv'
<1> DEFINE i == note[p].id
           row == Row(note[p], inserts + 1)
<1>1. note[p] \in Notes /\ inserts + 1 \in Nat /\ inserts \in Nat
  BY DEF TypeOK, Insert
<1>2. row.serial = inserts + 1 /\ row.links = note[p].links
  BY <1>1, NoteFacts
<1>3. txRows' = With(txRows, i, row)
  BY DEF Insert, WithNote
<1>4. /\ DOMAIN txRows' = DOMAIN txRows \cup {i}
      /\ txRows'[i] = row
      /\ \A j \in DOMAIN txRows \ {i} : txRows'[j] = txRows[j]
  BY <1>3 DEF With
<1>5. /\ rows' = rows /\ links' = links /\ txLinks' = txLinks
      /\ acked' = acked /\ note' = note /\ inserts' = inserts + 1
  BY DEF Insert
<1>6. pc'[p] = "links" /\ \A q \in Procs \ {p} : pc'[q] = pc[q]
  BY DEF TypeOK, Insert
<1>7. \A q \in Procs \ {p} : pc[q] \notin {"links", "commit"}
  BY StoreAssumption DEF TypeOK, Insert
<1>8. LinksWritten'
  BY <1>5 DEF StoreInv, LinksWritten
<1>9. NotePending'
  BY <1>2, <1>4, <1>5, <1>6, <1>7 DEF NotePending
<1>10. NoneOlder'
  <2> SUFFICES ASSUME NEW j \in DOMAIN acked
               PROVE  /\ j \in DOMAIN rows /\ rows[j].serial >= acked[j]
                      /\ j \in DOMAIN txRows' => txRows'[j].serial > acked[j]
    BY <1>5 DEF NoneOlder
  <2>1. acked[j] \in 0 .. inserts
    BY DEF TypeOK, Range
  <2>2. CASE j = i
    BY <2>1, <2>2, <1>1, <1>2, <1>4 DEF StoreInv, NoneOlder
  <2>3. CASE j # i
    BY <2>3, <1>4 DEF StoreInv, NoneOlder
  <2> QED
    BY <2>2, <2>3
<1> QED
  BY <1>8, <1>9, <1>10 DEF StoreInv

\* InsertLinks writes what its note was still waiting for.
LEMMA InsertLinksStep ==
  ASSUME TypeOK, StoreInv, NEW p \in Procs, InsertLinks(p)
  PROVE  StoreInv'
<1>1. /\ UNCHANGED <<rows, links, txRows, note, inserts, acked>>
      /\ txLinks' = txLinks \cup LinksOf(note[p].id, note[p].links)
  BY DEF InsertLinks, history
<1>2. pc'[p] = "commit" /\ \A q \in Procs \ {p} : pc'[q] = pc[q]
  BY DEF TypeOK, InsertLinks
<1>3. LinksWritten'
  BY <1>1 DEF StoreInv, LinksWritten
<1>4. NotePending'
  <2> SUFFICES ASSUME NEW q \in Procs, pc'[q] \in {"links", "commit"}
               PROVE  /\ note[q].id \in DOMAIN txRows
                      /\ txRows[note[q].id].serial = inserts
                      /\ txRows[note[q].id].links = note[q].links
                      /\ pc'[q] = "commit" =>
                           LinksOf(note[q].id, note[q].links) \subseteq txLinks'
    BY <1>1 DEF NotePending
  <2>1. CASE q = p
    BY <2>1, <1>1 DEF StoreInv, NotePending, InsertLinks
  <2>2. CASE q # p
    BY <2>2, <1>1, <1>2 DEF StoreInv, NotePending
  <2> QED
    BY <2>1, <2>2
<1>5. NoneOlder'
  BY <1>1 DEF StoreInv, NoneOlder
<1> QED
  BY <1>3, <1>4, <1>5 DEF StoreInv

\* Commit brings in what is pending, of this add and of those that failed.
LEMMA CommitStep ==
  ASSUME TypeOK, StoreInv, NEW p \in Procs, Commit(p)
  PROVE  StoreInv'
<1> DEFINE i == note[p].id
<1>1. /\ rows' = Over(txRows, rows) /\ links' = links \cup txLinks
      /\ txRows' = Nothing /\ txLinks' = {} /\ inserts' = inserts
      /\ acked' = With(acked, i, inserts)
  BY DEF Commit, Flush
<1>2. \A q \in Procs : pc'[q] \notin {"links", "commit"}
  BY StoreAssumption DEF TypeOK, Commit
<1>3. DOMAIN txRows' = {}
  BY <1>1, NothingFacts
<1>4. /\ DOMAIN rows' = DOMAIN txRows \cup DOMAIN rows
      /\ \A j \in DOMAIN txRows : rows'[j] = txRows[j]
      /\ \A j \in DOMAIN rows \ DOMAIN txRows : rows'[j] = rows[j]
  BY <1>1 DEF Over
<1>8. /\ i \in DOMAIN txRows /\ txRows[i].serial = inserts /\ inserts \in Nat
      /\ LinksOf(i, txRows[i].links) \subseteq txLinks
  BY DEF StoreInv, NotePending, TypeOK, Commit
<1>9. /\ DOMAIN acked' = DOMAIN acked \cup {i} /\ acked'[i] = inserts
      /\ \A j \in DOMAIN acked \ {i} : acked'[j] = acked[j]
  BY <1>1 DEF With
<1>10. \A j \in DOMAIN acked :
         acked[j] \in Nat /\ (j \in DOMAIN txRows => txRows[j].serial \in Nat)
  BY DEF TypeOK, Range, Rows
<1>5. LinksWritten'
  <2> SUFFICES ASSUME NEW j \in DOMAIN acked', rows'[j].serial = acked'[j]
               PROVE  LinksOf(j, rows'[j].links) \subseteq links'
    BY DEF LinksWritten
  <2>1. CASE j = i
    BY <2>1, <1>1, <1>4, <1>8
  <2>2. CASE j # i
    <3>1. j \in DOMAIN acked /\ acked'[j] = acked[j] /\ j \in DOMAIN rows
      BY <2>2, <1>9 DEF StoreInv, NoneOlder
    <3>2. j \notin DOMAIN txRows
      BY <3>1, <1>4, <1>10 DEF StoreInv, NoneOlder
    <3>3. rows'[j] = rows[j]
      BY <3>1, <3>2, <1>4
    <3>4. LinksOf(j, rows[j].links) \subseteq links
      BY <3>1, <3>3 DEF StoreInv, LinksWritten
    <3> QED
      BY <3>3, <3>4, <1>1
  <2> QED
    BY <2>1, <2>2
<1>6. NotePending'
  BY <1>2 DEF NotePending
<1>7. NoneOlder'
  <2>3. ASSUME NEW j \in DOMAIN acked'
        PROVE  j \in DOMAIN rows' /\ rows'[j].serial >= acked'[j]
    <3>1. CASE j = i
      BY <3>1, <1>4, <1>8, <1>9
    <3>2. CASE j # i
      <4>1. j \in DOMAIN acked /\ acked'[j] = acked[j]
        BY <2>3, <3>2, <1>9
      <4>2. CASE j \in DOMAIN txRows
        BY <4>1, <4>2, <1>4, <1>10 DEF StoreInv, NoneOlder
      <4>3. CASE j \notin DOMAIN txRows
        BY <4>1, <4>3, <1>4 DEF StoreInv, NoneOlder
      <4> QED
        BY <4>2, <4>3
    <3> QED
      BY <3>1, <3>2
  <2> QED
    BY <2>3, <1>3 DEF NoneOlder
<1> QED
  BY <1>5, <1>6, <1>7 DEF StoreInv

\* The end of the process that holds the lock takes what is pending with it.
LEMMA RollBackStep ==
  ASSUME TypeOK, StoreInv, NEW p \in Procs, End(p), lock = p
  PROVE  StoreInv'
<1>1. /\ UNCHANGED <<rows, links, inserts, acked>>
      /\ txRows' = Nothing
  BY DEF End, RollBack, history
<1>2. DOMAIN txRows' = {}
  BY <1>1, NothingFacts
<1>3. \A q \in Procs : pc'[q] \notin {"links", "commit"}
  BY DEF TypeOK, End
<1>4. LinksWritten'
  BY <1>1, <1>2 DEF StoreInv, LinksWritten
<1>5. NotePending'
  BY <1>3 DEF NotePending
<1>6. NoneOlder'
  BY <1>1, <1>2 DEF StoreInv, NoneOlder
<1> QED
  BY <1>4, <1>5, <1>6 DEF StoreInv

\* The file never loses an acknowledged note but to a later one of its id, and
\* until then never lacks its links, however many processes add, fail in any
\* statement and are killed.
THEOREM Kept == Spec => []AckedIsKept
<1>1. Init => StoreInv
  BY NothingFacts DEF Init, StoreInv, LinksWritten, NotePending, NoneOlder
<1>2. TypeOK /\ StoreInv /\ [Next]_vars => StoreInv'
  <2> SUFFICES ASSUME TypeOK, StoreInv, [Next]_vars PROVE StoreInv'
    OBVIOUS
  <2>1. CASE Tick
    BY <2>1, QuietStep DEF Tick, dbVars, procVars, history
  <2>2. ASSUME NEW p \in Procs, Open(p) PROVE StoreInv'
    <3>1. \A q \in Procs : \/ pc'[q] = pc[q]
                           \/ pc[q] = "closed" /\ pc'[q] = "idle"
      BY <2>2 DEF TypeOK, Open
    <3> QED
      BY <2>2, <3>1, QuietStep DEF Open, dbVars, history
  <2>3. ASSUME NEW p \in Procs, Add(p) PROVE StoreInv'
    <3>1. \A q \in Procs : \/ pc'[q] = pc[q] /\ note'[q] = note[q]
                           \/ pc[q] = "idle" /\ pc'[q] = "insert"
      BY <2>3 DEF TypeOK, Add
    <3> QED
      BY <2>3, <3>1, QuietStep DEF Add, dbVars, history
  <2>4. ASSUME NEW p \in Procs, Insert(p) PROVE StoreInv'
    BY <2>4, InsertStep
  <2>5. ASSUME NEW p \in Procs, InsertBusy(p) PROVE StoreInv'
    <3>1. \A q \in Procs : \/ pc'[q] = pc[q] /\ note'[q] = note[q]
                           \/ pc[q] = "insert" /\ pc'[q] = "idle"
      BY <2>5 DEF TypeOK, InsertBusy, Raise
    <3> QED
      BY <2>5, <3>1, QuietStep DEF InsertBusy, dbVars, history
  <2>6. ASSUME NEW p \in Procs, InsertLinks(p) PROVE StoreInv'
    BY <2>6, InsertLinksStep
  <2>7. ASSUME NEW p \in Procs, Commit(p) PROVE StoreInv'
    BY <2>7, CommitStep
  <2>8. ASSUME NEW p \in Procs, CommitFails(p) PROVE StoreInv'
    <3>1. \A q \in Procs : \/ pc'[q] = pc[q] /\ note'[q] = note[q]
                           \/ pc[q] = "commit" /\ pc'[q] = "idle"
      BY <2>8 DEF TypeOK, CommitFails, Raise
    <3> QED
      BY <2>8, <3>1, QuietStep DEF CommitFails, dbVars, history
  <2>11. ASSUME NEW p \in Procs, LinkFails(p) PROVE StoreInv'
    <3>1. \A q \in Procs : \/ pc'[q] = pc[q] /\ note'[q] = note[q]
                           \/ pc[q] = "links" /\ pc'[q] = "idle"
      BY <2>11 DEF TypeOK, LinkFails, Raise
    <3> QED
      BY <2>11, <3>1, QuietStep DEF LinkFails, history
  <2>9. ASSUME NEW p \in Procs, End(p) PROVE StoreInv'
    <3>1. CASE lock = p
      BY <2>9, <3>1, RollBackStep
    <3>2. CASE lock # p
      <4>1. pc[p] \notin {"links", "commit"}
        BY <3>2 DEF TypeOK
      <4>2. \A q \in Procs : \/ pc'[q] = pc[q] /\ note'[q] = note[q]
                             \/ q = p /\ pc'[q] = "closed"
        BY <2>9 DEF TypeOK, End
      <4> QED
        BY <2>9, <3>2, <4>1, <4>2, QuietStep DEF End, RollBack, dbVars, history
    <3> QED
      BY <3>1, <3>2
  <2>10. CASE UNCHANGED vars
    BY <2>10, QuietStep DEF vars, dbVars, procVars, history
  <2> QED
    BY <2>1, <2>2, <2>3, <2>4, <2>5, <2>6, <2>7, <2>8, <2>9, <2>10, <2>11
       DEF Next, AddGoesOn
<1>3. StoreInv => AckedIsKept
  BY DEF StoreInv, LinksWritten, NoneOlder, AckedIsKept
<1> QED
  BY <1>1, <1>2, <1>3, TypeCorrect, PTL DEF Spec
=============================================================================
