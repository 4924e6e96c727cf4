--------------------------- MODULE AgentLoopProofs ---------------------------
(***************************************************************************)
(* Proofs about AgentLoop, for any window, summary, budgets and bounds.    *)
(***************************************************************************)
EXTENDS AgentLoop, NaturalsInduction, WellFoundedInduction, TLAPS

-----------------------------------------------------------------------------
(* Induction over the naturals, through a set. *)

\* A set of naturals has a least element.
LEMMA Least ==
  ASSUME NEW T \in SUBSET Nat, T # {}
  PROVE  \E m \in T : \A n \in T : m <= n
<1>1. IsWellFoundedOn(OpToRel(<, Nat), Nat)
  BY NatLessThanWellFounded
<1>2. PICK m \in T : \A n \in T : <<n, m>> \notin OpToRel(<, Nat)
  BY <1>1, WFMin
<1>3. \A n \in T : ~(n < m)
  BY <1>2 DEF OpToRel
<1> QED
  BY <1>3

\* What holds of 0 and goes on from each number to the next holds of all.
LEMMA Induct ==
  ASSUME NEW S, 0 \in S, \A n \in Nat : n \in S => n + 1 \in S
  PROVE  \A n \in Nat : n \in S
<1> SUFFICES ASSUME Nat \ S # {} PROVE FALSE
  OBVIOUS
<1>1. PICK m \in Nat \ S : \A n \in Nat \ S : m <= n
  BY Least
<1>2. m # 0 /\ m - 1 \in Nat
  BY <1>1
<1>3. m - 1 \in S
  BY <1>1, <1>2
<1> QED
  BY <1>1, <1>2, <1>3

\* A set of numbers up to N has a greatest element, and Max is it.
LEMMA MaxUpTo ==
  ASSUME NEW N \in Nat, NEW T \in SUBSET (0 .. N), T # {}
  PROVE  Max(T) \in T /\ \A y \in T : Max(T) >= y
<1> DEFINE R == {N - y : y \in T}
<1>1. R \in SUBSET Nat /\ R # {}
  <2>1. \A y \in T : N - y \in Nat
    OBVIOUS
  <2> QED
    BY <2>1
<1>2. PICK m \in R : \A n \in R : m <= n
  BY <1>1, Least
<1>3. PICK x \in T : m = N - x
  BY <1>2
<1>4. ASSUME NEW y \in T PROVE x >= y
  <2>1. N - y \in R
    OBVIOUS
  <2>2. N - x <= N - y
    BY <1>2, <1>3, <2>1
  <2> QED
    BY <2>2
<1> QED
  BY <1>4 DEF Max

-----------------------------------------------------------------------------
(* What _trim_core adds up. *)

\* Sums exist: of numbers w there is a function of the sums of the first k.
LEMMA Sums ==
  ASSUME NEW N \in Nat, NEW w \in [1 .. N -> Nat]
  PROVE  \E g \in [0 .. N -> Nat] :
           g[0] = 0 /\ \A k \in 1 .. N : g[k] = g[k - 1] + w[k]
<1> DEFINE P(n) == n <= N =>
                     \E g \in [0 .. n -> Nat] :
                       g[0] = 0 /\ \A k \in 1 .. n : g[k] = g[k - 1] + w[k]
           S == {n \in Nat : P(n)}
<1>1. P(0)
  <2> DEFINE g == [k \in 0 .. 0 |-> 0]
  <2>1. g \in [0 .. 0 -> Nat] /\ g[0] = 0
    OBVIOUS
  <2>2. \A k \in 1 .. 0 : g[k] = g[k - 1] + w[k]
    OBVIOUS
  <2> QED
    BY <2>1, <2>2
<1>2. ASSUME NEW n \in Nat, P(n) PROVE P(n + 1)
  <2> SUFFICES ASSUME n + 1 <= N
               PROVE  \E g \in [0 .. n + 1 -> Nat] :
                        g[0] = 0 /\ \A k \in 1 .. n + 1 : g[k] = g[k - 1] + w[k]
    OBVIOUS
  <2>1. PICK g \in [0 .. n -> Nat] :
          g[0] = 0 /\ \A k \in 1 .. n : g[k] = g[k - 1] + w[k]
    BY <1>2
  <2> DEFINE h == [k \in 0 .. n + 1 |-> IF k <= n THEN g[k] ELSE g[n] + w[n + 1]]
  <2>2. h \in [0 .. n + 1 -> Nat]
    BY <2>1
  <2>3. ASSUME NEW k \in 1 .. n + 1 PROVE h[k] = h[k - 1] + w[k]
    BY <2>1
  <2>4. h[0] = 0
    BY <2>1
  <2> QED
    BY <2>2, <2>3, <2>4
<1> HIDE DEF P
<1>3. 0 \in S /\ \A n \in Nat : n \in S => n + 1 \in S
  BY <1>1, <1>2
<1> HIDE DEF S
<1>4. N \in S
  BY <1>3, Induct
<1>5. P(N)
  BY <1>4 DEF S
<1>6. N <= N
  OBVIOUS
<1> QED
  BY <1>5, <1>6, Zenon DEF P

\* Two functions agree at 0, and at each number where they agree before it.
KeepAgreeing(N, g, h) ==
  g[0] = h[0] /\ \A k \in 1 .. N : g[k - 1] = h[k - 1] => g[k] = h[k]

\* Such functions agree.
LEMMA SameUpTo ==
  ASSUME NEW N \in Nat, NEW g, NEW h, KeepAgreeing(N, g, h)
  PROVE  \A k \in 0 .. N : g[k] = h[k]
<1> USE DEF KeepAgreeing
<1> DEFINE S == {n \in Nat : n <= N => g[n] = h[n]}
<1>1. 0 \in S
  OBVIOUS
<1>2. ASSUME NEW n \in Nat, n \in S PROVE n + 1 \in S
  <2>1. CASE n + 1 <= N
    <3>1. n + 1 \in 1 .. N /\ (n + 1) - 1 = n /\ g[n] = h[n]
      BY <1>2, <2>1
    <3>2. g[n + 1] = h[n + 1]
      BY <3>1
    <3> QED
      BY <3>2
  <2>2. CASE ~(n + 1 <= N)
    BY <2>2
  <2> QED
    BY <2>1, <2>2
<1>3. \A n \in Nat : n \in S
  <2> HIDE DEF S
  <2> QED
    BY <1>1, <1>2, Induct
<1> QED
  BY <1>3

\* total, read from the newest fact back.
LEMMA NewestFacts ==
  ASSUME NEW s \in Seq(Facts)
  PROVE  /\ Newest(s) \in [0 .. Len(s) -> Nat]
         /\ Newest(s)[0] = 0
         /\ \A k \in 1 .. Len(s) :
              Newest(s)[k] = Newest(s)[k - 1] + s[Len(s) - k + 1].size
<1> DEFINE N == Len(s)
           w == [k \in 1 .. N |-> s[N - k + 1].size]
           D(f) == f = [k \in 0 .. N |->
                          IF k = 0 THEN 0 ELSE f[k - 1] + s[N - k + 1].size]
<1>1. N \in Nat /\ w \in [1 .. N -> Nat]
  <2>1. ASSUME NEW k \in 1 .. N PROVE s[N - k + 1].size \in Nat
    <3>1. N - k + 1 \in 1 .. N
      OBVIOUS
    <3>2. s[N - k + 1] \in Facts
      BY <3>1
    <3> QED
      BY <3>2, AgentAssumption DEF Facts
  <2> QED
    BY <2>1
<1>2. PICK g : /\ g \in [0 .. N -> Nat] /\ g[0] = 0
               /\ \A k \in 1 .. N : g[k] = g[k - 1] + w[k]
  <2>1. \E g \in [0 .. N -> Nat] :
          g[0] = 0 /\ \A k \in 1 .. N : g[k] = g[k - 1] + w[k]
    BY <1>1, Sums
  <2> QED
    BY <2>1
<1>3. D(g)
  BY <1>1, <1>2
<1>4. D(Newest(s))
  BY <1>3 DEF Newest
<1>5. ASSUME NEW k \in 1 .. N
      PROVE  Newest(s)[k] = Newest(s)[k - 1] + s[N - k + 1].size
  <2>1. k \in 0 .. N /\ k # 0
    BY <1>1
  <2> QED
    BY <1>4, <2>1
<1>6. \A k \in 0 .. N : Newest(s)[k] = g[k]
  <2>1. Newest(s)[0] = g[0]
    BY <1>1, <1>2, <1>4
  <2>2. ASSUME NEW k \in 1 .. N, Newest(s)[k - 1] = g[k - 1]
        PROVE  Newest(s)[k] = g[k]
    BY <1>1, <1>2, <1>5, <2>2
  <2>3. \A k \in 1 .. N : Newest(s)[k - 1] = g[k - 1] => Newest(s)[k] = g[k]
    BY <2>2
  <2>4. N \in Nat
    BY <1>1
  <2> DEFINE h == Newest(s)
  <2>5. KeepAgreeing(N, h, g)
    BY <2>1, <2>3 DEF KeepAgreeing
  <2> HIDE DEF N, h
  <2>6. \A k \in 0 .. N : h[k] = g[k]
    BY <2>4, <2>5, SameUpTo
  <2> QED
    BY <2>6 DEF h
<1>7. Newest(s) \in [0 .. N -> Nat]
  BY <1>2, <1>4, <1>6
<1> QED
  BY <1>1, <1>2, <1>5, <1>6, <1>7

\* The last k elements of a sequence.
LEMMA LastOfFacts ==
  ASSUME NEW S, NEW s \in Seq(S), NEW k \in Nat
  PROVE  /\ LastOf(s, k) \in Seq(S)
         /\ Len(LastOf(s, k)) = IF Len(s) <= k THEN Len(s) ELSE k
         /\ \A i \in 1 .. Len(LastOf(s, k)) :
              LastOf(s, k)[i] = s[Len(s) - Len(LastOf(s, k)) + i]
<1>1. CASE Len(s) <= k
  BY <1>1 DEF LastOf
<1>2. CASE ~(Len(s) <= k)
  <2>1. LastOf(s, k) = SubSeq(s, Len(s) - k + 1, Len(s))
    BY <1>2 DEF LastOf
  <2>2. \A i \in Len(s) - k + 1 .. Len(s) : s[i] \in S
    BY <1>2
  <2>3. LastOf(s, k) \in Seq(S) /\ Len(LastOf(s, k)) = k
    BY <1>2, <2>1, <2>2
  <2>4. ASSUME NEW i \in 1 .. k PROVE LastOf(s, k)[i] = s[Len(s) - k + i]
    BY <1>2, <2>1
  <2> QED
    BY <1>2, <2>3, <2>4
<1> QED
  BY <1>1, <1>2

\* Two sequences one after the other.
LEMMA ConcatLen ==
  ASSUME NEW S, NEW s \in Seq(S), NEW t \in Seq(S)
  PROVE  s \o t \in Seq(S) /\ Len(s \o t) = Len(s) + Len(t)
<1>1. s \o t \in Seq(S)
  OBVIOUS
<1>2. Len(s \o t) = Len(s) + Len(t)
  OBVIOUS
<1> QED
  BY <1>1, <1>2

\* Its first part is the first sequence,
LEMMA ConcatLeft ==
  ASSUME NEW S, NEW s \in Seq(S), NEW t \in Seq(S), NEW k \in 1 .. Len(s)
  PROVE  (s \o t)[k] = s[k]
OBVIOUS

\* and the rest the second.
LEMMA ConcatRight ==
  ASSUME NEW S, NEW s \in Seq(S), NEW t \in Seq(S), NEW k \in 1 .. Len(t)
  PROVE  (s \o t)[Len(s) + k] = t[k]
OBVIOUS

\* One more fact adds its length to every total.
LEMMA SizeAppend ==
  ASSUME NEW s \in Seq(Facts), NEW x \in Facts
  PROVE  Size(Append(s, x)) = Size(s) + x.size
<1> DEFINE t == Append(s, x)
           f == [k \in 0 .. Len(s) |-> Newest(t)[k + 1]]
           g == [k \in 0 .. Len(s) |-> Newest(s)[k] + x.size]
<1>1. t \in Seq(Facts) /\ Len(t) = Len(s) + 1 /\ Len(s) \in Nat
  OBVIOUS
<1>2. t[Len(t)] = x /\ \A i \in 1 .. Len(s) : t[i] = s[i]
  OBVIOUS
<1>3. x.size \in Nat
  BY AgentAssumption DEF Facts
<1>4. /\ Newest(t) \in [0 .. Len(t) -> Nat] /\ Newest(t)[0] = 0
      /\ \A k \in 1 .. Len(t) :
           Newest(t)[k] = Newest(t)[k - 1] + t[Len(t) - k + 1].size
  BY <1>1, NewestFacts
<1>5. /\ Newest(s) \in [0 .. Len(s) -> Nat] /\ Newest(s)[0] = 0
      /\ \A k \in 1 .. Len(s) :
           Newest(s)[k] = Newest(s)[k - 1] + s[Len(s) - k + 1].size
  BY NewestFacts
<1> HIDE DEF t
<1>6. f[0] = g[0]
  <2>1. 1 \in 1 .. Len(t) /\ Len(t) - 1 + 1 = Len(t) /\ 1 - 1 = 0
    BY <1>1
  <2>2. Newest(t)[1] = Newest(t)[0] + t[Len(t)].size
    BY <1>4, <2>1
  <2> QED
    BY <1>1, <1>2, <1>3, <1>4, <1>5, <2>2
<1>7. ASSUME NEW k \in 1 .. Len(s), f[k - 1] = g[k - 1] PROVE f[k] = g[k]
  <2>1. /\ k \in 0 .. Len(s) /\ k - 1 \in 0 .. Len(s) /\ k + 1 \in 1 .. Len(t)
        /\ (k + 1) - 1 = k /\ (k - 1) + 1 = k
        /\ Len(t) - (k + 1) + 1 = Len(s) - k + 1
        /\ Len(s) - k + 1 \in 1 .. Len(s)
    BY <1>1
  <2>2. f[k] = Newest(t)[k] + t[Len(s) - k + 1].size
    BY <1>4, <2>1
  <2>3. Newest(t)[k] = Newest(s)[k - 1] + x.size
    BY <1>7, <2>1
  <2>4. t[Len(s) - k + 1].size = s[Len(s) - k + 1].size
    BY <1>2, <2>1
  <2>5. Newest(s)[k] = Newest(s)[k - 1] + s[Len(s) - k + 1].size
    BY <1>5
  <2>6. Newest(s)[k - 1] \in Nat /\ s[Len(s) - k + 1].size \in Nat
    <3>1. s[Len(s) - k + 1] \in Facts
      BY <2>1
    <3> QED
      BY <1>5, <2>1, <3>1, AgentAssumption DEF Facts
  <2> QED
    BY <1>3, <2>1, <2>2, <2>3, <2>4, <2>5, <2>6
<1>8. \A k \in 0 .. Len(s) : f[k] = g[k]
  <2> HIDE DEF f, g
  <2>1. \A k \in 1 .. Len(s) : f[k - 1] = g[k - 1] => f[k] = g[k]
    BY <1>7
  <2>2. Len(s) \in Nat
    BY <1>1
  <2>3. KeepAgreeing(Len(s), f, g)
    BY <1>6, <2>1 DEF KeepAgreeing
  <2> QED
    BY <2>2, <2>3, SameUpTo
<1>9. Len(s) \in 0 .. Len(s)
  BY <1>1
<1>10. Newest(t)[Len(s) + 1] = Newest(s)[Len(s)] + x.size
  BY <1>8, <1>9
<1> QED
  BY <1>1, <1>10 DEF Size, t

\* The total of the last m facts is the same in the last m alone.
LEMMA SizeLast ==
  ASSUME NEW s \in Seq(Facts), NEW m \in Nat, m <= Len(s)
  PROVE  Size(LastOf(s, m)) = Newest(s)[m]
<1> DEFINE t == LastOf(s, m)
<1>1. /\ t \in Seq(Facts) /\ Len(t) = m /\ m \in Nat
      /\ \A i \in 1 .. m : t[i] = s[Len(s) - m + i]
  BY LastOfFacts
<1>2. /\ Newest(t) \in [0 .. m -> Nat] /\ Newest(t)[0] = 0
      /\ \A k \in 1 .. m : Newest(t)[k] = Newest(t)[k - 1] + t[m - k + 1].size
  BY <1>1, NewestFacts
<1>3. /\ Newest(s)[0] = 0
      /\ \A k \in 1 .. Len(s) :
           Newest(s)[k] = Newest(s)[k - 1] + s[Len(s) - k + 1].size
  BY NewestFacts
<1> HIDE DEF t
<1>4. \A k \in 1 .. m :
        Newest(t)[k - 1] = Newest(s)[k - 1] => Newest(t)[k] = Newest(s)[k]
  <2> TAKE k \in 1 .. m
  <2>1. /\ m - k + 1 \in 1 .. m /\ k \in 1 .. Len(s)
        /\ Len(s) - m + (m - k + 1) = Len(s) - k + 1
    OBVIOUS
  <2>2. t[m - k + 1] = s[Len(s) - k + 1]
    BY <1>1, <2>1
  <2> QED
    BY <1>2, <1>3, <2>1, <2>2
<1>5. Newest(t)[0] = Newest(s)[0]
  BY <1>2, <1>3
<1>6. \A k \in 0 .. m : Newest(t)[k] = Newest(s)[k]
  <2>1. KeepAgreeing(m, Newest(t), Newest(s))
    BY <1>4, <1>5 DEF KeepAgreeing
  <2> QED
    BY <2>1, SameUpTo
<1>7. Newest(t)[m] = Newest(s)[m]
  BY <1>6
<1> QED
  BY <1>1, <1>7 DEF Size, t

\* _trim_core keeps the newest facts, and one more would not fit.
LEMMA Trimmed ==
  ASSUME NEW s \in Seq(Facts)
  PROVE  \E m \in 0 .. Len(s) :
           /\ TrimmedCore(s) = LastOf(s, m)
           /\ m < Len(s) =>
                Size(TrimmedCore(s)) + s[Len(s) - m].size > CoreBudget
<1> DEFINE m == Max(Fitting(s))
<1>1. Len(s) \in Nat /\ CoreBudget \in Nat
  BY AgentAssumption
<1>2. /\ Newest(s) \in [0 .. Len(s) -> Nat] /\ Newest(s)[0] = 0
      /\ \A k \in 1 .. Len(s) :
           Newest(s)[k] = Newest(s)[k - 1] + s[Len(s) - k + 1].size
  BY NewestFacts
<1>3. Fitting(s) \in SUBSET (0 .. Len(s)) /\ Fitting(s) # {}
  <2>1. 0 \in Fitting(s)
    BY <1>1, <1>2 DEF Fitting
  <2> QED
    BY <2>1 DEF Fitting
<1>4. m \in Fitting(s) /\ \A y \in Fitting(s) : m >= y
  BY <1>1, <1>3, MaxUpTo
<1>5. m \in 0 .. Len(s)
  BY <1>3, <1>4
<1>6. TrimmedCore(s) = LastOf(s, m)
  BY DEF TrimmedCore
<1> HIDE DEF m
<1>7. ASSUME m < Len(s)
      PROVE  Size(LastOf(s, m)) + s[Len(s) - m].size > CoreBudget
  <2>1. m + 1 \in 0 .. Len(s) /\ m + 1 \in 1 .. Len(s) /\ ~(m >= m + 1)
    BY <1>1, <1>5, <1>7
  <2>2. m + 1 \notin Fitting(s)
    BY <1>4, <2>1
  <2>3. Newest(s)[m + 1] > CoreBudget
    BY <1>1, <1>2, <2>1, <2>2 DEF Fitting
  <2>4. (m + 1) - 1 = m /\ Len(s) - (m + 1) + 1 = Len(s) - m
    BY <1>1, <1>5
  <2>5. Newest(s)[m + 1] = Newest(s)[m] + s[Len(s) - m].size
    BY <1>2, <2>1, <2>4
  <2>6. m \in Nat /\ m <= Len(s)
    BY <1>1, <1>5
  <2>7. Size(LastOf(s, m)) = Newest(s)[m]
    BY <2>6, SizeLast
  <2> QED
    BY <2>3, <2>5, <2>7
<1> QED
  BY <1>5, <1>6, <1>7

-----------------------------------------------------------------------------
(* The core memory. *)

\* The facts of the core are the latest of all facts given to it, and the one
\* before them would not fit.
CoreInv ==
  /\ core \in Seq(Facts) /\ facts \in Seq(FactSizes)
  /\ Len(facts) <= MaxFacts /\ Len(core) <= Len(facts)
  /\ \A k \in 1 .. Len(core) :
       /\ core[k].n = Len(facts) - Len(core) + k
       /\ core[k].size = facts[Len(facts) - Len(core) + k]
  /\ Len(core) < Len(facts) =>
       Size(core) + facts[Len(facts) - Len(core)] > CoreBudget

\* A total is a number.
LEMMA SizeNat ==
  ASSUME NEW s \in Seq(Facts)
  PROVE  Size(s) \in Nat
BY NewestFacts DEF Size

\* Each fact that is added keeps it so.
LEMMA CoreStep ==
  ASSUME CoreInv, NEW size \in FactSizes, CoreAppend(size)
  PROVE  CoreInv'
<1> DEFINE x == [n |-> Len(facts) + 1, size |-> size]
           all == Append(core, x)
<1>1. /\ core \in Seq(Facts) /\ facts \in Seq(FactSizes)
      /\ Len(core) \in Nat /\ Len(facts) \in Nat /\ Len(facts) < MaxFacts
      /\ Len(core) <= Len(facts) /\ MaxFacts \in Nat /\ size \in Nat
      /\ CoreBudget \in Nat
  BY AgentAssumption DEF CoreInv, CoreAppend
<1>2. x \in Facts
  BY <1>1 DEF Facts
<1>3. /\ all \in Seq(Facts) /\ Len(all) = Len(core) + 1
      /\ all[Len(core) + 1] = x /\ \A k \in 1 .. Len(core) : all[k] = core[k]
  BY <1>1, <1>2
<1>4. /\ facts' = Append(facts, size) /\ core' = TrimmedCore(all)
  BY DEF CoreAppend
<1>5. /\ facts' \in Seq(FactSizes) /\ Len(facts') = Len(facts) + 1
      /\ facts'[Len(facts) + 1] = size
      /\ \A k \in 1 .. Len(facts) : facts'[k] = facts[k]
  BY <1>1, <1>4
<1>6. Size(all) = Size(core) + size /\ Size(core) \in Nat
  BY <1>1, <1>2, SizeAppend, SizeNat
<1>7. ASSUME NEW k \in 1 .. Len(all)
      PROVE  /\ all[k].n = Len(facts') - Len(all) + k
             /\ all[k].size = facts'[Len(facts') - Len(all) + k]
  <2>1. Len(facts') - Len(all) = Len(facts) - Len(core)
    BY <1>1, <1>3, <1>5
  <2>2. CASE k = Len(core) + 1
    <3>1. Len(facts') - Len(all) + k = Len(facts) + 1
      BY <1>1, <2>1, <2>2
    <3> QED
      BY <1>3, <1>5, <2>2, <3>1
  <2>3. CASE k # Len(core) + 1
    <3>1. k \in 1 .. Len(core)
      BY <1>1, <1>3, <2>3
    <3>2. Len(facts) - Len(core) + k \in 1 .. Len(facts)
      BY <1>1, <3>1
    <3> QED
      BY <1>3, <1>5, <2>1, <3>1, <3>2 DEF CoreInv
  <2> QED
    BY <2>2, <2>3
<1> HIDE DEF all, x
<1>8. PICK m \in 0 .. Len(all) :
        /\ core' = LastOf(all, m)
        /\ m < Len(all) => Size(core') + all[Len(all) - m].size > CoreBudget
  BY <1>3, <1>4, Trimmed
<1>9. /\ core' \in Seq(Facts) /\ Len(core') = m /\ m \in Nat
      /\ \A i \in 1 .. m : core'[i] = all[Len(all) - m + i]
  <2>1. all \in Seq(Facts) /\ m \in Nat /\ Len(all) \in Nat /\ m <= Len(all)
    BY <1>1, <1>3
  <2>2. /\ LastOf(all, m) \in Seq(Facts)
        /\ Len(LastOf(all, m)) = IF Len(all) <= m THEN Len(all) ELSE m
        /\ \A i \in 1 .. Len(LastOf(all, m)) :
             LastOf(all, m)[i] = all[Len(all) - Len(LastOf(all, m)) + i]
    BY <2>1, LastOfFacts
  <2>3. Len(LastOf(all, m)) = m
    BY <2>1, <2>2
  <2> QED
    BY <1>8, <2>1, <2>2, <2>3
<1>10. ASSUME NEW k \in 1 .. Len(core')
       PROVE  /\ core'[k].n = Len(facts') - Len(core') + k
              /\ core'[k].size = facts'[Len(facts') - Len(core') + k]
  <2>1. /\ Len(all) - m + k \in 1 .. Len(all)
        /\ Len(facts') - Len(all) + (Len(all) - m + k) = Len(facts') - m + k
    BY <1>1, <1>3, <1>5, <1>9
  <2> QED
    BY <1>7, <1>9, <2>1
<1>11. ASSUME Len(core') < Len(facts')
       PROVE  Size(core') + facts'[Len(facts') - Len(core')] > CoreBudget
  <2>1. CASE m < Len(all)
    <3>1. /\ Len(all) - m \in 1 .. Len(all)
          /\ Len(facts') - Len(all) + (Len(all) - m) = Len(facts') - m
      BY <1>1, <1>3, <1>5, <1>9, <2>1
    <3>2. all[Len(all) - m].size = facts'[Len(facts') - m]
      BY <1>7, <3>1
    <3> QED
      BY <1>8, <1>9, <2>1, <3>2
  <2>2. CASE ~(m < Len(all))
    <3>1. m = Len(all) /\ core' = all
      BY <1>3, <1>8, <2>2 DEF LastOf
    <3>2. /\ Len(core) < Len(facts)
          /\ Len(facts') - Len(core') = Len(facts) - Len(core)
          /\ Len(facts) - Len(core) \in 1 .. Len(facts)
      BY <1>1, <1>3, <1>5, <1>9, <1>11, <3>1
    <3>3. Size(core) + facts[Len(facts) - Len(core)] > CoreBudget
      BY <3>2 DEF CoreInv
    <3>4. facts[Len(facts) - Len(core)] \in Nat
      <4>1. facts[Len(facts) - Len(core)] \in FactSizes
        BY <1>1, <3>2
      <4> QED
        BY <4>1, AgentAssumption
    <3>5. facts'[Len(facts') - Len(core')] = facts[Len(facts) - Len(core)]
      BY <1>5, <3>2
    <3>6. Size(core') = Size(core) + size
      BY <1>6, <3>1
    <3> QED
      BY <1>1, <1>6, <3>3, <3>4, <3>5, <3>6
  <2> QED
    BY <2>1, <2>2
<1>12. Len(facts') <= MaxFacts /\ Len(core') <= Len(facts')
  BY <1>1, <1>3, <1>5, <1>9
<1> QED
  BY <1>5, <1>9, <1>10, <1>11, <1>12 DEF CoreInv

-----------------------------------------------------------------------------
(* The recall tier and the summary. *)

\* The recalled turns are the latest, those of the summary the latest before
\* them, and older ones are gone only if both are full.
MemInv ==
  /\ recall \in Seq(Turns) /\ summary \in Seq(Turns) /\ turns \in 0 .. MaxTurns
  /\ Len(recall) <= Window /\ Len(summary) + Len(recall) <= turns
  /\ \A k \in 1 .. Len(recall) : recall[k].n = turns - Len(recall) + k
  /\ \A k \in 1 .. Len(summary) :
       summary[k].n = turns - Len(recall) - Len(summary) + k
  /\ Len(summary) + Len(recall) < turns =>
       Len(summary) >= SummaryTurns /\ Len(recall) = Window

\* A turn more keeps it so.
LEMMA RecallStep ==
  ASSUME MemInv, NEW kind \in Kinds, RecallAppend(kind)
  PROVE  MemInv'
<1> DEFINE x == [kind |-> kind, n |-> turns + 1]
           all == Append(recall, x)
<1>1. /\ recall \in Seq(Turns) /\ summary \in Seq(Turns) /\ turns \in Nat
      /\ Len(recall) \in Nat /\ Len(summary) \in Nat /\ Window \in Nat \ {0}
      /\ SummaryTurns \in Nat \ {0} /\ MaxTurns \in Nat
      /\ turns < MaxTurns /\ Len(recall) <= Window
      /\ Len(summary) + Len(recall) <= turns
  BY AgentAssumption DEF MemInv, RecallAppend
<1>2. x \in Turns
  BY <1>1 DEF Turns
<1>3. /\ all \in Seq(Turns) /\ Len(all) = Len(recall) + 1
      /\ all[Len(recall) + 1] = x
      /\ \A k \in 1 .. Len(recall) : all[k] = recall[k]
  BY <1>1, <1>2
<1>4. ASSUME NEW k \in 1 .. Len(all) PROVE all[k].n = turns - Len(recall) + k
  <2>1. CASE k = Len(recall) + 1
    BY <1>1, <1>3, <2>1
  <2>2. CASE k # Len(recall) + 1
    BY <1>1, <1>3, <2>2 DEF MemInv
  <2> QED
    BY <2>1, <2>2
<1>5. /\ turns' = turns + 1 /\ recall' = LastOf(all, Window)
      /\ summary' = IF Len(all) > Window
                    THEN Rolled(summary, Overflow(all)) ELSE summary
  BY DEF RecallAppend
<1> HIDE DEF all, x
<1>6. /\ recall' \in Seq(Turns)
      /\ Len(recall') = IF Len(all) <= Window THEN Len(all) ELSE Window
      /\ \A i \in 1 .. Len(recall') : recall'[i] = all[Len(all) - Len(recall') + i]
  <2>1. all \in Seq(Turns) /\ Window \in Nat
    BY <1>1, <1>3
  <2>2. /\ LastOf(all, Window) \in Seq(Turns)
        /\ Len(LastOf(all, Window)) = IF Len(all) <= Window THEN Len(all)
                                     ELSE Window
        /\ \A i \in 1 .. Len(LastOf(all, Window)) :
             LastOf(all, Window)[i] = all[Len(all) - Len(LastOf(all, Window)) + i]
    BY <2>1, LastOfFacts
  <2> QED
    BY <1>5, <2>2
<1>7. ASSUME NEW k \in 1 .. Len(recall')
      PROVE  recall'[k].n = turns' - Len(recall') + k
  <2>1. /\ Len(all) \in Nat /\ Len(all) = Len(recall) + 1
        /\ Len(recall') \in Nat /\ Len(recall') <= Len(all)
    BY <1>1, <1>3, <1>6
  <2>2. Len(all) - Len(recall') + k \in 1 .. Len(all)
    BY <2>1
  <2>3. turns' = turns + 1
    BY <1>5
  <2>4. turns - Len(recall) + (Len(all) - Len(recall') + k) =
          turns' - Len(recall') + k
    BY <1>1, <2>1, <2>3
  <2>5. recall'[k] = all[Len(all) - Len(recall') + k]
    BY <1>6
  <2>6. all[Len(all) - Len(recall') + k].n =
          turns - Len(recall) + (Len(all) - Len(recall') + k)
    BY <1>4, <2>2
  <2> QED
    BY <2>4, <2>5, <2>6
<1>8. CASE Len(all) <= Window
  <2>1. summary' = summary /\ Len(recall') = Len(recall) + 1
    BY <1>1, <1>3, <1>5, <1>6, <1>8
  <2>2. turns' - Len(recall') = turns - Len(recall)
    <3>1. turns' = turns + 1
      BY <1>5
    <3> QED
      BY <1>1, <2>1, <3>1
  <2>3. Len(summary) + Len(recall) = turns
    <3>1. Len(recall) # Window
      BY <1>1, <1>3, <1>8
    <3>2. ~(Len(summary) + Len(recall) < turns)
      BY <3>1 DEF MemInv
    <3> QED
      BY <1>1, <3>2
  <2>4. ASSUME NEW k \in 1 .. Len(summary')
        PROVE  summary'[k].n = turns' - Len(recall') - Len(summary') + k
    BY <2>1, <2>2 DEF MemInv
  <2>5. /\ turns' = turns + 1 /\ turns' \in 0 .. MaxTurns
        /\ Len(summary') + Len(recall') = turns'
    <3>1. turns' = turns + 1
      BY <1>5
    <3> QED
      BY <1>1, <2>1, <2>3, <3>1
  <2>6. Len(recall') <= Window
    BY <1>6, <1>8
  <2>7. /\ ~(Len(summary') + Len(recall') < turns')
        /\ Len(summary') + Len(recall') <= turns'
    BY <1>1, <2>5
  <2>8. summary' \in Seq(Turns)
    BY <1>1, <2>1
  <2> QED
    BY <1>6, <1>7, <2>4, <2>5, <2>6, <2>7, <2>8 DEF MemInv
<1>9. CASE ~(Len(all) <= Window)
  <2> DEFINE c == Overflow(all)
             s == IF summary = << >> THEN c ELSE summary \o c
  <2>1. Len(recall) = Window /\ Len(all) = Window + 1 /\ Len(recall') = Window
    BY <1>1, <1>3, <1>6, <1>9
  <2>2. c \in Seq(Turns) /\ Len(c) = 1 /\ c[1] = all[1]
    <3>1. c = SubSeq(all, 1, 1)
      BY <1>1, <2>1 DEF Overflow
    <3>2. all[1] \in Turns
      BY <1>1, <1>3, <2>1
    <3> QED
      BY <3>1, <3>2
  <2>3. c[1].n = turns - Len(recall) + 1
    BY <1>1, <1>4, <2>1, <2>2
  <2> HIDE DEF c
  <2>4. /\ s \in Seq(Turns) /\ Len(s) = Len(summary) + 1
        /\ \A k \in 1 .. Len(summary) : s[k] = summary[k]
        /\ s[Len(summary) + 1] = c[1]
    <3>1. CASE summary = << >>
      BY <2>2, <3>1
    <3>2. CASE summary # << >>
      <4>1. s = summary \o c
        BY <3>2
      <4>2. summary \in Seq(Turns) /\ c \in Seq(Turns)
        BY <1>1, <2>2
      <4>3. /\ summary \o c \in Seq(Turns)
            /\ Len(summary \o c) = Len(summary) + Len(c)
        BY <4>2, ConcatLen
      <4>4. \A k \in 1 .. Len(summary) : (summary \o c)[k] = summary[k]
        BY <4>2, ConcatLeft
      <4>5. \A k \in 1 .. Len(c) : (summary \o c)[Len(summary) + k] = c[k]
        BY <4>2, ConcatRight
      <4>6. 1 \in 1 .. Len(c)
        BY <2>2
      <4> HIDE DEF s
      <4> QED
        BY <2>2, <4>1, <4>3, <4>4, <4>5, <4>6
    <3> QED
      BY <3>1, <3>2
  <2>5. ASSUME NEW k \in 1 .. Len(s)
        PROVE  s[k].n = turns' - Len(recall') - Len(s) + k
    <3>1. turns' - Len(recall') - Len(s) = turns - Len(recall) - Len(summary)
      <4>1. /\ turns' = turns + 1 /\ Len(s) = Len(summary) + 1
            /\ Len(recall') = Len(recall)
        BY <1>5, <2>1, <2>4
      <4> QED
        BY <1>1, <4>1
    <3>2. CASE k = Len(summary) + 1
      BY <1>1, <2>3, <2>4, <3>1, <3>2
    <3>3. CASE k # Len(summary) + 1
      BY <1>1, <2>4, <3>1, <3>3 DEF MemInv
    <3> QED
      BY <3>2, <3>3
  <2>6. /\ summary' \in Seq(Turns)
        /\ Len(summary') \in Nat /\ 1 <= Len(summary')
        /\ Len(summary') <= Len(s)
        /\ Len(summary') < Len(s) => Len(summary') = SummaryTurns
        /\ Len(summary) >= SummaryTurns => Len(summary') >= SummaryTurns
        /\ \A i \in 1 .. Len(summary') :
             summary'[i] = s[Len(s) - Len(summary') + i]
    <3>1. CASE summary = << >>
      <4>1. summary' = s /\ Len(summary) = 0
        BY <1>1, <1>3, <1>5, <1>9, <3>1 DEF Rolled, c
      <4> QED
        BY <1>1, <2>4, <4>1
    <3>2. CASE summary # << >>
      <4>1. summary' = LastOf(s, SummaryTurns)
        BY <1>1, <1>3, <1>5, <1>9, <3>2 DEF Rolled, c
      <4> HIDE DEF s
      <4>2. /\ summary' \in Seq(Turns)
            /\ Len(summary') = IF Len(s) <= SummaryTurns THEN Len(s)
                               ELSE SummaryTurns
            /\ \A i \in 1 .. Len(summary') :
                 summary'[i] = s[Len(s) - Len(summary') + i]
        <5>1. s \in Seq(Turns) /\ SummaryTurns \in Nat
          BY <1>1, <2>4
        <5>2. /\ LastOf(s, SummaryTurns) \in Seq(Turns)
              /\ Len(LastOf(s, SummaryTurns)) =
                   IF Len(s) <= SummaryTurns THEN Len(s) ELSE SummaryTurns
              /\ \A i \in 1 .. Len(LastOf(s, SummaryTurns)) :
                   LastOf(s, SummaryTurns)[i] =
                     s[Len(s) - Len(LastOf(s, SummaryTurns)) + i]
          BY <5>1, LastOfFacts
        <5> QED
          BY <4>1, <5>2
      <4>3. Len(s) = Len(summary) + 1 /\ Len(s) \in Nat
        BY <1>1, <2>4
      <4>4. Len(summary') = IF Len(s) <= SummaryTurns THEN Len(s)
                            ELSE SummaryTurns
        BY <4>2
      <4>5. /\ Len(summary') \in Nat /\ 1 <= Len(summary')
            /\ Len(summary') <= Len(s)
            /\ Len(summary') < Len(s) => Len(summary') = SummaryTurns
            /\ Len(summary) >= SummaryTurns => Len(summary') >= SummaryTurns
        BY <1>1, <4>3, <4>4
      <4> QED
        BY <4>2, <4>5
    <3> QED
      BY <3>1, <3>2
  <2> HIDE DEF s
  <2>7. ASSUME NEW k \in 1 .. Len(summary')
        PROVE  summary'[k].n = turns' - Len(recall') - Len(summary') + k
    <3>1. /\ Len(s) - Len(summary') + k \in 1 .. Len(s)
          /\ turns' - Len(recall') - Len(s) + (Len(s) - Len(summary') + k) =
               turns' - Len(recall') - Len(summary') + k
      BY <1>1, <1>5, <2>1, <2>4, <2>6
    <3> QED
      BY <2>5, <2>6, <3>1
  <2>8. Len(summary') + Len(recall') <= turns'
    BY <1>1, <1>5, <2>1, <2>4, <2>6
  <2>9. Len(summary') + Len(recall') < turns' =>
          Len(summary') >= SummaryTurns /\ Len(recall') = Window
    BY <1>1, <1>5, <2>1, <2>4, <2>6 DEF MemInv
  <2>10. turns' \in 0 .. MaxTurns
    <3>1. turns' = turns + 1
      BY <1>5
    <3> QED
      BY <1>1, <3>1
  <2>11. Len(recall') <= Window
    BY <1>1, <2>1
  <2>12. recall' \in Seq(Turns) /\ summary' \in Seq(Turns)
    BY <1>6, <2>6
  <2> QED
    BY <1>7, <2>7, <2>8, <2>9, <2>10, <2>11, <2>12 DEF MemInv
<1> QED
  BY <1>8, <1>9

-----------------------------------------------------------------------------
(* The reflections. *)

\* The reflections kept are the latest ones, up to the most that are kept.
ReflInv ==
  /\ reflections \in Seq(Nat) /\ reflected \in Nat
  /\ Len(reflections) <= MaxReflections /\ Len(reflections) <= reflected
  /\ \A k \in 1 .. Len(reflections) :
       reflections[k] = reflected - Len(reflections) + k

\* One more keeps it so.
LEMMA ReflStep ==
  ASSUME ReflInv, Reflect
  PROVE  ReflInv'
<1> DEFINE all == Append(reflections, reflected + 1)
<1>1. /\ reflections \in Seq(Nat) /\ reflected \in Nat
      /\ Len(reflections) \in Nat /\ Len(reflections) <= reflected
      /\ MaxReflections \in Nat
  BY AgentAssumption DEF ReflInv
<1>2. /\ all \in Seq(Nat) /\ Len(all) = Len(reflections) + 1
      /\ all[Len(reflections) + 1] = reflected + 1
      /\ \A k \in 1 .. Len(reflections) : all[k] = reflections[k]
  BY <1>1
<1>3. ASSUME NEW k \in 1 .. Len(all)
      PROVE  all[k] = reflected - Len(reflections) + k
  <2>1. CASE k = Len(reflections) + 1
    BY <1>1, <1>2, <2>1
  <2>2. CASE k # Len(reflections) + 1
    BY <1>1, <1>2, <2>2 DEF ReflInv
  <2> QED
    BY <2>1, <2>2
<1>4. reflected' = reflected + 1 /\ reflections' = LastOf(all, MaxReflections)
  BY DEF Reflect, KeptReflections
<1> HIDE DEF all
<1>5. /\ reflections' \in Seq(Nat)
      /\ Len(reflections') = IF Len(all) <= MaxReflections THEN Len(all)
                             ELSE MaxReflections
      /\ \A i \in 1 .. Len(reflections') :
           reflections'[i] = all[Len(all) - Len(reflections') + i]
  <2>1. all \in Seq(Nat) /\ MaxReflections \in Nat
    BY <1>1, <1>2
  <2>2. /\ LastOf(all, MaxReflections) \in Seq(Nat)
        /\ Len(LastOf(all, MaxReflections)) =
             IF Len(all) <= MaxReflections THEN Len(all) ELSE MaxReflections
        /\ \A i \in 1 .. Len(LastOf(all, MaxReflections)) :
             LastOf(all, MaxReflections)[i] =
               all[Len(all) - Len(LastOf(all, MaxReflections)) + i]
    BY <2>1, LastOfFacts
  <2> QED
    BY <1>4, <2>2
<1>6. /\ Len(reflections') \in Nat /\ Len(reflections') <= Len(all)
      /\ Len(reflections') <= MaxReflections /\ Len(all) <= reflected + 1
      /\ Len(all) \in Nat
  BY <1>1, <1>2, <1>5
<1>7. ASSUME NEW k \in 1 .. Len(reflections')
      PROVE  reflections'[k] = reflected' - Len(reflections') + k
  <2>1. /\ Len(all) - Len(reflections') + k \in 1 .. Len(all)
        /\ reflected - Len(reflections) + (Len(all) - Len(reflections') + k) =
             reflected + 1 - Len(reflections') + k
    BY <1>1, <1>2, <1>6
  <2>2. reflections'[k] = all[Len(all) - Len(reflections') + k]
    BY <1>5
  <2>3. all[Len(all) - Len(reflections') + k] =
          reflected - Len(reflections) + (Len(all) - Len(reflections') + k)
    BY <1>3, <2>1
  <2>4. reflected' = reflected + 1
    BY <1>4
  <2>5. reflected' - Len(reflections') + k =
          reflected + 1 - Len(reflections') + k
    BY <1>1, <1>6, <2>4
  <2>6. all[Len(all) - Len(reflections') + k] =
          reflected + 1 - Len(reflections') + k
    BY <2>1, <2>3
  <2> QED
    BY <2>2, <2>5, <2>6
<1>8. reflected' \in Nat /\ Len(reflections') <= reflected'
  BY <1>1, <1>4, <1>6
<1> QED
  BY <1>5, <1>6, <1>7, <1>8 DEF ReflInv

-----------------------------------------------------------------------------
(* The run: its messages, steps and calls. *)

\* What a message list and the counters of a run can be, at each place of run.
RunInv ==
  /\ pc \in {"idle", "chat", "dispatch", "synthesize", "reflect", "archive",
             "structured"}
  /\ messages \in Seq(Messages)
  /\ step \in 0 .. MaxToolSteps /\ pending \in 0 .. MaxCalls
  /\ pc = "chat" => step < MaxToolSteps
  /\ pc = "dispatch" => pending >= 1

\* The last message of the user in a list, its requests for tools, and whether
\* one is answered, or is being answered with p calls still to be made.
LastUserIn(ms) == SelectLastInSeq(ms, LAMBDA m : m.kind = "user")
RequestsIn(ms) == {k \in 1 .. Len(ms) : k > LastUserIn(ms) /\ ms[k].kind = "call"}
Closed(ms, k) ==
  /\ k + ms[k].calls <= Len(ms)
  /\ \A j \in 1 .. ms[k].calls : ms[k + j].kind = "tool"
  /\ k + ms[k].calls < Len(ms) => ms[k + ms[k].calls + 1].kind # "tool"
Open(ms, k, p) ==
  /\ k + ms[k].calls = Len(ms) + p
  /\ \A j \in 1 .. Len(ms) : j > k => ms[j].kind = "tool"

\* While tools are called the last request is being answered, and every other
\* one is answered and has something after its answers.
CallsInv ==
  /\ pc \in {"chat", "synthesize"} =>
       \A k \in RequestsIn(messages) : Closed(messages, k)
  /\ pc = "dispatch" =>
       \A k \in RequestsIn(messages) :
         \/ Closed(messages, k) /\ k + messages[k].calls < Len(messages)
         \/ Open(messages, k, pending)

\* What LastUserIn finds.
LEMMA LastUserFacts ==
  ASSUME NEW ms \in Seq(Messages)
  PROVE  /\ LastUserIn(ms) \in 0 .. Len(ms)
         /\ LastUserIn(ms) # 0 => ms[LastUserIn(ms)].kind = "user"
         /\ \A j \in 1 .. Len(ms) : ms[j].kind = "user" => j <= LastUserIn(ms)
<1> DEFINE I == {j \in 1 .. Len(ms) : ms[j].kind = "user"}
<1>1. LastUserIn(ms) = IF I # {} THEN Max(I) ELSE 0
  BY DEF LastUserIn, SelectLastInSeq
<1>2. Len(ms) \in Nat
  OBVIOUS
<1>3. I \in SUBSET (0 .. Len(ms))
  BY <1>2
<1>4. I # {} => Max(I) \in I /\ \A y \in I : Max(I) >= y
  <2> HIDE DEF I
  <2> QED
    BY <1>2, <1>3, MaxUpTo
<1>5. CASE I = {}
  BY <1>1, <1>2, <1>5
<1>6. CASE I # {}
  <2>1. LastUserIn(ms) \in I /\ \A y \in I : LastUserIn(ms) >= y
    BY <1>1, <1>4, <1>6
  <2> QED
    BY <1>2, <2>1
<1> QED
  BY <1>5, <1>6

\* A message of another kind does not move it,
LEMMA LastUserKept ==
  ASSUME NEW ms \in Seq(Messages), NEW m \in Messages, m.kind # "user"
  PROVE  LastUserIn(Append(ms, m)) = LastUserIn(ms)
<1> DEFINE t == Append(ms, m)
<1>1. /\ t \in Seq(Messages) /\ Len(t) = Len(ms) + 1 /\ Len(ms) \in Nat
      /\ t[Len(ms) + 1] = m /\ \A k \in 1 .. Len(ms) : t[k] = ms[k]
  OBVIOUS
<1> HIDE DEF t
<1>2. /\ LastUserIn(t) \in 0 .. Len(t)
      /\ LastUserIn(t) # 0 => t[LastUserIn(t)].kind = "user"
      /\ \A j \in 1 .. Len(t) : t[j].kind = "user" => j <= LastUserIn(t)
  BY <1>1, LastUserFacts
<1>3. /\ LastUserIn(ms) \in 0 .. Len(ms)
      /\ LastUserIn(ms) # 0 => ms[LastUserIn(ms)].kind = "user"
      /\ \A j \in 1 .. Len(ms) : ms[j].kind = "user" => j <= LastUserIn(ms)
  BY LastUserFacts
<1>4. LastUserIn(t) # Len(ms) + 1
  BY <1>1, <1>2
<1>5. LastUserIn(t) \in 0 .. Len(ms)
  BY <1>1, <1>2, <1>4
<1>6. LastUserIn(t) <= LastUserIn(ms)
  <2>1. CASE LastUserIn(t) = 0
    BY <1>3, <2>1
  <2>2. CASE LastUserIn(t) # 0
    <3>1. LastUserIn(t) \in 1 .. Len(ms)
      BY <1>1, <1>5, <2>2
    <3> QED
      BY <1>1, <1>2, <1>3, <2>2, <3>1
  <2> QED
    BY <2>1, <2>2
<1>7. LastUserIn(ms) <= LastUserIn(t)
  <2>1. CASE LastUserIn(ms) = 0
    BY <1>5, <2>1
  <2>2. CASE LastUserIn(ms) # 0
    <3>1. LastUserIn(ms) \in 1 .. Len(ms) /\ LastUserIn(ms) \in 1 .. Len(t)
      BY <1>1, <1>3, <2>2
    <3> QED
      BY <1>1, <1>2, <1>3, <2>2, <3>1
  <2> QED
    BY <2>1, <2>2
<1> QED
  BY <1>1, <1>3, <1>5, <1>6, <1>7 DEF t

\* and after one of the user nothing has been asked yet.
LEMMA NothingAsked ==
  ASSUME NEW ms \in Seq(Messages), Len(ms) # 0, ms[Len(ms)].kind = "user"
  PROVE  RequestsIn(ms) = {}
<1>1. Len(ms) \in 1 .. Len(ms) /\ Len(ms) \in Nat
  OBVIOUS
<1>2. LastUserIn(ms) \in 0 .. Len(ms) /\ Len(ms) <= LastUserIn(ms)
  BY <1>1, LastUserFacts
<1> QED
  BY <1>1, <1>2 DEF RequestsIn

\* A list of messages is one, and the last of them the user's task.
LEMMA BuiltMessages ==
  ASSUME MemInv, BuildInitialMessages
  PROVE  /\ messages' \in Seq(Messages) /\ Len(messages') # 0
         /\ messages'[Len(messages')].kind = "user"
<1> DEFINE old == [k \in 1 .. Len(recall) |-> Message(recall[k].kind)]
           sum == IF summary = << >> THEN << >> ELSE <<Message("summary")>>
           head == <<Message("system")>>
           last == <<Message("user")>>
<1>1. MaxCalls \in Nat /\ recall \in Seq(Turns)
  BY AgentAssumption DEF MemInv
<1>2. /\ \A kind \in Kinds : Message(kind) \in Messages
      /\ Message("system") \in Messages /\ Message("summary") \in Messages
      /\ Message("user") \in Messages /\ Message("user").kind = "user"
  BY <1>1 DEF Message, Messages, MessageKinds, Kinds
<1>3. old \in Seq(Messages)
  <2>1. ASSUME NEW k \in 1 .. Len(recall)
        PROVE  Message(recall[k].kind) \in Messages
    <3>1. recall[k] \in Turns
      BY <1>1
    <3>2. recall[k].kind \in Kinds
      BY <3>1 DEF Turns
    <3> QED
      BY <1>2, <3>2
  <2>2. Len(recall) \in Nat
    BY <1>1
  <2>3. old \in [1 .. Len(recall) -> Messages]
    BY <2>1
  <2> QED
    BY <2>2, <2>3
<1>4. sum \in Seq(Messages) /\ head \in Seq(Messages)
  BY <1>2
<1>5. last \in Seq(Messages) /\ Len(last) = 1 /\ last[1].kind = "user"
  BY <1>2
<1>6. messages' = (head \o (sum \o old)) \o last
  BY DEF BuildInitialMessages, RecallMessages
<1> HIDE DEF old, sum, head, last
<1>7. sum \o old \in Seq(Messages)
  BY <1>3, <1>4, ConcatLen
<1>8. head \o (sum \o old) \in Seq(Messages)
  BY <1>4, <1>7, ConcatLen
<1> DEFINE all == head \o (sum \o old)
<1>9. all \in Seq(Messages)
  BY <1>8
<1> HIDE DEF all
<1>10. all \o last \in Seq(Messages) /\ Len(all \o last) = Len(all) + Len(last)
  BY <1>5, <1>9, ConcatLen
<1>11. \A k \in 1 .. Len(last) : (all \o last)[Len(all) + k] = last[k]
  BY <1>5, <1>9, ConcatRight
<1>12. 1 \in 1 .. Len(last)
  BY <1>5
<1>13. (all \o last)[Len(all) + 1] = last[1]
  BY <1>11, <1>12
<1>14. messages' = all \o last
  BY <1>6 DEF all
<1>15. Len(all) \in Nat /\ Len(messages') = Len(all) + 1
  BY <1>5, <1>9, <1>10, <1>14
<1> QED
  BY <1>5, <1>10, <1>13, <1>14, <1>15

\* A start empties the requests, and leaves the run as it should be.
LEMMA StartStep ==
  ASSUME MemInv, RunInv, Starts
  PROVE  RunInv' /\ CallsInv'
<1>1. BuildInitialMessages
  BY DEF Starts, StartRun, StartReflect, StartStructured
<1>2. /\ messages' \in Seq(Messages) /\ Len(messages') # 0
      /\ messages'[Len(messages')].kind = "user"
  BY <1>1, BuiltMessages
<1>3. RequestsIn(messages') = {}
  BY <1>2, NothingAsked
<1>4. /\ pc' \in {"chat", "reflect", "structured"} /\ pending' = pending
      /\ step' = 0 \/ (step' = step /\ pc' # "chat")
  BY DEF Starts, StartRun, StartReflect, StartStructured
<1>5. RunInv'
  <2>1. MaxToolSteps \in Nat \ {0}
    BY AgentAssumption
  <2> QED
    BY <1>2, <1>4, <2>1 DEF RunInv
<1>6. CallsInv'
  BY <1>3, <1>4 DEF CallsInv
<1> QED
  BY <1>5, <1>6

\* What a message after a list does to a request that is answered there.
LEMMA ClosedKept ==
  ASSUME NEW ms \in Seq(Messages), NEW m \in Messages, NEW k \in 1 .. Len(ms),
         Closed(ms, k), k + ms[k].calls < Len(ms) \/ m.kind # "tool"
  PROVE  /\ Closed(Append(ms, m), k)
         /\ k + Append(ms, m)[k].calls < Len(Append(ms, m))
<1> DEFINE t == Append(ms, m)
           c == ms[k].calls
<1>1. /\ t \in Seq(Messages) /\ Len(t) = Len(ms) + 1 /\ Len(ms) \in Nat
      /\ t[Len(ms) + 1] = m /\ \A j \in 1 .. Len(ms) : t[j] = ms[j]
  OBVIOUS
<1>2. t[k] = ms[k] /\ t[k].calls = c
  BY <1>1
<1>3. c \in Nat
  <2>1. ms[k] \in Messages /\ MaxCalls \in Nat
    BY AgentAssumption
  <2> QED
    BY <2>1 DEF Messages
<1>4. /\ k + c <= Len(ms)
      /\ \A j \in 1 .. c : ms[k + j].kind = "tool"
      /\ k + c < Len(ms) => ms[k + c + 1].kind # "tool"
  BY DEF Closed
<1> HIDE DEF t, c
<1>5. \A j \in 1 .. c : t[k + j].kind = "tool"
  <2> TAKE j \in 1 .. c
  <2>1. k + j \in 1 .. Len(ms)
    BY <1>1, <1>3, <1>4
  <2> QED
    BY <1>1, <1>4, <2>1
<1>6. k + c < Len(t)
  BY <1>1, <1>3, <1>4
<1>7. t[k + c + 1].kind # "tool"
  <2>1. CASE k + c < Len(ms)
    <3>1. k + c + 1 \in 1 .. Len(ms)
      BY <1>1, <1>3, <2>1
    <3> QED
      BY <1>1, <1>4, <2>1, <3>1
  <2>2. CASE ~(k + c < Len(ms))
    <3>1. k + c + 1 = Len(ms) + 1
      BY <1>1, <1>3, <1>4, <2>2
    <3>2. m.kind # "tool"
      BY <2>2 DEF c
    <3> QED
      BY <1>1, <3>1, <3>2
  <2> QED
    BY <2>1, <2>2
<1>8. Closed(t, k)
  BY <1>1, <1>2, <1>5, <1>6, <1>7, <1>3 DEF Closed
<1> QED
  BY <1>2, <1>6, <1>8 DEF t, c

\* Only a request itself is a request more.
LEMMA RequestsKept ==
  ASSUME NEW ms \in Seq(Messages), NEW m \in Messages, m.kind # "user",
         NEW k \in RequestsIn(Append(ms, m))
  PROVE  \/ k \in RequestsIn(ms) /\ Append(ms, m)[k] = ms[k]
         \/ k = Len(ms) + 1 /\ m.kind = "call"
<1> DEFINE t == Append(ms, m)
<1>1. /\ Len(t) = Len(ms) + 1 /\ Len(ms) \in Nat
      /\ t[Len(ms) + 1] = m /\ \A j \in 1 .. Len(ms) : t[j] = ms[j]
  OBVIOUS
<1>2. LastUserIn(t) = LastUserIn(ms)
  BY LastUserKept
<1>3. k \in 1 .. Len(t) /\ k > LastUserIn(t) /\ t[k].kind = "call"
  BY DEF RequestsIn
<1> HIDE DEF t
<1>4. CASE k = Len(ms) + 1
  BY <1>1, <1>3, <1>4
<1>5. CASE k # Len(ms) + 1
  <2>1. k \in 1 .. Len(ms)
    BY <1>1, <1>3, <1>5
  <2>2. t[k] = ms[k] /\ k > LastUserIn(ms) /\ ms[k].kind = "call"
    BY <1>1, <1>2, <1>3, <2>1
  <2>3. k \in RequestsIn(ms)
    BY <2>1, <2>2 DEF RequestsIn
  <2> QED
    BY <2>2, <2>3 DEF t
<1> QED
  BY <1>4, <1>5

\* An answer that asks for tools opens one request.
LEMMA AskStep ==
  ASSUME RunInv, CallsInv, NEW n \in 1 .. MaxCalls, ChatCallsTools(n)
  PROVE  RunInv' /\ CallsInv'
<1> DEFINE m == [kind |-> "call", calls |-> n]
<1>1. /\ pc = "chat" /\ pc' = "dispatch" /\ pending' = n /\ step' = step + 1
      /\ messages' = Append(messages, m)
  BY DEF ChatCallsTools
<1>2. /\ messages \in Seq(Messages) /\ MaxCalls \in Nat /\ n \in Nat /\ n >= 1
      /\ step \in 0 .. MaxToolSteps /\ step < MaxToolSteps
      /\ MaxToolSteps \in Nat
  BY <1>1, AgentAssumption DEF RunInv
<1>3. m \in Messages /\ m.kind = "call" /\ m.calls = n
  BY <1>2 DEF Messages, MessageKinds
<1> HIDE DEF m
<1>4. /\ Len(messages') = Len(messages) + 1 /\ Len(messages) \in Nat
      /\ messages'[Len(messages) + 1] = m /\ messages' \in Seq(Messages)
  BY <1>1, <1>2, <1>3
<1>5. RunInv'
  BY <1>1, <1>2, <1>4 DEF RunInv
<1>6. ASSUME NEW k \in RequestsIn(messages')
      PROVE  \/ /\ Closed(messages', k)
                /\ k + messages'[k].calls < Len(messages')
             \/ Open(messages', k, n)
  <2>1. \/ k \in RequestsIn(messages) /\ messages'[k] = messages[k]
        \/ k = Len(messages) + 1
    BY <1>1, <1>2, <1>3, RequestsKept
  <2>2. CASE k \in RequestsIn(messages)
    <3>1. k \in 1 .. Len(messages) /\ Closed(messages, k)
      BY <1>1, <2>2 DEF CallsInv, RequestsIn
    <3>2. m.kind # "tool"
      BY <1>3
    <3>3. /\ Closed(Append(messages, m), k)
          /\ k + Append(messages, m)[k].calls < Len(Append(messages, m))
      BY <1>2, <1>3, <3>1, <3>2, ClosedKept
    <3> QED
      BY <1>1, <3>3
  <2>3. CASE k = Len(messages) + 1
    <3>1. k + messages'[k].calls = Len(messages') + n
      BY <1>2, <1>3, <1>4, <2>3
    <3>2. \A j \in 1 .. Len(messages') : ~(j > k)
      BY <1>4, <2>3
    <3> QED
      BY <3>1, <3>2 DEF Open
  <2> QED
    BY <2>1, <2>2, <2>3
<1>7. CallsInv'
  BY <1>1, <1>6 DEF CallsInv
<1> QED
  BY <1>5, <1>7

\* A tool result answers the next call of the open request, the last one
\* closing it.
LEMMA DispatchStep ==
  ASSUME RunInv, CallsInv, Dispatch
  PROVE  RunInv' /\ CallsInv'
<1> DEFINE m == Message("tool")
<1>1. /\ pc = "dispatch" /\ pending' = pending - 1 /\ step' = step
      /\ messages' = Append(messages, m)
      /\ pc' = IF pending > 1 THEN "dispatch"
               ELSE IF step = MaxToolSteps THEN "synthesize" ELSE "chat"
  BY DEF Dispatch, MoreCalls, BudgetSpent
<1>2. /\ messages \in Seq(Messages) /\ MaxCalls \in Nat
      /\ pending \in 1 .. MaxCalls /\ step \in 0 .. MaxToolSteps
      /\ MaxToolSteps \in Nat
  BY <1>1, AgentAssumption DEF RunInv
<1>3. m \in Messages /\ m.kind = "tool"
  BY <1>2 DEF Message, Messages, MessageKinds, Kinds
<1> HIDE DEF m
<1>4. /\ messages' \in Seq(Messages) /\ Len(messages') = Len(messages) + 1
      /\ Len(messages) \in Nat /\ messages'[Len(messages) + 1] = m
      /\ \A j \in 1 .. Len(messages) : messages'[j] = messages[j]
  BY <1>1, <1>2, <1>3
<1>5. RunInv'
  BY <1>1, <1>2, <1>4 DEF RunInv
<1>6. ASSUME NEW k \in RequestsIn(messages')
      PROVE  \/ /\ Closed(messages', k)
                /\ k + messages'[k].calls < Len(messages')
             \/ Open(messages', k, pending - 1)
  <2>1. k \in RequestsIn(messages) /\ messages'[k] = messages[k]
    BY <1>1, <1>2, <1>3, RequestsKept
  <2>2. k \in 1 .. Len(messages)
    BY <2>1 DEF RequestsIn
  <2>3. CASE Closed(messages, k) /\ k + messages[k].calls < Len(messages)
    <3>1. /\ Closed(Append(messages, m), k)
          /\ k + Append(messages, m)[k].calls < Len(Append(messages, m))
      BY <1>2, <1>3, <2>2, <2>3, ClosedKept
    <3> QED
      BY <1>1, <3>1
  <2>4. CASE Open(messages, k, pending)
    <3>1. messages[k].calls \in Nat
      <4>1. messages[k] \in Messages
        BY <1>2, <2>2
      <4> QED
        BY <1>2, <4>1 DEF Messages
    <3>2. k + messages'[k].calls = Len(messages') + (pending - 1)
      BY <1>2, <1>4, <2>1, <2>2, <2>4, <3>1 DEF Open
    <3>3. \A j \in 1 .. Len(messages') : j > k => messages'[j].kind = "tool"
      <4> TAKE j \in 1 .. Len(messages')
      <4>1. CASE j = Len(messages) + 1
        BY <1>3, <1>4, <4>1
      <4>2. CASE j # Len(messages) + 1
        <5>1. j \in 1 .. Len(messages)
          BY <1>4, <4>2
        <5> QED
          BY <1>4, <2>4, <5>1 DEF Open
      <4> QED
        BY <4>1, <4>2
    <3> QED
      BY <3>2, <3>3 DEF Open
  <2> QED
    BY <1>1, <2>1, <2>3, <2>4 DEF CallsInv
<1>7. ASSUME pending = 1, NEW k \in RequestsIn(messages')
      PROVE  Closed(messages', k)
  <2>1. CASE Closed(messages', k)
    BY <2>1
  <2>2. CASE Open(messages', k, pending - 1)
    <3>1. k \in 1 .. Len(messages') /\ messages'[k] \in Messages
      BY <1>4 DEF RequestsIn
    <3>2. messages'[k].calls \in Nat
      BY <1>2, <3>1 DEF Messages
    <3>3. k + messages'[k].calls = Len(messages') /\ Len(messages') \in Nat
      BY <1>4, <1>7, <2>2 DEF Open
    <3>4. \A j \in 1 .. messages'[k].calls : messages'[k + j].kind = "tool"
      <4> TAKE j \in 1 .. messages'[k].calls
      <4>1. k + j \in 1 .. Len(messages') /\ k + j > k
        BY <3>1, <3>2, <3>3
      <4> QED
        BY <2>2, <4>1 DEF Open
    <3> QED
      BY <3>2, <3>3, <3>4 DEF Closed
  <2> QED
    BY <1>6, <2>1, <2>2
<1>8. CallsInv'
  <2>1. CASE pending > 1
    <3>1. pc' = "dispatch" /\ pending' = pending - 1
      BY <1>1, <2>1
    <3> QED
      BY <1>6, <3>1 DEF CallsInv
  <2>2. CASE ~(pending > 1)
    <3>1. pending = 1 /\ pc' # "dispatch"
      BY <1>1, <1>2, <2>2
    <3> QED
      BY <1>7, <3>1 DEF CallsInv
  <2> QED
    BY <2>1, <2>2
<1> QED
  BY <1>5, <1>8

\* The other steps end what the agent does.
LEMMA EndStep ==
  ASSUME RunInv,
         \/ ChatAnswers \/ Synthesize \/ Raises
         \/ Reflect \/ Archived \/ Structured
  PROVE  RunInv' /\ CallsInv'
<1>1. /\ messages \in Seq(Messages) /\ MaxCalls \in Nat /\ MaxToolSteps \in Nat
      /\ step \in 0 .. MaxToolSteps /\ pending \in 0 .. MaxCalls
  BY AgentAssumption DEF RunInv
<1>2. /\ \A kind \in MessageKinds : Message(kind) \in Messages
      /\ "assistant" \in MessageKinds /\ "system" \in MessageKinds
  BY <1>1 DEF Message, Messages, MessageKinds, Kinds
<1>3. pc' \in {"idle", "archive"} /\ pending' = pending
  BY DEF ChatAnswers, Synthesize, Raises, Reflect, Archived, Structured
<1>4. \/ messages' = messages
      \/ messages' = Append(messages, Message("assistant"))
      \/ messages' = Append(messages, Message("system"))
  BY DEF ChatAnswers, Synthesize, Raises, Reflect, Archived, Structured
<1>5. messages' \in Seq(Messages)
  <2>1. Message("assistant") \in Messages /\ Message("system") \in Messages
    BY <1>2
  <2> QED
    BY <1>1, <1>4, <2>1
<1>6. step' \in 0 .. MaxToolSteps
  BY <1>1 DEF ChatAnswers, Synthesize, Raises, Reflect, Archived, Structured,
              RunInv
<1> QED
  BY <1>1, <1>3, <1>5, <1>6 DEF RunInv, CallsInv

-----------------------------------------------------------------------------
(* The inductive invariant, and what follows from it. *)

AgentInv == CoreInv /\ MemInv /\ ReflInv /\ RunInv /\ CallsInv

\* It holds at the start,
LEMMA AgentInit ==
  ASSUME Init
  PROVE  AgentInv
<1>1. core = << >> /\ facts = << >> /\ recall = << >> /\ summary = << >>
  BY DEF Init
<1>2. turns = 0 /\ messages = << >> /\ reflections = << >> /\ reflected = 0
  BY DEF Init
<1>3. CoreInv
  BY <1>1, AgentAssumption DEF CoreInv
<1>4. MemInv
  BY <1>1, <1>2, AgentAssumption DEF MemInv
<1>5. ReflInv
  BY <1>2, AgentAssumption DEF ReflInv
<1>6. RunInv
  BY <1>2, AgentAssumption DEF RunInv, Init
<1>7. CallsInv
  BY DEF CallsInv, Init
<1> QED
  BY <1>3, <1>4, <1>5, <1>6, <1>7 DEF AgentInv

\* and every step keeps it.
LEMMA AgentStep ==
  ASSUME AgentInv, [Next]_vars
  PROVE  AgentInv'
<1> USE DEF AgentInv
<1>1. ASSUME NEW size \in FactSizes, CoreAppend(size) PROVE AgentInv'
  <2>1. CoreInv'
    BY <1>1, CoreStep
  <2>2. UNCHANGED <<pc, memVars, messages, step, pending, reflections, reflected>>
    BY <1>1 DEF CoreAppend
  <2>3. MemInv'
    BY <2>2 DEF MemInv, memVars
  <2>4. ReflInv' /\ RunInv'
    BY <2>2 DEF ReflInv, RunInv
  <2>5. CallsInv'
    BY <2>2 DEF CallsInv
  <2> QED
    BY <2>1, <2>3, <2>4, <2>5
<1>2. ASSUME Starts, UNCHANGED coreVars PROVE AgentInv'
  <2>1. CoreInv'
    BY <1>2 DEF CoreInv, coreVars
  <2>2. RecallAppend("user") /\ UNCHANGED <<reflections, reflected>>
    BY <1>2 DEF Starts, StartRun, StartReflect, StartStructured,
                BuildInitialMessages
  <2>3. MemInv'
    <3>1. "user" \in Kinds
      BY DEF Kinds
    <3> QED
      BY <2>2, <3>1, RecallStep
  <2>4. ReflInv'
    BY <2>2 DEF ReflInv
  <2>5. RunInv' /\ CallsInv'
    BY <1>2, StartStep
  <2> QED
    BY <2>1, <2>3, <2>4, <2>5
<1>3. ASSUME Steps, UNCHANGED coreVars PROVE AgentInv'
  <2>1. CoreInv'
    BY <1>3 DEF CoreInv, coreVars
  <2>2. MemInv'
    <3>1. "assistant" \in Kinds /\ "tool" \in Kinds
      BY DEF Kinds
    <3>2. \/ RecallAppend("assistant") \/ RecallAppend("tool")
          \/ UNCHANGED memVars
      BY <1>3 DEF Steps, ChatAnswers, ChatCallsTools, Dispatch, Synthesize,
                  Raises, Reflect, Archived, Structured
    <3>3. CASE UNCHANGED memVars
      BY <3>3 DEF MemInv, memVars
    <3> QED
      BY <3>1, <3>2, <3>3, RecallStep
  <2>3. ReflInv'
    <3>1. Reflect \/ UNCHANGED <<reflections, reflected>>
      BY <1>3 DEF Steps, ChatAnswers, ChatCallsTools, Dispatch, Synthesize,
                  Raises, Archived, Structured
    <3>2. CASE UNCHANGED <<reflections, reflected>>
      BY <3>2 DEF ReflInv
    <3> QED
      BY <3>1, <3>2, ReflStep
  <2>4. RunInv' /\ CallsInv'
    <3>1. CASE \E n \in 1 .. MaxCalls : ChatCallsTools(n)
      BY <3>1, AskStep
    <3>2. CASE Dispatch
      BY <3>2, DispatchStep
    <3>3. CASE \/ ChatAnswers \/ Synthesize \/ Raises
               \/ Reflect \/ Archived \/ Structured
      BY <3>3, EndStep
    <3> QED
      BY <1>3, <3>1, <3>2, <3>3 DEF Steps
  <2> QED
    BY <2>1, <2>2, <2>3, <2>4
<1>4. ASSUME UNCHANGED vars PROVE AgentInv'
  <2> USE <1>4 DEF vars, coreVars, memVars
  <2>1. CoreInv'
    BY DEF CoreInv
  <2>2. MemInv'
    BY DEF MemInv
  <2>3. ReflInv' /\ RunInv'
    BY DEF ReflInv, RunInv
  <2>4. CallsInv'
    BY DEF CallsInv
  <2> QED
    BY <2>1, <2>2, <2>3, <2>4
<1> QED
  BY <1>1, <1>2, <1>3, <1>4 DEF Next

\* So it holds always.
LEMMA AgentAlways == Spec => []AgentInv
<1>1. Init => AgentInv
  BY AgentInit
<1>2. AgentInv /\ [Next]_vars => AgentInv'
  BY AgentStep
<1> QED
  BY <1>1, <1>2, PTL DEF Spec

\* The summary and the window after it are the latest turns.
LEMMA LatestTurns ==
  ASSUME MemInv
  PROVE  AreLatest(summary \o recall, turns)
<1> DEFINE all == summary \o recall
<1>1. /\ summary \in Seq(Turns) /\ recall \in Seq(Turns) /\ turns \in Nat
      /\ Len(summary) \in Nat /\ Len(recall) \in Nat
  BY AgentAssumption DEF MemInv
<1>2. Len(all) = Len(summary) + Len(recall)
  BY <1>1, ConcatLen
<1>3. \A k \in 1 .. Len(summary) : all[k] = summary[k]
  BY <1>1, ConcatLeft
<1>4. \A k \in 1 .. Len(recall) : all[Len(summary) + k] = recall[k]
  BY <1>1, ConcatRight
<1> HIDE DEF all
<1>5. ASSUME NEW k \in 1 .. Len(all) PROVE all[k].n = turns - Len(all) + k
  <2>1. CASE k \in 1 .. Len(summary)
    <3>1. summary[k].n = turns - Len(recall) - Len(summary) + k
      BY <2>1 DEF MemInv
    <3>2. all[k].n = turns - Len(recall) - Len(summary) + k
      BY <1>3, <2>1, <3>1
    <3> QED
      BY <1>1, <1>2, <3>2
  <2>2. CASE k \notin 1 .. Len(summary)
    <3> DEFINE j == k - Len(summary)
    <3>1. j \in 1 .. Len(recall) /\ k = Len(summary) + j
      BY <1>1, <1>2, <2>2
    <3> HIDE DEF j
    <3>2. all[k] = recall[j] /\ recall[j].n = turns - Len(recall) + j
      BY <1>4, <3>1 DEF MemInv
    <3>3. turns - Len(recall) + j = turns - Len(all) + k
      BY <1>1, <1>2, <3>1
    <3> QED
      BY <3>2, <3>3
  <2> QED
    BY <2>1, <2>2
<1> QED
  BY <1>5 DEF AreLatest, all

\* Every variable has its type, the window and the reflections their bound.
THEOREM AgentTyped == Spec => []TypeOK
<1>1. AgentInv => TypeOK
  BY DEF AgentInv, CoreInv, MemInv, ReflInv, RunInv, TypeOK
<1> QED
  BY <1>1, AgentAlways, PTL

\* Summary and window together, the core and the reflections are the latest of
\* what the memory was given, in order and without a gap.
THEOREM NothingIsSkipped == Spec => []NothingSkipped
<1>1. ASSUME AgentInv PROVE NothingSkipped
  <2>1. AreLatest(summary \o recall, turns)
    BY <1>1, LatestTurns DEF AgentInv
  <2>2. AreLatest(core, Len(facts))
    BY <1>1 DEF AgentInv, CoreInv, AreLatest
  <2>3. \A k \in 1 .. Len(reflections) :
          reflections[k] = reflected - Len(reflections) + k
    BY <1>1 DEF AgentInv, ReflInv
  <2> QED
    BY <2>1, <2>2, <2>3 DEF NothingSkipped
<1>2. AgentInv => NothingSkipped
  BY <1>1
<1> QED
  BY <1>2, AgentAlways, PTL

\* The memory forgets turns only when summary and window are full, and a fact
\* only if it does not fit with all that came after it.
THEOREM ForgetsWhenFull == Spec => []ForgetsOnlyWhenFull
<1>1. AgentInv => ForgetsOnlyWhenFull
  BY DEF AgentInv, CoreInv, MemInv, ForgetsOnlyWhenFull
<1> QED
  BY <1>1, AgentAlways, PTL

\* Every request for tools a run appends is answered, call by call, before the
\* model is asked again.
THEOREM CallsAreAnswered == Spec => []CallsAnswered
<1>1. ASSUME AgentInv, pc \in {"chat", "synthesize"}, NEW k \in Requests
      PROVE  /\ \A j \in 1 .. messages[k].calls : Kind(k + j) = "tool"
             /\ Kind(k + messages[k].calls + 1) # "tool"
  <2>1. messages \in Seq(Messages) /\ DOMAIN messages = 1 .. Len(messages)
    BY <1>1 DEF AgentInv, RunInv
  <2>2. LastUser = LastUserIn(messages)
    BY DEF LastUser, LastUserIn
  <2>3. k \in RequestsIn(messages)
    BY <2>1, <2>2 DEF Requests, RequestsIn, Kind
  <2>4. Closed(messages, k)
    BY <1>1, <2>3 DEF AgentInv, CallsInv
  <2>5. k \in 1 .. Len(messages) /\ Len(messages) \in Nat
    BY <2>1, <2>3 DEF RequestsIn
  <2>6. messages[k].calls \in Nat
    <3>1. messages[k] \in Messages /\ MaxCalls \in Nat
      BY <2>1, <2>5, AgentAssumption
    <3> QED
      BY <3>1 DEF Messages
  <2>7. ASSUME NEW j \in 1 .. messages[k].calls PROVE Kind(k + j) = "tool"
    <3>1. k + j \in 1 .. Len(messages)
      BY <2>4, <2>5, <2>6 DEF Closed
    <3> QED
      BY <2>1, <2>4, <3>1 DEF Closed, Kind
  <2>8. Kind(k + messages[k].calls + 1) # "tool"
    <3>1. CASE k + messages[k].calls + 1 \in 1 .. Len(messages)
      <4>1. k + messages[k].calls < Len(messages)
        BY <2>5, <2>6, <3>1
      <4> QED
        BY <2>1, <2>4, <3>1, <4>1 DEF Closed, Kind
    <3>2. CASE k + messages[k].calls + 1 \notin 1 .. Len(messages)
      BY <2>1, <3>2 DEF Kind
    <3> QED
      BY <3>1, <3>2
  <2> QED
    BY <2>7, <2>8
<1>2. AgentInv => CallsAnswered
  BY <1>1 DEF CallsAnswered
<1> QED
  BY <1>2, AgentAlways, PTL
=============================================================================
