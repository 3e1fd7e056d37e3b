---------------------------- MODULE MeasurementProofs ----------------------------
(***************************************************************************)
(* Proofs about what is recorded of prices after the fact, for every value *)
(* of the constants: whatever the order of evaluations, passes, clearings  *)
(* and restarts, every label describes exactly its window (Labeller), and  *)
(* whatever books a tick sees, what is measured of a trade is what it was  *)
(* shown, valued from a book that was fresh (Observation).                 *)
(***************************************************************************)
EXTENDS Labeller, Observation, SequenceTheorems, FiniteSetTheorems, WellFoundedInduction, TLAPS

-----------------------------------------------------------------------------
(* Numbers. *)

LEMMA Least ==
    ASSUME NEW T \in SUBSET Nat, T # {} PROVE \E m \in T : \A k \in T : m <= k
<1> DEFINE Less == {ss \in Nat \X Nat : ss[1] < ss[2]}
<1>1. IsWellFoundedOn(Less, Nat)
  BY NatLessThanWellFounded DEF OpToRel
<1>2. \A k, m \in Nat : k < m => <<k, m>> \in Less
  OBVIOUS
<1> HIDE DEF Less
<1>3. \E m \in T : \A k \in T : ~(<<k, m>> \in Less)
  <2>1. T \subseteq Nat /\ T # {}
    OBVIOUS
  <2> QED
    BY ONLY <1>1, <2>1, WFMin
<1>4. PICK m \in T : \A k \in T : ~(<<k, m>> \in Less)
  BY <1>3
<1>5. ASSUME NEW k \in T PROVE m <= k
  <2>1. k \in Nat /\ m \in Nat /\ ~(k < m)
    BY <1>2, <1>4
  <2> QED
    BY <2>1
<1> QED
  BY <1>5

\* Every set of indices has a first and a last one.
LEMMA FirstIndex ==
    ASSUME NEW n \in Nat, NEW S \in SUBSET (1..n), S # {}
    PROVE  Min(S) \in S /\ \A i \in S : Min(S) <= i
<1>1. \E m \in S : \A i \in S : m <= i
  BY Least
<1>2. Min(S) = CHOOSE m \in S : \A i \in S : m <= i
  BY DEF Min
<1> QED
  BY <1>1, <1>2

LEMMA LastIndex ==
    ASSUME NEW n \in Nat, NEW S \in SUBSET (1..n), S # {}
    PROVE  Max(S) \in S /\ \A i \in S : i <= Max(S)
<1>1. PICK k \in {n - i : i \in S} : \A j \in {n - i : i \in S} : k <= j
  <2>1. \A i \in S : n - i \in Nat
    OBVIOUS
  <2>2. {n - i : i \in S} \in SUBSET Nat /\ {n - i : i \in S} # {}
    BY <2>1
  <2> QED
    BY <2>2, Least
<1>2. PICK m \in S : k = n - m
  OBVIOUS
<1>3. \A i \in S : i <= m
  <2>1. ASSUME NEW i \in S PROVE i <= m
    <3>1. n - m <= n - i
      BY <1>1, <1>2
    <3> QED
      BY <3>1
  <2> QED
    BY <2>1
<1>4. Max(S) = CHOOSE a \in S : \A i \in S : a >= i
  BY DEF Max
<1>5. \E a \in S : \A i \in S : a >= i
  BY <1>3
<1> QED
  BY <1>4, <1>5

\* Finitely many numbers have a greatest and a least one.
LEMMA GreatestValue ==
    ASSUME NEW n \in Nat, NEW S \in SUBSET (1..n), S # {}, NEW f, \A k \in S : f[k] \in Int
    PROVE  \E k \in S : \A j \in S : f[k] >= f[j]
<1> DEFINE Has(m) == \E k \in S : k <= m /\ \A j \in S : j <= m => f[k] >= f[j]
<1> DEFINE Bad == {m \in 0..n : (\E k \in S : k <= m) /\ ~Has(m)}
<1>1. ASSUME Bad # {} PROVE FALSE
  <2>1. PICK m \in Bad : \A k \in Bad : m <= k
    <3>1. Bad \in SUBSET Nat
      OBVIOUS
    <3> QED
      BY <1>1, <3>1, Least
  <2>2. PICK a \in S : a <= m
    BY <2>1
  <2>3. m \in 1..n /\ m - 1 \in 0..n /\ m - 1 \notin Bad
    <3>1. m \in 0..n /\ a \in 1..n /\ a <= m
      BY <2>2
    <3>2. m \in 1..n /\ m - 1 \in 0..n /\ ~(m <= m - 1)
      BY ONLY <3>1, n \in Nat
    <3> HIDE DEF Bad
    <3> QED
      BY <2>1, <3>2
  <2>4. CASE \A k \in S : ~(k <= m - 1)
    <3>1. \A k \in S : k <= m => k = m
      BY <2>3, <2>4
    <3>2. m \in S /\ \A j \in S : j <= m => f[m] >= f[j]
      BY <2>2, <3>1
    <3> QED
      BY <2>1, <2>3, <3>2
  <2>5. CASE \E k \in S : k <= m - 1
    <3>1. PICK b \in S : b <= m - 1 /\ \A j \in S : j <= m - 1 => f[b] >= f[j]
      BY <2>3, <2>5
    <3>2. CASE m \in S /\ f[m] >= f[b]
      <4>1. ASSUME NEW j \in S, j <= m PROVE f[m] >= f[j]
        <5>1. j = m \/ f[b] >= f[j]
          BY <2>3, <3>1, <4>1
        <5> QED
          BY <3>2, <5>1
      <4> QED
        BY <2>1, <2>3, <3>2, <4>1
    <3>3. CASE ~(m \in S /\ f[m] >= f[b])
      <4>1. ASSUME NEW j \in S, j <= m PROVE f[b] >= f[j]
        <5>1. j <= m - 1 \/ j = m
          BY <2>3, <4>1
        <5> QED
          BY <3>1, <3>3, <5>1
      <4>2. b <= m
        BY <2>3, <3>1
      <4> QED
        BY <2>1, <4>1, <4>2
    <3> QED
      BY <3>2, <3>3
  <2> QED
    BY <2>4, <2>5
<1>2. \A k \in S : k <= n
  OBVIOUS
<1>3. n \in 0..n /\ \E k \in S : k <= n
  <2>1. n \in 0..n
    BY ONLY n \in Nat
  <2>2. \E k \in S : k <= n
    BY ONLY <1>2, S # {}
  <2> QED
    BY <2>1, <2>2
<1>4. PICK k \in S : \A j \in S : j <= n => f[k] >= f[j]
  <2>1. Has(n)
    BY <1>1, <1>3
  <2> QED
    BY <2>1
<1> QED
  BY <1>2, <1>4

LEMMA HighAndLow ==
    ASSUME NEW n \in Nat, NEW S \in SUBSET (1..n), S # {}, NEW f, \A k \in S : f[k] \in Int
    PROVE  /\ Max({f[k] : k \in S}) \in Int /\ Min({f[k] : k \in S}) \in Int
           /\ \A k \in S : f[k] \in Min({f[j] : j \in S})..Max({f[j] : j \in S})
<1> DEFINE P == {f[k] : k \in S}
<1>1. PICK a \in S : \A j \in S : f[a] >= f[j]
  BY GreatestValue
<1>2. PICK b \in S : \A j \in S : f[b] <= f[j]
  <2> DEFINE g == [k \in S |-> 0 - f[k]]
  <2>1. \A k \in S : g[k] \in Int
    OBVIOUS
  <2> HIDE DEF g
  <2>2. PICK k \in S : \A j \in S : g[k] >= g[j]
    BY <2>1, GreatestValue
  <2>3. \A j \in S : 0 - f[k] >= 0 - f[j]
    BY <2>2 DEF g
  <2> QED
    BY <2>3
<1>3. Max(P) = CHOOSE x \in P : \A y \in P : x >= y
  BY DEF Max
<1>4. Min(P) = CHOOSE x \in P : \A y \in P : x <= y
  BY DEF Min
<1>5. Max(P) \in P /\ \A y \in P : Max(P) >= y
  <2>1. f[a] \in P /\ \A y \in P : f[a] >= y
    BY <1>1
  <2> QED
    BY <1>3, <2>1
<1>6. Min(P) \in P /\ \A y \in P : Min(P) <= y
  <2>1. f[b] \in P /\ \A y \in P : f[b] <= y
    BY <1>2
  <2> QED
    BY <1>4, <2>1
<1>7. \A y \in P : y \in Int
  OBVIOUS
<1> QED
  BY <1>5, <1>6, <1>7

\* Induction over the first numbers, as a fact about sets.
LEMMA UpTo ==
    ASSUME NEW m \in Nat, NEW T, 0 \in T, \A n \in 1..m : n - 1 \in T => n \in T
    PROVE  \A n \in 0..m : n \in T
<1> DEFINE Bad == {n \in 0..m : n \notin T}
<1>1. SUFFICES ASSUME Bad # {} PROVE FALSE
  OBVIOUS
<1>2. PICK k \in Bad : \A n \in Bad : k <= n
  <2>1. Bad \in SUBSET Nat
    OBVIOUS
  <2> HIDE DEF Bad
  <2> QED
    BY <1>1, <2>1, Least
<1>3. k \in 0..m /\ k \notin T /\ k # 0
  OBVIOUS
<1>4. k - 1 \in 0..m /\ k - 1 \notin Bad /\ k \in 1..m
  BY <1>2, <1>3
<1> QED
  BY <1>3, <1>4

\* What a recursive definition over numbers needs: the function it describes exists.
Steps(m, V, x, G) == m \in Nat /\ x \in V /\ G \in [1..m -> [V -> V]]
Follows(m, V, x, G, f) ==
    f \in [0..m -> V] /\ f[0] = x /\ \A n \in 1..m : f[n] = G[n][f[n - 1]]

LEMMA Recursion ==
    ASSUME NEW m, NEW V, NEW x, NEW G, Steps(m, V, x, G) PROVE \E f : Follows(m, V, x, G, f)
<1> USE DEF Steps
<1> DEFINE Upto(n, f) == f[0] = x /\ \A k \in 1..n : f[k] = G[k][f[k - 1]]
           T == {n \in 0..m : \E f \in [0..n -> V] : Upto(n, f)}
<1>1. 0 \in T
  <2> DEFINE f == [k \in 0..0 |-> x]
  <2>1. 0..0 = {0} /\ 1..0 = {} /\ 0 \in 0..m
    OBVIOUS
  <2>2. f \in [0..0 -> V] /\ f[0] = x
    BY <2>1
  <2>3. Upto(0, f)
    BY <2>1, <2>2
  <2> QED
    BY <2>1, <2>2, <2>3
<1>2. ASSUME NEW n \in 1..m, n - 1 \in T PROVE n \in T
  <2>1. PICK g \in [0..(n - 1) -> V] : Upto(n - 1, g)
    BY <1>2
  <2> DEFINE f == [k \in 0..n |-> IF k = n THEN G[n][g[n - 1]] ELSE g[k]]
  <2>2. g[n - 1] \in V /\ G[n] \in [V -> V]
    OBVIOUS
  <2>3. f \in [0..n -> V]
    <3> SUFFICES ASSUME NEW k \in 0..n PROVE (IF k = n THEN G[n][g[n - 1]] ELSE g[k]) \in V
      OBVIOUS
    <3> QED
      BY <2>2
  <2>4. f[0] = x
    BY <2>1
  <2>5. ASSUME NEW k \in 1..n PROVE f[k] = G[k][f[k - 1]]
    <3>1. CASE k = n
      <4>1. f[k - 1] = g[n - 1]
        BY <3>1
      <4> QED
        BY <3>1, <4>1
    <3>2. CASE k # n
      <4>1. k \in 1..(n - 1) /\ f[k] = g[k] /\ f[k - 1] = g[k - 1]
        BY <3>2
      <4>2. g[k] = G[k][g[k - 1]]
        BY <2>1, <4>1
      <4> QED
        BY <4>1, <4>2
    <3> QED
      BY <3>1, <3>2
  <2>6. n \in 0..m
    OBVIOUS
  <2> QED
    BY <2>3, <2>4, <2>5, <2>6
<1>3. m \in T
  <2>1. m \in 0..m
    OBVIOUS
  <2> HIDE DEF T
  <2> QED
    BY <1>1, <1>2, <2>1, UpTo
<1> QED
  BY <1>3 DEF Follows

-----------------------------------------------------------------------------
(* The labels: the inductive invariant. *)

Values == [price : Int, high : Int, low : Int, known : Nat]
Refs == {Rows(q) : q \in Quotes}
Venues == UNION {DOMAIN r : r \in Refs}
Batches == [at : Int, mids : Refs]
Labelings == UNION {[D -> [Horizons -> Values]] : D \in SUBSET Venues}
Snaps == [at : Int, ref : Refs, labels : Labelings, labeled : SUBSET Venues,
          copies : [Copied -> [Horizons -> Values]], done : BOOLEAN]

\* A pass is a record with these fields, whatever it has loaded.
IsPass(p) ==
    /\ p = [pc |-> p.pc, gen |-> p.gen, view |-> p.view, changed |-> p.changed, loaded |-> p.loaded]
    /\ p.pc \in {"idle", "read", "flushed"} /\ p.gen \in Nat

LabelTypes ==
    /\ lclock \in Int /\ pendingEval \in Int /\ gen \in Nat
    /\ batches \in Seq(Batches) /\ snaps \in Seq(Snaps)
    /\ DOMAIN passes = Labellers /\ \A l \in Labellers : IsPass(passes[l])

\* What keeps a value describing its window while later prices are committed: it was read
\* when the window had passed, and when a price has been committed since, the evaluation
\* under way began after that.
Elapsed(value, at, h) ==
    /\ value.known <= Len(batches) /\ lclock >= at + h
    /\ value.known < Len(batches) => pendingEval = -1 \/ pendingEval >= at + h

Good(value, v, at, h) == value \in Values /\ Describes(value, v, at, h) /\ Elapsed(value, at, h)

\* The labels and the copies of a snapshot.
SnapGood(s) ==
    /\ \A v \in DOMAIN s.labels : \A h \in Horizons :
         \/ s.labels[v][h] = NoValue /\ v \notin s.labeled
         \/ Good(s.labels[v][h], v, s.at, h)
    /\ \A v \in Copied : \A h \in Horizons :
         \/ s.copies[v][h] = NoValue /\ (v = OwnVenue => ~s.done)
         \/ Good(s.copies[v][h], v, s.at, h)

\* What a pass works on is still about the snapshots it has read: it fills a horizon with
\* a value, and one it has found filled is filled still.
ViewGood(p, iv, h) ==
    /\ p.view[iv][h] = NoValue \/ Good(p.view[iv][h], iv[2], snaps[iv[1]].at, h)
    /\ <<iv, h>> \in p.changed => p.view[iv][h] # NoValue
    /\ p.view[iv][h] # NoValue => \/ <<iv, h>> \in p.changed
                                  \/ snaps[iv[1]].labels[iv[2]][h] # NoValue

PassGood(p) ==
    /\ p.changed \subseteq (DOMAIN p.view) \X Horizons
    /\ \A iv \in DOMAIN p.view :
         /\ iv = <<iv[1], iv[2]>> /\ iv[1] \in DOMAIN snaps /\ iv[2] \in DOMAIN snaps[iv[1]].labels
         /\ \A h \in Horizons : ViewGood(p, iv, h)

\* A pass from before the data set was cleared is never flushed.
PassesGood ==
    \A l \in Labellers :
        /\ passes[l].gen <= gen
        /\ passes[l].pc = "flushed" => passes[l].gen = gen
        /\ passes[l].pc # "idle" /\ passes[l].gen = gen => PassGood(passes[l])

LabelInv == LabelTypes /\ (\A i \in DOMAIN snaps : SnapGood(snaps[i])) /\ PassesGood

-----------------------------------------------------------------------------
(* What a value describes. *)

\* The prices that fall into a horizon, and those of them a value has seen.
Window(v, at, h) == {k \in DOMAIN batches : v \in DOMAIN batches[k].mids /\ batches[k].at \in (at + 1)..(at + h)}
Found(v, at, h, n) == {k \in Window(v, at, h) : k <= n}

\* Time passes, an evaluation begins, ends without prices or commits them.
Later ==
    /\ lclock' \in Int /\ lclock' >= lclock /\ pendingEval' \in Int
    /\ \/ batches' = batches /\ (pendingEval' \in {pendingEval, -1} \/ pendingEval' >= lclock)
       \/ \E b \in Batches : /\ batches' = Append(batches, b) /\ b.at = pendingEval
                             /\ pendingEval # -1 /\ pendingEval' = -1

LEMMA AppendFacts ==
    ASSUME NEW S, NEW rows \in Seq(S), NEW row \in S, NEW new, new = Append(rows, row)
    PROVE  /\ new \in Seq(S) /\ Len(rows) \in Nat /\ Len(new) = Len(rows) + 1 /\ DOMAIN new = 1..Len(rows) + 1
           /\ DOMAIN rows = 1..Len(rows) /\ new[Len(rows) + 1] = row /\ \A i \in 1..Len(rows) : new[i] = rows[i]
  OBVIOUS

LEMMA NoValueFacts == NoValue \in Values /\ NoValue.known = 0
  BY DEF NoValue, Values

LEMMA GoodIsFilled ==
    ASSUME LabelTypes, NEW value, NEW v, NEW at, NEW h, Good(value, v, at, h)
    PROVE  value # NoValue
<1>1. \E k \in DOMAIN batches : k <= value.known
  BY DEF Good, Describes
<1>2. \A k \in DOMAIN batches : k \in Nat /\ k >= 1
  BY DEF LabelTypes
<1> QED
  BY <1>1, <1>2, NoValueFacts

LEMMA DescribesWindow ==
    ASSUME NEW value, NEW v, NEW at, NEW h
    PROVE  Describes(value, v, at, h) <=>
             LET found == Found(v, at, h, value.known)
             IN  /\ found # {} /\ value.price = batches[Max(found)].mids[v]
                 /\ \A k \in found : batches[k].mids[v] \in value.low..value.high
                 /\ \A k \in Window(v, at, h) \ found : k = value.known + 1 \/ batches[k].at = at + h
  BY DEF Describes, Found, Window

LEMMA GoodStays ==
    ASSUME LabelTypes, Later, NEW value, NEW v, NEW at \in Int, NEW h \in Int, Good(value, v, at, h)
    PROVE  Good(value, v, at, h)'
<1>1. lclock \in Int /\ lclock' \in Int /\ lclock' >= lclock /\ pendingEval \in Int /\ pendingEval' \in Int
  BY DEF LabelTypes, Later
<1>2. value \in Values /\ value.known \in Nat /\ value.known <= Len(batches) /\ lclock >= at + h
  BY DEF Good, Elapsed, Values
<1>3. value.known < Len(batches) => pendingEval = -1 \/ pendingEval >= at + h
  BY DEF Good, Elapsed
<1>4. Describes(value, v, at, h)
  BY DEF Good
<1>5. CASE batches' = batches /\ (pendingEval' \in {pendingEval, -1} \/ pendingEval' >= lclock)
  <2>1. Describes(value, v, at, h)'
    BY <1>4, <1>5 DEF Describes
  <2>2. Elapsed(value, at, h)'
    BY <1>1, <1>2, <1>3, <1>5 DEF Elapsed
  <2> QED
    BY <1>2, <2>1, <2>2 DEF Good
<1>6. CASE \E b \in Batches : /\ batches' = Append(batches, b) /\ b.at = pendingEval
                              /\ pendingEval # -1 /\ pendingEval' = -1
  <2>1. PICK b \in Batches : batches' = Append(batches, b) /\ b.at = pendingEval
                             /\ pendingEval # -1 /\ pendingEval' = -1
    BY <1>6
  <2> DEFINE n == Len(batches)
  <2>2. /\ n \in Nat /\ DOMAIN batches = 1..n /\ Len(batches') = n + 1 /\ DOMAIN batches' = 1..n + 1
        /\ batches'[n + 1] = b /\ \A i \in 1..n : batches'[i] = batches[i]
    <3>1. batches \in Seq(Batches)
      BY DEF LabelTypes
    <3> QED
      BY ONLY <2>1, <3>1, AppendFacts
  <2> HIDE DEF n
  <2>3. \A k \in Window(v, at, h) : k \in 1..n /\ k \in Window(v, at, h)'
    BY <2>2 DEF Window
  <2>4. \A k \in Window(v, at, h)' : k \in Window(v, at, h) \/ k = n + 1
    BY <2>2 DEF Window
  <2>5. Found(v, at, h, value.known)' = Found(v, at, h, value.known)
    <3>1. n + 1 > value.known
      BY <1>2, <2>2 DEF n
    <3> QED
      BY <2>2, <2>3, <2>4, <3>1, <1>2 DEF Found
  <2>6. /\ Found(v, at, h, value.known) # {} /\ Found(v, at, h, value.known) \in SUBSET (1..n)
        /\ value.price = batches[Max(Found(v, at, h, value.known))].mids[v]
        /\ \A k \in Found(v, at, h, value.known) : batches[k].mids[v] \in value.low..value.high
        /\ \A k \in Window(v, at, h) \ Found(v, at, h, value.known) :
              k = value.known + 1 \/ batches[k].at = at + h
    BY <1>4, <2>3, DescribesWindow DEF Found
  <2>7. Max(Found(v, at, h, value.known)) \in Found(v, at, h, value.known)
    BY ONLY <2>2, <2>6, LastIndex
  <2>8. /\ value.price = batches'[Max(Found(v, at, h, value.known))].mids[v]
        /\ \A k \in Found(v, at, h, value.known) : batches'[k].mids[v] \in value.low..value.high
    <3>1. \A k \in Found(v, at, h, value.known) : batches'[k] = batches[k]
      BY <2>2, <2>6
    <3> QED
      BY <2>6, <2>7, <3>1
  <2>9. ASSUME NEW k \in Window(v, at, h)', k \notin Found(v, at, h, value.known)
        PROVE  k = value.known + 1 \/ batches'[k].at = at + h
    <3>1. CASE k \in Window(v, at, h)
      BY <2>2, <2>3, <2>6, <2>9, <3>1
    <3>2. CASE k = n + 1
      <4>1. batches'[k].at = pendingEval /\ pendingEval <= at + h /\ pendingEval # -1
        BY <2>1, <2>2, <2>9, <3>2 DEF Window
      <4>2. value.known = n \/ value.known < n
        BY <1>2, <2>2 DEF n
      <4>3. CASE value.known < n
        <5>1. pendingEval >= at + h
          BY <1>3, <4>1, <4>3 DEF n
        <5> QED
          BY ONLY <1>1, <4>1, <5>1, at \in Int, h \in Int
      <4> QED
        BY <3>2, <4>2, <4>3
    <3> QED
      BY <2>4, <2>9, <3>1, <3>2
  <2>10. Describes(value, v, at, h)'
    <3>1. \A k : k \in Window(v, at, h)' <=> /\ k \in DOMAIN batches' /\ v \in DOMAIN batches'[k].mids
                                              /\ batches'[k].at \in (at + 1)..(at + h)
      BY DEF Window
    <3> DEFINE W == {k \in DOMAIN batches' : v \in DOMAIN batches'[k].mids /\ batches'[k].at \in (at + 1)..(at + h)}
    <3>2. W = Window(v, at, h)' /\ {k \in W : k <= value.known} = Found(v, at, h, value.known)'
      BY <3>1 DEF Found
    <3>3. /\ {k \in W : k <= value.known} # {}
          /\ value.price = batches'[Max({k \in W : k <= value.known})].mids[v]
          /\ \A k \in {k \in W : k <= value.known} : batches'[k].mids[v] \in value.low..value.high
          /\ \A k \in W \ {k \in W : k <= value.known} : k = value.known + 1 \/ batches'[k].at = at + h
      <4> HIDE DEF W
      <4> QED
        BY <2>5, <2>6, <2>8, <2>9, <3>2
    <3> QED
      BY <3>3 DEF Describes
  <2>11. Elapsed(value, at, h)'
    <3>1. value.known <= Len(batches') /\ pendingEval' = -1
      BY <1>2, <2>1, <2>2 DEF n
    <3>2. lclock' >= at + h
      BY ONLY <1>1, <1>2, at \in Int, h \in Int
    <3> QED
      BY <3>1, <3>2 DEF Elapsed
  <2> QED
    BY <1>2, <2>10, <2>11 DEF Good
<1> QED
  BY <1>5, <1>6 DEF Later

LEMMA SnapTypes ==
    ASSUME LabelTypes, NEW i \in DOMAIN snaps
    PROVE  /\ snaps[i] \in Snaps /\ snaps[i].at \in Int /\ snaps[i].labels \in Labelings
           /\ snaps[i].copies \in [Copied -> [Horizons -> Values]]
<1>1. snaps[i] \in Snaps
  BY DEF LabelTypes
<1> QED
  BY ONLY <1>1 DEF Snaps

LEMMA HorizonTypes == \A h \in Horizons : h \in Int /\ h > 0
  BY LabelAssumption

\* A snapshot stays as good as it was.
LEMMA SnapStays ==
    ASSUME LabelTypes, Later, NEW s \in Snaps, SnapGood(s)
    PROVE  SnapGood(s)'
<1>1. s.at \in Int /\ \A h \in Horizons : h \in Int
  BY LabelAssumption DEF Snaps
<1>2. ASSUME NEW v \in DOMAIN s.labels, NEW h \in Horizons
      PROVE  (s.labels[v][h] = NoValue /\ v \notin s.labeled) \/ Good(s.labels[v][h], v, s.at, h)'
  <2>1. PICK value, at : value = s.labels[v][h] /\ at = s.at
    OBVIOUS
  <2>2. Good(value, v, at, h) => Good(value, v, at, h)'
    BY <1>1, <2>1, GoodStays
  <2> QED
    BY <2>1, <2>2 DEF SnapGood
<1>3. ASSUME NEW v \in Copied, NEW h \in Horizons
      PROVE  (s.copies[v][h] = NoValue /\ (v = OwnVenue => ~s.done)) \/ Good(s.copies[v][h], v, s.at, h)'
  <2>1. PICK value, at : value = s.copies[v][h] /\ at = s.at
    OBVIOUS
  <2>2. Good(value, v, at, h) => Good(value, v, at, h)'
    BY <1>1, <2>1, GoodStays
  <2> QED
    BY <2>1, <2>2 DEF SnapGood
<1> QED
  BY <1>2, <1>3 DEF SnapGood

\* Snapshots are added, and the labels of one are only filled.
Fills ==
    \A i \in DOMAIN snaps :
        /\ i \in DOMAIN snaps' /\ snaps'[i].at = snaps[i].at
        /\ DOMAIN snaps'[i].labels = DOMAIN snaps[i].labels
        /\ \A v \in DOMAIN snaps[i].labels : \A h \in Horizons :
             snaps[i].labels[v][h] # NoValue => snaps'[i].labels[v][h] # NoValue

LEMMA PassStays ==
    ASSUME LabelTypes, Later, Fills, NEW p, PassGood(p)
    PROVE  PassGood(p)'
<1>1. ASSUME NEW iv \in DOMAIN p.view
      PROVE  /\ iv = <<iv[1], iv[2]>> /\ iv[1] \in DOMAIN snaps' /\ iv[2] \in DOMAIN snaps'[iv[1]].labels
             /\ \A h \in Horizons : ViewGood(p, iv, h)'
  <2>1. PICK i, v : i = iv[1] /\ v = iv[2]
    OBVIOUS
  <2>2. /\ iv = <<i, v>> /\ i \in DOMAIN snaps /\ v \in DOMAIN snaps[i].labels
        /\ \A h \in Horizons : ViewGood(p, iv, h)
    BY <2>1 DEF PassGood
  <2>3. /\ i \in DOMAIN snaps' /\ snaps'[i].at = snaps[i].at /\ v \in DOMAIN snaps'[i].labels
        /\ \A h \in Horizons : snaps[i].labels[v][h] # NoValue => snaps'[i].labels[v][h] # NoValue
    BY <2>2 DEF Fills
  <2>4. ASSUME NEW h \in Horizons PROVE ViewGood(p, iv, h)'
    <3>1. PICK value, at : value = p.view[iv][h] /\ at = snaps[i].at
      OBVIOUS
    <3>2. at \in Int /\ h \in Int
      BY <2>2, <3>1, SnapTypes, HorizonTypes
    <3>3. Good(value, v, at, h) => Good(value, v, at, h)'
      BY <3>2, GoodStays
    <3>4. /\ value = NoValue \/ Good(value, v, at, h)
          /\ <<iv, h>> \in p.changed => value # NoValue
          /\ value # NoValue => <<iv, h>> \in p.changed \/ snaps[i].labels[v][h] # NoValue
      BY <2>1, <2>2, <3>1 DEF ViewGood
    <3>5. at = snaps'[i].at
      BY <2>3, <3>1
    <3>6. /\ value = NoValue \/ Good(value, v, at, h)'
          /\ value # NoValue => <<iv, h>> \in p.changed \/ snaps'[i].labels[v][h] # NoValue
      BY <2>3, <3>3, <3>4
    <3> QED
      BY <2>1, <3>1, <3>4, <3>5, <3>6 DEF ViewGood
  <2> QED
    BY <2>1, <2>2, <2>3, <2>4
<1> QED
  BY <1>1 DEF PassGood

-----------------------------------------------------------------------------
(* Evaluations, failures and the clock. *)

SnapsGood == \A i \in DOMAIN snaps : SnapGood(snaps[i])

LEMMA SnapsStay ==
    ASSUME LabelInv, Later, NEW i \in DOMAIN snaps, snaps'[i] = snaps[i]
    PROVE  SnapGood(snaps[i])'
<1>1. PICK s : s = snaps[i]
  OBVIOUS
<1>2. s \in Snaps /\ SnapGood(s)
  BY <1>1, SnapTypes DEF LabelInv
<1>3. SnapGood(s)' /\ snaps'[i] = s
  BY <1>1, <1>2, SnapStays DEF LabelInv
<1> QED
  BY <1>3

LEMMA NoPassFacts ==
    IsPass(NoPass) /\ NoPass.pc = "idle" /\ NoPass.gen = 0
  BY DEF IsPass, NoPass

\* Every pass goes on or is given up.
GoOn == \A l \in Labellers : passes'[l] = passes[l] \/ passes'[l] = NoPass

LEMMA PassesStay ==
    ASSUME LabelInv, Later, Fills, gen' = gen, GoOn
    PROVE  PassesGood'
<1>1. ASSUME NEW l \in Labellers
      PROVE  /\ passes'[l].gen <= gen'
             /\ passes'[l].pc = "flushed" => passes'[l].gen = gen'
             /\ passes'[l].pc # "idle" /\ passes'[l].gen = gen' => PassGood(passes[l])'
  <2>1. PICK p : p = passes'[l]
    OBVIOUS
  <2>2. CASE p = NoPass
    <3>1. gen \in Nat
      BY DEF LabelInv, LabelTypes
    <3> QED
      BY <2>1, <2>2, <3>1, NoPassFacts
  <2>3. CASE p = passes[l]
    <3>1. /\ p.gen <= gen /\ (p.pc = "flushed" => p.gen = gen)
          /\ p.pc # "idle" /\ p.gen = gen => PassGood(p)
      BY <2>3 DEF LabelInv, PassesGood
    <3>2. PassGood(p) => PassGood(p)'
      BY PassStays DEF LabelInv
    <3>3. PassGood(p)' => PassGood(passes[l])'
      BY <2>1
    <3> QED
      BY <2>1, <3>1, <3>2, <3>3
  <2> QED
    BY <2>1, <2>2, <2>3 DEF GoOn
<1> QED
  BY <1>1 DEF PassesGood

LEMMA PassTypes ==
    ASSUME LabelInv, DOMAIN passes' = Labellers, GoOn
    PROVE  \A l \in Labellers : IsPass(passes'[l])
  BY NoPassFacts DEF GoOn, LabelInv, LabelTypes

\* Snapshots stay as they are while time and evaluations go on and passes are given up.
LEMMA QuietStep ==
    ASSUME LabelInv, Later, UNCHANGED <<snaps, gen>>, GoOn, DOMAIN passes' = Labellers,
           batches' \in Seq(Batches)
    PROVE  LabelInv'
<1>1. LabelTypes'
  <2>1. lclock' \in Int /\ pendingEval' \in Int
    BY DEF Later
  <2>2. gen' \in Nat /\ snaps' \in Seq(Snaps)
    BY DEF LabelInv, LabelTypes
  <2> QED
    BY <2>1, <2>2, PassTypes DEF LabelTypes
<1>2. Fills
  BY DEF Fills
<1>3. SnapsGood'
  BY SnapsStay DEF SnapsGood
<1> QED
  BY <1>1, <1>2, <1>3, PassesStay DEF LabelInv, SnapsGood

LEMMA TimeSteps ==
    ASSUME LabelInv,
           StartEvaluation \/ DropEvaluation \/ RestartLabeller \/ TickLabeller
           \/ (\E l \in Labellers : AbortPass(l)) \/ UNCHANGED labelVars
    PROVE  LabelInv'
<1>1. /\ lclock \in Int /\ pendingEval \in Int /\ batches \in Seq(Batches) /\ DOMAIN passes = Labellers
  BY DEF LabelInv, LabelTypes
<1>2. Later
  <2>1. /\ lclock' \in {lclock, lclock + 1} /\ batches' = batches
        /\ pendingEval' \in {pendingEval, -1, lclock}
    BY DEF StartEvaluation, DropEvaluation, RestartLabeller, TickLabeller, AbortPass, labelVars
  <2> QED
    BY ONLY <1>1, <2>1 DEF Later
<1>3. UNCHANGED <<batches, snaps, gen>>
  BY DEF StartEvaluation, DropEvaluation, RestartLabeller, TickLabeller, AbortPass, labelVars
<1>4. GoOn /\ DOMAIN passes' = Labellers
  BY <1>1 DEF GoOn, StartEvaluation, DropEvaluation, RestartLabeller, TickLabeller, AbortPass, labelVars
<1> QED
  BY <1>1, <1>2, <1>3, <1>4, QuietStep

LEMMA CommitStep ==
    ASSUME LabelInv, CommitEvaluation
    PROVE  LabelInv'
<1>1. PICK q \in Quotes :
        /\ batches' = Append(batches, [at |-> pendingEval, mids |-> Rows(q)])
        /\ snaps' = snaps \/ snaps' = Append(snaps, Snapshot(pendingEval, q))
  BY DEF CommitEvaluation
<1>2. pendingEval # -1 /\ pendingEval' = -1 /\ UNCHANGED <<lclock, passes, gen>>
  BY DEF CommitEvaluation
<1>3. /\ lclock \in Int /\ pendingEval \in Int /\ gen \in Nat /\ DOMAIN passes = Labellers
      /\ batches \in Seq(Batches) /\ snaps \in Seq(Snaps)
  BY DEF LabelInv, LabelTypes
<1> DEFINE row == [at |-> pendingEval, mids |-> Rows(q)]
<1>4. row \in Batches /\ row.at = pendingEval
  BY <1>3 DEF Batches, Refs
<1>5. batches' \in Seq(Batches)
  <2> HIDE DEF row
  <2> QED
    BY <1>1, <1>3, <1>4, AppendFacts DEF row
<1>6. Later
  <2>1. lclock' \in Int /\ lclock' >= lclock /\ pendingEval' \in Int
    BY <1>2, <1>3
  <2>2. batches' = Append(batches, row)
    BY <1>1
  <2> HIDE DEF row
  <2> QED
    BY <1>2, <1>4, <2>1, <2>2 DEF Later
<1>7. GoOn /\ DOMAIN passes' = Labellers
  BY <1>2, <1>3 DEF GoOn
<1>8. CASE snaps' = snaps
  BY <1>2, <1>5, <1>6, <1>7, <1>8, QuietStep
<1>9. CASE snaps' = Append(snaps, Snapshot(pendingEval, q))
  <2>1. PICK s : s = Snapshot(pendingEval, q)
    OBVIOUS
  <2>2. s \in Snaps
    <3>1. Blank \in [Horizons -> Values]
      BY NoValueFacts DEF Blank
    <3>2. Rows(q) \in Refs /\ DOMAIN Rows(q) \in SUBSET Venues
      BY DEF Refs, Venues
    <3>3. [v \in DOMAIN Rows(q) |-> Blank] \in Labelings
      BY <3>1, <3>2 DEF Labelings
    <3>4. [v \in Copied |-> Blank] \in [Copied -> [Horizons -> Values]]
      BY <3>1
    <3> QED
      BY <1>3, <2>1, <3>2, <3>3, <3>4 DEF Snapshot, Snaps
  <2>3. /\ snaps' \in Seq(Snaps) /\ DOMAIN snaps = 1..Len(snaps) /\ DOMAIN snaps' = 1..Len(snaps) + 1
        /\ Len(snaps) \in Nat /\ snaps'[Len(snaps) + 1] = s /\ \A i \in 1..Len(snaps) : snaps'[i] = snaps[i]
    BY <1>3, <1>9, <2>1, <2>2, AppendFacts
  <2>4. SnapGood(s)'
    <3>1. /\ \A v \in DOMAIN s.labels : \A h \in Horizons : s.labels[v][h] = NoValue /\ v \notin s.labeled
          /\ \A v \in Copied : \A h \in Horizons : s.copies[v][h] = NoValue /\ ~s.done
      BY <2>1 DEF Snapshot, Blank
    <3> QED
      BY <3>1 DEF SnapGood
  <2>5. Fills
    BY <2>3 DEF Fills
  <2>6. SnapsGood'
    <3>1. ASSUME NEW i \in DOMAIN snaps' PROVE SnapGood(snaps[i])'
      <4>1. CASE i \in DOMAIN snaps
        BY <1>6, <2>3, <4>1, SnapsStay
      <4>2. CASE i = Len(snaps) + 1
        BY <2>3, <2>4, <4>2
      <4> QED
        BY <2>3, <4>1, <4>2
    <3> QED
      BY <3>1 DEF SnapsGood
  <2>7. LabelTypes'
    BY <1>2, <1>3, <1>5, <1>7, <2>3, PassTypes DEF LabelTypes
  <2> QED
    BY <1>2, <1>6, <1>7, <2>5, <2>6, <2>7, PassesStay DEF LabelInv, SnapsGood
<1> QED
  BY <1>1, <1>8, <1>9

LEMMA ClearStep ==
    ASSUME LabelInv, ClearDataset
    PROVE  LabelInv'
<1>1. /\ gen \in Nat /\ gen' = gen + 1 /\ batches' = << >> /\ snaps' = << >>
      /\ UNCHANGED <<lclock, pendingEval, passes>> /\ \A l \in Labellers : passes[l].pc # "flushed"
  BY DEF LabelInv, LabelTypes, ClearDataset
<1>2. LabelTypes'
  BY <1>1 DEF LabelInv, LabelTypes
<1>3. \A i \in DOMAIN snaps' : FALSE
  BY <1>1
<1>4. ASSUME NEW l \in Labellers
      PROVE  passes'[l].gen <= gen' /\ passes'[l].pc # "flushed" /\ passes'[l].gen # gen'
  <2>1. passes[l].gen <= gen /\ passes[l].gen \in Nat
    BY DEF LabelInv, LabelTypes, PassesGood, IsPass
  <2> QED
    BY <1>1, <2>1
<1>5. PassesGood'
  BY <1>4 DEF PassesGood
<1> QED
  BY <1>2, <1>3, <1>5 DEF LabelInv

-----------------------------------------------------------------------------
(* A pass reads and flushes. *)

LEMMA LaterTrivial ==
    ASSUME LabelTypes, UNCHANGED <<lclock, pendingEval, batches>>
    PROVE  Later
  BY DEF LabelTypes, Later

\* One pass moves on with what is good, the others stay.
LEMMA PassMoves ==
    ASSUME LabelInv, Later, Fills, gen' = gen, NEW l \in Labellers, NEW p, IsPass(p), p.gen = gen, PassGood(p),
           passes' = [passes EXCEPT ![l] = p]
    PROVE  PassesGood' /\ DOMAIN passes' = Labellers /\ \A k \in Labellers : IsPass(passes'[k])
<1>1. DOMAIN passes = Labellers /\ gen \in Nat /\ \A k \in Labellers : IsPass(passes[k])
  BY DEF LabelInv, LabelTypes
<1>2. DOMAIN passes' = Labellers /\ passes'[l] = p /\ \A k \in Labellers : k # l => passes'[k] = passes[k]
  BY <1>1
<1>3. ASSUME NEW k \in Labellers
      PROVE  /\ passes'[k].gen <= gen'
             /\ passes'[k].pc = "flushed" => passes'[k].gen = gen'
             /\ passes'[k].pc # "idle" /\ passes'[k].gen = gen' => PassGood(passes[k])'
  <2>1. PICK r : r = passes'[k]
    OBVIOUS
  <2>2. /\ r.gen <= gen /\ (r.pc = "flushed" => r.gen = gen)
        /\ r.pc # "idle" /\ r.gen = gen => PassGood(r)
    <3>1. CASE k = l
      <4>1. r = p
        BY <1>2, <2>1, <3>1
      <4> QED
        BY <1>1, <4>1
    <3>2. CASE k # l
      <4>1. r = passes[k]
        BY <1>2, <2>1, <3>2
      <4> QED
        BY <4>1 DEF LabelInv, PassesGood
    <3> QED
      BY <3>1, <3>2
  <2>3. PassGood(r) => PassGood(r)'
    BY PassStays DEF LabelInv
  <2>4. PassGood(r)' => PassGood(passes[k])'
    BY <2>1
  <2> QED
    BY <2>1, <2>2, <2>3, <2>4
<1>4. PassesGood'
  BY <1>3 DEF PassesGood
<1> QED
  BY <1>1, <1>2, <1>4

LEMMA FlushStep ==
    ASSUME LabelInv, NEW l \in Labellers, FlushLabels(l)
    PROVE  LabelInv'
<1>1. /\ passes' = [passes EXCEPT ![l].pc = "flushed"] /\ passes[l].pc = "read" /\ passes[l].gen = gen
      /\ UNCHANGED <<lclock, pendingEval, batches, snaps, gen>>
  BY DEF FlushLabels
<1>2. LabelTypes /\ Later /\ Fills
  BY <1>1, LaterTrivial DEF LabelInv, Fills
<1>3. PICK q : q = passes[l]
  OBVIOUS
<1>4. PICK p : p = [q EXCEPT !.pc = "flushed"]
  OBVIOUS
<1>5. IsPass(q) /\ PassGood(q) /\ q.gen = gen
  BY <1>1, <1>2, <1>3 DEF LabelInv, LabelTypes, PassesGood
<1>6. /\ IsPass(p) /\ p.gen = q.gen /\ p.view = q.view /\ p.changed = q.changed
  <2>1. /\ q = [pc |-> q.pc, gen |-> q.gen, view |-> q.view, changed |-> q.changed, loaded |-> q.loaded]
        /\ q.gen \in Nat
    BY <1>5 DEF IsPass
  <2>2. p = [pc |-> "flushed", gen |-> q.gen, view |-> q.view, changed |-> q.changed, loaded |-> q.loaded]
    BY ONLY <1>4, <2>1
  <2> QED
    BY ONLY <2>1, <2>2 DEF IsPass
<1>7. PassGood(p)
  BY <1>5, <1>6 DEF PassGood, ViewGood
<1>8. passes' = [passes EXCEPT ![l] = p]
  BY <1>1, <1>3, <1>4
<1>9. PassesGood' /\ DOMAIN passes' = Labellers /\ \A k \in Labellers : IsPass(passes'[k])
  BY <1>1, <1>2, <1>5, <1>6, <1>7, <1>8, PassMoves
<1>10. LabelTypes'
  BY <1>1, <1>2, <1>9 DEF LabelTypes
<1>11. SnapsGood'
  BY <1>1, <1>2, SnapsStay DEF SnapsGood
<1> QED
  BY <1>9, <1>10, <1>11 DEF LabelInv, SnapsGood

\* What a labeller reads of the prices is good when the window has passed.
LEMMA ReadIsGood ==
    ASSUME LabelTypes, NEW v, NEW at \in Int, NEW h \in Int, lclock - at >= h, History(v, at, at + h) # {}
    PROVE  Good(ValuesOf(v, History(v, at, at + h)), v, at, h)
<1> DEFINE rows == History(v, at, at + h)
<1> DEFINE n == Len(batches)
<1> DEFINE f == [k \in rows |-> batches[k].mids[v]]
<1>1. lclock \in Int /\ n \in Nat /\ DOMAIN batches = 1..n /\ \A k \in 1..n : batches[k] \in Batches
  BY DEF LabelTypes
<1>2. /\ rows \in SUBSET (1..n) /\ rows # {}
      /\ \A k \in rows : v \in DOMAIN batches[k].mids /\ batches[k].at > at /\ batches[k].at <= at + h
  BY <1>1 DEF History
<1>3. \A k \in 1..n : batches[k].at \in Int /\ batches[k].mids \in Refs
  BY <1>1 DEF Batches
<1>4. \A k \in rows : batches[k].mids[v] \in Int
  BY <1>2, <1>3, LabelAssumption DEF Refs
<1>5. rows = Window(v, at, h)
  <2>1. \A k \in 1..n : batches[k].at \in (at + 1)..(at + h) <=> batches[k].at > at /\ batches[k].at <= at + h
    BY <1>3
  <2> QED
    BY <1>1, <2>1 DEF Window, History
<1> HIDE DEF rows, n
<1>6. Max(rows) \in rows
  BY ONLY <1>1, <1>2, LastIndex
<1>7. /\ Max({f[k] : k \in rows}) \in Int /\ Min({f[k] : k \in rows}) \in Int
      /\ \A k \in rows : f[k] \in Min({f[j] : j \in rows})..Max({f[j] : j \in rows})
  <2>1. \A k \in rows : f[k] \in Int
    BY <1>4
  <2> HIDE DEF f
  <2> QED
    BY ONLY <1>1, <1>2, <2>1, HighAndLow
<1>8. \A k \in rows : f[k] = batches[k].mids[v]
  OBVIOUS
<1> HIDE DEF f
<1>9. {f[k] : k \in rows} = {batches[k].mids[v] : k \in rows}
  BY <1>8
<1>10. PICK value : value = ValuesOf(v, rows)
  OBVIOUS
<1>11. value = [price |-> batches[Max(rows)].mids[v], high |-> Max({f[k] : k \in rows}),
                low |-> Min({f[k] : k \in rows}), known |-> n]
  BY <1>9, <1>10 DEF ValuesOf, n
<1>12. value \in Values
  <2>1. batches[Max(rows)].mids[v] \in Int
    BY <1>4, <1>6
  <2> QED
    BY ONLY <1>1, <1>7, <1>11, <2>1 DEF Values
<1>13. Found(v, at, h, value.known) = rows /\ Window(v, at, h) \ rows = {}
  <2>1. value.known = n
    BY ONLY <1>11
  <2>2. \A k \in rows : k <= n
    BY ONLY <1>1, <1>2
  <2> QED
    BY <1>5, <2>1, <2>2 DEF Found
<1>14. Describes(value, v, at, h)
  <2>1. /\ value.price = batches[Max(rows)].mids[v]
        /\ \A k \in rows : batches[k].mids[v] \in value.low..value.high
    BY <1>7, <1>8, <1>11
  <2> QED
    BY <1>2, <1>13, <2>1, DescribesWindow
<1>15. Elapsed(value, at, h)
  <2>1. value.known = n /\ lclock >= at + h
    BY ONLY <1>1, <1>11, lclock - at >= h, at \in Int, h \in Int
  <2> QED
    BY <1>1, <2>1 DEF Elapsed, n
<1> QED
  BY <1>10, <1>12, <1>14, <1>15 DEF Good, rows

\* A pass reads labels that are still to be filled.
LEMMA WorkFacts ==
    ASSUME NEW work \in Pending, NEW iv \in work
    PROVE  iv = <<iv[1], iv[2]>> /\ iv[1] \in DOMAIN snaps /\ iv[2] \in DOMAIN snaps[iv[1]].labels
<1>1. iv \in Unlabelled
  BY DEF Pending, kSubset
<1>2. PICK i \in DOMAIN snaps : iv \in {i} \X (DOMAIN snaps[i].labels \ snaps[i].labeled)
  BY <1>1 DEF Unlabelled
<1> QED
  BY <1>2

LEMMA ReadStep ==
    ASSUME LabelInv, NEW l \in Labellers, LabelRead(l)
    PROVE  LabelInv'
<1> DEFINE changed(work) == {x \in work \X Horizons : Ready(x[1][1], x[1][2], x[2])}
<1> DEFINE view(work) == [iv \in work |-> [h \in Horizons |->
                     IF <<iv, h>> \in changed(work)
                     THEN ValuesOf(iv[2], History(iv[2], snaps[iv[1]].at, snaps[iv[1]].at + h))
                     ELSE snaps[iv[1]].labels[iv[2]][h]]]
<1>1. PICK work \in Pending :
        passes' = [passes EXCEPT ![l] =
          [pc |-> "read", gen |-> gen, changed |-> changed(work), view |-> view(work),
           loaded |-> [i \in {iv[1] : iv \in work} |-> snaps[i].copies]]]
  BY DEF LabelRead
<1>2. UNCHANGED <<lclock, pendingEval, batches, snaps, gen>> /\ gen \in Nat
  BY DEF LabelRead, LabelInv, LabelTypes
<1>3. LabelTypes /\ Later /\ Fills
  BY <1>2, LaterTrivial DEF LabelInv, Fills
<1>4. PICK loaded : loaded = [i \in {iv[1] : iv \in work} |-> snaps[i].copies]
  OBVIOUS
<1>5. PICK p : p = [pc |-> "read", gen |-> gen, changed |-> changed(work), view |-> view(work), loaded |-> loaded]
  OBVIOUS
<1>6. passes' = [passes EXCEPT ![l] = p] /\ p.gen = gen /\ p.changed = changed(work) /\ p.view = view(work)
  BY <1>1, <1>4, <1>5
<1>7. IsPass(p)
  <2> HIDE DEF changed, view
  <2>1. /\ p.pc = "read" /\ p.gen = gen /\ p.changed = changed(work) /\ p.view = view(work) /\ p.loaded = loaded
    BY ONLY <1>5
  <2>2. p = [pc |-> p.pc, gen |-> p.gen, view |-> p.view, changed |-> p.changed, loaded |-> p.loaded]
    BY ONLY <1>5
  <2> QED
    BY <1>2, <2>1, <2>2 DEF IsPass
<1>8. PassGood(p)
  <2>1. p.changed \subseteq (DOMAIN p.view) \X Horizons
    BY <1>6
  <2>2. ASSUME NEW iv \in work, NEW h \in Horizons PROVE ViewGood(p, iv, h)
    <3>1. PICK i, v : i = iv[1] /\ v = iv[2]
      OBVIOUS
    <3>2. iv = <<i, v>> /\ i \in DOMAIN snaps /\ v \in DOMAIN snaps[i].labels
      BY <3>1, WorkFacts
    <3>3. PICK at : at = snaps[i].at
      OBVIOUS
    <3>4. at \in Int /\ h \in Int /\ SnapGood(snaps[i])
      BY <1>3, <3>2, <3>3, SnapTypes, HorizonTypes DEF LabelInv
    <3>5. CASE Ready(i, v, h)
      <4>1. <<iv, h>> \in p.changed /\ p.view[iv][h] = ValuesOf(v, History(v, at, at + h))
        BY <1>6, <3>1, <3>3, <3>5
      <4>2. Good(ValuesOf(v, History(v, at, at + h)), v, at, h)
        BY <1>3, <3>3, <3>4, <3>5, ReadIsGood DEF Ready
      <4>3. p.view[iv][h] # NoValue
        BY <1>3, <4>1, <4>2, GoodIsFilled
      <4> QED
        BY <3>1, <3>3, <4>1, <4>2, <4>3 DEF ViewGood
    <3>6. CASE ~Ready(i, v, h)
      <4>1. <<iv, h>> \notin p.changed /\ p.view[iv][h] = snaps[i].labels[v][h]
        BY <1>6, <3>1, <3>6
      <4>2. snaps[i].labels[v][h] = NoValue \/ Good(snaps[i].labels[v][h], v, at, h)
        BY <3>2, <3>3, <3>4 DEF SnapGood
      <4> QED
        BY <3>1, <3>3, <4>1, <4>2 DEF ViewGood
    <3> QED
      BY <3>5, <3>6
  <2>3. DOMAIN p.view = work
    BY <1>6
  <2> HIDE DEF changed, view
  <2> QED
    BY <2>1, <2>2, <2>3, WorkFacts DEF PassGood
<1> HIDE DEF changed, view
<1>9. PassesGood' /\ DOMAIN passes' = Labellers /\ \A k \in Labellers : IsPass(passes'[k])
  BY <1>2, <1>3, <1>6, <1>7, <1>8, PassMoves
<1>10. LabelTypes'
  BY <1>2, <1>3, <1>9 DEF LabelTypes
<1>11. SnapsGood'
  BY <1>2, <1>3, SnapsStay DEF SnapsGood
<1> QED
  BY <1>9, <1>10, <1>11 DEF LabelInv, SnapsGood

-----------------------------------------------------------------------------
(* A pass writes what it has seen. *)

\* What a pass does to the labels and the copies of a snapshot.
Written(p, s, i, labels) ==
    labels = [v \in DOMAIN s.labels |-> [h \in Horizons |->
                IF <<<<i, v>>, h>> \in p.changed THEN p.view[<<i, v>>][h] ELSE s.labels[v][h]]]

Updated(p, s, i, labels, copies, new) ==
    new = [s EXCEPT !.labels = labels,
                    !.labeled = @ \cup {v \in DOMAIN labels : <<i, v>> \in DOMAIN p.view /\ Full(p.view[<<i, v>>])},
                    !.copies = copies,
                    !.done = @ \/ Full(copies[OwnVenue])]

\* A copy is kept or replaced by what the label holds.
Copies(s, copies) ==
    /\ copies \in [Copied -> [Horizons -> Values]]
    /\ \A v \in Copied, h \in Horizons :
         \/ copies[v][h] = s.copies[v][h]
         \/ copies[v][h] # NoValue /\ Good(copies[v][h], v, s.at, h)

\* The labels after a pass: good, and none of them emptied.
LEMMA WrittenFacts ==
    ASSUME LabelTypes, NEW p, PassGood(p), NEW i \in DOMAIN snaps, SnapGood(snaps[i]), NEW labels,
           Written(p, snaps[i], i, labels)
    PROVE  /\ labels \in Labelings /\ DOMAIN labels = DOMAIN snaps[i].labels
           /\ \A v \in DOMAIN labels : \A h \in Horizons :
                /\ labels[v][h] = NoValue \/ Good(labels[v][h], v, snaps[i].at, h)
                /\ snaps[i].labels[v][h] # NoValue => labels[v][h] # NoValue
                /\ <<i, v>> \in DOMAIN p.view /\ p.view[<<i, v>>][h] # NoValue => labels[v][h] # NoValue
<1>1. PICK D \in SUBSET Venues : snaps[i].labels \in [D -> [Horizons -> Values]]
  <2> PICK old : old = snaps[i].labels
    OBVIOUS
  <2>1. old \in Labelings
    BY SnapTypes
  <2>2. \E D \in SUBSET Venues : old \in [D -> [Horizons -> Values]]
    BY ONLY <2>1 DEF Labelings
  <2> QED
    BY ONLY <2>2, old = snaps[i].labels
<1>2. ASSUME NEW v \in D, NEW h \in Horizons
      PROVE  /\ labels[v][h] \in Values
             /\ labels[v][h] = NoValue \/ Good(labels[v][h], v, snaps[i].at, h)
             /\ snaps[i].labels[v][h] # NoValue => labels[v][h] # NoValue
             /\ <<i, v>> \in DOMAIN p.view /\ p.view[<<i, v>>][h] # NoValue => labels[v][h] # NoValue
  <2>1. /\ snaps[i].labels[v][h] \in Values /\ v \in DOMAIN snaps[i].labels
        /\ snaps[i].labels[v][h] = NoValue \/ Good(snaps[i].labels[v][h], v, snaps[i].at, h)
    BY <1>1 DEF SnapGood
  <2>2. labels[v][h] = IF <<<<i, v>>, h>> \in p.changed THEN p.view[<<i, v>>][h] ELSE snaps[i].labels[v][h]
    BY <2>1 DEF Written
  <2>3. <<i, v>> \in DOMAIN p.view => ViewGood(p, <<i, v>>, h)
    BY DEF PassGood
  <2>4. CASE <<<<i, v>>, h>> \in p.changed
    <3>1. <<i, v>> \in DOMAIN p.view
      BY <2>4 DEF PassGood
    <3>2. p.view[<<i, v>>][h] # NoValue /\ Good(p.view[<<i, v>>][h], v, snaps[i].at, h)
      BY <2>3, <2>4, <3>1 DEF ViewGood
    <3> QED
      BY <2>2, <2>4, <3>2 DEF Good
  <2>5. CASE <<<<i, v>>, h>> \notin p.changed
    <3>1. <<i, v>> \in DOMAIN p.view /\ p.view[<<i, v>>][h] # NoValue => snaps[i].labels[v][h] # NoValue
      BY <2>3, <2>5 DEF ViewGood
    <3> QED
      BY <2>1, <2>2, <2>5, <3>1
  <2> QED
    BY <2>4, <2>5
<1>3. labels \in [D -> [Horizons -> Values]]
  BY <1>1, <1>2 DEF Written
<1>4. labels \in Labelings
  BY <1>3 DEF Labelings
<1> QED
  BY <1>1, <1>2, <1>3, <1>4

\* A snapshot after a pass.
LEMMA UpdatedFacts ==
    ASSUME LabelTypes, NEW p, PassGood(p), NEW i \in DOMAIN snaps, SnapGood(snaps[i]), NEW labels,
           Written(p, snaps[i], i, labels), NEW copies, Copies(snaps[i], copies), NEW new,
           Updated(p, snaps[i], i, labels, copies, new)
    PROVE  /\ new \in Snaps /\ SnapGood(new) /\ new.at = snaps[i].at
           /\ DOMAIN new.labels = DOMAIN snaps[i].labels
           /\ \A v \in DOMAIN new.labels : \A h \in Horizons :
                snaps[i].labels[v][h] # NoValue => new.labels[v][h] # NoValue
<1> DEFINE s == snaps[i]
<1> DEFINE added == {v \in DOMAIN labels : <<i, v>> \in DOMAIN p.view /\ Full(p.view[<<i, v>>])}
<1>1. s \in Snaps
  BY SnapTypes
<1>2. /\ labels \in Labelings /\ DOMAIN labels = DOMAIN s.labels
      /\ \A v \in DOMAIN labels : \A h \in Horizons :
           /\ labels[v][h] = NoValue \/ Good(labels[v][h], v, s.at, h)
           /\ s.labels[v][h] # NoValue => labels[v][h] # NoValue
           /\ <<i, v>> \in DOMAIN p.view /\ p.view[<<i, v>>][h] # NoValue => labels[v][h] # NoValue
  BY WrittenFacts
<1>3. DOMAIN labels \in SUBSET Venues
  BY <1>2 DEF Labelings
<1>4. PICK full \in BOOLEAN : full = Full(copies[OwnVenue])
  BY DEF Full
<1>5. new = [s EXCEPT !.labels = labels, !.labeled = @ \cup added, !.copies = copies, !.done = @ \/ full]
  BY <1>4 DEF Updated
<1> HIDE DEF s
<1>6. /\ s.at \in Int /\ s.ref \in Refs /\ s.labeled \in SUBSET Venues /\ s.done \in BOOLEAN
      /\ added \in SUBSET Venues /\ copies \in [Copied -> [Horizons -> Values]]
  BY <1>1, <1>3 DEF Snaps, Copies
<1> HIDE DEF added
<1>7. /\ new.at = s.at /\ new.ref = s.ref /\ new.labels = labels /\ new.labeled = s.labeled \cup added
      /\ new.copies = copies /\ new.done = (s.done \/ full)
  BY ONLY <1>1, <1>5 DEF Snaps
<1>8. new \in Snaps
  <2>1. s.labeled \cup added \in SUBSET Venues /\ (s.done \/ full) \in BOOLEAN
    BY ONLY <1>6, full \in BOOLEAN
  <2> QED
    BY ONLY <1>1, <1>2, <1>5, <1>6, <2>1 DEF Snaps
<1>9. SnapGood(s)
  BY DEF s
<1>10. ASSUME NEW v \in DOMAIN labels, NEW h \in Horizons
       PROVE  (labels[v][h] = NoValue /\ v \notin new.labeled) \/ Good(labels[v][h], v, s.at, h)
  <2>1. CASE labels[v][h] # NoValue
    BY <1>2, <2>1
  <2>2. CASE labels[v][h] = NoValue
    <3>1. s.labels[v][h] = NoValue
      BY <1>2, <2>2
    <3>2. v \notin s.labeled
      <4>1. Good(s.labels[v][h], v, s.at, h) => s.labels[v][h] # NoValue
        BY GoodIsFilled
      <4> QED
        BY <1>2, <1>9, <3>1, <4>1 DEF SnapGood
    <3>3. v \notin added
      BY <1>2, <2>2 DEF added, Full
    <3> QED
      BY <1>7, <2>2, <3>2, <3>3
  <2> QED
    BY <2>1, <2>2
<1>11. ASSUME NEW v \in Copied, NEW h \in Horizons
       PROVE  (copies[v][h] = NoValue /\ (v = OwnVenue => ~new.done)) \/ Good(copies[v][h], v, s.at, h)
  <2>1. copies[v][h] = s.copies[v][h] \/ Good(copies[v][h], v, s.at, h)
    BY DEF Copies, s
  <2>2. (s.copies[v][h] = NoValue /\ (v = OwnVenue => ~s.done)) \/ Good(s.copies[v][h], v, s.at, h)
    BY <1>9 DEF SnapGood
  <2>3. CASE copies[v][h] = NoValue /\ copies[v][h] = s.copies[v][h]
    <3>1. Good(s.copies[v][h], v, s.at, h) => s.copies[v][h] # NoValue
      BY GoodIsFilled
    <3>2. v = OwnVenue => ~full
      BY <1>4, <2>3 DEF Full
    <3> QED
      BY <1>7, <2>2, <2>3, <3>1, <3>2
  <2>4. CASE copies[v][h] # NoValue /\ copies[v][h] = s.copies[v][h]
    BY <2>2, <2>4
  <2> QED
    BY <2>1, <2>3, <2>4
<1>12. SnapGood(new)
  BY <1>7, <1>10, <1>11 DEF SnapGood
<1> QED
  BY <1>2, <1>7, <1>8, <1>12 DEF s

\* What a pass copies is a label as good as the one it stands for.
LEMMA CopyFacts ==
    ASSUME LabelTypes, NEW l \in Labellers, PassGood(passes[l]), NEW i \in DOMAIN snaps, SnapGood(snaps[i])
    PROVE  Copies(snaps[i], Synced(l, i)) /\ Copies(snaps[i], snaps[i].copies)
<1>1. snaps[i].copies \in [Copied -> [Horizons -> Values]]
  BY SnapTypes
<1>2. ASSUME NEW v \in Copied, NEW h \in Horizons, Seen(l, i, v)[h] # NoValue
      PROVE  Good(Seen(l, i, v)[h], v, snaps[i].at, h)
  <2>1. CASE <<i, v>> \in DOMAIN passes[l].view
    <3>1. ViewGood(passes[l], <<i, v>>, h) /\ Seen(l, i, v) = passes[l].view[<<i, v>>]
      BY <2>1 DEF PassGood, Seen
    <3> QED
      BY <1>2, <3>1 DEF ViewGood
  <2>2. CASE <<i, v>> \notin DOMAIN passes[l].view /\ v \in DOMAIN snaps[i].labels
    <3>1. Seen(l, i, v) = snaps[i].labels[v]
      BY <2>2 DEF Seen
    <3> QED
      BY <1>2, <2>2, <3>1 DEF SnapGood
  <2>3. CASE <<i, v>> \notin DOMAIN passes[l].view /\ v \notin DOMAIN snaps[i].labels
    <3>1. Seen(l, i, v)[h] = NoValue
      BY <2>3 DEF Seen, Blank
    <3> QED
      BY <1>2, <3>1
  <2> QED
    BY <2>1, <2>2, <2>3
<1>3. PICK copies : copies = Synced(l, i)
  OBVIOUS
<1>4. ASSUME NEW v \in Copied, NEW h \in Horizons
      PROVE  /\ copies[v][h] \in Values
             /\ \/ copies[v][h] = snaps[i].copies[v][h]
                \/ copies[v][h] # NoValue /\ Good(copies[v][h], v, snaps[i].at, h)
  <2>1. \/ copies[v][h] = snaps[i].copies[v][h]
        \/ copies[v][h] = Seen(l, i, v)[h] /\ Seen(l, i, v)[h] # NoValue
    BY <1>3 DEF Synced
  <2> QED
    BY <1>1, <1>2, <2>1 DEF Good
<1>5. copies \in [Copied -> [Horizons -> Values]]
  BY <1>3, <1>4 DEF Synced
<1> QED
  BY <1>1, <1>3, <1>4, <1>5 DEF Copies

LEMMA SyncStep ==
    ASSUME LabelInv, NEW l \in Labellers, SyncAndCommit(l)
    PROVE  LabelInv'
<1> DEFINE pending == {i \in DOMAIN snaps : ~snaps[i].done}
<1> DEFINE synced == {i \in pending : Cardinality({j \in pending : j < i}) < SnapLimit}
<1> DEFINE labels(i) == [v \in DOMAIN snaps[i].labels |-> [h \in Horizons |->
                         IF <<<<i, v>>, h>> \in passes[l].changed THEN passes[l].view[<<i, v>>][h]
                         ELSE snaps[i].labels[v][h]]]
<1> DEFINE copies(i) == IF i \in synced THEN Synced(l, i) ELSE snaps[i].copies
<1> DEFINE added(i) == {v \in DOMAIN labels(i) : <<i, v>> \in DOMAIN passes[l].view /\ Full(Seen(l, i, v))}
<1>1. /\ passes[l].pc = "flushed"
      /\ snaps' = [i \in DOMAIN snaps |->
              [snaps[i] EXCEPT !.labels = labels(i), !.labeled = @ \cup added(i),
                               !.copies = copies(i), !.done = @ \/ Full(copies(i)[OwnVenue])]]
      /\ passes' = [passes EXCEPT ![l] = NoPass]
      /\ UNCHANGED <<lclock, pendingEval, batches, gen>>
  BY DEF SyncAndCommit
<1> HIDE DEF synced
<1>2. LabelTypes /\ SnapsGood /\ PassesGood /\ PassGood(passes[l]) /\ Later
  BY <1>1, LaterTrivial DEF LabelInv, SnapsGood, PassesGood
<1>3. ASSUME NEW i \in DOMAIN snaps
      PROVE  /\ snaps'[i] \in Snaps /\ SnapGood(snaps'[i]) /\ snaps'[i].at = snaps[i].at
             /\ DOMAIN snaps'[i].labels = DOMAIN snaps[i].labels
             /\ \A v \in DOMAIN snaps'[i].labels : \A h \in Horizons :
                  snaps[i].labels[v][h] # NoValue => snaps'[i].labels[v][h] # NoValue
  <2>1. PICK p, new : p = passes[l] /\ new = snaps'[i]
    OBVIOUS
  <2>2. Written(p, snaps[i], i, labels(i))
    BY <2>1 DEF Written
  <2>3. SnapGood(snaps[i]) /\ Copies(snaps[i], copies(i))
    BY <1>2, CopyFacts DEF SnapsGood
  <2>4. added(i) = {v \in DOMAIN labels(i) : <<i, v>> \in DOMAIN p.view /\ Full(p.view[<<i, v>>])}
    BY <2>1 DEF Seen
  <2>5. PICK ls, cs : ls = labels(i) /\ cs = copies(i)
    OBVIOUS
  <2>6. new = [snaps[i] EXCEPT !.labels = ls, !.labeled = @ \cup added(i),
                               !.copies = cs, !.done = @ \/ Full(cs[OwnVenue])]
    BY <1>1, <2>1, <2>5
  <2> HIDE DEF labels, copies, added
  <2>7. Updated(p, snaps[i], i, ls, cs, new)
    BY <2>4, <2>5, <2>6 DEF Updated
  <2> QED
    BY <1>2, <2>1, <2>2, <2>3, <2>5, <2>7, UpdatedFacts
<1>4. DOMAIN snaps' = DOMAIN snaps
  BY <1>1
<1> HIDE DEF pending, labels, copies, added
<1>5. Fills
  BY <1>3, <1>4 DEF Fills
<1>6. SnapsGood'
  <2>1. ASSUME NEW i \in DOMAIN snaps PROVE SnapGood(snaps[i])'
    <3>1. PICK new : new = snaps'[i]
      OBVIOUS
    <3>2. SnapGood(new)'
      BY <1>2, <1>3, <3>1, SnapStays
    <3> QED
      BY <3>1, <3>2
  <2> QED
    BY <1>4, <2>1 DEF SnapsGood
<1>7. snaps' \in Seq(Snaps)
  <2>1. Len(snaps) \in Nat /\ DOMAIN snaps = 1..Len(snaps)
    BY <1>2 DEF LabelTypes
  <2>2. snaps' = [i \in 1..Len(snaps) |-> snaps'[i]]
    BY <1>1, <2>1
  <2>3. snaps' \in [1..Len(snaps) -> Snaps]
    BY <1>3, <2>1, <2>2
  <2> QED
    BY <2>1, <2>3, SeqDef
<1>8. GoOn /\ DOMAIN passes' = Labellers
  BY <1>1, <1>2 DEF GoOn, LabelTypes
<1>9. LabelTypes'
  BY <1>1, <1>2, <1>7, <1>8, PassTypes DEF LabelTypes
<1> QED
  BY <1>1, <1>2, <1>5, <1>6, <1>8, <1>9, PassesStay DEF LabelInv, SnapsGood

-----------------------------------------------------------------------------
(* Every label is honest. *)

LEMMA LabelStart == LabelInit => LabelInv
<1> SUFFICES ASSUME LabelInit PROVE LabelInv
  OBVIOUS
<1>1. /\ lclock = 0 /\ pendingEval = -1 /\ batches = << >> /\ snaps = << >> /\ gen = 0
      /\ DOMAIN passes = Labellers /\ \A l \in Labellers : passes[l] = NoPass
  BY DEF LabelInit
<1> QED
  BY <1>1, NoPassFacts DEF LabelInv, LabelTypes, PassesGood

LEMMA LabelStep == LabelInv /\ [LabelNext]_labelVars => LabelInv'
  BY TimeSteps, CommitStep, ClearStep, ReadStep, FlushStep, SyncStep DEF LabelNext

LEMMA InvIsHonest == LabelInv => LabelHonest
  BY DEF LabelInv, SnapGood, Good, LabelHonest

\* A pass that is flushed is about the data set as it is, what it has read is still what
\* it fills, and every value stays good while prices are committed after it.
THEOREM LabelInductive == LabelSpec => []LabelInv
  BY LabelStart, LabelStep, PTL DEF LabelSpec

\* However evaluations, passes, clearings and restarts interleave, every label and every
\* copy describes exactly its window, and what counts as labelled is filled.
THEOREM LabelsAreHonest == LabelSpec => []LabelHonest
  BY LabelInductive, InvIsHonest, PTL

-----------------------------------------------------------------------------
(* The measurements of a trade: the inductive invariant. *)

\* A quote is that of a book not much older than the time it is shown under.
Shots == {q \in [src : Int, cost : Nat, of : Int] : q.of >= q.src - BookAge}
Lines == [status : {"unobserved", "observed", "missed_window"}, src : Int, value : Int]
Measures == [last : Int, best : Int, worst : Int, positive : Int, rows : [ObsHorizons -> Lines]]
Shadows == [status : {"none", "awaiting_reference", "missing_reference_window", "observing"},
            origin : Int, last : Int, ref : Int, best : Int, worst : Int, rows : [ObsHorizons -> Lines]]
Deals == [phase : {"none", "pending", "open", "closing", "closed"}, opened : Int, amount : Int,
          entry : Int, requested : Int]

\* Counting and RowTells for any quotes.
CountingIn(qs, from) ==
    {i \in DOMAIN qs : qs[i].src >= from /\ \A j \in 1..(i - 1) : qs[j].src < qs[i].src}

Since(qs, counting, at) == {i \in counting : qs[i].src >= at}

Tells(qs, row, h, from, counting, values) ==
    LET later == Since(qs, counting, from + h)
        first == Min(later)
    IN  IF later = {} THEN row.status = "unobserved"
        ELSE IF qs[first].src <= from + h + ObsWindow
             THEN row = [status |-> "observed", src |-> qs[first].src, value |-> values[first]]
             ELSE row.status = "missed_window"

\* The last quote that counts is the newest of all.
LastIn(last, qs, from) ==
    \/ last = -1 /\ \A i \in DOMAIN qs : qs[i].src < from
    \/ /\ \E i \in CountingIn(qs, from) : qs[i].src = last
       /\ last >= from /\ \A i \in DOMAIN qs : qs[i].src <= last

Net(cost, entry) == 100 * (cost - entry) - FeesOf(cost) - FeesOf(entry)
Nets(qs, entry) == [i \in DOMAIN qs |-> Net(qs[i].cost, entry)]
Changes(qs, ref) == [i \in DOMAIN qs |-> qs[i].cost - ref]

\* The greatest and the least of some values.
Spans(values, counting, best, worst) ==
    counting # {} => /\ \E i \in counting : best = values[i]
                     /\ \E i \in counting : worst = values[i]
                     /\ \A i \in counting : worst <= values[i] /\ values[i] <= best

MeasureGood(m, qs, from, entry) ==
    LET counting == CountingIn(qs, from)
    IN  /\ m \in Measures /\ LastIn(m.last, qs, from)
        /\ \A h \in ObsHorizons : Tells(qs, m.rows[h], h, from, counting, Nets(qs, entry))
        /\ Spans(Nets(qs, entry), counting, m.best, m.worst)

\* The first quote that counts came in time to be the reference.
Usably(qs, counting, from) == counting # {} /\ qs[Min(counting)].src <= from + ObsWindow

ShadowGood(s, qs) ==
    LET counting == CountingIn(qs, s.origin)
    IN  /\ s \in Shadows /\ s.origin \in Nat /\ LastIn(s.last, qs, s.origin)
        /\ \A i \in DOMAIN qs : qs[i].src <= s.origin + Max(ObsHorizons) + ObsWindow
        /\ IF Usably(qs, counting, s.origin)
           THEN /\ s.ref = qs[Min(counting)].cost
                /\ \A h \in ObsHorizons : Tells(qs, s.rows[h], h, s.origin, counting, Changes(qs, s.ref))
           ELSE s.ref = -1 /\ s.rows = Blanks

\* A book that arrived.
Arrived(b, src, recv) == [src |-> src, recv |-> recv, bids |-> b.bids, asks |-> b.asks,
                          flaw |-> b.flaw, rules |-> b.rules]

BookIs == book = NoBook \/ \E b \in ObsBooks, src \in Int, recv \in Int : book = Arrived(b, src, recv)

ObsTypes == oclock \in Nat /\ deal \in Deals /\ quotes \in Seq(Shots) /\ BookIs

ObsInv ==
    /\ ObsTypes
    /\ deal.phase \in {"none", "pending"} => measure = NoMeasure /\ quotes = << >>
    /\ deal.phase \in {"open", "closing"} => deal.opened \in Nat /\ MeasureGood(measure, quotes, deal.opened, deal.entry)
    /\ deal.phase = "closed" => ShadowGood(shadow, quotes)

-----------------------------------------------------------------------------
(* What a book pays. *)

\* One step of Consume.
Fill(levels, side, v) ==
    LET i == BestOf(levels, side, v.rest)
        q == Smaller2(v.left, levels[i].amount)
    IN  [left |-> v.left - q, cost |-> v.cost + q * levels[i].price, rest |-> v.rest \ {i}]

Takes(levels, side, amount, m, f) ==
    f = [n \in 0..m |-> IF n = 0 THEN [left |-> amount, cost |-> 0, rest |-> DOMAIN levels]
                        ELSE LET old == f[n - 1]
                                 i == BestOf(levels, side, old.rest)
                                 q == Smaller2(old.left, levels[i].amount)
                             IN  [left |-> old.left - q, cost |-> old.cost + q * levels[i].price,
                                  rest |-> old.rest \ {i}]]

\* Levels that can be consumed.
Market(levels) == levels \in Seq(Levels) /\ \A i \in DOMAIN levels : Usable(levels[i])

LEMMA MarketLevels ==
    ASSUME NEW levels, Market(levels)
    PROVE  /\ Len(levels) \in Nat /\ DOMAIN levels = 1..Len(levels)
           /\ \A i \in 1..Len(levels) : /\ levels[i].price \in Nat /\ levels[i].price > 0
                                        /\ levels[i].amount \in Nat
<1>1. /\ Len(levels) \in Nat /\ DOMAIN levels = 1..Len(levels)
      /\ \A i \in 1..Len(levels) : levels[i] \in Levels
  BY DEF Market
<1>2. \A i \in 1..Len(levels) : levels[i].price \in Int /\ levels[i].amount \in Int
  BY ONLY <1>1 DEF Levels
<1>3. \A i \in 1..Len(levels) : levels[i].price > 0 /\ levels[i].amount >= 0
  BY <1>1 DEF Market, Usable
<1> QED
  BY ONLY <1>1, <1>2, <1>3

LEMMA BestIsThere ==
    ASSUME NEW levels, Market(levels), NEW side, NEW rest \in SUBSET (1..Len(levels)), rest # {}
    PROVE  BestOf(levels, side, rest) \in rest
<1> PICK m : m = Len(levels)
  OBVIOUS
<1>1. m \in Nat /\ rest \in SUBSET (1..m) /\ \A i \in 1..m : levels[i].price \in Int
  BY MarketLevels
<1>2. \E i \in rest : \A j \in rest : ~Better(side, levels[j].price, levels[i].price)
  <2>1. CASE side = "buy"
    <3> DEFINE f == [i \in rest |-> 0 - levels[i].price]
    <3>1. \A i \in rest : f[i] \in Int
      BY <1>1
    <3> HIDE DEF f
    <3>2. PICK i \in rest : \A j \in rest : f[i] >= f[j]
      BY ONLY <1>1, <3>1, rest # {}, GreatestValue
    <3>3. ASSUME NEW j \in rest PROVE ~(levels[j].price < levels[i].price)
      <4>1. 0 - levels[i].price >= 0 - levels[j].price
        BY <3>2 DEF f
      <4>2. levels[i].price \in Int /\ levels[j].price \in Int
        BY <1>1
      <4> QED
        BY ONLY <4>1, <4>2
    <3> QED
      BY <2>1, <3>3 DEF Better
  <2>2. CASE side # "buy"
    <3> DEFINE f == [i \in rest |-> levels[i].price]
    <3>1. \A i \in rest : f[i] \in Int
      BY <1>1
    <3> HIDE DEF f
    <3>2. PICK i \in rest : \A j \in rest : f[i] >= f[j]
      BY ONLY <1>1, <3>1, rest # {}, GreatestValue
    <3>3. ASSUME NEW j \in rest PROVE ~(levels[j].price > levels[i].price)
      <4>1. levels[i].price >= levels[j].price
        BY <3>2 DEF f
      <4>2. levels[i].price \in Int /\ levels[j].price \in Int
        BY <1>1
      <4> QED
        BY ONLY <4>1, <4>2
    <3> QED
      BY <2>2, <3>3 DEF Better
  <2> QED
    BY <2>1, <2>2
<1> QED
  BY <1>2 DEF BestOf

LEMMA Product == \A q, p \in Nat : q * p \in Nat
  OBVIOUS

\* A step of Consume takes one level and pays for it.
LEMMA FillStep ==
    ASSUME NEW levels, Market(levels), NEW side, NEW v,
           v \in [left : Nat, cost : Nat, rest : SUBSET (1..Len(levels))], v.rest # {}
    PROVE  /\ Fill(levels, side, v) \in [left : Nat, cost : Nat, rest : SUBSET (1..Len(levels))]
           /\ \E i \in v.rest : Fill(levels, side, v).rest = v.rest \ {i}
<1> PICK i : i = BestOf(levels, side, v.rest)
  OBVIOUS
<1> PICK q : q = Smaller2(v.left, levels[i].amount)
  OBVIOUS
<1>1. v.left \in Nat /\ v.cost \in Nat /\ v.rest \in SUBSET (1..Len(levels))
  OBVIOUS
<1>2. i \in v.rest /\ i \in 1..Len(levels)
  BY <1>1, BestIsThere
<1>3. levels[i].price \in Nat /\ levels[i].amount \in Nat
  BY <1>2, MarketLevels
<1>4. q \in Nat /\ v.left - q \in Nat
  BY <1>1, <1>3 DEF Smaller2
<1>5. q * levels[i].price \in Nat
  BY <1>3, <1>4, Product
<1>6. v.cost + q * levels[i].price \in Nat
  BY ONLY <1>1, <1>5
<1>7. Fill(levels, side, v) = [left |-> v.left - q, cost |-> v.cost + q * levels[i].price, rest |-> v.rest \ {i}]
  BY DEF Fill
<1> PICK left, cost : left = v.left - q /\ cost = v.cost + q * levels[i].price
  OBVIOUS
<1>8. Fill(levels, side, v) = [left |-> left, cost |-> cost, rest |-> v.rest \ {i}]
  BY ONLY <1>7, left = v.left - q, cost = v.cost + q * levels[i].price
<1>9. left \in Nat /\ cost \in Nat /\ v.rest \ {i} \in SUBSET (1..Len(levels))
  BY <1>1, <1>4, <1>6
<1> QED
  BY ONLY <1>2, <1>8, <1>9

LEMMA ConsumePays ==
    ASSUME NEW levels, Market(levels), NEW side, NEW amount \in Int
    PROVE  Consume(levels, side, amount) = Nothing \/ \E c \in Nat : Consume(levels, side, amount) = [cost |-> c]
<1>1. CASE ~(amount > 0)
  BY <1>1 DEF Consume
<1>2. CASE amount > 0
  <2> PICK m : m = Len(levels)
    OBVIOUS
  <2> PICK V : V = [left : Nat, cost : Nat, rest : SUBSET (1..m)]
    OBVIOUS
  <2> PICK x : x = [left |-> amount, cost |-> 0, rest |-> DOMAIN levels]
    OBVIOUS
  <2>1. m \in Nat /\ DOMAIN levels = 1..m
    BY MarketLevels
  <2>2. x \in V /\ x.rest = 1..m
    <3>1. amount \in Nat
      BY <1>2
    <3> QED
      BY ONLY <2>1, <3>1, x = [left |-> amount, cost |-> 0, rest |-> DOMAIN levels],
              V = [left : Nat, cost : Nat, rest : SUBSET (1..m)]
  <2>3. \A v \in V : v.rest # {} => /\ Fill(levels, side, v) \in V
                                    /\ \E i \in v.rest : Fill(levels, side, v).rest = v.rest \ {i}
    BY FillStep
  <2> DEFINE G == [n \in 1..m |-> [v \in V |-> IF v.rest = {} THEN v ELSE Fill(levels, side, v)]]
  <2>4. G \in [1..m -> [V -> V]]
    BY <2>3
  <2>5. \A n \in 1..m : \A v \in V : G[n][v] = IF v.rest = {} THEN v ELSE Fill(levels, side, v)
    OBVIOUS
  <2> HIDE DEF G
  <2>6. PICK g \in [0..m -> V] : g[0] = x /\ \A n \in 1..m : g[n] = G[n][g[n - 1]]
    <3>1. Steps(m, V, x, G)
      BY <2>1, <2>2, <2>4 DEF Steps
    <3>2. \E f : Follows(m, V, x, G, f)
      BY ONLY <3>1, Recursion
    <3> QED
      BY <3>2 DEF Follows
  \* One level fewer is left after every step.
  <2>7. \A n \in 0..m : IsFiniteSet(g[n].rest) /\ Cardinality(g[n].rest) = m - n
    <3> DEFINE T == {n \in 0..m : IsFiniteSet(g[n].rest) /\ Cardinality(g[n].rest) = m - n}
    <3>1. 0 \in T
      <4>1. IsFiniteSet(1..m) /\ Cardinality(1..m) = m
        BY ONLY <2>1, FS_Interval
      <4>2. 0 \in 0..m /\ m - 0 = m
        BY ONLY <2>1
      <4> QED
        BY <2>2, <2>6, <4>1, <4>2
    <3>2. ASSUME NEW n \in 1..m, n - 1 \in T PROVE n \in T
      <4>1. n - 1 \in 0..m /\ m - (n - 1) > 0 /\ m - (n - 1) \in Nat /\ m - n = m - (n - 1) - 1 /\ n \in 0..m
        BY ONLY <2>1, n \in 1..m
      <4> PICK v : v = g[n - 1]
        OBVIOUS
      <4>2. v \in V /\ IsFiniteSet(v.rest) /\ Cardinality(v.rest) = m - (n - 1)
        BY <3>2, <4>1, <2>6
      <4>3. v.rest # {}
        BY <4>1, <4>2, FS_EmptySet
      <4>4. g[n] = Fill(levels, side, v)
        BY <2>5, <2>6, <4>2, <4>3
      <4>5. PICK i \in v.rest : g[n].rest = v.rest \ {i}
        BY <2>3, <4>2, <4>3, <4>4
      <4>6. IsFiniteSet(v.rest \ {i}) /\ Cardinality(v.rest \ {i}) = Cardinality(v.rest) - 1
        BY <4>2, FS_RemoveElement
      <4>7. Cardinality(v.rest \ {i}) = m - n
        BY ONLY <4>1, <4>2, <4>6
      <4> QED
        BY <4>1, <4>5, <4>6, <4>7
    <3>3. \A n \in 0..m : n \in T
      <4> HIDE DEF T
      <4> QED
        BY ONLY <2>1, <3>1, <3>2, UpTo
    <3> QED
      BY <3>3
  <2>8. \A n \in 0..m : g[n] = IF n = 0 THEN x ELSE Fill(levels, side, g[n - 1])
    <3> SUFFICES ASSUME NEW n \in 0..m, n # 0 PROVE g[n] = Fill(levels, side, g[n - 1])
      BY <2>6
    <3>1. n \in 1..m /\ n - 1 \in 0..m /\ m - (n - 1) > 0
      BY ONLY <2>1, n \in 0..m, n # 0
    <3>2. g[n - 1] \in V /\ g[n - 1].rest # {}
      <4>1. Cardinality(g[n - 1].rest) = m - (n - 1) /\ g[n - 1] \in V
        BY <2>6, <2>7, <3>1
      <4>2. Cardinality({}) = 0
        BY FS_EmptySet
      <4>3. m - (n - 1) # 0
        BY ONLY <2>1, <3>1, n \in 0..m
      <4> QED
        BY ONLY <4>1, <4>2, <4>3
    <3> QED
      BY <2>5, <2>6, <3>1, <3>2
  <2>9. g = [n \in 0..m |-> IF n = 0 THEN x ELSE Fill(levels, side, g[n - 1])]
    BY <2>6, <2>8
  <2>10. Takes(levels, side, amount, m, g)
    BY <2>9 DEF Takes, Fill
  <2> PICK f : f = CHOOSE t : Takes(levels, side, amount, m, t)
    OBVIOUS
  <2>11. Takes(levels, side, amount, m, f)
    BY <2>10
  <2>12. f = [n \in 0..m |-> IF n = 0 THEN x ELSE Fill(levels, side, f[n - 1])]
    BY <2>11 DEF Takes, Fill
  <2>13. \A n \in 0..m : f[n] = g[n]
    <3> DEFINE T == {n \in 0..m : f[n] = g[n]}
    <3>1. 0 \in T
      <4>1. 0 \in 0..m
        BY ONLY <2>1
      <4>2. f[0] = x
        BY ONLY <2>12, <4>1
      <4> QED
        BY <2>6, <4>1, <4>2
    <3>2. ASSUME NEW n \in 1..m, n - 1 \in T PROVE n \in T
      <4>1. n \in 0..m /\ n # 0
        BY <2>1
      <4>2. f[n] = Fill(levels, side, f[n - 1])
        BY ONLY <2>12, <4>1
      <4>3. g[n] = Fill(levels, side, g[n - 1])
        BY ONLY <2>8, <4>1
      <4>4. f[n - 1] = g[n - 1]
        BY <3>2
      <4>5. f[n] = g[n]
        BY ONLY <4>2, <4>3, <4>4
      <4> QED
        BY ONLY <4>1, <4>5
    <3>3. \A n \in 0..m : n \in T
      <4> HIDE DEF T
      <4> QED
        BY ONLY <2>1, <3>1, <3>2, UpTo
    <3> QED
      BY <3>3
  <2>14. Consume(levels, side, amount) = IF amount > 0 /\ f[m].left = 0 THEN [cost |-> f[m].cost] ELSE Nothing
    BY DEF Consume, Takes
  <2>15. f[m].cost \in Nat
    <3>1. m \in 0..m
      BY ONLY <2>1
    <3>2. f[m] \in V
      BY ONLY <2>13, <3>1, g \in [0..m -> V]
    <3> QED
      BY ONLY <3>2, V = [left : Nat, cost : Nat, rest : SUBSET (1..m)]
  <2> PICK c : c = f[m].cost
    OBVIOUS
  <2> QED
    BY ONLY <2>14, <2>15, c = f[m].cost
<1> QED
  BY <1>1, <1>2
-----------------------------------------------------------------------------
(* The book at hand and the quote it gives. *)

LEMMA ObsConstants ==
    /\ Notional \in Nat /\ Latency \in Nat /\ ObsWindow \in Nat /\ BookAge \in Nat /\ FeePercent \in Int
    /\ \A h \in ObsHorizons : h \in Nat
  BY ObsAssumption

LEMMA LastHorizon == Max(ObsHorizons) \in Nat /\ \A h \in ObsHorizons : h <= Max(ObsHorizons)
<1>1. IsFiniteSet(ObsHorizons) /\ ObsHorizons # {} /\ ObsHorizons \subseteq Nat
  BY ObsAssumption
<1>2. PICK n \in Nat : ExistsSurjection(1..n, ObsHorizons)
  BY ONLY <1>1, FS_NatSurjection
<1>3. PICK f \in [1..n -> ObsHorizons] : \A h \in ObsHorizons : \E k \in 1..n : f[k] = h
  BY ONLY <1>2 DEF ExistsSurjection, Surjection
<1>4. 1..n # {} /\ \A k \in 1..n : f[k] \in Int
  <2> PICK h \in ObsHorizons : TRUE
    BY ONLY <1>1
  <2>1. \E k \in 1..n : f[k] = h
    BY ONLY <1>3, h \in ObsHorizons
  <2>2. \A k \in 1..n : f[k] \in ObsHorizons
    BY ONLY f \in [1..n -> ObsHorizons]
  <2>3. \A k \in 1..n : f[k] \in Int
    <3> SUFFICES ASSUME NEW k \in 1..n PROVE f[k] \in Int
      OBVIOUS
    <3>1. f[k] \in ObsHorizons
      BY ONLY <2>2, k \in 1..n
    <3> QED
      BY ONLY <3>1, ObsConstants
  <2> QED
    BY ONLY <2>1, <2>3
<1>5. PICK k \in 1..n : \A j \in 1..n : f[k] >= f[j]
  <2> PICK S : S = 1..n
    OBVIOUS
  <2>1. S \in SUBSET (1..n) /\ S # {} /\ \A i \in S : f[i] \in Int
    BY ONLY <1>4, S = 1..n
  <2>2. \E i \in S : \A j \in S : f[i] >= f[j]
    BY ONLY <2>1, n \in Nat, GreatestValue
  <2> QED
    BY ONLY <2>2, S = 1..n
<1>6. f[k] \in ObsHorizons /\ \A h \in ObsHorizons : f[k] >= h
  BY ONLY <1>3, <1>5
<1>7. Max(ObsHorizons) = CHOOSE x \in ObsHorizons : \A y \in ObsHorizons : x >= y
  BY DEF Max
<1>8. Max(ObsHorizons) \in ObsHorizons /\ \A h \in ObsHorizons : Max(ObsHorizons) >= h
  BY ONLY <1>6, <1>7
<1> QED
  BY ONLY <1>1, <1>8

LEMMA BookTypes ==
    ASSUME ObsTypes, book # NoBook
    PROVE  /\ book.src \in Int /\ book.recv \in Int /\ book.bids \in Seq(Levels) /\ book.asks \in Seq(Levels)
           /\ book.rules # << >> => book.rules.step \in Nat \ {0}
<1>1. PICK b \in ObsBooks, src \in Int, recv \in Int : book = Arrived(b, src, recv)
  BY DEF ObsTypes, BookIs
<1>2. b.bids \in Seq(Levels) /\ b.asks \in Seq(Levels) /\ (b.rules # << >> => b.rules.step \in Nat \ {0})
  BY ObsAssumption
<1>3. /\ book.src = src /\ book.recv = recv /\ book.bids = b.bids /\ book.asks = b.asks /\ book.rules = b.rules
  BY ONLY <1>1 DEF Arrived
<1> QED
  BY ONLY <1>2, <1>3, src \in Int, recv \in Int

LEMMA Markets ==
    ASSUME ObsTypes, Executes(book)
    PROVE  book # NoBook /\ Market(book.bids) /\ Market(book.asks) /\ book.bids # << >> /\ book.asks # << >>
           /\ book.src <= oclock
<1>1. book # NoBook /\ Normal(book) /\ book.src <= oclock
  BY DEF Executes
<1> QED
  BY <1>1, BookTypes DEF Market, Normal

LEMMA AskIsPositive ==
    ASSUME ObsTypes, Executes(book) PROVE BestAsk(book) \in Nat /\ BestAsk(book) > 0
<1> PICK levels : levels = book.asks
  OBVIOUS
<1> PICK n : n = Len(levels)
  OBVIOUS
<1>1. Market(levels) /\ levels # << >>
  BY Markets
<1>2. n \in Nat /\ DOMAIN levels = 1..n /\ n # 0 /\ \A i \in 1..n : levels[i].price \in Nat /\ levels[i].price > 0
  BY <1>1, MarketLevels DEF Market
<1> DEFINE f == [i \in 1..n |-> 0 - levels[i].price]
<1>3. \A i \in 1..n : f[i] \in Int
  BY <1>2
<1> HIDE DEF f
<1>4. PICK i \in 1..n : \A j \in 1..n : f[i] >= f[j]
  <2> PICK S : S = 1..n
    OBVIOUS
  <2>1. S \in SUBSET (1..n) /\ S # {} /\ \A i \in S : f[i] \in Int
    BY ONLY <1>2, <1>3, S = 1..n
  <2>2. \E i \in S : \A j \in S : f[i] >= f[j]
    BY ONLY <1>2, <2>1, GreatestValue
  <2> QED
    BY ONLY <2>2, S = 1..n
<1>5. \A j \in 1..n : levels[i].price <= levels[j].price
  <2> SUFFICES ASSUME NEW j \in 1..n PROVE levels[i].price <= levels[j].price
    OBVIOUS
  <2>1. 0 - levels[i].price >= 0 - levels[j].price
    BY <1>4 DEF f
  <2>2. levels[i].price \in Nat /\ levels[j].price \in Nat
    BY <1>2
  <2> QED
    BY ONLY <2>1, <2>2
<1>6. BestAsk(book) = CHOOSE p \in Prices(levels) : \A q \in Prices(levels) : p <= q
  BY DEF BestAsk, Min
<1>7. BestAsk(book) \in Prices(levels)
  <2>1. levels[i].price \in Prices(levels) /\ \A q \in Prices(levels) : levels[i].price <= q
    BY ONLY <1>2, <1>5, i \in 1..n DEF Prices
  <2> QED
    BY ONLY <1>6, <2>1
<1> QED
  BY <1>2, <1>7 DEF Prices

LEMMA LotsTyped == ASSUME ObsTypes, Executes(book), NEW most \in Int PROVE LotsAt(most) \in Int
<1> PICK price, requested : price = BestAsk(book) /\ requested = Smaller2(most, Notional \div BestAsk(book))
  OBVIOUS
<1>1. price \in Nat /\ price > 0 /\ Notional \in Nat
  BY AskIsPositive, ObsConstants
<1>2. Notional \div price \in Int
  BY ONLY <1>1
<1>3. requested \in Int
  BY ONLY <1>2, requested = Smaller2(most, Notional \div BestAsk(book)), price = BestAsk(book), most \in Int DEF Smaller2
<1>4. LotsAt(most) = Executable(requested, price, book.rules, Notional)
  BY DEF LotsAt
<1>5. CASE book.rules = << >>
  BY <1>3, <1>4, <1>5 DEF Executable
<1>6. CASE book.rules # << >>
  <2> PICK step : step = book.rules.step
    OBVIOUS
  <2>1. step \in Nat \ {0}
    BY <1>6, BookTypes, Markets
  <2>2. (requested \div step) * step \in Int
    BY ONLY <1>3, <2>1
  <2> PICK amount : amount = (requested \div step) * step
    OBVIOUS
  <2>3. LotsAt(most) = amount \/ LotsAt(most) = 0
    BY <1>4, <1>6 DEF Executable
  <2> QED
    BY ONLY <2>2, <2>3, amount = (requested \div step) * step
<1> QED
  BY <1>5, <1>6

\* What this tick shows under a time.
Shot(src) == [src |-> src, cost |-> ExitQuote.cost, of |-> book.src]

\* What an open trade could be sold for.
LEMMA QuoteTypes ==
    ASSUME ObsTypes, ExitQuote # Nothing
    PROVE  /\ book.src \in Int /\ oclock \in Nat /\ book.src <= oclock
           /\ ExitQuote.cost \in Nat
           /\ \A src \in Int : src <= oclock => Shot(src) \in Shots
<1>1. Executes(book) /\ ExitQuote = Consume(book.bids, "sell", deal.amount)
  BY DEF ExitQuote
<1>2. deal.amount \in Int /\ oclock \in Nat
  BY DEF ObsTypes, Deals
<1>3. Market(book.bids) /\ book # NoBook /\ book.src <= oclock
  BY <1>1, Markets
<1>4. PICK c \in Nat : ExitQuote = [cost |-> c]
  BY <1>1, <1>2, <1>3, ConsumePays
<1>5. ExitQuote.cost \in Nat
  BY ONLY <1>4
<1>6. book.src \in Int /\ book.recv \in Int
  BY <1>3, BookTypes
<1>7. oclock - book.src <= BookAge /\ BookAge \in Nat
  <2>1. AgeOf(book) <= BookAge /\ BookAge \in Nat
    BY <1>1, ObsConstants DEF Executes
  <2> QED
    BY <1>2, <1>6, <2>1 DEF AgeOf, Larger2
<1>8. ASSUME NEW src \in Int, src <= oclock PROVE Shot(src) \in Shots
  <2> PICK cost, of, age, now : cost = ExitQuote.cost /\ of = book.src /\ age = BookAge /\ now = oclock
    OBVIOUS
  <2>1. of >= src - age
    <3>1. of \in Int /\ now \in Int /\ age \in Int /\ now - of <= age /\ src <= now
      BY <1>2, <1>6, <1>7, <1>8
    <3> QED
      BY ONLY <3>1, src \in Int
  <2>2. Shot(src) = [src |-> src, cost |-> cost, of |-> of] /\ cost \in Nat /\ of \in Int
    BY <1>5, <1>6 DEF Shot
  <2> QED
    BY ONLY <2>1, <2>2, age = BookAge, src \in Int DEF Shots
<1> QED
  BY ONLY <1>2, <1>3, <1>5, <1>6, <1>8
-----------------------------------------------------------------------------
(* The quotes that count. *)

LEMMA ShotTypes ==
    ASSUME NEW qs \in Seq(Shots)
    PROVE  /\ Len(qs) \in Nat /\ DOMAIN qs = 1..Len(qs)
           /\ \A i \in 1..Len(qs) : /\ qs[i].src \in Int /\ qs[i].cost \in Nat
                                   /\ qs[i].of >= qs[i].src - BookAge
<1>1. Len(qs) \in Nat /\ DOMAIN qs = 1..Len(qs) /\ \A i \in 1..Len(qs) : qs[i] \in Shots
  OBVIOUS
<1>2. \A i \in 1..Len(qs) : /\ qs[i].src \in Int /\ qs[i].cost \in Nat
                              /\ qs[i].of >= qs[i].src - BookAge
  BY ONLY <1>1 DEF Shots
<1> QED
  BY ONLY <1>1, <1>2

\* A quote is shown after n others.
Shows(qs, sh, new, n) ==
    /\ n \in Nat /\ DOMAIN qs = 1..n /\ DOMAIN new = 1..(n + 1) /\ new[n + 1] = sh
    /\ \A i \in 1..n : new[i] = qs[i]
    /\ sh.src \in Int /\ sh.cost \in Nat /\ \A i \in 1..n : qs[i].src \in Int /\ qs[i].cost \in Nat

LEMMA ShowsNext ==
    ASSUME NEW qs \in Seq(Shots), NEW sh \in Shots
    PROVE  Append(qs, sh) \in Seq(Shots) /\ Shows(qs, sh, Append(qs, sh), Len(qs))
<1> PICK new : new = Append(qs, sh)
  OBVIOUS
<1>1. /\ new \in Seq(Shots) /\ Len(qs) \in Nat /\ Len(new) = Len(qs) + 1 /\ DOMAIN new = 1..Len(qs) + 1
      /\ DOMAIN qs = 1..Len(qs) /\ new[Len(qs) + 1] = sh /\ \A i \in 1..Len(qs) : new[i] = qs[i]
  BY ONLY qs \in Seq(Shots), sh \in Shots, new = Append(qs, sh), AppendFacts
<1>2. sh.src \in Int /\ sh.cost \in Nat
  BY ONLY sh \in Shots DEF Shots
<1> QED
  BY ONLY <1>1, <1>2, new = Append(qs, sh), qs \in Seq(Shots), ShotTypes DEF Shows

LEMMA CountedIn ==
    ASSUME NEW qs, NEW n \in Nat, DOMAIN qs = 1..n, NEW from
    PROVE  CountingIn(qs, from) \in SUBSET (1..n)
  BY DEF CountingIn

\* An old quote does not count.
LEMMA OldQuote ==
    ASSUME NEW qs, NEW sh, NEW new, NEW n, Shows(qs, sh, new, n),
           NEW from \in Nat, NEW last \in Int, LastIn(last, qs, from),
           sh.src < from \/ sh.src <= last
    PROVE  CountingIn(new, from) = CountingIn(qs, from) /\ LastIn(last, new, from)
<1> USE DEF Shows
<1>0. /\ \A i \in CountingIn(new, from) : i \in 1..n \/ i = n + 1
      /\ \A i \in CountingIn(qs, from) : i \in 1..n
  BY DEF CountingIn
<1>1. \A i \in 1..n : i \in CountingIn(new, from) <=> i \in CountingIn(qs, from)
  <2> SUFFICES ASSUME NEW i \in 1..n PROVE i \in CountingIn(new, from) <=> i \in CountingIn(qs, from)
    OBVIOUS
  <2>1. \A j \in 1..(i - 1) : j \in 1..n /\ new[j] = qs[j]
    OBVIOUS
  <2>2. i \in DOMAIN new /\ i \in DOMAIN qs /\ new[i] = qs[i]
    OBVIOUS
  <2> QED
    BY ONLY <2>1, <2>2 DEF CountingIn
<1>2. CASE sh.src < from
  <2>1. n + 1 \notin CountingIn(new, from)
    BY <1>2 DEF CountingIn
  <2>2. CountingIn(new, from) = CountingIn(qs, from)
    BY ONLY <1>0, <1>1, <2>1
  <2>3. CASE last = -1 /\ \A i \in DOMAIN qs : qs[i].src < from
    <3>1. \A i \in DOMAIN new : new[i].src < from
      BY <1>2, <2>3
    <3> QED
      BY <2>2, <2>3, <3>1 DEF LastIn
  <2>4. CASE /\ \E i \in CountingIn(qs, from) : qs[i].src = last
             /\ last >= from /\ \A i \in DOMAIN qs : qs[i].src <= last
    <3>1. \A i \in DOMAIN new : new[i].src <= last
      BY <1>2, <2>4
    <3>2. \E i \in CountingIn(new, from) : new[i].src = last
      BY <2>2, <2>4 DEF CountingIn
    <3> QED
      BY <2>2, <2>4, <3>1, <3>2 DEF LastIn
  <2> QED
    BY <2>2, <2>3, <2>4 DEF LastIn
<1>3. CASE sh.src >= from /\ sh.src <= last
  <2>1. /\ \E i \in CountingIn(qs, from) : qs[i].src = last
        /\ last >= from /\ \A i \in DOMAIN qs : qs[i].src <= last
    BY <1>3 DEF LastIn
  <2>2. PICK i \in CountingIn(qs, from) : qs[i].src = last
    BY <2>1
  <2>3. i \in 1..n /\ new[i].src >= sh.src
    BY <1>3, <2>2 DEF CountingIn
  <2>4. n + 1 \notin CountingIn(new, from)
    <3>1. i \in 1..((n + 1) - 1) /\ new[n + 1].src = sh.src /\ ~(new[i].src < new[n + 1].src)
      BY <2>3
    <3> QED
      BY ONLY <3>1 DEF CountingIn
  <2>5. CountingIn(new, from) = CountingIn(qs, from)
    BY ONLY <1>0, <1>1, <2>4
  <2>6. \A j \in DOMAIN new : new[j].src <= last
    BY <1>3, <2>1
  <2>7. new[i].src = last
    BY <2>2, <2>3
  <2> QED
    BY <2>1, <2>2, <2>5, <2>6, <2>7 DEF LastIn
<1> QED
  BY <1>2, <1>3

\* A new one counts after all others.
LEMMA NewQuote ==
    ASSUME NEW qs, NEW sh, NEW new, NEW n, Shows(qs, sh, new, n),
           NEW from \in Nat, NEW last \in Int, LastIn(last, qs, from),
           sh.src >= from, sh.src > last
    PROVE  /\ CountingIn(new, from) = CountingIn(qs, from) \cup {n + 1} /\ LastIn(sh.src, new, from)
           /\ \A i \in CountingIn(qs, from) : qs[i].src < sh.src
<1> USE DEF Shows
<1>0. /\ \A i \in CountingIn(new, from) : i \in 1..n \/ i = n + 1
      /\ \A i \in CountingIn(qs, from) : i \in 1..n
  BY DEF CountingIn
<1>1. \A i \in 1..n : i \in CountingIn(new, from) <=> i \in CountingIn(qs, from)
  <2> SUFFICES ASSUME NEW i \in 1..n PROVE i \in CountingIn(new, from) <=> i \in CountingIn(qs, from)
    OBVIOUS
  <2>1. \A j \in 1..(i - 1) : j \in 1..n /\ new[j] = qs[j]
    OBVIOUS
  <2>2. i \in DOMAIN new /\ i \in DOMAIN qs /\ new[i] = qs[i]
    OBVIOUS
  <2> QED
    BY ONLY <2>1, <2>2 DEF CountingIn
<1>2. \A i \in 1..n : qs[i].src < sh.src
  <2>1. CASE last = -1 /\ \A i \in DOMAIN qs : qs[i].src < from
    BY <2>1
  <2>2. CASE \A i \in DOMAIN qs : qs[i].src <= last
    BY <2>2
  <2> QED
    BY <2>1, <2>2 DEF LastIn
<1>3. n + 1 \in CountingIn(new, from)
  <2>1. \A j \in 1..((n + 1) - 1) : new[j].src < new[n + 1].src
    BY <1>2
  <2>2. n + 1 \in DOMAIN new /\ new[n + 1].src >= from
    OBVIOUS
  <2> QED
    BY ONLY <2>1, <2>2 DEF CountingIn
<1>4. CountingIn(new, from) = CountingIn(qs, from) \cup {n + 1}
  BY ONLY <1>0, <1>1, <1>3
<1>5. \A i \in DOMAIN new : new[i].src <= sh.src
  BY <1>2
<1>6. \A i \in CountingIn(qs, from) : qs[i].src < sh.src
  BY <1>2 DEF CountingIn
<1> QED
  BY <1>3, <1>4, <1>5, <1>6 DEF LastIn

\* With a newest quote something counts, and without one nothing does.
LEMMA Counted ==
    ASSUME NEW qs \in Seq(Shots), NEW from \in Nat, NEW last, LastIn(last, qs, from)
    PROVE  /\ (last = -1) <=> (CountingIn(qs, from) = {})
           /\ last = -1 \/ last >= from
           /\ \A i \in DOMAIN qs : qs[i].src < from \/ qs[i].src <= last
<1>1. DOMAIN qs = 1..Len(qs) /\ \A i \in 1..Len(qs) : qs[i].src \in Int
  BY ShotTypes
<1>2. CASE last = -1 /\ \A i \in DOMAIN qs : qs[i].src < from
  BY <1>1, <1>2 DEF CountingIn
<1>3. CASE /\ \E i \in CountingIn(qs, from) : qs[i].src = last
           /\ last >= from /\ \A i \in DOMAIN qs : qs[i].src <= last
  <2>1. last # -1
    BY <1>3
  <2> QED
    BY <1>3, <2>1
<1> QED
  BY <1>2, <1>3 DEF LastIn

-----------------------------------------------------------------------------
(* The horizons. *)

\* A last quote does not change which is the first one.
LEMMA FirstStays ==
    ASSUME NEW n \in Nat, NEW S \in SUBSET (1..n), S # {}
    PROVE  Min(S \cup {n + 1}) = Min(S)
<1> PICK T, a, b : T = S \cup {n + 1} /\ a = Min(S) /\ b = Min(T)
  OBVIOUS
<1>1. a \in S /\ \A i \in S : a <= i
  BY ONLY a = Min(S), n \in Nat, S \in SUBSET (1..n), S # {}, FirstIndex
<1>2. b \in T /\ \A i \in T : b <= i
  <2>1. T \in SUBSET (1..(n + 1)) /\ T # {} /\ n + 1 \in Nat
    OBVIOUS
  <2> QED
    BY ONLY <2>1, b = Min(T), FirstIndex
<1>3. a \in 1..n /\ b \in 1..(n + 1) /\ b <= a /\ (b = n + 1 \/ b \in S)
  <2>1. b = n + 1 \/ b \in S
    BY ONLY <1>2, T = S \cup {n + 1}
  <2>2. b <= a
    BY ONLY <1>1, <1>2, T = S \cup {n + 1}
  <2>3. a \in 1..n
    BY ONLY <1>1, S \in SUBSET (1..n)
  <2>4. b \in 1..n \/ b = n + 1
    BY ONLY <2>1, S \in SUBSET (1..n)
  <2>5. b \in 1..(n + 1)
    BY ONLY <2>4, n \in Nat
  <2> QED
    BY ONLY <2>1, <2>2, <2>3, <2>5
<1>4. b \in S
  BY <1>3
<1>5. a <= b
  BY <1>1, <1>4
<1>6. a = b
  BY <1>3, <1>5
<1> QED
  BY ONLY <1>6, T = S \cup {n + 1}, a = Min(S), b = Min(T)

LEMMA OnlyOne == ASSUME NEW n \in Nat PROVE Min({n + 1}) = n + 1
<1>1. Min({n + 1}) = CHOOSE x \in {n + 1} : \A y \in {n + 1} : x <= y
  BY DEF Min
<1> QED
  BY <1>1

\* A line keeps telling the truth when an old quote is shown.
LEMMA TellsStays ==
    ASSUME NEW qs, NEW sh, NEW new, NEW n, Shows(qs, sh, new, n), NEW C \in SUBSET (1..n),
           NEW row, NEW h \in Nat, NEW from \in Nat, NEW values, NEW values2,
           \A i \in 1..n : values2[i] = values[i],
           Tells(qs, row, h, from, C, values)
    PROVE  Tells(new, row, h, from, C, values2)
<1> PICK S : S = Since(qs, C, from + h)
  OBVIOUS
<1>1. from + h \in Int /\ n \in Nat
  BY DEF Shows
<1>2. Since(new, C, from + h) = S
  <2> PICK at : at = from + h
    OBVIOUS
  <2>1. at \in Int
    BY ONLY <1>1, at = from + h
  <2>2. Since(new, C, at) = Since(qs, C, at)
    BY ONLY Shows(qs, sh, new, n), C \in SUBSET (1..n) DEF Since, Shows
  <2> QED
    BY ONLY <2>2, S = Since(qs, C, from + h), at = from + h
<1>3. CASE S = {}
  BY <1>2, <1>3 DEF Tells
<1>4. CASE S # {}
  <2> PICK first : first = Min(S)
    OBVIOUS
  <2>1. S \in SUBSET (1..n)
    BY DEF Since
  <2>2. first \in 1..n
    BY ONLY <1>1, <1>4, <2>1, first = Min(S), FirstIndex
  <2>3. new[first] = qs[first] /\ values2[first] = values[first]
    BY <2>2 DEF Shows
  <2> QED
    BY <1>2, <1>4, <2>3 DEF Tells
<1> QED
  BY <1>3, <1>4

\* And when a new quote reaches it.
LEMMA TellsNext ==
    ASSUME NEW qs, NEW sh, NEW new, NEW n, Shows(qs, sh, new, n), NEW C \in SUBSET (1..n),
           NEW row \in Lines, NEW h \in Nat, NEW from \in Nat, NEW values, NEW values2,
           \A i \in 1..n : values2[i] = values[i],
           Tells(qs, row, h, from, C, values)
    PROVE  Tells(new, Reached(row, sh.src - from, h, sh.src, values2[n + 1]), h, from, C \cup {n + 1}, values2)
<1> PICK S, T : S = Since(qs, C, from + h) /\ T = Since(new, C \cup {n + 1}, from + h)
  OBVIOUS
<1> PICK value : value = values2[n + 1]
  OBVIOUS
<1> PICK next : next = Reached(row, sh.src - from, h, sh.src, value)
  OBVIOUS
<1>1. from + h \in Int /\ n \in Nat /\ sh.src \in Int /\ new[n + 1] = sh /\ ObsWindow \in Nat
  BY ObsConstants DEF Shows
<1>2. T = IF sh.src >= from + h THEN S \cup {n + 1} ELSE S
  <2> PICK at : at = from + h
    OBVIOUS
  <2>1. at \in Int
    BY ONLY <1>1, at = from + h
  <2>2. Since(new, C \cup {n + 1}, at) = IF sh.src >= at THEN Since(qs, C, at) \cup {n + 1} ELSE Since(qs, C, at)
    <3>1. CASE sh.src >= at
      BY ONLY <2>1, <3>1, Shows(qs, sh, new, n), C \in SUBSET (1..n) DEF Since, Shows
    <3>2. CASE ~(sh.src >= at)
      BY ONLY <2>1, <3>2, Shows(qs, sh, new, n), C \in SUBSET (1..n) DEF Since, Shows
    <3> QED
      BY ONLY <3>1, <3>2
  <2> QED
    BY ONLY <2>2, S = Since(qs, C, from + h) /\ T = Since(new, C \cup {n + 1}, from + h), at = from + h
<1>3. CASE S # {}
  <2> PICK first : first = Min(S)
    OBVIOUS
  <2>1. S \in SUBSET (1..n)
    BY DEF Since
  <2>2. first \in 1..n
    BY ONLY <1>1, <1>3, <2>1, first = Min(S), FirstIndex
  <2>3. new[first] = qs[first] /\ values2[first] = values[first]
    BY <2>2 DEF Shows
  <2>4. T # {} /\ Min(T) = first
    <3>1. Min(S \cup {n + 1}) = Min(S)
      BY ONLY <1>1, <1>3, <2>1, FirstStays
    <3> QED
      BY <1>2, <1>3, <3>1
  <2>5. IF qs[first].src <= from + h + ObsWindow
        THEN row = [status |-> "observed", src |-> qs[first].src, value |-> values[first]]
        ELSE row.status = "missed_window"
    BY <1>3 DEF Tells
  <2>6. next = row
    <3>1. row.status # "unobserved"
      BY <2>5
    <3> QED
      BY <3>1 DEF Reached
  <2>7. IF new[first].src <= from + h + ObsWindow
        THEN next = [status |-> "observed", src |-> new[first].src, value |-> values2[first]]
        ELSE next.status = "missed_window"
    BY ONLY <2>3, <2>5, <2>6
  <2> QED
    BY <2>4, <2>7 DEF Tells
<1>4. CASE S = {} /\ ~(sh.src >= from + h)
  <2>1. row.status = "unobserved" /\ T = {}
    BY <1>2, <1>4 DEF Tells
  <2>2. sh.src - from < h
    BY ONLY <1>1, <1>4, from \in Nat, h \in Nat
  <2>3. next = row
    BY <2>2 DEF Reached
  <2> QED
    BY <2>1, <2>3 DEF Tells
<1>5. CASE S = {} /\ sh.src >= from + h
  <2>1. row.status = "unobserved" /\ T = {n + 1}
    BY <1>2, <1>5 DEF Tells
  <2>2. Min(T) = n + 1
    BY <1>1, <2>1, OnlyOne
  <2>3. ~(sh.src - from < h) /\ (sh.src - from > h + ObsWindow <=> ~(sh.src <= from + h + ObsWindow))
    BY ONLY <1>1, <1>5, from \in Nat, h \in Nat
  <2>4. IF sh.src <= from + h + ObsWindow
        THEN next = [status |-> "observed", src |-> sh.src, value |-> value]
        ELSE next = [row EXCEPT !.status = "missed_window"]
    BY ONLY <2>1, <2>3, next = Reached(row, sh.src - from, h, sh.src, value) DEF Reached
  <2>5. [row EXCEPT !.status = "missed_window"].status = "missed_window"
    BY ONLY row \in Lines DEF Lines
  <2>6. IF new[n + 1].src <= from + h + ObsWindow
        THEN next = [status |-> "observed", src |-> new[n + 1].src, value |-> values2[n + 1]]
        ELSE next.status = "missed_window"
    BY ONLY <1>1, <2>4, <2>5, value = values2[n + 1]
  <2>7. T # {}
    BY <2>1
  <2> QED
    BY <2>2, <2>6, <2>7 DEF Tells
<1> QED
  BY <1>3, <1>4, <1>5

LEMMA ReachedLine ==
    ASSUME NEW row \in Lines, NEW elapsed \in Int, NEW h \in Nat, NEW src \in Int, NEW value \in Int
    PROVE  Reached(row, elapsed, h, src, value) \in Lines
<1>1. [row EXCEPT !.status = "missed_window"] \in Lines
  BY DEF Lines
<1>2. [status |-> "observed", src |-> src, value |-> value] \in Lines
  BY DEF Lines
<1> QED
  BY <1>1, <1>2 DEF Reached
-----------------------------------------------------------------------------
(* The measurement of an open trade. *)

LEMMA NetTyped == \A cost, entry \in Int : Net(cost, entry) \in Int
<1> SUFFICES ASSUME NEW cost \in Int, NEW entry \in Int PROVE Net(cost, entry) \in Int
  OBVIOUS
<1>1. FeesOf(cost) \in Int /\ FeesOf(entry) \in Int
  BY ObsConstants DEF FeesOf
<1>2. 100 * (cost - entry) \in Int
  OBVIOUS
<1>3. Net(cost, entry) = 100 * (cost - entry) - FeesOf(cost) - FeesOf(entry)
  BY DEF Net
<1> QED
  BY ONLY <1>1, <1>2, <1>3

LEMMA NetsAre ==
    ASSUME NEW qs, NEW n, DOMAIN qs = 1..n, NEW entry
    PROVE  \A i \in 1..n : Nets(qs, entry)[i] = Net(qs[i].cost, entry)
  BY DEF Nets

LEMMA NetsKept ==
    ASSUME NEW qs, NEW sh, NEW new, NEW n, Shows(qs, sh, new, n), NEW entry \in Int
    PROVE  /\ \A i \in 1..n : Nets(new, entry)[i] = Nets(qs, entry)[i] /\ Nets(qs, entry)[i] \in Int
           /\ Nets(new, entry)[n + 1] = Net(sh.cost, entry) /\ Net(sh.cost, entry) \in Int
<1>1. /\ n \in Nat /\ DOMAIN qs = 1..n /\ DOMAIN new = 1..(n + 1) /\ new[n + 1] = sh
      /\ \A i \in 1..n : new[i] = qs[i] /\ qs[i].cost \in Int
      /\ sh.cost \in Int
  BY DEF Shows
<1>2. \A i \in 1..n : Nets(qs, entry)[i] = Net(qs[i].cost, entry)
  BY <1>1, NetsAre
<1>3. \A i \in 1..(n + 1) : Nets(new, entry)[i] = Net(new[i].cost, entry)
  BY <1>1, NetsAre
<1>4. n + 1 \in 1..(n + 1) /\ \A i \in 1..n : i \in 1..(n + 1)
  BY ONLY <1>1
<1> QED
  BY ONLY <1>1, <1>2, <1>3, <1>4, NetTyped, entry \in Int

LEMMA SpansStay ==
    ASSUME NEW n, NEW C \in SUBSET (1..n), NEW values, NEW values2, \A i \in 1..n : values2[i] = values[i],
           NEW best, NEW worst, Spans(values, C, best, worst)
    PROVE  Spans(values2, C, best, worst)
  BY DEF Spans

LEMMA SpansNext ==
    ASSUME NEW n \in Nat, NEW C \in SUBSET (1..n), NEW values, NEW values2,
           \A i \in 1..n : values2[i] = values[i] /\ values[i] \in Int, values2[n + 1] \in Int,
           NEW best \in Int, NEW worst \in Int, Spans(values, C, best, worst)
    PROVE  Spans(values2, C \cup {n + 1},
                 IF C = {} THEN values2[n + 1] ELSE Larger2(best, values2[n + 1]),
                 IF C = {} THEN values2[n + 1] ELSE Smaller2(worst, values2[n + 1]))
<1> PICK v : v = values2[n + 1]
  OBVIOUS
<1>1. CASE C = {}
  BY <1>1 DEF Spans
<1>2. CASE C # {}
  <2> PICK high, low : high = Larger2(best, v) /\ low = Smaller2(worst, v)
    OBVIOUS
  <2>1. /\ \E i \in C : best = values2[i]
        /\ \E i \in C : worst = values2[i]
        /\ \A i \in C : worst <= values2[i] /\ values2[i] <= best /\ values2[i] \in Int
    BY <1>2 DEF Spans
  <2>2. v \in Int /\ high \in {best, v} /\ low \in {worst, v} /\ high >= best /\ high >= v /\ low <= worst /\ low <= v
    BY DEF Larger2, Smaller2
  <2>3. \E i \in C \cup {n + 1} : high = values2[i]
    BY ONLY <2>1, <2>2, v = values2[n + 1]
  <2>4. \E i \in C \cup {n + 1} : low = values2[i]
    BY ONLY <2>1, <2>2, v = values2[n + 1]
  <2>5. ASSUME NEW i \in C \cup {n + 1} PROVE low <= values2[i] /\ values2[i] <= high
    <3>1. CASE i \in C
      <4>1. worst <= values2[i] /\ values2[i] <= best /\ values2[i] \in Int
        BY ONLY <2>1, <3>1
      <4>2. high \in Int /\ low \in Int
        BY ONLY <2>2, best \in Int, worst \in Int
      <4> QED
        BY ONLY <2>2, <4>1, <4>2, best \in Int, worst \in Int
    <3>2. CASE i = n + 1
      BY ONLY <2>2, <3>2, v = values2[n + 1]
    <3> QED
      BY <3>1, <3>2
  <2>6. Spans(values2, C \cup {n + 1}, high, low)
    BY ONLY <2>3, <2>4, <2>5 DEF Spans
  <2> QED
    BY ONLY <1>2, <2>6, high = Larger2(best, v), low = Smaller2(worst, v), v = values2[n + 1]
<1> QED
  BY <1>1, <1>2

LEMMA MeasureTypes ==
    ASSUME NEW m \in Measures
    PROVE  /\ m.last \in Int /\ m.best \in Int /\ m.worst \in Int /\ m.positive \in Int
           /\ \A h \in ObsHorizons : m.rows[h] \in Lines
  BY DEF Measures

\* A quote that is not new changes nothing.
LEMMA MeasureSkips ==
    ASSUME NEW qs, NEW sh, NEW new, NEW n, Shows(qs, sh, new, n), NEW from \in Nat, NEW entry \in Int,
           NEW m, MeasureGood(m, qs, from, entry), sh.src < from \/ sh.src <= m.last
    PROVE  MeasureGood(m, new, from, entry)
<1> PICK C : C = CountingIn(qs, from)
  OBVIOUS
<1>1. m \in Measures /\ LastIn(m.last, qs, from) /\ m.last \in Int
  BY MeasureTypes DEF MeasureGood
<1>2. CountingIn(new, from) = C /\ LastIn(m.last, new, from)
  BY <1>1, OldQuote
<1>3. C \in SUBSET (1..n)
  BY CountedIn DEF Shows
<1>4. \A i \in 1..n : Nets(new, entry)[i] = Nets(qs, entry)[i]
  BY NetsKept
<1>5. ASSUME NEW h \in ObsHorizons PROVE Tells(new, m.rows[h], h, from, C, Nets(new, entry))
  <2> PICK row, values, values2 : row = m.rows[h] /\ values = Nets(qs, entry) /\ values2 = Nets(new, entry)
    OBVIOUS
  <2>1. Tells(qs, row, h, from, C, values) /\ h \in Nat
    BY ObsConstants DEF MeasureGood
  <2>2. Tells(new, row, h, from, C, values2)
    BY <1>3, <1>4, <2>1, TellsStays
  <2> QED
    BY <2>2
<1>6. Spans(Nets(new, entry), C, m.best, m.worst)
  <2>1. Spans(Nets(qs, entry), C, m.best, m.worst)
    BY DEF MeasureGood
  <2> QED
    BY <1>3, <1>4, <2>1, SpansStay
<1> QED
  BY ONLY <1>1, <1>2, <1>5, <1>6 DEF MeasureGood

\* What Observed makes of a new one.
Taken(m, from, src, value) ==
    [last |-> src,
     best |-> IF m.last = -1 THEN value ELSE Larger2(m.best, value),
     worst |-> IF m.last = -1 THEN value ELSE Smaller2(m.worst, value),
     positive |-> IF m.positive = -1 /\ value > 0 THEN src - from ELSE m.positive,
     rows |-> [h \in ObsHorizons |-> Reached(m.rows[h], src - from, h, src, value)]]

LEMMA MeasureTakes ==
    ASSUME NEW qs \in Seq(Shots), NEW sh, NEW new, NEW n, Shows(qs, sh, new, n), NEW from \in Nat, NEW entry \in Int,
           NEW m, MeasureGood(m, qs, from, entry), sh.src >= from, sh.src > m.last
    PROVE  MeasureGood(Taken(m, from, sh.src, Net(sh.cost, entry)), new, from, entry)
<1> PICK C, v, src, t : C = CountingIn(qs, from) /\ v = Net(sh.cost, entry) /\ src = sh.src /\ t = Taken(m, from, src, v)
  OBVIOUS
<1>1. m \in Measures /\ LastIn(m.last, qs, from) /\ m.last \in Int
  BY MeasureTypes DEF MeasureGood
<1>2. CountingIn(new, from) = C \cup {n + 1} /\ LastIn(src, new, from)
  BY <1>1, NewQuote
<1>3. C \in SUBSET (1..n) /\ n \in Nat /\ src \in Int
  BY CountedIn DEF Shows
<1>4. /\ \A i \in 1..n : Nets(new, entry)[i] = Nets(qs, entry)[i] /\ Nets(qs, entry)[i] \in Int
      /\ Nets(new, entry)[n + 1] = v /\ v \in Int
  BY NetsKept
<1>5. m.last = -1 <=> C = {}
  BY <1>1, Counted
<1>6. /\ t.last = src /\ t.best = (IF C = {} THEN v ELSE Larger2(m.best, v))
      /\ t.worst = (IF C = {} THEN v ELSE Smaller2(m.worst, v))
      /\ t.rows = [h \in ObsHorizons |-> Reached(m.rows[h], src - from, h, src, v)]
  BY <1>5 DEF Taken
<1>7. ASSUME NEW h \in ObsHorizons
      PROVE  Tells(new, t.rows[h], h, from, C \cup {n + 1}, Nets(new, entry)) /\ t.rows[h] \in Lines
  <2> PICK row, values, values2 : row = m.rows[h] /\ values = Nets(qs, entry) /\ values2 = Nets(new, entry)
    OBVIOUS
  <2>1. Tells(qs, row, h, from, C, values) /\ h \in Nat /\ row \in Lines
    BY <1>1, ObsConstants, MeasureTypes DEF MeasureGood
  <2>2. \A i \in 1..n : values2[i] = values[i]
    BY <1>4
  <2>3. Tells(new, Reached(row, sh.src - from, h, sh.src, values2[n + 1]), h, from, C \cup {n + 1}, values2)
    BY ONLY <1>3, <2>1, <2>2, from \in Nat, Shows(qs, sh, new, n), TellsNext
  <2>4. t.rows[h] = Reached(row, sh.src - from, h, sh.src, values2[n + 1])
    BY <1>4, <1>6
  <2>5. src - from \in Int
    BY ONLY <1>3, from \in Nat
  <2>6. Reached(row, src - from, h, src, v) \in Lines
    BY <1>3, <1>4, <2>1, <2>5, ReachedLine
  <2> QED
    BY <1>4, <2>3, <2>4, <2>6
<1>8. Spans(Nets(new, entry), C \cup {n + 1}, t.best, t.worst)
  <2> PICK values, values2, best, worst :
        values = Nets(qs, entry) /\ values2 = Nets(new, entry) /\ best = m.best /\ worst = m.worst
    OBVIOUS
  <2>1. Spans(values, C, best, worst) /\ best \in Int /\ worst \in Int
    BY <1>1, MeasureTypes DEF MeasureGood
  <2>2. /\ \A i \in 1..n : values2[i] = values[i] /\ values[i] \in Int
        /\ values2[n + 1] \in Int /\ values2[n + 1] = v
    BY <1>4
  <2>3. Spans(values2, C \cup {n + 1}, IF C = {} THEN values2[n + 1] ELSE Larger2(best, values2[n + 1]),
              IF C = {} THEN values2[n + 1] ELSE Smaller2(worst, values2[n + 1]))
    BY ONLY <1>3, <2>1, <2>2, SpansNext
  <2> QED
    BY ONLY <1>6, <2>2, <2>3, values2 = Nets(new, entry), best = m.best, worst = m.worst
<1>9. t \in Measures
  <2>1. m.best \in Int /\ m.worst \in Int /\ m.positive \in Int
    BY <1>1, MeasureTypes
  <2> PICK best, worst, positive, rows :
        /\ best = IF m.last = -1 THEN v ELSE Larger2(m.best, v)
        /\ worst = IF m.last = -1 THEN v ELSE Smaller2(m.worst, v)
        /\ positive = IF m.positive = -1 /\ v > 0 THEN src - from ELSE m.positive
        /\ rows = [h \in ObsHorizons |-> Reached(m.rows[h], src - from, h, src, v)]
    OBVIOUS
  <2>2. best \in Int /\ worst \in Int /\ positive \in Int
    BY <1>3, <1>4, <2>1 DEF Larger2, Smaller2
  <2>3. rows \in [ObsHorizons -> Lines]
    BY <1>6, <1>7
  <2>4. t = [last |-> src, best |-> best, worst |-> worst, positive |-> positive, rows |-> rows]
    BY DEF Taken
  <2> QED
    BY ONLY <1>3, <2>2, <2>3, <2>4 DEF Measures
<1>10. MeasureGood(t, new, from, entry)
  BY ONLY <1>2, <1>6, <1>7, <1>8, <1>9 DEF MeasureGood
<1> QED
  BY ONLY <1>10, v = Net(sh.cost, entry), src = sh.src, t = Taken(m, from, src, v)
-----------------------------------------------------------------------------
(* The prices after the end. *)

LEMMA ShadowTypes ==
    ASSUME NEW s \in Shadows
    PROVE  /\ s.last \in Int /\ s.ref \in Int /\ s.best \in Int /\ s.worst \in Int
           /\ \A h \in ObsHorizons : s.rows[h] \in Lines
  BY DEF Shadows

LEMMA BlankLines ==
    /\ \A h \in ObsHorizons : Blanks[h].status = "unobserved"
    /\ Blanks \in [ObsHorizons -> Lines]
<1>1. [status |-> "unobserved", src |-> -1, value |-> 0] \in Lines
  BY DEF Lines
<1> QED
  BY <1>1 DEF Blanks

LEMMA ChangesKept ==
    ASSUME NEW qs, NEW sh, NEW new, NEW n, Shows(qs, sh, new, n), NEW ref \in Int
    PROVE  /\ \A i \in 1..n : Changes(new, ref)[i] = Changes(qs, ref)[i]
           /\ Changes(new, ref)[n + 1] = sh.cost - ref
<1>1. n + 1 \in DOMAIN new /\ \A i \in 1..n : i \in DOMAIN new
  BY DEF Shows
<1> QED
  BY <1>1 DEF Changes, Shows

\* The reference is that of the first quote, whatever comes later.
Among(qs, sh, new, n, C) == Shows(qs, sh, new, n) /\ C \in SUBSET (1..n)

LEMMA FirstSame ==
    ASSUME NEW qs, NEW sh, NEW new, NEW n, NEW C, Among(qs, sh, new, n, C), C # {}
    PROVE  Min(C) \in C /\ new[Min(C)] = qs[Min(C)]
<1>1. n \in Nat /\ C \in SUBSET (1..n) /\ \A i \in 1..n : new[i] = qs[i]
  BY DEF Among, Shows
<1>2. Min(C) \in C
  BY ONLY <1>1, C # {}, FirstIndex
<1> QED
  BY <1>1, <1>2

LEMMA FirstQuote ==
    ASSUME NEW qs, NEW sh, NEW new, NEW n, NEW C, Among(qs, sh, new, n, C)
    PROVE  /\ C # {} => Min(C \cup {n + 1}) = Min(C)
           /\ C = {} => Min(C \cup {n + 1}) = n + 1
<1>1. n \in Nat /\ C \in SUBSET (1..n)
  BY DEF Among, Shows
<1>2. CASE C = {}
  <2>1. C \cup {n + 1} = {n + 1}
    BY <1>2
  <2> QED
    BY <1>1, <1>2, <2>1, OnlyOne
<1>3. CASE C # {}
  <2>1. Min(C \cup {n + 1}) = Min(C)
    BY ONLY <1>1, <1>3, FirstStays
  <2> QED
    BY <1>3, <2>1
<1> QED
  BY <1>2, <1>3

LEMMA UsablyNext ==
    ASSUME NEW qs, NEW sh, NEW new, NEW n, NEW C, Among(qs, sh, new, n, C), NEW from
    PROVE  /\ C # {} => (Usably(new, C \cup {n + 1}, from) <=> Usably(qs, C, from))
           /\ C = {} => (Usably(new, C \cup {n + 1}, from) <=> sh.src <= from + ObsWindow)
<1>1. new[n + 1] = sh
  BY DEF Among, Shows
<1>2. /\ C # {} => new[Min(C)] = qs[Min(C)] /\ Min(C \cup {n + 1}) = Min(C)
      /\ C = {} => Min(C \cup {n + 1}) = n + 1
  <2>1. C # {} => new[Min(C)] = qs[Min(C)]
    BY ONLY Among(qs, sh, new, n, C), FirstSame
  <2>2. /\ C # {} => Min(C \cup {n + 1}) = Min(C)
        /\ C = {} => Min(C \cup {n + 1}) = n + 1
    BY ONLY Among(qs, sh, new, n, C), FirstQuote
  <2> QED
    BY ONLY <2>1, <2>2
<1>3. C \cup {n + 1} # {}
  OBVIOUS
<1> QED
  BY ONLY <1>1, <1>2, <1>3 DEF Usably

LEMMA ShadowSkips ==
    ASSUME NEW qs, NEW sh, NEW new, NEW n, Shows(qs, sh, new, n), NEW s, ShadowGood(s, qs),
           sh.src < s.origin \/ sh.src <= s.last, sh.src <= s.origin + Max(ObsHorizons) + ObsWindow
    PROVE  ShadowGood(s, new)
<1> PICK C, from : from = s.origin /\ C = CountingIn(qs, from)
  OBVIOUS
<1>1. s \in Shadows /\ LastIn(s.last, qs, from) /\ s.last \in Int /\ from \in Nat
  BY ShadowTypes DEF ShadowGood
<1>2. CountingIn(new, from) = C /\ LastIn(s.last, new, from)
  BY <1>1, OldQuote
<1>3. C \in SUBSET (1..n)
  BY CountedIn DEF Shows
<1>4. \A i \in DOMAIN new : new[i].src <= from + Max(ObsHorizons) + ObsWindow
  <2>1. \A i \in DOMAIN qs : qs[i].src <= from + Max(ObsHorizons) + ObsWindow
    BY DEF ShadowGood
  <2> QED
    BY <2>1 DEF Shows
<1>5. IF Usably(qs, C, from)
      THEN /\ s.ref = qs[Min(C)].cost
           /\ \A h \in ObsHorizons : Tells(qs, s.rows[h], h, from, C, Changes(qs, s.ref))
      ELSE s.ref = -1 /\ s.rows = Blanks
  BY DEF ShadowGood
<1>0. Among(qs, sh, new, n, C)
  BY <1>3 DEF Among
<1>6. /\ Usably(new, C, from) <=> Usably(qs, C, from)
      /\ C # {} => new[Min(C)] = qs[Min(C)]
  <2>1. C # {} => new[Min(C)] = qs[Min(C)]
    BY ONLY <1>0, FirstSame
  <2>2. CASE C = {}
    BY ONLY <2>2 DEF Usably
  <2>3. CASE C # {}
    BY ONLY <2>1, <2>3 DEF Usably
  <2> QED
    BY <2>2, <2>3
<1>7. CASE Usably(qs, C, from)
  <2>1. ASSUME NEW h \in ObsHorizons PROVE Tells(new, s.rows[h], h, from, C, Changes(new, s.ref))
    <3> PICK row, values, values2 : row = s.rows[h] /\ values = Changes(qs, s.ref) /\ values2 = Changes(new, s.ref)
      OBVIOUS
    <3>1. Tells(qs, row, h, from, C, values) /\ h \in Nat
      BY <1>5, <1>7, ObsConstants
    <3>2. \A i \in 1..n : values2[i] = values[i]
      BY <1>1, ChangesKept, ShadowTypes
    <3>3. Tells(new, row, h, from, C, values2)
      BY <1>1, <1>3, <3>1, <3>2, TellsStays
    <3> QED
      BY <3>3
  <2>2. s.ref = new[Min(C)].cost
    BY <1>5, <1>6, <1>7 DEF Usably
  <2> QED
    BY ONLY <1>1, <1>2, <1>4, <1>6, <1>7, <2>1, <2>2, from = s.origin DEF ShadowGood
<1>8. CASE ~Usably(qs, C, from)
  BY ONLY <1>1, <1>2, <1>4, <1>5, <1>6, <1>8, from = s.origin DEF ShadowGood
<1> QED
  BY <1>7, <1>8

\* Without a reference in time nothing is observed.
LEMMA ShadowMisses ==
    ASSUME NEW qs \in Seq(Shots), NEW sh, NEW new, NEW n, Shows(qs, sh, new, n), NEW s, ShadowGood(s, qs),
           sh.src >= s.origin, sh.src > s.last, sh.src <= s.origin + Max(ObsHorizons) + ObsWindow,
           s.ref = -1, sh.src - s.origin > ObsWindow
    PROVE  ShadowGood(Followed(s, sh.src, sh.cost), new)
<1> PICK C, from, src, t : /\ from = s.origin /\ C = CountingIn(qs, from) /\ src = sh.src
                           /\ t = Followed(s, sh.src, sh.cost)
  OBVIOUS
<1>1. s \in Shadows /\ LastIn(s.last, qs, from) /\ s.last \in Int /\ from \in Nat
  BY ShadowTypes DEF ShadowGood
<1>2. CountingIn(new, from) = C \cup {n + 1} /\ LastIn(src, new, from)
  BY <1>1, NewQuote
<1>3. C \in SUBSET (1..n) /\ src \in Int /\ ObsWindow \in Nat /\ n \in Nat /\ DOMAIN qs = 1..n
      /\ \A i \in 1..n : qs[i].src \in Int /\ qs[i].cost \in Nat
  BY CountedIn, ObsConstants DEF Shows
<1>4. \A i \in DOMAIN new : new[i].src <= from + Max(ObsHorizons) + ObsWindow
  <2>1. \A i \in DOMAIN qs : qs[i].src <= from + Max(ObsHorizons) + ObsWindow
    BY DEF ShadowGood
  <2> QED
    BY <2>1 DEF Shows
<1>5. IF Usably(qs, C, from)
      THEN s.ref = qs[Min(C)].cost
      ELSE s.ref = -1 /\ s.rows = Blanks
  BY DEF ShadowGood
<1>6. ~Usably(qs, C, from) /\ s.rows = Blanks
  <2>1. ASSUME Usably(qs, C, from) PROVE FALSE
    <3>1. C # {} /\ s.ref = qs[Min(C)].cost
      BY <1>5, <2>1 DEF Usably
    <3>2. Min(C) \in C
      BY ONLY <1>3, <3>1, FirstIndex
    <3>3. qs[Min(C)].cost \in Nat
      BY ONLY <1>3, <3>2
    <3> QED
      BY ONLY <3>1, <3>3, s.ref = -1
  <2> QED
    BY <1>5, <2>1
<1>0. Among(qs, sh, new, n, C)
  BY <1>3 DEF Among
<1>7. ~Usably(new, C \cup {n + 1}, from)
  <2>1. ~(src <= from + ObsWindow)
    BY ONLY <1>1, <1>3, sh.src - s.origin > ObsWindow, src = sh.src, from = s.origin
  <2>2. /\ C # {} => (Usably(new, C \cup {n + 1}, from) <=> Usably(qs, C, from))
        /\ C = {} => (Usably(new, C \cup {n + 1}, from) <=> sh.src <= from + ObsWindow)
    BY ONLY <1>0, UsablyNext
  <2> QED
    BY ONLY <1>6, <2>1, <2>2, src = sh.src
<1>8. t = [s EXCEPT !.last = src, !.status = "missing_reference_window"]
  <2> PICK most, last : most = Max(ObsHorizons) + ObsWindow /\ last = s.last
    OBVIOUS
  <2>2. most \in Int /\ from + most = from + Max(ObsHorizons) + ObsWindow
    BY ONLY <1>1, <1>3, LastHorizon, most = Max(ObsHorizons) + ObsWindow
  <2>3. src >= from /\ src > last /\ src <= from + most /\ last \in Int
    BY ONLY <1>1, <2>2, sh.src >= s.origin, sh.src > s.last, src = sh.src, from = s.origin, last = s.last,
            sh.src <= s.origin + Max(ObsHorizons) + ObsWindow
  <2>4. ~(src < from) /\ ~(src - from > most) /\ ~(src <= last)
    BY ONLY <1>1, <1>3, <2>2, <2>3
  <2>5. src - from > ObsWindow
    BY ONLY sh.src - s.origin > ObsWindow, src = sh.src, from = s.origin
  <2>1. /\ ~(src < from) /\ ~(src - from > Max(ObsHorizons) + ObsWindow) /\ ~(src <= s.last)
        /\ src - from > ObsWindow
    BY ONLY <2>4, <2>5, most = Max(ObsHorizons) + ObsWindow, last = s.last
  <2> QED
    BY ONLY <2>1, s.ref = -1, t = Followed(s, sh.src, sh.cost), src = sh.src, from = s.origin DEF Followed
<1>9. t \in Shadows /\ t.last = src /\ t.origin = from /\ t.ref = -1 /\ t.rows = Blanks
  BY ONLY <1>1, <1>3, <1>6, <1>8, s.ref = -1, from = s.origin DEF Shadows
<1>10. ShadowGood(t, new)
  BY ONLY <1>1, <1>2, <1>4, <1>7, <1>9 DEF ShadowGood
<1> QED
  BY ONLY <1>10, t = Followed(s, sh.src, sh.cost)

\* With one every horizon follows it.
LEMMA ShadowTakes ==
    ASSUME NEW qs \in Seq(Shots), NEW sh, NEW new, NEW n, Shows(qs, sh, new, n), NEW s, ShadowGood(s, qs),
           sh.src >= s.origin, sh.src > s.last, sh.src <= s.origin + Max(ObsHorizons) + ObsWindow,
           s.ref # -1 \/ sh.src - s.origin <= ObsWindow
    PROVE  ShadowGood(Followed(s, sh.src, sh.cost), new)
<1> PICK C, from, src, t : /\ from = s.origin /\ C = CountingIn(qs, from) /\ src = sh.src
                           /\ t = Followed(s, sh.src, sh.cost)
  OBVIOUS
<1> PICK ref, change : ref = (IF s.ref = -1 THEN sh.cost ELSE s.ref) /\ change = sh.cost - ref
  OBVIOUS
<1>1. s \in Shadows /\ LastIn(s.last, qs, from) /\ s.last \in Int /\ from \in Nat /\ s.ref \in Int
      /\ s.best \in Int /\ s.worst \in Int
  BY ShadowTypes DEF ShadowGood
<1>2. /\ CountingIn(new, from) = C \cup {n + 1} /\ LastIn(src, new, from)
      /\ \A i \in C : qs[i].src < src
  BY <1>1, NewQuote
<1>3. C \in SUBSET (1..n) /\ src \in Int /\ ObsWindow \in Nat /\ n \in Nat /\ DOMAIN qs = 1..n
      /\ sh.cost \in Nat /\ new[n + 1] = sh /\ \A i \in 1..n : qs[i].src \in Int /\ qs[i].cost \in Nat
  BY CountedIn, ObsConstants DEF Shows
<1>4. \A i \in DOMAIN new : new[i].src <= from + Max(ObsHorizons) + ObsWindow
  <2>1. \A i \in DOMAIN qs : qs[i].src <= from + Max(ObsHorizons) + ObsWindow
    BY DEF ShadowGood
  <2> QED
    BY <2>1 DEF Shows
<1>5. IF Usably(qs, C, from)
      THEN /\ s.ref = qs[Min(C)].cost
           /\ \A h \in ObsHorizons : Tells(qs, s.rows[h], h, from, C, Changes(qs, s.ref))
      ELSE s.ref = -1 /\ s.rows = Blanks
  BY DEF ShadowGood
<1>0. Among(qs, sh, new, n, C)
  BY <1>3 DEF Among
<1> DEFINE D == C \cup {n + 1}
<1>20. /\ C # {} => new[Min(C)] = qs[Min(C)]
       /\ C # {} => (Usably(new, D, from) <=> Usably(qs, C, from))
       /\ C # {} => Min(D) = Min(C)
       /\ C = {} => (Usably(new, D, from) <=> sh.src <= from + ObsWindow)
       /\ C = {} => Min(D) = n + 1
  <2>1. /\ C # {} => (Usably(new, D, from) <=> Usably(qs, C, from))
        /\ C = {} => (Usably(new, D, from) <=> sh.src <= from + ObsWindow)
    BY ONLY <1>0, UsablyNext
  <2>2. /\ C # {} => Min(D) = Min(C)
        /\ C = {} => Min(D) = n + 1
    BY ONLY <1>0, FirstQuote
  <2>3. C # {} => new[Min(C)] = qs[Min(C)]
    BY ONLY <1>0, FirstSame
  <2> QED
    BY ONLY <2>1, <2>2, <2>3
<1> HIDE DEF D
<1>6. Usably(new, D, from) /\ ref = new[Min(D)].cost
  <2>1. CASE Usably(qs, C, from)
    <3>1. C # {} /\ s.ref = qs[Min(C)].cost
      BY <1>5, <2>1 DEF Usably
    <3>2. Min(C) \in C
      BY ONLY <1>3, <3>1, FirstIndex
    <3>3. s.ref # -1
      <4>1. qs[Min(C)].cost \in Nat
        BY ONLY <1>3, <3>2
      <4> QED
        BY ONLY <3>1, <4>1
    <3> QED
      BY ONLY <1>20, <2>1, <3>1, <3>3, ref = (IF s.ref = -1 THEN sh.cost ELSE s.ref)
  <2>2. CASE ~Usably(qs, C, from)
    <3>1. s.ref = -1 /\ src <= from + ObsWindow
      <4>1. s.ref = -1
        BY <1>5, <2>2
      <4>2. sh.src - s.origin <= ObsWindow
        BY <4>1
      <4> QED
        BY ONLY <1>1, <1>3, <4>1, <4>2, src = sh.src, from = s.origin
    <3>2. C = {}
      <4>1. ASSUME C # {} PROVE FALSE
        <5>1. Min(C) \in C
          BY ONLY <1>3, <4>1, FirstIndex
        <5>2. qs[Min(C)].src < src /\ qs[Min(C)].src \in Int
          BY ONLY <1>2, <1>3, <5>1
        <5>3. qs[Min(C)].src <= from + ObsWindow
          BY ONLY <1>1, <1>3, <3>1, <5>2
        <5> QED
          BY <2>2, <4>1, <5>3 DEF Usably
      <4> QED
        BY <4>1
    <3>3. Usably(new, D, from) /\ Min(D) = n + 1
      BY ONLY <1>20, <3>1, <3>2, src = sh.src
    <3> QED
      BY ONLY <1>3, <3>1, <3>3, ref = (IF s.ref = -1 THEN sh.cost ELSE s.ref)
  <2> QED
    BY <2>1, <2>2
<1>7. ref \in Int /\ change \in Int
  BY ONLY <1>1, <1>3, ref = (IF s.ref = -1 THEN sh.cost ELSE s.ref), change = sh.cost - ref
<1>8. ASSUME NEW h \in ObsHorizons
      PROVE  /\ Tells(new, Reached(s.rows[h], src - from, h, src, change), h, from, D, Changes(new, ref))
             /\ Reached(s.rows[h], src - from, h, src, change) \in Lines
  <2> PICK row, values, values2 : row = s.rows[h] /\ values = Changes(qs, ref) /\ values2 = Changes(new, ref)
    OBVIOUS
  <2>1. row \in Lines /\ h \in Nat
    BY <1>1, ObsConstants, ShadowTypes
  <2>2. Tells(qs, row, h, from, C, values)
    <3>1. CASE Usably(qs, C, from)
      <4>1. C # {} /\ s.ref = qs[Min(C)].cost
        BY <1>5, <3>1 DEF Usably
      <4>2. Min(C) \in C
        BY ONLY <1>3, <4>1, FirstIndex
      <4>3. s.ref # -1
        <5>1. qs[Min(C)].cost \in Nat
          BY ONLY <1>3, <4>2
        <5> QED
          BY ONLY <4>1, <5>1
      <4>4. ref = s.ref
        BY ONLY <4>3, ref = (IF s.ref = -1 THEN sh.cost ELSE s.ref)
      <4>5. Tells(qs, s.rows[h], h, from, C, Changes(qs, s.ref))
        BY <1>5, <3>1
      <4> QED
        BY ONLY <4>4, <4>5, row = s.rows[h], values = Changes(qs, ref)
    <3>2. CASE ~Usably(qs, C, from)
      <4>1. row.status = "unobserved"
        BY <1>5, <3>2, BlankLines
      <4>2. C = {}
        <5>1. ASSUME C # {} PROVE FALSE
          <6>1. Usably(qs, C, from)
            BY ONLY <1>6, <1>20, <5>1
          <6> QED
            BY ONLY <3>2, <6>1
        <5> QED
          BY <5>1
      <4>3. Since(qs, C, from + h) = {}
        BY <4>2 DEF Since
      <4> QED
        BY <4>1, <4>3 DEF Tells
    <3> QED
      BY <3>1, <3>2
  <2>3. (\A i \in 1..n : values2[i] = values[i]) /\ values2[n + 1] = change
    <3>1. /\ \A i \in 1..n : Changes(new, ref)[i] = Changes(qs, ref)[i]
          /\ Changes(new, ref)[n + 1] = sh.cost - ref
      BY ONLY <1>7, Shows(qs, sh, new, n), ChangesKept
    <3> QED
      BY ONLY <3>1, values = Changes(qs, ref), values2 = Changes(new, ref), change = sh.cost - ref
  <2>4. Tells(new, Reached(row, sh.src - from, h, sh.src, values2[n + 1]), h, from, C \cup {n + 1}, values2)
    <3>1. \A i \in 1..n : values2[i] = values[i]
      BY ONLY <2>3
    <3> QED
      BY ONLY <1>1, <1>3, <2>1, <2>2, <3>1, Shows(qs, sh, new, n), TellsNext
  <2>5. src - from \in Int
    BY ONLY <1>1, <1>3
  <2>6. Reached(row, src - from, h, src, change) \in Lines
    BY <1>3, <1>7, <2>1, <2>5, ReachedLine
  <2>7. D = C \cup {n + 1}
    BY DEF D
  <2> QED
    BY ONLY <2>3, <2>4, <2>6, <2>7, row = s.rows[h], src = sh.src, values2 = Changes(new, ref)
<1> PICK best, worst, rows :
      /\ best = IF s.ref = -1 THEN change ELSE Larger2(s.best, change)
      /\ worst = IF s.ref = -1 THEN change ELSE Smaller2(s.worst, change)
      /\ rows = [h \in ObsHorizons |-> Reached(s.rows[h], src - from, h, src, change)]
  OBVIOUS
<1>9. t = [s EXCEPT !.last = src, !.status = "observing", !.ref = ref, !.best = best, !.worst = worst, !.rows = rows]
  <2> PICK most, last : most = Max(ObsHorizons) + ObsWindow /\ last = s.last
    OBVIOUS
  <2>2. most \in Int /\ from + most = from + Max(ObsHorizons) + ObsWindow
    BY ONLY <1>1, <1>3, LastHorizon, most = Max(ObsHorizons) + ObsWindow
  <2>3. src >= from /\ src > last /\ src <= from + most /\ last \in Int
    BY ONLY <1>1, <2>2, sh.src >= s.origin, sh.src > s.last, src = sh.src, from = s.origin, last = s.last,
            sh.src <= s.origin + Max(ObsHorizons) + ObsWindow
  <2>4. ~(src < from) /\ ~(src - from > most) /\ ~(src <= last)
    BY ONLY <1>1, <1>3, <2>2, <2>3
  <2>5. ~(s.ref = -1 /\ src - from > ObsWindow)
    <3>1. s.ref # -1 \/ src - from <= ObsWindow
      BY ONLY s.ref # -1 \/ sh.src - s.origin <= ObsWindow, src = sh.src, from = s.origin
    <3>2. src - from \in Int /\ ObsWindow \in Int
      BY ONLY <1>1, <1>3
    <3> QED
      BY ONLY <3>1, <3>2
  <2>1. /\ ~(src < from) /\ ~(src - from > Max(ObsHorizons) + ObsWindow) /\ ~(src <= s.last)
        /\ ~(s.ref = -1 /\ src - from > ObsWindow)
    BY ONLY <2>4, <2>5, most = Max(ObsHorizons) + ObsWindow, last = s.last
  <2> QED
    BY ONLY <2>1, t = Followed(s, sh.src, sh.cost), src = sh.src, from = s.origin,
            ref = (IF s.ref = -1 THEN sh.cost ELSE s.ref), change = sh.cost - ref,
            best = (IF s.ref = -1 THEN change ELSE Larger2(s.best, change)),
            worst = (IF s.ref = -1 THEN change ELSE Smaller2(s.worst, change)),
            rows = [h \in ObsHorizons |-> Reached(s.rows[h], src - from, h, src, change)] DEF Followed
<1>10. t \in Shadows /\ t.last = src /\ t.origin = from /\ t.ref = ref /\ t.rows = rows
  <2>1. best \in Int /\ worst \in Int
    BY <1>1, <1>7 DEF Larger2, Smaller2
  <2>2. rows \in [ObsHorizons -> Lines]
    BY <1>8
  <2> QED
    BY ONLY <1>1, <1>3, <1>7, <1>9, <2>1, <2>2, from = s.origin DEF Shadows
<1>11. \A h \in ObsHorizons : Tells(new, t.rows[h], h, from, D, Changes(new, ref))
  BY <1>8, <1>10
<1>21. CountingIn(new, from) = D /\ LastIn(src, new, from)
  BY <1>2 DEF D
<1>12. ShadowGood(t, new)
  BY ONLY <1>1, <1>21, <1>4, <1>6, <1>10, <1>11 DEF ShadowGood
<1> QED
  BY ONLY <1>12, t = Followed(s, sh.src, sh.cost)
-----------------------------------------------------------------------------
(* The steps. *)

LEMMA NothingShown == ASSUME NEW from PROVE CountingIn(<< >>, from) = {}
<1>1. DOMAIN << >> = {}
  OBVIOUS
<1> QED
  BY <1>1 DEF CountingIn

LEMMA NoMeasureGood == ASSUME NEW from, NEW entry PROVE MeasureGood(NoMeasure, << >>, from, entry)
<1>1. NoMeasure \in Measures
  BY BlankLines DEF NoMeasure, Measures
<1>2. NoMeasure.last = -1 /\ NoMeasure.rows = Blanks
  BY DEF NoMeasure
<1>3. DOMAIN << >> = {}
  OBVIOUS
<1>4. LastIn(NoMeasure.last, << >>, from)
  BY ONLY <1>2, <1>3 DEF LastIn
<1>5. \A h \in ObsHorizons : Tells(<< >>, NoMeasure.rows[h], h, from, {}, Nets(<< >>, entry))
  BY <1>2, BlankLines DEF Tells, Since
<1>6. Spans(Nets(<< >>, entry), {}, NoMeasure.best, NoMeasure.worst)
  BY DEF Spans
<1> QED
  BY ONLY <1>1, <1>4, <1>5, <1>6, NothingShown DEF MeasureGood

LEMMA StartGood == ASSUME ObsTypes PROVE ShadowGood(ShadowStarts, << >>)
<1>1. oclock \in Nat
  BY DEF ObsTypes
<1>2. ShadowStarts = [status |-> "awaiting_reference", origin |-> oclock, last |-> -1, ref |-> -1,
                      best |-> 0, worst |-> 0, rows |-> Blanks]
  <2> PICK now, blanks : now = oclock /\ blanks = Blanks
    OBVIOUS
  <2>1. ShadowStarts = [[status |-> "none", origin |-> -1, last |-> -1, ref |-> -1, best |-> 0, worst |-> 0,
                         rows |-> blanks] EXCEPT !.status = "awaiting_reference", !.origin = now]
    BY DEF ShadowStarts, NoShadow
  <2> QED
    BY ONLY <2>1, now = oclock, blanks = Blanks
<1>3. ShadowStarts \in Shadows
  BY ONLY <1>1, <1>2, BlankLines DEF Shadows
<1>4. /\ ShadowStarts.origin = oclock /\ ShadowStarts.last = -1 /\ ShadowStarts.ref = -1 /\ ShadowStarts.rows = Blanks
  BY ONLY <1>2
<1>5. DOMAIN << >> = {}
  OBVIOUS
<1>6. LastIn(ShadowStarts.last, << >>, ShadowStarts.origin)
  BY ONLY <1>4, <1>5 DEF LastIn
<1>7. CountingIn(<< >>, ShadowStarts.origin) = {}
  BY NothingShown
<1>8. ~Usably(<< >>, {}, ShadowStarts.origin)
  BY DEF Usably
<1> QED
  BY ONLY <1>1, <1>3, <1>4, <1>5, <1>6, <1>7, <1>8 DEF ShadowGood

LEMMA EmptyShots == << >> \in Seq(Shots)
  OBVIOUS

LEMMA DealTypes ==
    ASSUME ObsTypes
    PROVE  /\ deal.phase \in {"none", "pending", "open", "closing", "closed"}
           /\ deal.opened \in Int /\ deal.amount \in Int /\ deal.entry \in Int /\ deal.requested \in Int
  BY DEF ObsTypes, Deals

LEMMA InitObs == ObsInit => ObsInv
<1> SUFFICES ASSUME ObsInit PROVE ObsInv
  OBVIOUS
<1> USE DEF ObsInit
<1>1. deal = [phase |-> "none", opened |-> -1, amount |-> 0, entry |-> 0, requested |-> -1]
  BY DEF NoDeal
<1>2. deal \in Deals /\ deal.phase = "none"
  BY <1>1 DEF Deals
<1>3. ObsTypes
  BY <1>2, EmptyShots DEF ObsTypes, BookIs
<1> QED
  BY <1>2, <1>3 DEF ObsInv

\* A step that leaves the trade and its measurements alone.
LEMMA Elsewhere ==
    ASSUME ObsInv, UNCHANGED <<deal, measure, shadow, quotes>>, oclock' \in Nat, BookIs'
    PROVE  ObsInv'
  BY DEF ObsInv, ObsTypes

LEMMA ArriveInv == ASSUME ObsInv, NEW b \in ObsBooks, NEW lag \in Lags, Arrive(b, lag) PROVE ObsInv'
<1>1. oclock \in Nat /\ lag \in Nat
  BY ObsAssumption DEF ObsInv, ObsTypes
<1>2. book' = Arrived(b, oclock - lag, oclock) /\ UNCHANGED <<oclock, deal, measure, shadow, quotes>>
  BY DEF Arrive, Stored, Arrived
<1>3. oclock - lag \in Int /\ oclock \in Int
  BY <1>1
<1>4. BookIs'
  BY <1>2, <1>3 DEF BookIs
<1> QED
  BY <1>1, <1>2, <1>4, Elsewhere

LEMMA TickInv == ASSUME ObsInv, TickObservation \/ UNCHANGED obsVars PROVE ObsInv'
<1>1. oclock \in Nat /\ BookIs
  BY DEF ObsInv, ObsTypes
<1>2. oclock' \in Nat /\ UNCHANGED <<book, deal, measure, shadow, quotes>>
  BY <1>1 DEF TickObservation, obsVars
<1>3. BookIs'
  BY <1>1, <1>2 DEF BookIs
<1> QED
  BY <1>2, <1>3, Elsewhere

LEMMA BookKept == ASSUME ObsTypes, book' = book PROVE BookIs'
  BY DEF ObsTypes, BookIs

LEMMA EnterInv == ASSUME ObsInv, Enter PROVE ObsInv'
<1>1. ObsTypes /\ Executes(book) /\ oclock \in Nat /\ deal = NoDeal /\ UNCHANGED <<oclock, book, measure, shadow, quotes>>
  BY DEF Enter, ObsInv, ObsTypes
<1> PICK amount : amount = LotsAt(Notional)
  OBVIOUS
<1>2. amount \in Int
  BY <1>1, ObsConstants, LotsTyped
<1>3. deal' = [NoDeal EXCEPT !.phase = "pending", !.opened = oclock, !.amount = amount]
  BY DEF Enter
<1>4. deal' = [phase |-> "pending", opened |-> oclock, amount |-> amount, entry |-> 0, requested |-> -1]
  BY ONLY <1>3 DEF NoDeal
<1>5. deal' \in Deals /\ deal'.phase = "pending"
  BY ONLY <1>1, <1>2, <1>4 DEF Deals
<1>6. deal.phase = "none"
  BY <1>1 DEF NoDeal
<1>7. measure = NoMeasure /\ quotes = << >>
  BY <1>6 DEF ObsInv
<1>8. ObsTypes'
  BY <1>1, <1>5, <1>7, BookKept, EmptyShots DEF ObsTypes
<1> QED
  BY <1>1, <1>5, <1>7, <1>8 DEF ObsInv

LEMMA EndInv == ASSUME ObsInv, End, UNCHANGED <<oclock, book>> PROVE ObsInv'
<1> PICK amount : amount = deal.amount
  OBVIOUS
<1>1. ObsTypes /\ oclock \in Nat /\ amount \in Int
  BY DealTypes DEF ObsInv, ObsTypes
<1>2. deal' = [NoDeal EXCEPT !.phase = "closed", !.amount = amount] /\ shadow' = ShadowStarts /\ quotes' = << >>
  BY DEF End
<1>3. deal' = [phase |-> "closed", opened |-> -1, amount |-> amount, entry |-> 0, requested |-> -1]
  BY ONLY <1>2 DEF NoDeal
<1>4. deal' \in Deals /\ deal'.phase = "closed"
  BY ONLY <1>1, <1>3 DEF Deals
<1>5. ObsTypes'
  BY <1>1, <1>2, <1>4, BookKept, EmptyShots DEF ObsTypes
<1>6. ShadowGood(shadow', quotes')
  BY <1>1, <1>2, StartGood
<1> QED
  BY <1>4, <1>5, <1>6 DEF ObsInv

\* A trade that is closing is a deal still.
LEMMA DealClosing ==
    ASSUME NEW d \in Deals, NEW requested \in Int, NEW next,
           next = [d EXCEPT !.phase = "closing", !.requested = requested]
    PROVE  next \in Deals /\ next.phase = "closing" /\ next.opened = d.opened /\ next.entry = d.entry
  BY DEF Deals

LEMMA FillInv == ASSUME ObsInv, FillEntry PROVE ObsInv'
<1> PICK amount, fill : amount = LotsAt(deal.amount) /\ fill = Consume(book.asks, "buy", amount)
  OBVIOUS
<1>1. ObsTypes /\ Executes(book) /\ oclock \in Nat /\ deal.phase = "pending" /\ deal \in Deals
  BY DEF FillEntry, ObsInv, ObsTypes
<1>2. measure = NoMeasure /\ quotes = << >>
  BY <1>1 DEF ObsInv
<1>3. CASE amount = 0 \/ (fill # Nothing /\ fill.cost > Notional)
  BY <1>3, EndInv DEF FillEntry, Cancelled
<1>4. CASE ~(amount = 0 \/ (fill # Nothing /\ fill.cost > Notional))
  <2>1. /\ fill # Nothing /\ UNCHANGED <<oclock, book, measure, shadow, quotes>>
        /\ deal' = [deal EXCEPT !.phase = "open", !.opened = oclock, !.amount = amount, !.entry = fill.cost]
    BY <1>4 DEF FillEntry
  <2>2. amount \in Int
    BY <1>1, DealTypes, LotsTyped
  <2>3. Market(book.asks)
    BY <1>1, Markets
  <2>4. PICK cost \in Nat : fill = [cost |-> cost]
    BY <2>1, <2>2, <2>3, ConsumePays
  <2>5. deal' = [deal EXCEPT !.phase = "open", !.opened = oclock, !.amount = amount, !.entry = cost]
    BY ONLY <2>1, <2>4
  <2>6. deal' \in Deals /\ deal'.phase = "open" /\ deal'.opened = oclock
    <3>1. oclock \in Int /\ cost \in Int
      BY ONLY <1>1, cost \in Nat
    <3> PICK d, next, now : d = deal /\ next = deal' /\ now = oclock
      OBVIOUS
    <3>2. d \in Deals /\ now \in Int
      BY ONLY <1>1, <3>1, d = deal, now = oclock
    <3>3. next = [d EXCEPT !.phase = "open", !.opened = now, !.amount = amount, !.entry = cost]
      BY ONLY <2>5, d = deal, next = deal', now = oclock
    <3>4. next \in Deals /\ next.phase = "open" /\ next.opened = now
      BY ONLY <2>2, <3>1, <3>2, <3>3 DEF Deals
    <3> QED
      BY ONLY <3>4, next = deal', now = oclock
  <2>7. ObsTypes'
    BY <1>1, <1>2, <2>1, <2>6, BookKept, EmptyShots DEF ObsTypes
  <2>8. MeasureGood(measure', quotes', deal'.opened, deal'.entry)
    BY <1>2, <2>1, NoMeasureGood
  <2> QED
    BY <1>1, <2>6, <2>7, <2>8 DEF ObsInv
<1> QED
  BY <1>3, <1>4

\* The quote of this tick has been shown already, or is shown now.
LEMMA ShownCases ==
    ASSUME ObsTypes, ExitQuote # Nothing, NEW src
    PROVE  \/ /\ Shown(src) = quotes /\ Len(quotes) \in DOMAIN quotes /\ quotes[Len(quotes)].src = src
           \/ Shown(src) = Append(quotes, Shot(src))
<1>1. CASE quotes # << >> /\ Last(quotes).src = src
  <2>1. quotes \in Seq(Shots)
    BY DEF ObsTypes
  <2>2. Len(quotes) \in DOMAIN quotes
    BY ONLY <1>1, <2>1
  <2>3. Last(quotes) = quotes[Len(quotes)]
    BY DEF Last
  <2> QED
    BY <1>1, <2>2, <2>3 DEF Shown
<1>2. CASE ~(quotes # << >> /\ Last(quotes).src = src)
  BY <1>2 DEF Shown, Shot
<1> QED
  BY <1>1, <1>2

LEMMA MeasuredGood ==
    ASSUME ObsInv, deal.phase \in {"open", "closing"}, NEW src,
           ExitQuote # Nothing => src \in Int /\ src <= oclock
    PROVE  Shown(src) \in Seq(Shots) /\ MeasureGood(Measured(src), Shown(src), deal.opened, deal.entry)
<1> PICK m, from, entry : m = measure /\ from = deal.opened /\ entry = deal.entry
  OBVIOUS
<1>1. ObsTypes /\ quotes \in Seq(Shots) /\ from \in Nat /\ entry \in Int /\ MeasureGood(m, quotes, from, entry)
  BY DealTypes DEF ObsInv, ObsTypes
<1>2. CASE ExitQuote = Nothing
  BY <1>1, <1>2 DEF Measured, Shown
<1>3. CASE ExitQuote # Nothing
  <2> PICK sh, new : sh = Shot(src) /\ new = Append(quotes, sh)
    OBVIOUS
  <2>1. sh \in Shots /\ sh.src = src /\ sh.cost = ExitQuote.cost /\ src \in Int
    BY <1>1, <1>3, QuoteTypes DEF Shot
  <2>2. Measured(src) = Observed(m, sh.src, NetOf(sh.cost))
    BY <1>3, <2>1 DEF Measured
  <2>3. NetOf(sh.cost) = Net(sh.cost, entry)
    BY DEF NetOf, Net
  <2>4. Observed(m, sh.src, Net(sh.cost, entry)) =
          IF sh.src < from \/ sh.src <= m.last THEN m ELSE Taken(m, from, sh.src, Net(sh.cost, entry))
    BY DEF Observed, Taken
  <2>5. m.last \in Int /\ LastIn(m.last, quotes, from)
    BY <1>1, MeasureTypes DEF MeasureGood
  <2>6. CASE Shown(src) = quotes /\ Len(quotes) \in DOMAIN quotes /\ quotes[Len(quotes)].src = src
    <3>1. sh.src < from \/ sh.src <= m.last
      BY <1>1, <2>1, <2>5, <2>6, Counted
    <3>2. Measured(src) = m
      BY <2>2, <2>3, <2>4, <3>1
    <3> QED
      BY <1>1, <2>6, <3>2
  <2>7. CASE Shown(src) = new
    <3>1. new \in Seq(Shots) /\ Shows(quotes, sh, new, Len(quotes))
      BY <1>1, <2>1, ShowsNext
    <3> PICK n : n = Len(quotes)
      OBVIOUS
    <3>2. Shows(quotes, sh, new, n)
      BY <3>1
    <3>3. CASE sh.src < from \/ sh.src <= m.last
      <4>1. MeasureGood(m, new, from, entry)
        BY ONLY <1>1, <3>2, <3>3, MeasureSkips
      <4>2. Measured(src) = m
        BY <2>2, <2>3, <2>4, <3>3
      <4> QED
        BY <2>7, <3>1, <4>1, <4>2
    <3>4. CASE ~(sh.src < from \/ sh.src <= m.last)
      <4>1. sh.src >= from /\ sh.src > m.last
        BY ONLY <1>1, <2>1, <2>5, <3>4
      <4>2. MeasureGood(Taken(m, from, sh.src, Net(sh.cost, entry)), new, from, entry)
        BY ONLY <1>1, <3>2, <4>1, MeasureTakes
      <4>3. Measured(src) = Taken(m, from, sh.src, Net(sh.cost, entry))
        BY <2>2, <2>3, <2>4, <3>4
      <4> QED
        BY <2>7, <3>1, <4>2, <4>3
    <3> QED
      BY <3>3, <3>4
  <2> QED
    BY <1>1, <1>3, <2>6, <2>7, ShownCases
<1> QED
  BY <1>2, <1>3

\* A tick measures an open trade, which may become one that is closing.
LEMMA MeasureInv ==
    ASSUME ObsInv, deal.phase \in {"open", "closing"},
           NEW src, ExitQuote # Nothing => src \in Int /\ src <= oclock,
           measure' = Measured(src), quotes' = Shown(src), oclock' = oclock, BookIs',
           deal' \in Deals, deal'.phase \in {"open", "closing"},
           deal'.opened = deal.opened, deal'.entry = deal.entry
    PROVE  ObsInv'
<1>1. ObsTypes /\ oclock \in Nat /\ deal.opened \in Nat
  BY DEF ObsInv, ObsTypes
<1>2. quotes' \in Seq(Shots) /\ MeasureGood(measure', quotes', deal'.opened, deal'.entry)
  BY MeasuredGood
<1>3. ObsTypes'
  BY <1>1, <1>2 DEF ObsTypes
<1> QED
  BY <1>1, <1>2, <1>3 DEF ObsInv

\* A tick that reads the store once, or twice the same book.
LEMMA OwnTime ==
    ASSUME ObsInv, book' = book
    PROVE  /\ deal \in Deals /\ BookIs'
           /\ ExitQuote # Nothing => book.src \in Int /\ book.src <= oclock
  BY BookKept, QuoteTypes DEF ObsInv, ObsTypes

LEMMA HoldInv == ASSUME ObsInv, Hold PROVE ObsInv'
<1>1. deal \in Deals /\ BookIs' /\ (ExitQuote # Nothing => book.src \in Int /\ book.src <= oclock)
  BY OwnTime DEF Hold
<1> QED
  BY <1>1, MeasureInv DEF Hold

LEMMA TornInv == ASSUME ObsInv, NEW b \in ObsBooks, NEW lag \in Lags, TornHold(b, lag) PROVE ObsInv'
<1>1. oclock \in Nat /\ lag \in Nat /\ deal \in Deals
  BY ObsAssumption DEF ObsInv, ObsTypes
<1>2. book' = Arrived(b, oclock - lag, oclock)
  BY DEF TornHold, Stored, Arrived
<1>3. oclock - lag \in Int /\ oclock \in Int /\ oclock - lag <= oclock
  BY <1>1
<1>4. BookIs'
  BY <1>2, <1>3 DEF BookIs
<1> PICK src : src = oclock - lag
  OBVIOUS
<1>5. /\ measure' = Measured(src) /\ quotes' = Shown(src) /\ deal' = deal /\ oclock' = oclock
      /\ deal.phase = "open" /\ src \in Int /\ src <= oclock
  BY <1>3 DEF TornHold
<1> QED
  BY <1>1, <1>4, <1>5, MeasureInv

LEMMA RequestInv == ASSUME ObsInv, RequestClose PROVE ObsInv'
<1>1. deal \in Deals /\ oclock \in Nat
  BY DEF ObsInv, ObsTypes
<1>2. deal' = [deal EXCEPT !.phase = "closing", !.requested = oclock]
  BY DEF RequestClose
<1>3. deal' \in Deals /\ deal'.phase = "closing" /\ deal'.opened = deal.opened /\ deal'.entry = deal.entry
  <2>1. oclock \in Int
    BY ONLY <1>1
  <2> QED
    BY ONLY <1>1, <1>2, <2>1, DealClosing
<1>4. BookIs' /\ (ExitQuote # Nothing => book.src \in Int /\ book.src <= oclock)
  BY OwnTime DEF RequestClose
<1> QED
  BY <1>3, <1>4, MeasureInv DEF RequestClose

LEMMA CloseInv == ASSUME ObsInv, CloseTick PROVE ObsInv'
<1>1. deal \in Deals /\ BookIs' /\ (ExitQuote # Nothing => book.src \in Int /\ book.src <= oclock)
  BY OwnTime DEF CloseTick
<1>2. CASE deal.phase = "open" \/ ExitFills
  BY <1>2, EndInv DEF CloseTick
<1>3. CASE ~(deal.phase = "open" \/ ExitFills)
  BY <1>1, <1>3, MeasureInv DEF CloseTick
<1> QED
  BY <1>2, <1>3

LEMMA ShadowInv == ASSUME ObsInv, ShadowTick PROVE ObsInv'
<1> PICK s, sh, new : s = shadow /\ sh = Shot(book.src) /\ new = Append(quotes, sh)
  OBVIOUS
<1>1. /\ ObsTypes /\ deal.phase = "closed" /\ ExitQuote # Nothing /\ quotes \in Seq(Shots) /\ ShadowGood(s, quotes)
      /\ quotes' = Shown(book.src) /\ UNCHANGED <<oclock, book, deal, measure>>
  BY DEF ShadowTick, ObsInv, ObsTypes
<1>2. sh \in Shots /\ sh.src = book.src /\ sh.cost = ExitQuote.cost /\ book.src \in Int
  BY <1>1, QuoteTypes DEF Shot
<1>3. shadow' = Followed(s, sh.src, sh.cost)
  BY <1>2 DEF ShadowTick
<1>4. s.last \in Int /\ s.ref \in Int /\ s.origin \in Nat /\ LastIn(s.last, quotes, s.origin)
  BY <1>1, ShadowTypes DEF ShadowGood
<1>5. sh.src <= s.origin + Max(ObsHorizons) + ObsWindow
  <2>1. oclock <= s.origin + Max(ObsHorizons) + ObsWindow
    BY DEF ShadowTick
  <2>2. book.src <= oclock /\ oclock \in Nat
    BY <1>1, QuoteTypes
  <2>3. s.origin + Max(ObsHorizons) + ObsWindow \in Int
    BY ONLY <1>4, LastHorizon, ObsConstants
  <2> QED
    BY ONLY <1>2, <2>1, <2>2, <2>3
<1>6. (sh.src < s.origin \/ sh.src <= s.last) => Followed(s, sh.src, sh.cost) = s
  BY DEF Followed
<1>7. quotes' \in Seq(Shots) /\ ShadowGood(shadow', quotes')
  <2>1. CASE Shown(book.src) = quotes /\ Len(quotes) \in DOMAIN quotes /\ quotes[Len(quotes)].src = book.src
    <3>1. sh.src < s.origin \/ sh.src <= s.last
      BY <1>1, <1>2, <1>4, <2>1, Counted
    <3>2. shadow' = s /\ quotes' = quotes
      BY <1>1, <1>3, <1>6, <2>1, <3>1
    <3> QED
      BY <1>1, <3>2
  <2>2. CASE Shown(book.src) = new
    <3>1. new \in Seq(Shots) /\ Shows(quotes, sh, new, Len(quotes))
      BY <1>1, <1>2, ShowsNext
    <3> PICK n : n = Len(quotes)
      OBVIOUS
    <3>2. Shows(quotes, sh, new, n)
      BY <3>1
    <3>3. CASE sh.src < s.origin \/ sh.src <= s.last
      <4>1. ShadowGood(s, new)
        BY ONLY <1>1, <1>5, <3>2, <3>3, ShadowSkips
      <4> QED
        BY <1>1, <1>3, <1>6, <2>2, <3>1, <3>3, <4>1
    <3>4. CASE ~(sh.src < s.origin \/ sh.src <= s.last)
      <4>1. sh.src >= s.origin /\ sh.src > s.last /\ sh.src - s.origin \in Int /\ ObsWindow \in Int
        BY ONLY <1>2, <1>4, <3>4, ObsConstants
      <4>2. CASE s.ref = -1 /\ sh.src - s.origin > ObsWindow
        <5>1. ShadowGood(Followed(s, sh.src, sh.cost), new)
          BY ONLY <1>1, <1>5, <3>2, <4>1, <4>2, ShadowMisses
        <5> QED
          BY <1>1, <1>3, <2>2, <3>1, <5>1
      <4>3. CASE ~(s.ref = -1 /\ sh.src - s.origin > ObsWindow)
        <5>1. s.ref # -1 \/ sh.src - s.origin <= ObsWindow
          BY ONLY <4>1, <4>3
        <5>2. ShadowGood(Followed(s, sh.src, sh.cost), new)
          BY ONLY <1>1, <1>5, <3>2, <4>1, <5>1, ShadowTakes
        <5> QED
          BY <1>1, <1>3, <2>2, <3>1, <5>2
      <4> QED
        BY <4>2, <4>3
    <3> QED
      BY <3>3, <3>4
  <2> QED
    BY <1>1, <2>1, <2>2, ShownCases
<1>8. ObsTypes'
  BY <1>1, <1>7, BookKept DEF ObsTypes
<1> QED
  BY <1>1, <1>7, <1>8 DEF ObsInv

\* The measurements keep telling what was on offer (the inductive invariant).
THEOREM ObservationInductive == ObsSpec => []ObsInv
<1>1. ObsInv /\ [ObsNext]_obsVars => ObsInv'
  <2> SUFFICES ASSUME ObsInv, [ObsNext]_obsVars PROVE ObsInv'
    OBVIOUS
  <2>1. CASE Enter
    BY <2>1, EnterInv
  <2>2. CASE CancelEntry
    BY <2>2, EndInv DEF CancelEntry, Cancelled
  <2>3. CASE FillEntry
    BY <2>3, FillInv
  <2>4. CASE Hold
    BY <2>4, HoldInv
  <2>5. CASE RequestClose
    BY <2>5, RequestInv
  <2>6. CASE CloseTick
    BY <2>6, CloseInv
  <2>7. CASE ShadowTick
    BY <2>7, ShadowInv
  <2>8. CASE TickObservation \/ UNCHANGED obsVars
    BY <2>8, TickInv
  <2>9. CASE \E b \in ObsBooks, lag \in Lags : Arrive(b, lag)
    BY <2>9, ArriveInv
  <2>10. CASE \E b \in ObsBooks, lag \in Lags : TornHold(b, lag)
    BY <2>10, TornInv
  <2> QED
    BY <2>1, <2>2, <2>3, <2>4, <2>5, <2>6, <2>7, <2>8, <2>9, <2>10 DEF ObsNext
<1> QED
  BY <1>1, InitObs, PTL DEF ObsSpec
-----------------------------------------------------------------------------
(* What is recorded of a trade is what was on offer. *)

LEMMA CountingIs == ASSUME NEW from PROVE Counting(from) = CountingIn(quotes, from)
  BY DEF Counting, CountingIn

\* The instant a horizon begins at is filled by a quote that counts.
LEMMA FirstSince ==
    ASSUME NEW qs \in Seq(Shots), NEW from, NEW at, Since(qs, CountingIn(qs, from), at) # {}
    PROVE  Min(Since(qs, CountingIn(qs, from), at)) \in DOMAIN qs
<1> PICK S, n : S = Since(qs, CountingIn(qs, from), at) /\ n = Len(qs)
  OBVIOUS
<1>1. n \in Nat /\ DOMAIN qs = 1..n
  BY ShotTypes
<1>2. S \in SUBSET (1..n)
  BY <1>1 DEF Since, CountingIn
<1>3. S # {}
  OBVIOUS
<1>4. Min(S) \in S
  BY ONLY <1>1, <1>2, <1>3, FirstIndex
<1> QED
  BY ONLY <1>1, <1>2, <1>4, S = Since(qs, CountingIn(qs, from), at)

Numbers(values, C, V) == C # {} /\ (\A i \in C : values[i] \in Int) /\ V = {values[i] : i \in C}

LEMMA ExtremesAre ==
    ASSUME NEW C, NEW values, NEW V, Numbers(values, C, V), NEW best, NEW worst, Spans(values, C, best, worst)
    PROVE  best = Max(V) /\ worst = Min(V)
<1>0. C # {} /\ (\A i \in C : values[i] \in Int) /\ V = {values[i] : i \in C}
  BY DEF Numbers
<1>1. best \in V /\ worst \in V /\ \A v \in V : worst <= v /\ v <= best
  BY <1>0 DEF Spans
<1>2. \A v \in V : v \in Int
  BY <1>0
<1>3. Max(V) = CHOOSE x \in V : \A y \in V : x >= y
  BY DEF Max
<1>4. Min(V) = CHOOSE x \in V : \A y \in V : x <= y
  BY DEF Min
<1>5. best \in Int /\ worst \in Int /\ \A v \in V : best >= v
  BY ONLY <1>1, <1>2
<1>6. Max(V) \in V /\ Max(V) >= best
  BY ONLY <1>1, <1>3, <1>5
<1>7. Min(V) \in V /\ Min(V) <= worst
  BY ONLY <1>1, <1>4, <1>5
<1>8. Max(V) = best
  <2>1. Max(V) \in Int /\ Max(V) <= best
    BY ONLY <1>1, <1>2, <1>6
  <2> QED
    BY ONLY <1>5, <1>6, <2>1
<1>9. Min(V) = worst
  <2>1. Min(V) \in Int /\ worst <= Min(V)
    BY ONLY <1>1, <1>2, <1>7
  <2> QED
    BY ONLY <1>5, <1>7, <2>1
<1> QED
  BY ONLY <1>8, <1>9

LEMMA EntryIsMeasured == ASSUME ObsInv PROVE EntryMeasured
<1> SUFFICES ASSUME deal.phase \in {"open", "closing"}
             PROVE  LET counting == Counting(deal.opened)
                        values == {NetOf(quotes[i].cost) : i \in counting}
                    IN  /\ \A h \in ObsHorizons : RowTells(measure.rows[h], h, deal.opened, counting, NetOf)
                        /\ counting # {} => measure.best = Max(values) /\ measure.worst = Min(values)
                        /\ \A i \in counting : quotes[i].of >= quotes[i].src - BookAge
  BY DEF EntryMeasured
<1> PICK C, from, entry : from = deal.opened /\ entry = deal.entry /\ C = CountingIn(quotes, from)
  OBVIOUS
<1>1. ObsTypes /\ quotes \in Seq(Shots) /\ from \in Nat /\ entry \in Int /\ MeasureGood(measure, quotes, from, entry)
  BY DealTypes DEF ObsInv, ObsTypes
<1>2. Counting(deal.opened) = C
  BY CountingIs
<1>3. \A i \in DOMAIN quotes : Nets(quotes, entry)[i] = NetOf(quotes[i].cost)
  BY DEF Nets, Net, NetOf
<1>4. ASSUME NEW h \in ObsHorizons PROVE RowTells(measure.rows[h], h, from, C, NetOf)
  <2>1. Tells(quotes, measure.rows[h], h, from, C, Nets(quotes, entry))
    BY <1>1 DEF MeasureGood
  <2> PICK S : S = Since(quotes, C, from + h)
    OBVIOUS
  <2>2. S = {i \in C : quotes[i].src >= from + h}
    BY DEF Since
  <2>3. S # {} => Nets(quotes, entry)[Min(S)] = NetOf(quotes[Min(S)].cost)
    BY <1>1, <1>3, FirstSince
  <2> QED
    BY <2>1, <2>2, <2>3 DEF Tells, RowTells
<1>5. ASSUME C # {}
      PROVE  LET values == {NetOf(quotes[i].cost) : i \in C}
             IN  measure.best = Max(values) /\ measure.worst = Min(values)
  <2> PICK nets : nets = Nets(quotes, entry)
    OBVIOUS
  <2>1. \A i \in C : i \in DOMAIN quotes /\ quotes[i].cost \in Int
    BY <1>1, ShotTypes DEF CountingIn
  <2>2. \A i \in C : nets[i] = NetOf(quotes[i].cost) /\ nets[i] \in Int
    BY <1>1, <1>3, <2>1, NetTyped DEF Nets
  <2>3. Spans(nets, C, measure.best, measure.worst)
    BY <1>1 DEF MeasureGood
  <2> PICK V, best, worst : V = {nets[i] : i \in C} /\ best = measure.best /\ worst = measure.worst
    OBVIOUS
  <2>4. Numbers(nets, C, V)
    BY <1>5, <2>2 DEF Numbers
  <2>5. Spans(nets, C, best, worst)
    BY ONLY <2>3, best = measure.best, worst = measure.worst
  <2>6. best = Max(V) /\ worst = Min(V)
    BY ONLY <2>4, <2>5, ExtremesAre
  <2>7. V = {NetOf(quotes[i].cost) : i \in C}
    BY ONLY <2>2, V = {nets[i] : i \in C}
  <2> QED
    BY ONLY <2>6, <2>7, best = measure.best, worst = measure.worst
<1>6. \A i \in C : quotes[i].of >= quotes[i].src - BookAge
  <2>1. \A i \in C : i \in 1..Len(quotes)
    BY <1>1, ShotTypes DEF CountingIn
  <2> QED
    BY ONLY <1>1, <2>1, ShotTypes
<1> QED
  BY <1>2, <1>4, <1>5, <1>6

LEMMA ShadowIsFollowed == ASSUME ObsInv PROVE ShadowFollowed
<1> SUFFICES ASSUME deal.phase = "closed"
             PROVE  LET counting == {i \in Counting(shadow.origin) :
                                        quotes[i].src <= shadow.origin + Max(ObsHorizons) + ObsWindow}
                        usable == counting # {} /\ quotes[Min(counting)].src <= shadow.origin + ObsWindow
                        change(cost) == cost - quotes[Min(counting)].cost
                    IN  IF usable
                        THEN \A h \in ObsHorizons : RowTells(shadow.rows[h], h, shadow.origin, counting, change)
                        ELSE shadow.rows = Blanks /\ shadow.ref = -1
  BY DEF ShadowFollowed
<1> PICK s, C, from : s = shadow /\ from = s.origin /\ C = CountingIn(quotes, from)
  OBVIOUS
<1>1. ObsTypes /\ quotes \in Seq(Shots) /\ ShadowGood(s, quotes)
  BY DEF ObsInv, ObsTypes
<1> DEFINE counting == {i \in Counting(shadow.origin) :
                           quotes[i].src <= shadow.origin + Max(ObsHorizons) + ObsWindow}
           change(cost) == cost - quotes[Min(counting)].cost
<1>2. counting = C
  <2>1. Counting(shadow.origin) = C
    BY CountingIs
  <2>2. \A i \in C : quotes[i].src <= shadow.origin + Max(ObsHorizons) + ObsWindow
    BY <1>1 DEF ShadowGood, CountingIn
  <2> QED
    BY ONLY <2>1, <2>2
<1>3. IF Usably(quotes, C, from)
      THEN /\ s.ref = quotes[Min(C)].cost
           /\ \A h \in ObsHorizons : Tells(quotes, s.rows[h], h, from, C, Changes(quotes, s.ref))
      ELSE s.ref = -1 /\ s.rows = Blanks
  BY <1>1 DEF ShadowGood
<1>4. ASSUME Usably(quotes, C, from), NEW h \in ObsHorizons
      PROVE  RowTells(shadow.rows[h], h, shadow.origin, counting, change)
  <2> HIDE DEF counting
  <2>1. Tells(quotes, s.rows[h], h, from, C, Changes(quotes, s.ref)) /\ s.ref = quotes[Min(C)].cost
    BY <1>3, <1>4
  <2> PICK S : S = Since(quotes, C, from + h)
    OBVIOUS
  <2>2. S = {i \in counting : quotes[i].src >= shadow.origin + h}
    BY <1>2 DEF Since
  <2>3. S # {} => Changes(quotes, s.ref)[Min(S)] = change(quotes[Min(S)].cost)
    BY <1>1, <1>2, <2>1, FirstSince DEF Changes
  <2> QED
    BY <2>1, <2>2, <2>3 DEF Tells, RowTells
<1>5. Usably(quotes, C, from) <=> (counting # {} /\ quotes[Min(counting)].src <= shadow.origin + ObsWindow)
  <2> HIDE DEF counting
  <2> QED
    BY <1>2 DEF Usably
<1>6. ~Usably(quotes, C, from) => shadow.rows = Blanks /\ shadow.ref = -1
  BY <1>3
<1> QED
  BY ONLY <1>4, <1>5, <1>6 DEF RowTells

LEMMA DiagnosisIsTrue == ASSUME ObsInv PROVE DiagnosisAgrees
<1> SUFFICES ASSUME deal.phase \in {"open", "closing"}, book # NoBook, Normal(book), Uncrossed(book)
             PROVE  IF deal.phase = "open" THEN Diagnosis = "monitoring" <=> ExitQuote # Nothing
                    ELSE Latency > 0 => (Diagnosis = "awaiting_management_tick" <=> ExitFills)
  BY DEF DiagnosisAgrees
<1>1. /\ oclock \in Nat /\ book.src \in Int /\ book.recv \in Int /\ deal.requested \in Int /\ Latency \in Nat
      /\ BookAge \in Nat
  BY BookTypes, DealTypes, ObsConstants DEF ObsInv, ObsTypes
<1>2. AgeOf(book) \in Int
  BY <1>1 DEF AgeOf, Larger2
<1>3. ExitQuote # Nothing <=> /\ book.flaw = "none" /\ ~(book.src > oclock) /\ ~(AgeOf(book) > BookAge)
                              /\ Consume(book.bids, "sell", deal.amount) # Nothing
  BY <1>1, <1>2 DEF ExitQuote, Executes
<1>4. CASE deal.phase = "open"
  BY <1>3, <1>4 DEF Diagnosis
<1>5. CASE deal.phase = "closing" /\ Latency > 0
  <2>1. ExitFills <=> /\ ExitQuote # Nothing /\ ~(oclock < deal.requested + Latency)
                      /\ ~(book.src < deal.requested + Latency)
    BY <1>1, <1>5 DEF ExitFills
  <2>2. Diagnosis = "awaiting_management_tick" <=>
          /\ book.flaw = "none" /\ ~(book.src > oclock) /\ ~(AgeOf(book) > BookAge)
          /\ Consume(book.bids, "sell", deal.amount) # Nothing
          /\ ~(oclock < deal.requested + Latency) /\ ~(book.src < deal.requested + Latency)
    BY <1>5 DEF Diagnosis
  <2> QED
    BY ONLY <1>3, <1>5, <2>1, <2>2
<1> QED
  BY <1>4, <1>5

\* What is recorded of a trade while it is open, and of the price after it, is what was
\* shown at the times that count; a quote may be that of the book before the one whose time
\* it is recorded under, at most BookAge older.  The state endpoint says of an exit what a
\* tick would do with it (PaperEntryMeasurement, PaperShadowMeasurement, exit_diagnostics).
THEOREM ObservationIsTrue == ObsSpec => []ObservationTrue
<1>1. ObsInv => ObservationTrue
  BY EntryIsMeasured, ShadowIsFollowed, DiagnosisIsTrue DEF ObservationTrue
<1> QED
  BY <1>1, ObservationInductive, PTL
=============================================================================
