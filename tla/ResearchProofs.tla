----------------------------- MODULE ResearchProofs -----------------------------
(***************************************************************************)
(* Proofs about what is tried before it is trusted, for every value of the *)
(* constants.                                                              *)
(*                                                                         *)
(* Adaptive: an entry and an experimental exit have the evidence the       *)
(* strategy asks for.  The counters of the code stand for chains of books: *)
(* each step of an entry, of a renewal or of an exit starts a chain,       *)
(* lengthens it by a later book or leaves it alone.                        *)
(*                                                                         *)
(* Backtest: a report is true of its simulation, later candles change no   *)
(* trade that was settled, and an experiment answers with its own          *)
(* candidates.  Along the tape every simulation stays good: its trades     *)
(* follow each other and its curve is their running sum.                   *)
(***************************************************************************)
EXTENDS Adaptive, Backtest, FiniteSetTheorems, WellFoundedInduction, TLAPS

-----------------------------------------------------------------------------
(* Numbers and finite sets. *)

LEMMA Least ==
    ASSUME NEW T \in SUBSET Nat, T # {} PROVE \E m \in T : \A k \in T : m <= k
<1> DEFINE Less == {ss \in Nat \X Nat : ss[1] < ss[2]}
<1>1. IsWellFoundedOn(Less, Nat)
  BY NatLessThanWellFounded DEF OpToRel
<1>2. \A k, m \in Nat : k < m => <<k, m>> \in Less
  OBVIOUS
<1> HIDE DEF Less
<1>3. \E m \in T : \A k \in T : ~(<<k, m>> \in Less)
  <2>1. T \subseteq Nat /\ T # {}
    OBVIOUS
  <2> QED
    BY ONLY <1>1, <2>1, WFMin
<1>4. PICK m \in T : \A k \in T : ~(<<k, m>> \in Less)
  BY <1>3
<1>5. ASSUME NEW k \in T PROVE m <= k
  <2>1. k \in Nat /\ m \in Nat /\ ~(k < m)
    BY <1>2, <1>4
  <2> QED
    BY <2>1
<1> QED
  BY <1>5

\* Every set of indices has a first and a last one.
LEMMA FirstIndex ==
    ASSUME NEW n \in Nat, NEW S \in SUBSET (1..n), S # {}
    PROVE  Min(S) \in S /\ \A i \in S : Min(S) <= i
<1>1. \E m \in S : \A i \in S : m <= i
  BY Least
<1>2. Min(S) = CHOOSE m \in S : \A i \in S : m <= i
  BY DEF Min
<1> QED
  BY <1>1, <1>2

LEMMA LastIndex ==
    ASSUME NEW n \in Nat, NEW S \in SUBSET (1..n), S # {}
    PROVE  Max(S) \in S /\ \A i \in S : i <= Max(S)
<1>1. PICK k \in {n - i : i \in S} : \A j \in {n - i : i \in S} : k <= j
  <2>1. \A i \in S : n - i \in Nat
    OBVIOUS
  <2>2. {n - i : i \in S} \in SUBSET Nat /\ {n - i : i \in S} # {}
    BY <2>1
  <2> QED
    BY <2>2, Least
<1>2. PICK m \in S : k = n - m
  OBVIOUS
<1>3. \A i \in S : i <= m
  <2>1. ASSUME NEW i \in S PROVE i <= m
    <3>1. n - m <= n - i
      BY <1>1, <1>2
    <3> QED
      BY <3>1
  <2> QED
    BY <2>1
<1>4. Max(S) = CHOOSE a \in S : \A i \in S : a >= i
  BY DEF Max
<1>5. \E a \in S : \A i \in S : a >= i
  BY <1>3
<1> QED
  BY <1>4, <1>5

-----------------------------------------------------------------------------
(* Chains of books. *)

Span(books, lo, hi) == {b \in books : lo <= b /\ b <= hi}

\* From the book at lo to the book at hi: at least n books, and none of them waits longer
\* than gap for the next.
Chain(books, lo, hi, n, gap) ==
    /\ lo \in books /\ hi \in books /\ lo <= hi
    /\ n \in Nat /\ Cardinality(Span(books, lo, hi)) >= n
    /\ \A b \in books : lo <= b /\ b < hi => \E c \in books : b < c /\ c <= hi /\ c - b <= gap

Books(books) == IsFiniteSet(books) /\ books \subseteq Int

LEMMA BooksAdd ==
    ASSUME NEW books, Books(books), NEW src \in Int
    PROVE  Books(books \cup {src}) /\ Books({src}) /\ Books({})
<1>1. IsFiniteSet(books) /\ books \subseteq Int
  BY DEF Books
<1>2. IsFiniteSet(books \cup {src}) /\ books \cup {src} \subseteq Int
  BY <1>1, FS_AddElement
<1>3. IsFiniteSet({src}) /\ {src} \subseteq Int /\ IsFiniteSet({}) /\ {} \subseteq Int
  BY FS_Singleton, FS_EmptySet
<1> QED
  BY <1>2, <1>3 DEF Books

LEMMA SpanFinite ==
    ASSUME NEW books, Books(books), NEW lo, NEW hi
    PROVE  IsFiniteSet(Span(books, lo, hi)) /\ Cardinality(Span(books, lo, hi)) \in Nat
<1>1. Span(books, lo, hi) \in SUBSET books
  BY DEF Span
<1>2. IsFiniteSet(Span(books, lo, hi))
  BY <1>1, FS_Subset DEF Books
<1> QED
  BY <1>2, FS_CardinalityType

LEMMA ChainStart ==
    ASSUME NEW books, Books(books), NEW src \in Int, NEW gap \in Int
    PROVE  Chain(books \cup {src}, src, src, 1, gap)
<1>1. Span(books \cup {src}, src, src) = {src}
  <2>1. books \subseteq Int
    BY DEF Books
  <2>2. \A b \in books \cup {src} : src <= b /\ b <= src <=> b = src
    BY <2>1
  <2> QED
    BY <2>2 DEF Span
<1>2. Cardinality({src}) = 1
  BY FS_Singleton
<1>3. ASSUME NEW b \in books \cup {src}, src <= b, b < src PROVE FALSE
  BY <1>3 DEF Books
<1>4. src \in books \cup {src} /\ src <= src /\ 1 >= 1
  OBVIOUS
<1> QED
  BY <1>1, <1>2, <1>3, <1>4 DEF Chain

LEMMA ChainExtend ==
    ASSUME NEW books, Books(books), NEW gap \in Int, NEW lo, NEW hi, NEW n,
           Chain(books, lo, hi, n, gap),
           NEW src \in Int, src > hi, src - hi <= gap
    PROVE  Chain(books \cup {src}, lo, src, n + 1, gap)
<1>1. lo \in Int /\ hi \in Int /\ n \in Nat /\ lo <= hi /\ books \subseteq Int
  BY DEF Chain, Books
<1> DEFINE old == Span(books, lo, hi)
<1> DEFINE new == Span(books \cup {src}, lo, src)
<1>2. IsFiniteSet(old) /\ IsFiniteSet(new) /\ Cardinality(new) \in Nat /\ Cardinality(old) \in Nat
  BY SpanFinite, BooksAdd
<1>3. src \notin old /\ old \cup {src} \in SUBSET new
  <2>1. \A b \in books : lo <= b /\ b <= hi => b <= src /\ b # src
    BY <1>1
  <2>2. lo <= src /\ src <= src
    BY <1>1
  <2> QED
    BY <2>1, <2>2 DEF Span
<1>4. Cardinality(old \cup {src}) = Cardinality(old) + 1
  BY <1>2, <1>3, FS_AddElement
<1>5. Cardinality(old \cup {src}) <= Cardinality(new)
  BY <1>2, <1>3, FS_Subset
<1>6. Cardinality(old) >= n
  BY DEF Chain
<1>7. Cardinality(new) >= n + 1
  <2> HIDE DEF old, new
  <2> QED
    BY <1>1, <1>2, <1>4, <1>5, <1>6
<1>8. ASSUME NEW b \in books \cup {src}, lo <= b, b < src
      PROVE  \E c \in books \cup {src} : b < c /\ c <= src /\ c - b <= gap
  <2>1. b \in books /\ b \in Int
    BY <1>1, <1>8
  <2>2. CASE b < hi
    <3>1. PICK c \in books : b < c /\ c <= hi /\ c - b <= gap
      BY <1>8, <2>1, <2>2 DEF Chain
    <3> QED
      BY <3>1, <1>1
  <2>3. CASE ~(b < hi)
    <3>1. src - b <= gap
      BY <1>1, <2>1, <2>3
    <3> QED
      BY <3>1, <1>8
  <2> QED
    BY <2>2, <2>3
<1>9. lo \in books \cup {src} /\ lo <= src
  BY <1>1 DEF Chain
<1> QED
  BY <1>1, <1>7, <1>8, <1>9 DEF Chain

LEMMA ChainPersists ==
    ASSUME NEW books, Books(books), NEW gap \in Int, NEW lo, NEW hi, NEW count,
           Chain(books, lo, hi, count, gap),
           NEW n \in Int, count >= n, NEW span \in Int, hi - lo >= span
    PROVE  Persistent(books, n, span, gap)
<1>1. lo \in books /\ hi \in books /\ books \subseteq Int /\ count \in Nat
  BY DEF Chain, Books
<1>2. Cardinality(Span(books, lo, hi)) \in Nat /\ Cardinality(Span(books, lo, hi)) >= count
  BY SpanFinite DEF Chain
<1>3. Cardinality(Span(books, lo, hi)) >= n
  BY <1>1, <1>2
<1>4. ASSUME NEW b \in Span(books, lo, hi) \ {hi}
      PROVE  \E c \in Span(books, lo, hi) : b < c /\ c - b <= gap
  <2>1. b \in books /\ lo <= b /\ b < hi
    BY <1>1 DEF Span
  <2>2. PICK c \in books : b < c /\ c <= hi /\ c - b <= gap
    BY <2>1 DEF Chain
  <2>3. c \in Span(books, lo, hi)
    BY <1>1, <2>1, <2>2 DEF Span
  <2> QED
    BY <2>2, <2>3
<1>5. Span(books, lo, hi) = {b \in books : lo <= b /\ b <= hi}
  BY DEF Span
<1> QED
  BY <1>1, <1>3, <1>4, <1>5 DEF Persistent

-----------------------------------------------------------------------------
(* The inductive invariant. *)

Sides == {"none", "long", "short"}

HistoryRecord == [side : Sides, first : Int, last : Int, count : Nat]
RenewalRecord == [id : Nat, first : Int, last : Int, count : Nat, armed : BOOLEAN]
TradeRecord == [side : Sides, opened : Int, last : Int, peak : Int,
                kind : {"none", "trailing", "reversal"}, since : Int, count : Nat]
ProofRecord == {p \in [side : Sides, at : SUBSET Int] : Books(p.at)}

TrendRow == Int \X Mids

AdaptiveTypeOK ==
    /\ now \in Nat /\ version \in Versions
    /\ history \in HistoryRecord /\ renewal \in RenewalRecord
    /\ trend \in Seq(TrendRow)
    /\ trade \in TradeRecord /\ closed \in [id : Nat, side : Sides, at : Int]
    /\ entryProof \in ProofRecord
    /\ Books(renewalProof) /\ Books(exitProof)

\* The history of an entry counts the books of a chain that all confirm its side.
EntryChain(h, proof) ==
    h.side # "none" => /\ proof.side = h.side
                       /\ Chain(proof.at, h.first, h.last, h.count, MaxAge)

\* A renewal that is armed has been confirmed; one that is not still counts.
RenewalChain(r, books) ==
    /\ r.last = Never => r.first = Never /\ r.count = 0
    /\ r.last # Never => r.first # Never /\ Chain(books, r.first, r.last, r.count, MaxAge)
    /\ r.armed => /\ r.last # Never /\ r.count >= MinBooks[version]
                  /\ r.last - r.first >= MinSpan[version]

\* The renewal a V2 or V3 entry waits for is the one of the last close.
RenewalInv ==
    /\ renewal.id <= closed.id
    /\ version # "v1" /\ closed.id > 0 /\ renewal.id = closed.id => RenewalChain(renewal, renewalProof)

\* The state of an exit counts books that speak against the trade.
ExitChain(t, books) ==
    /\ t.count = 0 => t.since = Never
    /\ t.count > 0 => /\ t.since # Never /\ t.last # Never
                      /\ Chain(books, t.since, t.last, t.count, ExitGap[version])

ExitInv == trade # NoTrade => trade.opened # Never /\ ExitChain(trade, exitProof)

\* The prices of the trend are in the order of their sources, without a long pause.
Steady(rows) ==
    /\ \A i, j \in DOMAIN rows : i < j => rows[i][1] < rows[j][1]
    /\ \A j \in 1..(Len(rows) - 1) : rows[j + 1][1] - rows[j][1] \in 1..TrendGap

AdaptiveInv ==
    /\ AdaptiveTypeOK
    /\ EntryChain(history, entryProof) /\ RenewalInv /\ ExitInv /\ Steady(trend)

LEMMA Numbers ==
    ASSUME version \in Versions
    PROVE  /\ MinBooks[version] \in Int /\ MinSpan[version] \in Int
           /\ ExitSpan[version] \in Int /\ ExitGap[version] \in Int
           /\ MaxAge \in Nat /\ TrendGap \in Nat /\ TrendMin \in Nat /\ TrendMax \in Nat
           /\ Trail \in Nat /\ MaxHold \in Nat
<1>1. MinBooks \in [Versions -> Int] /\ MinSpan \in [Versions -> Int]
      /\ ExitSpan \in [Versions -> Int] /\ ExitGap \in [Versions -> Int]
  BY AdaptiveAssumption
<1>2. MaxAge \in Nat /\ TrendGap \in Nat /\ TrendMin \in Nat /\ TrendMax \in Nat
      /\ Trail \in Nat /\ MaxHold \in Nat
  BY AdaptiveAssumption
<1> QED
  BY <1>1, <1>2

LEMMA ViewType ==
    ASSUME NEW v \in Views PROVE v.dir \in Sides /\ v.ok \in BOOLEAN /\ v.firm \in BOOLEAN
BY AdaptiveAssumption DEF Sides

-----------------------------------------------------------------------------
(* What one book does to the three memories. *)

\* The books that have confirmed the side since the last contradiction.
ConfirmedBy(v, src) ==
    IF ~Confirms(v, src) THEN NoProof
    ELSE [side |-> v.dir, at |-> {src} \cup (IF entryProof.side = v.dir THEN entryProof.at ELSE {})]

LEMMA EntryStep ==
    ASSUME version \in Versions, entryProof \in ProofRecord,
           NEW h \in HistoryRecord, EntryChain(h, entryProof),
           NEW v \in Views, NEW src \in Int
    PROVE  /\ HistoryAfter(h, v, src) \in HistoryRecord
           /\ ConfirmedBy(v, src) \in ProofRecord
           /\ EntryChain(HistoryAfter(h, v, src), ConfirmedBy(v, src))
           /\ HistoryAfter(h, v, src).side \in {"none", v.dir}
<1>1. MaxAge \in Int
  BY Numbers
<1>2. v.dir \in Sides
  BY ViewType
<1>3. h.side \in Sides /\ h.first \in Int /\ h.last \in Int /\ h.count \in Nat
  BY DEF HistoryRecord
<1>4. CASE ~Confirms(v, src)
  <2>1. NoHistory \in HistoryRecord /\ NoHistory.side = "none"
    BY DEF NoHistory, HistoryRecord, Sides, Never
  <2>2. NoProof \in ProofRecord
    <3>1. Books({})
      BY BooksAdd, FS_EmptySet DEF Books
    <3>2. NoProof = [side |-> "none", at |-> {}] /\ "none" \in Sides
      BY DEF NoProof, Sides
    <3> QED
      BY <3>1, <3>2 DEF ProofRecord
  <2> QED
    BY <1>4, <2>1, <2>2 DEF HistoryAfter, ConfirmedBy, EntryChain
<1>5. CASE Confirms(v, src)
  <2> DEFINE at == IF entryProof.side = v.dir THEN entryProof.at ELSE {}
  <2>1. Books(at)
    <3>1. Books(entryProof.at) /\ Books({})
      BY FS_EmptySet DEF ProofRecord, Books
    <3> QED
      BY <3>1
  <2>2. PICK p \in ProofRecord : p = [side |-> v.dir, at |-> at \cup {src}]
    <3>1. Books(at \cup {src}) /\ at \cup {src} \in SUBSET Int
      BY <2>1, BooksAdd DEF Books
    <3> HIDE DEF at
    <3> QED
      BY <1>2, <3>1 DEF ProofRecord
  <2>3. ConfirmedBy(v, src) = p /\ p.side = v.dir /\ p.at = at \cup {src}
    BY <1>5, <2>2 DEF ConfirmedBy
  <2>4. HistoryAfter(h, v, src) = Counted(h, v, src)
    BY <1>5 DEF HistoryAfter
  <2> HIDE DEF at
  <2>5. CASE h.side # v.dir \/ src < h.last \/ src - h.last > MaxAge
    <3>1. PICK n \in HistoryRecord : n = [side |-> v.dir, first |-> src, last |-> src, count |-> 1]
      BY <1>2 DEF HistoryRecord
    <3>2. Counted(h, v, src) = n
      BY <2>5, <3>1 DEF Counted
    <3>3. Chain(p.at, n.first, n.last, n.count, MaxAge)
      BY <1>1, <2>1, <2>3, <3>1, ChainStart
    <3> QED
      BY <2>3, <2>4, <3>1, <3>2, <3>3 DEF EntryChain
  <2>6. CASE h.side = v.dir /\ ~(src < h.last) /\ ~(src - h.last > MaxAge)
    <3>1. h.side # "none"
      BY <1>5, <2>6 DEF Confirms
    <3>2. Chain(at, h.first, h.last, h.count, MaxAge)
      BY <2>6, <3>1 DEF EntryChain, at
    <3>3. CASE src > h.last
      <4>1. PICK n \in HistoryRecord : n = [h EXCEPT !.last = src, !.count = @ + 1]
        <5>1. PICK c \in Nat : c = h.count + 1
          BY <1>3
        <5>2. [h EXCEPT !.last = src, !.count = c] \in HistoryRecord
          BY DEF HistoryRecord
        <5> QED
          BY <5>1, <5>2
      <4>2. Counted(h, v, src) = n
        BY <2>6, <3>3, <4>1 DEF Counted
      <4>3. n.side = v.dir /\ n.first = h.first /\ n.last = src /\ n.count = h.count + 1
        BY <2>6, <4>1 DEF HistoryRecord
      <4>4. Chain(at \cup {src}, h.first, src, h.count + 1, MaxAge)
        <5>1. src > h.last /\ src - h.last <= MaxAge
          BY <1>1, <1>3, <2>6, <3>3
        <5> QED
          BY ONLY <1>1, <2>1, <3>2, <5>1, src \in Int, ChainExtend
      <4> QED
        BY <2>3, <2>4, <4>2, <4>3, <4>4 DEF EntryChain
    <3>4. CASE ~(src > h.last)
      <4>1. src = h.last /\ Counted(h, v, src) = h
        BY <1>3, <2>6, <3>4 DEF Counted
      <4>2. at \cup {src} = at
        BY <3>2, <4>1 DEF Chain
      <4> QED
        BY <2>3, <2>4, <2>6, <3>2, <4>1, <4>2 DEF EntryChain
    <3> QED
      BY <3>3, <3>4
  <2> QED
    BY <2>5, <2>6
<1> QED
  BY <1>4, <1>5

\* The books of the renewal that waits.
RenewedBy(v, src) == IF Renews(v, src) THEN renewalProof \cup {src} ELSE {}

LEMMA RenewalStep ==
    ASSUME version \in Versions, Books(renewalProof),
           NEW r \in RenewalRecord, ~r.armed, RenewalChain(r, renewalProof),
           NEW v \in Views, NEW src \in Nat
    PROVE  /\ RenewalAfter(r, v, src) \in RenewalRecord /\ Books(RenewedBy(v, src))
           /\ RenewalAfter(r, v, src).id = r.id
           /\ RenewalChain(RenewalAfter(r, v, src), RenewedBy(v, src))
<1>1. MaxAge \in Int /\ MinBooks[version] \in Int /\ MinSpan[version] \in Int
  BY Numbers
<1>2. r.id \in Nat /\ r.first \in Int /\ r.last \in Int /\ r.count \in Nat /\ r.armed \in BOOLEAN
  BY DEF RenewalRecord
<1>3. src \in Int /\ src # Never /\ Never \in Int
  BY DEF Never
<1>4. CASE ~Renews(v, src)
  <2>1. PICK n \in RenewalRecord : n = [r EXCEPT !.count = 0, !.first = Never, !.last = Never]
    BY <1>3 DEF RenewalRecord
  <2>2. RenewalAfter(r, v, src) = n /\ RenewedBy(v, src) = {}
    BY <1>4, <2>1 DEF RenewalAfter, RenewedBy
  <2>3. n.id = r.id /\ n.count = 0 /\ n.first = Never /\ n.last = Never /\ n.armed = r.armed
    BY <2>1 DEF RenewalRecord
  <2>4. Books({})
    BY FS_EmptySet DEF Books
  <2> QED
    BY <2>2, <2>3, <2>4 DEF RenewalChain
<1>5. CASE Renews(v, src) /\ r.last = src
  <2>1. RenewalAfter(r, v, src) = r
    BY <1>5 DEF RenewalAfter
  <2>2. src \in renewalProof
    BY <1>3, <1>5 DEF RenewalChain, Chain
  <2>3. RenewedBy(v, src) = renewalProof
    BY <1>5, <2>2 DEF RenewedBy
  <2> QED
    BY <2>1, <2>3
<1>6. CASE Renews(v, src) /\ r.last # src
  <2> DEFINE broken == r.last # Never /\ (src <= r.last \/ src - r.last > MaxAge)
  <2> DEFINE first == IF broken \/ r.first = Never THEN src ELSE r.first
  <2> DEFINE count == IF broken THEN 1 ELSE r.count + 1
  <2> DEFINE proof == renewalProof \cup {src}
  <2>1. first \in Int /\ count \in Nat
    BY <1>2, <1>3
  <2>2. PICK n \in RenewalRecord :
          n = [r EXCEPT !.first = first, !.last = src, !.count = count,
                        !.armed = count >= MinBooks[version] /\ src - first >= MinSpan[version]]
    <3> HIDE DEF first, count
    <3> QED
      BY <1>3, <2>1 DEF RenewalRecord
  <2>3. RenewalAfter(r, v, src) = n /\ RenewedBy(v, src) = proof
    BY <1>6, <2>2 DEF RenewalAfter, RenewedBy
  <2>4. /\ n.id = r.id /\ n.first = first /\ n.last = src /\ n.count = count
        /\ n.armed => count >= MinBooks[version] /\ src - first >= MinSpan[version]
    <3> HIDE DEF first, count
    <3> QED
      BY <2>2 DEF RenewalRecord
  <2>5. Books(proof)
    BY <1>3, BooksAdd
  <2>6. first # Never /\ Chain(proof, first, src, count, MaxAge)
    <3>1. CASE broken \/ r.last = Never
      <4>1. first = src /\ count = 1
        BY <1>2, <3>1 DEF RenewalChain
      <4> QED
        BY <1>1, <1>3, <4>1, ChainStart
    <3>2. CASE ~broken /\ r.last # Never
      <4>1. first = r.first /\ count = r.count + 1 /\ first # Never
        BY <3>2 DEF RenewalChain
      <4>2. src > r.last /\ src - r.last <= MaxAge
        BY <1>1, <1>2, <1>3, <3>2
      <4>3. Chain(renewalProof, r.first, r.last, r.count, MaxAge)
        BY <3>2 DEF RenewalChain
      <4>4. Chain(proof, r.first, src, r.count + 1, MaxAge)
        BY ONLY <1>1, <1>3, <4>2, <4>3, Books(renewalProof), ChainExtend
      <4> QED
        BY <4>1, <4>4
    <3> QED
      BY <3>1, <3>2
  <2>7. RenewalChain(n, proof)
    <3> HIDE DEF first, count, proof
    <3> QED
      BY <1>3, <2>4, <2>6 DEF RenewalChain
  <2> QED
    BY <2>3, <2>4, <2>5, <2>7
<1> QED
  BY <1>4, <1>5, <1>6

LEMMA ForgottenStep ==
    ASSUME version \in Versions, NEW t \in TradeRecord, NEW books
    PROVE  /\ Forgotten(t) \in TradeRecord /\ ExitChain(Forgotten(t), books)
           /\ Forgotten(t).opened = t.opened /\ Forgotten(t).last = t.last
           /\ Forgotten(t).count = 0 /\ Forgotten(t).since = Never
<1>1. Forgotten(t) \in TradeRecord
  <2>1. Never \in Int /\ 0 \in Nat
    BY DEF Never
  <2> QED
    BY <2>1 DEF TradeRecord, Forgotten
<1>2. /\ Forgotten(t).count = 0 /\ Forgotten(t).since = Never
      /\ Forgotten(t).opened = t.opened /\ Forgotten(t).last = t.last
  BY DEF TradeRecord, Forgotten
<1> QED
  BY <1>1, <1>2 DEF ExitChain

\* A book that is marked starts the evidence, or lengthens it when no pause came between.
LEMMA MarkedStep ==
    ASSUME version \in Versions, Books(exitProof),
           NEW t \in TradeRecord, NEW src \in Nat, NEW kind \in {"none", "trailing", "reversal"},
           t.last = src, t.count = 0 => t.since = Never,
           t.count > 0 => /\ t.since # Never
                          /\ Chain(exitProof \cup {src}, t.since, src, t.count + 1, ExitGap[version])
    PROVE  /\ Marked(t, kind, src) \in TradeRecord
           /\ ExitChain(Marked(t, kind, src), exitProof \cup {src})
           /\ Marked(t, kind, src).opened = t.opened
<1>1. ExitGap[version] \in Int
  BY Numbers
<1>2. src \in Int /\ src # Never
  BY DEF Never
<1>3. t.since \in Int /\ t.count \in Nat
  BY DEF TradeRecord
<1>4. PICK since \in Int : since = IF t.since = Never THEN src ELSE t.since
  BY <1>2, <1>3
<1>5. PICK n \in TradeRecord : n = [t EXCEPT !.kind = kind, !.since = since, !.count = @ + 1]
  <2>1. PICK c \in Nat : c = t.count + 1
    BY <1>3
  <2>2. [t EXCEPT !.kind = kind, !.since = since, !.count = c] \in TradeRecord
    BY DEF TradeRecord
  <2> QED
    BY <2>1, <2>2
<1>6. Marked(t, kind, src) = n
  BY <1>4, <1>5 DEF Marked
<1>7. n.since = since /\ n.count = t.count + 1 /\ n.opened = t.opened /\ n.last = src
  BY <1>5 DEF TradeRecord
<1>8. since # Never /\ Chain(exitProof \cup {src}, since, src, t.count + 1, ExitGap[version])
  <2>1. CASE t.count = 0
    <3>1. since = src /\ t.count + 1 = 1
      BY <1>4, <2>1
    <3>2. Chain(exitProof \cup {src}, src, src, 1, ExitGap[version])
      BY <1>1, <1>2, ChainStart
    <3> QED
      BY <1>2, <3>1, <3>2
  <2>2. CASE t.count > 0
    BY <1>4, <2>2
  <2> QED
    BY <1>3, <2>1, <2>2
<1>9. t.count + 1 # 0
  BY <1>3
<1> QED
  BY <1>2, <1>6, <1>7, <1>8, <1>9 DEF ExitChain

\* What both monitors begin with: a book later than the last one, after a pause.
Noticed(t, src, pnl) ==
    [(IF Paused(t, src) THEN Forgotten(t) ELSE t) EXCEPT !.last = src, !.peak = Larger(t.peak, pnl)]

LEMMA NoticedFields ==
    ASSUME version \in Versions, NEW t \in TradeRecord, NEW src \in Nat, NEW pnl \in Int
    PROVE  /\ Noticed(t, src, pnl) \in TradeRecord
           /\ Noticed(t, src, pnl).opened = t.opened
           /\ Noticed(t, src, pnl).peak = Larger(t.peak, pnl)
<1>1. PICK u \in TradeRecord : u = (IF Paused(t, src) THEN Forgotten(t) ELSE t) /\ u.opened = t.opened
  BY ForgottenStep
<1>2. Larger(t.peak, pnl) \in Int /\ src \in Int
  BY DEF Larger, TradeRecord
<1>3. [u EXCEPT !.last = src, !.peak = Larger(t.peak, pnl)] \in TradeRecord
  BY <1>2 DEF TradeRecord
<1>4. PICK n \in TradeRecord : n = [u EXCEPT !.last = src, !.peak = Larger(t.peak, pnl)]
  BY <1>3
<1>5. n.opened = u.opened /\ n.peak = Larger(t.peak, pnl)
  BY <1>4 DEF TradeRecord
<1>6. Noticed(t, src, pnl) = n
  BY <1>1, <1>4 DEF Noticed
<1> QED
  BY <1>1, <1>5, <1>6

LEMMA NoticedStep ==
    ASSUME version \in Versions, Books(exitProof),
           NEW t \in TradeRecord, ExitChain(t, exitProof),
           NEW src \in Nat, src > t.last, NEW pnl \in Int
    PROVE  /\ Noticed(t, src, pnl) \in TradeRecord
           /\ Noticed(t, src, pnl).last = src /\ Noticed(t, src, pnl).opened = t.opened
           /\ Noticed(t, src, pnl).peak = Larger(t.peak, pnl)
           /\ Noticed(t, src, pnl).count = 0 => Noticed(t, src, pnl).since = Never
           /\ Noticed(t, src, pnl).count > 0 =>
                /\ Noticed(t, src, pnl).since # Never
                /\ Chain(exitProof \cup {src}, Noticed(t, src, pnl).since, src,
                         Noticed(t, src, pnl).count + 1, ExitGap[version])
<1>1. ExitGap[version] \in Int /\ src \in Int
  BY Numbers
<1>2. PICK u \in TradeRecord :
        /\ u = IF Paused(t, src) THEN Forgotten(t) ELSE t
        /\ u.opened = t.opened
        /\ u.count = 0 => u.since = Never
        /\ u.count > 0 => u = t /\ ~Paused(t, src)
  <2>1. CASE Paused(t, src)
    <3>1. Forgotten(t).count = 0 /\ ~(Forgotten(t).count > 0)
      BY ForgottenStep
    <3> QED
      BY <2>1, <3>1, ForgottenStep
  <2>2. CASE ~Paused(t, src)
    BY <2>2 DEF ExitChain
  <2> QED
    BY <2>1, <2>2
<1>3. PICK n \in TradeRecord : n = [u EXCEPT !.last = src, !.peak = Larger(t.peak, pnl)]
  <2>1. Larger(t.peak, pnl) \in Int
    BY DEF Larger, TradeRecord
  <2>2. [u EXCEPT !.last = src, !.peak = Larger(t.peak, pnl)] \in TradeRecord
    BY <1>1, <2>1 DEF TradeRecord
  <2> QED
    BY <2>2
<1>4. Noticed(t, src, pnl) = n
  BY <1>2, <1>3 DEF Noticed
<1>5. n.last = src /\ n.peak = Larger(t.peak, pnl) /\ n.opened = u.opened
      /\ n.count = u.count /\ n.since = u.since
  BY <1>3 DEF TradeRecord
<1>6. ASSUME u.count > 0
      PROVE  u.since # Never /\ Chain(exitProof \cup {src}, u.since, src, u.count + 1, ExitGap[version])
  <2>1. u = t /\ ~Paused(t, src)
    BY <1>2, <1>6
  <2>2. t.since # Never /\ t.last # Never /\ Chain(exitProof, t.since, t.last, t.count, ExitGap[version])
    BY <1>6, <2>1 DEF ExitChain
  <2>3. src - t.last <= ExitGap[version]
    <3>1. t.last \in Int
      BY DEF TradeRecord
    <3>2. ~(src - t.last > ExitGap[version])
      BY <2>1, <2>2 DEF Paused
    <3> QED
      BY <1>1, <3>1, <3>2
  <2>4. Chain(exitProof \cup {src}, t.since, src, t.count + 1, ExitGap[version])
    BY ONLY <1>1, <2>2, <2>3, Books(exitProof), src > t.last, ChainExtend
  <2> QED
    BY <2>1, <2>2, <2>4
<1> QED
  BY <1>2, <1>4, <1>5, <1>6

\* The monitor of a trade and the books that stand for its evidence keep step.
WatchKept(w, books) ==
    /\ w \in TradeRecord /\ w.opened = trade.opened
    /\ Books(books) /\ ExitChain(w, books)

LEMMA MarkedKept ==
    ASSUME version \in Versions, Books(exitProof), trade \in TradeRecord, ExitChain(trade, exitProof),
           NEW src \in Nat, src > trade.last, NEW pnl \in Int, NEW kind \in {"none", "trailing", "reversal"}
    PROVE  /\ WatchKept(Marked(Noticed(trade, src, pnl), kind, src), exitProof \cup {src})
           /\ WatchKept(Marked(Forgotten(Noticed(trade, src, pnl)), kind, src), exitProof \cup {src})
<1>1. PICK u \in TradeRecord :
        /\ u = Noticed(trade, src, pnl)
        /\ u.last = src /\ u.opened = trade.opened
        /\ u.count = 0 => u.since = Never
        /\ u.count > 0 =>
             /\ u.since # Never
             /\ Chain(exitProof \cup {src}, u.since, src, u.count + 1, ExitGap[version])
  BY NoticedStep
<1>2. Books(exitProof \cup {src})
  <2>1. src \in Int
    OBVIOUS
  <2> QED
    BY <2>1, BooksAdd
<1>3. WatchKept(Marked(u, kind, src), exitProof \cup {src})
  BY <1>1, <1>2, MarkedStep DEF WatchKept
<1>4. PICK w \in TradeRecord :
        w = Forgotten(u) /\ w.last = src /\ w.opened = trade.opened /\ w.count = 0 /\ w.since = Never
  BY <1>1, ForgottenStep
<1>5. ~(w.count > 0)
  BY <1>4
<1>6. WatchKept(Marked(w, kind, src), exitProof \cup {src})
  BY <1>2, <1>4, <1>5, MarkedStep DEF WatchKept
<1> QED
  BY <1>1, <1>3, <1>4, <1>6

LEMMA ForgottenKept ==
    ASSUME version \in Versions, NEW t \in TradeRecord, t.opened = trade.opened
    PROVE  /\ WatchKept(Forgotten(t), {})
           /\ WatchKept([Forgotten(t) EXCEPT !.kind = "none"], {})
<1>1. Books({})
  BY FS_EmptySet DEF Books
<1>2. PICK f \in TradeRecord : f = Forgotten(t) /\ f.opened = t.opened /\ f.count = 0 /\ f.since = Never
  BY ForgottenStep
<1>3. PICK n \in TradeRecord : n = [f EXCEPT !.kind = "none"]
  <2>1. [f EXCEPT !.kind = "none"] \in TradeRecord
    BY DEF TradeRecord
  <2> QED
    BY <2>1
<1>4. n.opened = t.opened /\ n.count = 0 /\ n.since = Never
  BY <1>2, <1>3 DEF TradeRecord
<1> QED
  BY <1>1, <1>2, <1>3, <1>4 DEF WatchKept, ExitChain

LEMMA WatchStep ==
    ASSUME AdaptiveTypeOK, ExitInv, trade # NoTrade,
           NEW v \in Views, NEW src \in Nat, NEW pnl \in Int
    PROVE  WatchKept(Watched(v, src, pnl), Evidence(v, src, pnl))
<1>1. /\ version \in Versions /\ Books(exitProof) /\ trade \in TradeRecord
      /\ ExitChain(trade, exitProof)
  BY DEF AdaptiveTypeOK, ExitInv
<1>2. trade.last \in Int /\ now \in Int /\ v.ok \in BOOLEAN
  BY <1>1, ViewType DEF TradeRecord, AdaptiveTypeOK
<1>3. WatchKept(trade, exitProof)
  BY <1>1 DEF WatchKept
<1>0. /\ Noticed(trade, src, pnl) \in TradeRecord
      /\ Noticed(trade, src, pnl).opened = trade.opened
      /\ Noticed(trade, src, pnl).peak = Larger(trade.peak, pnl)
  <2>1. src \in Nat /\ pnl \in Int
    OBVIOUS
  <2> QED
    BY ONLY <1>1, <2>1, NoticedFields
<1> DEFINE u == Noticed(trade, src, pnl)
<1>4. u \in TradeRecord /\ u.opened = trade.opened /\ u.peak = Larger(trade.peak, pnl)
  BY <1>0
<1>5. CASE version = "v1"
  <2>1. Watched(v, src, pnl) =
          IF ~v.ok \/ src > now \/ src <= trade.last THEN trade
          ELSE IF v.dir # trade.side \/ Trailing(u.peak, pnl) THEN Marked(u, "none", src)
          ELSE Forgotten(u)
    BY <1>5 DEF Watched, WatchV1, Noticed
  <2>2. Evidence(v, src, pnl) =
          IF ~v.ok \/ src > now \/ src <= trade.last THEN exitProof
          ELSE IF v.dir # trade.side \/ Trailing(Larger(trade.peak, pnl), pnl)
          THEN exitProof \cup {src} ELSE {}
    BY <1>5 DEF Evidence, Weakens
  <2> HIDE DEF u
  <2>3. CASE ~v.ok \/ src > now \/ src <= trade.last
    BY <1>3, <2>1, <2>2, <2>3
  <2>4. CASE ~(~v.ok \/ src > now \/ src <= trade.last)
    <3>1. src > trade.last
      BY <1>2, <2>4
    <3>2. WatchKept(Marked(u, "none", src), exitProof \cup {src})
      BY <1>1, <3>1, MarkedKept DEF u
    <3>3. WatchKept(Forgotten(u), {})
      BY <1>1, <1>4, <3>1, ForgottenKept
    <3> QED
      BY <1>4, <2>1, <2>2, <2>4, <3>1, <3>2, <3>3
  <2> QED
    BY <2>3, <2>4
<1>6. CASE version # "v1"
  <2> DEFINE kind == IF Trailing(u.peak, pnl) THEN "trailing" ELSE "reversal"
  <2>1. Watched(v, src, pnl) =
          IF ~v.ok \/ ~Fresh(src) THEN Forgotten(trade)
          ELSE IF src <= trade.last THEN trade
          ELSE IF ~Trailing(u.peak, pnl) /\ Classification(trade.side, v) # "reversal"
          THEN [Forgotten(u) EXCEPT !.kind = "none"]
          ELSE Marked(IF trade.kind = kind THEN u ELSE Forgotten(u), kind, src)
    BY <1>6 DEF Watched, WatchV2, Noticed
  <2>2. Evidence(v, src, pnl) =
          IF ~v.ok \/ ~Fresh(src) THEN {}
          ELSE IF src <= trade.last THEN exitProof
          ELSE IF Classification(trade.side, v) = "reversal" \/ Trailing(Larger(trade.peak, pnl), pnl)
          THEN exitProof \cup {src} ELSE {}
    BY <1>6 DEF Evidence, Weakens
  <2>3. kind \in {"none", "trailing", "reversal"}
    OBVIOUS
  <2> HIDE DEF u, kind
  <2>4. CASE ~v.ok \/ ~Fresh(src)
    <3>1. WatchKept(Forgotten(trade), {})
      BY <1>1, ForgottenKept
    <3> QED
      BY <2>1, <2>2, <2>4, <3>1
  <2>5. CASE ~(~v.ok \/ ~Fresh(src)) /\ src <= trade.last
    BY <1>3, <2>1, <2>2, <2>5
  <2>6. CASE ~(~v.ok \/ ~Fresh(src)) /\ ~(src <= trade.last)
    <3>1. src > trade.last
      BY <1>2, <2>6
    <3>2. /\ WatchKept(Marked(u, kind, src), exitProof \cup {src})
          /\ WatchKept(Marked(Forgotten(u), kind, src), exitProof \cup {src})
      BY <1>1, <2>3, <3>1, MarkedKept DEF u
    <3>3. WatchKept([Forgotten(u) EXCEPT !.kind = "none"], {})
      BY <1>1, <1>4, <3>1, ForgottenKept
    <3> QED
      BY <1>4, <2>1, <2>2, <2>6, <3>1, <3>2, <3>3
  <2> QED
    BY <2>4, <2>5, <2>6
<1> QED
  BY <1>5, <1>6

-----------------------------------------------------------------------------
(* The prices of the trend. *)

LEMMA AppendFacts ==
    ASSUME NEW S, NEW s \in Seq(S), NEW e \in S
    PROVE  /\ Append(s, e) \in Seq(S) /\ Len(Append(s, e)) = Len(s) + 1
           /\ Append(s, e)[Len(s) + 1] = e
           /\ \A i \in 1..Len(s) : Append(s, e)[i] = s[i]
OBVIOUS

LEMMA SuffixFacts ==
    ASSUME NEW S, NEW s \in Seq(S), NEW m \in 1..Len(s)
    PROVE  /\ SubSeq(s, m, Len(s)) \in Seq(S) /\ Len(SubSeq(s, m, Len(s))) = Len(s) - m + 1
           /\ \A i \in 1..(Len(s) - m + 1) : SubSeq(s, m, Len(s))[i] = s[i + m - 1]
OBVIOUS

LEMMA RowFacts ==
    ASSUME NEW rows \in Seq(TrendRow)
    PROVE  /\ Len(rows) \in Nat /\ DOMAIN rows = 1..Len(rows)
           /\ \A i \in 1..Len(rows) : rows[i] \in TrendRow /\ rows[i][1] \in Int
<1>1. Len(rows) \in Nat /\ DOMAIN rows = 1..Len(rows) /\ \A i \in 1..Len(rows) : rows[i] \in TrendRow
  OBVIOUS
<1>2. \A row \in TrendRow : row[1] \in Int
  BY DEF TrendRow
<1> QED
  BY <1>1, <1>2

LEMMA AddedStep ==
    ASSUME version \in Versions, trend \in Seq(TrendRow), Steady(trend),
           NEW src \in Int, NEW mid \in Mids, ~TrendRefuses(src)
    PROVE  /\ Added(src, mid) \in Seq(TrendRow) /\ Len(Added(src, mid)) >= 1
           /\ Steady(Added(src, mid)) /\ Added(src, mid)[Len(Added(src, mid))][1] = src
<1>1. TrendGap \in Nat
  BY Numbers
<1> DEFINE n == Len(trend)
<1>2. PICK row \in TrendRow : row = <<src, mid>> /\ row[1] = src
  <2>1. <<src, mid>> \in TrendRow
    BY DEF TrendRow
  <2> QED
    BY <2>1
<1>3. CASE trend = << >> \/ src - trend[n][1] > TrendGap
  <2>1. Added(src, mid) = Append(<< >>, row)
    BY <1>2, <1>3 DEF Added, Last
  <2>2. PICK rows \in Seq(TrendRow) : rows = Append(<< >>, row) /\ Len(rows) = 1 /\ rows[1] = row
    <3>1. << >> \in Seq(TrendRow) /\ Len(<< >>) = 0
      OBVIOUS
    <3>2. PICK none \in Seq(TrendRow) : none = << >> /\ Len(none) = 0
      BY <3>1
    <3>3. Append(none, row) \in Seq(TrendRow) /\ Len(Append(none, row)) = 1 /\ Append(none, row)[1] = row
      BY <3>2, AppendFacts
    <3> QED
      BY <3>2, <3>3
  <2>3. Steady(rows)
    BY <2>2 DEF Steady
  <2> QED
    BY <1>2, <2>1, <2>2, <2>3
<1>4. CASE trend # << >> /\ ~(src - trend[n][1] > TrendGap)
  <2>1. n \in Nat /\ n >= 1 /\ trend[n][1] \in Int
    <3>1. n \in Nat /\ n # 0
      BY <1>4
    <3>2. n \in 1..n
      BY <3>1
    <3> QED
      BY <3>1, <3>2, RowFacts
  <2>2. src >= trend[n][1]
    BY <1>4, <2>1 DEF TrendRefuses, Last
  <2>3. CASE src > trend[n][1]
    <3>1. Added(src, mid) = Append(trend, row)
      BY <1>2, <1>4, <2>3 DEF Added, Last
    <3>2. PICK rows \in Seq(TrendRow) :
            /\ rows = Append(trend, row) /\ Len(rows) = n + 1 /\ rows[n + 1] = row
            /\ \A i \in 1..n : rows[i] = trend[i]
      <4>1. /\ Append(trend, row) \in Seq(TrendRow) /\ Len(Append(trend, row)) = n + 1
            /\ Append(trend, row)[n + 1] = row
            /\ \A i \in 1..n : Append(trend, row)[i] = trend[i]
        BY AppendFacts
      <4> QED
        BY <4>1
    <3>3. \A i \in 1..n : trend[i][1] \in Int
      BY RowFacts
    <3>4. \A i \in 1..n : trend[i][1] <= trend[n][1]
      <4>1. \A i \in 1..n : i = n \/ trend[i][1] < trend[n][1]
        <5>1. DOMAIN trend = 1..n /\ n \in 1..n
          BY <2>1, RowFacts
        <5>2. \A i \in 1..n : i = n \/ i < n
          BY <2>1
        <5> QED
          BY <5>1, <5>2 DEF Steady
      <4> QED
        BY <2>1, <3>3, <4>1
    <3>5. ASSUME NEW i \in DOMAIN rows, NEW j \in DOMAIN rows, i < j
          PROVE  rows[i][1] < rows[j][1]
      <4>1. i \in 1..n /\ j \in 1..(n + 1)
        BY <2>1, <3>2, <3>5
      <4>2. CASE j = n + 1
        BY <1>2, <2>1, <2>3, <3>2, <3>3, <3>4, <4>1, <4>2
      <4>3. CASE j # n + 1
        BY <2>1, <3>2, <3>5, <4>1, <4>3 DEF Steady
      <4> QED
        BY <4>2, <4>3
    <3>6. ASSUME NEW j \in 1..(Len(rows) - 1)
          PROVE  rows[j + 1][1] - rows[j][1] \in 1..TrendGap
      <4>1. j \in 1..n
        BY <2>1, <3>2
      <4>2. CASE j = n
        <5>1. rows[j + 1][1] = src /\ rows[j][1] = trend[n][1]
          BY <1>2, <3>2, <4>1, <4>2
        <5>2. src - trend[n][1] > 0 /\ src - trend[n][1] <= TrendGap /\ src - trend[n][1] \in Int
          BY <1>1, <1>4, <2>1, <2>3
        <5> QED
          BY <1>1, <5>1, <5>2
      <4>3. CASE j # n
        <5>1. j + 1 \in 1..n /\ j \in 1..(n - 1)
          BY <2>1, <4>1, <4>3
        <5> QED
          BY <3>2, <4>1, <5>1 DEF Steady
      <4> QED
        BY <4>2, <4>3
    <3>7. Steady(rows)
      BY <3>5, <3>6 DEF Steady
    <3> QED
      BY <1>2, <2>1, <3>1, <3>2, <3>7
  <2>4. CASE ~(src > trend[n][1])
    <3>1. Added(src, mid) = trend
      BY <1>4, <2>4 DEF Added, Last
    <3>2. trend[n][1] = src
      BY <2>1, <2>2, <2>4
    <3> QED
      BY <2>1, <3>1, <3>2
  <2> QED
    BY <2>3, <2>4
<1> QED
  BY <1>3, <1>4

\* What is kept of the prices ends with this book and is no older than TrendMax.
TrendKept(rows, src) ==
    /\ rows \in Seq(TrendRow) /\ Len(rows) >= 1
    /\ Steady(rows) /\ rows[Len(rows)][1] = src
    /\ \A i \in DOMAIN rows : rows[i][1] \in Int /\ src - rows[i][1] <= TrendMax

LEMMA KeptStep ==
    ASSUME version \in Versions, trend \in Seq(TrendRow), Steady(trend),
           NEW src \in Int, NEW mid \in Mids, ~TrendRefuses(src)
    PROVE  TrendKept(Kept(src, mid), src)
<1>1. TrendMax \in Nat
  BY Numbers
<1>2. PICK rows \in Seq(TrendRow) : rows = Added(src, mid) /\ Len(rows) >= 1 /\ Steady(rows)
                                       /\ rows[Len(rows)][1] = src
  BY AddedStep
<1> DEFINE n == Len(rows)
<1> DEFINE young == {i \in DOMAIN rows : src - rows[i][1] <= TrendMax}
<1>3. n \in Nat /\ n >= 1 /\ DOMAIN rows = 1..n /\ \A i \in 1..n : rows[i] \in TrendRow /\ rows[i][1] \in Int
  BY <1>2, RowFacts
<1>4. young \in SUBSET (1..n) /\ n \in young
  BY <1>1, <1>2, <1>3
<1>5. PICK m \in young : m = Min(young)
  BY <1>3, <1>4, FirstIndex
<1>6. m \in 1..n /\ src - rows[m][1] <= TrendMax
  BY <1>3, <1>5
<1>7. Kept(src, mid) = SubSeq(rows, m, n)
  BY <1>2, <1>5 DEF Kept
<1> HIDE DEF young
<1>8. PICK kept \in Seq(TrendRow) :
        /\ kept = SubSeq(rows, m, n) /\ Len(kept) = n - m + 1
        /\ \A i \in 1..(n - m + 1) : kept[i] = rows[i + m - 1]
  <2>1. m \in 1..Len(rows)
    BY <1>6
  <2>2. /\ SubSeq(rows, m, n) \in Seq(TrendRow) /\ Len(SubSeq(rows, m, n)) = n - m + 1
        /\ \A i \in 1..(n - m + 1) : SubSeq(rows, m, n)[i] = rows[i + m - 1]
    BY <2>1, SuffixFacts
  <2> QED
    BY <2>2
<1>9. DOMAIN kept = 1..(n - m + 1) /\ \A i \in 1..(n - m + 1) : i + m - 1 \in m..n
  BY <1>3, <1>6, <1>8
<1>10. ASSUME NEW i \in DOMAIN kept
       PROVE  kept[i][1] \in Int /\ src - kept[i][1] <= TrendMax
  <2>1. PICK k \in m..n : k = i + m - 1 /\ kept[i] = rows[k]
    BY <1>8, <1>9
  <2>2. rows[k][1] \in Int /\ rows[m][1] \in Int
    BY <1>3, <1>6, <2>1
  <2>3. k = m \/ rows[m][1] < rows[k][1]
    <3>1. k \in DOMAIN rows /\ m \in DOMAIN rows /\ (k = m \/ m < k)
      BY <1>3, <1>6, <2>1
    <3> QED
      BY <1>2, <3>1 DEF Steady
  <2>4. src - rows[k][1] <= TrendMax
    BY <1>1, <1>6, <2>2, <2>3
  <2> QED
    BY <2>1, <2>2, <2>4
<1>11. Steady(kept)
  <2>1. ASSUME NEW i \in DOMAIN kept, NEW j \in DOMAIN kept, i < j
        PROVE  kept[i][1] < kept[j][1]
    <3>1. PICK k \in m..n, l \in m..n : /\ k = i + m - 1 /\ kept[i] = rows[k]
                                        /\ l = j + m - 1 /\ kept[j] = rows[l]
      BY <1>8, <1>9
    <3>2. k < l /\ k \in DOMAIN rows /\ l \in DOMAIN rows
      <4>1. i \in Int /\ j \in Int /\ m \in 1..n /\ k \in m..n /\ l \in m..n /\ n \in Nat
        BY <1>3, <1>6, <1>9
      <4>2. k \in 1..n /\ l \in 1..n
        BY <4>1
      <4>3. k < l
        BY ONLY <2>1, <3>1, <4>1
      <4> QED
        BY <1>3, <4>2, <4>3
    <3> QED
      BY <1>2, <3>1, <3>2 DEF Steady
  <2>2. ASSUME NEW j \in 1..(Len(kept) - 1)
        PROVE  kept[j + 1][1] - kept[j][1] \in 1..TrendGap
    <3>1. j \in 1..(n - m + 1) /\ j + 1 \in 1..(n - m + 1)
      BY <1>3, <1>6, <1>8
    <3>2. PICK k \in m..n : k = j + m - 1 /\ kept[j] = rows[k]
      BY <1>8, <1>9, <3>1
    <3>3. kept[j + 1] = rows[k + 1] /\ k \in 1..(n - 1)
      <4>1. j + 1 + m - 1 = k + 1
        BY <1>6, <3>2
      <4> QED
        BY <1>3, <1>6, <1>8, <1>9, <3>1, <3>2, <4>1
    <3> QED
      BY <1>2, <3>2, <3>3 DEF Steady
  <2> QED
    BY <2>1, <2>2 DEF Steady
<1>12. kept[Len(kept)][1] = src /\ Len(kept) >= 1
  <2>1. Len(kept) \in 1..(n - m + 1) /\ Len(kept) + m - 1 = n
    BY <1>3, <1>6, <1>8
  <2> QED
    BY <1>2, <1>3, <1>8, <2>1
<1> QED
  BY <1>7, <1>8, <1>10, <1>11, <1>12 DEF TrendKept

-----------------------------------------------------------------------------
(* An evaluation. *)

LEMMA RenewalOfClosedType ==
    ASSUME AdaptiveInv
    PROVE  /\ RenewalOfClosed \in RenewalRecord
           /\ NeedsRenewal => /\ RenewalChain(RenewalOfClosed, renewalProof)
                              /\ RenewalOfClosed.id = closed.id
                              /\ RenewalOfClosed.armed => renewal = RenewalOfClosed
<1>1. renewal \in RenewalRecord /\ closed.id \in Nat
  BY DEF AdaptiveInv, AdaptiveTypeOK
<1>2. CASE renewal.id = closed.id
  <2>1. RenewalOfClosed = renewal
    BY <1>2 DEF RenewalOfClosed
  <2>2. NeedsRenewal => RenewalChain(renewal, renewalProof)
    BY <1>2 DEF AdaptiveInv, RenewalInv, NeedsRenewal
  <2> QED
    BY <1>1, <1>2, <2>1, <2>2
<1>3. CASE renewal.id # closed.id
  <2>1. Never \in Int
    BY DEF Never
  <2>2. PICK n \in RenewalRecord :
          n = [NoRenewal EXCEPT !.id = closed.id]
    <3>1. NoRenewal \in RenewalRecord
      BY <2>1 DEF NoRenewal, RenewalRecord
    <3>2. [NoRenewal EXCEPT !.id = closed.id] \in RenewalRecord
      BY <1>1, <3>1 DEF RenewalRecord
    <3> QED
      BY <3>2
  <2>3. RenewalOfClosed = n
    BY <1>3, <2>2 DEF RenewalOfClosed
  <2>4. n.id = closed.id /\ n.first = Never /\ n.last = Never /\ n.count = 0 /\ n.armed = FALSE
    BY <2>2 DEF NoRenewal
  <2> QED
    BY <2>2, <2>3, <2>4 DEF RenewalChain
<1> QED
  BY <1>2, <1>3

\* What an evaluation sees of the history, and what it leaves.
HistoryBefore == IF NeedsRenewal /\ renewal.id # closed.id THEN NoHistory ELSE history
Waiting == NeedsRenewal /\ ~RenewalOfClosed.armed

LEMMA NoHistoryType ==
    NoHistory \in HistoryRecord /\ \A p : EntryChain(NoHistory, p)
<1>1. NoHistory.side = "none"
  BY DEF NoHistory
<1>2. NoHistory \in HistoryRecord
  <2>1. Never \in Int
    BY DEF Never
  <2> QED
    BY <2>1 DEF NoHistory, HistoryRecord, Sides
<1> QED
  BY <1>1, <1>2 DEF EntryChain

LEMMA NoProofType == NoProof \in ProofRecord
<1>1. Books({})
  BY FS_EmptySet DEF Books
<1>2. NoProof = [side |-> "none", at |-> {}] /\ "none" \in Sides
  BY DEF NoProof, Sides
<1> QED
  BY <1>1, <1>2 DEF ProofRecord

LEMMA NoTradeType ==
    /\ NoTrade \in TradeRecord /\ NoTrade.opened = Never
    /\ NoTrade.count = 0 /\ NoTrade.since = Never
<1>1. Never \in Int
  BY DEF Never
<1> QED
  BY <1>1 DEF NoTrade, TradeRecord, Sides

LEMMA EvaluateHistory ==
    ASSUME AdaptiveInv, NEW v \in Views, NEW src \in Nat
    PROVE  /\ HistoryAfter(HistoryBefore, v, src) \in HistoryRecord
           /\ ConfirmedBy(v, src) \in ProofRecord
           /\ EntryChain(HistoryAfter(HistoryBefore, v, src), ConfirmedBy(v, src))
           /\ HistoryAfter(HistoryBefore, v, src).side \in {"none", v.dir}
<1>1. HistoryBefore \in HistoryRecord /\ EntryChain(HistoryBefore, entryProof)
  BY NoHistoryType DEF HistoryBefore, AdaptiveInv, AdaptiveTypeOK
<1>2. version \in Versions /\ entryProof \in ProofRecord /\ src \in Int
  BY DEF AdaptiveInv, AdaptiveTypeOK
<1> QED
  BY <1>1, <1>2, EntryStep

\* The parts of an evaluation.
LEMMA EvaluateParts ==
    ASSUME NEW src, NEW v, NEW mid, Evaluate(src, v, mid)
    PROVE  /\ trade = NoTrade /\ exitProof' = {}
           /\ UNCHANGED <<now, version, closed>>
           /\ Waiting => /\ history' = NoHistory /\ entryProof' = NoProof
                         /\ renewal' = RenewalAfter(RenewalOfClosed, v, src)
                         /\ renewalProof' = RenewedBy(v, src)
                         /\ trade' = NoTrade
           /\ ~Waiting => /\ history' = HistoryAfter(HistoryBefore, v, src)
                          /\ entryProof' = ConfirmedBy(v, src)
                          /\ renewal' = renewal /\ renewalProof' = renewalProof
           /\ trend' = IF version = "v3" THEN TrendAfter(src, mid) ELSE trend
           /\ \/ trade' = NoTrade
              \/ /\ trade' = [NoTrade EXCEPT !.side = v.dir, !.opened = now]
                 /\ ~Waiting /\ Selects(HistoryAfter(HistoryBefore, v, src))
                 /\ version = "v3" => TrendConfirms(v.dir, src, mid)
BY DEF Evaluate, Waiting, HistoryBefore, ConfirmedBy, RenewedBy

LEMMA EvaluateRenewal ==
    ASSUME AdaptiveInv, NEW v \in Views, NEW src \in Nat, NEW mid, Evaluate(src, v, mid)
    PROVE  /\ renewal' \in RenewalRecord /\ Books(renewalProof') /\ RenewalInv'
<1>1. version' = version /\ closed' = closed
  BY EvaluateParts
<1>2. /\ version \in Versions /\ Books(renewalProof) /\ RenewalInv
      /\ closed.id \in Nat /\ renewal \in RenewalRecord
  BY DEF AdaptiveInv, AdaptiveTypeOK
<1>3. CASE Waiting
  <2>1. /\ RenewalOfClosed \in RenewalRecord /\ ~RenewalOfClosed.armed
        /\ RenewalOfClosed.id = closed.id /\ RenewalChain(RenewalOfClosed, renewalProof)
    BY <1>3, RenewalOfClosedType DEF Waiting
  <2>2. PICK n \in RenewalRecord :
          n = RenewalAfter(RenewalOfClosed, v, src) /\ n.id = closed.id
          /\ Books(RenewedBy(v, src)) /\ RenewalChain(n, RenewedBy(v, src))
    BY <1>2, <2>1, RenewalStep
  <2>3. renewal' = n /\ renewalProof' = RenewedBy(v, src)
    BY <1>3, <2>2, EvaluateParts
  <2>4. RenewalChain(renewal', renewalProof')
    BY <2>2, <2>3
  <2> QED
    BY <1>1, <1>2, <2>2, <2>3, <2>4 DEF RenewalInv, RenewalChain
<1>4. CASE ~Waiting
  <2>1. renewal' = renewal /\ renewalProof' = renewalProof
    BY <1>4, EvaluateParts
  <2> QED
    BY <1>1, <1>2, <2>1 DEF RenewalInv, RenewalChain
<1> QED
  BY <1>3, <1>4

LEMMA EvaluateTrend ==
    ASSUME AdaptiveInv, NEW v \in Views, NEW src \in Nat,
           NEW mid \in (IF version = "v3" THEN Mids ELSE {0}), Evaluate(src, v, mid)
    PROVE  trend' \in Seq(TrendRow) /\ Steady(trend')
<1>1. version \in Versions /\ trend \in Seq(TrendRow) /\ Steady(trend) /\ src \in Int
  BY DEF AdaptiveInv, AdaptiveTypeOK
<1>2. CASE version = "v3" /\ ~TrendRefuses(src)
  <2>1. trend' = Kept(src, mid) /\ mid \in Mids
    BY <1>2, EvaluateParts DEF TrendAfter
  <2>2. TrendKept(Kept(src, mid), src)
    BY <1>1, <1>2, <2>1, KeptStep
  <2>3. Kept(src, mid) \in Seq(TrendRow) /\ Steady(Kept(src, mid))
    BY <2>2 DEF TrendKept
  <2> QED
    BY <2>1, <2>3
<1>3. CASE ~(version = "v3" /\ ~TrendRefuses(src))
  <2>1. trend' = trend
    BY <1>3, EvaluateParts DEF TrendAfter
  <2> QED
    BY <1>1, <2>1
<1> QED
  BY <1>2, <1>3

LEMMA EvaluateTrade ==
    ASSUME AdaptiveInv, NEW v \in Views, NEW src, NEW mid, Evaluate(src, v, mid)
    PROVE  trade' \in TradeRecord /\ exitProof' = {} /\ Books(exitProof') /\ ExitInv'
<1>1. exitProof' = {} /\ Books(exitProof')
  BY EvaluateParts, FS_EmptySet DEF Books
<1>2. CASE trade' = NoTrade
  <2>1. NoTrade' = NoTrade
    BY DEF NoTrade, Never
  <2> QED
    BY <1>1, <1>2, <2>1, NoTradeType DEF ExitInv
<1>3. CASE trade' = [NoTrade EXCEPT !.side = v.dir, !.opened = now]
  <2>1. now \in Int /\ now # Never /\ v.dir \in Sides /\ Never \in Int
    BY ViewType DEF AdaptiveInv, AdaptiveTypeOK, Never
  <2>2. PICK n \in TradeRecord :
          n = [NoTrade EXCEPT !.side = v.dir, !.opened = now]
    <3>1. [NoTrade EXCEPT !.side = v.dir, !.opened = now] \in TradeRecord
      BY <2>1, NoTradeType DEF TradeRecord
    <3> QED
      BY <3>1
  <2>3. n.opened = now /\ n.count = 0 /\ n.since = Never
    BY <2>2, NoTradeType DEF TradeRecord
  <2>4. trade' = n
    BY <1>3, <2>2
  <2> QED
    BY <1>1, <2>1, <2>3, <2>4 DEF ExitInv, ExitChain
<1> QED
  BY <1>2, <1>3, EvaluateParts

LEMMA EvaluateKeeps ==
    ASSUME AdaptiveInv, NEW v \in Views, NEW src \in Nat,
           NEW mid \in (IF version = "v3" THEN Mids ELSE {0}), Evaluate(src, v, mid)
    PROVE  AdaptiveInv'
<1>1. now' \in Nat /\ version' \in Versions /\ closed' \in [id : Nat, side : Sides, at : Int]
  BY EvaluateParts DEF AdaptiveInv, AdaptiveTypeOK
<1>2. history' \in HistoryRecord /\ entryProof' \in ProofRecord /\ EntryChain(history', entryProof')
  <2>1. CASE Waiting
    BY <2>1, EvaluateParts, NoHistoryType, NoProofType
  <2>2. CASE ~Waiting
    <3>1. history' = HistoryAfter(HistoryBefore, v, src) /\ entryProof' = ConfirmedBy(v, src)
      BY <2>2, EvaluateParts
    <3> QED
      BY <3>1, EvaluateHistory
  <2> QED
    BY <2>1, <2>2
<1>3. EntryChain(history, entryProof)'
  BY <1>2 DEF EntryChain
<1>4. renewal' \in RenewalRecord /\ Books(renewalProof') /\ RenewalInv'
  BY EvaluateRenewal
<1>5. trade' \in TradeRecord /\ Books(exitProof') /\ ExitInv'
  BY EvaluateTrade
<1>6. trend' \in Seq(TrendRow) /\ Steady(trend)'
  BY EvaluateTrend DEF Steady
<1>7. AdaptiveTypeOK'
  BY <1>1, <1>2, <1>4, <1>5, <1>6 DEF AdaptiveTypeOK, Books
<1> QED
  BY <1>3, <1>4, <1>5, <1>6, <1>7 DEF AdaptiveInv

LEMMA EvaluateEarned ==
    ASSUME AdaptiveInv, NEW v \in Views, NEW src \in Nat,
           NEW mid \in (IF version = "v3" THEN Mids ELSE {0}), Evaluate(src, v, mid)
    PROVE  EntryWarranted
<1> SUFFICES ASSUME trade' # NoTrade
             PROVE  /\ trade'.side = entryProof'.side
                    /\ Persistent(entryProof'.at, MinBooks[version], MinSpan[version], MaxAge)
                    /\ NeedsRenewal => Persistent(renewalProof, MinBooks[version], MinSpan[version], MaxAge)
                    /\ version = "v3" =>
                         \E i \in DOMAIN trend' :
                            /\ Last(trend')[1] - trend'[i][1] \in TrendMin..TrendMax
                            /\ Along(trade'.side, trend'[i][2], Last(trend')[2])
                            /\ \A j \in i..(Len(trend') - 1) : trend'[j + 1][1] - trend'[j][1] \in 1..TrendGap
  BY DEF EntryWarranted
<1>1. /\ version \in Versions /\ Books(renewalProof) /\ RenewalInv
      /\ trend \in Seq(TrendRow) /\ Steady(trend) /\ src \in Int
  BY DEF AdaptiveInv, AdaptiveTypeOK
<1>2. /\ MinBooks[version] \in Int /\ MinSpan[version] \in Int /\ MaxAge \in Int
      /\ TrendMin \in Int /\ TrendMax \in Int /\ TrendGap \in Int
  BY <1>1, Numbers
<1>3. /\ trade' = [NoTrade EXCEPT !.side = v.dir, !.opened = now]
      /\ ~Waiting /\ Selects(HistoryAfter(HistoryBefore, v, src))
      /\ version = "v3" => TrendConfirms(v.dir, src, mid)
  BY EvaluateParts
<1>4. trade'.side = v.dir
  BY <1>3 DEF NoTrade
<1>5. PICK h \in HistoryRecord, p \in ProofRecord :
        /\ h = HistoryAfter(HistoryBefore, v, src) /\ p = ConfirmedBy(v, src)
        /\ EntryChain(h, p) /\ h.side \in {"none", v.dir}
  BY EvaluateHistory
<1>6. h.side # "none" /\ h.last - h.first >= MinSpan[version] /\ h.count >= MinBooks[version]
  BY <1>3, <1>5 DEF Selects
<1>7. entryProof' = p /\ p.side = v.dir
  BY <1>3, <1>5, <1>6, EvaluateParts DEF EntryChain
<1>8. Persistent(p.at, MinBooks[version], MinSpan[version], MaxAge)
  <2>1. Books(p.at) /\ Chain(p.at, h.first, h.last, h.count, MaxAge)
    BY <1>5, <1>6 DEF EntryChain, ProofRecord
  <2> QED
    BY ONLY <1>2, <1>6, <2>1, ChainPersists
<1>9. ASSUME NeedsRenewal
      PROVE  Persistent(renewalProof, MinBooks[version], MinSpan[version], MaxAge)
  <2>1. RenewalOfClosed.armed /\ renewal = RenewalOfClosed /\ RenewalChain(renewal, renewalProof)
    BY <1>3, <1>9, RenewalOfClosedType DEF Waiting
  <2>2. /\ renewal.count >= MinBooks[version] /\ renewal.last - renewal.first >= MinSpan[version]
        /\ Chain(renewalProof, renewal.first, renewal.last, renewal.count, MaxAge)
    BY <2>1 DEF RenewalChain
  <2>3. PICK lo, hi, n : lo = renewal.first /\ hi = renewal.last /\ n = renewal.count
    OBVIOUS
  <2>4. n >= MinBooks[version] /\ hi - lo >= MinSpan[version] /\ Chain(renewalProof, lo, hi, n, MaxAge)
    BY <2>2, <2>3
  <2> QED
    BY ONLY <1>1, <1>2, <2>4, ChainPersists
<1>10. ASSUME version = "v3"
       PROVE  \E i \in DOMAIN trend' :
                 /\ Last(trend')[1] - trend'[i][1] \in TrendMin..TrendMax
                 /\ Along(trade'.side, trend'[i][2], Last(trend')[2])
                 /\ \A j \in i..(Len(trend') - 1) : trend'[j + 1][1] - trend'[j][1] \in 1..TrendGap
  <2>1. TrendConfirms(v.dir, src, mid) /\ mid \in Mids
    BY <1>3, <1>10
  <2>2. ~TrendRefuses(src)
    BY <2>1 DEF TrendConfirms
  <2>3. PICK rows \in Seq(TrendRow) : rows = Kept(src, mid) /\ TrendKept(rows, src)
    BY <1>1, <2>1, <2>2, KeptStep DEF TrendKept
  <2>4. trend' = rows
    BY <1>10, <2>2, <2>3, EvaluateParts DEF TrendAfter
  <2> DEFINE anchors == {i \in DOMAIN rows : src - rows[i][1] >= TrendMin}
  <2>5. anchors # {} /\ Along(v.dir, rows[Max(anchors)][2], Last(rows)[2])
    BY <2>1, <2>3 DEF TrendConfirms
  <2>6. Len(rows) \in Nat /\ DOMAIN rows = 1..Len(rows)
    BY RowFacts
  <2>7. anchors \in SUBSET (1..Len(rows))
    BY <2>6
  <2>8. PICK i \in anchors : i = Max(anchors)
    BY <2>5, <2>6, <2>7, LastIndex
  <2>9. i \in DOMAIN rows /\ src - rows[i][1] >= TrendMin
    BY <2>8
  <2> HIDE DEF anchors
  <2>10. Last(rows)[1] = src /\ rows[i][1] \in Int /\ src - rows[i][1] <= TrendMax
    BY <2>3, <2>9 DEF TrendKept, Last
  <2>11. Last(rows)[1] - rows[i][1] \in TrendMin..TrendMax
    BY <1>1, <1>2, <2>9, <2>10
  <2>12. ASSUME NEW j \in i..(Len(rows) - 1)
         PROVE  rows[j + 1][1] - rows[j][1] \in 1..TrendGap
    <3>1. j \in 1..(Len(rows) - 1)
      BY <2>6, <2>9
    <3> QED
      BY <2>3, <3>1 DEF TrendKept, Steady
  <2>13. Along(trade'.side, rows[i][2], Last(rows)[2])
    BY <1>4, <2>5, <2>8
  <2> QED
    BY <2>4, <2>9, <2>11, <2>12, <2>13
<1> QED
  BY <1>4, <1>7, <1>8, <1>9, <1>10

-----------------------------------------------------------------------------
(* The management of a trade, and the other actions. *)

LEMMA CloseKeeps ==
    ASSUME AdaptiveInv, Close, Books(exitProof'), UNCHANGED <<now, version, memory, entryProof>>
    PROVE  AdaptiveInv'
<1>1. /\ now \in Nat /\ version \in Versions /\ history \in HistoryRecord
      /\ renewal \in RenewalRecord /\ trend \in Seq(TrendRow) /\ trade \in TradeRecord
      /\ closed \in [id : Nat, side : Sides, at : Int] /\ entryProof \in ProofRecord
  BY DEF AdaptiveInv, AdaptiveTypeOK
<1>2. /\ now' = now /\ version' = version /\ history' = history /\ renewal' = renewal
      /\ trend' = trend /\ entryProof' = entryProof
  BY DEF memory
<1>3. trade' = NoTrade /\ NoTrade' = NoTrade
  BY DEF Close, NoTrade, Never
<1>4. closed' \in [id : Nat, side : Sides, at : Int] /\ closed'.id = closed.id + 1
  <2>1. trade.side \in Sides
    BY <1>1 DEF TradeRecord
  <2>2. closed.id + 1 \in Nat /\ now \in Int
    BY <1>1
  <2>3. closed' = [id |-> closed.id + 1, side |-> trade.side, at |-> now]
    BY DEF Close
  <2> QED
    BY <2>1, <2>2, <2>3
<1>5. Books(renewalProof')
  BY FS_EmptySet DEF Close, Books
<1>6. AdaptiveTypeOK'
  BY <1>1, <1>2, <1>3, <1>4, <1>5, NoTradeType DEF AdaptiveTypeOK, Books
<1>7. RenewalInv'
  <2>1. renewal.id <= closed.id /\ renewal.id \in Nat /\ closed.id \in Nat
    BY <1>1 DEF AdaptiveInv, RenewalInv, RenewalRecord
  <2>2. renewal'.id <= closed'.id /\ renewal'.id # closed'.id
    BY <1>2, <1>4, <2>1
  <2> QED
    BY <2>2 DEF RenewalInv
<1>8. ExitInv'
  BY <1>3 DEF ExitInv
<1>9. EntryChain(history, entryProof)' /\ Steady(trend)'
  BY <1>2 DEF AdaptiveInv, EntryChain, Steady
<1> QED
  BY <1>6, <1>7, <1>8, <1>9 DEF AdaptiveInv

LEMMA ManageWatches ==
    ASSUME AdaptiveInv, trade # NoTrade, NEW v \in Views, NEW src \in Nat, NEW pnl \in Results
    PROVE  /\ WatchKept(Watched(v, src, pnl), Evidence(v, src, pnl))
           /\ Watched(v, src, pnl) # NoTrade
<1>1. pnl \in Int
  BY AdaptiveAssumption
<1>2. WatchKept(Watched(v, src, pnl), Evidence(v, src, pnl))
  BY <1>1, WatchStep DEF AdaptiveInv
<1>3. trade.opened # Never
  BY DEF AdaptiveInv, ExitInv
<1> QED
  BY <1>2, <1>3, NoTradeType DEF WatchKept

LEMMA ManageParts ==
    ASSUME NEW v, NEW src, NEW pnl, Manage(src, v, pnl)
    PROVE  /\ trade # NoTrade /\ exitProof' = Evidence(v, src, pnl)
           /\ UNCHANGED <<now, version, memory, entryProof>>
           /\ \/ (Held \/ Confirmed(Watched(v, src, pnl), src)) /\ Close
              \/ /\ trade' = Watched(v, src, pnl)
                 /\ UNCHANGED <<closed, renewalProof>>
BY DEF Manage

LEMMA ManageKeeps ==
    ASSUME AdaptiveInv, NEW v \in Views, NEW src \in Nat, NEW pnl \in Results, Manage(src, v, pnl)
    PROVE  AdaptiveInv'
<1>1. PICK t \in TradeRecord : t = Watched(v, src, pnl) /\ WatchKept(t, exitProof')
  BY ManageParts, ManageWatches DEF WatchKept
<1>2. Books(exitProof') /\ UNCHANGED <<now, version, memory, entryProof>>
  BY <1>1, ManageParts DEF WatchKept
<1>3. CASE Close
  BY <1>2, <1>3, CloseKeeps
<1>4. CASE trade' = t /\ UNCHANGED <<closed, renewalProof>>
  <2>1. /\ now' = now /\ version' = version /\ history' = history /\ renewal' = renewal
        /\ trend' = trend /\ entryProof' = entryProof /\ closed' = closed
        /\ renewalProof' = renewalProof /\ trade' = t
    BY <1>2, <1>4 DEF memory
  <2>2. AdaptiveTypeOK'
    BY <1>2, <2>1 DEF AdaptiveInv, AdaptiveTypeOK, Books
  <2>3. EntryChain(history, entryProof)' /\ Steady(trend)' /\ RenewalInv'
    BY <2>1 DEF AdaptiveInv, EntryChain, Steady, RenewalInv, RenewalChain
  <2>4. trade'.opened # Never /\ ExitChain(trade', exitProof')
    BY <1>1, <2>1, ManageParts DEF AdaptiveInv, ExitInv, WatchKept
  <2>5. ExitInv'
    BY <2>1, <2>4 DEF ExitInv, ExitChain, Never
  <2> QED
    BY <2>2, <2>3, <2>5 DEF AdaptiveInv
<1> QED
  BY <1>1, <1>3, <1>4, ManageParts

LEMMA ManageEarned ==
    ASSUME AdaptiveInv, NEW v \in Views, NEW src \in Nat, NEW pnl \in Results, Manage(src, v, pnl)
    PROVE  trade' = NoTrade /\ ~Held =>
               Persistent(exitProof', MinBooks[version], ExitSpan[version], ExitGap[version])
<1> SUFFICES ASSUME trade' = NoTrade, ~Held
             PROVE  Persistent(exitProof', MinBooks[version], ExitSpan[version], ExitGap[version])
  OBVIOUS
<1>1. PICK t \in TradeRecord : t = Watched(v, src, pnl) /\ WatchKept(t, exitProof') /\ t # NoTrade
  BY ManageParts, ManageWatches DEF WatchKept
<1>2. Confirmed(t, src)
  BY <1>1, ManageParts
<1>3. /\ t.count > 0 /\ t.last = src /\ t.count >= MinBooks[version]
      /\ t.last - t.since >= ExitSpan[version]
  BY <1>2 DEF Confirmed
<1>4. Books(exitProof') /\ Chain(exitProof', t.since, t.last, t.count, ExitGap[version])
  BY <1>1, <1>3 DEF WatchKept, ExitChain
<1>5. MinBooks[version] \in Int /\ ExitSpan[version] \in Int /\ ExitGap[version] \in Int
  BY Numbers DEF AdaptiveInv, AdaptiveTypeOK
<1>6. PICK lo, hi, n, books : lo = t.since /\ hi = t.last /\ n = t.count /\ books = exitProof'
  OBVIOUS
<1>7. /\ Books(books) /\ Chain(books, lo, hi, n, ExitGap[version])
      /\ n >= MinBooks[version] /\ hi - lo >= ExitSpan[version]
  BY <1>3, <1>4, <1>6
<1>8. Persistent(books, MinBooks[version], ExitSpan[version], ExitGap[version])
  BY ONLY <1>5, <1>7, ChainPersists
<1> QED
  BY <1>6, <1>8

\* A step that leaves the trade alone and forgets a history or a renewal, or nothing.
Forgets ==
    /\ version' = version /\ trade' = trade /\ closed' = closed /\ exitProof' = exitProof
    /\ now' \in {now, now + 1} /\ trend' \in {trend, << >>}
    /\ \/ history' = NoHistory /\ entryProof' \in {entryProof, NoProof}
       \/ history' = history /\ entryProof' = entryProof
    /\ \/ renewal' = renewal /\ renewalProof' = renewalProof
       \/ renewal' = NoRenewal /\ renewalProof' = {}

LEMMA ForgetsKeeps == ASSUME AdaptiveInv, Forgets PROVE AdaptiveInv'
<1>1. /\ now \in Nat /\ version \in Versions /\ history \in HistoryRecord
      /\ renewal \in RenewalRecord /\ trend \in Seq(TrendRow) /\ trade \in TradeRecord
      /\ closed \in [id : Nat, side : Sides, at : Int] /\ entryProof \in ProofRecord
      /\ Books(renewalProof) /\ Books(exitProof)
  BY DEF AdaptiveInv, AdaptiveTypeOK
<1>2. version' = version /\ trade' = trade /\ closed' = closed /\ exitProof' = exitProof
  BY DEF Forgets
<1>3. history' \in HistoryRecord /\ entryProof' \in ProofRecord /\ EntryChain(history', entryProof')
  BY <1>1, NoHistoryType, NoProofType DEF Forgets, AdaptiveInv
<1>4. renewal' \in RenewalRecord /\ Books(renewalProof') /\ RenewalInv'
  <2>1. CASE renewal' = renewal /\ renewalProof' = renewalProof
    BY <1>1, <1>2, <2>1 DEF AdaptiveInv, RenewalInv, RenewalChain
  <2>2. CASE renewal' = NoRenewal /\ renewalProof' = {}
    <3>1. NoRenewal \in RenewalRecord /\ NoRenewal.id = 0
      <4>1. Never \in Int
        BY DEF Never
      <4> QED
        BY <4>1 DEF NoRenewal, RenewalRecord
    <3>2. Books({})
      BY FS_EmptySet DEF Books
    <3>3. renewal'.id = 0 /\ closed'.id \in Nat
      BY <1>1, <1>2, <2>2, <3>1
    <3>4. renewal'.id <= closed'.id /\ ~(closed'.id > 0 /\ renewal'.id = closed'.id)
      BY <3>3
    <3> QED
      BY <2>2, <3>1, <3>2, <3>4 DEF RenewalInv
  <2> QED
    BY <2>1, <2>2 DEF Forgets
<1>5. trend' \in Seq(TrendRow) /\ Steady(trend')
  <2>1. << >> \in Seq(TrendRow)
    OBVIOUS
  <2>2. Steady(<< >>)
    BY DEF Steady
  <2> QED
    BY <1>1, <2>1, <2>2 DEF Forgets, AdaptiveInv
<1>6. now' \in Nat
  BY <1>1 DEF Forgets
<1>7. AdaptiveTypeOK'
  BY <1>1, <1>2, <1>3, <1>4, <1>5, <1>6 DEF AdaptiveTypeOK, Books
<1>8. ExitInv'
  BY <1>2 DEF AdaptiveInv, ExitInv, ExitChain
<1>9. EntryChain(history, entryProof)' /\ Steady(trend)'
  BY <1>3, <1>5 DEF EntryChain, Steady
<1> QED
  BY <1>4, <1>7, <1>8, <1>9 DEF AdaptiveInv

LEMMA InitInv == AdaptiveInit => AdaptiveInv
<1> SUFFICES ASSUME AdaptiveInit PROVE AdaptiveInv
  OBVIOUS
<1>1. Never \in Int
  BY DEF Never
<1>2. Books({})
  BY FS_EmptySet DEF Books
<1>3. /\ now \in Nat /\ version \in Versions /\ history = NoHistory /\ renewal = NoRenewal
      /\ trend = << >> /\ entryProof = NoProof /\ renewalProof = {} /\ exitProof = {}
  BY DEF AdaptiveInit
<1>4. renewal \in RenewalRecord /\ renewal.id = 0
  BY <1>1, <1>3 DEF NoRenewal, RenewalRecord
<1>5. closed \in [id : Nat, side : Sides, at : Int] /\ closed.id \in Nat
  BY <1>1 DEF AdaptiveInit, NoClosed, Sides
<1>6. trade \in TradeRecord /\ ExitInv
  <2>1. CASE trade = NoTrade
    BY <2>1, NoTradeType DEF ExitInv
  <2>2. CASE trade = [NoTrade EXCEPT !.side = "long", !.opened = 0]
    <3>1. PICK n \in TradeRecord : n = [NoTrade EXCEPT !.side = "long", !.opened = 0]
      <4>1. [NoTrade EXCEPT !.side = "long", !.opened = 0] \in TradeRecord
        <5>1. "long" \in Sides /\ 0 \in Int
          BY DEF Sides
        <5> QED
          BY <5>1, NoTradeType DEF TradeRecord
      <4> QED
        BY <4>1
    <3>2. n.opened = 0 /\ n.count = 0 /\ n.since = Never
      BY <3>1, NoTradeType DEF TradeRecord
    <3>3. n.opened # Never
      BY <3>2 DEF Never
    <3> QED
      BY <2>2, <3>1, <3>2, <3>3 DEF ExitInv, ExitChain
  <2> QED
    BY <2>1, <2>2 DEF AdaptiveInit
<1>7. RenewalInv
  BY <1>4, <1>5 DEF RenewalInv
<1>8. trend \in Seq(TrendRow) /\ Steady(trend)
  BY <1>3 DEF Steady
<1> QED
  BY <1>2, <1>3, <1>4, <1>5, <1>6, <1>7, <1>8, NoHistoryType, NoProofType DEF AdaptiveInv, AdaptiveTypeOK

\* Every step of the component is of one of these kinds.
LEMMA StepCases ==
    ASSUME AdaptiveInv, [AdaptiveNext]_adaptiveVars
    PROVE  \/ Forgets
           \/ /\ trade # NoTrade /\ Close /\ exitProof' = {}
              /\ UNCHANGED <<now, version, memory, entryProof>>
           \/ \E src \in Nat, v \in Views :
                 \/ \E mid \in (IF version = "v3" THEN Mids ELSE {0}) : Evaluate(src, v, mid)
                 \/ \E pnl \in Results : Manage(src, v, pnl)
<1>1. CASE AdaptiveNext
  <2>1. CASE ResetV1 \/ StopAdaptive \/ RestartAdaptive \/ TickAdaptive
    BY <2>1 DEF ResetV1, StopAdaptive, RestartAdaptive, TickAdaptive, Forgets, memory, proofs
  <2>2. CASE CloseOtherwise
    BY <2>2 DEF CloseOtherwise
  <2>3. ASSUME NEW age \in Ages, NEW v \in Views,
               \/ \E mid \in (IF version = "v3" THEN Mids ELSE {0}) : now >= age /\ Evaluate(now - age, v, mid)
               \/ \E pnl \in Results : now >= age /\ Manage(now - age, v, pnl)
        PROVE  \E src \in Nat, w \in Views :
                 \/ \E mid \in (IF version = "v3" THEN Mids ELSE {0}) : Evaluate(src, w, mid)
                 \/ \E pnl \in Results : Manage(src, w, pnl)
    <3>1. now >= age /\ now \in Nat /\ age \in Int
      BY <2>3, AdaptiveAssumption DEF AdaptiveInv, AdaptiveTypeOK
    <3>2. PICK src \in Nat : src = now - age
      BY <3>1
    <3> QED
      BY <2>3, <3>2
  <2> QED
    BY <1>1, <2>1, <2>2, <2>3 DEF AdaptiveNext
<1>2. CASE UNCHANGED adaptiveVars
  BY <1>2 DEF adaptiveVars, Forgets, memory, proofs
<1> QED
  BY <1>1, <1>2

LEMMA StepKeeps == ASSUME AdaptiveInv, [AdaptiveNext]_adaptiveVars PROVE AdaptiveInv'
<1>1. CASE Forgets
  BY <1>1, ForgetsKeeps
<1>2. CASE Close /\ exitProof' = {} /\ UNCHANGED <<now, version, memory, entryProof>>
  <2>1. Books(exitProof')
    BY <1>2, FS_EmptySet DEF Books
  <2> QED
    BY <1>2, <2>1, CloseKeeps
<1>3. ASSUME NEW src \in Nat, NEW v \in Views,
             NEW mid \in (IF version = "v3" THEN Mids ELSE {0}), Evaluate(src, v, mid)
      PROVE  AdaptiveInv'
  BY <1>3, EvaluateKeeps
<1>4. ASSUME NEW src \in Nat, NEW v \in Views, NEW pnl \in Results, Manage(src, v, pnl)
      PROVE  AdaptiveInv'
  BY <1>4, ManageKeeps
<1> QED
  BY <1>1, <1>2, <1>3, <1>4, StepCases

\* The counters of the histories, of the renewal and of the exit state are counts of
\* distinct books without a contradiction or a pause between them, in every state.
THEOREM AdaptiveInductive == AdaptiveSpec => []AdaptiveInv
<1>1. AdaptiveInit => AdaptiveInv
  BY InitInv
<1>2. AdaptiveInv /\ [AdaptiveNext]_adaptiveVars => AdaptiveInv'
  BY StepKeeps
<1> QED
  BY <1>1, <1>2, PTL DEF AdaptiveSpec

\* Every experimental entry, of whichever version, has the confirmations it needs.
THEOREM EntriesAreEarned == AdaptiveSpec => EntryEarned
<1>1. AdaptiveInv /\ [AdaptiveNext]_adaptiveVars => [EntryWarranted]_adaptiveVars
  <2> SUFFICES ASSUME AdaptiveInv, [AdaptiveNext]_adaptiveVars PROVE EntryWarranted
    OBVIOUS
  <2>1. CASE Forgets
    BY <2>1 DEF Forgets, EntryWarranted
  <2>2. CASE trade # NoTrade
    BY <2>2 DEF EntryWarranted
  <2>3. ASSUME NEW src \in Nat, NEW v \in Views,
               NEW mid \in (IF version = "v3" THEN Mids ELSE {0}), Evaluate(src, v, mid)
        PROVE  EntryWarranted
    BY <2>3, EvaluateEarned
  <2>4. ASSUME NEW src \in Nat, NEW v \in Views, NEW pnl \in Results, Manage(src, v, pnl)
        PROVE  EntryWarranted
    BY <2>4, ManageParts DEF EntryWarranted
  <2> QED
    BY <2>1, <2>2, <2>3, <2>4, StepCases
<1> QED
  BY <1>1, AdaptiveInductive, PTL DEF AdaptiveSpec, EntryEarned

\* Every experimental exit before its time has the evidence it needs.
THEOREM ExitsAreEarned == AdaptiveSpec => ExitEarned
<1>1. AdaptiveInv => ExitWarranted
  <2> SUFFICES ASSUME AdaptiveInv, trade' = NoTrade, ~Held,
                      NEW age \in Ages, NEW v \in Views, NEW pnl \in Results,
                      now >= age, Manage(now - age, v, pnl)
               PROVE  Persistent(exitProof', MinBooks[version], ExitSpan[version], ExitGap[version])
    BY DEF ExitWarranted
  <2>1. now \in Nat /\ age \in Int
    BY AdaptiveAssumption DEF AdaptiveInv, AdaptiveTypeOK
  <2>2. PICK src \in Nat : src = now - age
    BY <2>1
  <2> QED
    BY <2>2, ManageEarned
<1> QED
  BY <1>1, AdaptiveInductive, PTL DEF AdaptiveSpec, ExitEarned

-----------------------------------------------------------------------------
(* Induction over the first numbers, as a fact about sets. *)

LEMMA UpTo ==
    ASSUME NEW m \in Nat, NEW T, 0 \in T, \A n \in 1..m : n - 1 \in T => n \in T
    PROVE  \A n \in 0..m : n \in T
<1> DEFINE Bad == {n \in 0..m : n \notin T}
<1>1. SUFFICES ASSUME Bad # {} PROVE FALSE
  OBVIOUS
<1>2. PICK k \in Bad : \A n \in Bad : k <= n
  <2>1. Bad \in SUBSET Nat
    OBVIOUS
  <2> HIDE DEF Bad
  <2> QED
    BY <1>1, <2>1, Least
<1>3. k \in 0..m /\ k \notin T /\ k # 0
  OBVIOUS
<1>4. k - 1 \in 0..m /\ k - 1 \notin Bad /\ k \in 1..m
  BY <1>2, <1>3
<1> QED
  BY <1>3, <1>4

\* What a recursive definition over numbers needs: the function it describes exists.
Steps(m, V, x, G) == m \in Nat /\ x \in V /\ G \in [1..m -> [V -> V]]
Follows(m, V, x, G, f) ==
    f \in [0..m -> V] /\ f[0] = x /\ \A n \in 1..m : f[n] = G[n][f[n - 1]]

LEMMA Recursion ==
    ASSUME NEW m, NEW V, NEW x, NEW G, Steps(m, V, x, G) PROVE \E f : Follows(m, V, x, G, f)
<1> USE DEF Steps
<1> DEFINE Upto(n, f) == f[0] = x /\ \A k \in 1..n : f[k] = G[k][f[k - 1]]
           T == {n \in 0..m : \E f \in [0..n -> V] : Upto(n, f)}
<1>1. 0 \in T
  <2> DEFINE f == [k \in 0..0 |-> x]
  <2>1. 0..0 = {0} /\ 1..0 = {} /\ 0 \in 0..m
    OBVIOUS
  <2>2. f \in [0..0 -> V] /\ f[0] = x
    BY <2>1
  <2>3. Upto(0, f)
    BY <2>1, <2>2
  <2> QED
    BY <2>1, <2>2, <2>3
<1>2. ASSUME NEW n \in 1..m, n - 1 \in T PROVE n \in T
  <2>1. PICK g \in [0..(n - 1) -> V] : Upto(n - 1, g)
    BY <1>2
  <2> DEFINE f == [k \in 0..n |-> IF k = n THEN G[n][g[n - 1]] ELSE g[k]]
  <2>2. g[n - 1] \in V /\ G[n] \in [V -> V]
    OBVIOUS
  <2>3. f \in [0..n -> V]
    <3> SUFFICES ASSUME NEW k \in 0..n PROVE (IF k = n THEN G[n][g[n - 1]] ELSE g[k]) \in V
      OBVIOUS
    <3> QED
      BY <2>2
  <2>4. f[0] = x
    BY <2>1
  <2>5. ASSUME NEW k \in 1..n PROVE f[k] = G[k][f[k - 1]]
    <3>1. CASE k = n
      <4>1. f[k - 1] = g[n - 1]
        BY <3>1
      <4> QED
        BY <3>1, <4>1
    <3>2. CASE k # n
      <4>1. k \in 1..(n - 1) /\ f[k] = g[k] /\ f[k - 1] = g[k - 1]
        BY <3>2
      <4>2. g[k] = G[k][g[k - 1]]
        BY <2>1, <4>1
      <4> QED
        BY <4>1, <4>2
    <3> QED
      BY <3>1, <3>2
  <2>6. n \in 0..m
    OBVIOUS
  <2> QED
    BY <2>3, <2>4, <2>5, <2>6
<1>3. m \in T
  <2>1. m \in 0..m
    OBVIOUS
  <2> HIDE DEF T
  <2> QED
    BY <1>1, <1>2, <2>1, UpTo
<1> QED
  BY <1>3 DEF Follows

-----------------------------------------------------------------------------
(* Sums. *)

SumsUpTo(s, m, f) == f = [n \in 0..m |-> IF n = 0 THEN 0 ELSE f[n - 1] + s[n]]

\* The sums f of the first elements of a sequence s of length m.
Adds(s, m, f) ==
    /\ m \in Nat /\ m = Len(s) /\ f \in [0..m -> Int] /\ f[0] = 0
    /\ \A n \in 1..m : s[n] \in Int /\ f[n] \in Int /\ f[n - 1] \in Int /\ f[n] = f[n - 1] + s[n]

LEMMA SumsAre ==
    ASSUME NEW s \in Seq(Int)
    PROVE  Adds(s, Len(s), Sums(s)) /\ Total(s) = Sums(s)[Len(s)] /\ Total(s) \in Int
<1> PICK m : m = Len(s)
  OBVIOUS
<1>1. m \in Nat /\ \A n \in 1..m : s[n] \in Int
  OBVIOUS
<1> DEFINE sums == CHOOSE f : SumsUpTo(s, m, f)
           G == [n \in 1..m |-> [v \in Int |-> v + s[n]]]
<1>2. G \in [1..m -> [Int -> Int]] /\ \A n \in 1..m : \A v \in Int : G[n][v] = v + s[n]
  BY <1>1
<1> HIDE DEF G
<1>3. PICK f \in [0..m -> Int] : f[0] = 0 /\ \A n \in 1..m : f[n] = G[n][f[n - 1]]
  <2>1. Steps(m, Int, 0, G)
    BY <1>1, <1>2 DEF Steps
  <2>2. \E f : Follows(m, Int, 0, G, f)
    BY ONLY <2>1, Recursion
  <2> QED
    BY <2>2 DEF Follows
<1>4. \A n \in 1..m : f[n] = f[n - 1] + s[n]
  <2> SUFFICES ASSUME NEW n \in 1..m PROVE f[n] = f[n - 1] + s[n]
    OBVIOUS
  <2>1. n - 1 \in 0..m
    BY <1>1
  <2> QED
    BY <1>2, <1>3, <2>1
<1>5. SumsUpTo(s, m, f)
  <2>1. \A n \in 0..m : f[n] = IF n = 0 THEN 0 ELSE f[n - 1] + s[n]
    BY <1>1, <1>3, <1>4
  <2> QED
    BY <2>1 DEF SumsUpTo
<1>6. SumsUpTo(s, m, sums)
  BY <1>5
<1>7. Sums(s) = sums /\ Total(s) = sums[m]
  BY DEF Sums, Total, SumsUpTo
<1> HIDE DEF sums
<1>8. sums = [n \in 0..m |-> IF n = 0 THEN 0 ELSE sums[n - 1] + s[n]]
  BY <1>6 DEF SumsUpTo
<1> DEFINE T == {n \in 0..m : sums[n] \in Int}
<1>9. 0 \in T /\ \A n \in 1..m : n - 1 \in T => n \in T
  BY <1>1, <1>8
<1>10. \A n \in 0..m : n \in T
  <2> HIDE DEF T
  <2> QED
    BY <1>1, <1>9, UpTo
<1>11. sums \in [0..m -> Int]
  BY <1>8, <1>10
<1>12. \A n \in 1..m : n - 1 \in 0..m /\ n \in 0..m /\ sums[n] = sums[n - 1] + s[n]
  <2> SUFFICES ASSUME NEW n \in 1..m PROVE n - 1 \in 0..m /\ n \in 0..m /\ sums[n] = sums[n - 1] + s[n]
    OBVIOUS
  <2>1. n - 1 \in 0..m /\ n \in 0..m /\ n # 0
    BY <1>1
  <2> QED
    BY ONLY <1>8, <2>1
<1>13. Adds(s, m, sums)
  <2>1. sums[0] = 0
    BY <1>1, <1>8
  <2>2. \A n \in 1..m : sums[n] \in Int /\ sums[n - 1] \in Int
    BY <1>11, <1>12
  <2> QED
    BY ONLY <1>1, <1>11, <1>12, <2>1, <2>2, m = Len(s) DEF Adds
<1> QED
  BY <1>1, <1>7, <1>11, <1>13

\* A function over the first numbers is a sequence.
LEMMA AsSeq ==
    ASSUME NEW n \in Nat, NEW V, NEW f, f \in [1..n -> V] PROVE f \in Seq(V) /\ Len(f) = n /\ DOMAIN f = 1..n
OBVIOUS

LEMMA FromSeq ==
    ASSUME NEW V, NEW s \in Seq(V)
    PROVE  Len(s) \in Nat /\ DOMAIN s = 1..Len(s) /\ s \in [1..Len(s) -> V] /\ \A i \in 1..Len(s) : s[i] \in V
OBVIOUS

\* Sums are compared element by element.
LEMMA SumsAtMost ==
    ASSUME NEW s \in Seq(Int), NEW t \in Seq(Int), Len(s) = Len(t), \A n \in 1..Len(s) : s[n] <= t[n]
    PROVE  Total(s) <= Total(t)
<1> PICK m : m = Len(s)
  OBVIOUS
<1> PICK f, g : f = Sums(s) /\ g = Sums(t)
  OBVIOUS
<1>1. Adds(s, m, f) /\ Adds(t, m, g) /\ Total(s) = f[m] /\ Total(t) = g[m]
  BY SumsAre
<1>2. m \in Nat /\ \A n \in 1..m : s[n] <= t[n]
  BY <1>1 DEF Adds
<1> DEFINE T == {n \in 0..m : f[n] <= g[n]}
<1>3. 0 \in T
  BY <1>1 DEF Adds
<1>4. ASSUME NEW n \in 1..m, n - 1 \in T PROVE n \in T
  <2>1. f[n] = f[n - 1] + s[n] /\ s[n] \in Int /\ f[n - 1] \in Int
    BY <1>1 DEF Adds
  <2>2. g[n] = g[n - 1] + t[n] /\ t[n] \in Int /\ g[n - 1] \in Int
    BY <1>1 DEF Adds
  <2>3. f[n - 1] <= g[n - 1] /\ s[n] <= t[n] /\ n \in 0..m
    BY <1>2, <1>4
  <2>4. f[n] <= g[n]
    <3> PICK a, b, x, y : a = f[n - 1] /\ b = g[n - 1] /\ x = s[n] /\ y = t[n]
      OBVIOUS
    <3>1. a \in Int /\ b \in Int /\ x \in Int /\ y \in Int /\ a <= b /\ x <= y /\ f[n] = a + x /\ g[n] = b + y
      BY <2>1, <2>2, <2>3
    <3> QED
      BY ONLY <3>1
  <2> QED
    BY <2>3, <2>4
<1>5. \A n \in 0..m : n \in T
  <2> HIDE DEF T
  <2> QED
    BY <1>2, <1>3, <1>4, UpTo
<1> QED
  BY <1>1, <1>2, <1>5

\* A function that never falls is in order.
LEMMA Rising ==
    ASSUME NEW m \in Nat, NEW f \in [0..m -> Int], \A n \in 1..m : f[n - 1] <= f[n],
           NEW i \in 0..m, NEW j \in 0..m, i <= j
    PROVE  f[i] <= f[j]
<1> DEFINE T == {n \in 0..m : i <= n => f[i] <= f[n]}
<1>1. 0 \in T
  OBVIOUS
<1>2. ASSUME NEW n \in 1..m, n - 1 \in T PROVE n \in T
  <2>1. CASE i = n
    BY <2>1
  <2>2. CASE i # n
    <3>1. f[n - 1] <= f[n] /\ f[n] \in Int /\ f[n - 1] \in Int /\ f[i] \in Int
      OBVIOUS
    <3> QED
      BY <1>2, <2>2, <3>1
  <2> QED
    BY <2>1, <2>2
<1>3. \A n \in 0..m : n \in T
  <2> HIDE DEF T
  <2> QED
    BY <1>1, <1>2, UpTo
<1> QED
  BY <1>3

LEMMA SumsOfNat ==
    ASSUME NEW s \in Seq(Nat)
    PROVE  /\ Total(s) \in Nat
           /\ \A i, j \in 0..Len(s) : i <= j => Sums(s)[i] <= Sums(s)[j]
           /\ \A n \in 1..Len(s) : s[n] <= Total(s)
<1> PICK m : m = Len(s)
  OBVIOUS
<1> PICK f : f = Sums(s)
  OBVIOUS
<1>1. s \in Seq(Int) /\ m \in Nat /\ \A n \in 1..m : s[n] \in Nat
  OBVIOUS
<1>2. Adds(s, m, f) /\ Total(s) = f[m]
  BY <1>1, SumsAre
<1>3. f \in [0..m -> Int] /\ f[0] = 0
  BY <1>2 DEF Adds
<1>4. \A n \in 1..m : f[n - 1] <= f[n] /\ s[n] <= f[n] - f[n - 1] /\ f[n - 1] \in Int
  BY <1>1, <1>2 DEF Adds
<1>5. \A i, j \in 0..m : i <= j => f[i] <= f[j]
  BY ONLY <1>1, <1>3, <1>4, Rising
<1>6. \A n \in 0..m : 0 <= f[n] /\ f[n] <= f[m] /\ f[n] \in Int
  BY <1>1, <1>3, <1>5
<1>7. ASSUME NEW n \in 1..m PROVE s[n] <= f[m]
  <2>1. n \in 0..m /\ n - 1 \in 0..m /\ s[n] \in Nat
    BY <1>1
  <2>2. f[n] <= f[m] /\ 0 <= f[n - 1] /\ f[n] \in Int /\ f[n - 1] \in Int /\ f[m] \in Int
    BY <1>1, <1>6, <2>1
  <2>3. s[n] <= f[n] - f[n - 1]
    BY <1>4
  <2> QED
    BY <2>1, <2>2, <2>3
<1>8. f[m] \in Nat
  BY <1>1, <1>6
<1> QED
  BY <1>2, <1>5, <1>7, <1>8

-----------------------------------------------------------------------------
(* The values a simulation works on. *)

Bars == [high : Nat \ {0}, low : Nat \ {0}, close : Nat \ {0}]
Params == [fast : Nat \ {0}, slow : Nat \ {0}, rsi : Nat \ {0}, sl : Nat \ {0}, tp : Nat,
           longMax : Int, shortMin : Int, risk : Int, tolerance : Int, fee : Int]
ExitReasons == {"stop_loss", "take_profit"}
PositionRow == [side : {"long", "short"}, entry : Nat \ {0}, from : Nat, risk : Int]
TradeRow == [side : {"long", "short"}, from : Nat, to : Nat, reason : ExitReasons \cup {"end_of_data"},
             risk : Int, pnl : Int]
Accs == [equity : Int, curve : Seq(Int), trades : Seq(TradeRow), open : PositionRow \cup {Flat}]

LEMMA Positive ==
    ASSUME NEW a \in Nat \ {0}, NEW b \in Nat \ {0} PROVE a * b \in Nat \ {0}
OBVIOUS

LEMMA Share ==
    ASSUME NEW a \in Int, NEW b \in Nat \ {0} PROVE a \div b \in Int
OBVIOUS

LEMMA NotFlat ==
    ASSUME NEW p \in PositionRow PROVE p # Flat
BY DEF PositionRow, Flat

LEMMA SettledIs ==
    ASSUME NEW p \in PositionRow, NEW price \in Int, NEW i \in Nat, NEW cfg \in Params,
           NEW reason \in ExitReasons \cup {"end_of_data"}
    PROVE  /\ Settled(p, price, i, reason, cfg) \in TradeRow
           /\ Settled(p, price, i, reason, cfg).from = p.from
           /\ Settled(p, price, i, reason, cfg).to = i
           /\ Settled(p, price, i, reason, cfg).reason = reason
<1> DEFINE move == Signed(p.side, price - 100 * p.entry) * 100 - (price + 100 * p.entry) * cfg.fee
           by == 100 * p.entry * cfg.sl
           pnl == (p.risk * move) \div by
<1>1. p.side \in {"long", "short"} /\ p.entry \in Nat \ {0} /\ p.from \in Nat /\ p.risk \in Int
  BY DEF PositionRow
<1>2. cfg.sl \in Nat \ {0} /\ cfg.fee \in Int
  BY DEF Params
<1>3. by \in Nat \ {0}
  <2>1. 100 * p.entry \in Nat \ {0}
    BY <1>1
  <2> QED
    BY <1>2, <2>1, Positive
<1>4. move \in Int
  <2>1. Signed(p.side, price - 100 * p.entry) \in Int
    BY <1>1 DEF Signed
  <2>2. (price + 100 * p.entry) * cfg.fee \in Int
    BY <1>1, <1>2
  <2> QED
    BY <2>1, <2>2
<1>5. p.risk * move \in Int
  <2> HIDE DEF move
  <2> QED
    BY <1>1, <1>4
<1>6. pnl \in Int
  <2> HIDE DEF move, by
  <2> QED
    BY <1>3, <1>5, Share
<1>7. Settled(p, price, i, reason, cfg) =
        [side |-> p.side, from |-> p.from, to |-> i, reason |-> reason, risk |-> p.risk, pnl |-> pnl]
  BY DEF Settled
<1> QED
  <2> HIDE DEF pnl
  <2> QED
    BY <1>1, <1>6, <1>7 DEF TradeRow

LEMMA ExitIs ==
    ASSUME NEW p \in PositionRow, NEW bar \in Bars, NEW cfg \in Params
    PROVE  /\ ExitOf(p, bar, cfg).price \in Int
           /\ ExitOf(p, bar, cfg).reason \in ExitReasons \cup {"none"}
<1>1. p.side \in {"long", "short"} /\ p.entry \in Nat \ {0}
  BY DEF PositionRow
<1>2. cfg.sl \in Nat \ {0} /\ cfg.tp \in Nat
  BY DEF Params
<1>3. StopOf(p, cfg) \in Int
  <2>1. 100 - Signed(p.side, cfg.sl) \in Int
    BY <1>1, <1>2 DEF Signed
  <2> QED
    BY <1>1, <2>1 DEF StopOf
<1>4. TakeOf(p, cfg) \in Int
  <2>1. 100 + Signed(p.side, cfg.tp) \in Int
    BY <1>1, <1>2 DEF Signed
  <2> QED
    BY <1>1, <2>1 DEF TakeOf
<1>5. ExitOf(p, bar, cfg) \in {[price |-> StopOf(p, cfg), reason |-> "stop_loss"],
                               [price |-> TakeOf(p, cfg), reason |-> "take_profit"],
                               [price |-> 0, reason |-> "none"]}
  BY DEF ExitOf
<1> QED
  BY <1>3, <1>4, <1>5 DEF ExitReasons

LEMMA SignalIs ==
    ASSUME NEW visible, NEW cfg
    PROVE  /\ SignalAt(visible, cfg) \in {"none", "long", "short"}
           /\ SignalAt(visible, cfg) # "none" => ~(Len(visible) < Bigger(cfg.slow, cfg.rsi + 1))
BY DEF SignalAt, TrendSide

-----------------------------------------------------------------------------
(* One candle. *)

\* A trade ends on candle i, a position is opened on it.
Ends(old, new, t) == old.open # Flat /\ new = With(old, t) /\ t.from = old.open.from
Opens(old, new, p) == old.open = Flat /\ new = [old EXCEPT !.open = p]

LEMMA WithIs ==
    ASSUME NEW acc \in Accs, NEW t \in TradeRow
    PROVE  /\ With(acc, t) \in Accs /\ With(acc, t).open = Flat
           /\ With(acc, t).equity = acc.equity + t.pnl
           /\ With(acc, t).curve = Append(acc.curve, acc.equity + t.pnl)
           /\ With(acc, t).trades = Append(acc.trades, t)
<1>1. acc.equity \in Int /\ acc.curve \in Seq(Int) /\ acc.trades \in Seq(TradeRow) /\ t.pnl \in Int
  BY DEF Accs, TradeRow
<1>2. acc.equity + t.pnl \in Int /\ Append(acc.curve, acc.equity + t.pnl) \in Seq(Int)
      /\ Append(acc.trades, t) \in Seq(TradeRow)
  BY <1>1
<1> QED
  BY <1>2 DEF Accs, With

Moves(old, new, i, candles, cfg) ==
    \/ new = old
    \/ \E t \in TradeRow : Ends(old, new, t) /\ t.to = i /\ t.reason # "end_of_data"
    \/ \E p \in PositionRow : /\ Opens(old, new, p) /\ p.from = i
                              /\ ~(Len(Visible(candles, i)) < Bigger(cfg.slow, cfg.rsi + 1))

LEMMA StepIs ==
    ASSUME NEW candles \in Seq(Bars), NEW cfg \in Params, NEW i \in 1..Len(candles), NEW acc \in Accs
    PROVE  Step(acc, i, candles, cfg) \in Accs /\ Moves(acc, Step(acc, i, candles, cfg), i, candles, cfg)
<1> PICK new : new = Step(acc, i, candles, cfg)
  OBVIOUS
<1> PICK out : out = ExitOf(acc.open, candles[i], cfg)
  OBVIOUS
<1> PICK side : side = SignalAt(Visible(candles, i), cfg)
  OBVIOUS
<1>1. new = IF acc.open # Flat
            THEN IF out.reason = "none" THEN acc
                 ELSE With(acc, Settled(acc.open, out.price, i, out.reason, cfg))
            ELSE IF side = "none" THEN acc
            ELSE [acc EXCEPT !.open = Opened(side, candles[i], i, acc.equity, cfg)]
  BY DEF Step
<1>2. i \in Nat /\ candles[i] \in Bars
  OBVIOUS
<1>3. CASE new = acc
  BY <1>3 DEF Moves
<1>4. CASE acc.open # Flat /\ new # acc
  <2>1. acc.open \in PositionRow
    BY <1>4 DEF Accs
  <2>2. out.price \in Int /\ out.reason \in ExitReasons \cup {"none"}
    BY <1>2, <2>1, ExitIs
  <2>3. out.reason # "none" /\ new = With(acc, Settled(acc.open, out.price, i, out.reason, cfg))
    BY <1>1, <1>4
  <2> PICK t : t = Settled(acc.open, out.price, i, out.reason, cfg)
    OBVIOUS
  <2>4. t \in TradeRow /\ t.from = acc.open.from /\ t.to = i /\ t.reason = out.reason
    BY <1>2, <2>1, <2>2, <2>3, SettledIs
  <2>5. t.reason # "end_of_data"
    BY <2>2, <2>3, <2>4 DEF ExitReasons
  <2>6. new = With(acc, t) /\ new \in Accs
    BY <2>3, <2>4, WithIs
  <2> QED
    BY <1>4, <2>4, <2>5, <2>6 DEF Ends, Moves
<1>5. CASE acc.open = Flat /\ new # acc
  <2>1. side # "none" /\ new = [acc EXCEPT !.open = Opened(side, candles[i], i, acc.equity, cfg)]
    BY <1>1, <1>5
  <2>2. side \in {"long", "short"} /\ ~(Len(Visible(candles, i)) < Bigger(cfg.slow, cfg.rsi + 1))
    BY <2>1, SignalIs
  <2> PICK p : p = Opened(side, candles[i], i, acc.equity, cfg)
    OBVIOUS
  <2>3. (acc.equity * cfg.risk) \div 100 \in Int
    <3>1. acc.equity \in Int /\ cfg.risk \in Int
      BY DEF Accs, Params
    <3>2. acc.equity * cfg.risk \in Int
      BY <3>1
    <3> QED
      BY <3>2, Share
  <2>4. candles[i].close \in Nat \ {0}
    BY <1>2 DEF Bars
  <2>5. p = [side |-> side, entry |-> candles[i].close, from |-> i, risk |-> (acc.equity * cfg.risk) \div 100]
    BY DEF Opened
  <2>6. p \in PositionRow /\ p.from = i
    BY <1>2, <2>2, <2>3, <2>4, <2>5 DEF PositionRow
  <2>7. new = [acc EXCEPT !.open = p] /\ new \in Accs
    BY <2>1, <2>6 DEF Accs
  <2> QED
    BY <1>5, <2>2, <2>6, <2>7 DEF Opens, Moves
<1> QED
  BY <1>3, <1>4, <1>5

-----------------------------------------------------------------------------
(* A simulation. *)

Simulates(candles, cfg, m, f) ==
    /\ m = Len(candles) /\ m \in Nat /\ f \in [0..m -> Accs] /\ f[0] = Start
    /\ \A n \in 1..m : f[n - 1] \in Accs /\ f[n] \in Accs /\ f[n] = Step(f[n - 1], n, candles, cfg)
StepsUpTo(candles, cfg, m, f) ==
    f = [n \in 0..m |-> IF n = 0 THEN Start ELSE Step(f[n - 1], n, candles, cfg)]

LEMMA StartIs == Start \in Accs /\ Start.open = Flat /\ Start.trades = << >>
<1>1. Equity \in Int
  BY BacktestAssumption
<1>2. <<Equity>> \in Seq(Int) /\ << >> \in Seq(TradeRow)
  BY <1>1
<1> QED
  BY <1>1, <1>2 DEF Start, Accs

LEMMA AfterIs ==
    ASSUME NEW candles \in Seq(Bars), NEW cfg \in Params
    PROVE  Simulates(candles, cfg, Len(candles), After(candles, cfg))
<1> PICK m : m = Len(candles)
  OBVIOUS
<1>1. m \in Nat
  OBVIOUS
<1> DEFINE acc == CHOOSE f : StepsUpTo(candles, cfg, m, f)
           G == [n \in 1..m |-> [v \in Accs |-> Step(v, n, candles, cfg)]]
<1>2. \A n \in 1..m : \A v \in Accs : G[n][v] = Step(v, n, candles, cfg) /\ Step(v, n, candles, cfg) \in Accs
  BY StepIs
<1>3. G \in [1..m -> [Accs -> Accs]]
  BY <1>2
<1> HIDE DEF G
<1>4. PICK f \in [0..m -> Accs] : f[0] = Start /\ \A n \in 1..m : f[n] = G[n][f[n - 1]]
  <2>1. Steps(m, Accs, Start, G)
    BY <1>1, <1>3, StartIs DEF Steps
  <2>2. \E f : Follows(m, Accs, Start, G, f)
    BY ONLY <2>1, Recursion
  <2> QED
    BY <2>2 DEF Follows
<1>5. \A n \in 1..m : f[n] = Step(f[n - 1], n, candles, cfg)
  <2> SUFFICES ASSUME NEW n \in 1..m PROVE f[n] = Step(f[n - 1], n, candles, cfg)
    OBVIOUS
  <2>1. n - 1 \in 0..m
    BY <1>1
  <2>2. f[n - 1] \in Accs
    BY <2>1
  <2> QED
    BY <1>2, <1>4, <2>2
<1>6. StepsUpTo(candles, cfg, m, f)
  <2>1. \A n \in 0..m : f[n] = IF n = 0 THEN Start ELSE Step(f[n - 1], n, candles, cfg)
    BY <1>1, <1>4, <1>5
  <2> QED
    BY <2>1 DEF StepsUpTo
<1>7. StepsUpTo(candles, cfg, m, acc)
  BY <1>6
<1>8. After(candles, cfg) = acc
  BY DEF After, StepsUpTo
<1> HIDE DEF acc
<1>9. acc = [n \in 0..m |-> IF n = 0 THEN Start ELSE Step(acc[n - 1], n, candles, cfg)]
  BY <1>7 DEF StepsUpTo
<1> DEFINE T == {n \in 0..m : acc[n] \in Accs}
<1>10. 0 \in T /\ acc[0] = Start
  BY <1>1, <1>9, StartIs
<1>11. ASSUME NEW n \in 1..m PROVE acc[n] = Step(acc[n - 1], n, candles, cfg) /\ n \in 0..m /\ n - 1 \in 0..m
  <2>1. \A k \in 0..m : acc[k] = IF k = 0 THEN Start ELSE Step(acc[k - 1], k, candles, cfg)
    BY ONLY <1>9
  <2>2. n \in 0..m /\ n - 1 \in 0..m /\ n # 0
    BY <1>1
  <2> QED
    BY ONLY <2>1, <2>2
<1>12. ASSUME NEW n \in 1..m, n - 1 \in T PROVE n \in T
  BY <1>2, <1>11, <1>12
<1>13. \A n \in 0..m : n \in T
  <2> HIDE DEF T
  <2> QED
    BY <1>1, <1>10, <1>12, UpTo
<1>14. acc \in [0..m -> Accs]
  BY <1>9, <1>13
<1>15. Simulates(candles, cfg, m, acc)
  BY <1>1, <1>10, <1>11, <1>14 DEF Simulates
<1> QED
  BY <1>8, <1>15

\* What has been traded up to candle n: the curve is the running sum of the results, and
\* the trades follow each other.
CurveOf(curve, trades) ==
    /\ curve \in Seq(Int) /\ trades \in Seq(TradeRow)
    /\ Len(curve) = Len(trades) + 1 /\ curve[1] = Equity
    /\ \A k \in 1..Len(trades) : curve[k + 1] = curve[k] + trades[k].pnl
Ordered(trades, cfg) ==
    /\ trades \in Seq(TradeRow)
    /\ \A i \in 1..Len(trades) : trades[i].from < trades[i].to /\ cfg.slow <= trades[i].from
    /\ \A i, j \in 1..Len(trades) : i < j => trades[i].to < trades[j].from
Settles(trades, n) == \A i \in 1..Len(trades) : trades[i].to <= n /\ trades[i].reason # "end_of_data"
Holds(acc, cfg, n) ==
    acc.open # Flat => /\ acc.open \in PositionRow /\ cfg.slow <= acc.open.from /\ acc.open.from <= n
                       /\ \A i \in 1..Len(acc.trades) : acc.trades[i].to < acc.open.from
Good(acc, cfg, n) ==
    /\ CurveOf(acc.curve, acc.trades) /\ acc.equity = acc.curve[Len(acc.curve)]
    /\ Ordered(acc.trades, cfg) /\ Settles(acc.trades, n) /\ Holds(acc, cfg, n)

LEMMA CurveGrows ==
    ASSUME NEW curve, NEW trades, CurveOf(curve, trades), NEW t \in TradeRow
    PROVE  CurveOf(Append(curve, curve[Len(curve)] + t.pnl), Append(trades, t))
           /\ Len(Append(curve, curve[Len(curve)] + t.pnl)) = Len(curve) + 1
           /\ Append(curve, curve[Len(curve)] + t.pnl)[Len(curve) + 1] = curve[Len(curve)] + t.pnl
<1> PICK m : m = Len(trades)
  OBVIOUS
<1>1. /\ curve \in Seq(Int) /\ trades \in Seq(TradeRow) /\ m \in Nat /\ Len(curve) = m + 1 /\ t.pnl \in Int
      /\ curve[1] = Equity /\ \A k \in 1..m : curve[k + 1] = curve[k] + trades[k].pnl
  <2>1. curve \in Seq(Int) /\ trades \in Seq(TradeRow) /\ Len(curve) = m + 1 /\ curve[1] = Equity
    BY DEF CurveOf
  <2>2. \A k \in 1..m : curve[k + 1] = curve[k] + trades[k].pnl
    BY DEF CurveOf
  <2>3. m \in Nat
    BY ONLY <2>1, m = Len(trades)
  <2>4. t.pnl \in Int
    BY DEF TradeRow
  <2> QED
    BY ONLY <2>1, <2>2, <2>3, <2>4
<1>2. curve[m + 1] + t.pnl \in Int
  BY <1>1
<1> PICK c : c = Append(curve, curve[m + 1] + t.pnl)
  OBVIOUS
<1> PICK s : s = Append(trades, t)
  OBVIOUS
<1>3. /\ c \in Seq(Int) /\ Len(c) = m + 2 /\ c[m + 2] = curve[m + 1] + t.pnl
      /\ \A k \in 1..(m + 1) : c[k] = curve[k]
  BY <1>1, <1>2
<1>4. /\ s \in Seq(TradeRow) /\ Len(s) = m + 1 /\ s[m + 1] = t /\ \A k \in 1..m : s[k] = trades[k]
  BY <1>1
<1>5. ASSUME NEW k \in 1..(m + 1) PROVE c[k + 1] = c[k] + s[k].pnl
  <2>1. CASE k = m + 1
    BY <1>1, <1>3, <1>4, <2>1
  <2>2. CASE k # m + 1
    <3>1. k \in 1..m /\ k + 1 \in 1..(m + 1)
      BY <1>1, <2>2
    <3> QED
      BY <1>1, <1>3, <1>4, <3>1
  <2> QED
    BY <2>1, <2>2
<1>6. c[1] = Equity /\ \A k \in 1..Len(s) : c[k + 1] = c[k] + s[k].pnl
  BY ONLY <1>1, <1>3, <1>4, <1>5
<1>7. CurveOf(c, s)
  BY ONLY <1>1, <1>3, <1>4, <1>6 DEF CurveOf
<1>8. Len(curve) = m + 1 /\ Len(c) = Len(curve) + 1 /\ c[Len(curve) + 1] = curve[Len(curve)] + t.pnl
  BY ONLY <1>1, <1>3
<1> QED
  BY <1>7, <1>8

\* A trade that begins after the others have ended keeps their order.
LEMMA OrderGrows ==
    ASSUME NEW trades, NEW cfg, Ordered(trades, cfg), NEW t \in TradeRow,
           t.from < t.to, cfg.slow <= t.from, \A i \in 1..Len(trades) : trades[i].to < t.from
    PROVE  Ordered(Append(trades, t), cfg)
<1> PICK m : m = Len(trades)
  OBVIOUS
<1> PICK s : s = Append(trades, t)
  OBVIOUS
<1>1. /\ s \in Seq(TradeRow) /\ m \in Nat /\ Len(s) = m + 1 /\ s[m + 1] = t /\ \A k \in 1..m : s[k] = trades[k]
  BY DEF Ordered
<1>2. \A i \in 1..(m + 1) : i \in 1..m \/ i = m + 1
  BY <1>1
<1>3. ASSUME NEW i \in 1..(m + 1) PROVE s[i].from < s[i].to /\ cfg.slow <= s[i].from
  BY <1>1, <1>2 DEF Ordered
<1>4. ASSUME NEW i \in 1..(m + 1), NEW j \in 1..(m + 1), i < j PROVE s[i].to < s[j].from
  <2>1. i \in 1..m
    BY <1>1, <1>4
  <2>2. CASE j = m + 1
    BY <1>1, <2>1, <2>2
  <2>3. CASE j \in 1..m
    <3>1. trades[i].to < trades[j].from
      BY <1>4, <2>1, <2>3 DEF Ordered
    <3> QED
      BY <1>1, <2>1, <2>3, <3>1
  <2> QED
    BY <1>2, <2>2, <2>3
<1> QED
  BY <1>1, <1>3, <1>4 DEF Ordered

LEMMA GoodStart == ASSUME NEW cfg, NEW n \in Nat PROVE Good(Start, cfg, n)
<1>1. Equity \in Int
  BY BacktestAssumption
<1>2. <<Equity>> \in Seq(Int) /\ << >> \in Seq(TradeRow) /\ Len(<<Equity>>) = 1 /\ <<Equity>>[1] = Equity
  BY <1>1
<1>3. Start.equity = Equity /\ Start.curve = <<Equity>> /\ Start.trades = << >> /\ Start.open = Flat
  BY DEF Start
<1>4. CurveOf(Start.curve, Start.trades)
  BY <1>2, <1>3 DEF CurveOf
<1>5. Ordered(Start.trades, cfg) /\ Settles(Start.trades, n)
  BY <1>2, <1>3 DEF Ordered, Settles
<1> QED
  BY <1>2, <1>3, <1>4, <1>5 DEF Good, Holds

LEMMA GoodEnd ==
    ASSUME NEW acc \in Accs, NEW cfg, NEW n \in Nat, NEW i \in Nat, Good(acc, cfg, n), acc.open # Flat,
           NEW t \in TradeRow, t.from = acc.open.from, t.to = i, acc.open.from < i, n <= i
    PROVE  /\ CurveOf(With(acc, t).curve, With(acc, t).trades)
           /\ With(acc, t).equity = With(acc, t).curve[Len(With(acc, t).curve)]
           /\ Ordered(With(acc, t).trades, cfg)
           /\ t.reason # "end_of_data" => Good(With(acc, t), cfg, i)
<1> PICK new : new = With(acc, t)
  OBVIOUS
<1>1. /\ new.open = Flat /\ new.equity = acc.equity + t.pnl
      /\ new.curve = Append(acc.curve, acc.equity + t.pnl) /\ new.trades = Append(acc.trades, t)
  BY WithIs
<1>2. /\ CurveOf(acc.curve, acc.trades) /\ acc.equity = acc.curve[Len(acc.curve)] /\ Ordered(acc.trades, cfg)
      /\ Settles(acc.trades, n)
  BY DEF Good
<1>3. acc.trades \in Seq(TradeRow) /\ cfg.slow <= t.from /\ t.from < t.to
      /\ \A k \in 1..Len(acc.trades) : acc.trades[k].to < t.from
  BY DEF Good, Holds, Accs
<1>4. CurveOf(new.curve, new.trades) /\ new.equity = new.curve[Len(new.curve)]
  <2> PICK c : c = Append(acc.curve, acc.curve[Len(acc.curve)] + t.pnl)
    OBVIOUS
  <2>1. CurveOf(c, Append(acc.trades, t)) /\ Len(c) = Len(acc.curve) + 1
        /\ c[Len(acc.curve) + 1] = acc.curve[Len(acc.curve)] + t.pnl
    BY <1>2, CurveGrows
  <2>2. new.curve = c /\ new.equity = acc.curve[Len(acc.curve)] + t.pnl
    BY <1>1, <1>2
  <2> QED
    BY <1>1, <2>1, <2>2
<1>5. Ordered(new.trades, cfg)
  BY <1>1, <1>2, <1>3, OrderGrows
<1>6. ASSUME t.reason # "end_of_data" PROVE Settles(new.trades, i)
  <2> SUFFICES ASSUME NEW k \in 1..Len(new.trades)
               PROVE  new.trades[k].to <= i /\ new.trades[k].reason # "end_of_data"
    BY DEF Settles
  <2>1. CASE k = Len(acc.trades) + 1
    BY <1>1, <1>3, <1>6, <2>1
  <2>2. CASE k # Len(acc.trades) + 1
    <3>1. k \in 1..Len(acc.trades) /\ new.trades[k] = acc.trades[k] /\ acc.trades[k] \in TradeRow
      BY <1>1, <1>3, <2>2
    <3>2. acc.trades[k].to <= n /\ acc.trades[k].reason # "end_of_data" /\ acc.trades[k].to \in Nat
      BY <1>2, <3>1 DEF Settles, TradeRow
    <3> QED
      BY <3>1, <3>2
  <2> QED
    BY <2>1, <2>2
<1>7. Holds(new, cfg, i)
  BY <1>1 DEF Holds
<1> QED
  BY <1>4, <1>5, <1>6, <1>7 DEF Good

LEMMA GoodStep ==
    ASSUME NEW candles \in Seq(Bars), NEW cfg \in Params, NEW i \in 1..Len(candles), NEW acc \in Accs,
           Good(acc, cfg, i - 1)
    PROVE  Good(Step(acc, i, candles, cfg), cfg, i)
<1> PICK new : new = Step(acc, i, candles, cfg)
  OBVIOUS
<1>1. i \in Nat /\ i - 1 \in Nat
  OBVIOUS
<1>2. ASSUME NEW k \in 1..Len(acc.trades)
      PROVE  /\ acc.trades[k].to <= i - 1 /\ acc.trades[k].to <= i /\ acc.trades[k].to < i
             /\ acc.trades[k].reason # "end_of_data"
  <2>1. acc.trades \in Seq(TradeRow) /\ Settles(acc.trades, i - 1)
    BY DEF Good, Accs
  <2>2. acc.trades[k] \in TradeRow
    BY <2>1
  <2>3. acc.trades[k].to \in Nat
    BY <2>2 DEF TradeRow
  <2>4. acc.trades[k].to <= i - 1 /\ acc.trades[k].reason # "end_of_data"
    BY <2>1 DEF Settles
  <2> QED
    BY <1>1, <2>3, <2>4
<1>3. Settles(acc.trades, i)
  BY <1>2 DEF Settles
<1>4. CASE new = acc
  <2>1. Holds(acc, cfg, i)
    <3>1. Holds(acc, cfg, i - 1)
      BY DEF Good
    <3>2. acc.open \in PositionRow => acc.open.from \in Nat
      BY DEF PositionRow
    <3> QED
      BY <1>1, <3>1, <3>2 DEF Holds
  <2> QED
    BY <1>3, <1>4, <2>1 DEF Good
<1>5. ASSUME NEW t \in TradeRow, Ends(acc, new, t), t.to = i, t.reason # "end_of_data" PROVE Good(new, cfg, i)
  <2>1. acc.open # Flat /\ new = With(acc, t) /\ t.from = acc.open.from
    BY <1>5 DEF Ends
  <2>2. acc.open.from < i
    <3>1. acc.open \in PositionRow /\ acc.open.from <= i - 1
      BY <2>1 DEF Good, Holds
    <3> QED
      BY <1>1, <3>1 DEF PositionRow
  <2> QED
    BY <1>1, <1>5, <2>1, <2>2, GoodEnd
<1>6. ASSUME NEW p \in PositionRow, Opens(acc, new, p), p.from = i,
             ~(Len(Visible(candles, i)) < Bigger(cfg.slow, cfg.rsi + 1))
      PROVE  Good(new, cfg, i)
  <2>1. new.open = p /\ new.trades = acc.trades /\ new.curve = acc.curve /\ new.equity = acc.equity
    BY <1>6 DEF Opens, Accs
  <2>2. Len(Visible(candles, i)) = i
    BY DEF Visible
  <2>3. cfg.slow <= i
    <3>1. cfg.slow \in Nat /\ cfg.rsi \in Nat
      BY DEF Params
    <3> QED
      BY <1>1, <1>6, <2>2, <3>1 DEF Bigger
  <2>4. \A k \in 1..Len(acc.trades) : acc.trades[k].to < i
    BY <1>2
  <2>5. Holds(new, cfg, i)
    BY <1>1, <1>6, <2>1, <2>3, <2>4 DEF Holds
  <2> QED
    BY <1>3, <2>1, <2>5 DEF Good
<1>7. Moves(acc, new, i, candles, cfg)
  BY StepIs
<1> QED
  BY <1>4, <1>5, <1>6, <1>7 DEF Moves

LEMMA AfterGood ==
    ASSUME NEW candles \in Seq(Bars), NEW cfg \in Params, NEW n \in 0..Len(candles)
    PROVE  Good(After(candles, cfg)[n], cfg, n) /\ After(candles, cfg)[n] \in Accs
<1> PICK m, f : m = Len(candles) /\ f = After(candles, cfg)
  OBVIOUS
<1>1. Simulates(candles, cfg, m, f)
  BY AfterIs
<1>2. m \in Nat /\ f[0] = Start /\ f \in [0..m -> Accs] /\ m = Len(candles)
  BY <1>1 DEF Simulates
<1> DEFINE T == {k \in 0..m : Good(f[k], cfg, k)}
<1>3. 0 \in T
  BY <1>2, GoodStart
<1>4. ASSUME NEW k \in 1..m, k - 1 \in T PROVE k \in T
  <2>1. f[k - 1] \in Accs /\ f[k] = Step(f[k - 1], k, candles, cfg)
    BY <1>1 DEF Simulates
  <2>2. Good(f[k - 1], cfg, k - 1)
    BY <1>4
  <2>3. Good(f[k], cfg, k)
    BY <1>2, <2>1, <2>2, GoodStep
  <2> QED
    BY <1>2, <2>3
<1>5. \A k \in 0..m : k \in T
  <2> HIDE DEF T
  <2> QED
    BY <1>2, <1>3, <1>4, UpTo
<1> QED
  BY <1>2, <1>5

\* The result of a simulation: what was traded on the way, and what the end closed.
TooFew(candles, cfg) == Len(candles) < Bigger(cfg.slow, cfg.rsi) + 2
Concludes(r, end, candles, cfg) ==
    \/ TooFew(candles, cfg) /\ r.trades = << >>
    \/ ~TooFew(candles, cfg) /\ r.trades = end.trades
    \/ ~TooFew(candles, cfg) /\ \E t \in TradeRow : t.reason = "end_of_data" /\ r.trades = Append(end.trades, t)

LEMMA SimulateIs ==
    ASSUME NEW candles \in Seq(Bars), NEW cfg \in Params,
           NEW end, end = After(candles, cfg)[Len(candles)], NEW r, r = Simulate(candles, cfg)
    PROVE  /\ CurveOf(r.curve, r.trades) /\ Ordered(r.trades, cfg) /\ r.equity = r.curve[Len(r.curve)]
           /\ Concludes(r, end, candles, cfg)
<1> PICK n : n = Len(candles)
  OBVIOUS
<1>1. n \in Nat
  OBVIOUS
<1>2. Good(end, cfg, n) /\ end \in Accs
  BY <1>1, AfterGood
<1>3. r = IF n < Bigger(cfg.slow, cfg.rsi) + 2 THEN Start
          ELSE IF end.open # Flat /\ n > end.open.from
               THEN With(end, Settled(end.open, 100 * candles[n].close, n, "end_of_data", cfg))
               ELSE end
  BY DEF Simulate
<1>4. CASE n < Bigger(cfg.slow, cfg.rsi) + 2
  <2>1. r = Start /\ Good(Start, cfg, n) /\ Start.trades = << >>
    BY <1>1, <1>3, <1>4, GoodStart, StartIs
  <2> QED
    BY <1>4, <2>1 DEF Good, Concludes, TooFew
<1>5. CASE ~(n < Bigger(cfg.slow, cfg.rsi) + 2) /\ ~(end.open # Flat /\ n > end.open.from)
  <2>1. r = end
    BY <1>3, <1>5
  <2> QED
    BY <1>2, <1>5, <2>1 DEF Good, Concludes, TooFew
<1>6. CASE ~(n < Bigger(cfg.slow, cfg.rsi) + 2) /\ end.open # Flat /\ n > end.open.from
  <2> PICK t : t = Settled(end.open, 100 * candles[n].close, n, "end_of_data", cfg)
    OBVIOUS
  <2>1. r = With(end, t)
    BY <1>3, <1>6
  <2>2. end.open \in PositionRow
    BY <1>2, <1>6 DEF Accs
  <2>3. 100 * candles[n].close \in Int
    <3>1. end.open.from \in Nat
      BY <2>2 DEF PositionRow
    <3>2. n \in 1..Len(candles)
      BY <1>1, <1>6, <3>1
    <3>3. candles[n] \in Bars
      BY <3>2
    <3> QED
      BY <3>3 DEF Bars
  <2>4. t \in TradeRow /\ t.from = end.open.from /\ t.to = n /\ t.reason = "end_of_data"
    BY <1>1, <2>2, <2>3, SettledIs
  <2>5. end.open.from < n
    BY <1>1, <1>6, <2>2 DEF PositionRow
  <2>6. CurveOf(r.curve, r.trades) /\ Ordered(r.trades, cfg) /\ r.equity = r.curve[Len(r.curve)]
    <3>1. end \in Accs /\ n \in Nat /\ Good(end, cfg, n) /\ end.open # Flat /\ n <= n
      BY <1>1, <1>2, <1>6
    <3> QED
      BY ONLY <2>1, <2>4, <2>5, <3>1, GoodEnd
  <2>7. r.trades = Append(end.trades, t)
    <3>1. With(end, t).trades = Append(end.trades, t)
      BY ONLY <1>2, <2>4, WithIs
    <3> QED
      BY ONLY <2>1, <3>1
  <2> QED
    BY <1>6, <2>4, <2>6, <2>7 DEF Concludes, TooFew
<1> QED
  BY <1>4, <1>5, <1>6

-----------------------------------------------------------------------------
(* What comes later changes nothing that has happened. *)

Begins(s, t) == Len(s) <= Len(t) /\ \A i \in 1..Len(s) : s[i] = t[i]

LEMMA PrefixIs ==
    ASSUME NEW V, NEW s \in Seq(V), NEW t \in Seq(V), Begins(s, t) PROVE IsPrefix(s, t)
<1>1. Len(s) \in Nat /\ Len(t) \in Nat /\ Len(s) <= Len(t) /\ \A i \in 1..Len(s) : s[i] = t[i]
  BY DEF Begins
<1>2. SubSeq(s, 1, Len(s)) = SubSeq(t, 1, Len(s))
  BY <1>1
<1> QED
  BY <1>1, <1>2 DEF IsPrefix

LEMMA BeginsThrough ==
    ASSUME NEW V, NEW s \in Seq(V), NEW t \in Seq(V), NEW u \in Seq(V), Begins(s, t), Begins(t, u)
    PROVE  Begins(s, u)
<1>1. Len(s) \in Nat /\ Len(t) \in Nat /\ Len(u) \in Nat
  OBVIOUS
<1> QED
  BY <1>1 DEF Begins

LEMMA BeginsSame ==
    ASSUME NEW V, NEW s \in Seq(V) PROVE Begins(s, s)
BY DEF Begins

LEMMA BeginsAppend ==
    ASSUME NEW V, NEW s \in Seq(V), NEW x \in V PROVE Begins(s, Append(s, x))
BY DEF Begins

LEMMA SameCandle ==
    ASSUME NEW a \in Seq(Bars), NEW b \in Seq(Bars), Begins(a, b), NEW n \in 1..Len(a), NEW acc, NEW cfg
    PROVE  Step(acc, n, a, cfg) = Step(acc, n, b, cfg)
<1>1. Len(a) \in Nat /\ Len(b) \in Nat /\ Len(a) <= Len(b) /\ \A i \in 1..Len(a) : a[i] = b[i]
  BY DEF Begins
<1>2. SubSeq(a, 1, n) = SubSeq(b, 1, n)
  BY <1>1
<1>3. Visible(a, n) = Visible(b, n) /\ a[n] = b[n]
  BY <1>1, <1>2 DEF Visible
<1> QED
  BY <1>3 DEF Step

LEMMA SamePast ==
    ASSUME NEW a \in Seq(Bars), NEW b \in Seq(Bars), Begins(a, b), NEW cfg \in Params, NEW n \in 0..Len(a)
    PROVE  After(a, cfg)[n] = After(b, cfg)[n]
<1> PICK m : m = Len(a)
  OBVIOUS
<1> PICK f : f = After(a, cfg)
  OBVIOUS
<1> PICK g : g = After(b, cfg)
  OBVIOUS
<1>1. Simulates(a, cfg, m, f) /\ Simulates(b, cfg, Len(b), g)
  BY AfterIs
<1>2. m \in Nat /\ Len(b) \in Nat /\ m <= Len(b)
  BY DEF Begins
<1> DEFINE T == {k \in 0..m : f[k] = g[k]}
<1>3. 0 \in T
  BY <1>1, <1>2 DEF Simulates
<1>4. ASSUME NEW k \in 1..m, k - 1 \in T PROVE k \in T
  <2>1. f[k] = Step(f[k - 1], k, a, cfg)
    BY <1>1 DEF Simulates
  <2>2. k \in 1..Len(b) /\ k \in 1..Len(a)
    BY <1>2
  <2>3. g[k] = Step(g[k - 1], k, b, cfg)
    BY <1>1, <2>2 DEF Simulates
  <2>4. Step(f[k - 1], k, a, cfg) = Step(f[k - 1], k, b, cfg)
    BY <2>2, SameCandle
  <2> QED
    BY <1>2, <1>4, <2>1, <2>3, <2>4
<1>5. \A k \in 0..m : k \in T
  <2> HIDE DEF T
  <2> QED
    BY <1>2, <1>3, <1>4, UpTo
<1> QED
  BY <1>5

LEMMA TradesGrow ==
    ASSUME NEW candles \in Seq(Bars), NEW cfg \in Params,
           NEW n \in 0..Len(candles), NEW k \in 0..Len(candles), n <= k
    PROVE  Begins(After(candles, cfg)[n].trades, After(candles, cfg)[k].trades)
<1> PICK m : m = Len(candles)
  OBVIOUS
<1> PICK f : f = After(candles, cfg)
  OBVIOUS
<1>1. Simulates(candles, cfg, m, f) /\ m \in Nat
  BY AfterIs
<1>2. ASSUME NEW i \in 0..m PROVE f[i].trades \in Seq(TradeRow)
  <2>1. f[i] \in Accs
    BY <1>1 DEF Simulates
  <2> QED
    BY <2>1 DEF Accs
<1>3. ASSUME NEW i \in 1..m PROVE Begins(f[i - 1].trades, f[i].trades) /\ i \in 0..m /\ i - 1 \in 0..m
  <2>1. i \in 0..m /\ i - 1 \in 0..m /\ i \in 1..Len(candles)
    BY <1>1
  <2>2. f[i - 1] \in Accs /\ f[i] = Step(f[i - 1], i, candles, cfg)
    BY <1>1 DEF Simulates
  <2>3. f[i - 1].trades \in Seq(TradeRow)
    BY <1>2, <2>1
  <2>4. ASSUME NEW t \in TradeRow, Ends(f[i - 1], f[i], t) PROVE f[i].trades = Append(f[i - 1].trades, t)
    <3> PICK old : old = f[i - 1]
      OBVIOUS
    <3>1. old \in Accs /\ f[i] = With(old, t)
      BY <2>2, <2>4 DEF Ends
    <3>2. With(old, t).trades = Append(old.trades, t)
      BY ONLY <3>1, WithIs, t \in TradeRow
    <3> QED
      BY ONLY <3>1, <3>2, old = f[i - 1]
  <2>5. ASSUME NEW p \in PositionRow, Opens(f[i - 1], f[i], p) PROVE f[i].trades = f[i - 1].trades
    BY <2>2, <2>5 DEF Opens, Accs
  <2>6. \/ f[i] = f[i - 1]
        \/ \E t \in TradeRow : Ends(f[i - 1], f[i], t)
        \/ \E p \in PositionRow : Opens(f[i - 1], f[i], p)
    <3>1. Moves(f[i - 1], f[i], i, candles, cfg)
      BY <2>1, <2>2, StepIs
    <3> QED
      BY <3>1 DEF Moves
  <2>7. ASSUME f[i].trades = f[i - 1].trades PROVE Begins(f[i - 1].trades, f[i].trades)
    BY <2>3, <2>7, BeginsSame
  <2>8. ASSUME NEW t \in TradeRow, Ends(f[i - 1], f[i], t) PROVE Begins(f[i - 1].trades, f[i].trades)
    <3>1. f[i].trades = Append(f[i - 1].trades, t)
      BY <2>4, <2>8
    <3>2. Begins(f[i - 1].trades, Append(f[i - 1].trades, t))
      BY <2>3, BeginsAppend
    <3> QED
      BY <3>1, <3>2
  <2>9. Begins(f[i - 1].trades, f[i].trades)
    <3>1. CASE f[i] = f[i - 1]
      BY <2>7, <3>1
    <3>2. CASE \E t \in TradeRow : Ends(f[i - 1], f[i], t)
      BY <2>8, <3>2
    <3>3. CASE \E p \in PositionRow : Opens(f[i - 1], f[i], p)
      BY <2>5, <2>7, <3>3
    <3> QED
      BY <2>6, <3>1, <3>2, <3>3
  <2> QED
    BY <2>1, <2>9
<1> DEFINE T == {i \in 0..m : n <= i => Begins(f[n].trades, f[i].trades)}
<1>4. ASSUME NEW i \in 0..m, i <= n PROVE i \in T
  <2>1. n \in 0..m /\ f[n].trades \in Seq(TradeRow)
    BY <1>2
  <2>2. Begins(f[n].trades, f[n].trades)
    BY <2>1 DEF Begins
  <2>3. n <= i => i = n
    BY <1>1, <1>4, <2>1
  <2> QED
    BY <2>2, <2>3
<1>5. ASSUME NEW i \in 1..m, i - 1 \in T PROVE i \in T
  <2>1. CASE i <= n
    BY <1>1, <1>4, <2>1
  <2>2. CASE ~(i <= n)
    <3>1. i \in 0..m /\ i - 1 \in 0..m /\ n \in 0..m /\ n <= i - 1
      BY <1>1, <2>2
    <3>2. Begins(f[n].trades, f[i - 1].trades) /\ Begins(f[i - 1].trades, f[i].trades)
      BY <1>3, <1>5, <3>1
    <3>3. f[n].trades \in Seq(TradeRow) /\ f[i - 1].trades \in Seq(TradeRow) /\ f[i].trades \in Seq(TradeRow)
      BY <1>2, <3>1
    <3>4. Begins(f[n].trades, f[i].trades)
      BY ONLY <3>2, <3>3, BeginsThrough
    <3> QED
      BY <3>1, <3>4
  <2> QED
    BY <2>1, <2>2
<1>6. \A i \in 0..m : i \in T
  <2>1. 0 \in T
    BY <1>1, <1>4
  <2> HIDE DEF T
  <2> QED
    BY <1>1, <1>5, <2>1, UpTo
<1> QED
  BY <1>6

\* The trades that candles of the tape have ended stand at the beginning of a report.
LEMMA FinalIs ==
    ASSUME NEW candles \in Seq(Bars), NEW cfg \in Params,
           NEW end, end = After(candles, cfg)[Len(candles)], NEW r, r = Simulate(candles, cfg)
    PROVE  /\ Final(r.trades) = << >> \/ (Final(r.trades) = end.trades /\ ~TooFew(candles, cfg))
           /\ ~TooFew(candles, cfg) => Begins(end.trades, r.trades)
<1>1. Good(end, cfg, Len(candles)) /\ end \in Accs
  BY AfterGood
<1>2. end.trades \in Seq(TradeRow) /\ \A i \in 1..Len(end.trades) : end.trades[i].reason # "end_of_data"
  BY <1>1 DEF Good, Settles, Accs
<1>3. Final(end.trades) = end.trades
  <2>1. end.trades # << >> => Last(end.trades).reason # "end_of_data"
    BY <1>2 DEF Last
  <2> QED
    BY <2>1 DEF Final
<1>4. Final(<< >>) = << >>
  BY DEF Final
<1>5. ASSUME NEW t \in TradeRow, t.reason = "end_of_data" PROVE Final(Append(end.trades, t)) = end.trades
  <2> PICK s : s = Append(end.trades, t)
    OBVIOUS
  <2>1. s # << >> /\ Len(s) = Len(end.trades) + 1 /\ s[Len(end.trades) + 1] = t
    BY <1>2
  <2>2. SubSeq(s, 1, Len(s) - 1) = end.trades
    BY <1>2
  <2>3. Last(s).reason = "end_of_data"
    BY <1>5, <2>1 DEF Last
  <2> QED
    BY <2>1, <2>2, <2>3 DEF Final
<1>6. ASSUME NEW t \in TradeRow, t.reason = "end_of_data", r.trades = Append(end.trades, t)
      PROVE  Final(r.trades) = end.trades /\ Begins(end.trades, r.trades)
  <2>1. Begins(end.trades, Append(end.trades, t))
    BY <1>2, BeginsAppend
  <2> QED
    BY <1>5, <1>6, <2>1
<1>7. ASSUME r.trades = end.trades PROVE Final(r.trades) = end.trades /\ Begins(end.trades, r.trades)
  BY <1>2, <1>3, <1>7, BeginsSame
<1>8. Concludes(r, end, candles, cfg)
  BY SimulateIs
<1>9. CASE TooFew(candles, cfg) /\ r.trades = << >>
  BY <1>4, <1>9
<1>10. CASE ~TooFew(candles, cfg) /\ r.trades = end.trades
  BY <1>7, <1>10
<1>11. CASE ~TooFew(candles, cfg) /\ \E t \in TradeRow : t.reason = "end_of_data" /\ r.trades = Append(end.trades, t)
  <2>1. PICK t \in TradeRow : t.reason = "end_of_data" /\ r.trades = Append(end.trades, t)
    BY <1>11
  <2> QED
    BY <1>6, <1>11, <2>1
<1> QED
  BY <1>8, <1>9, <1>10, <1>11 DEF Concludes

LEMMA LaterReport ==
    ASSUME NEW a \in Seq(Bars), NEW b \in Seq(Bars), Begins(a, b), NEW cfg \in Params
    PROVE  IsPrefix(Final(Simulate(a, cfg).trades), Simulate(b, cfg).trades)
<1> PICK m : m = Len(a)
  OBVIOUS
<1> PICK n : n = Len(b)
  OBVIOUS
<1>1. m \in Nat /\ n \in Nat /\ m <= n
  BY DEF Begins
<1> PICK x : x = After(b, cfg)[m]
  OBVIOUS
<1> PICK y : y = After(b, cfg)[n]
  OBVIOUS
<1> PICK r : r = Simulate(a, cfg)
  OBVIOUS
<1> PICK q : q = Simulate(b, cfg)
  OBVIOUS
<1>2. x = After(a, cfg)[m] /\ x \in Accs
  BY <1>1, SamePast, AfterGood
<1>3. Begins(x.trades, y.trades)
  BY <1>1, TradesGrow
<1>4. y \in Accs /\ q.trades \in Seq(TradeRow)
  BY <1>1, AfterGood, SimulateIs DEF Ordered
<1>5. x.trades \in Seq(TradeRow) /\ y.trades \in Seq(TradeRow)
  BY <1>2, <1>4 DEF Accs
<1>6. \/ Final(r.trades) = << >>
      \/ Final(r.trades) = x.trades /\ ~TooFew(a, cfg)
  BY <1>2, FinalIs
<1>7. ~TooFew(b, cfg) => Begins(y.trades, q.trades)
  BY FinalIs
<1>8. CASE Final(r.trades) = << >>
  <2>1. << >> \in Seq(TradeRow) /\ Begins(<< >>, q.trades)
    BY <1>4 DEF Begins
  <2> QED
    BY <1>4, <1>8, <2>1, PrefixIs
<1>9. CASE Final(r.trades) = x.trades /\ ~TooFew(a, cfg)
  <2>1. ~TooFew(b, cfg)
    <3>1. Bigger(cfg.slow, cfg.rsi) \in Nat
      BY DEF Params, Bigger
    <3> QED
      BY <1>1, <1>9, <3>1 DEF TooFew
  <2>2. Begins(x.trades, q.trades)
    BY <1>3, <1>4, <1>5, <1>7, <2>1, BeginsThrough
  <2> QED
    BY <1>4, <1>5, <1>9, <2>2, PrefixIs
<1> QED
  BY <1>6, <1>8, <1>9

-----------------------------------------------------------------------------
(* The metrics. *)

LEMMA MaxIs ==
    ASSUME NEW S \in SUBSET Int, NEW x \in S, \A y \in S : y <= x PROVE Max(S) = x
<1>1. \A y \in S : x >= y
  OBVIOUS
<1>2. \E z \in S : \A y \in S : z >= y
  BY <1>1
<1> PICK max : max = Max(S)
  OBVIOUS
<1>3. max \in S /\ \A y \in S : max >= y
  BY <1>2 DEF Max
<1>4. max >= x /\ max <= x /\ max \in Int /\ x \in Int
  BY <1>3
<1> QED
  BY <1>4

LEMMA MinIs ==
    ASSUME NEW S \in SUBSET Int, NEW x \in S, \A y \in S : x <= y PROVE Min(S) = x
<1>1. \E z \in S : \A y \in S : z <= y
  OBVIOUS
<1> PICK min : min = Min(S)
  OBVIOUS
<1>2. min \in S /\ \A y \in S : min <= y
  BY <1>1 DEF Min
<1>3. min >= x /\ min <= x /\ min \in Int /\ x \in Int
  BY <1>2
<1> QED
  BY <1>3

\* After n points: the highest and the deepest fall.
Falls == [peak : Int, worst : Int]
Seen(n) == 1..Bigger(n, 1)
Measures(curve, n, d) ==
    /\ d \in Falls
    /\ \E i \in Seen(n) : d.peak = curve[i]
    /\ \A i \in Seen(n) : curve[i] <= d.peak
    /\ \E i, j \in Seen(n) : i <= j /\ d.worst = curve[i] - curve[j]
    /\ \A i, j \in Seen(n) : i <= j => curve[i] - curve[j] <= d.worst
FallsUpTo(curve, m, f) ==
    f = [n \in 0..m |-> IF n = 0 THEN [peak |-> curve[1], worst |-> 0] ELSE Falling(f[n - 1], curve[n])]

LEMMA FallingIs ==
    ASSUME NEW curve \in Seq(Int), NEW n \in 1..Len(curve), NEW d, Measures(curve, n - 1, d)
    PROVE  Measures(curve, n, Falling(d, curve[n]))
<1> PICK x : x = curve[n]
  OBVIOUS
<1> PICK e : e = Falling(d, x)
  OBVIOUS
<1>1. n \in Nat /\ n >= 1 /\ x \in Int /\ d.peak \in Int /\ d.worst \in Int
  BY DEF Measures, Falls
<1>2. Seen(n) = 1..n
  BY <1>1 DEF Seen, Bigger
<1>3. \A i \in 1..n : curve[i] \in Int
  OBVIOUS
<1>4. /\ \E i \in 1..n : d.peak = curve[i]
      /\ \A i \in 1..(n - 1) : curve[i] <= d.peak
      /\ \E i, j \in 1..n : i <= j /\ d.worst = curve[i] - curve[j]
      /\ \A i, j \in 1..(n - 1) : i <= j => curve[i] - curve[j] <= d.worst
  <2>1. Seen(n - 1) \subseteq 1..n /\ 1..(n - 1) \subseteq Seen(n - 1)
    BY <1>1 DEF Seen, Bigger
  <2> QED
    BY <2>1 DEF Measures
<1>5. d.worst >= 0
  <2>1. 1 \in Seen(n - 1) /\ curve[1] \in Int
    BY <1>1, <1>3 DEF Seen, Bigger
  <2>2. curve[1] - curve[1] <= d.worst
    BY <2>1 DEF Measures
  <2> QED
    BY <1>1, <2>1, <2>2
<1> PICK peak : peak = Bigger(d.peak, x)
  OBVIOUS
<1>6. e = [peak |-> peak, worst |-> Bigger(d.worst, peak - x)]
  BY DEF Falling
<1>7. peak \in Int /\ peak >= x /\ peak >= d.peak /\ (peak = x \/ peak = d.peak)
  BY <1>1 DEF Bigger
<1>8. e \in Falls /\ e.peak = peak /\ e.worst >= d.worst /\ e.worst >= peak - x
      /\ (e.worst = d.worst \/ e.worst = peak - x) /\ e.worst \in Int
  BY <1>1, <1>6, <1>7 DEF Bigger, Falls
<1>9. \E i \in 1..n : peak = curve[i]
  BY <1>1, <1>4, <1>7
<1>10. ASSUME NEW i \in 1..n PROVE curve[i] <= peak
  <2>1. i \in 1..(n - 1) => curve[i] <= d.peak
    BY <1>4
  <2>2. i = n => curve[i] = x
    OBVIOUS
  <2> QED
    BY <1>1, <1>3, <1>7, <2>1, <2>2
<1>11. \E i, j \in 1..n : i <= j /\ e.worst = curve[i] - curve[j]
  <2>1. CASE e.worst = d.worst
    BY <1>4, <2>1
  <2>2. CASE e.worst = peak - x
    <3>1. PICK i \in 1..n : peak = curve[i]
      BY <1>9
    <3>2. i <= n /\ n \in 1..n /\ e.worst = curve[i] - curve[n]
      BY <1>1, <2>2, <3>1
    <3> QED
      BY <3>2
  <2> QED
    BY <1>8, <2>1, <2>2
<1>12. ASSUME NEW i \in 1..n, NEW j \in 1..n, i <= j PROVE curve[i] - curve[j] <= e.worst
  <2>1. curve[i] \in Int /\ curve[j] \in Int
    BY <1>3
  <2>2. CASE j = n
    <3>1. curve[j] = x /\ curve[i] <= peak
      BY <1>10, <2>2
    <3> QED
      BY <1>1, <1>7, <1>8, <2>1, <3>1
  <2>3. CASE j # n
    <3>1. i \in 1..(n - 1) /\ j \in 1..(n - 1)
      BY <1>1, <1>12, <2>3
    <3>2. curve[i] - curve[j] <= d.worst
      BY <1>4, <1>12, <3>1
    <3>3. curve[i] - curve[j] \in Int
      BY <2>1
    <3> QED
      BY ONLY <1>1, <1>8, <3>2, <3>3
  <2> QED
    BY <2>2, <2>3
<1> QED
  BY <1>2, <1>8, <1>9, <1>10, <1>11, <1>12 DEF Measures

LEMMA DrawdownIs ==
    ASSUME NEW curve \in Seq(Int), curve # << >>
    PROVE  \E d : Measures(curve, Len(curve), d) /\ MaxDrawdown(curve) = d.worst
<1> PICK m : m = Len(curve)
  OBVIOUS
<1>1. m \in Nat /\ m >= 1 /\ 1 \in 1..m /\ \A n \in 1..m : curve[n] \in Int
  OBVIOUS
<1> PICK x : x = [peak |-> curve[1], worst |-> 0]
  OBVIOUS
<1>2. x \in Falls /\ \A d \in Falls : \A n \in 1..m : Falling(d, curve[n]) \in Falls
  BY <1>1 DEF Falls, Falling, Bigger
<1> DEFINE acc == CHOOSE f : FallsUpTo(curve, m, f)
           G == [n \in 1..m |-> [v \in Falls |-> Falling(v, curve[n])]]
<1>3. G \in [1..m -> [Falls -> Falls]] /\ \A n \in 1..m : \A v \in Falls : G[n][v] = Falling(v, curve[n])
  BY <1>2
<1> HIDE DEF G
<1>4. PICK f \in [0..m -> Falls] : f[0] = x /\ \A n \in 1..m : f[n] = G[n][f[n - 1]]
  <2>1. Steps(m, Falls, x, G)
    BY <1>1, <1>2, <1>3 DEF Steps
  <2>2. \E f : Follows(m, Falls, x, G, f)
    BY ONLY <2>1, Recursion
  <2> QED
    BY <2>2 DEF Follows
<1>5. \A n \in 1..m : f[n] = Falling(f[n - 1], curve[n])
  <2> SUFFICES ASSUME NEW n \in 1..m PROVE f[n] = Falling(f[n - 1], curve[n])
    OBVIOUS
  <2>1. n - 1 \in 0..m
    BY <1>1
  <2>2. f[n - 1] \in Falls
    BY <2>1
  <2> QED
    BY <1>3, <1>4, <2>2
<1>6. FallsUpTo(curve, m, f)
  <2>1. \A n \in 0..m : f[n] = IF n = 0 THEN x ELSE Falling(f[n - 1], curve[n])
    BY <1>1, <1>4, <1>5
  <2> QED
    BY <2>1 DEF FallsUpTo
<1>7. FallsUpTo(curve, m, acc)
  BY <1>6
<1>8. MaxDrawdown(curve) = acc[m].worst
  BY DEF MaxDrawdown, Drawdowns, FallsUpTo
<1> HIDE DEF acc
<1>9. acc = [n \in 0..m |-> IF n = 0 THEN x ELSE Falling(acc[n - 1], curve[n])]
  BY <1>7 DEF FallsUpTo
<1> DEFINE T == {n \in 0..m : Measures(curve, n, acc[n])}
<1>10. 0 \in T
  <2>1. acc[0] = x /\ x.peak = curve[1] /\ x.worst = 0 /\ Seen(0) = {1} /\ 0 \in 0..m
    BY <1>1, <1>9 DEF Seen, Bigger
  <2>2. Measures(curve, 0, x)
    BY <1>1, <1>2, <2>1 DEF Measures
  <2> QED
    BY <2>1, <2>2
<1>11. ASSUME NEW n \in 1..m, n - 1 \in T PROVE n \in T
  <2>1. \A k \in 0..m : acc[k] = IF k = 0 THEN x ELSE Falling(acc[k - 1], curve[k])
    BY ONLY <1>9
  <2>2. n \in 0..m /\ n # 0
    BY <1>1
  <2>3. acc[n] = Falling(acc[n - 1], curve[n])
    BY ONLY <2>1, <2>2
  <2>4. Measures(curve, n - 1, acc[n - 1])
    BY <1>11
  <2>5. Measures(curve, n, Falling(acc[n - 1], curve[n]))
    BY <2>4, FallingIs
  <2> QED
    BY <2>2, <2>3, <2>5
<1>12. \A n \in 0..m : n \in T
  <2> HIDE DEF T
  <2> QED
    BY <1>1, <1>10, <1>11, UpTo
<1>13. Measures(curve, m, acc[m])
  BY <1>1, <1>12
<1> QED
  BY <1>8, <1>13

\* k losses in a row from trade i on; after n trades, the present run and the longest.
Row(pnls, i, k) == \A j \in i..(i + k - 1) : pnls[j] < 0
Runs == [run : Nat, best : Nat]
Ending(pnls, n, run) == run <= n /\ Row(pnls, n - run + 1, run) /\ (run < n => ~(pnls[n - run] < 0))
Longest(pnls, n, best) ==
    /\ best <= n /\ \E i \in 1..(n - best + 1) : Row(pnls, i, best)
    /\ \A k \in 0..n : \A i \in 1..(n - k + 1) : Row(pnls, i, k) => k <= best
StreaksUpTo(pnls, m, f) ==
    f = [n \in 0..m |-> IF n = 0 THEN [run |-> 0, best |-> 0] ELSE Longer(f[n - 1], pnls[n])]

LEMMA EndingGrows ==
    ASSUME NEW pnls \in Seq(Int), NEW n \in 1..Len(pnls), NEW run \in Nat, Ending(pnls, n - 1, run)
    PROVE  Ending(pnls, n, IF pnls[n] < 0 THEN run + 1 ELSE 0)
<1>1. n \in Nat /\ n >= 1 /\ run <= n - 1
  BY DEF Ending
<1>2. CASE pnls[n] < 0
  <2>1. ASSUME NEW j \in (n - (run + 1) + 1)..((n - (run + 1) + 1) + (run + 1) - 1) PROVE pnls[j] < 0
    <3>1. CASE j = n
      BY <1>2, <3>1
    <3>2. CASE j # n
      <4>1. j \in (n - 1 - run + 1)..((n - 1 - run + 1) + run - 1)
        BY <1>1, <3>2
      <4> QED
        BY <4>1 DEF Ending, Row
    <3> QED
      BY <3>1, <3>2
  <2>2. run + 1 < n => ~(pnls[n - (run + 1)] < 0)
    <3>1. n - (run + 1) = n - 1 - run /\ (run + 1 < n => run < n - 1)
      BY <1>1
    <3> QED
      BY <3>1 DEF Ending
  <2>3. Row(pnls, n - (run + 1) + 1, run + 1)
    BY <2>1 DEF Row
  <2>4. Ending(pnls, n, run + 1)
    BY <1>1, <2>2, <2>3 DEF Ending
  <2> QED
    BY <1>2, <2>4
<1>3. CASE ~(pnls[n] < 0)
  <2>1. Row(pnls, n - 0 + 1, 0)
    BY <1>1 DEF Row
  <2>2. n - 0 = n
    BY <1>1
  <2>3. Ending(pnls, n, 0)
    BY <1>1, <1>3, <2>1, <2>2 DEF Ending
  <2> QED
    BY <1>3, <2>3
<1> QED
  BY <1>2, <1>3

LEMMA LongestGrows ==
    ASSUME NEW pnls \in Seq(Int), NEW n \in 1..Len(pnls), NEW best \in Nat, Longest(pnls, n - 1, best),
           NEW run \in Nat, Ending(pnls, n, run)
    PROVE  Longest(pnls, n, Bigger(best, run))
<1> PICK b : b = Bigger(best, run)
  OBVIOUS
<1>1. n \in Nat /\ n >= 1 /\ best <= n - 1 /\ run <= n /\ b \in Nat /\ b >= best /\ b >= run /\ (b = best \/ b = run)
  BY DEF Longest, Ending, Bigger
<1>2. \E i \in 1..(n - b + 1) : Row(pnls, i, b)
  <2>1. CASE b = best
    <3>1. PICK i \in 1..(n - 1 - best + 1) : Row(pnls, i, best)
      BY DEF Longest
    <3>2. i \in 1..(n - b + 1)
      BY <1>1, <2>1, <3>1
    <3> QED
      BY <2>1, <3>1, <3>2
  <2>2. CASE b = run
    <3>1. n - run + 1 \in 1..(n - b + 1) /\ Row(pnls, n - run + 1, run)
      BY <1>1, <2>2 DEF Ending
    <3> QED
      BY <2>2, <3>1
  <2> QED
    BY <1>1, <2>1, <2>2
<1>3. ASSUME NEW k \in 0..n, NEW i \in 1..(n - k + 1), Row(pnls, i, k) PROVE k <= b
  <2>1. CASE i + k - 1 <= n - 1
    <3>1. k \in 0..(n - 1) /\ i \in 1..(n - 1 - k + 1)
      BY <1>1, <2>1
    <3>2. k <= best
      BY <1>3, <3>1 DEF Longest
    <3> QED
      BY <1>1, <3>2
  <2>2. CASE ~(i + k - 1 <= n - 1)
    <3>1. i = n - k + 1
      BY <1>1, <2>2
    <3>2. ASSUME k > run PROVE FALSE
      <4>1. run < n /\ n - run \in i..(i + k - 1)
        BY <1>1, <3>1, <3>2
      <4>2. ~(pnls[n - run] < 0)
        BY <4>1 DEF Ending
      <4>3. pnls[n - run] < 0
        BY <1>3, <4>1 DEF Row
      <4> QED
        BY <4>2, <4>3
    <3> QED
      BY <1>1, <3>2
  <2> QED
    BY <2>1, <2>2
<1> QED
  BY <1>1, <1>2, <1>3 DEF Longest

LEMMA StreakIs ==
    ASSUME NEW pnls \in Seq(Int)
    PROVE  LongestStreak(pnls) \in Nat /\ Longest(pnls, Len(pnls), LongestStreak(pnls))
<1> PICK m : m = Len(pnls)
  OBVIOUS
<1>1. m \in Nat /\ \A n \in 1..m : pnls[n] \in Int
  OBVIOUS
<1> PICK x : x = [run |-> 0, best |-> 0]
  OBVIOUS
<1>2. x \in Runs /\ \A d \in Runs : \A n \in 1..m : Longer(d, pnls[n]) \in Runs
  BY <1>1 DEF Runs, Longer, Bigger
<1> DEFINE acc == CHOOSE f : StreaksUpTo(pnls, m, f)
           G == [n \in 1..m |-> [v \in Runs |-> Longer(v, pnls[n])]]
<1>3. G \in [1..m -> [Runs -> Runs]] /\ \A n \in 1..m : \A v \in Runs : G[n][v] = Longer(v, pnls[n])
  BY <1>2
<1> HIDE DEF G
<1>4. PICK f \in [0..m -> Runs] : f[0] = x /\ \A n \in 1..m : f[n] = G[n][f[n - 1]]
  <2>1. Steps(m, Runs, x, G)
    BY <1>1, <1>2, <1>3 DEF Steps
  <2>2. \E f : Follows(m, Runs, x, G, f)
    BY ONLY <2>1, Recursion
  <2> QED
    BY <2>2 DEF Follows
<1>5. \A n \in 1..m : f[n] = Longer(f[n - 1], pnls[n])
  <2> SUFFICES ASSUME NEW n \in 1..m PROVE f[n] = Longer(f[n - 1], pnls[n])
    OBVIOUS
  <2>1. n - 1 \in 0..m
    BY <1>1
  <2>2. f[n - 1] \in Runs
    BY <2>1
  <2> QED
    BY <1>3, <1>4, <2>2
<1>6. StreaksUpTo(pnls, m, f)
  <2>1. \A n \in 0..m : f[n] = IF n = 0 THEN x ELSE Longer(f[n - 1], pnls[n])
    BY <1>1, <1>4, <1>5
  <2> QED
    BY <2>1 DEF StreaksUpTo
<1>7. StreaksUpTo(pnls, m, acc)
  BY <1>6
<1>8. LongestStreak(pnls) = acc[m].best
  BY DEF LongestStreak, Streaks, StreaksUpTo
<1> HIDE DEF acc
<1>9. acc = [n \in 0..m |-> IF n = 0 THEN x ELSE Longer(acc[n - 1], pnls[n])]
  BY <1>7 DEF StreaksUpTo
<1> DEFINE T == {n \in 0..m : acc[n] \in Runs /\ Ending(pnls, n, acc[n].run) /\ Longest(pnls, n, acc[n].best)}
<1>10. 0 \in T
  <2>1. acc[0] = x /\ x.run = 0 /\ x.best = 0 /\ 0 \in 0..m
    BY <1>1, <1>9
  <2>2. \A i : Row(pnls, i, 0) \/ i \notin Int
    BY DEF Row
  <2>3. Ending(pnls, 0, 0)
    BY <2>2 DEF Ending
  <2>4. Longest(pnls, 0, 0)
    BY <2>2 DEF Longest
  <2> QED
    BY <1>2, <2>1, <2>3, <2>4
<1>11. ASSUME NEW n \in 1..m, n - 1 \in T PROVE n \in T
  <2>1. \A k \in 0..m : acc[k] = IF k = 0 THEN x ELSE Longer(acc[k - 1], pnls[k])
    BY ONLY <1>9
  <2>2. n \in 0..m /\ n # 0
    BY <1>1
  <2> PICK old : old = acc[n - 1]
    OBVIOUS
  <2> PICK run : run = IF pnls[n] < 0 THEN old.run + 1 ELSE 0
    OBVIOUS
  <2>3. acc[n] = Longer(old, pnls[n])
    BY ONLY <2>1, <2>2, old = acc[n - 1]
  <2>4. old \in Runs /\ Ending(pnls, n - 1, old.run) /\ Longest(pnls, n - 1, old.best)
    BY <1>11
  <2>5. acc[n] = [run |-> run, best |-> Bigger(old.best, run)]
    BY <2>3 DEF Longer
  <2>6. old.run \in Nat /\ old.best \in Nat /\ run \in Nat
    BY <2>4 DEF Runs
  <2>7. Ending(pnls, n, run)
    BY <2>4, <2>6, EndingGrows
  <2>8. Longest(pnls, n, Bigger(old.best, run))
    BY <2>4, <2>6, <2>7, LongestGrows
  <2>9. acc[n] \in Runs
    BY <2>5, <2>6 DEF Runs, Bigger
  <2> QED
    BY <2>2, <2>5, <2>7, <2>8, <2>9
<1>12. \A n \in 0..m : n \in T
  <2> HIDE DEF T
  <2> QED
    BY <1>1, <1>10, <1>11, UpTo
<1>13. acc[m] \in Runs /\ Longest(pnls, m, acc[m].best)
  BY <1>1, <1>12
<1> QED
  BY <1>8, <1>13 DEF Runs

-----------------------------------------------------------------------------
(* Shuffles. *)

Dropped(s, k) == [i \in 1..(Len(s) - 1) |-> IF i < k THEN s[i] ELSE s[i + 1]]

LEMMA Skipped ==
    ASSUME NEW a \in Int, NEW x \in Int, NEW y \in Int, NEW b, b = a + x, NEW c, c = b + y, NEW d, d = a + y
    PROVE  d = c - x
OBVIOUS

LEMMA DroppedIs ==
    ASSUME NEW s \in Seq(Int), NEW k \in 1..Len(s)
    PROVE  /\ Dropped(s, k) \in Seq(Int) /\ Len(Dropped(s, k)) = Len(s) - 1 /\ Len(s) - 1 \in Nat
           /\ Total(s) = Total(Dropped(s, k)) + s[k]
<1> PICK m : m = Len(s)
  OBVIOUS
<1> PICK t : t = Dropped(s, k)
  OBVIOUS
<1>1. m \in Nat /\ m - 1 \in Nat /\ k \in Nat /\ k >= 1 /\ k <= m /\ \A i \in 1..m : s[i] \in Int
  OBVIOUS
<1>2. t = [i \in 1..(m - 1) |-> IF i < k THEN s[i] ELSE s[i + 1]]
  BY DEF Dropped
<1>3. \A i \in 1..(m - 1) : t[i] = (IF i < k THEN s[i] ELSE s[i + 1]) /\ t[i] \in Int
  BY <1>1, <1>2
<1>4. t \in Seq(Int) /\ Len(t) = m - 1
  <2>1. t \in [1..(m - 1) -> Int]
    BY <1>2, <1>3
  <2> QED
    BY <1>1, <2>1, AsSeq
<1> PICK f : f = Sums(s)
  OBVIOUS
<1> PICK g : g = Sums(t)
  OBVIOUS
<1>5. Adds(s, m, f) /\ Total(s) = f[m]
  BY SumsAre
<1>6. Adds(t, m - 1, g) /\ Total(t) = g[m - 1] /\ Total(t) \in Int
  BY <1>4, SumsAre
<1>7. f[0] = 0 /\ g[0] = 0
  BY <1>5, <1>6 DEF Adds
<1>8. \A n \in 1..m : f[n] = f[n - 1] + s[n] /\ f[n - 1] \in Int /\ f[n] \in Int /\ s[n] \in Int
  BY <1>5 DEF Adds
<1>9. \A n \in 1..(m - 1) : g[n] = g[n - 1] + t[n] /\ g[n - 1] \in Int
  BY <1>6 DEF Adds
<1> DEFINE T == {n \in 0..(m - 1) : g[n] = IF n < k THEN f[n] ELSE f[n + 1] - s[k]}
<1>10. 0 \in T
  BY <1>1, <1>7
<1>11. ASSUME NEW n \in 1..(m - 1), n - 1 \in T PROVE n \in T
  <2>1. n \in 1..m /\ n + 1 \in 1..m /\ n \in 0..(m - 1)
    BY <1>1
  <2>2. f[n] = f[n - 1] + s[n] /\ f[n - 1] \in Int /\ f[n] \in Int /\ s[n] \in Int
    BY <1>8, <2>1
  <2>3. f[n + 1] = f[n] + s[n + 1] /\ f[n + 1] \in Int /\ s[n + 1] \in Int
    BY <1>8, <2>1
  <2>4. g[n] = g[n - 1] + t[n] /\ g[n - 1] = (IF n - 1 < k THEN f[n - 1] ELSE f[n] - s[k])
    BY <1>9, <1>11, <2>1
  <2>5. s[k] \in Int
    BY <1>1
  <2>6. CASE n < k
    <3>1. t[n] = s[n]
      BY <1>3, <2>6
    <3> QED
      BY <1>1, <2>1, <2>2, <2>4, <2>6, <3>1
  <2>7. CASE n = k
    <3>1. t[n] = s[n + 1] /\ s[k] = s[n]
      BY <1>1, <1>3, <2>7
    <3>2. g[n - 1] = f[n - 1]
      BY <1>1, <2>1, <2>4, <2>7
    <3>3. g[n] = f[n + 1] - s[n]
      <4> PICK a, x, y, b, c, d : /\ a = f[n - 1] /\ x = s[n] /\ y = s[n + 1]
                                  /\ b = f[n] /\ c = f[n + 1] /\ d = g[n]
        OBVIOUS
      <4>1. a \in Int /\ x \in Int /\ y \in Int /\ b = a + x /\ c = b + y /\ d = a + y
        BY <2>2, <2>3, <2>4, <3>1, <3>2
      <4>2. d = c - x
        BY ONLY <4>1, Skipped
      <4> QED
        BY <4>2
    <3> QED
      BY <1>1, <2>1, <2>7, <3>1, <3>3
  <2>8. CASE n > k
    <3>1. t[n] = s[n + 1]
      BY <1>1, <1>3, <2>8
    <3>2. ~(n - 1 < k) /\ ~(n < k)
      BY <1>1, <2>8
    <3> QED
      BY <2>1, <2>2, <2>3, <2>4, <2>5, <3>1, <3>2
  <2> QED
    BY <1>1, <2>6, <2>7, <2>8
<1>12. \A n \in 0..(m - 1) : n \in T
  <2> HIDE DEF T
  <2> QED
    BY <1>1, <1>10, <1>11, UpTo
<1>13. g[m - 1] = f[m] - s[k]
  <2>1. g[m - 1] = IF m - 1 < k THEN f[m - 1] ELSE f[m] - s[k]
    BY <1>1, <1>12
  <2>2. m \in 1..m /\ (m - 1 < k => k = m)
    BY <1>1
  <2> QED
    BY <1>8, <2>1, <2>2
<1>14. f[m] \in Int /\ s[k] \in Int
  <2>1. m \in 1..m
    BY <1>1
  <2> QED
    BY <1>1, <1>8, <2>1
<1> QED
  BY <1>1, <1>4, <1>5, <1>6, <1>13, <1>14

Shuffles(s, order, m, w) ==
    w \in Seq(Int) /\ Len(w) = m /\ \A i \in 1..m : w[i] = s[order[i]] /\ order[i] \in 1..m

LEMMA ShuffledIs ==
    ASSUME NEW s \in Seq(Int), NEW order, order \in Orders(Len(s))
    PROVE  Shuffles(s, order, Len(s), Shuffled(s, order))
<1>1. Len(s) \in Nat /\ DOMAIN s = 1..Len(s) /\ \A i \in 1..Len(s) : s[i] \in Int
  OBVIOUS
<1>2. order \in [1..Len(s) -> 1..Len(s)]
  BY DEF Orders
<1>3. Shuffled(s, order) = [i \in 1..Len(s) |-> s[order[i]]]
  BY <1>1 DEF Shuffled
<1>4. \A i \in 1..Len(s) : order[i] \in 1..Len(s) /\ s[order[i]] \in Int
  BY <1>1, <1>2
<1>5. Shuffled(s, order) \in [1..Len(s) -> Int]
  BY <1>3, <1>4
<1>6. Shuffled(s, order) \in Seq(Int) /\ Len(Shuffled(s, order)) = Len(s)
  BY <1>1, <1>5, AsSeq
<1>7. \A i \in 1..Len(s) : Shuffled(s, order)[i] = s[order[i]]
  BY <1>3
<1> QED
  BY <1>4, <1>6, <1>7 DEF Shuffles

LEMMA Lowered ==
    ASSUME NEW m \in Nat, NEW x \in 1..m, NEW k \in 1..m, x # k, NEW y, y = IF x < k THEN x ELSE x - 1
    PROVE  y \in 1..(m - 1) /\ (x < k => y = x /\ y < k) /\ (~(x < k) => ~(y < k) /\ y + 1 = x)
OBVIOUS

\* The order of the others, when the last place is taken away.
Rest(order, m) == [i \in 1..(m - 1) |-> IF order[i] < order[m] THEN order[i] ELSE order[i] - 1]

LEMMA RestIs ==
    ASSUME NEW m \in Nat, m >= 1, NEW order \in Orders(m)
    PROVE  Rest(order, m) \in Orders(m - 1)
<1> PICK k : k = order[m]
  OBVIOUS
<1> PICK o : o = Rest(order, m)
  OBVIOUS
<1>1. m \in 1..m /\ m - 1 \in Nat /\ order \in [1..m -> 1..m]
      /\ \A i, j \in 1..m : i # j => order[i] # order[j]
  BY DEF Orders
<1>2. k \in 1..m /\ o = [i \in 1..(m - 1) |-> IF order[i] < k THEN order[i] ELSE order[i] - 1]
  BY <1>1 DEF Rest
<1>3. ASSUME NEW i \in 1..(m - 1)
      PROVE  /\ i \in 1..m /\ order[i] \in 1..m /\ order[i] # k /\ o[i] \in 1..(m - 1)
             /\ o[i] = IF order[i] < k THEN order[i] ELSE order[i] - 1
  <2>1. i \in 1..m /\ i # m
    BY <1>1
  <2>2. order[i] \in 1..m /\ order[i] # k
    BY <1>1, <2>1
  <2>3. o[i] = IF order[i] < k THEN order[i] ELSE order[i] - 1
    BY <1>2
  <2>4. o[i] \in 1..(m - 1)
    BY <1>2, <2>2, <2>3, Lowered
  <2> QED
    BY <2>1, <2>2, <2>3, <2>4
<1>4. o \in [1..(m - 1) -> 1..(m - 1)]
  BY <1>2, <1>3
<1>5. ASSUME NEW i \in 1..(m - 1), NEW j \in 1..(m - 1), i # j PROVE o[i] # o[j]
  <2>1. order[i] # order[j]
    BY <1>1, <1>3, <1>5
  <2>2. order[i] \in 1..m /\ order[j] \in 1..m /\ k \in 1..m /\ order[i] # k /\ order[j] # k
    BY <1>2, <1>3
  <2>3. o[i] = (IF order[i] < k THEN order[i] ELSE order[i] - 1)
        /\ o[j] = (IF order[j] < k THEN order[j] ELSE order[j] - 1)
    BY <1>3
  <2> QED
    BY <2>1, <2>2, <2>3
<1> QED
  BY <1>4, <1>5 DEF Orders

LEMMA ShuffleRest ==
    ASSUME NEW s \in Seq(Int), NEW m \in Nat, m = Len(s), m >= 1, NEW order \in Orders(m)
    PROVE  Dropped(Shuffled(s, order), m) = Shuffled(Dropped(s, order[m]), Rest(order, m))
<1> PICK k : k = order[m]
  OBVIOUS
<1> PICK w : w = Shuffled(s, order)
  OBVIOUS
<1> PICK o : o = Rest(order, m)
  OBVIOUS
<1> PICK t : t = Dropped(s, k)
  OBVIOUS
<1>1. w \in Seq(Int) /\ Len(w) = m /\ (\A i \in 1..m : w[i] = s[order[i]] /\ order[i] \in 1..m) /\ k \in 1..m
  <2>1. Shuffles(s, order, m, w) /\ m \in 1..m
    BY ShuffledIs
  <2> QED
    BY <2>1 DEF Shuffles
<1>2. Dropped(w, m) = [i \in 1..(m - 1) |-> w[i]]
  BY <1>1 DEF Dropped
<1>3. t \in Seq(Int) /\ Len(t) = m - 1 /\ t = [i \in 1..(m - 1) |-> IF i < k THEN s[i] ELSE s[i + 1]]
  BY <1>1, DroppedIs DEF Dropped
<1>4. o \in Orders(m - 1) /\ o = [i \in 1..(m - 1) |-> IF order[i] < k THEN order[i] ELSE order[i] - 1]
  <2>1. o \in Orders(m - 1)
    BY RestIs
  <2>2. Rest(order, m) = [i \in 1..(m - 1) |-> IF order[i] < order[m] THEN order[i] ELSE order[i] - 1]
    BY DEF Rest
  <2> QED
    BY ONLY <2>1, <2>2, k = order[m], o = Rest(order, m)
<1>5. order \in [1..m -> 1..m] /\ \A i \in 1..(m - 1) : order[i] # k
  <2>1. order \in [1..m -> 1..m] /\ \A i, j \in 1..m : i # j => order[i] # order[j]
    BY DEF Orders
  <2>2. m \in 1..m /\ \A i \in 1..(m - 1) : i \in 1..m /\ i # m
    OBVIOUS
  <2> QED
    BY ONLY <2>1, <2>2, k = order[m]
<1>6. ASSUME NEW i \in 1..(m - 1) PROVE w[i] = t[o[i]]
  <2>1. o[i] \in 1..(m - 1) /\ o[i] = IF order[i] < k THEN order[i] ELSE order[i] - 1
    BY <1>4 DEF Orders
  <2>2. t[o[i]] = IF o[i] < k THEN s[o[i]] ELSE s[o[i] + 1]
    BY <1>3, <2>1
  <2>3. order[i] \in 1..m /\ order[i] # k /\ k \in 1..m
    BY <1>1, <1>5
  <2>4. w[i] = s[order[i]]
    <3>1. i \in 1..m
      OBVIOUS
    <3> QED
      BY <1>1, <3>1
  <2>5. (order[i] < k => o[i] = order[i] /\ o[i] < k) /\ (~(order[i] < k) => ~(o[i] < k) /\ o[i] + 1 = order[i])
    <3> PICK v, u : v = o[i] /\ u = order[i]
      OBVIOUS
    <3>1. u \in 1..m /\ u # k /\ k \in 1..m /\ v = (IF u < k THEN u ELSE u - 1)
      BY <2>1, <2>3
    <3> QED
      BY ONLY <3>1, Lowered, v = o[i], u = order[i], m \in Nat
  <2> QED
    BY <2>2, <2>4, <2>5
<1>7. Shuffled(t, o) = [i \in 1..(m - 1) |-> t[o[i]]]
  <2>1. DOMAIN t = 1..(m - 1)
    BY <1>3
  <2> QED
    BY <2>1 DEF Shuffled
<1> QED
  BY <1>2, <1>6, <1>7

LEMMA SameTotal ==
    ASSUME NEW s \in Seq(Int), NEW order \in Orders(Len(s)) PROVE Total(Shuffled(s, order)) = Total(s)
<1> DEFINE Same(m) == \A t \in Seq(Int) : \A o \in Orders(m) : Len(t) = m => Total(Shuffled(t, o)) = Total(t)
           T == {m \in 0..Len(s) : Same(m)}
<1>1. Len(s) \in Nat
  OBVIOUS
<1>2. 0 \in T
  <2> SUFFICES ASSUME NEW t \in Seq(Int), NEW o \in Orders(0), Len(t) = 0
               PROVE  Total(Shuffled(t, o)) = Total(t)
    BY <1>1
  <2> PICK w : w = Shuffled(t, o)
    OBVIOUS
  <2>1. w \in Seq(Int) /\ Len(w) = 0
    BY ShuffledIs DEF Shuffles
  <2>2. Adds(w, 0, Sums(w)) /\ Total(w) = Sums(w)[0] /\ Adds(t, 0, Sums(t)) /\ Total(t) = Sums(t)[0]
    BY <2>1, SumsAre
  <2> QED
    BY <2>2 DEF Adds
<1>3. ASSUME NEW m \in 1..Len(s), m - 1 \in T PROVE m \in T
  <2>1. m \in Nat /\ m >= 1 /\ m \in 0..Len(s)
    BY <1>1
  <2> SUFFICES ASSUME NEW t \in Seq(Int), NEW o \in Orders(m), Len(t) = m
               PROVE  Total(Shuffled(t, o)) = Total(t)
    BY <2>1
  <2> PICK w : w = Shuffled(t, o)
    OBVIOUS
  <2> PICK u : u = Dropped(t, o[m])
    OBVIOUS
  <2>2. w \in Seq(Int) /\ Len(w) = m /\ m \in 1..m /\ w[m] = t[o[m]] /\ o[m] \in 1..m
    <3>1. Shuffles(t, o, m, w) /\ m \in 1..m
      BY <2>1, ShuffledIs
    <3> QED
      BY <3>1 DEF Shuffles
  <2>3. Total(w) = Total(Dropped(w, m)) + w[m]
    BY <2>2, DroppedIs
  <2>4. Total(t) = Total(u) + t[o[m]] /\ u \in Seq(Int) /\ Len(u) = m - 1
    BY <2>2, DroppedIs
  <2>5. Dropped(w, m) = Shuffled(u, Rest(o, m)) /\ Rest(o, m) \in Orders(m - 1)
    BY <2>1, ShuffleRest, RestIs
  <2>6. Same(m - 1)
    BY <1>3
  <2>7. Total(Shuffled(u, Rest(o, m))) = Total(u)
    BY <2>4, <2>5, <2>6
  <2> QED
    BY <2>2, <2>3, <2>4, <2>5, <2>7
<1>4. \A m \in 0..Len(s) : m \in T
  <2> HIDE DEF T
  <2> QED
    BY <1>1, <1>2, <1>3, UpTo
<1>5. Same(Len(s))
  BY <1>1, <1>4
<1> QED
  BY <1>5

-----------------------------------------------------------------------------
(* Curves. *)

LEMMA PnlsAre ==
    ASSUME NEW trades \in Seq(TradeRow)
    PROVE  /\ Pnls(trades) \in Seq(Int) /\ Len(Pnls(trades)) = Len(trades)
           /\ \A i \in 1..Len(trades) : Pnls(trades)[i] = trades[i].pnl
<1>1. Len(trades) \in Nat /\ DOMAIN trades = 1..Len(trades)
  OBVIOUS
<1>2. Pnls(trades) = [i \in 1..Len(trades) |-> trades[i].pnl]
  BY <1>1 DEF Pnls
<1>3. \A i \in 1..Len(trades) : trades[i].pnl \in Int
  <2> SUFFICES ASSUME NEW i \in 1..Len(trades) PROVE trades[i].pnl \in Int
    OBVIOUS
  <2>1. trades[i] \in TradeRow
    OBVIOUS
  <2> QED
    BY <2>1 DEF TradeRow
<1>4. Pnls(trades) \in [1..Len(trades) -> Int]
  BY <1>2, <1>3
<1> QED
  BY <1>1, <1>2, <1>4, AsSeq

LEMMA LossesAre ==
    ASSUME NEW pnls \in Seq(Int)
    PROVE  /\ Losses(pnls) \in Seq(Nat) /\ Losses(pnls) \in Seq(Int) /\ Len(Losses(pnls)) = Len(pnls)
           /\ \A i \in 1..Len(pnls) : /\ Losses(pnls)[i] = Bigger(-pnls[i], 0)
                                      /\ Losses(pnls)[i] \in Nat /\ Losses(pnls)[i] + pnls[i] >= 0
<1>1. Len(pnls) \in Nat /\ DOMAIN pnls = 1..Len(pnls) /\ \A i \in 1..Len(pnls) : pnls[i] \in Int
  OBVIOUS
<1>2. Losses(pnls) = [i \in 1..Len(pnls) |-> Bigger(-pnls[i], 0)]
  BY <1>1 DEF Losses
<1>3. \A i \in 1..Len(pnls) : Bigger(-pnls[i], 0) \in Nat /\ Bigger(-pnls[i], 0) + pnls[i] >= 0
  BY <1>1 DEF Bigger
<1>4. Losses(pnls) \in [1..Len(pnls) -> Nat]
  BY <1>2, <1>3
<1>5. Losses(pnls) \in Seq(Nat) /\ Len(Losses(pnls)) = Len(pnls)
  BY <1>1, <1>4, AsSeq
<1>6. Losses(pnls) \in Seq(Int)
  BY <1>5
<1> QED
  BY <1>2, <1>3, <1>5, <1>6

LEMMA CurveIs ==
    ASSUME NEW pnls \in Seq(Int), NEW f, f = Sums(pnls), NEW m, m = Len(pnls)
    PROVE  /\ m \in Nat /\ Adds(pnls, m, f) /\ Total(pnls) = f[m]
           /\ Curve(pnls) \in Seq(Int) /\ Len(Curve(pnls)) = m + 1
           /\ \A n \in 1..(m + 1) : Curve(pnls)[n] = Equity + f[n - 1] /\ f[n - 1] \in Int
           /\ Last(Curve(pnls)) = Equity + Total(pnls)
<1>1. Equity \in Int
  BY BacktestAssumption
<1>2. m \in Nat /\ Adds(pnls, m, f) /\ Total(pnls) = f[m]
  BY SumsAre
<1> PICK c : c = Curve(pnls)
  OBVIOUS
<1>3. f \in [0..m -> Int] /\ c = [n \in 1..(m + 1) |-> Equity + f[n - 1]]
  BY <1>2 DEF Adds, Curve
<1>4. \A n \in 1..(m + 1) : n - 1 \in 0..m /\ f[n - 1] \in Int /\ c[n] = Equity + f[n - 1]
  BY <1>2, <1>3
<1>5. c \in [1..(m + 1) -> Int] /\ m + 1 \in Nat
  BY <1>1, <1>2, <1>3, <1>4
<1>6. c \in Seq(Int) /\ Len(c) = m + 1
  BY <1>5, AsSeq
<1>7. Last(c) = Equity + f[m]
  <2>1. m + 1 \in 1..(m + 1) /\ (m + 1) - 1 = m
    BY <1>2
  <2>2. Last(c) = c[m + 1]
    BY <1>6 DEF Last
  <2> QED
    BY <1>4, <2>1, <2>2
<1> QED
  BY <1>2, <1>4, <1>6, <1>7

LEMMA CurveMatches ==
    ASSUME NEW curve, NEW trades, CurveOf(curve, trades)
    PROVE  curve = Curve(Pnls(trades))
<1> PICK pnls : pnls = Pnls(trades)
  OBVIOUS
<1> PICK m : m = Len(trades)
  OBVIOUS
<1> PICK f : f = Sums(pnls)
  OBVIOUS
<1> PICK c : c = Curve(pnls)
  OBVIOUS
<1>1. /\ curve \in Seq(Int) /\ trades \in Seq(TradeRow) /\ Len(curve) = m + 1 /\ curve[1] = Equity /\ m \in Nat
      /\ \A k \in 1..m : curve[k + 1] = curve[k] + trades[k].pnl
  BY DEF CurveOf
<1>2. pnls \in Seq(Int) /\ Len(pnls) = m /\ \A i \in 1..m : pnls[i] = trades[i].pnl
  BY <1>1, PnlsAre
<1>3. /\ Adds(pnls, m, f) /\ c \in Seq(Int) /\ Len(c) = m + 1
      /\ \A n \in 1..(m + 1) : c[n] = Equity + f[n - 1]
  BY <1>2, CurveIs
<1>4. f[0] = 0 /\ Equity \in Int
  BY <1>3, BacktestAssumption DEF Adds
<1> DEFINE T == {n \in 0..m : curve[n + 1] = Equity + f[n]}
<1>5. 0 \in T
  BY <1>1, <1>4
<1>6. ASSUME NEW n \in 1..m, n - 1 \in T PROVE n \in T
  <2>1. f[n] = f[n - 1] + pnls[n] /\ f[n - 1] \in Int /\ pnls[n] \in Int
    BY <1>3 DEF Adds
  <2>2. curve[n + 1] = curve[n] + pnls[n]
    BY <1>1, <1>2
  <2>3. curve[n] = Equity + f[n - 1]
    <3>1. (n - 1) + 1 = n
      BY <1>1
    <3> QED
      BY <1>6, <3>1
  <2>4. n \in 0..m
    BY <1>1
  <2> QED
    BY <1>4, <2>1, <2>2, <2>3, <2>4
<1>7. \A n \in 0..m : n \in T
  <2> HIDE DEF T
  <2> QED
    BY <1>1, <1>5, <1>6, UpTo
<1>8. \A n \in 1..(m + 1) : curve[n] = c[n]
  <2> SUFFICES ASSUME NEW n \in 1..(m + 1) PROVE curve[n] = c[n]
    OBVIOUS
  <2>1. n - 1 \in 0..m /\ (n - 1) + 1 = n
    BY <1>1
  <2>2. curve[(n - 1) + 1] = Equity + f[n - 1]
    BY <1>7, <2>1
  <2> QED
    BY <1>3, <2>1, <2>2
<1> QED
  BY <1>1, <1>3, <1>8

LEMMA Lesser ==
    ASSUME NEW fa \in Int, NEW fb \in Int, NEW ga \in Int, NEW gb \in Int, NEW gm \in Int,
           ga + fa <= gb + fb, gb <= gm, 0 <= ga
    PROVE  fa - fb <= gm
OBVIOUS

LEMMA Further ==
    ASSUME NEW f \in Int, NEW g \in Int, NEW p \in Int, NEW l \in Int, l + p >= 0
    PROVE  g + f <= (g + l) + (f + p)
OBVIOUS

\* No fall is deeper than all losses together.
LEMMA FallIsLost ==
    ASSUME NEW pnls \in Seq(Int) PROVE MaxDrawdown(Curve(pnls)) <= Total(Losses(pnls))
<1> PICK m : m = Len(pnls)
  OBVIOUS
<1> PICK f : f = Sums(pnls)
  OBVIOUS
<1> PICK l : l = Losses(pnls)
  OBVIOUS
<1> PICK g : g = Sums(l)
  OBVIOUS
<1> PICK c : c = Curve(pnls)
  OBVIOUS
<1>1. /\ m \in Nat /\ Adds(pnls, m, f) /\ c \in Seq(Int) /\ Len(c) = m + 1 /\ Equity \in Int
      /\ \A n \in 1..(m + 1) : c[n] = Equity + f[n - 1]
  <2>1. /\ m \in Nat /\ Adds(pnls, m, f) /\ Curve(pnls) \in Seq(Int) /\ Len(Curve(pnls)) = m + 1
        /\ \A n \in 1..(m + 1) : Curve(pnls)[n] = Equity + f[n - 1]
    BY ONLY CurveIs, pnls \in Seq(Int), f = Sums(pnls), m = Len(pnls)
  <2> QED
    BY ONLY <2>1, BacktestAssumption, c = Curve(pnls)
<1>2. /\ l \in Seq(Nat) /\ l \in Seq(Int) /\ Len(l) = m
      /\ \A i \in 1..m : l[i] \in Nat /\ l[i] + pnls[i] >= 0
  BY LossesAre
<1>3. Adds(l, m, g) /\ Total(l) = g[m]
  BY <1>2, SumsAre
<1>4. \A i, j \in 0..m : i <= j => g[i] <= g[j]
  BY <1>2, SumsOfNat
<1>5. f \in [0..m -> Int] /\ g \in [0..m -> Int] /\ g[0] = 0
  BY <1>1, <1>3 DEF Adds
<1> PICK h : h = [n \in 0..m |-> g[n] + f[n]]
  OBVIOUS
<1>6. h \in [0..m -> Int] /\ \A n \in 0..m : h[n] = g[n] + f[n]
  BY <1>5
<1>7. ASSUME NEW n \in 1..m PROVE h[n - 1] <= h[n]
  <2>1. n \in 0..m /\ n - 1 \in 0..m
    BY <1>1
  <2>2. f[n] = f[n - 1] + pnls[n] /\ f[n - 1] \in Int /\ pnls[n] \in Int
    BY <1>1 DEF Adds
  <2>3. g[n] = g[n - 1] + l[n] /\ g[n - 1] \in Int /\ l[n] \in Int
    BY <1>3 DEF Adds
  <2>4. h[n] = g[n] + f[n] /\ h[n - 1] = g[n - 1] + f[n - 1] /\ l[n] + pnls[n] >= 0
    BY <1>2, <1>6, <2>1
  <2>5. g[n - 1] + f[n - 1] <= (g[n - 1] + l[n]) + (f[n - 1] + pnls[n])
    BY <2>2, <2>3, <2>4, Further
  <2> QED
    BY ONLY <2>2, <2>3, <2>4, <2>5
<1>8. \A i, j \in 0..m : i <= j => h[i] <= h[j]
  BY ONLY <1>1, <1>6, <1>7, Rising
<1>9. c # << >>
  BY <1>1
<1>10. PICK d : Measures(c, m + 1, d) /\ MaxDrawdown(c) = d.worst
  BY <1>1, <1>9, DrawdownIs
<1>11. PICK i, j \in 1..(m + 1) : i <= j /\ d.worst = c[i] - c[j]
  <2>1. Seen(m + 1) = 1..(m + 1)
    BY <1>1 DEF Seen, Bigger
  <2> QED
    BY <1>10, <2>1 DEF Measures
<1> PICK a : a = i - 1
  OBVIOUS
<1> PICK b : b = j - 1
  OBVIOUS
<1>12. a \in 0..m /\ b \in 0..m /\ a <= b /\ 0 \in 0..m /\ m \in 0..m /\ 0 <= a /\ b <= m
  BY <1>1, <1>11
<1>13. f[a] \in Int /\ f[b] \in Int /\ g[a] \in Int /\ g[b] \in Int /\ g[m] \in Int
  BY <1>5, <1>12
<1>14. d.worst = f[a] - f[b]
  <2>1. c[i] = Equity + f[a] /\ c[j] = Equity + f[b]
    BY <1>1, <1>11
  <2>2. d.worst = c[i] - c[j]
    BY <1>11
  <2> QED
    BY ONLY <1>13, <2>1, <2>2, BacktestAssumption
<1>15. g[a] + f[a] <= g[b] + f[b]
  <2>1. h[a] = g[a] + f[a] /\ h[b] = g[b] + f[b] /\ h[a] <= h[b]
    BY <1>6, <1>8, <1>12
  <2> QED
    BY <2>1
<1>16. g[b] <= g[m] /\ 0 <= g[a]
  <2>1. g[b] <= g[m] /\ g[0] <= g[a]
    BY <1>4, <1>12
  <2> QED
    BY <1>5, <2>1
<1>17. d.worst <= g[m]
  <2>1. f[a] - f[b] <= g[m]
    BY <1>13, <1>15, <1>16, Lesser
  <2> QED
    BY ONLY <1>14, <2>1
<1> QED
  BY <1>3, <1>10, <1>17

LEMMA ShuffledLosses ==
    ASSUME NEW pnls \in Seq(Int), NEW order, order \in Orders(Len(pnls))
    PROVE  Losses(Shuffled(pnls, order)) = Shuffled(Losses(pnls), order)
<1> PICK m : m = Len(pnls)
  OBVIOUS
<1> PICK w : w = Shuffled(pnls, order)
  OBVIOUS
<1> PICK l : l = Losses(pnls)
  OBVIOUS
<1>1. w \in Seq(Int) /\ Len(w) = m /\ \A i \in 1..m : w[i] = pnls[order[i]] /\ order[i] \in 1..m
  <2>1. Shuffles(pnls, order, m, w)
    BY ShuffledIs
  <2> QED
    BY ONLY <2>1 DEF Shuffles
<1>2. l \in Seq(Int) /\ Len(l) = m /\ m \in Nat /\ \A i \in 1..m : l[i] = Bigger(-pnls[i], 0)
  BY LossesAre
<1>3. Losses(w) = [i \in 1..m |-> Bigger(-w[i], 0)]
  <2>1. DOMAIN w = 1..m
    BY <1>1
  <2> QED
    BY <2>1 DEF Losses
<1>4. Shuffled(l, order) = [i \in 1..m |-> l[order[i]]]
  <2>1. DOMAIN l = 1..m
    BY <1>2
  <2> QED
    BY <2>1 DEF Shuffled
<1>5. \A i \in 1..m : Bigger(-w[i], 0) = l[order[i]]
  BY <1>1, <1>2
<1> QED
  BY <1>3, <1>4, <1>5

-----------------------------------------------------------------------------
(* What a report says. *)

Reports(r, cfg) ==
    /\ CurveOf(r.curve, r.trades) /\ Ordered(r.trades, cfg) /\ Ordered(r.trained, cfg) /\ Ordered(r.tested, cfg)
    /\ r.drawdown = MaxDrawdown(r.curve) /\ r.losing = LongestStreak(Pnls(r.trades))

LEMMA Parts ==
    ASSUME NEW candles \in Seq(Bars), NEW k \in 1..(Len(candles) + 1), NEW n \in 0..Len(candles)
    PROVE  SubSeq(candles, k, n) \in Seq(Bars)
OBVIOUS

LEMMA RunIs ==
    ASSUME NEW candles \in Seq(Bars), NEW cfg \in Params, NEW r, r = RunOf(candles, cfg)
    PROVE  /\ Reports(r, cfg) /\ r.candles = Len(candles)
           /\ r.trades = Simulate(candles, cfg).trades
<1> PICK n : n = Len(candles)
  OBVIOUS
<1> PICK split : split = Split(candles)
  OBVIOUS
<1> PICK seed : seed = SeedFrom(candles, cfg)
  OBVIOUS
<1>1. n \in Nat /\ split \in 0..n /\ seed \in 0..n
  <2>1. n \in Nat /\ split = (n * 7) \div 10
    BY DEF Split
  <2>2. split \in 0..n
    BY <2>1
  <2>3. cfg.slow \in Nat \ {0} /\ seed = Bigger(0, split - cfg.slow)
    BY DEF SeedFrom, Params
  <2> QED
    BY <2>1, <2>2, <2>3 DEF Bigger
<1> PICK trained : trained = Training(candles, cfg)
  OBVIOUS
<1> PICK tested : tested = Testing(candles, cfg)
  OBVIOUS
<1> PICK all : all = Simulate(candles, cfg)
  OBVIOUS
<1>2. CurveOf(all.curve, all.trades) /\ Ordered(all.trades, cfg)
  BY SimulateIs
<1>3. Ordered(trained.trades, cfg)
  <2>1. 1 \in 1..(Len(candles) + 1)
    BY <1>1
  <2>2. SubSeq(candles, 1, split) \in Seq(Bars)
    BY <1>1, <2>1, Parts
  <2>3. trained = Simulate(SubSeq(candles, 1, split), cfg)
    BY DEF Training
  <2> QED
    BY <2>2, <2>3, SimulateIs
<1>4. Ordered(tested.trades, cfg)
  <2>1. seed + 1 \in 1..(Len(candles) + 1) /\ Len(candles) \in 0..Len(candles)
    BY <1>1
  <2>2. SubSeq(candles, seed + 1, Len(candles)) \in Seq(Bars)
    BY <2>1, Parts
  <2>3. tested = Simulate(SubSeq(candles, seed + 1, Len(candles)), cfg)
    BY DEF Testing
  <2> QED
    BY <2>2, <2>3, SimulateIs
<1>5. r = [candles |-> n, trades |-> all.trades, curve |-> all.curve, drawdown |-> MaxDrawdown(all.curve),
           losing |-> LongestStreak(Pnls(all.trades)), trained |-> trained.trades, tested |-> tested.trades]
  BY DEF RunOf, Summary
<1> QED
  BY <1>2, <1>3, <1>4, <1>5 DEF Reports

LEMMA DisjointTrades ==
    ASSUME NEW r, NEW cfg, Reports(r, cfg) PROVE TradesDisjoint(r)
<1>1. r.trades \in Seq(TradeRow) /\ DOMAIN r.trades = 1..Len(r.trades)
  BY DEF Reports, Ordered
<1>2. r.curve = Curve(Pnls(r.trades))
  BY CurveMatches DEF Reports
<1>3. Ordered(r.trades, cfg)
  BY DEF Reports
<1> QED
  BY <1>1, <1>2, <1>3 DEF TradesDisjoint, Ordered

LEMMA TrueMetrics ==
    ASSUME NEW r, NEW cfg, Reports(r, cfg) PROVE MetricsTrue(r)
<1> PICK c : c = r.curve
  OBVIOUS
<1> PICK n : n = Len(r.trades)
  OBVIOUS
<1> PICK pnls : pnls = Pnls(r.trades)
  OBVIOUS
<1>1. c \in Seq(Int) /\ n \in Nat /\ Len(c) = n + 1 /\ DOMAIN c = 1..(n + 1) /\ c # << >>
      /\ r.trades \in Seq(TradeRow) /\ \A i \in 1..(n + 1) : c[i] \in Int
  <2>1. c \in Seq(Int) /\ r.trades \in Seq(TradeRow) /\ Len(c) = n + 1
    BY DEF Reports, CurveOf
  <2> QED
    BY <2>1
<1> PICK falls : falls = UNION {{c[i] - c[j] : j \in i..Len(c)} : i \in DOMAIN c}
  OBVIOUS
<1>2. r.drawdown = Max(falls)
  <2>1. PICK d : Measures(c, n + 1, d) /\ MaxDrawdown(c) = d.worst
    BY <1>1, DrawdownIs
  <2>2. Seen(n + 1) = 1..(n + 1)
    BY <1>1 DEF Seen, Bigger
  <2>3. /\ \E i, j \in 1..(n + 1) : i <= j /\ d.worst = c[i] - c[j]
        /\ \A i, j \in 1..(n + 1) : i <= j => c[i] - c[j] <= d.worst
    BY ONLY <2>1, <2>2 DEF Measures
  <2>4. ASSUME NEW i \in 1..(n + 1), NEW j \in 1..(n + 1), i <= j PROVE c[i] - c[j] \in falls
    <3>1. i \in DOMAIN c /\ j \in i..Len(c)
      BY <1>1, <2>4
    <3> QED
      BY <3>1
  <2>5. ASSUME NEW x \in falls PROVE x \in Int /\ x <= d.worst
    <3>1. PICK i \in DOMAIN c : x \in {c[i] - c[j] : j \in i..Len(c)}
      OBVIOUS
    <3>2. PICK j \in i..Len(c) : x = c[i] - c[j]
      BY <3>1
    <3>3. i \in 1..(n + 1) /\ j \in 1..(n + 1) /\ i <= j
      BY <1>1
    <3>4. c[i] \in Int /\ c[j] \in Int /\ c[i] - c[j] <= d.worst
      BY <1>1, <2>3, <3>3
    <3> QED
      BY ONLY <3>2, <3>4
  <2>6. d.worst \in falls
    BY <2>3, <2>4
  <2>7. Max(falls) = d.worst
    BY <2>5, <2>6, MaxIs
  <2>8. r.drawdown = MaxDrawdown(c)
    BY DEF Reports
  <2> QED
    BY <2>1, <2>7, <2>8
<1>3. pnls \in Seq(Int) /\ Len(pnls) = n /\ \A i \in 1..n : pnls[i] = r.trades[i].pnl
  BY <1>1, PnlsAre
<1> PICK best : best = LongestStreak(pnls)
  OBVIOUS
<1>4. best \in Nat /\ Longest(pnls, n, best) /\ r.losing = best
  BY <1>3, StreakIs DEF Reports
<1> PICK runs : runs = {k \in 0..n : \E i \in 1..(n - k + 1) : \A j \in i..(i + k - 1) : r.trades[j].pnl < 0}
  OBVIOUS
<1>5. ASSUME NEW k \in 0..n, NEW i \in 1..(n - k + 1)
      PROVE  Row(pnls, i, k) <=> \A j \in i..(i + k - 1) : r.trades[j].pnl < 0
  <2>1. \A j \in i..(i + k - 1) : j \in 1..n
    BY <1>1
  <2>2. \A j \in i..(i + k - 1) : pnls[j] = r.trades[j].pnl
    BY <1>3, <2>1
  <2> QED
    BY <2>2 DEF Row
<1>6. best \in runs /\ \A k \in runs : k <= best
  <2>1. best \in 0..n /\ \E i \in 1..(n - best + 1) : Row(pnls, i, best)
    BY <1>1, <1>4 DEF Longest
  <2>2. best \in runs
    BY <1>5, <2>1
  <2>3. ASSUME NEW k \in runs PROVE k <= best
    <3>1. k \in 0..n /\ \E i \in 1..(n - k + 1) : Row(pnls, i, k)
      BY <1>5
    <3> QED
      BY <1>4, <3>1 DEF Longest
  <2> QED
    BY <2>2, <2>3
<1>7. r.losing = Max(runs)
  <2>1. runs \in SUBSET Int
    BY <1>1
  <2> QED
    BY <1>4, <1>6, <2>1, MaxIs
<1> QED
  BY <1>2, <1>7 DEF MetricsTrue

LEMMA AgreeingShuffles ==
    ASSUME NEW r, NEW cfg, Reports(r, cfg) PROVE ShufflesAgree(r)
<1> PICK n : n = Len(r.trades)
  OBVIOUS
<1> PICK pnls : pnls = Pnls(r.trades)
  OBVIOUS
<1>1. pnls \in Seq(Int) /\ Len(pnls) = n
  BY PnlsAre DEF Reports, Ordered
<1>2. r.curve = Curve(pnls)
  BY CurveMatches DEF Reports
<1> SUFFICES ASSUME NEW order \in Orders(n)
             PROVE  /\ Last(Curve(Shuffled(pnls, order))) = Last(r.curve)
                    /\ MaxDrawdown(Curve(Shuffled(pnls, order))) <= Lost(r.trades)
  BY DEF ShufflesAgree
<1> PICK w : w = Shuffled(pnls, order)
  OBVIOUS
<1>3. w \in Seq(Int)
  BY <1>1, ShuffledIs DEF Shuffles
<1>4. Total(w) = Total(pnls)
  BY <1>1, SameTotal
<1>5. Last(Curve(w)) = Equity + Total(w) /\ Last(Curve(pnls)) = Equity + Total(pnls)
  BY <1>1, <1>3, CurveIs
<1>6. MaxDrawdown(Curve(w)) <= Total(Losses(w))
  BY <1>3, FallIsLost
<1>7. Total(Losses(w)) = Total(Losses(pnls))
  <2>1. Losses(w) = Shuffled(Losses(pnls), order)
    BY <1>1, ShuffledLosses
  <2>2. Losses(pnls) \in Seq(Int) /\ Len(Losses(pnls)) = n
    BY <1>1, LossesAre
  <2> QED
    BY <2>1, <2>2, SameTotal
<1>8. Lost(r.trades) = Total(Losses(pnls))
  BY DEF Lost
<1> QED
  BY <1>2, <1>4, <1>5, <1>6, <1>7, <1>8

LEMMA OutOfSample ==
    ASSUME tape \in Seq(Bars), config \in Params, NEW r, Reports(r, config) PROVE TestOutOfSample(r)
<1> PICK split : split = Split(tape)
  OBVIOUS
<1> PICK seed : seed = SeedFrom(tape, config)
  OBVIOUS
<1>1. split \in Int
  BY DEF Split
<1>2. config.slow \in Nat /\ seed = Bigger(0, split - config.slow)
  BY DEF SeedFrom, Params
<1>3. ASSUME NEW i \in DOMAIN r.tested PROVE seed + r.tested[i].from >= split
  <2>1. r.tested \in Seq(TradeRow) /\ Ordered(r.tested, config)
    BY DEF Reports, Ordered
  <2>2. i \in 1..Len(r.tested) /\ r.tested[i] \in TradeRow
    BY <2>1
  <2>3. config.slow <= r.tested[i].from /\ r.tested[i].from \in Nat
    BY <2>1, <2>2 DEF Ordered, TradeRow
  <2> QED
    BY <1>1, <1>2, <2>3 DEF Bigger
<1> QED
  BY <1>3 DEF TestOutOfSample

LEMMA Gains ==
    ASSUME NEW trades \in Seq(TradeRow)
    PROVE  Won(trades) \in Nat /\ Lost(trades) \in Nat
<1>1. Len(trades) \in Nat /\ DOMAIN trades = 1..Len(trades)
  OBVIOUS
<1> PICK gains : gains = [i \in 1..Len(trades) |-> Bigger(trades[i].pnl, 0)]
  OBVIOUS
<1>2. \A i \in 1..Len(trades) : Bigger(trades[i].pnl, 0) \in Nat
  <2> SUFFICES ASSUME NEW i \in 1..Len(trades) PROVE Bigger(trades[i].pnl, 0) \in Nat
    OBVIOUS
  <2>1. trades[i] \in TradeRow
    OBVIOUS
  <2>2. trades[i].pnl \in Int
    BY ONLY <2>1 DEF TradeRow
  <2> QED
    BY ONLY <2>2 DEF Bigger
<1>3. gains \in [1..Len(trades) -> Nat]
  BY <1>2
<1>4. gains \in Seq(Nat)
  BY <1>1, <1>3, AsSeq
<1>5. Won(trades) = Total(gains)
  BY <1>1 DEF Won
<1>6. Won(trades) \in Nat
  BY <1>4, <1>5, SumsOfNat
<1>7. Lost(trades) = Total(Losses(Pnls(trades))) /\ Losses(Pnls(trades)) \in Seq(Nat)
  BY PnlsAre, LossesAre DEF Lost
<1>8. Lost(trades) \in Nat
  BY <1>7, SumsOfNat
<1> QED
  BY <1>6, <1>8

\* What the rejections leave.
LEMMA Accepts ==
    ASSUME NEW train, NEW test, NEW wt \in Nat, NEW lt \in Nat, NEW wx \in Nat, NEW lx \in Nat,
           train = <<wt, IF lt = 0 THEN 1 ELSE lt>>, test = <<wx, IF lx = 0 THEN 1 ELSE lx>>,
           ~(Above(train, 12, 10) /\ test[1] < test[2]), 2 * wt > 3 * lt, wt > 1
    PROVE  wx > 0
<1>1. train[1] = wt /\ train[2] = (IF lt = 0 THEN 1 ELSE lt)
      /\ test[1] = wx /\ test[2] = (IF lx = 0 THEN 1 ELSE lx)
  OBVIOUS
<1>2. Above(train, 12, 10)
  <2>1. CASE lt = 0
    BY <1>1, <2>1 DEF Above
  <2>2. CASE lt # 0
    <3>1. train[2] = lt
      BY <1>1, <2>2
    <3> QED
      BY <1>1, <3>1 DEF Above
  <2> QED
    BY <2>1, <2>2
<1>3. ~(test[1] < test[2])
  BY <1>2
<1>4. test[2] \in Nat /\ test[2] >= 1
  BY <1>1
<1> QED
  BY <1>1, <1>3, <1>4

LEMMA EarningCandidate ==
    ASSUME NEW r, NEW cfg, Reports(r, cfg) PROVE CandidateEarns(r)
<1> SUFFICES ASSUME Rejections(r) = {} PROVE CandidateEarns(r)
  BY DEF CandidateEarns
<1> PICK c : c = r.curve
  OBVIOUS
<1> PICK pnls : pnls = Pnls(r.trades)
  OBVIOUS
<1> PICK n : n = Len(r.trades)
  OBVIOUS
<1>1. Equity \in Int /\ pnls \in Seq(Int) /\ Len(pnls) = n /\ n \in Nat
  BY BacktestAssumption, PnlsAre DEF Reports, Ordered
<1>2. /\ c = Curve(pnls) /\ c \in Seq(Int) /\ Len(c) = n + 1 /\ c[1] = Equity
      /\ Last(c) = Equity + Total(pnls) /\ Total(pnls) \in Int
  <2>1. c = Curve(pnls) /\ c[1] = Equity
    BY CurveMatches DEF Reports, CurveOf
  <2> QED
    BY <1>1, <2>1, CurveIs, SumsAre
<1>3. /\ ~(Total(pnls) <= 0) /\ ~(r.drawdown * 100 >= 20 * Equity)
      /\ ~(Above(ProfitFactor(r.trained), 12, 10) /\ ProfitFactor(r.tested)[1] < ProfitFactor(r.tested)[2])
  <2>1. "negative_expectancy" \notin Rejections(r) /\ "high_drawdown" \notin Rejections(r)
        /\ "overfitted" \notin Rejections(r)
    OBVIOUS
  <2> QED
    BY <2>1 DEF Rejections
<1>4. Last(c) > Equity
  BY <1>1, <1>2, <1>3
<1>5. 100 * (Equity - Min(Range(c))) < 20 * Equity
  <2>1. c # << >> /\ DOMAIN c = 1..(n + 1) /\ 1 \in 1..(n + 1) /\ \A i \in 1..(n + 1) : c[i] \in Int
    BY <1>1, <1>2
  <2>2. PICK d : Measures(c, n + 1, d) /\ MaxDrawdown(c) = d.worst
    BY <1>1, <1>2, <2>1, DrawdownIs
  <2>3. Seen(n + 1) = 1..(n + 1)
    BY <1>1 DEF Seen, Bigger
  <2> PICK worst : worst = d.worst
    OBVIOUS
  <2>4. worst \in Int /\ \A i \in 1..(n + 1) : Equity - c[i] <= worst
    <3>1. \A i \in 1..(n + 1) : 1 <= i => c[1] - c[i] <= worst
      BY <2>1, <2>2, <2>3 DEF Measures
    <3>2. worst \in Int
      BY <2>2 DEF Measures, Falls
    <3> QED
      BY <1>2, <3>1, <3>2
  <2> PICK lowest : lowest = Equity - worst
    OBVIOUS
  <2> PICK heights : heights = {c[i] - lowest : i \in 1..(n + 1)}
    OBVIOUS
  <2>5. heights \in SUBSET Nat /\ heights # {}
    <3>1. \A i \in 1..(n + 1) : c[i] \in Int /\ Equity - c[i] <= worst
      BY <2>1, <2>4
    <3>2. \A i \in 1..(n + 1) : c[i] - lowest \in Nat
      BY ONLY <1>1, <2>4, <3>1, lowest = Equity - worst
    <3> QED
      BY <2>1, <3>2
  <2>6. PICK h \in heights : \A x \in heights : h <= x
    BY <2>5, Least
  <2>7. PICK k \in 1..(n + 1) : h = c[k] - lowest
    BY <2>6
  <2>8. \A i \in 1..(n + 1) : c[k] <= c[i]
    <3> SUFFICES ASSUME NEW i \in 1..(n + 1) PROVE c[k] <= c[i]
      OBVIOUS
    <3>1. h <= c[i] - lowest
      BY <2>6
    <3>2. c[k] \in Int /\ c[i] \in Int /\ lowest \in Int
      BY <1>1, <2>1, <2>4
    <3> QED
      BY <2>7, <3>1, <3>2
  <2>9. Range(c) = {c[i] : i \in 1..(n + 1)}
    BY <2>1 DEF Range
  <2>10. Min(Range(c)) = c[k]
    <3>1. Range(c) \in SUBSET Int /\ c[k] \in Range(c) /\ \A x \in Range(c) : c[k] <= x
      BY <2>1, <2>8, <2>9
    <3> QED
      BY <3>1, MinIs
  <2>11. Equity - c[k] <= worst /\ c[k] \in Int
    BY <2>1, <2>4
  <2>12. r.drawdown = worst
    BY <2>2 DEF Reports
  <2>13. 100 * (Equity - c[k]) < 20 * Equity
    <3>1. ~(worst * 100 >= 20 * Equity)
      BY <1>3, <2>12
    <3>2. worst \in Int
      BY <2>4
    <3> QED
      BY ONLY <1>1, <2>11, <3>1, <3>2
  <2> QED
    BY <2>10, <2>13
<1>6. ASSUME 2 * Won(r.trained) > 3 * Lost(r.trained), Won(r.trained) > 1 PROVE Won(r.tested) > 0
  <2>1. r.trained \in Seq(TradeRow) /\ r.tested \in Seq(TradeRow)
    BY DEF Reports, Ordered
  <2>2. Won(r.trained) \in Nat /\ Lost(r.trained) \in Nat /\ Won(r.tested) \in Nat /\ Lost(r.tested) \in Nat
    BY <2>1, Gains
  <2> PICK train : train = ProfitFactor(r.trained)
    OBVIOUS
  <2> PICK test : test = ProfitFactor(r.tested)
    OBVIOUS
  <2>3. train = <<Won(r.trained), IF Lost(r.trained) = 0 THEN 1 ELSE Lost(r.trained)>>
        /\ test = <<Won(r.tested), IF Lost(r.tested) = 0 THEN 1 ELSE Lost(r.tested)>>
    BY DEF ProfitFactor
  <2>4. ~(Above(train, 12, 10) /\ test[1] < test[2])
    BY <1>3
  <2> QED
    BY ONLY <1>6, <2>2, <2>3, <2>4, Accepts
<1> QED
  BY <1>4, <1>5, <1>6 DEF CandidateEarns

-----------------------------------------------------------------------------
(* The tape and the reports. *)

ResearchInv ==
    /\ tape \in Seq(Bars) /\ config \in Params
    /\ report # << >> => /\ report.candles \in 0..Len(tape)
                         /\ report = RunOf(SubSeq(tape, 1, report.candles), config)

LEMMA Whole ==
    ASSUME NEW s \in Seq(Bars) PROVE SubSeq(s, 1, Len(s)) = s
OBVIOUS

LEMMA PastStays ==
    ASSUME NEW s \in Seq(Bars), NEW x \in Bars, NEW k \in 0..Len(s)
    PROVE  SubSeq(Append(s, x), 1, k) = SubSeq(s, 1, k) /\ Append(s, x) \in Seq(Bars)
           /\ Len(Append(s, x)) = Len(s) + 1 /\ Len(s) \in Nat
OBVIOUS

LEMMA PastBegins ==
    ASSUME NEW s \in Seq(Bars), NEW k \in 0..Len(s)
    PROVE  SubSeq(s, 1, k) \in Seq(Bars) /\ Len(SubSeq(s, 1, k)) = k /\ Begins(SubSeq(s, 1, k), s)
<1>1. Len(s) \in Nat /\ k \in Nat /\ k <= Len(s)
  OBVIOUS
<1> QED
  BY <1>1 DEF Begins

LEMMA ResearchInit == BacktestInit => ResearchInv
<1> SUFFICES ASSUME BacktestInit PROVE ResearchInv
  OBVIOUS
<1>1. tape = << >> /\ report = << >> /\ config \in Configs
  BY DEF BacktestInit
<1>2. Configs \subseteq Params
  BY BacktestAssumption DEF Params
<1> QED
  BY <1>1, <1>2 DEF ResearchInv

LEMMA ResearchStep ==
    ASSUME ResearchInv, [BacktestNext]_<<researchVars, experimentVars>> PROVE ResearchInv'
<1>1. CASE UNCHANGED researchVars
  BY <1>1 DEF ResearchInv, researchVars
<1>2. CASE NewCandle
  <2>1. PICK x \in Shapes : tape' = Append(tape, x)
    BY <1>2 DEF NewCandle
  <2>2. x \in Bars /\ tape \in Seq(Bars)
    BY BacktestAssumption DEF Bars, ResearchInv
  <2>3. report' = report /\ config' = config
    BY <1>2 DEF NewCandle
  <2>4. tape' \in Seq(Bars) /\ Len(tape') = Len(tape) + 1 /\ Len(tape) \in Nat
    BY <2>1, <2>2
  <2>5. ASSUME report # << >>
        PROVE  report.candles \in 0..Len(tape') /\ report = RunOf(SubSeq(tape', 1, report.candles), config)
    <3>1. report.candles \in 0..Len(tape) /\ report = RunOf(SubSeq(tape, 1, report.candles), config)
      BY <2>5 DEF ResearchInv
    <3>2. SubSeq(tape', 1, report.candles) = SubSeq(tape, 1, report.candles)
      BY <2>1, <2>2, <3>1, PastStays
    <3> PICK k : k = report.candles
      OBVIOUS
    <3>3. k \in 0..Len(tape')
      BY <2>4, <3>1
    <3> QED
      BY <3>1, <3>2, <3>3
  <2> QED
    BY <2>3, <2>4, <2>5 DEF ResearchInv
<1>3. CASE RunBacktest
  <2>1. tape' = tape /\ config' = config /\ report' = RunOf(tape, config)
    BY <1>3 DEF RunBacktest
  <2>2. tape \in Seq(Bars) /\ config \in Params
    BY DEF ResearchInv
  <2> PICK r : r = RunOf(tape, config)
    OBVIOUS
  <2>3. r.candles = Len(tape) /\ SubSeq(tape, 1, Len(tape)) = tape /\ Len(tape) \in 0..Len(tape)
    BY <2>2, RunIs, Whole
  <2> QED
    BY <2>1, <2>2, <2>3 DEF ResearchInv
<1>4. ASSUME NEW e \in Researchers,
             \/ StartExperiment(e) \/ CommitMarket(e) \/ ReportExperiment(e) \/ FailExperiment(e)
             \/ \E market \in Markets : SimulateMarket(e, market)
      PROVE  UNCHANGED researchVars
  BY <1>4 DEF StartExperiment, CommitMarket, ReportExperiment, FailExperiment, SimulateMarket
<1> QED
  BY <1>1, <1>2, <1>3, <1>4 DEF BacktestNext, experimentVars

LEMMA LaterRun ==
    ASSUME ResearchInv, RunBacktest, report # << >>
    PROVE  IsPrefix(Final(report.trades), report'.trades) /\ Len(report.curve) = Len(report.trades) + 1
<1>1. tape \in Seq(Bars) /\ config \in Params /\ report.candles \in 0..Len(tape)
      /\ report = RunOf(SubSeq(tape, 1, report.candles), config)
  BY DEF ResearchInv
<1> PICK past : past = SubSeq(tape, 1, report.candles)
  OBVIOUS
<1> PICK r : r = RunOf(tape, config)
  OBVIOUS
<1>2. past \in Seq(Bars) /\ Begins(past, tape)
  BY <1>1, PastBegins
<1>3. report.trades = Simulate(past, config).trades /\ Reports(report, config)
  BY <1>1, <1>2, RunIs
<1>4. r.trades = Simulate(tape, config).trades /\ report' = r
  BY <1>1, RunIs DEF RunBacktest
<1>5. IsPrefix(Final(Simulate(past, config).trades), Simulate(tape, config).trades)
  BY <1>1, <1>2, LaterReport
<1>6. Len(report.curve) = Len(report.trades) + 1
  BY <1>3 DEF Reports, CurveOf
<1> QED
  BY <1>3, <1>4, <1>5, <1>6

-----------------------------------------------------------------------------
(* The experiments. *)

Rows == [by : Researchers, at : Nat, rows : Nat, accepted : Nat, state : {"flushed", "committed", "rolled_back"}]
Trials == [pc : {"idle", "fetch", "flushed", "done", "failed"}, start : Nat, todo : SUBSET Markets, made : Nat,
           answer : [total : Int, top : Int]]

OwnRows(rows, e) == [i \in 1..Len(rows) |-> IF rows[i].by = e THEN rows[i].rows ELSE 0]

\* An experiment x has written what it made, and nothing before its start.
Begun(x, rows, e) ==
    \A i \in 1..Len(rows) : rows[i].at # x.start /\ (rows[i].by = e => rows[i].at > x.start)
Written(x, rows, e) ==
    /\ Total(OwnRows(rows, e)) = x.made
    /\ \A i \in 1..Len(rows) : rows[i].by = e =>
          \/ rows[i].state = "committed"
          \/ x.pc = "flushed" /\ rows[i].state = "flushed"
Answered(x, rows, e) ==
    /\ x.answer.total >= x.made
    /\ x.answer.total > x.made => \E i \in 1..Len(rows) : rows[i].by # e /\ rows[i].at > x.start
Trial(x, rows, e, instant) ==
    /\ x.pc = "idle" => \A i \in 1..Len(rows) : rows[i].by # e
    /\ x.pc # "idle" => x.start <= instant /\ Begun(x, rows, e)
    /\ x.pc \in {"fetch", "flushed", "done"} => Written(x, rows, e)
    /\ x.pc = "done" => Answered(x, rows, e)

ExperimentInv ==
    /\ steps \in Nat /\ candidates \in Seq(Rows) /\ experiments \in [Researchers -> Trials]
    /\ \A i \in 1..Len(candidates) : candidates[i].at <= steps
    /\ \A e \in Researchers : Trial(experiments[e], candidates, e, steps)

LEMMA RowIs ==
    ASSUME NEW c \in Rows
    PROVE  c.at \in Nat /\ c.rows \in Nat /\ c.accepted \in Nat
BY DEF Rows

LEMMA TrialIs ==
    ASSUME NEW x \in Trials
    PROVE  x.start \in Nat /\ x.made \in Nat
BY DEF Trials

LEMMA RowsAre ==
    ASSUME NEW rows \in Seq(Rows)
    PROVE  /\ Len(rows) \in Nat /\ DOMAIN rows = 1..Len(rows)
           /\ \A i \in 1..Len(rows) : /\ rows[i] \in Rows
                                      /\ rows[i].at \in Nat /\ rows[i].rows \in Nat /\ rows[i].accepted \in Nat
<1>1. Len(rows) \in Nat /\ DOMAIN rows = 1..Len(rows) /\ \A i \in 1..Len(rows) : rows[i] \in Rows
  OBVIOUS
<1> QED
  BY ONLY <1>1, RowIs

LEMMA OwnIs ==
    ASSUME NEW rows \in Seq(Rows), NEW e
    PROVE  /\ OwnRows(rows, e) \in Seq(Int) /\ Len(OwnRows(rows, e)) = Len(rows) /\ Len(rows) \in Nat
           /\ \A i \in 1..Len(rows) : /\ OwnRows(rows, e)[i] = IF rows[i].by = e THEN rows[i].rows ELSE 0
                                      /\ rows[i] \in Rows /\ rows[i].rows \in Nat
<1>1. Len(rows) \in Nat /\ \A i \in 1..Len(rows) : rows[i] \in Rows /\ rows[i].rows \in Nat
  BY RowsAre
<1>2. OwnRows(rows, e) \in [1..Len(rows) -> Int]
  BY <1>1 DEF OwnRows
<1>3. OwnRows(rows, e) \in Seq(Int) /\ Len(OwnRows(rows, e)) = Len(rows)
  BY ONLY <1>1, <1>2, AsSeq
<1> QED
  BY <1>1, <1>3 DEF OwnRows

\* What a row more adds.
Adding(old, new, c) == Len(new) = Len(old) + 1 /\ new[Len(new)] = c /\ \A i \in 1..Len(old) : new[i] = old[i]

LEMMA AddedTotal ==
    ASSUME NEW s \in Seq(Int), NEW t \in Seq(Int), NEW n, Adding(s, t, n) PROVE Total(t) = Total(s) + n
<1>1. Len(s) \in Nat /\ Len(t) = Len(s) + 1 /\ Len(t) \in 1..Len(t) /\ t[Len(t)] = n
  BY DEF Adding
<1>2. Dropped(t, Len(t)) = s
  <2>1. Dropped(t, Len(t)) = [i \in 1..Len(s) |-> s[i]]
    BY <1>1 DEF Dropped, Adding
  <2> QED
    BY <2>1
<1>3. Total(t) = Total(Dropped(t, Len(t))) + t[Len(t)]
  BY ONLY <1>1, DroppedIs, t \in Seq(Int)
<1> QED
  BY <1>1, <1>2, <1>3

LEMMA AddingIs ==
    ASSUME NEW V, NEW s \in Seq(V), NEW c \in V
    PROVE  Append(s, c) \in Seq(V) /\ Adding(s, Append(s, c), c) /\ Len(s) \in Nat
BY DEF Adding

LEMMA OwnAdded ==
    ASSUME NEW rows \in Seq(Rows), NEW new \in Seq(Rows), NEW c \in Rows, NEW e, Adding(rows, new, c)
    PROVE  Total(OwnRows(new, e)) = Total(OwnRows(rows, e)) + IF c.by = e THEN c.rows ELSE 0
<1> PICK n : n = IF c.by = e THEN c.rows ELSE 0
  OBVIOUS
<1>1. Adding(OwnRows(rows, e), OwnRows(new, e), n)
  <2> PICK s, t : s = OwnRows(rows, e) /\ t = OwnRows(new, e)
    OBVIOUS
  <2>1. Len(s) = Len(rows) /\ \A i \in 1..Len(rows) : s[i] = IF rows[i].by = e THEN rows[i].rows ELSE 0
    BY OwnIs
  <2>2. Len(t) = Len(new) /\ \A i \in 1..Len(new) : t[i] = IF new[i].by = e THEN new[i].rows ELSE 0
    BY OwnIs
  <2>3. /\ Len(rows) \in Nat /\ Len(new) = Len(rows) + 1 /\ Len(new) \in 1..Len(new) /\ new[Len(new)] = c
        /\ \A i \in 1..Len(rows) : i \in 1..Len(new) /\ new[i] = rows[i]
    BY RowsAre DEF Adding
  <2>4. t[Len(t)] = n
    BY <2>2, <2>3
  <2>5. \A i \in 1..Len(s) : t[i] = s[i]
    BY <2>1, <2>2, <2>3
  <2> QED
    BY <2>1, <2>2, <2>3, <2>4, <2>5 DEF Adding
<1>2. OwnRows(rows, e) \in Seq(Int) /\ OwnRows(new, e) \in Seq(Int)
  BY OwnIs
<1> QED
  BY <1>1, <1>2, AddedTotal

\* The row of another experiment disturbs none.
LEMMA TrialAdded ==
    ASSUME NEW rows \in Seq(Rows), NEW new \in Seq(Rows), NEW c \in Rows, NEW e, NEW x \in Trials, NEW instant \in Nat,
           Adding(rows, new, c), c.by # e, c.at = instant + 1, Trial(x, rows, e, instant)
    PROVE  Trial(x, new, e, instant + 1)
<1>1. Len(rows) \in Nat /\ Len(new) = Len(rows) + 1 /\ new[Len(rows) + 1] = c /\ x.start \in Nat
  BY DEF Adding, Trials
<1>2. \A i \in 1..Len(rows) : i \in 1..Len(new) /\ new[i] = rows[i]
  BY <1>1 DEF Adding
<1>3. \A i \in 1..Len(new) : i \in 1..Len(rows) \/ i = Len(rows) + 1
  BY <1>1
<1>4. x.pc = "idle" => \A i \in 1..Len(new) : new[i].by # e
  BY <1>1, <1>2, <1>3 DEF Trial
<1>5. x.pc # "idle" => x.start <= instant + 1 /\ Begun(x, new, e)
  <2> SUFFICES ASSUME x.pc # "idle" PROVE x.start <= instant + 1 /\ Begun(x, new, e)
    OBVIOUS
  <2>1. x.start <= instant /\ Begun(x, rows, e)
    BY DEF Trial
  <2>2. c.at # x.start
    BY <1>1, <2>1
  <2> QED
    BY <1>1, <1>2, <1>3, <2>1, <2>2 DEF Begun
<1>6. x.pc \in {"fetch", "flushed", "done"} => Written(x, new, e)
  <2> SUFFICES ASSUME x.pc \in {"fetch", "flushed", "done"} PROVE Written(x, new, e)
    OBVIOUS
  <2>1. Written(x, rows, e)
    BY DEF Trial
  <2>2. Total(OwnRows(new, e)) = Total(OwnRows(rows, e)) + 0
    BY OwnAdded
  <2>3. Total(OwnRows(rows, e)) \in Int
    BY OwnIs, SumsAre
  <2>4. Total(OwnRows(new, e)) = x.made
    BY <2>1, <2>2, <2>3 DEF Written
  <2> QED
    BY <1>1, <1>2, <1>3, <2>1, <2>4 DEF Written
<1>7. x.pc = "done" => Answered(x, new, e)
  BY <1>2 DEF Trial, Answered
<1> QED
  BY <1>4, <1>5, <1>6, <1>7 DEF Trial

\* Only the state of the rows changes, and among them of none of e.
Restated(rows, new, e) ==
    /\ Len(new) = Len(rows)
    /\ \A i \in 1..Len(rows) : /\ new[i].by = rows[i].by /\ new[i].at = rows[i].at /\ new[i].rows = rows[i].rows
                               /\ rows[i].by = e => new[i].state = rows[i].state

LEMMA TrialRestated ==
    ASSUME NEW rows, NEW new, NEW e, NEW x, NEW instant, Restated(rows, new, e), Trial(x, rows, e, instant)
    PROVE  Trial(x, new, e, instant)
<1>1. OwnRows(new, e) = OwnRows(rows, e)
  BY DEF OwnRows, Restated
<1> QED
  BY <1>1 DEF Restated, Trial, Begun, Written, Answered

LEMMA ExperimentInit == BacktestInit => ExperimentInv
<1> SUFFICES ASSUME BacktestInit PROVE ExperimentInv
  OBVIOUS
<1>1. candidates = << >> /\ steps = 0 /\ experiments = [e \in Researchers |-> NoExperiment]
  BY DEF BacktestInit
<1>2. NoExperiment \in Trials /\ NoExperiment.pc = "idle"
  BY DEF NoExperiment, Trials
<1> QED
  BY <1>1, <1>2 DEF ExperimentInv, Trial

\* What each step makes of an experiment x and of the rows.
Tried(x, rows, e, instant) == x \in Trials /\ Trial(x, rows, e, instant)
Before(rows, instant) == \A i \in 1..Len(rows) : rows[i].at <= instant
Starts(x, y, instant) ==
    x.pc = "idle" /\ y = [NoExperiment EXCEPT !.pc = "fetch", !.start = instant + 1, !.todo = Markets]
Flushes(x, y, c, e, m, instant) ==
    /\ x.pc = "fetch" /\ c.by = e /\ c.at = instant + 1 /\ c.state = "flushed"
    /\ y = [x EXCEPT !.pc = "flushed", !.todo = @ \ {m}, !.made = @ + c.rows]
Commits(rows, new, e, x, y) ==
    /\ x.pc = "flushed" /\ y = [x EXCEPT !.pc = "fetch"] /\ Len(new) = Len(rows)
    /\ \A i \in 1..Len(rows) : /\ new[i].by = rows[i].by /\ new[i].at = rows[i].at /\ new[i].rows = rows[i].rows
                               /\ rows[i].by = e => new[i].state = "committed"
Fails(rows, new, x, y) ==
    /\ x.pc # "idle" /\ y = [x EXCEPT !.pc = "failed"] /\ Len(new) = Len(rows)
    /\ \A i \in 1..Len(rows) : new[i].by = rows[i].by /\ new[i].at = rows[i].at
Counts(counted, rows, x, y, top) ==
    /\ x.pc = "fetch" /\ y = [x EXCEPT !.pc = "done", !.answer = [total |-> Total(counted), top |-> top]]
    /\ Len(counted) = Len(rows)
    /\ \A i \in 1..Len(rows) :
           counted[i] = IF rows[i].state = "committed" /\ rows[i].at >= x.start THEN rows[i].rows ELSE 0

\* An experiment begins after every row there is.
LEMMA StartTrial ==
    ASSUME NEW rows \in Seq(Rows), NEW e, NEW x, NEW y, NEW instant \in Nat, Tried(x, rows, e, instant), Starts(x, y, instant),
           Before(rows, instant)
    PROVE  Tried(y, rows, e, instant + 1)
<1> USE DEF Tried, Starts, Before
<1>1. y.pc = "fetch" /\ y.start = instant + 1 /\ y.made = 0 /\ y \in Trials
  <2>1. y = [pc |-> "fetch", start |-> instant + 1, todo |-> Markets, made |-> 0, answer |-> [total |-> 0, top |-> 0]]
    BY DEF NoExperiment
  <2>2. instant + 1 \in Nat
    OBVIOUS
  <2>3. y \in Trials
    BY ONLY <2>1, <2>2 DEF Trials
  <2>4. y.pc = "fetch" /\ y.start = instant + 1 /\ y.made = 0
    BY ONLY <2>1
  <2> QED
    BY ONLY <2>3, <2>4
<1>2. Len(rows) \in Nat /\ \A i \in 1..Len(rows) : rows[i].by # e /\ rows[i].at \in Nat /\ rows[i].at <= instant
  BY RowsAre DEF Trial
<1>3. Total(OwnRows(rows, e)) = 0
  <2> PICK s : s = OwnRows(rows, e)
    OBVIOUS
  <2>1. s \in Seq(Int) /\ Len(s) \in Nat /\ \A i \in 1..Len(s) : s[i] = 0
    BY <1>2, OwnIs
  <2> PICK z : z = [i \in 1..Len(s) |-> 0]
    OBVIOUS
  <2>2. Adds(s, Len(s), Sums(s)) /\ Total(s) = Sums(s)[Len(s)]
    BY <2>1, SumsAre
  <2> PICK f : f = Sums(s)
    OBVIOUS
  <2> PICK m : m = Len(s)
    OBVIOUS
  <2> DEFINE T == {n \in 0..m : f[n] = 0}
  <2>3. 0 \in T /\ m \in Nat
    BY <2>1, <2>2 DEF Adds
  <2>4. ASSUME NEW n \in 1..m, n - 1 \in T PROVE n \in T
    BY <2>1, <2>2, <2>4 DEF Adds
  <2>5. \A n \in 0..m : n \in T
    <3> HIDE DEF T
    <3> QED
      BY <2>3, <2>4, UpTo
  <2> QED
    BY <2>2, <2>3, <2>5
<1>4. Begun(y, rows, e) /\ Written(y, rows, e)
  BY <1>1, <1>2, <1>3 DEF Begun, Written
<1> QED
  BY <1>1, <1>4 DEF Trial

LEMMA LaterTrial ==
    ASSUME NEW rows, NEW e, NEW x \in Trials, NEW instant \in Nat, Trial(x, rows, e, instant)
    PROVE  Trial(x, rows, e, instant + 1)
BY DEF Trial, Trials

\* The rows of a market are its experiment's own.
LEMMA MarketTrial ==
    ASSUME NEW rows \in Seq(Rows), NEW new \in Seq(Rows), NEW c \in Rows, NEW e, NEW x, NEW y, NEW m,
           NEW instant \in Nat, Tried(x, rows, e, instant), Adding(rows, new, c), Flushes(x, y, c, e, m, instant)
    PROVE  Tried(y, new, e, instant + 1)
<1> USE DEF Tried, Flushes
<1>1. y.pc = "flushed" /\ y.start = x.start /\ y.made = x.made + c.rows /\ y \in Trials /\ x.start \in Nat /\ x.made \in Nat
  <2>1. x.made + c.rows \in Nat /\ x.start \in Nat /\ x.made \in Nat
    BY RowIs, TrialIs
  <2>2. y.pc = "flushed" /\ y.start = x.start /\ y.made = x.made + c.rows
    BY DEF Trials
  <2>3. y \in Trials
    BY <2>1 DEF Trials
  <2> QED
    BY <2>1, <2>2, <2>3
<1>2. x.start <= instant /\ Begun(x, rows, e) /\ Written(x, rows, e)
  BY DEF Trial
<1>3. Len(rows) \in Nat /\ Len(new) = Len(rows) + 1 /\ new[Len(rows) + 1] = c
  BY DEF Adding
<1>4. \A i \in 1..Len(new) : (i \in 1..Len(rows) /\ new[i] = rows[i]) \/ i = Len(rows) + 1
  BY <1>3 DEF Adding
<1>5. y.start # c.at /\ c.at > y.start /\ y.start <= instant + 1
  BY <1>1, <1>2
<1>6. Begun(y, new, e)
  BY <1>1, <1>2, <1>3, <1>4, <1>5 DEF Begun
<1>7. Total(OwnRows(new, e)) = y.made
  <2>1. Total(OwnRows(new, e)) = Total(OwnRows(rows, e)) + c.rows
    BY OwnAdded
  <2> QED
    BY <1>1, <1>2, <2>1 DEF Written
<1>8. Written(y, new, e)
  BY <1>1, <1>2, <1>3, <1>4, <1>7 DEF Written
<1> QED
  BY <1>1, <1>5, <1>6, <1>8 DEF Trial

\* The commit reaches every row that was written.
LEMMA CommitTrial ==
    ASSUME NEW rows, NEW new, NEW e, NEW x, NEW y, NEW instant, Tried(x, rows, e, instant), Commits(rows, new, e, x, y)
    PROVE  Tried(y, new, e, instant)
<1> USE DEF Tried, Commits
<1>1. y.pc = "fetch" /\ y.start = x.start /\ y.made = x.made /\ y \in Trials
  BY DEF Trials
<1>2. x.start <= instant /\ Begun(x, rows, e) /\ Written(x, rows, e)
  BY DEF Trial
<1>3. OwnRows(new, e) = OwnRows(rows, e)
  BY DEF OwnRows
<1>4. Begun(y, new, e) /\ Written(y, new, e)
  BY <1>1, <1>2, <1>3 DEF Begun, Written
<1> QED
  BY <1>1, <1>2, <1>4 DEF Trial

LEMMA FailTrial ==
    ASSUME NEW rows, NEW new, NEW e, NEW x, NEW y, NEW instant, Tried(x, rows, e, instant), Fails(rows, new, x, y)
    PROVE  Tried(y, new, e, instant)
<1> USE DEF Tried, Fails
<1>1. y.pc = "failed" /\ y.start = x.start /\ y \in Trials
  BY DEF Trials
<1> QED
  BY <1>1 DEF Trial, Begun

\* The answer counts every row of the experiment, and one of another only when it is later.
LEMMA ReportTrial ==
    ASSUME NEW rows \in Seq(Rows), NEW e, NEW x, NEW y, NEW instant, Tried(x, rows, e, instant),
           NEW counted \in Seq(Int), NEW top \in Int, Counts(counted, rows, x, y, top)
    PROVE  Tried(y, rows, e, instant)
<1> USE DEF Tried, Counts
<1>1. Total(counted) \in Int
  BY SumsAre
<1>2. y.pc = "done" /\ y.start = x.start /\ y.made = x.made /\ y.answer.total = Total(counted) /\ y \in Trials
  BY <1>1 DEF Trials
<1>3. x.start <= instant /\ Begun(x, rows, e) /\ Written(x, rows, e)
  BY DEF Trial
<1> PICK own : own = OwnRows(rows, e)
  OBVIOUS
<1>4. /\ own \in Seq(Int) /\ Len(own) = Len(rows) /\ Len(rows) \in Nat /\ Total(own) = x.made /\ Total(own) \in Int
      /\ \A i \in 1..Len(rows) : own[i] = (IF rows[i].by = e THEN rows[i].rows ELSE 0) /\ rows[i].rows \in Nat
  BY <1>3, OwnIs, SumsAre DEF Written
<1>5. \A i \in 1..Len(rows) : rows[i].by = e => rows[i].state = "committed" /\ rows[i].at >= x.start
  <2> SUFFICES ASSUME NEW i \in 1..Len(rows), rows[i].by = e
               PROVE  rows[i].state = "committed" /\ rows[i].at >= x.start
    OBVIOUS
  <2>1. rows[i].at > x.start /\ rows[i].at \in Nat /\ x.start \in Nat
    BY <1>3, RowsAre, TrialIs DEF Begun
  <2> QED
    BY <1>3, <2>1 DEF Written
<1>6. Total(own) <= Total(counted)
  <2>1. \A i \in 1..Len(own) : own[i] <= counted[i]
    BY <1>4, <1>5
  <2>2. Len(own) = Len(counted) /\ counted \in Seq(Int)
    BY <1>4
  <2> QED
    BY ONLY <1>4, <2>1, <2>2, SumsAtMost
<1>7. ASSUME ~\E i \in 1..Len(rows) : rows[i].by # e /\ rows[i].at > x.start PROVE Total(counted) <= Total(own)
  <2>1. \A i \in 1..Len(rows) : counted[i] <= own[i]
    <3> SUFFICES ASSUME NEW i \in 1..Len(rows) PROVE counted[i] <= own[i]
      OBVIOUS
    <3>1. rows[i].at # x.start /\ rows[i].at \in Nat /\ x.start \in Nat
      BY <1>3, RowsAre, TrialIs DEF Begun
    <3>2. rows[i].at >= x.start => rows[i].by = e
      BY <1>7, <3>1
    <3>3. own[i] = (IF rows[i].by = e THEN rows[i].rows ELSE 0) /\ rows[i].rows \in Nat
      BY <1>4
    <3>4. counted[i] = IF rows[i].state = "committed" /\ rows[i].at >= x.start THEN rows[i].rows ELSE 0
      OBVIOUS
    <3> QED
      BY ONLY <3>2, <3>3, <3>4
  <2>2. Len(counted) = Len(own) /\ counted \in Seq(Int) /\ \A i \in 1..Len(counted) : counted[i] <= own[i]
    BY <1>4, <2>1
  <2> QED
    BY ONLY <1>4, <2>2, SumsAtMost
<1>8. Answered(y, rows, e)
  BY <1>1, <1>2, <1>4, <1>6, <1>7 DEF Answered
<1>9. Begun(y, rows, e) /\ Written(y, rows, e)
  BY <1>2, <1>3, <1>5 DEF Begun, Written
<1> QED
  BY <1>2, <1>3, <1>8, <1>9 DEF Trial

\* Some of the candidates, counted.
LEMMA SizedIs ==
    ASSUME NEW e, candidates \in Seq(Rows), NEW numbers \in [1..Len(candidates) -> Nat]
    PROVE  \E counted \in Seq(Int) :
              /\ Len(counted) = Len(candidates) /\ Sized(e, numbers) = Total(counted) /\ Total(counted) \in Int
              /\ \A i \in 1..Len(candidates) :
                     counted[i] = IF candidates[i].state = "committed" /\ candidates[i].at >= experiments[e].start
                                  THEN numbers[i] ELSE 0
<1> PICK counted : counted = [i \in DOMAIN candidates |-> IF i \in Since(e) THEN numbers[i] ELSE 0]
  OBVIOUS
<1>1. DOMAIN candidates = 1..Len(candidates) /\ Len(candidates) \in Nat
  OBVIOUS
<1>2. counted \in [1..Len(candidates) -> Int]
  BY <1>1
<1>3. counted \in Seq(Int) /\ Len(counted) = Len(candidates)
  BY ONLY <1>1, <1>2, AsSeq
<1>4. \A i \in 1..Len(candidates) :
          counted[i] = IF candidates[i].state = "committed" /\ candidates[i].at >= experiments[e].start
                       THEN numbers[i] ELSE 0
  BY <1>1 DEF Since
<1>5. Sized(e, numbers) = Total(counted)
  BY DEF Sized
<1> QED
  BY <1>3, <1>4, <1>5, SumsAre

LEMMA ExperimentStart ==
    ASSUME ExperimentInv, NEW e \in Researchers, StartExperiment(e) PROVE ExperimentInv'
<1> PICK rows : rows = candidates
  OBVIOUS
<1> PICK instant : instant = steps
  OBVIOUS
<1> PICK trials : trials = experiments
  OBVIOUS
<1>1. rows \in Seq(Rows) /\ instant \in Nat /\ trials \in [Researchers -> Trials]
      /\ (\A i \in 1..Len(rows) : rows[i].at <= instant) /\ \A ee \in Researchers : Trial(trials[ee], rows, ee, instant)
  BY DEF ExperimentInv
<1>2. Len(rows) \in Nat /\ \A i \in 1..Len(rows) : rows[i].at \in Nat
  BY <1>1, RowsAre
<1> PICK y : y = [NoExperiment EXCEPT !.pc = "fetch", !.start = instant + 1, !.todo = Markets]
  OBVIOUS
<1>3. trials[e].pc = "idle" /\ candidates' = rows /\ steps' = instant + 1 /\ experiments' = [trials EXCEPT ![e] = y]
  BY DEF StartExperiment
<1>4. Tried(y, rows, e, instant + 1)
  <2>1. Tried(trials[e], rows, e, instant)
    BY <1>1 DEF Tried
  <2>2. Starts(trials[e], y, instant) /\ Before(rows, instant)
    BY <1>1, <1>3 DEF Starts, Before
  <2> QED
    BY <1>1, <2>1, <2>2, StartTrial
<1>5. \A ee \in Researchers : Trial(trials[ee], rows, ee, instant + 1)
  BY <1>1, LaterTrial
<1> PICK others : others = [trials EXCEPT ![e] = y]
  OBVIOUS
<1>6. others \in [Researchers -> Trials] /\ \A ee \in Researchers : Trial(others[ee], rows, ee, instant + 1)
  BY <1>1, <1>4, <1>5 DEF Tried
<1>7. instant + 1 \in Nat /\ \A i \in 1..Len(rows) : rows[i].at <= instant + 1
  BY <1>1, <1>2
<1>8. experiments' = others
  BY <1>3
<1> QED
  BY ONLY <1>1, <1>3, <1>6, <1>7, <1>8 DEF ExperimentInv

LEMMA ExperimentMarket ==
    ASSUME ExperimentInv, NEW e \in Researchers, NEW market \in Markets, SimulateMarket(e, market)
    PROVE  ExperimentInv'
<1> PICK rows : rows = candidates
  OBVIOUS
<1> PICK instant : instant = steps
  OBVIOUS
<1> PICK trials : trials = experiments
  OBVIOUS
<1>1. rows \in Seq(Rows) /\ instant \in Nat /\ trials \in [Researchers -> Trials]
      /\ (\A i \in 1..Len(rows) : rows[i].at <= instant) /\ \A ee \in Researchers : Trial(trials[ee], rows, ee, instant)
  BY DEF ExperimentInv
<1>2. Len(rows) \in Nat /\ \A i \in 1..Len(rows) : rows[i].at \in Nat
  BY <1>1, RowsAre
<1> PICK count : count = IF market \in Short THEN 0 ELSE Min({Cardinality(Configs), MaxRuns - trials[e].made})
  OBVIOUS
<1>3. PICK chosen \in kSubset(count, Configs) :
         candidates' = Append(rows, [by |-> e, at |-> instant + 1, rows |-> count, state |-> "flushed",
                                     accepted |-> Cardinality(chosen \cap Accepted[market])])
  BY DEF SimulateMarket
<1> PICK c : c = [by |-> e, at |-> instant + 1, rows |-> count, state |-> "flushed",
                  accepted |-> Cardinality(chosen \cap Accepted[market])]
  OBVIOUS
<1>4. c \in Rows
  <2>1. chosen \in SUBSET Configs /\ Cardinality(chosen) = count
    BY DEF kSubset
  <2>2. IsFiniteSet(chosen)
    BY <2>1, FS_Subset, BacktestAssumption
  <2>3. IsFiniteSet(chosen \cap Accepted[market])
    BY <2>2, FS_Subset
  <2>4. count \in Nat /\ Cardinality(chosen \cap Accepted[market]) \in Nat
    BY <2>1, <2>2, <2>3, FS_CardinalityType
  <2> QED
    BY <1>1, <2>4 DEF Rows
<1> PICK new : new = Append(rows, c)
  OBVIOUS
<1> PICK y : y = [trials[e] EXCEPT !.pc = "flushed", !.todo = @ \ {market}, !.made = @ + c.rows]
  OBVIOUS
<1> PICK others : others = [trials EXCEPT ![e] = y]
  OBVIOUS
<1>5. trials[e].pc = "fetch" /\ candidates' = new /\ steps' = instant + 1 /\ c.by = e /\ c.at = instant + 1
      /\ c.state = "flushed" /\ c.rows = count
  BY <1>3 DEF SimulateMarket
<1>6. experiments' = others
  <2>1. experiments' = [trials EXCEPT ![e].pc = "flushed", ![e].todo = @ \ {market}, ![e].made = @ + count]
    BY DEF SimulateMarket
  <2> QED
    BY <1>1, <1>5, <2>1
<1>7. new \in Seq(Rows) /\ Adding(rows, new, c)
  BY <1>1, <1>4, AddingIs
<1>8. Tried(trials[e], rows, e, instant)
  BY <1>1 DEF Tried
<1>9. Tried(y, new, e, instant + 1)
  <2> PICK x : x = trials[e]
    OBVIOUS
  <2>1. y = [x EXCEPT !.pc = "flushed", !.todo = @ \ {market}, !.made = @ + c.rows]
    OBVIOUS
  <2>2. Flushes(x, y, c, e, market, instant)
    BY ONLY <1>5, <2>1, x = trials[e] DEF Flushes
  <2>3. rows \in Seq(Rows) /\ instant \in Nat /\ Tried(x, rows, e, instant)
    BY <1>1, <1>8
  <2> QED
    BY ONLY <1>4, <1>7, <2>2, <2>3, MarketTrial
<1>10. \A ee \in Researchers \ {e} : Trial(trials[ee], new, ee, instant + 1)
  <2> SUFFICES ASSUME NEW ee \in Researchers \ {e} PROVE Trial(trials[ee], new, ee, instant + 1)
    OBVIOUS
  <2> PICK x : x = trials[ee]
    OBVIOUS
  <2>1. x \in Trials /\ Trial(x, rows, ee, instant)
    BY <1>1
  <2>2. rows \in Seq(Rows) /\ instant \in Nat /\ c.by # ee /\ c.at = instant + 1
    BY <1>1, <1>5
  <2>3. Trial(x, new, ee, instant + 1)
    BY ONLY <1>4, <1>7, <2>1, <2>2, TrialAdded
  <2> QED
    BY <2>3
<1>11. others \in [Researchers -> Trials] /\ \A ee \in Researchers : Trial(others[ee], new, ee, instant + 1)
  BY <1>1, <1>9, <1>10 DEF Tried
<1>12. instant + 1 \in Nat /\ \A i \in 1..Len(new) : new[i].at <= instant + 1
  <2>1. \A i \in 1..Len(new) : (i \in 1..Len(rows) /\ new[i] = rows[i]) \/ new[i] = c
    BY <1>2, <1>7 DEF Adding
  <2> QED
    BY <1>1, <1>2, <1>5, <2>1
<1> QED
  BY ONLY <1>5, <1>6, <1>7, <1>11, <1>12 DEF ExperimentInv

LEMMA ExperimentCommit ==
    ASSUME ExperimentInv, NEW e \in Researchers, CommitMarket(e) PROVE ExperimentInv'
<1> PICK rows : rows = candidates
  OBVIOUS
<1> PICK instant : instant = steps
  OBVIOUS
<1> PICK trials : trials = experiments
  OBVIOUS
<1>1. rows \in Seq(Rows) /\ instant \in Nat /\ trials \in [Researchers -> Trials]
      /\ (\A i \in 1..Len(rows) : rows[i].at <= instant) /\ \A ee \in Researchers : Trial(trials[ee], rows, ee, instant)
  BY DEF ExperimentInv
<1>2. Len(rows) \in Nat /\ DOMAIN rows = 1..Len(rows) /\ \A i \in 1..Len(rows) : rows[i] \in Rows
  BY <1>1
<1> PICK new : new = [i \in 1..Len(rows) |-> IF rows[i].by = e THEN [rows[i] EXCEPT !.state = "committed"] ELSE rows[i]]
  OBVIOUS
<1> PICK y : y = [trials[e] EXCEPT !.pc = "fetch"]
  OBVIOUS
<1> PICK others : others = [trials EXCEPT ![e] = y]
  OBVIOUS
<1>3. trials[e].pc = "flushed" /\ candidates' = new /\ steps' = instant /\ experiments' = others
  BY <1>1, <1>2 DEF CommitMarket
<1>4. \A i \in 1..Len(rows) : /\ new[i] \in Rows
                              /\ new[i].by = rows[i].by /\ new[i].at = rows[i].at /\ new[i].rows = rows[i].rows
                              /\ rows[i].by = e => new[i].state = "committed"
                              /\ rows[i].by # e => new[i] = rows[i]
  BY <1>2 DEF Rows
<1>5. new \in Seq(Rows) /\ Len(new) = Len(rows)
  <2>1. new \in [1..Len(rows) -> Rows]
    BY <1>4
  <2> QED
    BY ONLY <1>2, <2>1, AsSeq
<1>6. Tried(y, new, e, instant)
  <2>1. Tried(trials[e], rows, e, instant)
    BY <1>1 DEF Tried
  <2>2. Commits(rows, new, e, trials[e], y)
    BY <1>3, <1>4, <1>5 DEF Commits
  <2> QED
    BY <2>1, <2>2, CommitTrial
<1>7. \A ee \in Researchers \ {e} : Restated(rows, new, ee)
  BY <1>4, <1>5 DEF Restated
<1>8. \A ee \in Researchers \ {e} : Trial(trials[ee], new, ee, instant)
  BY <1>1, <1>7, TrialRestated
<1>9. others \in [Researchers -> Trials] /\ \A ee \in Researchers : Trial(others[ee], new, ee, instant)
  BY <1>1, <1>6, <1>8 DEF Tried
<1>10. \A i \in 1..Len(new) : new[i].at <= instant
  BY <1>1, <1>4, <1>5
<1> QED
  BY ONLY <1>1, <1>3, <1>5, <1>9, <1>10 DEF ExperimentInv

LEMMA ExperimentFail ==
    ASSUME ExperimentInv, NEW e \in Researchers, FailExperiment(e) PROVE ExperimentInv'
<1> PICK rows : rows = candidates
  OBVIOUS
<1> PICK instant : instant = steps
  OBVIOUS
<1> PICK trials : trials = experiments
  OBVIOUS
<1>1. rows \in Seq(Rows) /\ instant \in Nat /\ trials \in [Researchers -> Trials]
      /\ (\A i \in 1..Len(rows) : rows[i].at <= instant) /\ \A ee \in Researchers : Trial(trials[ee], rows, ee, instant)
  BY DEF ExperimentInv
<1>2. Len(rows) \in Nat /\ DOMAIN rows = 1..Len(rows) /\ \A i \in 1..Len(rows) : rows[i] \in Rows
  BY <1>1
<1> PICK new : new = [i \in 1..Len(rows) |-> IF rows[i].by = e /\ rows[i].state = "flushed"
                                             THEN [rows[i] EXCEPT !.state = "rolled_back"] ELSE rows[i]]
  OBVIOUS
<1> PICK y : y = [trials[e] EXCEPT !.pc = "failed"]
  OBVIOUS
<1> PICK others : others = [trials EXCEPT ![e] = y]
  OBVIOUS
<1>3. trials[e].pc # "idle" /\ candidates' = new /\ steps' = instant /\ experiments' = others
  BY <1>1, <1>2 DEF FailExperiment
<1>4. \A i \in 1..Len(rows) : /\ new[i] \in Rows
                              /\ new[i].by = rows[i].by /\ new[i].at = rows[i].at /\ new[i].rows = rows[i].rows
                              /\ rows[i].by # e => new[i] = rows[i]
  BY <1>2 DEF Rows
<1>5. new \in Seq(Rows) /\ Len(new) = Len(rows)
  <2>1. new \in [1..Len(rows) -> Rows]
    BY <1>4
  <2> QED
    BY ONLY <1>2, <2>1, AsSeq
<1>6. Tried(y, new, e, instant)
  <2>1. Tried(trials[e], rows, e, instant)
    BY <1>1 DEF Tried
  <2>2. Fails(rows, new, trials[e], y)
    BY <1>3, <1>4, <1>5 DEF Fails
  <2> QED
    BY <2>1, <2>2, FailTrial
<1>7. \A ee \in Researchers \ {e} : Restated(rows, new, ee)
  BY <1>4, <1>5 DEF Restated
<1>8. \A ee \in Researchers \ {e} : Trial(trials[ee], new, ee, instant)
  BY <1>1, <1>7, TrialRestated
<1>9. others \in [Researchers -> Trials] /\ \A ee \in Researchers : Trial(others[ee], new, ee, instant)
  BY <1>1, <1>6, <1>8 DEF Tried
<1>10. \A i \in 1..Len(new) : new[i].at <= instant
  BY <1>1, <1>4, <1>5
<1> QED
  BY ONLY <1>1, <1>3, <1>5, <1>9, <1>10 DEF ExperimentInv

LEMMA ExperimentReport ==
    ASSUME ExperimentInv, NEW e \in Researchers, ReportExperiment(e) PROVE ExperimentInv'
<1> PICK rows : rows = candidates
  OBVIOUS
<1> PICK instant : instant = steps
  OBVIOUS
<1> PICK trials : trials = experiments
  OBVIOUS
<1>1. rows \in Seq(Rows) /\ instant \in Nat /\ trials \in [Researchers -> Trials]
      /\ (\A i \in 1..Len(rows) : rows[i].at <= instant) /\ \A ee \in Researchers : Trial(trials[ee], rows, ee, instant)
  BY DEF ExperimentInv
<1>2. candidates \in Seq(Rows) /\ DOMAIN candidates = 1..Len(candidates)
      /\ \A i \in 1..Len(candidates) : candidates[i].rows \in Nat /\ candidates[i].accepted \in Nat
  BY <1>1, RowsAre
<1> PICK sizes : sizes = [i \in DOMAIN candidates |-> candidates[i].rows]
  OBVIOUS
<1> PICK accepted : accepted = [i \in DOMAIN candidates |-> candidates[i].accepted]
  OBVIOUS
<1>3. sizes \in [1..Len(candidates) -> Nat] /\ accepted \in [1..Len(candidates) -> Nat]
      /\ \A i \in 1..Len(candidates) : sizes[i] = candidates[i].rows
  BY <1>2
<1>4. PICK counted \in Seq(Int) :
         /\ Len(counted) = Len(candidates) /\ Sized(e, sizes) = Total(counted)
         /\ \A i \in 1..Len(candidates) :
                counted[i] = IF candidates[i].state = "committed" /\ candidates[i].at >= experiments[e].start
                             THEN sizes[i] ELSE 0
  BY ONLY <1>2, <1>3, SizedIs
<1> PICK top : top = Sized(e, accepted)
  OBVIOUS
<1>5. top \in Int
  <2>1. \E others \in Seq(Int) : Sized(e, accepted) = Total(others) /\ Total(others) \in Int
    BY ONLY <1>2, <1>3, SizedIs
  <2> QED
    BY ONLY <2>1, top = Sized(e, accepted)
<1> PICK y : y = [trials[e] EXCEPT !.pc = "done", !.answer = [total |-> Total(counted), top |-> top]]
  OBVIOUS
<1> PICK others : others = [trials EXCEPT ![e] = y]
  OBVIOUS
<1>6. trials[e].pc = "fetch" /\ candidates' = rows /\ steps' = instant
  BY DEF ReportExperiment
<1>7. experiments' = others
  <2>1. experiments' = [trials EXCEPT ![e].pc = "done", ![e].answer = [total |-> Sized(e, sizes), top |-> top]]
    BY DEF ReportExperiment
  <2> QED
    BY <1>1, <1>4, <2>1
<1>8. Tried(y, rows, e, instant)
  <2>1. Tried(trials[e], rows, e, instant)
    BY <1>1 DEF Tried
  <2>2. Len(counted) = Len(rows)
        /\ \A i \in 1..Len(rows) :
               counted[i] = IF rows[i].state = "committed" /\ rows[i].at >= trials[e].start THEN rows[i].rows ELSE 0
    BY <1>3, <1>4
  <2>3. Counts(counted, rows, trials[e], y, top)
    BY <1>6, <2>2 DEF Counts
  <2> QED
    BY <1>1, <1>5, <2>1, <2>3, ReportTrial
<1>9. others \in [Researchers -> Trials] /\ \A ee \in Researchers : Trial(others[ee], rows, ee, instant)
  BY <1>1, <1>8 DEF Tried
<1> QED
  BY ONLY <1>1, <1>6, <1>7, <1>9 DEF ExperimentInv

LEMMA ExperimentStep ==
    ASSUME ExperimentInv, [BacktestNext]_<<researchVars, experimentVars>> PROVE ExperimentInv'
<1>1. CASE UNCHANGED experimentVars
  BY <1>1 DEF ExperimentInv, experimentVars
<1>2. CASE NewCandle \/ RunBacktest
  BY <1>1, <1>2 DEF NewCandle, RunBacktest
<1>3. ASSUME NEW e \in Researchers,
             \/ StartExperiment(e) \/ CommitMarket(e) \/ ReportExperiment(e) \/ FailExperiment(e)
             \/ \E market \in Markets : SimulateMarket(e, market)
      PROVE  ExperimentInv'
  BY <1>3, ExperimentStart, ExperimentCommit, ExperimentReport, ExperimentFail, ExperimentMarket
<1> QED
  BY <1>1, <1>2, <1>3 DEF BacktestNext

LEMMA TrueExperiments == ExperimentInv => ExperimentsReported
<1> SUFFICES ASSUME ExperimentInv, NEW e \in Researchers, experiments[e].pc = "done"
             PROVE  /\ experiments[e].answer.total >= experiments[e].made
                    /\ experiments[e].answer.total > experiments[e].made =>
                          \E i \in DOMAIN candidates : candidates[i].by # e /\ candidates[i].at > experiments[e].start
  BY DEF ExperimentsReported
<1>1. Answered(experiments[e], candidates, e)
  BY DEF ExperimentInv, Trial
<1>2. DOMAIN candidates = 1..Len(candidates)
  BY DEF ExperimentInv
<1> QED
  BY <1>1, <1>2 DEF Answered

LEMMA TrueReport == ResearchInv /\ ExperimentInv => ReportTrue
<1> SUFFICES ASSUME ResearchInv, ExperimentInv PROVE ReportTrue
  OBVIOUS
<1>1. ASSUME report # << >>, report.candles = Len(tape)
      PROVE  /\ TradesDisjoint(report) /\ MetricsTrue(report) /\ ShufflesAgree(report)
             /\ TestOutOfSample(report) /\ CandidateEarns(report)
  <2>1. tape \in Seq(Bars) /\ config \in Params /\ report = RunOf(SubSeq(tape, 1, Len(tape)), config)
    BY <1>1 DEF ResearchInv
  <2>2. report = RunOf(tape, config)
    BY <2>1, Whole
  <2>3. Reports(report, config)
    BY <2>1, <2>2, RunIs
  <2> QED
    BY <2>1, <2>3, DisjointTrades, TrueMetrics, AgreeingShuffles, OutOfSample, EarningCandidate
<1>2. ExperimentsReported
  BY TrueExperiments
<1> QED
  BY <1>1, <1>2 DEF ReportTrue

\* A report on the candles there are says what is true of its backtest: its trades follow each
\* other and their running sum is the curve, the drawdown and the streak are the greatest, every
\* shuffle ends at the same equity, the test stays behind the split, an accepted candidate
\* earned; and an experiment answers with every candidate it wrote (BacktestService.run,
\* ExperimentRunnerService.run).
THEOREM ReportsAreTrue == BacktestSpec => []ReportTrue
<1>1. BacktestInit => ResearchInv /\ ExperimentInv
  BY ResearchInit, ExperimentInit
<1>2. ResearchInv /\ ExperimentInv /\ [BacktestNext]_<<researchVars, experimentVars>> => ResearchInv' /\ ExperimentInv'
  BY ResearchStep, ExperimentStep
<1>3. ResearchInv /\ ExperimentInv => ReportTrue
  BY TrueReport
<1> QED
  BY <1>1, <1>2, <1>3, PTL DEF BacktestSpec

\* Candles that come later change no trade a backtest has settled but one that the end of its
\* data closed: no signal looks at a candle to come (BacktestService.simulate).
THEOREM NoneLooksAhead == BacktestSpec => NoHindsight
<1>1. ASSUME ResearchInv, [BacktestNext]_<<researchVars, experimentVars>>
      PROVE  [(report # << >> /\ report' # report) =>
                 /\ IsPrefix(Final(report.trades), report'.trades)
                 /\ Len(report.curve) = Len(report.trades) + 1]_researchVars
  <2>1. CASE RunBacktest
    BY <1>1, <2>1, LaterRun
  <2>2. CASE ~RunBacktest
    <3>1. report' = report
      BY <1>1, <2>2 DEF BacktestNext, NewCandle, StartExperiment, CommitMarket, ReportExperiment, FailExperiment,
                        SimulateMarket, researchVars, experimentVars
    <3> QED
      BY <3>1
  <2> QED
    BY <2>1, <2>2
<1>2. BacktestInit => ResearchInv
  BY ResearchInit
<1>3. ResearchInv /\ [BacktestNext]_<<researchVars, experimentVars>> => ResearchInv'
  BY ResearchStep
<1> QED
  BY <1>1, <1>2, <1>3, PTL DEF BacktestSpec, NoHindsight
=============================================================================
