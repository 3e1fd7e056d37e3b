--------------------------- MODULE MarketFeedProofs ----------------------------
(***************************************************************************)
(* Proofs about MarketFeed for any exchanges, pairs, books and bounds: the *)
(* scanner does one thing at a time, and an entry confirms a fresh first   *)
(* signal, is backed by enough fresh books and respects the rest of a      *)
(* losing side.                                                            *)
(***************************************************************************)
EXTENDS MarketFeed, FiniteSetTheorems, WellFoundedInduction, TLAPS

-----------------------------------------------------------------------------
\* The shapes TypeOK takes for granted.
Tasks == {Idle, [state |-> "evaluating"]} \cup [state: {"waiting"}, asked: Nat]
Entries == [book: [src: Int, imb: Int, mid: Int, kind: {"ok", "wide", "spot", "broken"}],
            received: Int, took: Int]
Points == [src: Int, mid: Int]
SignalsOK(signals) == \A f \in signals : f.side \in Sides /\ f.at \in Nat

ShapeOK ==
    /\ now \in Nat
    /\ due \in [Pairs -> Nat]
    /\ task \in [Pairs -> Tasks]
    /\ worker \in [Exchanges -> {None} \cup [pair: Pairs, asked: Nat]]
    /\ threads \in [Exchanges -> Int]
    /\ store \in [Pairs -> {NoBook} \cup Entries]
    /\ points \in [Pairs -> Seq(Points)]
    /\ trades \in Seq(ClosedTrades)
    /\ SignalsOK(first)

\* A task that waits has not waited longer than its timeout, one that evaluates has
\* stored its book, and only one does.
TasksOK ==
    /\ \A p \in Pairs :
          /\ task[p].state = "waiting" => task[p].asked <= now /\ now <= task[p].asked + Timeout
          /\ task[p].state = "evaluating" => store[p] # NoBook
    /\ \A p, q \in Pairs :
          task[p].state = "evaluating" /\ task[q].state = "evaluating" => p = q
\* A thread that runs is the exchange's request that is not finished.
ThreadsOK ==
    \A e \in Exchanges : threads[e] <= 1 /\ (worker[e] = None => threads[e] <= 0)
StoreOK == \A p \in Stored : store[p].took <= Timeout

FeedInv == ShapeOK /\ TypeOK /\ TasksOK /\ ThreadsOK /\ StoreOK

-----------------------------------------------------------------------------
\* Operators.
LEMMA Booked == \A entry \in Entries : entry # NoBook
BY DEF Entries, NoBook

LEMMA RecordKept ==
    ASSUME NEW h \in Seq(Points), Len(h) <= Window, NEW book, book.src \in Int, book.mid \in Int
    PROVE  Record(h, book) \in Seq(Points) /\ Len(Record(h, book)) <= Window
<1> DEFINE new == [src |-> book.src, mid |-> book.mid]
           all == Append(h, new)
           from == IF Len(all) > Window THEN Len(all) - Window + 1 ELSE 1
<1>1. new \in Points
  BY DEF Points
<1>2. all \in Seq(Points) /\ Len(all) = Len(h) + 1 /\ Len(h) \in Nat
  BY <1>1
<1>3. Window \in Nat \ {0}
  BY WindowAssumption
<1>4. from \in 1..Len(all)
  BY <1>2, <1>3
<1> HIDE DEF new, all, from
<1>5. SubSeq(all, from, Len(all)) \in Seq(Points)
  BY <1>2, <1>4
<1>6. Len(SubSeq(all, from, Len(all))) = Len(all) - from + 1
  BY <1>2, <1>4
<1>7. Len(all) - from + 1 <= Window
  BY <1>2, <1>3 DEF from
<1>8. Record(h, book) \in {h, SubSeq(all, from, Len(all))}
  BY DEF Record, all, from, new
<1> QED
  BY <1>5, <1>6, <1>7, <1>8

LEMMA NextPointsKept ==
    ASSUME ShapeOK, NEW p \in Stored, Len(points[p]) <= Window, NEW at
    PROVE  NextPoints(p, at) \in Seq(Points) /\ Len(NextPoints(p, at)) <= Window
<1>1. p \in Pairs /\ store[p] \in Entries /\ points[p] \in Seq(Points)
  BY DEF ShapeOK, Stored
<1>2. store[p].book.src \in Int /\ store[p].book.mid \in Int
  BY <1>1 DEF Entries
<1> QED
  BY <1>1, <1>2, RecordKept DEF NextPoints, Recorded

LEMMA TasksKind ==
    ASSUME NEW x \in Tasks
    PROVE  /\ x.state \in {"idle", "waiting", "evaluating"}
           /\ x.state = "waiting" => x.asked \in Nat
BY DEF Tasks, Idle

-----------------------------------------------------------------------------
\* The scanner.
LEMMA InitFeed == Init => FeedInv
<1> SUFFICES ASSUME Init PROVE FeedInv
  OBVIOUS
<1>1. ShapeOK
  BY FeedAssumption DEF Init, ShapeOK, SignalsOK, Tasks, Idle
<1>2. TypeOK
  BY FeedAssumption, WindowAssumption DEF Init, TypeOK, Idle, Exchanges
<1>3. TasksOK /\ ThreadsOK /\ StoreOK
  BY DEF Init, TasksOK, ThreadsOK, StoreOK, Stored, Idle
<1> QED
  BY <1>1, <1>2, <1>3 DEF FeedInv

LEMMA CycleInv == ASSUME FeedInv, Cycle, on' = on PROVE FeedInv'
<1> USE DEF FeedInv
<1> PICK begun \in SUBSET {p \in Pairs : Due(p)} :
      /\ \A p \in Pairs : Due(p) /\ worker[ExchangeOf[p]] = None =>
            Cardinality({q \in begun : ExchangeOf[q] = ExchangeOf[p]}) = 1
      /\ \A p \in begun : worker[ExchangeOf[p]] = None
      /\ due' = [p \in Pairs |-> IF Due(p) THEN now + Interval ELSE due[p]]
      /\ task' = [p \in Pairs |-> IF p \in begun THEN [state |-> "waiting", asked |-> now]
                                                 ELSE task[p]]
      /\ worker' = [e \in Exchanges |->
                      IF \E p \in begun : ExchangeOf[p] = e
                      THEN [pair |-> CHOOSE p \in begun : ExchangeOf[p] = e, asked |-> now]
                      ELSE worker[e]]
      /\ threads' = [e \in Exchanges |->
                       threads[e] + Cardinality({p \in begun : ExchangeOf[p] = e})]
  BY DEF Cycle
<1>1. /\ now' = now /\ store' = store /\ points' = points /\ trades' = trades /\ first' = first
      /\ eval' = eval /\ pending' = pending /\ open' = open /\ active' = active /\ on' = on
  BY DEF Cycle, strategy
<1>2. now \in Nat /\ Interval \in Nat /\ Timeout \in Nat /\ MaxTime \in Nat
  BY FeedAssumption DEF ShapeOK
<1>3. \A p \in Pairs : task'[p] = IF p \in begun THEN [state |-> "waiting", asked |-> now]
                                                 ELSE task[p]
  OBVIOUS
<1>4. \A p \in Pairs : task'[p].state = "waiting" => \/ task'[p].asked = now
                                                     \/ task'[p] = task[p]
  BY <1>3
<1>5. \A p \in Pairs : task'[p].state = "evaluating" => task'[p] = task[p]
  BY <1>3
<1>6. ASSUME NEW e \in Exchanges
      PROVE  /\ Cardinality({p \in begun : ExchangeOf[p] = e}) \in Int
             /\ threads'[e] \in Int /\ threads'[e] <= 1
             /\ worker'[e] = None => threads'[e] <= 0
             /\ worker'[e] \in {None} \cup [pair: Pairs, asked: Nat]
  <2> DEFINE mine == {p \in begun : ExchangeOf[p] = e}
  <2>1. threads'[e] = threads[e] + Cardinality(mine) /\ threads[e] \in Int
    BY DEF ShapeOK
  <2>2. CASE \E p \in begun : ExchangeOf[p] = e
    <3>1. worker[e] = None /\ Cardinality(mine) = 1
      BY <2>2
    <3>2. PICK q \in Pairs : q = CHOOSE p \in begun : ExchangeOf[p] = e
      BY <2>2
    <3>3. worker'[e] = [pair |-> q, asked |-> now]
      BY <2>2, <3>2
    <3>4. threads'[e] <= 1
      BY <2>1, <3>1 DEF ThreadsOK
    <3>5. worker'[e] \in [pair: Pairs, asked: Nat] /\ worker'[e] # None
      BY ONLY <1>2, <3>3, FeedAssumption
    <3>6. threads'[e] \in Int /\ Cardinality(mine) \in Int
      BY ONLY <2>1, <3>1
    <3> QED
      BY ONLY <3>4, <3>5, <3>6
  <2>3. CASE ~\E p \in begun : ExchangeOf[p] = e
    <3>1. mine = {} /\ worker'[e] = worker[e]
      BY <2>3
    <3>2. Cardinality(mine) = 0
      BY <3>1, FS_EmptySet
    <3> QED
      BY <2>1, <3>1, <3>2 DEF ThreadsOK, ShapeOK
  <2> QED
    BY <2>2, <2>3
<1>7. ShapeOK'
  <2>1. due' \in [Pairs -> Nat]
    BY <1>2 DEF ShapeOK
  <2>2. task' \in [Pairs -> Tasks]
    BY <1>2 DEF ShapeOK, Tasks
  <2>3. worker' \in [Exchanges -> {None} \cup [pair: Pairs, asked: Nat]]
        /\ threads' \in [Exchanges -> Int]
    BY <1>6
  <2> QED
    BY <1>1, <2>1, <2>2, <2>3 DEF ShapeOK
<1>8. TypeOK'
  <2>1. \A p \in Pairs : due'[p] \in 0..(MaxTime + Interval)
    BY <1>2 DEF TypeOK
  <2>2. \A p \in Pairs : task'[p].state \in {"idle", "waiting", "evaluating"}
    BY <1>3 DEF TypeOK
  <2>3. \A e \in Exchanges : worker'[e] = None \/ worker'[e].pair \in Pairs
    BY <1>6
  <2> QED
    BY <1>1, <2>1, <2>2, <2>3 DEF TypeOK
<1>9. TasksOK'
  BY <1>1, <1>2, <1>4, <1>5 DEF TasksOK
<1>10. ThreadsOK' /\ StoreOK'
  BY <1>1, <1>6 DEF ThreadsOK, StoreOK, Stored
<1> QED
  BY <1>7, <1>8, <1>9, <1>10

\* A task that becomes idle, and nothing else.
LEMMA IdleInv ==
    ASSUME FeedInv, NEW p \in Pairs, task' = [task EXCEPT ![p] = Idle],
           UNCHANGED <<now, due, worker, threads, store, strategy, active, on>>
    PROVE  FeedInv'
<1> USE DEF FeedInv
<1>1. /\ now' = now /\ due' = due /\ worker' = worker /\ threads' = threads /\ store' = store
      /\ points' = points /\ trades' = trades /\ first' = first /\ eval' = eval
      /\ pending' = pending /\ open' = open /\ active' = active /\ on' = on
  BY DEF strategy
<1>2. \A q \in Pairs : task'[q] = IF q = p THEN Idle ELSE task[q]
  BY DEF ShapeOK
<1>3. ShapeOK'
  BY <1>1 DEF ShapeOK, Tasks
<1>4. TypeOK'
  BY <1>1, <1>2 DEF TypeOK, Idle
<1>5. TasksOK'
  BY <1>1, <1>2 DEF TasksOK, Idle
<1>6. ThreadsOK' /\ StoreOK'
  BY <1>1 DEF ThreadsOK, StoreOK, Stored
<1> QED
  BY <1>3, <1>4, <1>5, <1>6

\* An answer is stored only for the task that still waits for it, which has not waited
\* too long; it is evaluated only when nothing else is.
LEMMA AnswerInv == ASSUME FeedInv, NEW e \in Exchanges, Answer(e), on' = on PROVE FeedInv'
<1> USE DEF FeedInv
<1> PICK r : r = worker[e]
  OBVIOUS
<1> PICK p : p = r.pair
  OBVIOUS
<1>1. /\ now' = now /\ due' = due /\ points' = points /\ trades' = trades /\ first' = first
      /\ eval' = eval /\ pending' = pending /\ open' = open /\ active' = active /\ on' = on
      /\ worker' = [worker EXCEPT ![e] = None] /\ threads' = [threads EXCEPT ![e] = @ - 1]
  BY DEF Answer, strategy
<1>2. r # None /\ p \in Pairs /\ r.asked \in Nat
  BY DEF Answer, ShapeOK
<1>3. /\ now \in Nat /\ threads[e] \in Int /\ threads[e] <= 1 /\ Timeout \in Nat
      /\ task[p] \in Tasks
  BY <1>2, FeedAssumption DEF ShapeOK, ThreadsOK
<1>4. /\ \A d \in Exchanges : worker'[d] = IF d = e THEN None ELSE worker[d]
      /\ \A d \in Exchanges : threads'[d] = IF d = e THEN threads[e] - 1 ELSE threads[d]
      /\ worker' \in [Exchanges -> {None} \cup [pair: Pairs, asked: Nat]]
      /\ threads' \in [Exchanges -> Int]
  BY <1>1, <1>3 DEF ShapeOK
<1>5. ThreadsOK'
  BY <1>3, <1>4 DEF ThreadsOK
<1>6. CASE task' = [task EXCEPT ![p] = IF Waits(r) THEN Idle ELSE @] /\ store' = store
  <2>1. \A q \in Pairs : task'[q] = task[q] \/ task'[q] = Idle
    BY <1>6 DEF ShapeOK
  <2>2. task' \in [Pairs -> Tasks]
    BY <1>6 DEF ShapeOK, Tasks
  <2>3. ShapeOK' /\ StoreOK'
    BY <1>1, <1>4, <1>6, <2>2 DEF ShapeOK, StoreOK, Stored
  <2>4. TypeOK'
    BY <1>1, <1>4, <1>6, <2>1 DEF TypeOK, Idle
  <2>5. TasksOK'
    BY <1>1, <1>6, <2>1 DEF TasksOK, Idle
  <2> QED
    BY <1>5, <2>3, <2>4, <2>5
<1>7. CASE /\ Waits(r)
           /\ \E b \in Answers[p] :
                store' = [store EXCEPT ![p] =
                   [book |-> [src |-> now - b.lag, imb |-> b.imb, mid |-> b.mid, kind |-> b.kind],
                    received |-> now, took |-> now - r.asked]]
           /\ task' = [task EXCEPT ![p] = IF Locked THEN Idle ELSE [state |-> "evaluating"]]
  <2>1. PICK b \in Answers[p] :
           store' = [store EXCEPT ![p] =
              [book |-> [src |-> now - b.lag, imb |-> b.imb, mid |-> b.mid, kind |-> b.kind],
               received |-> now, took |-> now - r.asked]]
    BY <1>7
  <2>2. b \in Books
    BY <1>2, FeedAssumption
  <2> PICK entry : entry =
         [book |-> [src |-> now - b.lag, imb |-> b.imb, mid |-> b.mid, kind |-> b.kind],
          received |-> now, took |-> now - r.asked]
    OBVIOUS
  <2>3. entry \in Entries /\ entry.book.src <= entry.received /\ entry.took = now - r.asked
    BY <1>2, <1>3, <2>2 DEF Books, Entries
  <2>4. entry.took <= Timeout
    BY <1>2, <1>3, <1>7, <2>3 DEF Waits, TasksOK
  <2>5. store' = [store EXCEPT ![p] = entry]
    BY <2>1
  <2>6. /\ \A q \in Pairs : store'[q] = IF q = p THEN entry ELSE store[q]
        /\ store' \in [Pairs -> {NoBook} \cup Entries]
    BY <1>2, <2>3, <2>5 DEF ShapeOK
  <2>7. /\ \A q \in Pairs : task'[q] = IF q = p THEN IF Locked THEN Idle ELSE [state |-> "evaluating"]
                                                ELSE task[q]
        /\ task' \in [Pairs -> Tasks]
    BY <1>2, <1>7 DEF ShapeOK, Tasks
  <2>8. task'[p].state = "evaluating" => \A q \in Pairs : task[q].state # "evaluating"
    BY <1>2, <2>7 DEF Locked, Idle
  <2>9. task'[p].state \in {"idle", "evaluating"}
    BY <1>2, <2>7 DEF Idle
  <2>10. ShapeOK'
    BY <1>1, <1>4, <2>6, <2>7 DEF ShapeOK
  <2>11. TypeOK'
    <3>1. \A q \in Pairs : task'[q].state \in {"idle", "waiting", "evaluating"}
      BY <2>7, <2>9 DEF TypeOK
    <3>2. \A q \in Pairs : store'[q] = NoBook \/ store'[q].book.src <= store'[q].received
      BY <2>3, <2>6 DEF TypeOK
    <3>3. \A d \in Exchanges : worker'[d] = None \/ worker'[d].pair \in Pairs
      BY <1>4 DEF TypeOK
    <3> QED
      BY <1>1, <3>1, <3>2, <3>3 DEF TypeOK
  <2>12. TasksOK'
    <3>1. \A q \in Pairs : store[q] # NoBook => store'[q] # NoBook
      BY <2>3, <2>6, Booked
    <3>2. store'[p] # NoBook
      BY <1>2, <2>3, <2>6, Booked
    <3>3. \A q \in Pairs : task'[q].state = "waiting" => q # p /\ task'[q] = task[q]
      BY <2>7, <2>9
    <3>4. \A q \in Pairs : task'[q].state = "evaluating" => q = p \/ task'[q] = task[q]
      BY <2>7
    <3> QED
      BY <1>1, <2>8, <3>1, <3>2, <3>3, <3>4 DEF TasksOK
  <2>13. StoreOK'
    BY <2>4, <2>6 DEF StoreOK, Stored
  <2> QED
    BY <1>5, <2>10, <2>11, <2>12, <2>13
<1> QED
  BY <1>6, <1>7 DEF Answer

\* GiveUp and Ignore end a task; the thread of the one that is given up runs on.
LEMMA ScannerInv ==
    ASSUME FeedInv, on' = on,
           Cycle \/ (\E e \in Exchanges : Answer(e)) \/ \E p \in Pairs : GiveUp(p) \/ Ignore(p)
    PROVE  FeedInv'
BY CycleInv, AnswerInv, IdleInv DEF GiveUp, Ignore, EndTask

-----------------------------------------------------------------------------
\* The evaluation and what is around it.
LEMMA BeginInv == ASSUME FeedInv, Begin, on' = on PROVE FeedInv'
<1> USE DEF FeedInv
<1>1. /\ now' = now /\ due' = due /\ worker' = worker /\ threads' = threads /\ store' = store
      /\ trades' = trades /\ first' = first /\ pending' = pending /\ open' = open
      /\ active' = active /\ on' = on /\ (eval' = now \/ eval' = eval)
      /\ task' = task \/ task' = [task EXCEPT ![Main] = Idle]
  BY DEF Begin, EndTask
<1>2. Main \in Stored /\ Main \in Pairs
  BY FeedAssumption DEF Begin, TasksOK, Stored
<1>3. \A p \in Pairs : task'[p] = task[p] \/ task'[p] = Idle
  BY <1>1 DEF ShapeOK
<1>4. task' \in [Pairs -> Tasks]
  BY <1>1 DEF ShapeOK, Tasks
<1>5. /\ points' \in [Pairs -> Seq(Points)]
      /\ \A p \in Pairs : Len(points'[p]) <= Window
  <2>1. NextPoints(Main, now) \in Seq(Points) /\ Len(NextPoints(Main, now)) <= Window
    BY <1>2, NextPointsKept DEF TypeOK
  <2>2. points' = points \/ points' = [points EXCEPT ![Main] = NextPoints(Main, now)]
    BY DEF Begin
  <2>3. /\ points \in [Pairs -> Seq(Points)]
        /\ \A p \in Pairs : Len(points[p]) <= Window
    BY DEF ShapeOK, TypeOK
  <2> QED
    BY ONLY <1>2, <2>1, <2>2, <2>3
<1>6. ShapeOK'
  BY <1>1, <1>4, <1>5 DEF ShapeOK
<1>7. TypeOK'
  BY <1>1, <1>3, <1>5, SMTT(30) DEF TypeOK, Idle, ShapeOK
<1>8. TasksOK' /\ ThreadsOK' /\ StoreOK'
  BY <1>1, <1>3 DEF TasksOK, ThreadsOK, StoreOK, Stored, Idle
<1> QED
  BY <1>6, <1>7, <1>8

LEMMA SignalSide ==
    ASSUME NEW c, NEW h, NEW at PROVE Signal(c, h, at) \in Sides \cup {None}
BY DEF Signal, ConsensusSide, Sides

\* What the decision does with the first signal and with the open side.
LEMMA TwoStepKept ==
    ASSUME NEW c, NEW signal \in Sides \cup {None}, NEW at \in Nat, TwoStep(c, signal, at),
           SignalsOK(first), pending # None => pending \in first, open \in Sides \cup {None}
    PROVE  /\ SignalsOK(first') /\ (pending' # None => pending' \in first')
           /\ open' \in Sides \cup {None}
           /\ open' # open =>
                 /\ pending # None /\ open' = pending.side
                 /\ pending \in first /\ pending \notin first'
                 /\ at <= pending.at + MaxWait /\ at >= pending.at + Delay
                 /\ Confirms(pending, signal, c)
<1>1. CASE pending # None
  <2>1. pending \in first /\ pending.side \in Sides /\ pending.at \in Nat
    BY <1>1 DEF SignalsOK
  <2>2. Delay \in Nat /\ MaxWait \in Nat
    BY FeedAssumption
  <2>3. /\ first' \in {first, first \ {pending}}
        /\ pending' # None => pending' = pending /\ first' = first
    BY <1>1 DEF TwoStep, Forget
  <2>4. open' # open => /\ ~Expired(pending, at) /\ ~(at < pending.at + Delay)
                        /\ Confirms(pending, signal, c) /\ open' = pending.side
                        /\ first' = first \ {pending}
    BY <1>1 DEF TwoStep, Forget
  <2> QED
    BY <1>1, <2>1, <2>2, <2>3, <2>4 DEF Expired, SignalsOK
<1>2. CASE pending = None
  <2>1. /\ open' = open
        /\ \/ pending' = pending /\ first' = first
           \/ /\ signal \in Sides /\ pending'.side = signal /\ pending'.at = at
              /\ first' = first \cup {pending'}
    BY <1>2 DEF TwoStep, FirstSignal
  <2> QED
    BY <1>2, <2>1 DEF SignalsOK
<1> QED
  BY <1>1, <1>2

\* Where an evaluation decides.
LEMMA Deciding ==
    ASSUME FeedInv, Decide
    PROVE  \E c, signal :
              /\ c = Consensus([q \in Stored |->
                        Row(store[q].book, points'[q], store[q].received, eval)], Main)
              /\ signal = Signal(c, trades, eval) /\ signal \in Sides \cup {None}
              /\ TwoStep(c, signal, eval) /\ eval \in Nat
<1> DEFINE next == [q \in Pairs |-> IF q \in Stored THEN NextPoints(q, eval) ELSE points[q]]
           rows == [q \in Stored |-> Row(store[q].book, next[q], store[q].received, eval)]
           c == Consensus(rows, Main)
           signal == Signal(c, trades, eval)
<1>1. points' = next /\ TwoStep(c, signal, eval) /\ eval # None
  BY DEF Decide
<1>2. eval \in Nat
  BY <1>1 DEF FeedInv, TypeOK, ShapeOK
<1>3. rows = [q \in Stored |-> Row(store[q].book, points'[q], store[q].received, eval)]
  BY <1>1
<1>4. signal \in Sides \cup {None}
  BY SignalSide
<1> HIDE DEF next
<1> QED
  BY <1>1, <1>2, <1>3, <1>4

LEMMA DecideInv == ASSUME FeedInv, Decide, on' = on PROVE FeedInv'
<1> USE DEF FeedInv
<1>1. /\ now' = now /\ due' = due /\ worker' = worker /\ threads' = threads /\ store' = store
      /\ trades' = trades /\ active' = active /\ on' = on /\ eval' = None
      /\ task' = [task EXCEPT ![Main] = Idle]
      /\ points' = [q \in Pairs |-> IF q \in Stored THEN NextPoints(q, eval) ELSE points[q]]
  BY DEF Decide, EndTask
<1>2. PICK c, signal : signal \in Sides \cup {None} /\ TwoStep(c, signal, eval) /\ eval \in Nat
  BY Deciding
<1>3. /\ SignalsOK(first') /\ (pending' # None => pending' \in first')
      /\ open' \in Sides \cup {None}
  BY <1>2, TwoStepKept DEF ShapeOK, TypeOK
<1>4. /\ points' \in [Pairs -> Seq(Points)]
      /\ \A q \in Pairs : Len(points'[q]) <= Window
  <2>1. ASSUME NEW q \in Pairs PROVE points'[q] \in Seq(Points) /\ Len(points'[q]) <= Window
    BY <1>1, NextPointsKept DEF ShapeOK, TypeOK
  <2> QED
    BY <1>1, <2>1
<1>5. \A p \in Pairs : task'[p] = task[p] \/ task'[p] = Idle
  BY <1>1 DEF ShapeOK
<1>6. task' \in [Pairs -> Tasks]
  BY <1>1 DEF ShapeOK, Tasks
<1>7. ShapeOK'
  BY <1>1, <1>3, <1>4, <1>6 DEF ShapeOK
<1>8. TypeOK'
  BY <1>1, <1>3, <1>4, <1>5 DEF TypeOK, Idle
<1>9. TasksOK' /\ ThreadsOK' /\ StoreOK'
  BY <1>1, <1>5 DEF TasksOK, ThreadsOK, StoreOK, Stored, Idle
<1> QED
  BY <1>7, <1>8, <1>9

\* A close joins the trades that are kept.
LEMMA CloseInv == ASSUME FeedInv, Close, on' = on PROVE FeedInv'
<1> USE DEF FeedInv
<1>1. /\ now' = now /\ feed' = feed /\ points' = points /\ eval' = eval /\ pending' = pending
      /\ first' = first /\ active' = active /\ on' = on /\ open' = None /\ open \in Sides
  BY DEF Close, TypeOK
<1>2. trades' \in Seq(ClosedTrades)
  <2>1. PICK pnl \in {-1, 1} :
           trades' = <<[side |-> open, at |-> now, pnl |-> pnl, few |-> FALSE]>> \o trades
    BY DEF Close
  <2>2. [side |-> open, at |-> now, pnl |-> pnl, few |-> FALSE] \in ClosedTrades
    BY <1>1 DEF ShapeOK, ClosedTrades
  <2> QED
    BY <2>1, <2>2 DEF ShapeOK
<1>3. ShapeOK' /\ TypeOK' /\ TasksOK' /\ ThreadsOK' /\ StoreOK'
  BY <1>1, <1>2 DEF ShapeOK, TypeOK, TasksOK, ThreadsOK, StoreOK, Stored, feed
<1> QED
  BY <1>3

\* A restart leaves what the database keeps.
LEMMA RestartInv == ASSUME FeedInv, Restart, on' = on PROVE FeedInv'
<1> USE DEF FeedInv
<1>1. /\ now' = now /\ open' = open /\ trades' = trades /\ active' = active /\ on' = on
      /\ due' = [p \in Pairs |-> 0] /\ task' = [p \in Pairs |-> Idle]
      /\ worker' = [e \in Exchanges |-> None] /\ threads' = [e \in Exchanges |-> 0]
      /\ store' = [p \in Pairs |-> NoBook] /\ points' = [p \in Pairs |-> << >>]
      /\ eval' = None /\ pending' = None /\ first' = {}
  BY DEF Restart
<1>2. ShapeOK'
  BY <1>1 DEF ShapeOK, SignalsOK, Tasks
<1>3. TypeOK'
  BY <1>1, FeedAssumption, WindowAssumption DEF TypeOK, Idle
<1>4. TasksOK' /\ ThreadsOK' /\ StoreOK'
  BY <1>1 DEF TasksOK, ThreadsOK, StoreOK, Stored, Idle
<1> QED
  BY <1>2, <1>3, <1>4

\* Time does not pass a task that has to give up.
LEMMA TickInv == ASSUME FeedInv, Tick, on' = on PROVE FeedInv'
<1> USE DEF FeedInv
<1>1. /\ task' = task /\ worker' = worker /\ threads' = threads /\ store' = store
      /\ points' = points /\ eval' = eval /\ pending' = pending /\ open' = open
      /\ trades' = trades /\ first' = first /\ active' = active /\ on' = on
      /\ now' = now + 1 /\ now < MaxTime /\ \A p \in Pairs : ~TimedOut(p)
      /\ due' = [p \in Pairs |-> IF due[p] <= now' THEN 0 ELSE due[p]]
  BY DEF Tick, strategy
<1>2. now \in Nat /\ now' \in 0..MaxTime /\ MaxTime \in Nat /\ Interval \in Nat /\ Timeout \in Nat
  <2>1. now \in Nat /\ MaxTime \in Nat /\ Interval \in Nat /\ Timeout \in Nat
    BY FeedAssumption DEF ShapeOK
  <2>2. now' = now + 1 /\ now < MaxTime
    BY <1>1
  <2> QED
    BY ONLY <2>1, <2>2
<1>3. ShapeOK'
  BY <1>1, <1>2 DEF ShapeOK
<1>4. TypeOK'
  BY <1>1, <1>2 DEF TypeOK
<1>5. TasksOK'
  <2>1. ASSUME NEW p \in Pairs, task[p].state = "waiting"
        PROVE  task[p].asked <= now' /\ now' <= task[p].asked + Timeout
    <3>1. task[p].asked \in Nat
      BY <2>1, TasksKind DEF ShapeOK
    <3>2. task[p].asked <= now /\ ~(now >= task[p].asked + Timeout)
      BY <1>1, <2>1 DEF TasksOK, TimedOut
    <3> QED
      BY <1>1, <1>2, <3>1, <3>2
  <2> QED
    BY <1>1, <2>1 DEF TasksOK
<1>6. ThreadsOK' /\ StoreOK'
  BY <1>1 DEF ThreadsOK, StoreOK, Stored
<1> QED
  BY <1>3, <1>4, <1>5, <1>6

LEMMA AroundInv == ASSUME FeedInv, Stop \/ Start \/ UNCHANGED vars, on' = on PROVE FeedInv'
<1> USE DEF FeedInv
<1>1. /\ now' = now /\ feed' = feed /\ points' = points /\ eval' = eval /\ open' = open
      /\ trades' = trades /\ active' \in BOOLEAN /\ on' = on
  BY DEF Stop, Start, vars, strategy, TypeOK
<1>2. /\ first' \subseteq first
      /\ pending' # None => pending' = pending /\ first' = first
  BY DEF Stop, Start, vars, strategy, Forget
<1>3. ShapeOK' /\ TypeOK' /\ TasksOK' /\ ThreadsOK' /\ StoreOK'
  BY <1>1, <1>2 DEF ShapeOK, SignalsOK, TypeOK, TasksOK, ThreadsOK, StoreOK, Stored, feed
<1> QED
  BY <1>3

LEMMA StepInv == ASSUME FeedInv, [Next]_vars PROVE FeedInv'
<1>1. on' = on
  BY DEF Next, vars
<1> QED
  BY <1>1, ScannerInv, BeginInv, DecideInv, CloseInv, RestartInv, TickInv, AroundInv DEF Next

-----------------------------------------------------------------------------
\* What an entry rests on.
LEMMA EntryFacts ==
    ASSUME FeedInv, [Next]_vars, Enters
    PROVE  /\ Decides /\ eval \in Nat /\ store' = store
           /\ \E c :
                 /\ c = Consensus([q \in Stored |->
                           Row(store[q].book, points'[q], store[q].received, eval)], Main)
                 /\ open' = Signal(c, trades, eval) /\ open' \in Sides
                 /\ pending # None /\ open' = pending.side
                 /\ pending \in first /\ pending \notin first'
                 /\ eval <= pending.at + MaxWait /\ eval >= pending.at + Delay
                 /\ Confirms(pending, open', c)
<1>1. Decide
  BY DEF Enters, Next, Cycle, Answer, GiveUp, Ignore, Begin, Stop, Start, Close, Restart, Tick,
         vars, strategy
<1>2. PICK c, signal :
         /\ c = Consensus([q \in Stored |->
                   Row(store[q].book, points'[q], store[q].received, eval)], Main)
         /\ signal = Signal(c, trades, eval) /\ signal \in Sides \cup {None}
         /\ TwoStep(c, signal, eval) /\ eval \in Nat
  BY <1>1, Deciding
<1>3. /\ open' # open /\ open' # None
      /\ pending # None /\ open' = pending.side
      /\ pending \in first /\ pending \notin first'
      /\ eval <= pending.at + MaxWait /\ eval >= pending.at + Delay
      /\ Confirms(pending, signal, c) /\ open' \in Sides \cup {None}
  BY <1>2, TwoStepKept DEF FeedInv, ShapeOK, TypeOK, Enters
<1>4. signal = open'
  BY <1>3 DEF Confirms
<1>5. Decides /\ store' = store
  BY <1>1 DEF Decide, Decides
<1> QED
  BY <1>2, <1>3, <1>4, <1>5

LEMMA ConsensusFields ==
    ASSUME NEW rows, NEW main
    PROVE  /\ Consensus(rows, main).valid = Cardinality({p \in DOMAIN rows : rows[p].valid})
           /\ Consensus(rows, main).mainValid = (main \in DOMAIN rows /\ rows[main].valid)
<1> DEFINE ok == {p \in DOMAIN rows : rows[p].valid}
           sum == MapThenSumSet(LAMBDA p : rows[p].momentum, ok)
           n == Cardinality(ok)
           count == [s \in Sides |-> Cardinality({p \in ok : rows[p][s]})]
           ratio == [s \in Sides |-> IF n = 0 THEN 0 ELSE (100 * count[s]) \div n]
           median2 == IF n = 0 THEN None ELSE Median2(rows, ok)
           side == [s \in Sides |-> main \in DOMAIN rows /\ rows[main][s]]
<1>1. Consensus(rows, main) =
        [valid |-> n, count |-> count, ratio |-> ratio, median2 |-> median2, momentum |-> sum,
         mainValid |-> main \in DOMAIN rows /\ rows[main].valid, mainSide |-> side]
  BY DEF Consensus
<1> HIDE DEF sum, count, ratio, median2, side
<1> QED
  BY <1>1

\* A valid row is that of a fresh book.
LEMMA ValidRow ==
    ASSUME NEW book \in [src: Int, imb: Int, mid: Int, kind: {"ok", "wide", "spot", "broken"}],
           NEW h, NEW received, NEW at \in Int, Row(book, h, received, at).valid
    PROVE  book.kind = "ok" /\ at - book.src \in (0 - Tolerance)..MaxAge
<1>1. ~Early(book, received, at) /\ book.kind # "wide"
  BY DEF Row
<1>2. /\ book.kind \notin {"wide", "spot", "broken"}
      /\ ~(at - book.src > MaxAge) /\ ~(book.src > at + Tolerance)
  BY <1>1 DEF Early, Stale, Ahead
<1>3. MaxAge \in Int /\ Tolerance \in Int /\ book.src \in Int
  BY FeedAssumption
<1> PICK age : age = at - book.src
  OBVIOUS
<1>4. age \in Int /\ ~(age > MaxAge) /\ ~(book.src > at + Tolerance)
  BY <1>2, <1>3
<1>5. age \in (0 - Tolerance)..MaxAge
  BY ONLY <1>3, <1>4, age = at - book.src, at \in Int
<1> QED
  BY <1>2, <1>5

\* The books an entry may count, and that a confirmed signal has enough of them.
Fresh(at) == {q \in Stored : /\ at - store[q].book.src \in (0 - Tolerance)..MaxAge
                             /\ store[q].book.kind = "ok"}

LEMMA Quorum ==
    ASSUME FeedInv, NEW h, NEW at \in Nat, NEW signal, NEW c,
           c = Consensus([q \in Stored |-> Row(store[q].book, h[q], store[q].received, at)], Main),
           pending # None, Confirms(pending, signal, c)
    PROVE  Main \in Fresh(at) /\ Cardinality(Fresh(at)) >= MinValid
<1> DEFINE rows == [q \in Stored |-> Row(store[q].book, h[q], store[q].received, at)]
           ok == {q \in DOMAIN rows : rows[q].valid}
<1>1. c.mainValid /\ c.valid >= MinValid
  BY DEF Confirms
<1>2. c.valid = Cardinality(ok) /\ c.mainValid = (Main \in DOMAIN rows /\ rows[Main].valid)
  BY ConsensusFields
<1>3. ASSUME NEW q \in ok PROVE q \in Fresh(at)
  <2>1. q \in Stored /\ Row(store[q].book, h[q], store[q].received, at).valid
    OBVIOUS
  <2>2. store[q].book \in [src: Int, imb: Int, mid: Int, kind: {"ok", "wide", "spot", "broken"}]
    BY <2>1 DEF FeedInv, ShapeOK, Stored, Entries
  <2> QED
    BY <2>1, <2>2, ValidRow DEF Fresh
<1>4. ok \subseteq Fresh(at) /\ Main \in Fresh(at)
  BY <1>1, <1>2, <1>3
<1>5. IsFiniteSet(Fresh(at))
  <2>1. Fresh(at) \subseteq Pairs /\ IsFiniteSet(Pairs)
    BY FeedAssumption DEF Fresh, Stored
  <2> QED
    BY <2>1, FS_Subset
<1>6. /\ Cardinality(ok) \in Nat /\ Cardinality(Fresh(at)) \in Nat
      /\ Cardinality(ok) <= Cardinality(Fresh(at))
  BY <1>4, <1>5, FS_Subset, FS_CardinalityType
<1>7. MinValid \in Nat /\ Cardinality(ok) >= MinValid
  BY <1>1, <1>2, FeedAssumption
<1> QED
  BY ONLY <1>4, <1>6, <1>7

-----------------------------------------------------------------------------
\* The feed keeps its shape, its tasks, its threads and its store, whoever gives up,
\* answers late, or restarts (ScannerService, evaluate, handle_two_step_entry).
THEOREM Invariant == Spec => []FeedInv
<1>1. Init => FeedInv
  BY InitFeed
<1>2. FeedInv /\ [Next]_vars => FeedInv'
  BY StepInv
<1> QED
  BY <1>1, <1>2, PTL DEF Spec

\* Every stored book is at least as old as its answer, the price history keeps to its
\* window, and the first signal that is pending is one that was given since the restart.
THEOREM TypeCorrect == Spec => []TypeOK
<1>1. FeedInv => TypeOK
  BY DEF FeedInv
<1> QED
  BY <1>1, Invariant, PTL

\* A late or abandoned answer never gives an exchange a second thread, never reaches the
\* store, and never brings a second evaluation (fetch_futures_snapshot, _strategy_lock).
THEOREM OneThingAtATime == Spec => []OneAtATime
<1>1. ASSUME FeedInv PROVE OneAtATime
  <2> DEFINE busy == {p \in Pairs : task[p].state = "evaluating"}
  <2>1. \A e \in Exchanges : threads[e] <= 1
    BY <1>1 DEF FeedInv, ThreadsOK
  <2>2. \A p \in Stored : store[p].took <= Timeout
    BY <1>1 DEF FeedInv, StoreOK
  <2>3. Cardinality(busy) <= 1
    <3>1. CASE busy = {}
      <4>1. Cardinality(busy) = 0
        BY <3>1, FS_EmptySet
      <4> QED
        BY <4>1
    <3>2. CASE busy # {}
      <4>1. PICK p \in Pairs : busy = {p}
        BY <1>1, <3>2 DEF FeedInv, TasksOK
      <4>2. Cardinality({p}) = 1
        BY FS_Singleton
      <4> QED
        BY <4>1, <4>2
    <3> QED
      BY <3>1, <3>2
  <2> QED
    BY <2>1, <2>2, <2>3 DEF OneAtATime
<1> QED
  BY <1>1, Invariant, PTL

\* An entry confirms a first signal of its own side that was given since the restart, in
\* its time, and uses it up (handle_two_step_entry).
THEOREM EntriesConfirm == Spec => ConfirmedInTime
<1>1. ASSUME FeedInv, [Next]_vars, Enters
      PROVE  /\ Decides
             /\ \E f \in first : /\ f.side = open' /\ f \notin first'
                                 /\ eval - f.at \in Delay..MaxWait
  <2>1. /\ Decides /\ eval \in Nat
        /\ open' = pending.side /\ pending \in first /\ pending \notin first'
        /\ eval <= pending.at + MaxWait /\ eval >= pending.at + Delay
    BY <1>1, EntryFacts
  <2>2. pending.at \in Nat
    BY <1>1, <2>1 DEF FeedInv, ShapeOK, SignalsOK
  <2>3. Delay \in Nat /\ MaxWait \in Nat
    BY FeedAssumption
  <2>4. eval - pending.at \in Delay..MaxWait
    BY <2>1, <2>2, <2>3
  <2> QED
    BY <2>1, <2>4
<1>2. FeedInv /\ [Next]_vars =>
        [Enters => /\ Decides
                   /\ \E f \in first : /\ f.side = open' /\ f \notin first'
                                       /\ eval - f.at \in Delay..MaxWait]_vars
  BY <1>1
<1> QED
  BY <1>2, Invariant, PTL DEF Spec, ConfirmedInTime

\* An entry rests on fresh books of enough exchanges, the traded one among them, at the
\* instant of its evaluation (exchange_feature, consensus_snapshot).
THEOREM EntriesHaveQuorum == Spec => EntryHasQuorum
<1>1. ASSUME FeedInv, [Next]_vars, Enters
      PROVE  Decides /\ Main \in Fresh(eval) /\ Cardinality(Fresh(eval)) >= MinValid
  <2>1. Decides /\ eval \in Nat
    BY <1>1, EntryFacts
  <2>2. PICK c :
          /\ c = Consensus([q \in Stored |->
                    Row(store[q].book, points'[q], store[q].received, eval)], Main)
          /\ pending # None /\ Confirms(pending, open', c)
    BY <1>1, EntryFacts
  <2> PICK h : h = points'
    OBVIOUS
  <2> PICK side : side = open'
    OBVIOUS
  <2>3. Main \in Fresh(eval) /\ Cardinality(Fresh(eval)) >= MinValid
    BY <1>1, <2>1, <2>2, Quorum
  <2> QED
    BY <2>1, <2>3
<1>2. FeedInv /\ [Next]_vars =>
        [Enters => LET fresh == {q \in Stored :
                                   /\ eval - store[q].book.src \in (0 - Tolerance)..MaxAge
                                   /\ store[q].book.kind = "ok"}
                   IN  Decides /\ Main \in fresh /\ Cardinality(fresh) >= MinValid]_vars
  BY <1>1 DEF Fresh
<1> QED
  BY <1>2, Invariant, PTL DEF Spec, EntryHasQuorum

-----------------------------------------------------------------------------
\* Induction over the first numbers, as a fact about sets.
LEMMA LeastOne ==
    ASSUME NEW T \in SUBSET Nat, T # {} PROVE \E m \in T : \A k \in T : m <= k
<1> DEFINE Less == {ss \in Nat \X Nat : ss[1] < ss[2]}
<1>1. IsWellFoundedOn(Less, Nat)
  BY NatLessThanWellFounded DEF OpToRel
<1>2. \A k, m \in Nat : k < m => <<k, m>> \in Less
  OBVIOUS
<1> HIDE DEF Less
<1>3. \E m \in T : \A k \in T : ~(<<k, m>> \in Less)
  <2>1. T \subseteq Nat /\ T # {}
    OBVIOUS
  <2> QED
    BY ONLY <1>1, <2>1, WFMin
<1>4. PICK m \in T : \A k \in T : ~(<<k, m>> \in Less)
  BY <1>3
<1>5. ASSUME NEW k \in T PROVE m <= k
  <2>1. k \in Nat /\ m \in Nat /\ ~(k < m)
    BY <1>2, <1>4
  <2> QED
    BY <2>1
<1> QED
  BY <1>5

LEMMA UpTo ==
    ASSUME NEW m \in Nat, NEW T, 0 \in T, \A n \in 1..m : n - 1 \in T => n \in T
    PROVE  \A n \in 0..m : n \in T
<1> DEFINE Bad == {n \in 0..m : n \notin T}
<1>1. SUFFICES ASSUME Bad # {} PROVE FALSE
  OBVIOUS
<1>2. PICK k \in Bad : \A n \in Bad : k <= n
  <2>1. Bad \in SUBSET Nat
    OBVIOUS
  <2> HIDE DEF Bad
  <2> QED
    BY <1>1, <2>1, LeastOne
<1>3. k \in 0..m /\ k \notin T /\ k # 0
  OBVIOUS
<1>4. k - 1 \in 0..m /\ k - 1 \notin Bad /\ k \in 1..m
  BY <1>2, <1>3
<1> QED
  BY <1>3, <1>4

\* What a recursive definition over numbers needs: the function it describes exists.
Steps(m, V, x, G) == m \in Nat /\ x \in V /\ G \in [1..m -> [V -> V]]
Follows(m, V, x, G, f) ==
    f \in [0..m -> V] /\ f[0] = x /\ \A n \in 1..m : f[n] = G[n][f[n - 1]]

LEMMA Recursion ==
    ASSUME NEW m, NEW V, NEW x, NEW G, Steps(m, V, x, G) PROVE \E f : Follows(m, V, x, G, f)
<1> USE DEF Steps
<1> DEFINE Upto(n, f) == f[0] = x /\ \A k \in 1..n : f[k] = G[k][f[k - 1]]
           T == {n \in 0..m : \E f \in [0..n -> V] : Upto(n, f)}
<1>1. 0 \in T
  <2> DEFINE f == [k \in 0..0 |-> x]
  <2>1. 0..0 = {0} /\ 1..0 = {} /\ 0 \in 0..m
    OBVIOUS
  <2>2. f \in [0..0 -> V] /\ f[0] = x
    BY <2>1
  <2>3. Upto(0, f)
    BY <2>1, <2>2
  <2> QED
    BY <2>1, <2>2, <2>3
<1>2. ASSUME NEW n \in 1..m, n - 1 \in T PROVE n \in T
  <2>1. PICK g \in [0..(n - 1) -> V] : Upto(n - 1, g)
    BY <1>2
  <2> DEFINE f == [k \in 0..n |-> IF k = n THEN G[n][g[n - 1]] ELSE g[k]]
  <2>2. g[n - 1] \in V /\ G[n] \in [V -> V]
    OBVIOUS
  <2>3. f \in [0..n -> V]
    <3> SUFFICES ASSUME NEW k \in 0..n PROVE (IF k = n THEN G[n][g[n - 1]] ELSE g[k]) \in V
      OBVIOUS
    <3> QED
      BY <2>2
  <2>4. f[0] = x
    BY <2>1
  <2>5. ASSUME NEW k \in 1..n PROVE f[k] = G[k][f[k - 1]]
    <3>1. CASE k = n
      <4>1. f[k - 1] = g[n - 1]
        BY <3>1
      <4> QED
        BY <3>1, <4>1
    <3>2. CASE k # n
      <4>1. k \in 1..(n - 1) /\ f[k] = g[k] /\ f[k - 1] = g[k - 1]
        BY <3>2
      <4>2. g[k] = G[k][g[k - 1]]
        BY <2>1, <4>1
      <4> QED
        BY <4>1, <4>2
    <3> QED
      BY <3>1, <3>2
  <2>6. n \in 0..m
    OBVIOUS
  <2> QED
    BY <2>3, <2>4, <2>5, <2>6
<1>3. m \in T
  <2>1. m \in 0..m
    OBVIOUS
  <2> HIDE DEF T
  <2> QED
    BY <1>1, <1>2, <2>1, UpTo
<1> QED
  BY <1>3 DEF Follows

-----------------------------------------------------------------------------
\* The trades of a side.
KeepsSide(s, side, m, f) ==
    f = [n \in 0..m |-> IF n = 0 THEN << >>
                        ELSE IF s[n].side = side THEN Append(f[n - 1], s[n]) ELSE f[n - 1]]

LEMMA SideTrades ==
    ASSUME NEW s \in Seq(ClosedTrades), NEW side
    PROVE  OfSide(s, side) \in Seq(ClosedTrades)
<1> PICK m : m = Len(s)
  OBVIOUS
<1> PICK V : V = Seq(ClosedTrades)
  OBVIOUS
<1>1. m \in Nat /\ \A n \in 1..m : s[n] \in ClosedTrades
  OBVIOUS
<1> DEFINE kept == CHOOSE f : KeepsSide(s, side, m, f)
<1>2. PICK g : g \in [0..m -> V] /\ KeepsSide(s, side, m, g)
  <2> DEFINE G == [n \in 1..m |-> [v \in V |-> IF s[n].side = side THEN Append(v, s[n]) ELSE v]]
  <2>1. G \in [1..m -> [V -> V]]
    BY <1>1
  <2>2. \A n \in 1..m : \A v \in V : G[n][v] = IF s[n].side = side THEN Append(v, s[n]) ELSE v
    OBVIOUS
  <2> HIDE DEF G
  <2>3. PICK f \in [0..m -> V] : f[0] = << >> /\ \A n \in 1..m : f[n] = G[n][f[n - 1]]
    <3>1. Steps(m, V, << >>, G)
      BY <1>1, <2>1 DEF Steps
    <3>2. \E f : Follows(m, V, << >>, G, f)
      BY ONLY <3>1, Recursion
    <3> QED
      BY <3>2 DEF Follows
  <2>4. \A n \in 0..m : f[n] = IF n = 0 THEN << >>
                                ELSE IF s[n].side = side THEN Append(f[n - 1], s[n]) ELSE f[n - 1]
    <3> SUFFICES ASSUME NEW n \in 0..m, n # 0
                 PROVE  f[n] = IF s[n].side = side THEN Append(f[n - 1], s[n]) ELSE f[n - 1]
      BY <2>3
    <3>1. n \in 1..m /\ n - 1 \in 0..m
      BY ONLY <1>1, n \in 0..m, n # 0
    <3>2. f[n - 1] \in V
      BY <3>1
    <3> QED
      BY <2>2, <2>3, <3>1, <3>2
  <2>5. KeepsSide(s, side, m, f)
    BY <2>4 DEF KeepsSide
  <2> QED
    BY <2>5
<1>3. KeepsSide(s, side, m, kept)
  BY <1>2
<1> PICK f : f = kept
  OBVIOUS
<1>4. OfSide(s, side) = f[m]
  BY DEF OfSide, KeepsSide
<1>5. \A n \in 0..m : f[n] = IF n = 0 THEN << >>
                              ELSE IF s[n].side = side THEN Append(f[n - 1], s[n]) ELSE f[n - 1]
  BY <1>3 DEF KeepsSide
<1> DEFINE T == {n \in 0..m : f[n] \in V}
<1>6. 0 \in T
  <2>1. f[0] = << >> /\ 0 \in 0..m
    BY <1>1, <1>5
  <2>2. << >> \in V
    BY ONLY V = Seq(ClosedTrades)
  <2> QED
    BY <2>1, <2>2
<1>7. ASSUME NEW n \in 1..m, n - 1 \in T PROVE n \in T
  <2>1. f[n] = IF s[n].side = side THEN Append(f[n - 1], s[n]) ELSE f[n - 1]
    BY <1>5
  <2>2. f[n - 1] \in V /\ s[n] \in ClosedTrades /\ n \in 0..m
    BY <1>1, <1>7
  <2>3. Append(f[n - 1], s[n]) \in V
    BY ONLY <2>2, V = Seq(ClosedTrades)
  <2> QED
    BY <2>1, <2>2, <2>3
<1>8. \A n \in 0..m : n \in T
  <2> HIDE DEF T
  <2> QED
    BY <1>1, <1>6, <1>7, UpTo
<1> QED
  BY <1>1, <1>4, <1>8

\* A streak that fills the limit rests its side, however far the feedback looks back.
LEMMA StreakRests ==
    ASSUME NEW mine \in Seq(ClosedTrades), Len(mine) >= StreakLimit,
           \A i \in 1..StreakLimit : mine[i].pnl < 0,
           NEW at \in Nat, ~Resting(Newest(Lookback, mine), at)
    PROVE  at >= mine[1].at + SideCooldown
<1> DEFINE n == IF Len(mine) < Lookback THEN Len(mine) ELSE Lookback
<1>1. /\ StreakLimit \in Nat \ {0} /\ Lookback \in Nat /\ Lookback >= StreakLimit /\ SideCooldown \in Nat
  BY LookbackAssumption
<1>2. n \in Nat /\ n <= Len(mine) /\ n >= StreakLimit /\ Len(mine) \in Nat
  BY <1>1
<1> PICK recent : recent = Newest(Lookback, mine)
  OBVIOUS
<1>3. recent = SubSeq(mine, 1, n)
  BY DEF Newest
<1> HIDE DEF n
<1>4. DOMAIN recent = 1..n /\ Len(recent) = n /\ \A i \in 1..n : recent[i] = mine[i]
  BY <1>2, <1>3
<1>5. \A i \in 1..n : mine[i].pnl \in Int /\ mine[i].at \in Nat
  <2>1. \A i \in 1..n : mine[i] \in ClosedTrades
    BY ONLY <1>2, mine \in Seq(ClosedTrades)
  <2> QED
    BY ONLY <2>1 DEF ClosedTrades
<1> DEFINE others == {i \in DOMAIN recent : recent[i].pnl >= 0}
<1>6. \A i \in others : i \in Nat /\ i > StreakLimit
  BY <1>1, <1>4, <1>5
<1>7. LossStreak(recent) >= StreakLimit
  <2>1. CASE others = {}
    BY <1>2, <1>4, <2>1 DEF LossStreak
  <2>2. CASE others # {}
    <3>1. \E i \in others : \A j \in others : i <= j
      <4>1. others \in SUBSET Nat
        BY <1>6
      <4> QED
        BY <2>2, <4>1, LeastOne
    <3>2. PICK i : i = CHOOSE w \in others : \A j \in others : w <= j
      OBVIOUS
    <3>3. i \in others
      BY <3>1, <3>2
    <3>4. LossStreak(recent) = i - 1
      BY <2>2, <3>2 DEF LossStreak
    <3> QED
      BY <1>1, <1>6, <3>3, <3>4
  <2> QED
    BY <2>1, <2>2
<1>8. recent # << >> /\ recent[1] = mine[1] /\ mine[1].at \in Nat
  BY <1>1, <1>2, <1>4, <1>5
<1>9. ~(at < mine[1].at + SideCooldown)
  BY <1>7, <1>8 DEF Resting
<1> QED
  BY <1>1, <1>8, <1>9

\* With the feedback on, a side rests after a streak of losses until its cool-down is over,
\* whatever is signalled and confirmed (SignalFeedbackService, handle_two_step_entry).
THEOREM ColdSidesRest == Spec => ColdSideRests
<1>1. ASSUME FeedInv, [Next]_vars, Enters
      PROVE  LET mine == OfSide(trades, open')
             IN  (/\ "feedback" \in on /\ Len(mine) >= StreakLimit
                  /\ \A i \in 1..StreakLimit : mine[i].pnl < 0)
                 => eval >= mine[1].at + SideCooldown
  <2>1. PICK c, side : side = open' /\ side = Signal(c, trades, eval) /\ side \in Sides /\ eval \in Nat
    BY <1>1, EntryFacts
  <2>2. None \notin Sides
    BY FeedAssumption
  <2>3. FeedbackAllows(trades, side, c, eval)
    BY <2>1, <2>2 DEF Signal
  <2>4. "feedback" \in on => ~Resting(Newest(Lookback, OfSide(trades, side)), eval)
    BY <2>3 DEF FeedbackAllows
  <2>5. OfSide(trades, side) \in Seq(ClosedTrades)
    BY <1>1, SideTrades DEF FeedInv, ShapeOK
  <2>6. PICK mine : mine = OfSide(trades, side)
    OBVIOUS
  <2>7. ("feedback" \in on /\ Len(mine) >= StreakLimit /\ \A i \in 1..StreakLimit : mine[i].pnl < 0)
          => eval >= mine[1].at + SideCooldown
    BY <2>1, <2>4, <2>5, <2>6, StreakRests
  <2> QED
    BY <2>1, <2>6, <2>7
<1>2. FeedInv /\ [Next]_vars =>
        [Enters => LET mine == OfSide(trades, open')
                   IN  (/\ "feedback" \in on /\ Len(mine) >= StreakLimit
                        /\ \A i \in 1..StreakLimit : mine[i].pnl < 0)
                       => eval >= mine[1].at + SideCooldown]_vars
  BY <1>1
<1> QED
  BY <1>2, Invariant, PTL DEF Spec, ColdSideRests

-----------------------------------------------------------------------------
\* What a consensus may say of the books.
Verdicts ==
    [valid: Nat, count: [Sides -> Nat], ratio: [Sides -> Nat], median2: Int \cup {None},
     momentum: Int, mainValid: BOOLEAN, mainSide: [Sides -> BOOLEAN]]

LEMMA OneSideCarries ==
    ASSUME NEW c \in Verdicts PROVE ~(Carries(c, "long") /\ Carries(c, "short"))
<1>1. c.momentum \in Int
  BY DEF Verdicts
<1>2. Carries(c, "long") => c.momentum * 1 > 0
  BY DEF Carries, Sign
<1>3. Carries(c, "short") => c.momentum * (-1) > 0
  BY DEF Carries, Sign
<1> QED
  BY <1>1, <1>2, <1>3

\* The reasons shown for a side are none exactly when nothing speaks against it.
LEMMA NoReasons ==
    ASSUME NEW c \in Verdicts, NEW side \in Sides
    PROVE  Rejections(c, side) = {} <=>
              c.valid >= MinValid /\ c.mainValid /\ Carries(c, side)
<1> DEFINE reasons == {"valid", "main", "count", "ratio", "momentum", "median", "mainSide"}
           against(r) == CASE r = "valid"    -> c.valid < MinValid
                           [] r = "main"     -> ~c.mainValid
                           [] r = "count"    -> c.count[side] < MinConfirming
                           [] r = "ratio"    -> c.ratio[side] < MinRatio
                           [] r = "momentum" -> c.momentum * Sign(side) <= 0
                           [] r = "median"   -> /\ "median" \in on
                                                /\ \/ c.median2 = None
                                                   \/ IF side = "long" THEN c.median2 <= 2 * LongAbove
                                                                       ELSE c.median2 > 2 * ShortUpTo
                           [] OTHER          -> "main" \in on /\ ~c.mainSide[side]
<1>1. Rejections(c, side) = {r \in reasons : against(r)}
  BY DEF Rejections
<1>2. /\ against("valid") <=> (c.valid < MinValid)
      /\ against("main") <=> ~c.mainValid
      /\ against("count") <=> (c.count[side] < MinConfirming)
      /\ against("ratio") <=> (c.ratio[side] < MinRatio)
      /\ against("momentum") <=> (c.momentum * Sign(side) <= 0)
      /\ against("median") <=> (/\ "median" \in on
                              /\ \/ c.median2 = None
                                 \/ IF side = "long" THEN c.median2 <= 2 * LongAbove
                                                     ELSE c.median2 > 2 * ShortUpTo)
      /\ against("mainSide") <=> ("main" \in on /\ ~c.mainSide[side])
  OBVIOUS
<1> HIDE DEF against
<1>3. Rejections(c, side) = {} <=>
        /\ ~against("valid") /\ ~against("main") /\ ~against("count") /\ ~against("ratio")
        /\ ~against("momentum") /\ ~against("median") /\ ~against("mainSide")
  BY <1>1
<1>4. /\ c.valid \in Nat /\ c.count[side] \in Nat /\ c.ratio[side] \in Nat
      /\ c.momentum \in Int /\ Sign(side) \in {1, -1} /\ c.median2 \in Int \cup {None}
      /\ c.mainValid \in BOOLEAN /\ c.mainSide[side] \in BOOLEAN
  BY DEF Verdicts, Sign
<1>5. /\ MinValid \in Nat /\ MinConfirming \in Nat /\ MinRatio \in Nat
      /\ LongAbove \in Int /\ ShortUpTo \in Int
  BY FeedAssumption
<1>6. (c.momentum * Sign(side) <= 0) <=> ~(c.momentum * Sign(side) > 0)
  <2>1. c.momentum * Sign(side) \in Int
    BY <1>4
  <2> QED
    BY <2>1
<1>7. c.median2 # None =>
        ((IF side = "long" THEN c.median2 <= 2 * LongAbove ELSE c.median2 > 2 * ShortUpTo)
           <=> ~ IF side = "long" THEN c.median2 > 2 * LongAbove ELSE c.median2 <= 2 * ShortUpTo)
  BY <1>4, <1>5
<1> DEFINE agrees == IF side = "long" THEN c.median2 > 2 * LongAbove
                                      ELSE c.median2 <= 2 * ShortUpTo
<1>8. /\ ~(c.valid < MinValid) <=> c.valid >= MinValid
      /\ ~(c.count[side] < MinConfirming) <=> c.count[side] >= MinConfirming
      /\ ~(c.ratio[side] < MinRatio) <=> c.ratio[side] >= MinRatio
  BY <1>4, <1>5
<1>9. MedianAgrees(c, side) <=> c.median2 # None /\ agrees
  BY DEF MedianAgrees
<1>10. Rejections(c, side) = {} <=>
          /\ ~(c.valid < MinValid) /\ ~(~c.mainValid)
          /\ ~(c.count[side] < MinConfirming) /\ ~(c.ratio[side] < MinRatio)
          /\ ~(c.momentum * Sign(side) <= 0)
          /\ ~(/\ "median" \in on
               /\ \/ c.median2 = None
                  \/ IF side = "long" THEN c.median2 <= 2 * LongAbove
                                      ELSE c.median2 > 2 * ShortUpTo)
          /\ ~("main" \in on /\ ~c.mainSide[side])
  BY <1>2, <1>3, Zenon
<1>11. ~(\/ c.median2 = None
         \/ IF side = "long" THEN c.median2 <= 2 * LongAbove ELSE c.median2 > 2 * ShortUpTo)
         <=> c.median2 # None /\ agrees
  BY <1>7
<1>12. Carries(c, side) =>
         /\ ~(c.count[side] < MinConfirming) /\ ~(c.ratio[side] < MinRatio)
         /\ ~(c.momentum * Sign(side) <= 0)
         /\ ("median" \in on => c.median2 # None /\ agrees)
         /\ ("main" \in on => c.mainSide[side])
  BY <1>6, <1>8, <1>9 DEF Carries
<1>13. (/\ ~(c.count[side] < MinConfirming) /\ ~(c.ratio[side] < MinRatio)
        /\ ~(c.momentum * Sign(side) <= 0)
        /\ ("median" \in on => c.median2 # None /\ agrees)
        /\ ("main" \in on => c.mainSide[side]))
         => Carries(c, side)
  BY <1>6, <1>8, <1>9 DEF Carries
<1> HIDE DEF agrees
<1>14. Rejections(c, side) = {} => c.valid >= MinValid /\ c.mainValid /\ Carries(c, side)
  BY <1>8, <1>10, <1>11, <1>13, Zenon
<1>15. c.valid >= MinValid /\ c.mainValid /\ Carries(c, side) => Rejections(c, side) = {}
  BY <1>8, <1>10, <1>11, <1>12, Zenon
<1> QED
  BY <1>14, <1>15

\* Of any verdict, however the median and the configured exchange are switched: the side
\* consensus_side picks and the reasons of direction_rejections say the same, and never of
\* both sides.  The audit of side_decision_audit passes no other side of a valid book, and
\* passes the picked one where use_median_imbalance is on; where it is off the audit may
\* deny it.
THEOREM JudgesAgree ==
    ASSUME NEW c \in Verdicts, NEW side \in Sides
    PROVE  /\ (ConsensusSide(c) = side) <=> (Rejections(c, side) = {})
           /\ c.mainValid /\ AuditPasses(c, side) => ConsensusSide(c) = side
           /\ ConsensusSide(c) = side /\ "median" \in on => AuditPasses(c, side)
<1>1. /\ c.valid \in Nat /\ MinValid \in Nat /\ None \notin Sides
      /\ side \in {"long", "short"} /\ c.mainValid \in BOOLEAN
  BY FeedAssumption DEF Verdicts, Sides
<1>2. Carries(c, side) => ("median" \in on => c.median2 # None)
  BY DEF Carries, MedianAgrees
<1>3. (ConsensusSide(c) = side) <=> (c.valid >= MinValid /\ c.mainValid /\ Carries(c, side))
  BY <1>1, <1>2, OneSideCarries DEF ConsensusSide, Sides
<1>4. AuditPasses(c, side) => c.valid >= MinValid /\ Carries(c, side)
  BY DEF AuditPasses, Carries
<1>5. c.valid >= MinValid /\ Carries(c, side) /\ "median" \in on => AuditPasses(c, side)
  BY DEF AuditPasses, Carries
<1> QED
  BY <1>3, <1>4, <1>5, NoReasons
================================================================================
