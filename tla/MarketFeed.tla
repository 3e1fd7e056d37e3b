------------------------------- MODULE MarketFeed -------------------------------
(***************************************************************************)
(* From the exchanges to the entry: ScannerService polls each exchange for *)
(* the futures book of the configured symbol in a worker thread, stores    *)
(* the book in FuturesSnapshotStore and evaluates the strategy under one   *)
(* lock; the evaluation reads the store, asks the rules of SignalRules and *)
(* keeps a first signal in memory until a later evaluation confirms it     *)
(* (handle_two_step_entry).                                                *)
(*                                                                         *)
(* One unit of time is a second.  The event loop runs what is ready before *)
(* the next second passes; worker threads and exchanges take as long as    *)
(* they like.  The recovery ladder and the fill of an entry belong to      *)
(* PaperLifecycle and LiveExecution: here an entry occupies the slot until *)
(* the trade is closed elsewhere.                                          *)
(***************************************************************************)
EXTENDS SignalRules

CONSTANTS
    Pairs,          \* enabled trading pairs of the configured symbol
    ExchangeOf,     \* the exchange of a pair
    Main,           \* the pair the strategy trades
    Answers,        \* what the exchange of a pair may answer: [lag, imb, mid, kind]
    Timeout,        \* order_book_fetch_timeout_seconds
    Interval,       \* fast_order_book_interval_seconds
    Past,           \* the closed trades the database may hold at first
    Settings,       \* the configurations, each the set of what it switches on
    Delay, MaxWait, \* confirmation_delay_seconds, confirmation_max_wait_seconds
    MaxTime, MaxTrades \* bounds of the model

\* A book is at least as old as its answer; a trade that is kept was closed by now.
Books == [lag: Nat, imb: Int, mid: Int, kind: {"ok", "wide", "spot", "broken"}]
ClosedTrades == [side: Sides, at: Nat, pnl: Int, few: BOOLEAN]
ASSUME FeedAssumption ==
    /\ {Timeout, Interval, Delay, MaxWait, MaxTime} \subseteq Nat
    /\ {MaxAge, Tolerance, MinValid, MinConfirming, MinRatio} \subseteq Nat
    /\ {LongAbove, ShortUpTo} \subseteq Int
    /\ IsFiniteSet(Pairs) /\ Main \in Pairs
    /\ \A p \in Pairs : Answers[p] \subseteq Books
    /\ Past \subseteq Seq(ClosedTrades)
    /\ Settings \subseteq SUBSET Switches
    /\ None \notin Sides \cup [pair: Pairs, asked: Nat]

Exchanges == {ExchangeOf[p] : p \in Pairs}
NoBook == [kind |-> "none"]
Idle == [state |-> "idle"]

VARIABLES
    now,
    due,        \* _futures_due
    task,       \* the task of a pair: idle, waiting for its worker, evaluating
    worker,     \* _futures_workers: the unfinished request of an exchange
    threads,    \* how many worker threads of an exchange are still running
    store,      \* FuturesSnapshotStore: [book, received, took], NoBook before
    points,     \* _mid_price_history
    active,     \* config.enabled and not state.is_stopped
    eval,       \* current_time of the running evaluation, None outside
    pending,    \* _pending_entries of the configured key
    open,       \* the side of the open trade
    trades,     \* closed trades, the newest first
    first       \* history: first signals since the restart, each used at most once

feed == <<due, task, worker, threads, store>>
strategy == <<points, eval, pending, open, trades, first>>
vars == <<now, feed, strategy, active, on>>

Init ==
    /\ now = 0
    /\ due = [p \in Pairs |-> 0]
    /\ task = [p \in Pairs |-> Idle]
    /\ worker = [e \in Exchanges |-> None]
    /\ threads = [e \in Exchanges |-> 0]
    /\ store = [p \in Pairs |-> NoBook]
    /\ points = [p \in Pairs |-> << >>]
    /\ active = TRUE
    /\ eval = None
    /\ pending = None
    /\ open = None
    /\ trades \in Past
    /\ first = {}
    /\ on \in Settings

-----------------------------------------------------------------------------
(* The scanner. *)

Due(p) == task[p].state = "idle" /\ due[p] <= now

\* One round of order_scanner: every pair that is due and has no task gets one.
\* A task ends at once when the last thread of its exchange is still running, so
\* of the pairs of a free exchange one starts its thread.
Cycle ==
    \E begun \in SUBSET {p \in Pairs : Due(p)} :
        /\ \E p \in Pairs : Due(p)
        /\ \A p \in Pairs : Due(p) /\ worker[ExchangeOf[p]] = None =>
               Cardinality({q \in begun : ExchangeOf[q] = ExchangeOf[p]}) = 1
        /\ \A p \in begun : worker[ExchangeOf[p]] = None
        /\ due' = [p \in Pairs |-> IF Due(p) THEN now + Interval ELSE due[p]]
        /\ task' = [p \in Pairs |-> IF p \in begun THEN [state |-> "waiting", asked |-> now]
                                                   ELSE task[p]]
        /\ worker' = [e \in Exchanges |->
                        IF \E p \in begun : ExchangeOf[p] = e
                        THEN [pair |-> CHOOSE p \in begun : ExchangeOf[p] = e, asked |-> now]
                        ELSE worker[e]]
        /\ threads' = [e \in Exchanges |-> threads[e] + Cardinality({p \in begun : ExchangeOf[p] = e})]
        /\ UNCHANGED <<now, store, strategy, active>>

\* Faulty variant of Waits: an answer is used whoever still waits for it.
AnyAnswer(request) == task[request.pair].state # "evaluating"
\* The task of a request still waits for it: it has not given up.
Waits(request) ==
    /\ task[request.pair].state = "waiting"
    /\ task[request.pair].asked = request.asked

Locked == \E q \in Pairs : task[q].state = "evaluating"

\* The thread of an exchange ends with a book or with an exception.  A task that
\* still waits stores the book whatever the store holds, and evaluates it only when
\* no other evaluation has the lock; nobody reads the result after that.
Answer(e) ==
    /\ worker[e] # None
    /\ worker' = [worker EXCEPT ![e] = None]
    /\ threads' = [threads EXCEPT ![e] = @ - 1]
    /\ LET p == worker[e].pair IN
       \/ task' = [task EXCEPT ![p] = IF Waits(worker[e]) THEN Idle ELSE @] /\ UNCHANGED store
       \/ /\ Waits(worker[e])
          /\ \E b \in Answers[p] :
               store' = [store EXCEPT ![p] =
                  [book |-> [src |-> now - b.lag, imb |-> b.imb, mid |-> b.mid, kind |-> b.kind],
                   received |-> now, took |-> now - worker[e].asked]]
          /\ task' = [task EXCEPT ![p] = IF Locked THEN Idle ELSE [state |-> "evaluating"]]
    /\ UNCHANGED <<now, due, strategy, active>>

TimedOut(p) == task[p].state = "waiting" /\ now >= task[p].asked + Timeout

\* Faulty variant of GiveUp: the exchange counts as free although its thread runs on.
GiveUpForgets(p) ==
    /\ TimedOut(p)
    /\ task' = [task EXCEPT ![p] = Idle]
    /\ worker' = [worker EXCEPT ![ExchangeOf[p]] = None]
    /\ UNCHANGED <<now, due, threads, store, strategy, active>>
\* wait_for gives up; the shielded thread runs on.
GiveUp(p) ==
    /\ TimedOut(p)
    /\ task' = [task EXCEPT ![p] = Idle]
    /\ UNCHANGED <<now, due, worker, threads, store, strategy, active>>

-----------------------------------------------------------------------------
(* The evaluation. *)

Stored == {p \in Pairs : store[p] # NoBook}
NextPoints(p, at) == Recorded(points[p], store[p].book, store[p].received, at)

EndTask(p) == task' = [task EXCEPT ![p] = Idle]

\* hook_match: the book is of the configured exchange and symbol.
Configured(p) == p = Main

\* on_order_book_snapshot ignores the book of another exchange, which has held the
\* lock for nothing.
Ignore(p) ==
    /\ ~Configured(p) /\ task[p].state = "evaluating"
    /\ EndTask(p)
    /\ UNCHANGED <<now, due, worker, threads, store, strategy, active>>

\* evaluate fixes current_time and reads the book of the configured pair once.
\* It ends here while a trade is open, while the strategy is stopped, and on a book
\* the normaliser refuses.
Begin ==
    /\ task[Main].state = "evaluating" /\ eval = None
    /\ IF open # None \/ active
       THEN points' = [points EXCEPT ![Main] = NextPoints(Main, now)]
       ELSE UNCHANGED points
    /\ IF open = None /\ active /\ store[Main].book.kind # "broken"
       THEN eval' = now /\ UNCHANGED task
       ELSE EndTask(Main) /\ UNCHANGED eval
    /\ UNCHANGED <<now, due, worker, threads, store, pending, open, trades, first, active>>

\* clear_pending_entry forgets the first signal, so does the history of it.
Forget(signals) == IF pending = None THEN signals ELSE signals \ {pending}

\* Faulty variant of Expired: the longest wait is never over.
NeverExpires(signal, at) == FALSE
Expired(signal, at) == at > signal.at + MaxWait

\* create_pending_entry
FirstSignal(signal, at, c) ==
    /\ pending' = [side |-> signal, at |-> at, momentum |-> c.momentum, valid |-> c.valid]
    /\ first' = first \cup {pending'}

\* handle_two_step_entry: expired, still waiting, cancelled, confirmed, or new.
TwoStep(c, signal, at) ==
    IF pending # None THEN
        LET expired == Expired(pending, at)
            waiting == ~expired /\ at < pending.at + Delay
            confirmed == ~expired /\ ~waiting /\ Confirms(pending, signal, c)
        IN  /\ pending' = IF waiting THEN pending ELSE None
            /\ first' = IF waiting THEN first ELSE Forget(first)
            /\ open' = IF confirmed /\ active THEN pending.side ELSE open
    ELSE
        /\ IF signal = None THEN UNCHANGED <<pending, first>> ELSE FirstSignal(signal, at, c)
        /\ UNCHANGED open

\* The rest of evaluate reads the whole store again: a book that arrived since
\* current_time was taken is already seen.  Its state row was loaded by Begin, so
\* a stop in between goes unnoticed until open_position refreshes the row.
Decide ==
    LET next == [q \in Pairs |-> IF q \in Stored THEN NextPoints(q, eval) ELSE points[q]]
        rows == [q \in Stored |-> Row(store[q].book, next[q], store[q].received, eval)]
        c == Consensus(rows, Main)
    IN  /\ eval # None
        /\ points' = next
        /\ TwoStep(c, Signal(c, trades, eval), eval)
        /\ eval' = None
        /\ EndTask(Main)
        /\ UNCHANGED <<now, due, worker, threads, store, trades, active>>

-----------------------------------------------------------------------------
(* The surroundings. *)

\* set_stopped and the start: a stop clears the first signal of this process.
Stop ==
    /\ active
    /\ active' = FALSE /\ pending' = None /\ first' = Forget(first)
    /\ UNCHANGED <<now, feed, points, eval, open, trades>>

Start ==
    /\ ~active
    /\ active' = TRUE
    /\ UNCHANGED <<now, feed, strategy>>

\* close_trade, of the reconciliation thread or of an evaluation.
Close ==
    /\ open # None /\ Len(trades) < MaxTrades
    /\ \E pnl \in {-1, 1} :
         trades' = <<[side |-> open, at |-> now, pnl |-> pnl, few |-> FALSE]>> \o trades
    /\ open' = None
    /\ UNCHANGED <<now, feed, points, eval, pending, first, active>>

\* A restart loses everything but the database.
Restart ==
    /\ due' = [p \in Pairs |-> 0]
    /\ task' = [p \in Pairs |-> Idle]
    /\ worker' = [e \in Exchanges |-> None]
    /\ threads' = [e \in Exchanges |-> 0]
    /\ store' = [p \in Pairs |-> NoBook]
    /\ points' = [p \in Pairs |-> << >>]
    /\ eval' = None
    /\ pending' = None
    /\ first' = {}
    /\ UNCHANGED <<now, open, trades, active>>

Tick ==
    /\ now < MaxTime
    /\ \A p \in Pairs : ~Due(p) /\ ~TimedOut(p)
    /\ now' = now + 1
    /\ due' = [p \in Pairs |-> IF due[p] <= now' THEN 0 ELSE due[p]]  \* due is due
    /\ UNCHANGED <<task, worker, threads, store, strategy, active>>

\* The switches stay as they are: their change by a PATCH is left out.
Next ==
    /\ \/ \E p \in Pairs : GiveUp(p) \/ Ignore(p)
       \/ \E e \in Exchanges : Answer(e)
       \/ Cycle \/ Begin \/ Decide \/ Stop \/ Start \/ Close \/ Restart \/ Tick
    /\ UNCHANGED on

Spec == Init /\ [][Next]_vars

-----------------------------------------------------------------------------
(* Correctness. *)

TypeOK ==
    /\ now \in 0..MaxTime
    /\ \A p \in Pairs :
         /\ due[p] \in 0..(MaxTime + Interval)
         /\ task[p].state \in {"idle", "waiting", "evaluating"}
         /\ store[p] = NoBook \/ store[p].book.src <= store[p].received
         /\ Len(points[p]) <= Window
    /\ \A e \in Exchanges : worker[e] = None \/ worker[e].pair \in Pairs
    /\ eval \in {None} \cup 0..now
    /\ open \in Sides \cup {None} /\ active \in BOOLEAN /\ on \subseteq Switches
    /\ pending # None => pending \in first

\* Whatever is given up or late, the scanner does one thing at a time: an exchange never
\* has two threads using its client, the answer of a request that was given up never
\* reaches the store (fetch_futures_snapshot), and of the tasks and threads every pair has
\* only one evaluates: they share the first signal and the price history.
OneAtATime ==
    /\ \A e \in Exchanges : threads[e] <= 1
    /\ \A p \in Stored : store[p].took <= Timeout
    /\ Cardinality({p \in Pairs : task[p].state = "evaluating"}) <= 1

Decides == eval # None /\ eval' = None

\* The verdict a decision rests on.
Judged ==
    {Consensus(rows, Main) : rows \in
        {[q \in Stored |-> Row(store[q].book, points'[q], store[q].received, eval)]}}

\* Three places judge the same books.  However the median and the configured exchange
\* are switched, consensus_side picks a side exactly when the reasons of
\* direction_rejections are empty.  The audit written beside the decision
\* (side_decision_audit) never passes a side of a valid book that was not picked, and
\* passes the one that was as long as the median is asked for; with the median switched
\* off it still demands it, and may deny a side that is traded.
RulesAgree ==
    [][Decides => \A c \in Judged, side \in Sides :
         /\ (ConsensusSide(c) = side) <=> (Rejections(c, side) = {})
         /\ c.mainValid /\ AuditPasses(c, side) => ConsensusSide(c) = side
         /\ ConsensusSide(c) = side /\ "median" \in on => AuditPasses(c, side)]_vars

Enters == open = None /\ open' # None

\* An entry confirms a first signal of the same side, no sooner than the delay and
\* no later than the longest wait after it, and uses that signal up: it was seen
\* since the last restart and was neither cancelled nor confirmed before.
ConfirmedInTime ==
    [][Enters => /\ Decides
                 /\ \E f \in first : /\ f.side = open' /\ f \notin first'
                                     /\ eval - f.at \in Delay..MaxWait]_vars

\* An entry is backed by fresh books of enough exchanges at the moment of the
\* evaluation, the traded one among them, although the store changes while the
\* evaluation reads it.
EntryHasQuorum ==
    [][Enters => LET fresh == {q \in Stored :
                                 /\ eval - store[q].book.src \in (0 - Tolerance)..MaxAge
                                 /\ store[q].book.kind = "ok"}
                 IN  Decides /\ Main \in fresh /\ Cardinality(fresh) >= MinValid]_vars

\* Where the feedback is switched on, a streak of losses on a side rests that side: no
\* entry of it is taken until the cool-down after the last of them is over, whatever
\* signals are confirmed.
ColdSideRests ==
    [][Enters => LET mine == OfSide(trades, open')
                 IN  (/\ "feedback" \in on /\ Len(mine) >= StreakLimit
                      /\ \A i \in 1..StreakLimit : mine[i].pnl < 0)
                     => eval >= mine[1].at + SideCooldown]_vars
=============================================================================
