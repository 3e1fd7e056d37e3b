-------------------------------- MODULE SpotDesk --------------------------------
(***************************************************************************)
(* The spot half of the scanner and what trades on it: fetch_pair_order_   *)
(* book with its cool-downs, ArbitrageStrategyService.run_once, which the  *)
(* scanner calls in the event loop after every book and a request calls in *)
(* a thread of its own, RiskManager, and PaperTradingService, which fills  *)
(* and closes paper positions.                                             *)
(*                                                                         *)
(* One action ends at a commit, at an await or at the end of a read whose  *)
(* result is used later.  The scanner's run holds the event loop, so no    *)
(* other task of the scanner moves meanwhile; requests do.                 *)
(***************************************************************************)
EXTENDS Integers, Sequences, FiniteSets, TLC, SequencesExt

CONSTANTS
    SpotPairs, ExchangeOfPair, SymbolOfPair,
    EnabledPairs,           \* the sets of pairs an installation may have enabled
    SpotBooks,              \* what a pair's exchange may answer: [ask, bid, size, fee]
    Unreliable,             \* pairs whose fetch may fail
    Parallel,               \* SCANNER_MAX_PARALLEL_TASKS
    SlowWait, FailWait,     \* slow_ and failed_exchange_cooldown_seconds
    Unit,                   \* amounts are kept in units of 1 / Unit
    MaxMargin,              \* max_order_margin_usdt
    FeeBuffer,              \* taker_fee_buffer_percent + slippage_buffer_percent
    MinSpread, MinNet, MinProfit,
    MaxDailyLoss,           \* of the default limits
    SignalCooldown,         \* cooldown_seconds_per_symbol
    ClosePrices,            \* prices a close may name
    ManualOrders,           \* what the body of a manual signal may ask, see Order
    SpotRequests,           \* concurrent HTTP requests
    SpotEnd, MaxSignals     \* bounds of the model

ASSUME SpotAssumption ==
    Unit \in Nat \ {0} /\ Parallel \in Nat \ {0} /\ SignalCooldown \in Nat

SpotExchanges == {ExchangeOfPair[p] : p \in SpotPairs}
Runners == {"scanner"} \cup SpotRequests
Unset == -1
NoRun == [pc |-> "idle", todo |-> << >>, seen |-> 0, signal |-> 0, order |-> << >>]

VARIABLES
    clock,
    nextScan,   \* _next_order_book_scan_at
    fetch,      \* the task of a pair: off, idle, queued, fetching, stored, running
    coolUntil,  \* _exchange_cooldowns, Unset without an entry
    books,      \* OrderBookSnapshotStore, << >> before the first book
    lastSignal, \* _last_signal_at: seconds by dedupe key
    signals,    \* TradeSignal with its ArbitrageOpportunity; a manual one has the key << >>
    positions,  \* PaperPosition; order, before and overtaken are history
    closes,     \* history: how many closes were committed
    runs        \* the run_once or the close of a runner

scan == <<nextScan, fetch, coolUntil, books>>
ledger == <<signals, positions, closes>>
spotVars == <<clock, scan, lastSignal, ledger, runs>>

SpotInit ==
    /\ clock = 0
    /\ nextScan = [p \in SpotPairs |-> 0]
    /\ \E enabled \in EnabledPairs :
          fetch = [p \in SpotPairs |-> IF p \in enabled THEN "idle" ELSE "off"]
    /\ coolUntil = [e \in SpotExchanges |-> Unset]
    /\ books = [p \in SpotPairs |-> << >>]
    /\ lastSignal = << >>
    /\ signals = << >> /\ positions = << >> /\ closes = 0
    /\ runs = [r \in Runners |-> NoRun]

-----------------------------------------------------------------------------
(* What two books offer. *)

RoundUp(a, b) == (2 * a + b) \div (2 * b)  \* a / b to the nearest unit, halves up

\* _build_opportunity: the smallest of both sizes and what the margin buys, rounded.
Amount(buy, sell) ==
    LET margin == RoundUp(MaxMargin * Unit, buy.ask)
        size == IF buy.size < sell.size THEN buy.size ELSE sell.size
    IN  IF margin < size * Unit THEN margin ELSE size * Unit

Gross(buy, sell) == ((sell.bid - buy.ask) * 100) \div buy.ask
Net(buy, sell) == Gross(buy, sell) - buy.fee - sell.fee - FeeBuffer

Offers(buy, sell) ==
    /\ sell.bid > buy.ask
    /\ Amount(buy, sell) > 0
    /\ Gross(buy, sell) >= MinSpread
    /\ Net(buy, sell) >= MinNet
    /\ buy.ask * Amount(buy, sell) * Net(buy, sell) >= MinProfit * 100 * Unit

Profit(o) == o.price * o.amount * o.net

\* calculate_opportunities: every ordered pair of exchanges, the best first.  The
\* dedupe key names both sides and both prices.
Opportunities ==
    LET known == {p \in SpotPairs : books[p] # << >>}
        found == {pq \in known \X known : /\ ExchangeOfPair[pq[1]] # ExchangeOfPair[pq[2]]
                                         /\ SymbolOfPair[pq[1]] = SymbolOfPair[pq[2]]
                                         /\ Offers(books[pq[1]], books[pq[2]])}
        row(pq) == [key    |-> <<pq[1], pq[2], books[pq[1]].ask, books[pq[2]].bid>>,
                    price  |-> books[pq[1]].ask,
                    amount |-> Amount(books[pq[1]], books[pq[2]]),
                    net    |-> Net(books[pq[1]], books[pq[2]])]
    IN  SetToSortSeq({row(pq) : pq \in found}, LAMBDA a, b: Profit(a) > Profit(b))

-----------------------------------------------------------------------------
(* The scanner. *)

LoopFree == runs["scanner"].pc = "idle"

SpotDue(p) == fetch[p] = "idle" /\ nextScan[p] <= clock

\* One round of order_scanner, with an interval of one second.
SpotCycle ==
    /\ LoopFree
    /\ \E p \in SpotPairs : SpotDue(p)
    /\ fetch' = [p \in SpotPairs |-> IF SpotDue(p) THEN "queued" ELSE fetch[p]]
    /\ nextScan' = [p \in SpotPairs |-> IF SpotDue(p) THEN clock + 1 ELSE nextScan[p]]
    /\ UNCHANGED <<clock, coolUntil, books, lastSignal, ledger, runs>>

Active == {p \in SpotPairs : fetch[p] \in {"fetching", "stored", "running"}}

\* The semaphore admits a task, which looks at the cool-down of its exchange.
SpotStart(p) ==
    /\ LoopFree /\ fetch[p] = "queued"
    /\ Cardinality(Active) < Parallel
    /\ fetch' = [fetch EXCEPT ![p] = IF coolUntil[ExchangeOfPair[p]] > clock THEN "idle" ELSE "fetching"]
    /\ UNCHANGED <<clock, nextScan, coolUntil, books, lastSignal, ledger, runs>>

\* The book is stored before the clients are told; an empty one ends the task.
SpotAnswer(p) ==
    /\ LoopFree /\ fetch[p] = "fetching"
    /\ \/ fetch' = [fetch EXCEPT ![p] = "idle"] /\ UNCHANGED books
       \/ \E b \in SpotBooks[p] :
            /\ books' = [books EXCEPT ![p] = b]
            /\ fetch' = [fetch EXCEPT ![p] = "stored"]
    /\ UNCHANGED <<clock, nextScan, coolUntil, lastSignal, ledger, runs>>

\* _mark_exchange_failed: the cool-down depends on the kind of the failure.
MarkFailed(e, wait) == coolUntil' = [coolUntil EXCEPT ![e] = clock + wait]

SpotFail(p) ==
    /\ LoopFree /\ fetch[p] = "fetching" /\ p \in Unreliable
    /\ \E wait \in {SlowWait, FailWait} : MarkFailed(ExchangeOfPair[p], wait)
    /\ fetch' = [fetch EXCEPT ![p] = "idle"]
    /\ UNCHANGED <<clock, nextScan, books, lastSignal, ledger, runs>>

\* _mark_exchange_recovered.
Recovered(e) == coolUntil' = [coolUntil EXCEPT ![e] = Unset]

-----------------------------------------------------------------------------
(* One run of the strategy. *)

Begin(r) == runs' = [runs EXCEPT ![r] = [NoRun EXCEPT !.pc = "check", !.todo = Opportunities]]

\* The task of a pair runs the strategy when it is enabled: it reads the whole store.
ScannerRun(p) ==
    /\ LoopFree /\ fetch[p] = "stored"
    /\ fetch' = [fetch EXCEPT ![p] = "running"]
    /\ Begin("scanner")
    /\ UNCHANGED <<clock, nextScan, coolUntil, books, lastSignal, ledger>>

\* run_once of the API, which needs no enabled configuration.
RequestRun(r) ==
    /\ r \in SpotRequests /\ runs[r].pc = "idle"
    /\ Begin(r)
    /\ UNCHANGED <<clock, scan, lastSignal, ledger>>

\* Faulty variant of OnCooldown: only the memory of this process is asked.
OnCooldownInMemory(key) ==
    key \in DOMAIN lastSignal /\ clock - lastSignal[key] < SignalCooldown
\* _is_on_cooldown asks the memory of the process and then the table.
OnCooldown(key) ==
    /\ SignalCooldown > 0
    /\ \/ key \in DOMAIN lastSignal /\ clock - lastSignal[key] < SignalCooldown
       \/ \E i \in DOMAIN signals : signals[i].key = key /\ signals[i].at >= clock - SignalCooldown

\* The next opportunity of a run is skipped or will be created.
CheckNext(r) ==
    /\ runs[r].pc = "check" /\ runs[r].todo # << >>
    /\ runs' = [runs EXCEPT ![r] =
          IF OnCooldown(Head(runs[r].todo).key) THEN [@ EXCEPT !.todo = Tail(runs[r].todo)]
          ELSE [@ EXCEPT !.pc = "create", !.seen = Len(signals)]]
    /\ UNCHANGED <<clock, scan, lastSignal, ledger>>

\* _create_opportunity_and_signal commits both rows; the memory is marked after it.
\* The configuration, read again after the commit, says whether the signal is executed
\* (paper_execute_enabled); otherwise the run goes on with the next.
Create(r) ==
    LET o == Head(runs[r].todo)
    IN  /\ runs[r].pc = "create" /\ Len(signals) < MaxSignals
        /\ signals' = Append(signals, [key |-> o.key, at |-> clock, price |-> o.price, amount |-> o.amount,
                                       seen |-> runs[r].seen, status |-> "created", result |-> "created"])
        /\ lastSignal' = (o.key :> clock) @@ lastSignal
        /\ runs' \in {[runs EXCEPT ![r].pc = "execute", ![r].seen = 0, ![r].signal = Len(signals')],
                     [runs EXCEPT ![r] = [NoRun EXCEPT !.pc = "check", !.todo = Tail(runs[r].todo)]]}
        /\ UNCHANGED <<clock, scan, positions, closes>>

-----------------------------------------------------------------------------
(* Risk and fill. *)

RealizedPnl(rows) ==
    LET upTo[n \in 0..Len(rows)] ==
          IF n = 0 THEN 0
          ELSE IF rows[n].status = "closed" THEN upTo[n - 1] + rows[n].pnl ELSE upTo[n - 1]
    IN  upTo[Len(rows)]
DailyPnl == RealizedPnl(positions)

\* The order a run is about to place: the price it is judged at, the one it is filled
\* at, and the limits it is judged by, the margin times the leverage.  An order for a
\* signal of the desk takes the margin of the configuration and the default loss.  The
\* body of a manual one, which has no signal row yet, names both prices and may put other
\* limits in their place (risk_config, strategy_config).
Order(r) ==
    IF runs[r].signal = 0 THEN runs[r].order
    ELSE LET signal == signals[runs[r].signal]
         IN  [price |-> signal.price, fill |-> signal.price, amount |-> signal.amount,
              margin |-> MaxMargin * Unit, loss |-> MaxDailyLoss * Unit]

\* validate_signal; the other limits hold for every signal _build_opportunity returns,
\* and the manual orders at stake here are within theirs.
Approved(order) ==
    /\ order.price * order.amount <= order.margin
    /\ DailyPnl > 0 - order.loss

\* validate_signal reads the closed positions of the day.
Judge(r) ==
    /\ runs[r].pc = "execute"
    /\ runs' = [runs EXCEPT ![r].pc = IF Approved(Order(r)) THEN "fill" ELSE "refuse",
                            ![r].seen = closes]
    /\ UNCHANGED <<clock, scan, lastSignal, ledger>>

\* The fill is at the last_price or price of the body.
Position(r, signal) ==
    [entry |-> Order(r).fill, amount |-> Order(r).amount, signal |-> signal, status |-> "open",
     pnl |-> 0, order |-> Order(r), before |-> DailyPnl, overtaken |-> closes > runs[r].seen]

\* execute_existing_signal: one commit writes the signal, its order and the position,
\* or the rejection.  A manual signal is inserted by the same commit.
Settle(r) ==
    LET ok == runs[r].pc = "fill"
        i == runs[r].signal
        status == IF ok THEN "executed" ELSE "rejected"
        row == [key |-> << >>, at |-> Unset, price |-> Order(r).price, amount |-> Order(r).amount,
                seen |-> 0, status |-> status, result |-> "none"]
    IN  /\ runs[r].pc \in {"fill", "refuse"}
        /\ i = 0 => Len(signals) < MaxSignals
        /\ signals' = IF i = 0 THEN Append(signals, row) ELSE [signals EXCEPT ![i].status = status]
        /\ positions' = IF ok THEN Append(positions, Position(r, IF i = 0 THEN Len(signals') ELSE i))
                        ELSE positions
        /\ runs' = [runs EXCEPT ![r] = IF i = 0 THEN NoRun ELSE [@ EXCEPT !.pc = "report"]]
        /\ UNCHANGED <<clock, scan, lastSignal, closes>>

\* Faulty variant of Outcome: the answer of the execution is not looked at.
OutcomeAssumed(s) == "paper_executed"
Outcome(s) == IF s.status = "executed" THEN "paper_executed" ELSE "rejected"

\* A second commit notes the outcome on the opportunity.
Report(r) ==
    /\ runs[r].pc = "report"
    /\ signals' = [signals EXCEPT ![runs[r].signal].result = Outcome(signals[runs[r].signal])]
    /\ runs' = [runs EXCEPT ![r] = [NoRun EXCEPT !.pc = "check", !.todo = Tail(runs[r].todo)]]
    /\ UNCHANGED <<clock, scan, lastSignal, positions, closes>>

EndsTask(r) ==
    fetch' = IF r = "scanner" THEN [p \in SpotPairs |-> IF fetch[p] = "running" THEN "idle" ELSE fetch[p]]
             ELSE fetch
ExchangeRunning == ExchangeOfPair[CHOOSE p \in SpotPairs : fetch[p] = "running"]

\* A run is over; the exchange whose book it followed is known to work.
EndRun(r) ==
    /\ runs[r].pc = "check" /\ runs[r].todo = << >>
    /\ runs' = [runs EXCEPT ![r] = NoRun]
    /\ EndsTask(r)
    /\ IF r = "scanner" THEN Recovered(ExchangeRunning) ELSE UNCHANGED coolUntil
    /\ UNCHANGED <<clock, nextScan, books, lastSignal, ledger>>

\* The database fails in a run: the scanner puts the exchange on its cool-down.
Raise(r) ==
    /\ runs[r].pc \in {"check", "create", "execute", "fill", "refuse", "report"}
    /\ runs' = [runs EXCEPT ![r] = NoRun]
    /\ EndsTask(r)
    /\ IF r = "scanner" THEN MarkFailed(ExchangeRunning, FailWait) ELSE UNCHANGED coolUntil
    /\ UNCHANGED <<clock, nextScan, books, lastSignal, ledger>>

-----------------------------------------------------------------------------
(* Requests, restarts, time. *)

\* execute_paper_signal: one transaction from the insert of the signal to the outcome.
Manual(r, order) ==
    /\ r \in SpotRequests /\ runs[r].pc = "idle"
    /\ runs' = [runs EXCEPT ![r] = [NoRun EXCEPT !.pc = "execute", !.order = order]]
    /\ UNCHANGED <<clock, scan, lastSignal, ledger>>

\* close_position reads the row, which must be open, and writes it later.
CloseBegin(r) ==
    /\ r \in SpotRequests /\ runs[r].pc = "idle"
    /\ \E i \in DOMAIN positions : /\ positions[i].status = "open"
                                   /\ runs' = [runs EXCEPT ![r] = [NoRun EXCEPT !.pc = "close", !.signal = i]]
    /\ UNCHANGED <<clock, scan, lastSignal, ledger>>

\* Two requests may have found the position open; a result of nothing is the one its
\* image was loaded with and is not written.
CloseEnd(r) ==
    LET i == runs[r].signal
        pnl(price) == (price - positions[i].entry) * positions[i].amount
    IN  /\ runs[r].pc = "close"
        /\ \E price \in ClosePrices :
             positions' = [positions EXCEPT ![i].status = "closed",
                                            ![i].pnl = IF pnl(price) = 0 THEN @ ELSE pnl(price)]
        /\ closes' = closes + 1
        /\ runs' = [runs EXCEPT ![r] = NoRun]
        /\ UNCHANGED <<clock, scan, lastSignal, signals>>

\* Everything but the tables is lost.
SpotRestart ==
    /\ nextScan' = [p \in SpotPairs |-> 0]
    /\ fetch' = [p \in SpotPairs |-> IF fetch[p] = "off" THEN "off" ELSE "idle"]
    /\ coolUntil' = [e \in SpotExchanges |-> Unset]
    /\ books' = [p \in SpotPairs |-> << >>]
    /\ lastSignal' = << >>
    /\ runs' = [r \in Runners |-> NoRun]
    /\ UNCHANGED <<clock, ledger>>

SpotTick ==
    /\ clock < SpotEnd
    /\ clock' = clock + 1
    /\ UNCHANGED <<scan, lastSignal, ledger, runs>>

SpotNext ==
    \/ SpotCycle \/ SpotRestart \/ SpotTick
    \/ \E p \in SpotPairs : SpotStart(p) \/ SpotAnswer(p) \/ SpotFail(p) \/ ScannerRun(p)
    \/ \E r \in Runners :
         \/ RequestRun(r) \/ CheckNext(r) \/ Create(r) \/ Judge(r) \/ Settle(r) \/ Report(r) \/ EndRun(r) \/ Raise(r)
         \/ CloseBegin(r) \/ CloseEnd(r)
         \/ \E order \in ManualOrders : Manual(r, order)

SpotSpec == SpotInit /\ [][SpotNext]_spotVars

-----------------------------------------------------------------------------
(* Correctness. *)

\* Two signals of one opportunity within its cool-down come only from runs that
\* overlapped: the second run looked before the first had committed.  A restart, which
\* forgets the memory, is no excuse (_is_on_cooldown); a cool-down of zero is none.
DuplicateOnlyByOverlap ==
    SignalCooldown > 0 =>
    \A i, j \in DOMAIN signals :
        (/\ i < j /\ signals[i].key = signals[j].key /\ signals[i].key # << >>
         /\ signals[j].at - signals[i].at <= SignalCooldown)
        => signals[j].seen < i

\* An order is held to its own limits at the price it names: its margin, and the loss of
\* the day when it was judged, unless a close committed between that and the fill.
OwnLimits(p) ==
    /\ p.order.price * p.amount <= p.order.margin
    /\ p.before > 0 - p.order.loss \/ p.overtaken
\* The desk's are held to the configured ones at the price they are filled at.
DeskLimits(p) ==
    /\ p.entry * p.amount <= MaxMargin * Unit
    /\ p.before > 0 - MaxDailyLoss * Unit \/ p.overtaken

\* Whatever fails between the commits, an executed signal has exactly one position and
\* no other has one, and the outcome noted on the opportunity is that of the signal.
\* The position of a signal the desk found is within the margin of an order, although the
\* amount is rounded to the nearest unit, and within the day's loss (validate_signal); a
\* manual one is within what its own body left in force, at the price it named: the price
\* it is filled at, and so its margin, is not looked at.
OrdersBacked ==
    /\ \A i \in DOMAIN signals :
          /\ Cardinality({k \in DOMAIN positions : positions[k].signal = i})
                = (IF signals[i].status = "executed" THEN 1 ELSE 0)
          /\ signals[i].result = "paper_executed" => signals[i].status = "executed"
          /\ signals[i].result = "rejected" => signals[i].status = "rejected"
    /\ \A k \in DOMAIN positions :
          /\ OwnLimits(positions[k])
          /\ signals[positions[k].signal].key # << >> => DeskLimits(positions[k])
=============================================================================
