-------------------------------- MODULE Backtest --------------------------------
(***************************************************************************)
(* The research service: BacktestService simulates a trend strategy candle *)
(* by candle and reports metrics, a Monte Carlo shuffle and a walk-forward *)
(* split; FuturesTrendStrategyService decides on the last candles of the   *)
(* store by the same rules; ExperimentRunnerService backtests a grid of    *)
(* parameters per market, commits the candidates market by market and      *)
(* reports what was created since it started.                              *)
(*                                                                         *)
(* Time goes on between two backtests: candles are added to the tape.      *)
(* Indicators are kept in units of 1 / Scale, profits in whole units.      *)
(***************************************************************************)
EXTENDS Integers, Sequences, FiniteSets, SequencesExt, FiniteSetsExt

CONSTANTS
    Shapes,         \* candles [high, low, close]
    Configs,        \* [fast, slow, rsi, longMax, shortMin, tp, sl, risk, tolerance, fee]
    Scale, Equity,  \* unit of the indicators, initial_equity
    WindowSize,     \* candles the paper strategy reads
    TapeEnd, Behind,        \* bounds of the model: candles, and those a report may lack
    Markets,        \* symbol, timeframe and period of an experiment
    Accepted,       \* the parameter sets that Rejections accepts on the candles of a market
    Short,          \* markets with too few candles for a backtest
    MaxRuns,        \* max_combinations
    LeastTrades,    \* 100
    Researchers,    \* concurrent experiment requests
    ExperimentEnd   \* bound of the model

\* Prices are positive, and so are the periods and the distance of the stop, which are
\* divisors; the other parameters are numbers.
ASSUME BacktestAssumption ==
    /\ Shapes \subseteq [high : Nat \ {0}, low : Nat \ {0}, close : Nat \ {0}]
    /\ Configs \subseteq [fast : Nat \ {0}, slow : Nat \ {0}, rsi : Nat \ {0}, sl : Nat \ {0}, tp : Nat,
                        longMax : Int, shortMin : Int, risk : Int, tolerance : Int, fee : Int]
    /\ IsFiniteSet(Configs)
    /\ Equity \in Int /\ {MaxRuns, ExperimentEnd} \subseteq Nat

VARIABLES
    tape,           \* the candles there are
    config,         \* strategy_config of the backtests
    report,         \* the last BacktestRun, << >> before the first
    experiments,    \* the experiment a request runs
    candidates,     \* StrategyCandidate rows
    steps           \* the clock of the experiments

researchVars == <<tape, config, report>>
experimentVars == <<experiments, candidates, steps>>

-----------------------------------------------------------------------------
(* IndicatorEngine. *)

\* The sums of the first n elements.
Sums(s) == LET sum[n \in 0..Len(s)] == IF n = 0 THEN 0 ELSE sum[n - 1] + s[n] IN sum
Total(s) == Sums(s)[Len(s)]
Bigger(x, y) == IF x > y THEN x ELSE y

\* The average of the first period, then exponentially smoothed.
Ema(values, period) ==
    FoldLeft(LAMBDA ema, x: ema + ((x * Scale - ema) * 2) \div (period + 1),
             (Total(SubSeq(values, 1, period)) * Scale) \div period,
             SubSeq(values, period + 1, Len(values)))

Rise(values, n) == Bigger(values[n] - values[n - 1], 0)
Fall(values, n) == Bigger(values[n - 1] - values[n], 0)

\* Wilder's averages; without a loss the index is 100.
Rsi(values, period) ==
    LET n == Len(values)
        first(Move(_, _)) == (Total([k \in 1..period |-> Move(values, k + 1)]) * Scale) \div period
        smooth(old, new) == (old * (period - 1) + new * Scale) \div period
        last == FoldLeft(LAMBDA avg, k: [gain |-> smooth(avg.gain, Rise(values, k)),
                                         loss |-> smooth(avg.loss, Fall(values, k))],
                         [gain |-> first(Rise), loss |-> first(Fall)],
                         [k \in 1..(n - period - 1) |-> period + 1 + k])
    IN  IF last.loss = 0 THEN 100 ELSE (100 * last.gain) \div (last.gain + last.loss)

\* atr of the last candle is zero when no candle of the period moved.
TrueRange(candles, n) ==
    IF n = 1 THEN candles[1].high - candles[1].low
    ELSE Max({candles[n].high, candles[n - 1].close}) - Min({candles[n].low, candles[n - 1].close})
AtrIsZero(candles) == \A n \in DOMAIN candles : TrueRange(candles, n) = 0

-----------------------------------------------------------------------------
(* BacktestService: one position at a time. *)

Closes(candles) == [i \in DOMAIN candles |-> candles[i].close]
Gap(x, y) == IF x > y THEN x - y ELSE y - x

Touches(candle, ema, cfg) ==
    \/ candle.low * Scale <= ema /\ ema <= candle.high * Scale
    \/ Gap(candle.close * Scale, ema) * 100 <= candle.close * Scale * cfg.tolerance

TrendSide(fast, slow, rsi, cfg) ==
    IF fast > slow /\ rsi < cfg.longMax THEN "long"
    ELSE IF fast < slow /\ rsi > cfg.shortMin THEN "short" ELSE "none"

\* signal_at: the side the last visible candle proposes.
SignalAt(visible, cfg) ==
    LET closes == Closes(visible)
        fast == Ema(closes, cfg.fast)
    IN  IF Len(visible) < Bigger(cfg.slow, cfg.rsi + 1) \/ ~Touches(Last(visible), fast, cfg) THEN "none"
        ELSE TrendSide(fast, Ema(closes, cfg.slow), Rsi(closes, cfg.rsi), cfg)

Signed(side, x) == IF side = "short" THEN -x ELSE x

\* Stop loss and take profit, in units of 1 / 100 of the price.
StopOf(p, cfg) == p.entry * (100 - Signed(p.side, cfg.sl))
TakeOf(p, cfg) == p.entry * (100 + Signed(p.side, cfg.tp))

\* open_position risks a share of the equity on the distance of the stop.
Opened(side, candle, i, equity, cfg) ==
    [side |-> side, entry |-> candle.close, from |-> i, risk |-> (equity * cfg.risk) \div 100]

\* close_open_position: the result is the risk times the move, less fees on both sides.
Settled(p, price, i, reason, cfg) ==
    LET move == Signed(p.side, price - 100 * p.entry) * 100 - (price + 100 * p.entry) * cfg.fee
    IN  [side |-> p.side, from |-> p.from, to |-> i, reason |-> reason, risk |-> p.risk,
         pnl |-> (p.risk * move) \div (100 * p.entry * cfg.sl)]

\* check_exit: the stop counts before the target when a candle reaches both.
ExitOf(p, candle, cfg) ==
    LET hits(level, up) == IF up THEN candle.high * 100 >= level ELSE candle.low * 100 <= level
    IN  IF hits(StopOf(p, cfg), p.side = "short") THEN [price |-> StopOf(p, cfg), reason |-> "stop_loss"]
        ELSE IF hits(TakeOf(p, cfg), p.side = "long") THEN [price |-> TakeOf(p, cfg), reason |-> "take_profit"]
        ELSE [price |-> 0, reason |-> "none"]

\* Faulty variant of Visible: the candles that are still to come are seen as well.
VisibleAll(candles, i) == candles
\* What the simulation of candle i may look at.
Visible(candles, i) == SubSeq(candles, 1, i)

Flat == [side |-> "none"]
With(acc, trade) ==
    [acc EXCEPT !.equity = @ + trade.pnl, !.curve = Append(@, acc.equity + trade.pnl),
                !.trades = Append(@, trade), !.open = Flat]

\* One candle: an open position is only looked at for its exit.
Step(acc, i, candles, cfg) ==
    LET out == ExitOf(acc.open, candles[i], cfg)
        side == SignalAt(Visible(candles, i), cfg)
    IN  IF acc.open # Flat
        THEN IF out.reason = "none" THEN acc ELSE With(acc, Settled(acc.open, out.price, i, out.reason, cfg))
        ELSE IF side = "none" THEN acc
        ELSE [acc EXCEPT !.open = Opened(side, candles[i], i, acc.equity, cfg)]

Start == [equity |-> Equity, curve |-> <<Equity>>, trades |-> << >>, open |-> Flat]

\* The simulation after n candles.
After(candles, cfg) ==
    LET acc[n \in 0..Len(candles)] == IF n = 0 THEN Start ELSE Step(acc[n - 1], n, candles, cfg) IN acc

\* simulate: what is open at the end is closed there, unless it was opened there.
Simulate(candles, cfg) ==
    LET n == Len(candles)
        end == After(candles, cfg)[n]
    IN  IF n < Bigger(cfg.slow, cfg.rsi) + 2 THEN Start
        ELSE IF end.open # Flat /\ n > end.open.from
             THEN With(end, Settled(end.open, 100 * candles[n].close, n, "end_of_data", cfg))
             ELSE end

-----------------------------------------------------------------------------
(* Metrics. *)

Pnls(trades) == [i \in DOMAIN trades |-> trades[i].pnl]
Losses(pnls) == [i \in DOMAIN pnls |-> Bigger(-pnls[i], 0)]
Won(trades) == Total([i \in DOMAIN trades |-> Bigger(trades[i].pnl, 0)])
Lost(trades) == Total(Losses(Pnls(trades)))

\* profit_factor as a fraction: without a loss it is what was won.
ProfitFactor(trades) == <<Won(trades), IF Lost(trades) = 0 THEN 1 ELSE Lost(trades)>>
Above(f, x, of) == f[1] * of > x * f[2]     \* f > x / of

\* drawdown_curve and its largest entry.
Falling(old, x) ==
    LET peak == Bigger(old.peak, x) IN [peak |-> peak, worst |-> Bigger(old.worst, peak - x)]
Drawdowns(curve) ==
    LET acc[n \in 0..Len(curve)] ==
            IF n = 0 THEN [peak |-> curve[1], worst |-> 0] ELSE Falling(acc[n - 1], curve[n])
    IN  acc
MaxDrawdown(curve) == Drawdowns(curve)[Len(curve)].worst

\* The longest run of losses.
Longer(old, pnl) ==
    LET run == IF pnl < 0 THEN old.run + 1 ELSE 0 IN [run |-> run, best |-> Bigger(old.best, run)]
Streaks(pnls) ==
    LET acc[n \in 0..Len(pnls)] == IF n = 0 THEN [run |-> 0, best |-> 0] ELSE Longer(acc[n - 1], pnls[n]) IN acc
LongestStreak(pnls) == Streaks(pnls)[Len(pnls)].best

\* monte_carlo: the curve of one shuffle.
Curve(pnls) == [n \in 1..(Len(pnls) + 1) |-> Equity + Sums(pnls)[n - 1]]
Shuffled(pnls, order) == [i \in DOMAIN pnls |-> pnls[order[i]]]
Orders(n) == {f \in [1..n -> 1..n] : \A i, j \in 1..n : i # j => f[i] # f[j]}

\* walk_forward: the last candles before the split only warm the indicators up.
Split(candles) == (Len(candles) * 7) \div 10
\* Faulty variant of SeedFrom: one candle too many, on which the test may already trade.
SeedFromEarlier(candles, cfg) == Bigger(0, Split(candles) - cfg.slow - 1)
SeedFrom(candles, cfg) == Bigger(0, Split(candles) - cfg.slow)
Training(candles, cfg) == Simulate(SubSeq(candles, 1, Split(candles)), cfg)
Testing(candles, cfg) == Simulate(SubSeq(candles, SeedFrom(candles, cfg) + 1, Len(candles)), cfg)

-----------------------------------------------------------------------------
(* FuturesTrendStrategyService and ExperimentRunnerService. *)

\* Faulty variant of Window: the first of its candles is lost.
WindowShort(candles) == SubSeq(candles, Bigger(1, Len(candles) - WindowSize + 2), Len(candles))
\* get_window of the candle store.
Window(candles) == SubSeq(candles, Bigger(1, Len(candles) - WindowSize + 1), Len(candles))

\* evaluate: an indicator that is zero counts as one that is missing.  Its periods and
\* limits are constants of the service; here it has those the backtest is asked for.
PaperSignal(window, cfg) ==
    LET closes == Closes(window)
        fast == Ema(closes, cfg.fast)
        rsi == Rsi(closes, cfg.rsi)
    IN  IF Len(window) < cfg.slow \/ AtrIsZero(window) \/ rsi = 0 \/ ~Touches(Last(window), fast, cfg) THEN "none"
        ELSE TrendSide(fast, Ema(closes, cfg.slow), rsi, cfg)

\* rejection_reasons of a candidate, from its backtest.
Rejections(r) ==
    LET train == ProfitFactor(r.trained)
        test == ProfitFactor(r.tested)
        worse(x, of) == test[1] * train[2] * of < train[1] * test[2] * x    \* test < x / of * train
    IN  {reason \in {"profit_factor_below_1_2", "negative_expectancy", "high_drawdown", "low_trade_count",
                     "overfitted"} :
            \/ reason = "profit_factor_below_1_2" /\ ~Above(ProfitFactor(r.trades), 12, 10)
            \/ reason = "negative_expectancy" /\ Total(Pnls(r.trades)) <= 0
            \/ reason = "high_drawdown" /\ r.drawdown * 100 >= 20 * Equity
            \/ reason = "low_trade_count" /\ Len(r.trades) <= LeastTrades
            \/ reason = "overfitted" /\ Above(train, 12, 10) /\ (test[1] < test[2] \/ worse(6, 10))}

-----------------------------------------------------------------------------
(* Actions. *)

NoExperiment == [pc |-> "idle", start |-> 0, todo |-> {}, made |-> 0, answer |-> [total |-> 0, top |-> 0]]

BacktestInit ==
    /\ tape = << >> /\ config \in Configs /\ report = << >>
    /\ candidates = << >> /\ steps = 0
    /\ experiments = [e \in Researchers |-> NoExperiment]

\* A candle is complete: the one that is still forming, which the store rewrites until it
\* is over (upsert_many), is not on the tape yet.
NewCandle ==
    /\ Len(tape) < TapeEnd
    /\ report # << >> => Len(tape) - report.candles < Behind
    /\ \E c \in Shapes : tape' = Append(tape, c)
    /\ UNCHANGED <<config, report, experimentVars>>

\* The rows of a BacktestRun: its result and its parts.
Summary(n, all, trained, tested) ==
    [candles |-> n, trades |-> all.trades, curve |-> all.curve, drawdown |-> MaxDrawdown(all.curve),
     losing |-> LongestStreak(Pnls(all.trades)),
     trained |-> trained.trades, tested |-> tested.trades]
RunOf(candles, cfg) == Summary(Len(candles), Simulate(candles, cfg), Training(candles, cfg), Testing(candles, cfg))

\* run_from_payload over the candles there are, which are those of the request's body,
\* persisted with all its parts; a request without candles fetches them and gets no
\* walk-forward.  The same candles give the same report again.
RunBacktest ==
    /\ report # << >> => report.candles < Len(tape)
    /\ report' = RunOf(tape, config)
    /\ UNCHANGED <<tape, config, experimentVars>>

\* run notes the time before it fetches the first market.
StartExperiment(e) ==
    /\ experiments[e].pc = "idle" /\ steps < ExperimentEnd
    /\ steps' = steps + 1
    /\ experiments' = [experiments EXCEPT ![e] = [NoExperiment EXCEPT !.pc = "fetch", !.start = steps + 1,
                                                                     !.todo = Markets]]
    /\ UNCHANGED <<researchVars, candidates>>

\* A market without enough candles is passed over; the candidates of another are written
\* together, at the time of their flush.
SimulateMarket(e, market) ==
    LET room == Min({Cardinality(Configs), MaxRuns - experiments[e].made})
        count == IF market \in Short THEN 0 ELSE room
    IN  /\ experiments[e].pc = "fetch" /\ market \in experiments[e].todo /\ steps < ExperimentEnd
        /\ steps' = steps + 1
        /\ \E chosen \in kSubset(count, Configs) :
             candidates' = Append(candidates,
                 [by |-> e, at |-> steps + 1, rows |-> count, state |-> "flushed",
                  accepted |-> Cardinality(chosen \cap Accepted[market])])
        /\ experiments' = [experiments EXCEPT ![e].pc = "flushed", ![e].todo = @ \ {market}, ![e].made = @ + count]
        /\ UNCHANGED researchVars

CommitMarket(e) ==
    /\ experiments[e].pc = "flushed"
    /\ candidates' = [i \in DOMAIN candidates |->
                         IF candidates[i].by = e THEN [candidates[i] EXCEPT !.state = "committed"] ELSE candidates[i]]
    /\ experiments' = [experiments EXCEPT ![e].pc = "fetch"]
    /\ UNCHANGED <<researchVars, steps>>

\* The answer counts every committed candidate created since the start.
Since(e) == {i \in DOMAIN candidates : candidates[i].state = "committed" /\ candidates[i].at >= experiments[e].start}
Sized(e, numbers) == Total([i \in DOMAIN candidates |-> IF i \in Since(e) THEN numbers[i] ELSE 0])

ReportExperiment(e) ==
    /\ experiments[e].pc = "fetch" /\ experiments[e].todo = {}
    /\ experiments' = [experiments EXCEPT ![e].pc = "done", ![e].answer =
          [total |-> Sized(e, [i \in DOMAIN candidates |-> candidates[i].rows]),
           top   |-> Sized(e, [i \in DOMAIN candidates |-> candidates[i].accepted])]]
    /\ UNCHANGED <<researchVars, candidates, steps>>

\* A fetch or the database fails: what earlier markets committed stays.
FailExperiment(e) ==
    /\ experiments[e].pc \in {"fetch", "flushed"}
    /\ experiments' = [experiments EXCEPT ![e].pc = "failed"]
    /\ candidates' = [i \in DOMAIN candidates |->
                         IF candidates[i].by = e /\ candidates[i].state = "flushed"
                         THEN [candidates[i] EXCEPT !.state = "rolled_back"] ELSE candidates[i]]
    /\ UNCHANGED <<researchVars, steps>>

BacktestNext ==
    \/ NewCandle \/ RunBacktest
    \/ \E e \in Researchers :
         \/ StartExperiment(e) \/ CommitMarket(e) \/ ReportExperiment(e) \/ FailExperiment(e)
         \/ \E market \in Markets : SimulateMarket(e, market)

BacktestSpec == BacktestInit /\ [][BacktestNext]_<<researchVars, experimentVars>>

-----------------------------------------------------------------------------
(* Correctness. *)

\* Only the last trade can be one that was closed because the data ended.
Final(trades) ==
    IF trades # << >> /\ Last(trades).reason = "end_of_data" THEN SubSeq(trades, 1, Len(trades) - 1) ELSE trades

\* Candles that come later change nothing a backtest has already settled: the next report
\* begins with the trades of the last, but for the one closed because the data ended.
NoHindsight ==
    [][(report # << >> /\ report' # report) =>
        /\ IsPrefix(Final(report.trades), report'.trades)
        /\ Len(report.curve) = Len(report.trades) + 1]_researchVars

\* Trades follow each other, none begins on a candle that ended one, and the curve is
\* their running sum.
TradesDisjoint(r) ==
    /\ \A i \in DOMAIN r.trades : r.trades[i].from < r.trades[i].to
    /\ \A i, j \in DOMAIN r.trades : i < j => r.trades[i].to < r.trades[j].from
    /\ r.curve = Curve(Pnls(r.trades))

\* The drawdown is the largest fall from any point of the curve to a later one, and the
\* streak the longest run of losing trades.
MetricsTrue(r) ==
    LET falls == UNION {{r.curve[i] - r.curve[j] : j \in i..Len(r.curve)} : i \in DOMAIN r.curve}
        n == Len(r.trades)
        runs == {k \in 0..n : \E i \in 1..(n - k + 1) : \A j \in i..(i + k - 1) : r.trades[j].pnl < 0}
    IN  /\ r.drawdown = Max(falls)
        /\ r.losing = Max(runs)

\* The shuffles differ only in the way: each ends at the same equity, so that their best,
\* median and average are one number, and none falls deeper than all losses together.
ShufflesAgree(r) ==
    \A order \in Orders(Len(r.trades)) :
        LET curve == Curve(Shuffled(Pnls(r.trades), order))
        IN  Last(curve) = Last(r.curve) /\ MaxDrawdown(curve) <= Lost(r.trades)

\* The walk-forward test enters no trade on a candle of the training but its last.
TestOutOfSample(r) ==
    \A i \in DOMAIN r.tested : SeedFrom(tape, config) + r.tested[i].from >= Split(tape)

\* A candidate that is not rejected has made money, after every drawdown; one that shone in
\* training won in the test as well, unless its training won a single unit: without a loss
\* the profit factor is what was won, whatever the unit.
CandidateEarns(r) ==
    Rejections(r) = {} =>
        /\ Last(r.curve) > Equity /\ 100 * (Equity - Min(Range(r.curve))) < 20 * Equity
        /\ 2 * Won(r.trained) > 3 * Lost(r.trained) /\ Won(r.trained) > 1 => Won(r.tested) > 0

\* An experiment reports each of its own candidates, and others only when another request
\* created them meanwhile.
ExperimentsReported ==
    \A e \in Researchers : experiments[e].pc = "done" =>
        /\ experiments[e].answer.total >= experiments[e].made
        /\ experiments[e].answer.total > experiments[e].made =>
             \E i \in DOMAIN candidates : candidates[i].by # e /\ candidates[i].at > experiments[e].start

\* What a backtest of the present tape reports is true of it, and an experiment reports
\* its own candidates.
ReportTrue ==
    /\ (report # << >> /\ report.candles = Len(tape)) =>
          TradesDisjoint(report) /\ MetricsTrue(report) /\ ShufflesAgree(report)
          /\ TestOutOfSample(report) /\ CandidateEarns(report)
    /\ ExperimentsReported

\* As long as the store holds every candle, the paper strategy proposes what the backtest
\* trades on, although it takes a zero indicator for a missing one: no side fits that
\* trend.  A longer history moves its averages.
PaperAgrees ==
    (Len(tape) >= config.slow /\ Len(tape) <= WindowSize) =>
        PaperSignal(Window(tape), config) = SignalAt(tape, config)
=============================================================================
