------------------------------- MODULE TradeBook -------------------------------
(***************************************************************************)
(* What OrderBookRecoveryService keeps beside the one position of paper    *)
(* trading: the runs of a strategy and the forward tests that end them     *)
(* from a timer thread, and the closed trades with their archive, from     *)
(* which the loss limits, the equity and the size of the next entry are    *)
(* summed.                                                                 *)
(*                                                                         *)
(* run_forward_test and its timer take no lock.  Each is split where a     *)
(* transaction of another thread may come between what it has read and its *)
(* commit; what it has flushed is locked until then (holds).  The other    *)
(* requests lock the configuration first and are one step.  An entry opens *)
(* and a position closes at once here, without the pending entries, the    *)
(* cool-downs and the emergency gate, which are in PaperLifecycle.         *)
(***************************************************************************)
EXTENDS Integers, Sequences, FiniteSets, FiniteSetsExt

CONSTANTS
    Testers,        \* threads that serve run_forward_test
    Risks,          \* the values of risk_per_trade_percent a request may name
    RiskCap,        \* the largest a configuration keeps
    RiskUnit,       \* an entry risks risk / RiskUnit of the equity
    LossPart,       \* a stopped-out position loses 1 / LossPart of its margin
    BaseMargin,     \* the smaller of base_margin_usdt and max_position_margin_usdt
    FirstEquity,    \* of a session
    DayLimit, SessionLimit, \* max_daily_loss_usdt, max_total_loss_usdt
    Wins, Gaps,     \* what a close may win, or lose beyond its stop
    MaxStreak,    \* max_consecutive_losses
    TestRuns, BookRows, BookDays, BookSessions  \* bounds of the model

ASSUME TradeBookAssumption ==
    /\ {RiskCap, RiskUnit, LossPart, MaxStreak} \subseteq Nat \ {0}
    /\ {BaseMargin, FirstEquity, DayLimit, SessionLimit} \subseteq Nat
    /\ Risks \cup Wins \cup Gaps \subseteq Nat
    /\ {TestRuns, BookRows, BookDays, BookSessions} \subseteq Nat

VARIABLES
    today,
    conf,           \* OrderBookPatternStrategyConfig: enabled, risk, session
    ladder,         \* RecoveryState: stopped, reason, losses
    strategyRuns,   \* the status of every StrategyRun
    tests,          \* the locals of run_forward_test
    timers,         \* the locals of each run's timer thread
    crossed,        \* history: a test or a timer committed on stale images
    tradeRows       \* StrategyRunTrade

runVars == <<conf, ladder, strategyRuns, tests, timers, crossed>>
bookVars == <<today, runVars, tradeRows>>

RunRows == 1..TestRuns
NoTimer == [pc |-> "none"]
NoTest == [pc |-> "idle", holds |-> {}]

BookInit ==
    /\ today = 0
    /\ conf = [enabled |-> FALSE, risk |-> RiskCap, session |-> 0]
    /\ ladder = [stopped |-> FALSE, reason |-> "none", losses |-> 0]
    /\ strategyRuns = << >>
    /\ tests = [f \in Testers |-> NoTest]
    /\ timers = [r \in RunRows |-> NoTimer]
    /\ crossed = FALSE
    /\ tradeRows = << >>

\* Nobody has flushed a row and not committed it yet.
Free(row) == \A f \in Testers : row \notin tests[f].holds

\* active_run: the newest with the status running, 0 without one.
ActiveRun ==
    LET running == {r \in DOMAIN strategyRuns : strategyRuns[r] = "running"}
    IN  IF running = {} THEN 0 ELSE Max(running)
\* The end of the active run, where there is one.
Ended(rows, r) == IF r = 0 THEN rows ELSE [rows EXCEPT ![r] = "stopped"]
OpenRows == {i \in DOMAIN tradeRows : tradeRows[i].open}

-----------------------------------------------------------------------------
(* What the limits and the metrics sum. *)

\* Faulty variant of InAccount: an archived trade has never been.
InAccountShown(row) == ~row.open /\ row.session = conf.session /\ ~row.archived
\* metrics_trades_query: closed, and of the session.
InAccount(row) == ~row.open /\ row.session = conf.session

Account == {i \in DOMAIN tradeRows : InAccount(tradeRows[i])}

\* Amounts never go below zero.
Positive(a) == IF a > 0 THEN a ELSE 0
Lost(row) == Positive(0 - row.pnl)

SumOf(amounts) ==
    LET upTo[n \in 0..Len(amounts)] == IF n = 0 THEN 0 ELSE upTo[n - 1] + amounts[n]
    IN  upTo[Len(amounts)]
PnlOf(rows, S) == SumOf([i \in DOMAIN rows |-> IF i \in S THEN rows[i].pnl ELSE 0])
LossOf(rows, S) == SumOf([i \in DOMAIN rows |-> IF i \in S THEN Lost(rows[i]) ELSE 0])

TotalLoss == LossOf(tradeRows, Account)
DailyLoss == LossOf(tradeRows, {i \in Account : tradeRows[i].day = today})
AvailableEquity == FirstEquity + PnlOf(tradeRows, Account)

Least(a, b) == IF a < b THEN a ELSE b

\* The margin whose stop loses no more than the risk and what both limits leave.
BoundedMargin ==
    LET budget == (Positive(AvailableEquity) * conf.risk) \div RiskUnit
        left == Least(Positive(DayLimit - DailyLoss), Positive(SessionLimit - TotalLoss))
    IN  Least(Least(BaseMargin, Positive(AvailableEquity)), LossPart * Least(budget, left))

\* The trades the metrics list, and those they only add up.
ShownRows == {i \in Account : ~tradeRows[i].archived}
HiddenRows == {i \in Account : tradeRows[i].archived}

\* The equity after one more trade, its peak, and its deepest fall from a peak.
Moved(c, pnl) ==
    LET equity == c.equity + pnl
        peak == IF equity > c.peak THEN equity ELSE c.peak
    IN  [equity |-> equity, peak |-> peak,
         fall |-> IF peak - equity > c.fall THEN peak - equity ELSE c.fall]

\* calculate_metrics.
Metrics ==
    LET curve[n \in 0..Len(tradeRows)] ==
          IF n = 0 THEN [equity |-> FirstEquity, peak |-> FirstEquity, fall |-> 0]
          ELSE IF n \in ShownRows THEN Moved(curve[n - 1], tradeRows[n].pnl) ELSE curve[n - 1]
    IN  [net |-> PnlOf(tradeRows, ShownRows), archived |-> PnlOf(tradeRows, HiddenRows),
         lost |-> LossOf(tradeRows, ShownRows), drawdown |-> curve[Len(tradeRows)].fall]

-----------------------------------------------------------------------------
(* Requests that lock the configuration. *)

\* apply_config_overrides: a risk of nothing is refused, one above the cap is cut.
Accepts(risk) == risk > 0
Applied(risk) == Least(risk, RiskCap)

Began(c) == [c EXCEPT !.enabled = TRUE]
Going(l) == [l EXCEPT !.stopped = FALSE, !.reason = "none"]

StartPaper ==
    /\ Free("conf") /\ Free("state")
    /\ ~(conf.enabled /\ ~ladder.stopped /\ ActiveRun # 0)
    /\ Len(strategyRuns) < TestRuns
    /\ LET fresh == conf.session = 0 /\ OpenRows = {}
       IN  /\ fresh => BookSessions > 0
           /\ conf' = [Began(conf) EXCEPT !.session = IF fresh THEN 1 ELSE @]
           /\ ladder' = [Going(ladder) EXCEPT !.losses = IF fresh THEN 0 ELSE @]
    /\ strategyRuns' = Append(Ended(strategyRuns, ActiveRun), "running")
    /\ UNCHANGED <<today, tests, timers, crossed, tradeRows>>

StopPaper ==
    /\ Free("conf") /\ Free("state")
    /\ conf' = [conf EXCEPT !.enabled = FALSE]
    /\ ladder' = [ladder EXCEPT !.stopped = TRUE, !.reason = "manual_stop"]
    /\ strategyRuns' = Ended(strategyRuns, ActiveRun)
    /\ UNCHANGED <<today, tests, timers, crossed, tradeRows>>

PatchConfig(enabled, risk) ==
    /\ Free("conf") /\ Accepts(risk)
    /\ conf' = [conf EXCEPT !.enabled = enabled, !.risk = Applied(risk)]
    /\ UNCHANGED <<today, ladder, strategyRuns, tests, timers, crossed, tradeRows>>

NextSession ==
    /\ Free("conf") /\ Free("state")
    /\ ~conf.enabled /\ OpenRows = {} /\ conf.session < BookSessions
    /\ conf' = [conf EXCEPT !.session = @ + 1]
    /\ ladder' = [stopped |-> TRUE, reason |-> "manual_stop", losses |-> 0]
    /\ UNCHANGED <<today, strategyRuns, tests, timers, crossed, tradeRows>>

-----------------------------------------------------------------------------
(* Forward tests. *)

\* The configuration is loaded and overridden, but not flushed yet.
TestLoad(f, risk) ==
    /\ tests[f].pc = "idle" /\ Accepts(risk)
    /\ tests' = [tests EXCEPT ![f] = [pc |-> "loaded", conf |-> conf,
                                      risk |-> Applied(risk), holds |-> {}]]
    /\ UNCHANGED <<today, conf, ladder, strategyRuns, timers, crossed, tradeRows>>

Dirty(f) == ~tests[f].conf.enabled \/ tests[f].risk # tests[f].conf.risk

\* The queries for the state and the active run flush what has changed and so lock it.
TestRead(f) ==
    LET holds == (IF Dirty(f) THEN {"conf"} ELSE {})
                    \cup (IF Going(ladder) # ladder THEN {"state"} ELSE {})
    IN  /\ tests[f].pc = "loaded" /\ \A row \in holds : Free(row)
        /\ tests' = [tests EXCEPT ![f] = [pc |-> "read", conf |-> @.conf, risk |-> @.risk,
                                          holds |-> holds, ladder |-> ladder, run |-> ActiveRun]]
        /\ UNCHANGED <<today, conf, ladder, strategyRuns, timers, crossed, tradeRows>>

\* Only what differs from the image that was loaded is written.
TestCommit(f) ==
    LET t == tests[f]
    IN  /\ t.pc = "read" /\ Len(strategyRuns) < TestRuns
        /\ conf' = [conf EXCEPT !.enabled = IF t.conf.enabled THEN @ ELSE TRUE,
                                !.risk = IF t.risk = t.conf.risk THEN @ ELSE t.risk]
        /\ ladder' = [ladder EXCEPT !.stopped = IF t.ladder.stopped THEN FALSE ELSE @,
                                    !.reason = IF t.ladder.reason # "none" THEN "none" ELSE @]
        /\ strategyRuns' = Append(Ended(strategyRuns, t.run), "running")
        /\ timers' = [timers EXCEPT ![Len(strategyRuns) + 1] = [pc |-> "waiting"]]
        /\ tests' = [tests EXCEPT ![f] = NoTest]
        /\ crossed' = (crossed \/ t.conf # conf \/ t.ladder # ladder \/ t.run # ActiveRun)
        /\ UNCHANGED <<today, tradeRows>>

\* Faulty variant of StillRuns: the timer does not look whether its run goes on.
AnyRun(r) == TRUE
StillRuns(r) == strategyRuns[r] = "running"

\* The duration has passed.
TimerLoad(r) ==
    /\ timers[r].pc = "waiting"
    /\ timers' = [timers EXCEPT ![r] =
                    IF StillRuns(r)
                    THEN [pc |-> "loaded", conf |-> conf, ladder |-> ladder, run |-> ActiveRun]
                    ELSE NoTimer]
    /\ UNCHANGED <<today, conf, ladder, strategyRuns, tests, crossed, tradeRows>>

TimerCommit(r) ==
    LET t == timers[r]
    IN  /\ t.pc = "loaded" /\ (t.conf.enabled => Free("conf")) /\ Free("state")
        /\ strategyRuns' = [strategyRuns EXCEPT ![r] = "completed"]
        /\ conf' = [conf EXCEPT !.enabled = IF t.conf.enabled THEN FALSE ELSE @]
        /\ ladder' = [ladder EXCEPT !.stopped = IF t.ladder.stopped THEN @ ELSE TRUE,
                                    !.reason = "forward_test_completed"]
        /\ timers' = [timers EXCEPT ![r] = NoTimer]
        /\ crossed' = (crossed \/ t.conf # conf \/ t.ladder # ladder \/ t.run # ActiveRun)
        /\ UNCHANGED <<today, tests, tradeRows>>

\* Requests and timers are in memory only: a run may stay running without an end.
RestartBook ==
    /\ tests' = [f \in Testers |-> NoTest]
    /\ timers' = [r \in RunRows |-> NoTimer]
    /\ UNCHANGED <<today, conf, ladder, strategyRuns, crossed, tradeRows>>

-----------------------------------------------------------------------------
(* Trades. *)

\* risk and equity are what the entry was sized by.
OpenEntry ==
    /\ Free("conf") /\ conf.enabled /\ ~ladder.stopped
    /\ OpenRows = {} /\ Len(tradeRows) < BookRows
    /\ DailyLoss < DayLimit /\ TotalLoss < SessionLimit /\ BoundedMargin > 0
    /\ tradeRows' = Append(tradeRows, [open |-> TRUE, pnl |-> 0, day |-> today, session |-> conf.session,
                                       risk |-> BoundedMargin \div LossPart, equity |-> AvailableEquity,
                                       archived |-> FALSE])
    /\ UNCHANGED <<today, runVars>>

\* apply_recovery_after_close; a strategy that was paused keeps its stop flags.
BookClose(pnl) ==
    LET pauses == pnl <= 0 /\ ladder.losses + 1 >= MaxStreak
        kept == [stopped |-> ladder.stopped, reason |-> ladder.reason]
        flags == IF ~conf.enabled THEN kept
                 ELSE IF pnl > 0 THEN [stopped |-> FALSE, reason |-> "none"]
                 ELSE IF pauses THEN [stopped |-> TRUE, reason |-> "max_recovery_pause"] ELSE kept
    IN  /\ Free("conf") /\ Free("state")
        /\ ladder' = [stopped |-> flags.stopped, reason |-> flags.reason,
                      losses |-> IF pnl > 0 \/ pauses THEN 0 ELSE ladder.losses + 1]
        /\ conf' = [conf EXCEPT !.enabled = @ /\ ~pauses]
        /\ strategyRuns' = IF pauses THEN Ended(strategyRuns, ActiveRun) ELSE strategyRuns

CloseEntry(i) ==
    \E pnl \in Wins \cup {0 - (tradeRows[i].risk + gap) : gap \in Gaps \cup {0}} :
        /\ tradeRows[i].open
        /\ BookClose(pnl)
        /\ tradeRows' = [tradeRows EXCEPT ![i].open = FALSE, ![i].pnl = pnl, ![i].day = today]
        /\ UNCHANGED <<today, tests, timers, crossed>>

\* resume_after_recovery_pause: the strategy goes on, its run does not.
ResumeStrategy ==
    /\ ladder.reason = "max_recovery_pause" /\ Free("conf") /\ Free("state")
    /\ conf' = Began(conf)
    /\ ladder' = [Going(ladder) EXCEPT !.losses = 0]
    /\ UNCHANGED <<today, strategyRuns, tests, timers, crossed, tradeRows>>

\* archive_trade, archive_all_closed_trades and unarchive_all_trades.
Archived(S, yes) ==
    /\ tradeRows' = [i \in DOMAIN tradeRows |->
                       IF i \in S THEN [tradeRows[i] EXCEPT !.archived = yes] ELSE tradeRows[i]]
    /\ UNCHANGED <<today, runVars>>
ClosedRows == {i \in DOMAIN tradeRows : ~tradeRows[i].open}
ArchiveTrade(i) == i \in ClosedRows /\ Archived({i}, TRUE)
ArchiveAll == Archived(ClosedRows, TRUE)
UnarchiveAll == Archived(ClosedRows, FALSE)

\* The other rows, in their order.
Without(rows, S) ==
    LET kept[n \in 0..Len(rows)] ==
          IF n = 0 THEN << >>
          ELSE IF n \in S THEN kept[n - 1] ELSE Append(kept[n - 1], rows[n])
    IN  kept[Len(rows)]

\* delete_archived_trade and delete_all_archived_trades.
ArchivedRows == {i \in DOMAIN tradeRows : tradeRows[i].archived}
Deleted(S) == tradeRows' = Without(tradeRows, S) /\ UNCHANGED <<today, runVars>>
DeleteArchived(i) == i \in ArchivedRows /\ Deleted({i})
DeleteAllArchived == Deleted(ArchivedRows)

TickBook == today < BookDays /\ today' = today + 1 /\ UNCHANGED <<runVars, tradeRows>>

RunNext ==
    \/ StartPaper \/ StopPaper \/ NextSession \/ ResumeStrategy
    \/ \E enabled \in BOOLEAN, risk \in Risks : PatchConfig(enabled, risk)
TestNext ==
    \/ \E f \in Testers : TestRead(f) \/ TestCommit(f) \/ \E risk \in Risks : TestLoad(f, risk)
    \/ \E r \in RunRows : TimerLoad(r) \/ TimerCommit(r)
    \/ RestartBook
TradeNext ==
    \/ OpenEntry \/ ArchiveAll \/ UnarchiveAll \/ DeleteAllArchived \/ TickBook
    \/ \E i \in DOMAIN tradeRows : CloseEntry(i) \/ ArchiveTrade(i) \/ DeleteArchived(i)
BookNext == RunNext \/ TestNext \/ TradeNext
BookSpec == BookInit /\ [][BookNext]_bookVars

-----------------------------------------------------------------------------
(* Correctness. *)

\* An old timer never ends a newer run, nor leaves a run behind in a strategy it has
\* stopped, unless it or a test committed on images that another thread had made stale.
RunsKeepApart ==
    crossed \/ \A r \in DOMAIN strategyRuns :
        strategyRuns[r] = "running"
            => r = Len(strategyRuns) /\ ladder.reason # "forward_test_completed"

Excess(row) == Positive(0 - row.pnl - row.risk)
WithinLimit(rows, S, limit) ==
    LossOf(rows, S) <= limit \/ \E i \in S : LossOf(rows, S) <= limit + Excess(rows[i])
OfSession(rows, s) == {i \in DOMAIN rows : rows[i].session = s}
OfDay(rows, s, d) == {i \in OfSession(rows, s) : rows[i].day = d}

\* Whatever is archived, closed on another day or sized by whichever configuration, the
\* losses on record of a day and of a session pass their limits by no more than what one
\* position lost beyond its stop, and the equity the next entry is sized by is what the
\* metrics show with what they hide (risk_rejection, bounded_margin, calculate_metrics).
LossesWithinLimits ==
    /\ \A s \in 0..BookSessions :
          /\ WithinLimit(tradeRows, OfSession(tradeRows, s), SessionLimit)
          /\ \A d \in 0..BookDays : WithinLimit(tradeRows, OfDay(tradeRows, s, d), DayLimit)
    /\ \A i \in DOMAIN tradeRows : tradeRows[i].risk * RiskUnit <= RiskCap * tradeRows[i].equity
    /\ Metrics.drawdown <= Metrics.lost
    /\ AvailableEquity = FirstEquity + Metrics.net + Metrics.archived
=============================================================================
