# TLA+ verification of arbinatorApi

arbinatorApi is a Flask/SQLAlchemy service that watches the order books of
several exchanges, looks for entry signals and trades them on paper or live on
MEXC futures.  This directory holds TLA+ models of the parts of it where
interleavings, lost answers and restarts decide whether money is counted
correctly, TLC configurations that check them on small instances, and TLAPS
proofs for all instances of the core.

Source paths below are relative to the repository: `OBRS` is
`src/OrderBookRecovery/OrderBookRecoveryService.py`, `LES` is
`src/OrderBookRecovery/LiveExecutionService.py`, `PG` is
`src/OrderBookRecovery/PositionGuardian.py`.

## 1. Inventory

### 1.1 The actors

| Actor | Where | How it runs |
|---|---|---|
| Scanner | `src/Scanner/ScannerService.py` | asyncio loop in the web process; every arriving book may start `evaluate` in a thread, one at a time per process |
| Worker | `OBRS.reconcile_existing_positions` | started by the scanner cycle, at least every five seconds, one at a time |
| Requests | `OrderBookRecoveryController.py` | Flask threads: start, stop, patch, new session, reset, margin override, manual close, abandon, archive |
| Labeller, forward test | OBRS | background timer threads |
| Exchanges | ccxt / MEXC contract REST | external |

Every thread has its own SQLAlchemy session.  Three facts about these sessions
shape all the models (`src/config.py`, `OBRS.lock_config`):

1. `expire_on_commit` is off: what a session has loaded stays in memory over a
   commit, and a later query for the same row returns the *old* image unless it
   asks for `populate_existing` or calls `refresh`.
2. `lock_config` is `SELECT ... FOR UPDATE` with `populate_existing`; callers
   then `refresh` the trade and often, but not always, the recovery state.
3. An `UPDATE` writes only the columns whose value differs from the loaded
   image (`Flush` in UnitOfWork).  Two sessions with stale images therefore
   merge column by column.

### 1.2 The components

| Component | State | Operations | Interacts with | Hard behaviours | Correct means |
|---|---|---|---|---|---|
| Strategy service: paper lifecycle | configuration, RecoveryState, StrategyRun, StrategyRunTrade, ExecutionSlot rows | reserve, fill, cancel, exit, start, stop, patch, new session, abandon, manual close, reset, margin | scanner, worker, requests, snapshot store | threads decide on images read before the row lock; two-phase close; expiry; restarts | one exposure, one slot; a pause holds; outcomes are counted once; no look-ahead; pending entries end |
| Recovery ladder | RecoveryState | apply an outcome, resume, cool-down, margin step | every closer | last loss of the ladder, stale images | streak under the limit; recovery pause stops |
| Live execution | trade `live_status`, slot status, client order ids; orders and position on MEXC | open, reconcile, close, external close, protection | exchange, guardian, worker, scanner, requests | unknown outcome of a submission, crash between commits, two threads reconciling | no second order while one is unknown; a close is final only with a verified fill |
| PositionGuardian | protection fields, TradeFundingEvent rows | legacy audit, protection check, funding ledger | exchange, ladder | duplicated funding records, delayed settlement | ledger counts each event once; final outcome applied once |
| Scanner | in-flight sets, back-off, timestamps (memory) | fetch cycle, websocket updates, evaluation dispatch | stores, service | timeouts with shielded tasks, skipped evaluations | one evaluation at a time; worker not starved |
| Snapshot stores | last book per exchange and symbol (memory) | save, read, history | scanner, service | late older book | a newer book is not replaced |
| Normalisation, depth, contract rules | none | pure arithmetic on a book | fills | rounding, empty levels | never fills more than the depth |
| Consensus signal, features, feedback | bounded momentum history (memory) | features, consensus, filters | evaluate | stale or anomalous exchanges | a side needs its quorum |
| Two-step confirmation | pending signal per configuration (memory) | first signal, confirm, time out, invalidate | evaluate, patch | restart, a patch in between | at most one reservation per first signal |
| Experiment monitors v1, v2, trend v3 | per-trade monitor state in the decision snapshot | observe a book, recommend an exit | exit management | gaps, duplicates, restarts | monotone clocks, no exit on one book |
| Shadow and entry measurement | evidence in the trade row | observe later books | worker | duplicates, future books | each horizon once |
| ML labeller | MLFeatureSnapshot rows | create, label, backfill | scanner thread | overlapping horizons | each label once |
| Forward test | run row, timer | start, stop, expire | requests, ladder | timer against requests | a stopped run stays stopped |
| Archive | archived flags | archive, unarchive, delete | open trades | against an open position | open trades are not archived |
| Arbitrage and spot paper trading | opportunities, signals, wallet, positions | scan, execute | risk manager | check-then-act de-duplication | wallet conserved |
| Futures trend strategy and backtests | trades, equity curve, runs | tick, replay, experiment | candles | long sequences | equity is the sum of its trades |
| Sockets, CRUD, adapters, diagnostics, migrations, scripts | - | I/O | - | - | not modelled (section 9) |

`PROJECT.json` lists the same components with their sources and status, and
under `hazards` every place where this code is hard to test, at its line, with
the properties that watch it.

## 2. Plan

Order: what can lose or invent a position first.

| # | Module | Models | Checked by | Proved |
|---|---|---|---|---|
| 1 | UnitOfWork, RecoveryRules | column-wise UPDATE; ladder arithmetic, resume, cool-down | through 2 and 3 | lemmas |
| 2 | PaperLifecycle | paper trading of one configuration | four runs | all invariants and action properties (PaperLifecycleProofs) |
| 3 | LiveExecution | live open / reconcile / close / entry gate with an external exchange | five runs | all invariants (LiveExecutionProofs) |
| 4 | SignalRules, MarketFeed | features, consensus and filters; futures scanner, store, two-step entry | FeedAndBook | all but RulesAgree (MarketFeedProofs) |
| 5 | TradeBook | runs and forward tests; archive, limits, equity and size of an entry | FeedAndBook | both invariants (TradeBookProofs) |
| 6 | SpotDesk | spot scanner, arbitrage signals, paper wallet | BackOffice | both invariants (SpotDeskProofs) |
| 7 | Adaptive | experimental entries and exits v1, v2, trend v3 | BackOffice | both action properties (ResearchProofs) |
| 8 | Labeller | price history, snapshots, labels | BackOffice | LabelHonest (MeasurementProofs) |
| 9 | Observation | depth fills, lots, entry and shadow measurements, diagnosis | BackOffice | ObservationTrue (MeasurementProofs) |
| 10 | Backtest | indicators, simulation, metrics, experiments | BackOffice | ReportTrue and NoHindsight (ResearchProofs) |
| 11 | SlotContract | abstract promise: one trade at a time, entries only while allowed, no way back | PaperControl and LiveSafety (`KeepsContract`) | PaperLifecycle and LiveExecution implement it |
| 12 | FundingLedger | funding records, delayed settlement, audit of legacy trades, the report of an outcome | FeedAndBook, LedgerTwice | LedgerTrue; once and no more with one worker (FundingLedgerProofs) |

All modules of the plan are written.  Left to TLC: liveness, RulesAgree and PaperAgrees
(section 8.3).

MCMarketFeed composes 4, 5 and 12, MCBackOffice composes 6 to 10, PaperLifecycle and
LiveExecution have runs of their own.  The composed components share no rows (or,
for 4 and 5, only the instant of an entry; the ladder row of live trades has a copy
of its own in 12), so that a run is a union of *parts*: a
variable `part` chosen at the start says which component moves in a behaviour, the
others stay in one of their initial states.  Nothing is lost by that, since no
step of one part reads or writes a variable of another, and the number of states
is the sum of the parts and not their product.

No module with theorems, nor what it uses, declares a RECURSIVE operator.

## 3. PaperLifecycle and RecoveryRules

### 3.1 State

| Variable | Code |
|---|---|
| `latency` | `paper_latency_ms`: a setting, the same all through a behaviour |
| `now` | `datetime.utcnow()`; bound `MaxTime` |
| `book` | the configured exchange's entry of the snapshot store: its source time, and whether its depth fills the whole amount (`deep`), not (`thin`), or `exchange_feature` rejects it (`invalid`) |
| `cfg` | `enabled`, `emergency_entry_block`, `paper_session_id # NULL` |
| `st` | `is_stopped`, `stop_reason`, `paused_until`, `consecutive_losses`, `last_trade_result`, `last_closed_at` |
| `run` | a StrategyRun with status `running` exists |
| `trade` | the StrategyRunTrade rows; `status` joins `live_status`, `closed_at` and `abandoned_at`; bound `MaxTrades` |
| `slot` | the ExecutionSlot row, or `None` |
| `scan` | locals of the running `evaluate`: which images it has loaded, its clock, what it decided |
| `midClose` | locals of a `close_trade` that has committed its request and goes on (zero latency only) |
| `admin` | locals of reset, margin override and manual close, which load the state row before or without a lock |
| `pause` | history: the operator's last Stop or gate change stands (`held`), has been lifted by Start or PATCH (`none`), or by something else (`undone`) |

### 3.2 Actions

One action is one transaction, from `lock_config` (or the last read) to the
commit.  `evaluate` takes several: `ScanLoadConfig`, `ScanLoadState` (which also
reads the clock), `ScanResume`, the decision (`ScanManage`, `ScanSignal`,
`ScanNothing`), and then the locked step (`ScanReserve`, `ScanFill`,
`ScanCancelPending`, `ScanExit`, `ScanHold`).  The worker reads its clock after
the lock, so each of its passes over a trade is one action.  Requests that lock
first are one action; `reset_recovery`, `set_current_margin` and `close_manual`
have a load step and a write step.  `Restart` drops every thread's memory.

Market data is nondeterministic: any signal, price, sizing or feedback filter
may pass or fail, a fill's result is win or loss.  A reservation decided on old
images may fall into a cool-down; the code notices at the revalidation before
the fill.  EntryRestsAfterLoss states what that is for, on the rows of two trades and
without any look at a guard: between a loss and the fill of a later trade lies the
cool-down, or the recovery pause when that is shorter.  It is a promise to the sequence of
close, resume, decision and fill, which several actors share; a new session, a reset and a
margin override forget the loss on purpose, so the run issues none of them.

`open_position` contains a branch that frees the slot of a closed trade; the
invariant SlotOwnership shows it is dead for paper trades, so it has no action.

### 3.3 Runs

| Run | Requests | Clock, trades | Question |
|---|---|---|---|
| PaperControl, latency 1 | all operator requests and restarts, on a database with an old row; the streak begins one below its limit | 3, 2 | do one exposure, one slot and an operator's pause survive whatever the threads had decided? |
| PaperControl, latency 0 | start, reset, margin, close, restart | 1, 2 | three closers race inside a close that commits in the middle, against unlocked ladder writes |
| PaperClock | start, stop, restart, under fairness | 4, 2 | cool-down and look-ahead of simulated fills, with latency 1 and a second trade inside the first one's cool-down; reservations and requested closes end although the process dies again and again |
| PaperResumeRace | start, stop | 3, 1 | *violated*: automatic resume undoes a Stop |
| PaperStaleClose | start, close | 3, 1 | *violated*: recovery pause without `is_stopped` |

Why the bounds suffice: the properties relate at most two trades (the closed
one and the next), two threads' images and one row; the ladder limit is one or
two losses so that both the last loss and the one before it occur; the clock is
just long enough for entry latency, exit latency and a cool-down or a recovery
pause to pass one after the other; `Quote` lets a book be one tick ahead of the
local clock.  `Issued` selects the requests of a run by its latency, so that
each concentrates on one race; every action fires in at least one of them.  Books that are
too thin to fill are left to PaperClock where there is a latency.  PaperControl has
1.1 million states, PaperClock 156 thousand.  Deadlock is checked everywhere.

PaperControl also checks that the module implements SlotContract (`KeepsContract`).
That module knows of a trade only a phase (free, reserved, held, over) and of the
gates only whether entries are allowed; the mapping derives both from the rows at
the moment of a step.  So a thread that decided on old images must still find
entries allowed when it commits a reservation or a fill, and whatever it holds it
cannot reopen what is over.  LiveExecution implements the same contract in
LiveSafety; there an order under way and a position are one phase, since a late
"unknown" may overwrite a fill, and entries count as always allowed, since the live
path does not read the gate again under the lock (LiveFundingGap).

### 3.4 Fairness

PaperClock assumes weak fairness of the clock, of the worker's passes
(`WorkerFinish`, `WorkerCancelPending`) and of a thread's own continuation
(`FillAfterRequest`).  The scanner's cycle restarts the worker whatever the
books and gates say (`ScannerService.order_scanner`), so a worker step that stays
possible is taken, again after every restart.  No fairness is assumed for the scanner's evaluation (it
depends on arriving books), for requests or for the market.

### 3.5 Two races the runs exhibit

*PaperResumeRace.*  `evaluate` loads configuration and state without a lock,
finds the recovery pause over, and `resume_after_recovery_pause` (OBRS 3208)
writes `enabled = True` and clears the stop flags.  A Stop committed in between
is overwritten: the strategy trades although the operator stopped it last.

*PaperStaleClose.*  `close_manual` loads RecoveryState (OBRS 804) before it
takes the lock (809) and never refreshes it.  If a Start commits in between, the
image says `is_stopped` is already TRUE; when the close is the loss that reaches
the limit, the UPDATE contains `stop_reason` but not `is_stopped`: the row says
"max_recovery_pause" and not stopped.

## 4. LiveExecution

### 4.1 State

| Variable | Code or exchange |
|---|---|
| `block` | `emergency_entry_block`: the gate protection and funding set; the other gates (enabled, stopped, cool-down) only forbid more entries and are left out |
| `trade` | live StrategyRunTrade rows: `live_status`, `closed_at`, `result`, `live_close_client_order_id` (the index of a close order), which plan identifiers are stored, `funding_status` |
| `slot` | the ExecutionSlot row with its `trade_id` and `status` |
| `me` | per thread: how far its call is, and the session's images of the trade, the slot and the gate |
| `open`, `close`, `held` | the exchange: the opening order of each trade, the closing orders, the trades whose position is on the account |

### 4.2 Actions

One action is one transaction or one exchange call.  The scanner opens a trade
in seven steps, each of which can be the last before the process dies: enter,
reserve (trade and slot together), durable intent, submission, stored fill, stop
plan and take-profit plan, final result.  A close is request (slot locked),
submission, outcome, and then the funding call, which is a transaction of its
own.  `reconcile_pending_trade` keeps the slot row locked while it reads the
exchange, hence one action (`Reconcile`); but it works on the trade image its
thread loaded before, and so do `close_trade` and `finalize_verified_close`:
nothing on the live path refreshes the trade.  `Write` and `SetSlot` apply the
column-wise update of those images.

`GiveUp` stands for everything that ends a call without a change: an exception
that only leaves a message in `live_error`, a database deadlock victim, a
throttled check, a process that dies.  It is possible at every step.

The exchange may not answer (then `OpenUnknown`, `CloseUnknown` or `GiveUp`), may
fill or kill an order at any later time, and may close a position itself; what
it answers is true.  `position_is_open` looks at symbol and side only, so
another trade's position may answer for this one; the order history is per
position.

Left out: amounts, prices, fees and signing; partly filled opening orders (the
code takes the filled part as the trade's amount); closes that may also open, which a PATCH
of `live_reduce_only_close` would allow (OBRS 240, LES 327-330, 898): `ExchangeClose`
assumes the default, reduce-only, and so do ClosedIsFlat and OneLivePosition; the audit of legacy rows; the
sixty-second pause after a failed open and the thirty-second throttle of the
funding check (both are nondeterministic; `Guard` writes the funding status of an open
position, on which that throttle rests); the labels `reason_close`,
`pnl_source`; the cancellation of plan orders after a close.

### 4.3 Runs

| Run | Bounds | Question |
|---|---|---|
| LiveSafety | 2 trades, 1 close order, one HTTP close, rejected and partly filled orders | one position at a time; a row is closed only when the exchange is done with it, and stays closed |
| LiveLiveness | 2 trades, no close order, rejections, exchange-side closes, operator clears the gate, under fairness | an unknown opening resolves or loses its slot; a half-protected position blocks entries |
| LiveBlindClose | 1 trade, 2 close orders, HTTP close | *violated*: a second close order beside one in flight |
| LiveLostSlot | 2 trades, 1 close order, HTTP close | *violated*: a pending trade without a slot, which is then never resolved |
| LiveFundingGap | 2 trades, 1 close order, HTTP close | *violated*: an entry before the funding is reconciled |

Two trades are enough: a slot, a position or an image of one can only be
mistaken for those of another.  One HTTP request besides scanner and worker
gives three concurrent images of a row.  `Happens` selects what a run considers;
with one close order the second finalization needs none.  LiveSafety and
LiveLostSlot do not check deadlock: when the gate is set, no operator clears it,
every trade is over and its funding reconciled, nothing is left to do, and the
code really waits there.

### 4.4 Fairness

The scanner's cycle starts the worker again and again, whatever the books say
(`ScannerService.order_scanner`), so every unclosed row the query returns is
loaded again (`WorkerLoad`), the worker's call ends (`GiveUp`), and a thread goes
on from the commit of a close to the funding call (`FinalizeFunding`).  Strong
fairness of `ManagePending` and `Guard` says that the exchange answers once in a
while.  The scanner, the requests, the operator and the exchange's orders are
not fair: an order may stay open for ever, which is why OpenResolves speaks of
orders the exchange has decided.

With two trades OpenResolves cannot be unconditional.  `reconcile_pending_trade` returns
None without a slot row (OBRS 3382-3384), and LiveLostSlot shows how a trade loses its own:
such a trade stays `open_pending` for ever, also when its order has filled and the
position is on the account.  OpenResolves therefore promises an end, or that the slot is
not the trade's any more.  Exchange-side closes are enough for the second finalization, so
the run issues no close order.

### 4.5 Three races the runs exhibit

*LiveBlindClose.*  A thread holds an image that says `open_pending`.  Meanwhile
the opening is resolved and another thread requests a close and sends it.  The
first thread reconciles: its image makes it read the *opening* order (OBRS 3385),
which is filled, so it sets the slot back to `active` and the row back to
`tp_sl_unprotected`.  The next close passes the slot check and sends a second
order while the first may still be filled.

*LiveLostSlot.*  Two threads hold the same trade as unclosed.  One finalizes it;
the scanner reserves the next trade; the other finalizes the first trade again
and deletes "the" slot of the configuration (OBRS 3364), which is now the next
trade's.  OneLivePosition still holds, because `open_position` asks the exchange
for positions and `evaluate` finds the unclosed row; the durable lock is gone, and with it
the reconciliation of that trade (4.4).

*LiveFundingGap.*  The close and the deletion of the slot are one commit, the
entry gate is set by a later one (OBRS 3366, 3368).  In between the scanner may
reserve.

## 5. From the exchanges to the entry: SignalRules and MarketFeed

### 5.1 State and actions

SignalRules is the pure part of an evaluation: which books are fresh, what is kept
of their history (`Recorded`), momentum and imbalance, the consensus over the
exchanges, the reasons against a side, the audit beside the decision, the feedback
of lost trades and the quality filter.  Prices, imbalances and ratios are small
integers; every comparison keeps the strictness it has in the code.

What a PATCH can switch on and off in these rules (OBRS 216-232) is the variable `on`, a
subset of `Switches`: the median, the signal of the configured exchange, the exclusion of
anomalous imbalances, the improvement a confirmation asks for, the feedback and the quality
filter.  It is one of `Settings` at the start and stays so: a PATCH in the middle of a
behaviour is not modelled.  The two other switches of the confirmation change the reason of
a refusal and not the refusal (`Confirms`).  The consensus is on and the entry is in two
steps.

MarketFeed is the futures half of `ScannerService` with the store and the two-step
entry.

| Variable | Code |
|---|---|
| `now` | seconds; the event loop runs what is ready before the next one passes |
| `due`, `task` | `_futures_due`; the asyncio task of a pair |
| `worker`, `threads` | `_futures_workers` (the shielded request of an exchange); how many of its threads run |
| `store` | FuturesSnapshotStore |
| `points` | `_mid_price_history` |
| `active` | `enabled` and not `is_stopped` |
| `eval` | `current_time` of the running evaluation |
| `pending` | `_pending_entries` |
| `open`, `trades` | the open trade's side; the closed trades the feedback looks at |
| `first` | history: first signals seen since the restart and not used up |

`Cycle` is one round of `order_scanner`; `Answer` the end of a worker thread, with a
book, a late book or an exception; `GiveUp` the timeout of the task, after which the
thread goes on; `Ignore` and `Begin` what a stored book leads to: only the book of the
configured exchange is evaluated, but the other takes the lock as well, and a book
that arrives meanwhile is stored and not evaluated.  `Begin` fixes the time, `Decide`
reads the store (which may be newer by then) and takes the whole decision.  `Stop`,
`Start`, `Close` and `Restart` come at any time.

Behaviour of the code worth knowing: `stop` clears a pending first signal, but an
evaluation that is running can still create one, which a Start then finds
(ConfirmedInTime holds, as its age is looked at).  A book that `exchange_feature`
rejects has entered the momentum history before.  With the consensus disabled and
the side feedback enabled no entry is possible.  A streak block needs a look-back of
at least the streak (`LookbackAssumption`); a configuration below that has a block
that never triggers.

### 5.2 Properties

| Property | Says |
|---|---|
| TypeOK | types, and that a pending signal is a first signal nobody used |
| OneAtATime | one thread per exchange, no answer reaches the store after its task gave up, and never two evaluations at the same time |
| RulesAgree | on every set of books `consensus_side` picks a side exactly when `direction_rejections` has nothing against it; `side_decision_audit` passes no other side of a valid book, and passes that side while `use_median_imbalance` is on |
| ConfirmedInTime | an entry uses up a first signal of its side, not too early and not too late, of this process |
| EntryHasQuorum | enough fresh exchanges, the traded one among them, although the store changes meanwhile |
| ColdSideRests | with the feedback on, a side rests after a streak of losses |

With `use_median_imbalance` off, the rules leave the median alone (SignalRules.py:16, 31,
41) and the audit still asks for it (OBRS 1374-1395): the record of a decision may then deny
the side that is traded.  RulesAgree says which half of the agreement is left.

EntryHasQuorum is about what an entry rests on.  That a long evaluation keeps a position
unmanaged, because books that arrive meanwhile are stored and not evaluated (ScannerService
304), is no property: nothing bounds an evaluation, here or in the code.

### 5.3 Bounds (feed part of FeedAndBook)

Two exchanges with one pair; the traded one alternates between a long and a short
book, the other answers a book that is a second old.  MaxTime 3, a history of 3 points, a confirmation delay and longest wait of one second, one
closed loss at first, one more entry and its close, unbounded restarts.  Two settings: as it is shipped, and
one with only feedback and quality filter, in
which the median lies on the threshold it does not use; the second has one second less.  Three seconds are a first signal, its
confirmation and a signal too late; the side cool-down (3) covers all of them so
that a confirmed signal meets it.  No fairness is assumed.

## 6. What is kept of the entries: TradeBook

### 6.1 State and actions

`strategyRuns`, `conf` and `ladder` are the rows of runs, configuration and
RecoveryState; `tests` and `timers` the locals of `run_forward_test` and of its timer
thread; `tradeRows` the trades; `today` the day of the daily limit.

`run_forward_test` and its timer take no lock.  They are split where another
transaction may come between: load (`TestLoad`, `TimerLoad`), the queries, which by
autoflush write and so lock what is dirty (`TestRead`; `holds`), and the commit
(`TestCommit`, `TimerCommit`), which writes only the columns that differ from the
loaded image.  The other requests lock the configuration first: one action.
`RestartBook` loses requests and timers.

The size of an entry is here one step: the margin whose stop loses no more than the
risk and than what both limits leave (`bounded_margin`, `risk_rejection`).

Behaviour of the code worth knowing.  A test or a timer that commits on images
another thread has made stale (`crossed`) may leave a running run in a strategy that
is stopped, or stop a newer run.  After a recovery pause the run has ended, and
`ResumeStrategy` begins none: the timer of a forward test then finds nothing to stop
and the strategy goes on.  After a restart a forward test has no timer and no end.
Deleting archived losses lowers the losses that are counted and opens the limits
again; archiving them does not.  A new session starts the sums anew.  An abandoned
trade never gets `closed_at` and so is never archived.

### 6.2 Properties

*RunsKeepApart.*  The newest run is the only one running, and a completed forward
test leaves none running, unless a commit on stale images crossed another one.  The crossing
itself, a timer that ends what a later Start began, is what the code does; the property
excepts it and shows that nothing else separates runs and ladder.

*LossesWithinLimits.*  Whatever is archived, closed on another day or sized by
whichever configuration: the losses on record of a day and of a session pass the
limit by at most what one position lost beyond its stop; no entry risks more than
the cap of the equity at that time; and the equity is what the metrics show plus what
they hide.

### 6.3 Bounds (tests and trades parts of FeedAndBook)

Tests: one tester, two runs, one trade, the risk at its cap.  A test, its timer and
each request make all pairs of threads; two runs are the least in which one can be
mistaken for another.  Trades: two trades, two days, two sessions, one run; risks 0
(refused), 1 and 4 (cut to the cap 2), limits 2 a day and 3 a session, wins of 1 and
losses of the stop or one beyond.  Two trades suffice for one loss to stand on record
while the other is sized.  Deadlock is not checked: clocks and rows end.

### 6.4 The accounts of live trades: FundingLedger

`liveRows`, `events`, `state`, `gate` and `slotOf` are the rows; `settled` is what the
exchange shows of each trade's funding; `pass` the locals, session images and row locks
of each worker; `told`, `overlapped` and `redone` are histories.

A worker's pass (`reconcile_existing_positions`) is one session.  Its images of
configuration and ladder therefore live as long as the pass, and a commit writes only
the columns in which they were changed.  `funding` is split where another transaction
may come between: the locked and refreshed trade row (`FundingLock`, which keeps its
lock until the *next* commit if the trade was asked about a moment ago), the first load
of the ladder (`ReadLadder`), and the answer with everything up to the commit
(`BookFunding`, `FailFunding`).  `EndPass` is the end of a pass anywhere: done, process
gone, or chosen by the database as the victim of a deadlock.  `prepare_legacy` is
`Audit`; opening and protecting belong to LiveExecution, here `Finalize` is a position
that the exchange says is over.

*LedgerTrue*, whatever workers, late or revised records, failed answers and crashes do:
what a row says of its funding is the sum of its ledger, which holds each event once
(SumsRight); the net result includes that funding unless the row says otherwise
(NetRight); the result of a trade that one thread finalized reaches the ladder once and not
before it is final (ToldOnce); and while no two passes overlapped, the streak is that of
the results told (StreakRight).

The two conditions are where the code goes wrong, as TLC shows:

- Two passes that loaded the ladder before each other's commit lose an increment
  (`overlapped`): the row lock is on the trade, and two trades' results go to one ladder row.
- *LedgerTwice* checks the unconditional claim, ResultToldOnce, and finds it *violated*:
  research/SAFETY_RESEARCH_REPORT_RU.md:16 says that the result is applied once, and
  tests/test_research_safety.py:130 is named after it.  Two passes list a trade as unclosed.
  One closes it, waits for the settlement and tells the ladder.  The other then finds its
  position gone (OBRS 3925-3927, for which it needs no slot) and
  `finalize_verified_close` writes `closed_at` and `pnl_source` anew (OBRS 3358) without
  looking whether the row is closed.  `funding` reads a result that is provisional again and
  not yet settled, makes it pending, and when the new settlement time has passed it calls
  `apply_recovery_after_close` a second time: a loss then counts as two.

With one worker neither happens: OneWorkerTellsOnce is proved without exceptions.

Also as the code is: an audited legacy trade that is closed already gets a slot which
nothing deletes, so that it blocks every later entry; a slow pass that books a late
record may change a result after the ladder was told the earlier one.

Bounds: two workers, whom no step tells apart (symmetry).  *Ledger* part: one trade (open, closed, or closed in an earlier
release) beside a reconciled loss, with three records of which one revises another and
one comes late; three instants (one before, at and after the settlement time), the last
without new records and failures, since nothing can follow from those.  LedgerTwice has this part alone, with four
instants, since the second close begins its own settlement time.  *Ladder* part:
two trades, a win and a loss, without records or failures, one instant less; the
operator lifts the block at the end.  LossLimit 2 lets a streak grow before it pauses.
An open trade of an earlier release is to its funding what an audited one is; its audit
in both lists is the same call.  Left out: the order and the limit of 100 of the
worker's second list.  The end of the run after a pause is in TradeBook.

## 7. Beside the recovery strategy: the BackOffice run

### 7.1 SpotDesk

The spot scanner with `_next_order_book_scan_at`, the cool-downs of slow and failed
exchanges and its semaphore (`fetch`, `coolUntil`); `ArbitrageStrategyService.run_once`
with `_last_signal_at`, called by the scanner after each book and by a request in a
thread; `RiskManager`; `PaperTradingService` (`signals`, `positions`).  An action ends at a
commit, an await, or a read whose result is used later.

A request may also execute a signal by hand (`Manual`).  Its body names two prices: the
signal's, at which the margin is tested (RiskManager 53), and the one it is filled at
(`last_price` or `price`, PaperTradingService 141, 156); and it may override every limit
(PaperTradingService 110-116, RiskManager 26-34).  `Order` has both prices and the limits
that are left in force.

*DuplicateOnlyByOverlap*: two signals of an opportunity within its cool-down come
only from overlapping runs; a restart is no excuse, since the code asks the table as
well.  *OrdersBacked*: an executed signal and a position correspond one to one, and
the outcome noted on the opportunity agrees; a position is within the limits its own signal
left in force, at the price the signal named (`OwnLimits`), and one the desk found is within
the configured limits at the price it was filled at, although its amount is rounded
(`DeskLimits`); either is on a day over its loss limit only when a close committed between
check and fill.  Nothing is promised about the margin of an order by hand at its fill price:
the code does not look at it.

The success of one pair of an exchange lifts the cool-down that a newer failure of
another has set; two closes of one position both write, and the last result stands.  The day's loss can
therefore grow without another position being closed, and so `closes` counts the commits
of a close and not the closed positions: the attempt to prove OrdersBacked showed the
difference, which one request alone cannot make.

Bounds: three pairs of one symbol, of which b buys dearer than a and d sell, a with
little depth and d with more than the margin; b may fail; one task at a time; one
request, two signals, one second (two times on each side of a cool-down of one).  The order
by hand brings limits wider than the desk's and a fill price above the tested one; closed,
it loses more than the desk may and as much as its own limit.  It comes where d is enabled.
The theorems cover any number of requests.

### 7.2 Adaptive

The entry memory of AdaptiveBookV1/V2 and AdaptiveTrendV3 (class attributes: lost by
a restart), the renewal after a close, the sixty-second trend, and the exit evidence
kept in the trade's row.  Books may be old, come twice and out of order.

*EntryEarned*: an entry has enough distinct books without a contradiction, with no
gap longer than the maximum age, over the required time; after a close the old signal
was away as long; V3 moves along an unbroken minute.  *ExitEarned*: whenever the
management of a trade closes it before the longest hold, it has evidence of the same
kind.  The books that count are collected in history variables (`entryProof`,
`renewalProof`, `exitProof`) beside the counters, so that a counter the code forgets to
reset shows.  They collect what the code accepts as a book: V1's exit asks only that a
book is not from the future, V2 and V3 drop everything at an old one (`Evidence`).

Not alike between the versions: a rejected risk, a disabled configuration or a
missing book resets only V1's memory; `stop` clears V3's renewal and not V2's; an
unavailable consensus leaves V1's exit evidence as it is and destroys that of V2.
Entries and closes are immediate here.  Bounds: seconds 1 to 5, three books over two
seconds, one close, books at most a second old: one that is too old is left to the proof.

### 7.3 Labeller

The price history and snapshots that an evaluation commits late with an early time,
and the passes of the daemon and of an export over the same pending labels: read,
flush (rows locked), read the snapshots, commit.  *LabelHonest*: a value describes
exactly its window (`Describes`), as far as prices were committed when the pass read it;
no copy on a snapshot is any other value; labelled means every horizon is filled,
whichever passes overwrite each other and whenever the data set is cleared.  A label
without any price in its window stays pending for ever.

Which prices may be missing was found by attempting the proof.  One would say: those of
the one evaluation under way when the pass read.  But a pass may read in the very instant
in which a horizon ends, and any evaluation that begins in that instant belongs to the
window as well; with a horizon of 3 and four batches TLC shows two missing prices.
`Describes` says what is true: a missing price is the next one to be committed, or its
evaluation began in the last instant of the horizon.

Bounds: two labellers, horizons 1 and 2, three batches, one clearing, two venues with
median and average.  Horizons that end at different instants and a batch between them
need three batches.  A price that is missing only because of the last instant needs more
(a horizon of 3, four batches) and is left to the proof.

### 7.4 Observation

`OrderBookNormalizer`, the all-or-none depth fill, contract lots, the cost hurdle, the
entry measurement, the shadow after the close and the diagnosis of the state endpoint,
over books that come twice, late, out of order or from the future.

A tick of an open trade reads the store twice, once to value the exit (OBRS 3778) and once
more for the source time it books that value under (3800), while the event loop may replace
the book.  `Hold` is a tick that meets the same book twice, `TornHold` one that values the
old book and takes the time of the new.  `measure_pending_exit` and the shadow read once.

*ObservationTrue*: each horizon holds what was first shown under a counting time in its
window and says missed otherwise; best and worst are those of all that counts.  An entry
measurement's value need not be that of the book whose time it carries: it is of a book that
was in the store before, at most `BookAge` older than that time.  The diagnosis says
"only a tick is missing" exactly when a tick fills.  The last horizon of a shadow can
never be missed, since the shadow ends with it; with zero latency the diagnosis says
"no new book" although the close fills; it ignores crossed books and empty asks, which
is why the property speaks of uncrossed ones.  The sorted levels of `consume_book` are a
recursive function that takes the best remaining level (`BestOf`) at every step, which is
what the sort and the loop do.  Bounds: lots of 2 from 3 to 8, cost 4,
three books (levels out of order, a price at which the lots are too few, a crossed
one), six ticks.

### 7.5 Backtest

`IndicatorEngine`, `BacktestService` (simulation, metrics, Monte Carlo, walk-forward),
the paper signal of `FuturesTrendStrategyService` and `ExperimentRunnerService`.
*NoHindsight*: a longer tape does not change the trades that a shorter one closed.
*ReportTrue*: trades are disjoint and the curve is their sum; drawdown and streak are
those of the definition; shuffles end alike; the walk-forward test enters on no
training candle but its last; an accepted candidate earns; an experiment reports its own
candidates, and others only of overlapping requests.
*PaperAgrees*: paper and backtest propose the same side as long as the store holds every
candle.

The simulation, the running sums, the drawdown and the streak are recursive functions
along the tape, the trades or the curve, one step per candle or trade as in the loops of
the code; Ema and Rsi are folds.

As the code is: a position opened on the last candle is dropped; a profit factor
without losses is the gross win, a ratio of nothing: a training that won no more than one
unit without a loss can outshine a test that lost, which is why CandidateEarns asks for
more than one; the rows of a market whose commit failed are rolled back and never counted; best, median and average of the Monte Carlo are one
number; the paper window moves the seeds of the averages once the history is longer.
The tape holds complete candles: the one still forming, which `CandleStore.upsert_many`
rewrites, is not on it.  `RunBacktest` is a request that brings its candles; without them the
code computes no walk-forward (BacktestService 362).  PaperSignal takes the parameters of the
backtest, where the service has 20, 50, 14, 60, 40 and 0.15 fixed: PaperAgrees compares the
two for such parameters.
Bounds: seven candles of three shapes and two more that fall, two parameter sets, two
researchers, two markets of which one is too short.  With seven candles a training part has
no room for a trade; with nine a candidate is accepted that won in training and in the test.

The clocks of all parts end, so deadlock is not checked.  No symmetry and no fairness
is used.

## 8. Proofs

Every theorem holds for all values of the constants that satisfy the assumption of its
module: any number of trades, threads, requests, exchanges or records, any bound, limit
and delay.

| Module | Theorem | States |
|---|---|---|
| PaperLifecycleProofs | TypeCorrect | `Spec => []TypeOK` |
| | SlotOwned | `Spec => []SlotOwnership`: the slot and the open trade agree |
| | OneExposure | `Spec => []AtMostOneExposure`: never two open rows |
| | ContractKept | `Spec => KeepsContract`: PaperLifecycle implements SlotContract |
| | PauseKept | `Spec => []PauseHolds`: the operator's pause holds |
| | StreakBounded | `Spec => []StreakBelowLimit` |
| | OverForGood | `Spec => TerminalFrozen`: what is over is never written again |
| | OutcomeCounted | `Spec => OutcomeOnce` |
| | FillsHonest | `Spec => NoLookAhead` |
| LiveExecutionProofs | TypeCorrect | `Spec => []TypeOK` |
| | ClosedRowsAreFlat | `Spec => []ClosedIsFlat`: closed only when the exchange is done with the trade |
| | OnePosition | `Spec => []OneLivePosition` |
| | KeepsLiveContract | `Spec => KeepsContract`: LiveExecution implements SlotContract |
| FundingLedgerProofs | AccountsRight | `FundingSpec => []LedgerTrue`, with the two exceptions of 6.4 |
| | OneWorkerTellsOnce | with one worker: `[]ResultToldOnce`, and the streak is that of the results told |
| | LadderFollows | every change of the ladder tells it one final result, unless passes overlapped |
| MarketFeedProofs | Invariant, TypeCorrect | `Spec => []FeedInv` and `[]TypeOK` |
| | OneThingAtATime | `Spec => []OneAtATime` |
| | EntriesConfirm | `Spec => ConfirmedInTime` |
| | EntriesHaveQuorum | `Spec => EntryHasQuorum` |
| | JudgesAgree | side, rejections and audit on every verdict and every setting of the switches (the core of RulesAgree) |
| | ColdSidesRest | `Spec => ColdSideRests` |
| ResearchProofs | AdaptiveInductive | `AdaptiveSpec => []AdaptiveInv` |
| | EntriesAreEarned | `AdaptiveSpec => EntryEarned` |
| | ExitsAreEarned | `AdaptiveSpec => ExitEarned` |
| | ReportsAreTrue | `BacktestSpec => []ReportTrue` |
| | NoneLooksAhead | `BacktestSpec => NoHindsight` |
| MeasurementProofs | LabelInductive | `LabelSpec => []LabelInv` |
| | LabelsAreHonest | `LabelSpec => []LabelHonest` |
| | ObservationInductive | `ObsSpec => []ObsInv` |
| | ObservationIsTrue | `ObsSpec => []ObservationTrue` |
| TradeBookProofs | RunsApart | `BookSpec => []RunsKeepApart` |
| | LossesBounded | `BookSpec => []LossesWithinLimits` |
| SpotDeskProofs | SpotRuns | `SpotSpec => []SpotInv` |
| | NoOtherDuplicate | `SpotSpec => []DuplicateOnlyByOverlap` |
| | EveryOrderBacked | `SpotSpec => []OrdersBacked` |

### 8.1 Assumptions

| Assumption | Says |
|---|---|
| RulesAssumption, LifecycleAssumption, NullAssumption | the bounds are numbers, the ladder limit is positive, at most one row predates the frozen configuration, NULL is no slot |
| LiveAssumption | there is a trade; the bounds are numbers |
| FundingAssumption | the bounds are numbers, the loss limit is positive, NULL is neither a time nor a trade, fills are numbers |
| WindowAssumption, LookbackAssumption, FeedAssumption | delays, ages, thresholds and cool-downs are numbers; the feedback looks back at least as far as the streak it looks for (below that it never blocks); the traded pair is one of finitely many; books have the fields the rules read |
| AdaptiveAssumption | a view has a direction and two flags; ages (a book may be from the future) and results are integers; thresholds are integers per version; limits are numbers |
| BacktestAssumption | prices of a candle, periods and the distance of the stop are positive (the code divides by them), the other parameters are integers; there are finitely many parameter sets; bounds are numbers |
| LabelAssumption | horizons are positive; the prices an evaluation records are integers |
| ObsAssumption | latency, ages, windows and horizons are numbers, there is a horizon and finitely many of them; levels are pairs of numbers; a lot is positive |
| TradeBookAssumption | caps and units are positive; amounts, limits and bounds are numbers |
| SpotAssumption | the unit of amounts and the semaphore are positive, the cool-down is a number (zero included: then nothing is promised about duplicates) |

None of them restricts how the components interleave or fail.

### 8.2 Arguments

*Paper rows* (IInv).  `TypeInv` is TypeOK with `LocalsOK`: what the threads keep in
memory is well typed as well, since a column-wise UPDATE may put any of it into a row.
`RowInv` is SlotOwnership and AtMostOneExposure with `ReserveClear`.  Neither of the
first two is inductive alone.  A reservation inserts a slot because it finds none;
SlotOwnership turns "no slot" into "no open row", but only for rows that have a slot at
all.  A legacy row may lack one, and the reservation does not look for it:
`ReserveClear` says that a scanner that has decided to reserve does so while no legacy
row is open, which its earlier look at the open trade established and no step undoes.
In the other direction a close deletes the slot of the configuration without looking at
its trade, and only AtMostOneExposure says that no other open row loses its slot by
that.  A few shapes of step (the rows keep their phase, a pending row fills, exposures
are released, ...) preserve RowInv, and every action has one of them.

*Paper contract.*  Every step keeps the phases of all rows, ends one, reserves one or
fills one (`StepShape`); each is a step of the contract under the mapping.  That nobody
is reserved or held when a reservation commits follows from the free slot by
SlotOwnership and, for a row without a slot, from ReserveClear.

*Pause* (PauseInv).  PauseHolds says that nothing waits to be filled while the
operator's pause stands.  The PATCH that lifts a gate is a new pause but cancels nothing;
it needs `GateClear`, that no pending row outlives the request that set the gate.

*Ladder* (LadderInv).  A closer books an outcome on an image of the state row that may
be old, and its UPDATE may write any column of it back.  So not only the row but every
image a closer holds is short of the limit.  OutcomeOnce then follows from the shape of
a step: either the ladder and all rows are quiet, or exactly one row leaves by the one
close of the step (`StepOutcome`).

*Live trading* (LiveInv).  OneLivePosition speaks of the exchange, the code only of
rows and images.  `ImagesOK` says what a thread's image still guarantees however old it
is: the row it loaded was not over, its close order belongs to that trade, only the
scanner opens and an order it has not sent is not on the exchange.  `RowsOK` says that a
closed row is flat on the exchange, that a position was opened by a filled order, and
that each close order has one trade; `OneBusy` that at most one row is neither free nor
over.  A write on a stale image may turn a row's status back but never its `closed_at`
(`RowsMove`), and a reservation, the only step that makes a row busy, has seen none.

*Funding* (AccountInv).  A worker about to book has its row locked and has it as it is
(`WorkerOK`, `LocksOK`), so the sum it writes is that of the ledger it leaves.  How
often the ladder has heard of a trade can be read off its row (`HeardOf`), except for
rows two threads have finalized.  With one worker an image is never old (`AloneInv`), so no
row is finalized twice and no result is told on an old ladder.  StreakRight asks
for a run of streaks that begins at zero, follows the results told and ends in the row;
each step that tells a result appends to it.

*Feed* (FeedInv).  `TasksOK` bounds the age of a waiting task and lets only one evaluate,
`ThreadsOK` ties an exchange's threads to its unfinished request.  That no abandoned
request's answer reaches the store follows from the two; the quorum of an entry from
the rows of the consensus the decision itself computed (`Quorum`).

*Cold side.*  `OfSide` is a recursive function along the closed trades; by the recursion
lemma below it returns closed trades (`SideTrades`).  When its first
StreakLimit trades are losses, the feedback, which looks back at least that far, counts a
streak of at least that length and refuses the side until the cool-down is over
(`StreakRests`), whenever and from whichever books the decision is taken.

*Experiments* (AdaptiveInv).  A counter is a number, the property speaks of books.  What
joins them is a `Chain`: all books of a set between two instants, as many as the counter
says, each with a successor within the longest gap.  A book that is accepted extends the
chain at its end, one that repeats the last leaves it, a contradiction or a gap begins a
new one.  The histories of an entry (`EntryChain`), a renewal (`RenewalChain`) and the
state of an exit (`ExitChain`) are chains in every state; that the threshold is met when
an action fires is then the property.  The trend is `Steady`: in order and without a long
pause, which dropping rows on the left keeps.

*Labels* (LabelInv).  LabelHonest speaks of what is committed, a pass works on what it
has read.  `PassGood` says that its view still fits: a value in it describes its window,
and a horizon it has found filled is still filled, since no pass ever empties one.  A
clearing makes a view worthless; but it waits for the rows of a flushed pass, and a pass
that has read before it finds its rows gone and never flushes (`PassesGood`).  Describing
a window is not inductive, as later prices may fall into it.  `Elapsed` says that the
window had passed when the value was read, and that once a price has been committed
since, the evaluation under way began after that.

*Measurements* (ObsInv).  `quotes` lists every quote shown to a measurement, of which
those that are in order and of its time count (`CountingIn`).  Each was valued from a book no more than BookAge older
than its time (`OwnTime`, and `TornInv` for a tick that met two books).  The last is the newest of
them (`LastIn`), best and worst are theirs (`Spans`), and each line of the horizons
`Tells` what the first counting quote after its instant says.  A quote that does not
count changes none of these.  The code marks "nothing seen" with a sentinel; that it is
no cost follows from the fill: what `Consume` pays is a natural number, by recursion along
the levels.

*Reports* (ResearchInv).  The invariant says that a report is the backtest of a prefix of
the tape.  The rest is about the backtest of any tape.  Along it every state of the
simulation is `Good`: the trades follow each other, each begins after the last has ended
and ends no later than the present candle, an open position began after all of them, and
the curve is their running sum.  Two tapes that agree up to a candle have the same
simulation up to it (`SamePast`), because a step sees only `Visible` candles, and trades
are only appended (`TradesGrow`): that is NoHindsight, once the trade that the end of the
data closed is left out.  `DrawdownIs` and `StreakIs` follow peak, worst fall and longest
run along the curve.  That every shuffle ends at the same equity is an induction over
permutations: taking away the last place of an order leaves an order of the others
(`ShuffleRest`), and taking away one place of a sequence lowers its sum by what stood there
(`DroppedIs`).  No fall exceeds the losses, since curve plus losses so far never falls
(`FallIsLost`).  From the rejections that are not there a candidate's earnings follow by
arithmetic.

*Experiments that overlap* (ExperimentInv).  ExperimentsReported counts rows by time, an
experiment makes them by request.  While it runs, the sum of an experiment's `OwnRows` is
what it made, all of them are committed when it is about to report (`Written`), and no row
carries the instant of its start (`Begun`): so the answer counts every own row, and one
more only if another request wrote a later one.

*Runs* (BookInv).  The timers remember for which run they were begun, and an uncrossed
one has loaded that run (`TimersOK`).

*Losses* (LossInv).  LossesWithinLimits is not inductive: that the next close keeps
the limits depends on the size of the open trade, chosen when less had been lost.
`Sound` says that only the last row can be open, and that what it may lose at its stop
still fits into its day and its session (`HasRoom`).  An entry has room because
`BoundedMargin` leaves it what the limits leave (`EntryRisk`, the one place with
products and quotients).  A close turns room into loss, and what exceeds the room is its
own `Excess`; it cannot move to a day that is full, since a new day has lost nothing.
Archiving hides a row and changes no sum; a deletion takes a row out of every sum, and
the row whose excess excused a sum above its limit takes along more than that excess
(`WithoutWithin`).  That the fall shown by the metrics is no more than the losses they
list is an induction along the curve (`FallIsLost`).

*Spot desk* (SpotInv).  Between the commits of a run it relies on what it has read:
that there was no young signal among those it saw (`LooksOK`), that a signal under
execution is nobody else's and has no outcome yet (`ClaimsOK`), that the order it was
allowed is within the margin it was tested against, and the day within that order's limit
unless a close came since (`ApprovalsOK`); `PairsOK` is OrdersBacked without cardinalities.  The day's
result is a recursive sum over all positions.

*Sums.*  Facts about sums and about what a deletion leaves (SpotDesk, TradeBook) need
induction, which is used as a statement about sets of numbers: the least number for
which one would be wrong cannot exist (`Least` and `LeastOne`, from the library's
WFMin).  `Recursion` establishes in the same way that a function defined step by step
along a sequence has the values its steps say.

### 8.3 Only model-checked

- Liveness under fairness (PaperClock, LiveLiveness) and whatever needs ENABLED are out
  of the prover's reach.
- RulesAgree relates the judges to books whose momentum and averages are folds over
  selected subsequences; the provers know nothing of what SelectSeq or a fold returns.
  JudgesAgree proves its core, what they say of every verdict.
- PaperAgrees relates two judges that average the candles of a window and of the tape;
  the averages are folds.  The theorems on Backtest need no average: whatever an indicator
  says, a signal is long, short or none.

No module here declares a RECURSIVE operator.

## 9. Not modelled, and why

- Of PositionGuardian: the message `live_error`, and the cancellation of plan orders
  after a close, which changes no row.  Its protection check is in LiveExecution, its
  ledger and audit in FundingLedger; both modules know that funding blocks entries.
- Switching a configuration between paper and live while rows of both kinds exist is
  left to the step that relates both modules to SlotContract.
- Sockets, CRUD resources, exchange adapters, live diagnostics and migrations: I/O, or
  thin wrappers over the database and ccxt with no state of their own.  The balance and
  account-order loops of the scanner only forward what they fetch.
- The ML prediction service is the client of an external model whose answer is advice;
  in shadow mode it changes no decision.
- Futures paper trading is called only by tests.  (With its default
  `max_position_margin` it would reject a default-sized position.)
- Within modelled components: the accepted spellings of a level, the cached status of
  the spot websockets, `current_streaks` and `metrics_for_run`, `observed_excursions`, the
  "would win" columns of a label, and of the research service the optimisation, scores,
  heat maps, monthly returns and ratios.  They are formulas over what the modules keep
  and decide nothing.
- A forward test does not look at live start, emergency gate or open position before it
  overrides exchange and mode; those three are in PaperLifecycle and LiveExecution and
  not in TradeBook.
