---------------------------- MODULE PaperLifecycle ----------------------------
(***************************************************************************)
(* The paper-trading lifecycle of OrderBookRecoveryService for one         *)
(* strategy configuration.                                                 *)
(*                                                                         *)
(* Actors that interleave:                                                 *)
(*   the scanner   on_order_book_snapshot -> evaluate, one at a time in a  *)
(*                 process; it reads its clock, the configuration and the  *)
(*                 recovery state BEFORE it takes the row lock;            *)
(*   the worker    reconcile_existing_positions, every few seconds, takes  *)
(*                 the lock for each trade;                                *)
(*   requests      Start, Stop, PATCH, new session, reset, margin          *)
(*                 override, manual close, abandonment.                    *)
(*                                                                         *)
(* The database rows are cfg, st, run, trade and slot; scan, midClose and  *)
(* admin are what the threads hold in memory between two transactions and  *)
(* are lost in a restart.  One action is one transaction: lock_config to   *)
(* commit.  pause is a history variable.                                   *)
(***************************************************************************)
EXTENDS RecoveryRules, FiniteSets

CONSTANTS
    MaxTrades,  \* bound: rows of strategy_run_trades
    MaxTime,    \* bound: the clock
    TTL,        \* pending_entry_ttl_seconds
    MaxAge,     \* max_snapshot_age_seconds
    LegacyRows, \* rows older than execution_config_json that Init may hold open
    Issued      \* bound: the requests and faults a run considers at each latency

ASSUME LifecycleAssumption ==
    /\ MaxTrades \in Nat \ {0}
    /\ MaxTime \in Nat
    /\ DOMAIN Issued \subseteq Nat
    /\ TTL \in Nat
    /\ MaxAge \in Nat
    /\ LegacyRows \in {{}, {1}}
    /\ \A l \in DOMAIN Issued :
          Issued[l] \subseteq {"start", "stop", "patch", "session", "abandon", "reset",
                              "margin", "close", "restart"}

VARIABLES
    latency,   \* paper_latency_ms, which stays as it is in a behaviour
    now,       \* datetime.utcnow()
    book,      \* the configured exchange's entry in the snapshot store
    cfg,       \* OrderBookPatternStrategyConfig
    st,        \* RecoveryState
    run,       \* a StrategyRun with status "running" exists
    trade,     \* StrategyRunTrade rows
    slot,      \* the ExecutionSlot row
    scan,      \* locals of the running evaluate
    midClose,  \* locals of a close_trade that has committed its request
    admin,     \* locals of a request that works on an unlocked state row
    pause      \* history: has the operator's last Stop been undone

db == <<cfg, st, run, trade, slot>>
vars == <<latency, now, book, cfg, st, run, trade, slot, scan, midClose, admin, pause>>
moving == <<now, book, db, scan, midClose, admin, pause>>

Trades == 1..MaxTrades
Time == 0..MaxTime
Closers == {"scanner", "worker", "http"}

\* status stands for live_status, closed_at and abandoned_at together:
\* "open" is live_status NULL, "closed" is closed_at set after a fill.
Statuses == {"absent", "paper_pending", "open", "paper_cancelled", "closed",
             "paper_abandoned"}
Config == [enabled: BOOLEAN, block: BOOLEAN, session: BOOLEAN]
State == [stopped: BOOLEAN, reason: Reasons, until: Nat \cup {None},
          losses: Nat, last: Results, closed: Time \cup {None}]
Row == [status: Statuses, legacy: BOOLEAN, opened: Time \cup {None},
        closeReq: Time \cup {None}, closedAt: Time \cup {None},
        result: {"none", "win", "loss", "cancelled", "abandoned"}]
Slot == [trade: Trades, status: {"paper_pending", "active"}]
Book == [src: Nat, kind: {"invalid", "thin", "deep"}]

\* NULL is not a row.
ASSUME NullAssumption == None \notin Slot

NoTrade == 0
IdleScan == [pc |-> "idle", at |-> None, cfg |-> None, st |-> None,
             trade |-> NoTrade]
NotClosing == [trade |-> NoTrade, at |-> None, st |-> None]
IdleAdmin == [op |-> "idle", trade |-> NoTrade, st |-> None]

(***************************************************************************)
(* Helpers                                                                 *)
(***************************************************************************)
AbsentRow == [status |-> "absent", legacy |-> FALSE, opened |-> None,
              closeReq |-> None, closedAt |-> None, result |-> "none"]

Exposed(t) == trade[t].status \in {"paper_pending", "open"}
\* Faulty variant of OpenTrades: legacy rows are overlooked.
ManagedOnly == {t \in Trades : Exposed(t) /\ ~trade[t].legacy}
OpenTrades == {t \in Trades : Exposed(t)}
\* open_trade: the unclosed row with the highest id.
IsOpenTrade(t) == t \in OpenTrades /\ \A u \in OpenTrades : u <= t

\* Nothing in the store, or a book exchange_feature rejects.
NoBook == [src |-> 0, kind |-> "invalid"]

\* exchange_feature: neither from the future nor stale, and a usable book.
ValidBook(at) ==
    /\ book.kind # "invalid"
    /\ book.src <= at
    /\ at - book.src <= MaxAge

\* Faulty variant of Executable: any deep book, whenever it was formed.
AnyDeepBook(at, notBefore) == ValidBook(at) /\ book.kind = "deep"

\* paper_fill: the whole amount finds depth in a valid book that was formed
\* no earlier than notBefore, which is ignored when the latency is zero.
Executable(at, notBefore) ==
    /\ ValidBook(at)
    /\ book.kind = "deep"
    /\ latency > 0 => book.src >= notBefore

Pending(row) == row.status = "paper_pending"
CancelledRow(row, at) ==
    [row EXCEPT !.status = "paper_cancelled", !.closedAt = at,
                !.result = "cancelled"]
\* Faulty variants of Release: the slot survives, or stays as a marked row.
KeepSlot(t) == slot
ReleaseKeepsRow(t) == IF slot # None /\ slot.trade = t
                      THEN [slot EXCEPT !.status = "released"] ELSE slot
\* cancel_paper_entry releases the slot only when it names the trade.
Release(t) == IF slot # None /\ slot.trade = t THEN None ELSE slot

Cancel(t, at) ==
    /\ trade' = [trade EXCEPT ![t] = CancelledRow(@, at)]
    /\ slot' = Release(t)

\* Faulty variant of CancelAllPending: the reservations are forgotten.
LeavePending == UNCHANGED <<trade, slot>>
\* The loop over pending entries in stop and update_config.
CancelAllPending ==
    /\ trade' = [t \in Trades |-> IF Pending(trade[t])
                                  THEN CancelledRow(trade[t], now)
                                  ELSE trade[t]]
    /\ slot' = IF slot # None /\ Pending(trade[slot.trade]) THEN None ELSE slot

\* Faulty variant of EntriesPaused.
OnlyGateChecked == cfg.block
EntriesPaused == ~cfg.enabled \/ st.stopped \/ cfg.block

\* create_paper_session restarts the recovery ladder.
NewLadder(s) == [s EXCEPT !.losses = 0, !.last = "none", !.closed = None,
                          !.until = None]

(***************************************************************************)
(* Closing                                                                 *)
(***************************************************************************)
\* Faulty variant of RecoveryImage: was_paused is read after the outcome has
\* been applied.
PauseSeenLate(s, result, at) ==
    LET next == AfterClose(s, result, at)
    IN  IF cfg.enabled /\ ~Exhausts(s, result)
        THEN next
        ELSE [next EXCEPT !.stopped = s.stopped, !.reason = s.reason,
                          !.until = s.until]

\* The image apply_recovery_after_close leaves; while entries are paused the
\* stop flags survive the close.
RecoveryImage(s, result, at) ==
    LET next == AfterClose(s, result, at)
    IN  IF cfg.enabled
        THEN next
        ELSE [next EXCEPT !.stopped = s.stopped, !.reason = s.reason,
                          !.until = s.until]

\* The end of close_trade: book the fill, apply the outcome once, free the
\* slot.  loaded is the image of the state row the session works on.
BookExit(t, result, at, loaded) ==
    /\ trade' = [trade EXCEPT ![t].status = "closed", ![t].closedAt = at,
                              ![t].result = result]
    /\ st' = Flush(loaded, RecoveryImage(loaded, result, at), st)
    /\ cfg' = [cfg EXCEPT !.enabled = @ /\ ~Exhausts(loaded, result)]
    /\ run' = (run /\ ~Exhausts(loaded, result))
    /\ slot' = None

FillExit(t, at, loaded) ==
    /\ Executable(at, trade[t].closeReq + latency)
    /\ \E result \in {"win", "loss"} : BookExit(t, result, at, loaded)

\* close_trade on an open trade, by thread th whose clock says at.  The
\* first request is committed before anything else; with a zero latency the
\* same call then takes the lock again (FillAfterRequest).
CloseTrade(th, t, at, loaded) ==
    \/ /\ trade[t].closeReq = None
       /\ trade' = [trade EXCEPT ![t].closeReq = at]
       /\ midClose' = IF latency > 0 THEN midClose
                      ELSE [midClose EXCEPT ![th] = [trade |-> t, at |-> at, st |-> loaded]]
       /\ UNCHANGED <<cfg, st, run, slot>>
    \/ /\ trade[t].closeReq # None
       /\ latency > 0 => at >= trade[t].closeReq + latency
       /\ FillExit(t, at, loaded)
       /\ UNCHANGED midClose

\* Faulty variant of StillOpen: the row is not read again.
Unchecked(t) == TRUE
StillOpen(t) == trade[t].status = "open"

\* Zero latency: after the commit of the request the configuration is locked
\* and the trade is read again, because another thread may have closed it
\* meanwhile.  The state row is not: sessions keep their images over a commit
\* (expire_on_commit is off).
FillAfterRequest(th) ==
    LET t == midClose[th].trade
        at == midClose[th].at
    IN  /\ t # NoTrade
        /\ midClose' = [midClose EXCEPT ![th] = NotClosing]
        /\ \/ StillOpen(t) /\ FillExit(t, at, midClose[th].st)
           \/ /\ ~StillOpen(t) \/ ~Executable(at, trade[t].closeReq)
              /\ UNCHANGED db
        /\ UNCHANGED <<now, book, scan, admin, pause>>

(***************************************************************************)
(* The scanner: evaluate                                                   *)
(***************************************************************************)
ScanLoadConfig ==
    /\ scan.pc = "idle" /\ midClose["scanner"].trade = NoTrade
    /\ scan' = [scan EXCEPT !.pc = "config", !.cfg = cfg]
    /\ UNCHANGED <<now, book, db, midClose, admin, pause>>

\* get_or_create_state, then the clock of this evaluation.
ScanLoadState ==
    /\ scan.pc = "config"
    /\ scan' = [scan EXCEPT !.pc = "loaded", !.st = st, !.at = now]
    /\ UNCHANGED <<now, book, db, midClose, admin, pause>>

\* resume_after_recovery_pause decides on the images loaded without a lock
\* and commits; the session goes on with the images it has written.
ScanResume ==
    /\ scan.pc = "loaded"
    /\ PauseOver(scan.st, scan.at)
    /\ st' = Flush(scan.st, Resumed(scan.st), st)
    /\ cfg' = Flush(scan.cfg, [scan.cfg EXCEPT !.enabled = TRUE], cfg)
    /\ scan' = [scan EXCEPT !.pc = "resumed", !.cfg.enabled = TRUE,
                            !.st = Resumed(@)]
    /\ pause' = IF pause = "held" THEN "undone" ELSE pause
    /\ UNCHANGED <<now, book, run, trade, slot, midClose, admin>>

Decided == scan.pc = "resumed"
           \/ (scan.pc = "loaded" /\ ~PauseOver(scan.st, scan.at))

\* The open trade is managed when it is a pending entry, when its book is
\* valid, or when an experimental position outlives its maximum hold.  A row
\* without its execution parameters raises, like a trade nothing can manage.
ScanManage ==
    /\ Decided
    /\ \E t \in Trades :
          /\ IsOpenTrade(t)
          /\ ~trade[t].legacy
          /\ scan' = [IdleScan EXCEPT !.pc = "manage", !.at = scan.at,
                                      !.trade = t]
    /\ UNCHANGED <<now, book, db, midClose, admin, pause>>

\* No open trade, running, a valid book, risk and cool-downs passed on the
\* images at hand: the market (any data filter) may produce a signal.
ScanSignal ==
    /\ Decided
    /\ OpenTrades = {}
    /\ scan.cfg.enabled /\ ~scan.st.stopped /\ ~scan.cfg.block
    /\ slot = None
    /\ ~CoolingDown(scan.st, scan.at)
    /\ ValidBook(scan.at)
    /\ scan' = [IdleScan EXCEPT !.pc = "reserve", !.at = scan.at]
    /\ UNCHANGED <<now, book, db, midClose, admin, pause>>

\* Any rejection, any exception, or nothing to manage.
ScanNothing ==
    /\ Decided
    /\ scan' = IdleScan
    /\ UNCHANGED <<now, book, db, midClose, admin, pause>>

\* open_position under the lock: the gates are read again, a missing session
\* is created, the trade and its slot are inserted together.  (The branch
\* that frees the slot of a closed trade is dead: see SlotOwnership.)
ScanReserve ==
    /\ scan.pc = "reserve"
    /\ scan' = IdleScan
    /\ ~EntriesPaused /\ slot = None
    /\ \E t \in Trades :
          /\ trade[t].status = "absent"
          /\ \A u \in Trades : u < t => trade[u].status # "absent"
          /\ trade' = [trade EXCEPT ![t] = [AbsentRow EXCEPT
                            !.status = "paper_pending", !.opened = scan.at]]
          /\ slot' = [trade |-> t, status |-> "paper_pending"]
    /\ cfg' = [cfg EXCEPT !.session = TRUE]
    /\ st' = IF cfg.session THEN st ELSE NewLadder(st)
    /\ UNCHANGED <<now, book, run, midClose, admin, pause>>

\* entries_paused, execution_slot_already_reserved, or no executable amount.
ScanReserveRejected ==
    /\ scan.pc = "reserve"
    /\ scan' = IdleScan
    /\ UNCHANGED <<now, book, db, midClose, admin, pause>>

\* Faulty variant of Expired: strict comparison.
ExpiredLate(t, at) == at > trade[t].opened + TTL
Expired(t, at) == at >= trade[t].opened + TTL
Delayed(t) == trade[t].opened + latency

\* A pending entry is cancelled when it is too old, when entries are paused,
\* or when the revalidated signal, feedback or risk no longer supports it;
\* the revalidation needs a post-latency book.
RevalidationFails(t, at) ==
    \/ Expired(t, at)
    \/ EntriesPaused
    \/ at >= Delayed(t) /\ ValidBook(at) /\ (latency > 0 => book.src >= Delayed(t))

ScanCancelPending ==
    /\ scan.pc = "manage"
    /\ Pending(trade[scan.trade])
    /\ RevalidationFails(scan.trade, scan.at)
    /\ Cancel(scan.trade, scan.at)
    /\ scan' = IdleScan
    /\ UNCHANGED <<now, book, cfg, st, run, midClose, admin, pause>>

\* Faulty variant of RiskStillAllows: risk is checked at the signal only.
NoRiskCheck(at) == TRUE
\* risk_rejection once more, on the refreshed state row.
RiskStillAllows(at) == ~CoolingDown(st, at)

\* The simulated fill of the entry.
ScanFill ==
    LET t == scan.trade
    IN  /\ scan.pc = "manage"
        /\ Pending(trade[t])
        /\ ~Expired(t, scan.at) /\ ~EntriesPaused
        /\ scan.at >= Delayed(t)
        /\ RiskStillAllows(scan.at)
        /\ Executable(scan.at, Delayed(t))
        /\ trade' = [trade EXCEPT ![t].status = "open", ![t].opened = scan.at]
        /\ slot' = IF slot = None THEN slot
                   ELSE [slot EXCEPT !.status = "active"]
        /\ scan' = IdleScan
        /\ UNCHANGED <<now, book, cfg, st, run, midClose, admin, pause>>

\* evaluate_open_trade on a filled position: TP, SL, an experiment's exit or
\* a close requested earlier.
ScanExit ==
    /\ scan.pc = "manage"
    /\ trade[scan.trade].status = "open"
    /\ CloseTrade("scanner", scan.trade, scan.at, st)
    /\ scan' = IdleScan
    /\ UNCHANGED <<now, book, admin, pause>>

\* Still waiting, held, or closed by somebody else in the meantime.  An entry
\* that must be cancelled does not wait.
ScanHold ==
    /\ scan.pc = "manage"
    /\ ~(/\ Pending(trade[scan.trade])
         /\ Expired(scan.trade, scan.at) \/ EntriesPaused)
    /\ scan' = IdleScan
    /\ UNCHANGED <<now, book, db, midClose, admin, pause>>

(***************************************************************************)
(* The worker: reconcile_existing_positions                                *)
(***************************************************************************)
WorkerIdle == midClose["worker"].trade = NoTrade

\* Faulty variant of Managed: a pause suspends the positions as well.
ManagedWhileEnabled(t) == cfg.enabled /\ trade[t].status = "open" /\ ~trade[t].legacy
\* Management does not depend on the entry gates.
Managed(t) == trade[t].status = "open" /\ ~trade[t].legacy

\* A protective exit the market calls for.
WorkerExit(t) ==
    /\ WorkerIdle /\ Managed(t)
    /\ trade[t].closeReq = None
    /\ ValidBook(now)
    /\ CloseTrade("worker", t, now, st)
    /\ UNCHANGED <<now, book, scan, admin, pause>>

\* A close already requested is retried on every pass.
WorkerFinish(t) ==
    /\ WorkerIdle /\ Managed(t)
    /\ trade[t].closeReq # None
    /\ ValidBook(now)
    /\ CloseTrade("worker", t, now, st)
    /\ UNCHANGED <<now, book, scan, admin, pause>>

WorkerCancelPending(t) ==
    /\ WorkerIdle
    /\ Pending(trade[t])
    /\ ~cfg.enabled \/ cfg.block \/ Expired(t, now)
    /\ Cancel(t, now)
    /\ UNCHANGED <<now, book, cfg, st, run, scan, midClose, admin, pause>>

(***************************************************************************)
(* Requests under the configuration lock                                   *)
(***************************************************************************)
Start ==
    LET fresh == ~cfg.session /\ OpenTrades = {}
        ladder == IF fresh THEN NewLadder(st) ELSE st
    IN  /\ "start" \in Issued[latency]
        /\ ~cfg.block
        /\ ~(cfg.enabled /\ ~st.stopped /\ run)     \* else: already running
        /\ fresh => slot = None
        /\ cfg' = [cfg EXCEPT !.enabled = TRUE, !.session = @ \/ fresh]
        /\ st' = [ladder EXCEPT !.stopped = FALSE, !.reason = "none"]
        /\ run' = TRUE
        /\ pause' = "none"
        /\ UNCHANGED <<now, book, trade, slot, scan, midClose, admin>>

Stop ==
    /\ "stop" \in Issued[latency]
    /\ cfg' = [cfg EXCEPT !.enabled = FALSE]
    /\ st' = [st EXCEPT !.stopped = TRUE, !.reason = "manual_stop"]
    /\ run' = FALSE
    /\ CancelAllPending
    /\ pause' = "held"
    /\ UNCHANGED <<now, book, scan, midClose, admin>>

\* update_config with the two gates; None is a key the body does not carry.
Patch(enabled, block) ==
    LET gate == IF block = None THEN cfg.block ELSE block
        changed == gate # cfg.block
        switch == IF enabled = None THEN cfg.enabled ELSE enabled
    IN  /\ "patch" \in Issued[latency]
        /\ cfg' = [cfg EXCEPT !.block = gate,
                              !.enabled = switch /\ ~changed /\ ~gate]
        /\ st' = IF changed
                 THEN [st EXCEPT !.stopped = TRUE,
                                 !.reason = IF gate THEN "emergency_entry_block"
                                            ELSE "manual_stop"]
                 ELSE st
        /\ IF gate THEN CancelAllPending ELSE UNCHANGED <<trade, slot>>
        /\ pause' = IF changed \/ gate THEN "held"
                    ELSE IF enabled = TRUE THEN "none" ELSE pause
        /\ UNCHANGED <<now, book, run, scan, midClose, admin>>

NewSession ==
    /\ "session" \in Issued[latency]
    /\ ~cfg.enabled /\ OpenTrades = {} /\ slot = None
    /\ cfg' = [cfg EXCEPT !.session = TRUE]
    /\ st' = [NewLadder(st) EXCEPT !.stopped = TRUE, !.reason = "manual_stop"]
    /\ UNCHANGED <<now, book, run, trade, slot, scan, midClose, admin, pause>>

\* abandon_legacy_paper: only an open row without execution evidence, only
\* while entries are paused; the prices and fees stay as they were.
Abandon(t) ==
    /\ "abandon" \in Issued[latency]
    /\ trade[t].legacy /\ trade[t].status = "open"
    /\ ~cfg.enabled
    /\ trade' = [trade EXCEPT ![t].status = "paper_abandoned",
                              ![t].closeReq = None, ![t].result = "abandoned"]
    /\ slot' = Release(t)
    /\ UNCHANGED <<now, book, cfg, st, run, scan, midClose, admin, pause>>

(***************************************************************************)
(* Requests that work on a state row loaded before any lock                *)
(***************************************************************************)
AdminIdle == admin.op = "idle" /\ midClose["http"].trade = NoTrade

ResetLoad ==
    /\ AdminIdle /\ OpenTrades = {}
    /\ \E op \in Issued[latency] \cap {"reset", "margin"} :
          admin' = [op |-> op, trade |-> NoTrade, st |-> st]
    /\ UNCHANGED <<now, book, db, scan, midClose, pause>>

\* reset_recovery and set_current_margin take no lock at all.
ResetRecovery ==
    LET restart == [ClearMarginPause(admin.st) EXCEPT !.losses = 0, !.last = "none"]
    IN  /\ admin.op = "reset"
        /\ st' = Flush(admin.st, restart, st)
        /\ admin' = IdleAdmin
        /\ UNCHANGED <<now, book, cfg, run, trade, slot, scan, midClose, pause>>

SetCurrentMargin ==
    LET override == [Running(admin.st) EXCEPT !.reason = "manual_margin_override",
                                              !.losses = 0, !.last = "none"]
    IN  /\ admin.op = "margin"
        /\ st' = Flush(admin.st, override, st)
        /\ admin' = IdleAdmin
        /\ UNCHANGED <<now, book, cfg, run, trade, slot, scan, midClose, pause>>

\* close_manual loads the state row first and takes the lock afterwards.
CloseLoad(t) ==
    /\ "close" \in Issued[latency] /\ AdminIdle
    /\ Exposed(t) /\ ~trade[t].legacy
    /\ admin' = [op |-> "close", trade |-> t, st |-> st]
    /\ UNCHANGED <<now, book, db, scan, midClose, pause>>

CloseManual ==
    LET t == admin.trade
    IN  /\ admin.op = "close"
        /\ admin' = IdleAdmin
        /\ \/ /\ Pending(trade[t])
              /\ Cancel(t, now)
              /\ UNCHANGED <<cfg, st, run, midClose>>
           \/ /\ trade[t].status = "open"
              /\ CloseTrade("http", t, now, admin.st)
           \/ /\ ~Exposed(t) \/ (~Pending(trade[t]) /\ trade[t].closeReq # None)
              /\ UNCHANGED <<db, midClose>>
        /\ UNCHANGED <<now, book, scan, pause>>

(***************************************************************************)
(* The environment                                                         *)
(***************************************************************************)
Tick ==
    /\ now < MaxTime
    /\ now' = now + 1
    /\ UNCHANGED <<book, db, scan, midClose, admin, pause>>

\* The feed stores another book; the exchange clock may run ahead.
Quote ==
    /\ \/ \E src \in now..now + 1, kind \in {"thin", "deep"} :
             book' = [src |-> src, kind |-> kind]
       \/ book' = NoBook
    /\ UNCHANGED <<now, db, scan, midClose, admin, pause>>

\* The process dies between two transactions.
Restart ==
    /\ "restart" \in Issued[latency]
    /\ scan' = IdleScan
    /\ midClose' = [th \in Closers |-> NotClosing]
    /\ admin' = IdleAdmin
    /\ UNCHANGED <<now, book, db, pause>>

-----------------------------------------------------------------------------
LegacyRow == [AbsentRow EXCEPT !.status = "open", !.legacy = TRUE]

\* A new database blocks entries; the other initial state is the one after
\* the PATCH that clears the gate.  A database may hold a streak of losses, and one
\* older than execution_config_json a position, with or without a slot.
Init ==
    /\ now = 0
    /\ book = NoBook
    /\ \E block \in BOOLEAN, losses \in 0..(MaxLosses - 1) :
          /\ cfg = [enabled |-> FALSE, block |-> block, session |-> FALSE]
          /\ st = [stopped |-> ~block, until |-> None, losses |-> losses,
                   last |-> IF losses = 0 THEN "none" ELSE "loss",
                   reason |-> IF block THEN "none" ELSE "manual_stop",
                   closed |-> IF losses = 0 THEN None ELSE now]
          /\ pause = IF block THEN "none" ELSE "held"
    /\ run = FALSE
    /\ \E old \in {{}, LegacyRows} :
          /\ trade = [t \in Trades |-> IF t \in old THEN LegacyRow ELSE AbsentRow]
          /\ slot \in {None} \cup {[trade |-> t, status |-> "active"] : t \in old}
    /\ latency \in DOMAIN Issued
    /\ scan = IdleScan
    /\ midClose = [th \in Closers |-> NotClosing]
    /\ admin = IdleAdmin

Scanner ==
    \/ ScanLoadConfig \/ ScanLoadState \/ ScanResume
    \/ ScanManage \/ ScanSignal \/ ScanNothing
    \/ ScanReserve \/ ScanReserveRejected
    \/ ScanCancelPending \/ ScanFill \/ ScanExit \/ ScanHold

Worker == \E t \in Trades : WorkerExit(t) \/ WorkerFinish(t) \/ WorkerCancelPending(t)

Request ==
    \/ Start \/ Stop \/ NewSession
    \/ \E enabled, block \in BOOLEAN \cup {None} : Patch(enabled, block)
    \/ \E t \in Trades : Abandon(t) \/ CloseLoad(t)
    \/ ResetLoad \/ ResetRecovery \/ SetCurrentMargin \/ CloseManual

Next ==
    /\ \/ Scanner \/ Worker \/ Request
       \/ \E th \in Closers : FillAfterRequest(th)
       \/ Tick \/ Quote \/ Restart
    /\ UNCHANGED latency

Spec == Init /\ [][Next]_vars

\* The clock runs, and the scanner's cycle starts the worker again every five
\* seconds whatever the books and the entry gates say.
Fairness ==
    /\ WF_moving(Tick)
    /\ \A t \in Trades : /\ WF_moving(WorkerFinish(t))
                          /\ WF_moving(WorkerCancelPending(t))
    /\ \A th \in Closers : WF_moving(FillAfterRequest(th))

FairSpec == Spec /\ Fairness

(***************************************************************************)
(* Properties                                                              *)
(***************************************************************************)
\* The variables stay in their types.
TypeOK ==
    /\ now \in Time
    /\ book \in Book
    /\ cfg \in Config
    /\ st \in State
    /\ run \in BOOLEAN
    /\ trade \in [Trades -> Row]
    /\ slot \in Slot \cup {None}
    /\ scan \in [pc: {"idle", "config", "loaded", "resumed", "manage", "reserve"},
                 at: Time \cup {None}, cfg: Config \cup {None},
                 st: State \cup {None}, trade: Trades \cup {NoTrade}]
    /\ midClose \in [Closers -> [trade: Trades \cup {NoTrade}, at: Time \cup {None},
                              st: State \cup {None}]]
    /\ admin \in [op: {"idle", "reset", "margin", "close"},
                  trade: Trades \cup {NoTrade}, st: State \cup {None}]
    /\ pause \in {"none", "held", "undone"}

\* The slot row and the trades agree: every position the strategy can manage
\* owns the one slot, with the status of its phase, and the slot never names a
\* trade that is over.  close_trade deletes the slot without looking at whose
\* it is, and the dead branch of open_position relies on the second half.
SlotOwnership ==
    /\ \A t \in Trades : Exposed(t) /\ ~trade[t].legacy =>
          /\ slot # None
          /\ slot.trade = t
          /\ slot.status = IF Pending(trade[t]) THEN "paper_pending" ELSE "active"
    /\ slot # None => Exposed(slot.trade)

\* However scanner, worker and requests interleave, two rows are never open at
\* once, a legacy row without a slot included.
AtMostOneExposure == \A t, u \in Trades : Exposed(t) /\ Exposed(u) => t = u

\* While the operator's Stop or gate change stands, entries are disabled and
\* nothing waits to be filled.
PauseHolds == pause = "held" => ~cfg.enabled /\ \A t \in Trades : ~Pending(trade[t])

\* A streak that reached its limit has always turned into a pause: the counter
\* never rests at or above max_consecutive_losses.
StreakBelowLimit == st.losses < MaxLosses

Over(t) == trade[t].status \in {"paper_cancelled", "closed", "paper_abandoned"}

\* A row that is over never changes again: no stale scanner, worker or request
\* reopens it, fills it twice or rewrites its outcome.
TerminalFrozen == [][\A t \in Trades : Over(t) => trade'[t] = trade[t]]_vars

Closings == {t \in Trades : trade[t].status = "open" /\ trade'[t].status = "closed"}

\* The image a thread in the middle of closing t would book the outcome on is the
\* row as it is.
ImageCurrent(t) ==
    /\ \A th \in Closers : midClose[th].trade = t => midClose[th].st = st
    /\ admin.op = "close" /\ admin.trade = t => admin.st = st

\* The ladder moves on an outcome exactly once: a longer loss streak or another
\* last_closed_at only ever comes with the one step that closes a trade, never
\* with a second closer, a reset, an override or a stale UPDATE.  And no loss goes
\* unnoticed: it leaves a streak or disabled entries behind, whatever image the
\* closer works on; and while entries are enabled and nobody has written the row
\* since that image was loaded, it lengthens the streak by one or starts the pause.
OutcomeOnce ==
    [][/\ st'.losses > st.losses => Cardinality(Closings) = 1
       /\ st'.closed # st.closed => st'.closed = None \/ Cardinality(Closings) = 1
       /\ \A t \in Closings : trade'[t].result = "loss" =>
             /\ st'.losses > 0 \/ ~cfg'.enabled
             /\ cfg.enabled /\ ImageCurrent(t) =>
                   \/ st'.losses = st.losses + 1
                   \/ st'.losses = 0 /\ st'.reason = MaxRecoveryPause]_vars

Filled(t) == Pending(trade[t]) /\ trade'[t].status = "open"

\* The rows implement SlotContract, where entries are allowed as the rows say at the
\* moment of the step: one trade at a time is reserved, and nothing is reserved or
\* filled while entries are disabled, stopped or gated, however old the images are on
\* which a thread decided; what is over is never reopened.
PhaseOf(row) ==
    CASE row.status = "absent" -> "free"
      [] row.status = "paper_pending" -> "reserved"
      [] row.status = "open" -> "held"
      [] OTHER -> "over"

Contract == INSTANCE SlotContract WITH
    phase <- [t \in Trades |-> PhaseOf(trade[t])],
    entries <- cfg.enabled /\ ~st.stopped /\ ~cfg.block

KeepsContract == Contract!ContractSpec

\* Between a losing trade and the fill of any later one lies the cool-down, or the
\* recovery pause when that is shorter and the loss reached the limit, as the two
\* rows themselves tell: whatever state row the scanner had loaded when it decided
\* (before the loss was booked, or before a resume rewrote it), and whoever closed
\* the losing trade in the meantime.  A new session, a reset and a margin override
\* forget the loss on purpose; a run of this property issues none of them.
Rest == IF CoolLoss < PauseFor THEN CoolLoss ELSE PauseFor
EntryRestsAfterLoss ==
    \A t, u \in Trades :
        t < u /\ trade[t].result = "loss" /\ trade[u].status \in {"open", "closed"}
            => trade[u].opened >= trade[t].closedAt + Rest

\* Simulated fills never look ahead: the book of an entry or exit was formed
\* after the latency had passed and not after the time booked for the fill.
NoLookAhead ==
    [][\A t \in Trades :
         /\ Filled(t) => /\ book.src <= trade'[t].opened
                         /\ latency > 0 => book.src >= trade[t].opened + latency
         /\ ~Over(t) /\ trade'[t].status = "closed" =>
               /\ book.src <= trade'[t].closedAt
               /\ latency > 0 => book.src >= trade[t].closeReq + latency]_vars

\* A pending entry whose time to live ends within the modelled clock does not
\* stay pending, even if the scanner never comes back to it.
PendingResolves ==
    \A t \in Trades : (Pending(trade[t]) /\ trade[t].opened + TTL <= MaxTime)
                          ~> ~Pending(trade[t])

\* A requested close is not left waiting for ever beside a book it could be
\* filled with: the worker finishes it even while entries are paused and when the
\* process, with the evaluation it was in the middle of, dies again and again.
CloseFinishes ==
    \A t \in Trades :
        []<>~(/\ trade[t].status = "open" /\ trade[t].closeReq # None
              /\ now >= trade[t].closeReq + latency
              /\ Executable(now, trade[t].closeReq + latency))

\* "Changing an emergency gate never implicitly starts entries": after Stop or
\* a gate change, only Start or PATCH enables entries again.
PauseNeverUndone == pause # "undone"

\* A loss streak that reaches the limit leaves the strategy stopped: whenever
\* the reason is the recovery pause, is_stopped says so.
RecoveryPauseStops == st.reason = MaxRecoveryPause => st.stopped
=============================================================================
