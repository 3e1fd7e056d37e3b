------------------------ MODULE PaperLifecycleProofs ------------------------
(***************************************************************************)
(* Proofs about PaperLifecycle for every value of its constants: first its *)
(* types and the clocks of its entries, then that it implements            *)
(* SlotContract, then the rest of its safety properties.                   *)
(***************************************************************************)
EXTENDS PaperLifecycle, FiniteSetTheorems, TLAPS

LEMMA RunningType ==
    ASSUME NEW s \in State PROVE Running(s) \in State
BY RulesAssumption DEF Running, State, Reasons

LEMMA ClearType ==
    ASSUME NEW s \in State PROVE ClearMarginPause(s) \in State
BY RunningType DEF ClearMarginPause

LEMMA LadderType ==
    ASSUME NEW s \in State PROVE NewLadder(s) \in State
BY DEF NewLadder, State, Results

LEMMA ResumedType ==
    ASSUME NEW s \in State PROVE Resumed(s) \in State
BY RunningType DEF Resumed, State, Results

LEMMA AfterCloseType ==
    ASSUME NEW s \in State, NEW result \in {"win", "loss"}, NEW at \in Time
    PROVE  AfterClose(s, result, at) \in State
<1>1. PICK b \in State : b = [s EXCEPT !.last = result, !.closed = at]
  BY DEF State, Results
<1>2. [Running(b) EXCEPT !.losses = 0] \in State
  BY RunningType DEF State
<1>3. at + PauseFor \in Nat
  BY RulesAssumption, LifecycleAssumption DEF Time
<1>4. [b EXCEPT !.losses = 0, !.stopped = TRUE, !.reason = MaxRecoveryPause,
                !.until = at + PauseFor] \in State
  BY <1>3 DEF State, Reasons
<1>5. [b EXCEPT !.losses = @ + 1] \in State
  BY DEF State
<1> QED
  BY <1>1, <1>2, <1>4, <1>5 DEF AfterClose

LEMMA RecoveryImageType ==
    ASSUME NEW s \in State, NEW result \in {"win", "loss"}, NEW at \in Time
    PROVE  RecoveryImage(s, result, at) \in State
<1>1. AfterClose(s, result, at) \in State
  BY AfterCloseType
<1> QED
  BY <1>1 DEF RecoveryImage, State

LEMMA FlushType ==
    ASSUME NEW loaded \in State, NEW target \in State, NEW row \in State
    PROVE  Flush(loaded, target, row) \in State
BY DEF Flush, State

LEMMA FlushConfigType ==
    ASSUME NEW loaded \in Config, NEW target \in Config, NEW row \in Config
    PROVE  Flush(loaded, target, row) \in Config
BY DEF Flush, Config

-----------------------------------------------------------------------------
\* What a thread holds in memory is complete for the point it has reached.
LocalsOK ==
    /\ scan.pc \in {"config", "loaded"} => scan.cfg \in Config
    /\ scan.pc = "loaded" => scan.st \in State
    /\ scan.pc \in {"loaded", "resumed", "manage", "reserve"} => scan.at \in Time
    /\ scan.pc = "manage" => scan.trade \in Trades
    /\ \A th \in Closers : midClose[th].trade # NoTrade =>
           midClose[th].at \in Time /\ midClose[th].st \in State
    /\ admin.op # "idle" => admin.st \in State
    /\ admin.op = "close" => admin.trade \in Trades

MidClose == [Closers -> [trade: Trades \cup {NoTrade}, at: Time \cup {None},
                         st: State \cup {None}]]

TypeInv == TypeOK /\ LocalsOK

LEMMA CancelledRowType ==
    ASSUME NEW r \in Row, NEW at \in Time PROVE CancelledRow(r, at) \in Row
BY DEF CancelledRow, Row, Statuses

LEMMA ClosedRowType ==
    ASSUME NEW r \in Row, NEW at \in Time, NEW result \in {"win", "loss"}
    PROVE  [r EXCEPT !.status = "closed", !.closedAt = at, !.result = result] \in Row
BY DEF Row, Statuses

LEMMA FilledRowType ==
    ASSUME NEW r \in Row, NEW at \in Time
    PROVE  [r EXCEPT !.status = "open", !.opened = at] \in Row
BY DEF Row, Statuses

LEMMA AbandonedRowType ==
    ASSUME NEW r \in Row
    PROVE  [r EXCEPT !.status = "paper_abandoned", !.closeReq = None,
                     !.result = "abandoned"] \in Row
BY DEF Row, Statuses

LEMMA CancelType ==
    ASSUME TypeOK, NEW t \in Trades, NEW at \in Time, Cancel(t, at)
    PROVE  trade' \in [Trades -> Row] /\ slot' \in Slot \cup {None}
<1>1. CancelledRow(trade[t], at) \in Row
  BY CancelledRowType DEF TypeOK
<1> QED
  BY <1>1 DEF TypeOK, Cancel, Release

LEMMA CancelAllType ==
    ASSUME TypeOK, CancelAllPending
    PROVE  trade' \in [Trades -> Row] /\ slot' \in Slot \cup {None}
<1>1. now \in Time /\ trade \in [Trades -> Row]
  BY DEF TypeOK
<1>2. \A t \in Trades : CancelledRow(trade[t], now) \in Row
  BY <1>1, CancelledRowType
<1>3. trade' \in [Trades -> Row]
  BY <1>1, <1>2 DEF CancelAllPending
<1> QED
  BY <1>3 DEF TypeOK, CancelAllPending

LEMMA BookExitType ==
    ASSUME TypeOK, NEW t \in Trades, NEW at \in Time, NEW loaded \in State,
           NEW result \in {"win", "loss"}, BookExit(t, result, at, loaded)
    PROVE  /\ trade' \in [Trades -> Row] /\ st' \in State /\ cfg' \in Config
           /\ run' \in BOOLEAN /\ slot' \in Slot \cup {None}
<1>1. PICK r \in Row : r = [trade[t] EXCEPT !.status = "closed", !.closedAt = at,
                                            !.result = result]
  BY ClosedRowType DEF TypeOK
<1>5. trade' = [trade EXCEPT ![t] = r]
  BY <1>1 DEF TypeOK, BookExit
<1>2. st' \in State
  BY RecoveryImageType, FlushType DEF TypeOK, BookExit
<1>3. cfg' \in Config
  BY DEF TypeOK, BookExit, Config
<1>4. run' \in BOOLEAN
  BY DEF TypeOK, BookExit
<1> QED
  BY <1>1, <1>2, <1>3, <1>4, <1>5 DEF BookExit, TypeOK

LEMMA CloseTradeType ==
    ASSUME TypeInv, NEW th \in Closers, NEW t \in Trades, NEW at \in Time,
           NEW loaded \in State, CloseTrade(th, t, at, loaded)
    PROVE  /\ trade' \in [Trades -> Row] /\ st' \in State /\ cfg' \in Config
           /\ run' \in BOOLEAN /\ slot' \in Slot \cup {None}
           /\ midClose' \in MidClose
           /\ \A c \in Closers : midClose'[c].trade # NoTrade =>
              midClose'[c].at \in Time /\ midClose'[c].st \in State
<1> USE DEF TypeInv
<1>1. CASE trade[t].closeReq = None
  <2>1. trade' = [trade EXCEPT ![t].closeReq = at] /\ UNCHANGED <<cfg, st, run, slot>>
    BY <1>1 DEF CloseTrade
  <2>2. trade' \in [Trades -> Row]
    BY <2>1, SMTT(30) DEF TypeOK, Row
  <2>3. midClose' = midClose \/ midClose' = [midClose EXCEPT ![th] = [trade |-> t, at |-> at, st |-> loaded]]
    BY <1>1 DEF CloseTrade
  <2> QED
    BY <2>1, <2>2, <2>3 DEF TypeOK, LocalsOK, MidClose
<1>2. CASE trade[t].closeReq # None
  <2>1. FillExit(t, at, loaded) /\ UNCHANGED midClose
    BY <1>2 DEF CloseTrade
  <2>2. PICK result \in {"win", "loss"} : BookExit(t, result, at, loaded)
    BY <2>1 DEF FillExit
  <2> QED
    BY <2>1, <2>2, BookExitType DEF TypeOK, LocalsOK, MidClose
<1> QED
  BY <1>1, <1>2

LEMMA TypeInit == Init => TypeInv
<1> SUFFICES ASSUME Init PROVE TypeInv
  OBVIOUS
<1>1. now \in Time
  BY LifecycleAssumption DEF Init, Time
<1>2. cfg \in Config /\ run \in BOOLEAN
  <2>1. PICK block \in BOOLEAN :
           cfg = [enabled |-> FALSE, block |-> block, session |-> FALSE]
    BY DEF Init
  <2> QED
    BY <2>1 DEF Init, Config
<1>3. book \in Book
  BY DEF Init, Book, NoBook
<1>4. st \in State
  <2>1. PICK block \in BOOLEAN, losses \in 0..(MaxLosses - 1) :
           st = [stopped |-> ~block, until |-> None, losses |-> losses,
                 last |-> IF losses = 0 THEN "none" ELSE "loss",
                 reason |-> IF block THEN "none" ELSE "manual_stop",
                 closed |-> IF losses = 0 THEN None ELSE now]
    BY DEF Init
  <2>2. losses \in Nat
    BY RulesAssumption
  <2>3. (IF losses = 0 THEN None ELSE now) \in Time \cup {None}
    BY <1>1
  <2> QED
    BY <2>1, <2>2, <2>3 DEF State, Reasons, Results
<1>5. trade \in [Trades -> Row]
  <2>1. LegacyRow \in Row /\ AbsentRow \in Row
    BY LifecycleAssumption DEF LegacyRow, AbsentRow, Row, Statuses, Time
  <2> QED
    BY <2>1 DEF Init
<1>6. slot \in Slot \cup {None}
  BY LifecycleAssumption DEF Init, Slot, Trades
<1>7. scan = IdleScan /\ midClose = [th \in Closers |-> NotClosing] /\ admin = IdleAdmin
      /\ pause \in {"none", "held", "undone"}
  BY DEF Init
<1> QED
  BY <1>1, <1>2, <1>3, <1>4, <1>5, <1>6, <1>7 DEF TypeInv, TypeOK, LocalsOK, IdleScan, NotClosing, IdleAdmin, NoTrade

\* The steps of the scanner's program counter that leave the rows alone.
LEMMA ScanReadType ==
    ASSUME TypeInv, ScanLoadConfig \/ ScanLoadState \/ ScanManage \/ ScanSignal
                    \/ ScanNothing \/ ScanReserveRejected \/ ScanHold
    PROVE  TypeInv'
<1> USE DEF TypeInv
<1>1. CASE ScanLoadConfig
  BY <1>1 DEF ScanLoadConfig, TypeOK, LocalsOK, db
<1>2. CASE ScanLoadState
  BY <1>2 DEF ScanLoadState, TypeOK, LocalsOK, db
<1>3. CASE ScanManage
  <2>1. scan.pc \in {"loaded", "resumed"}
    BY <1>3 DEF ScanManage, Decided
  <2> QED
    BY <1>3, <2>1, ZenonT(30) DEF ScanManage, IdleScan, TypeOK, LocalsOK, db
<1>4. CASE ScanSignal
  <2>1. scan.pc \in {"loaded", "resumed"}
    BY <1>4 DEF ScanSignal, Decided
  <2> QED
    BY <1>4, <2>1 DEF ScanSignal, IdleScan, TypeOK, LocalsOK, db
<1>5. CASE ScanNothing \/ ScanReserveRejected \/ ScanHold
  BY <1>5 DEF ScanNothing, ScanReserveRejected, ScanHold, IdleScan, NoTrade,
              TypeOK, LocalsOK, db
<1> QED
  BY <1>1, <1>2, <1>3, <1>4, <1>5

LEMMA ScanWriteType ==
    ASSUME TypeInv, ScanResume \/ ScanReserve \/ ScanCancelPending \/ ScanFill \/ ScanExit
    PROVE  TypeInv'
<1> USE DEF TypeInv
<1>1. CASE ScanResume
  <2>1. scan.st \in State /\ scan.cfg \in Config /\ scan.pc = "loaded"
    BY <1>1 DEF ScanResume, LocalsOK
  <2>2. st' \in State
    BY <1>1, <2>1, ResumedType, FlushType DEF ScanResume, TypeOK
  <2>3. [scan.cfg EXCEPT !.enabled = TRUE] \in Config
    BY <2>1 DEF Config
  <2>4. cfg' \in Config
    BY <1>1, <2>1, <2>3, FlushConfigType DEF ScanResume, TypeOK
  <2> QED
    <3>1. scan' = [scan EXCEPT !.pc = "resumed",
                              !.cfg = [scan.cfg EXCEPT !.enabled = TRUE],
                              !.st = Resumed(scan.st)]
      BY <1>1 DEF ScanResume
    <3>2. Resumed(scan.st) \in State
      BY <2>1, ResumedType
    <3> QED
      BY <1>1, <2>1, <2>2, <2>3, <2>4, <3>1, <3>2 DEF ScanResume, TypeOK, LocalsOK
<1>2. CASE ScanReserve
  <2>1. scan.at \in Time
    BY <1>2 DEF ScanReserve, LocalsOK
  <2>2. [AbsentRow EXCEPT !.status = "paper_pending", !.opened = scan.at] \in Row
    BY <2>1 DEF AbsentRow, Row, Statuses
  <2>3. trade' \in [Trades -> Row] /\ slot' \in Slot
    BY <1>2, <2>2 DEF ScanReserve, TypeOK, Slot
  <2>4. cfg' \in Config /\ st' \in State
    BY <1>2, LadderType DEF ScanReserve, TypeOK, Config
  <2> QED
    BY <1>2, <2>3, <2>4 DEF ScanReserve, IdleScan, TypeOK, LocalsOK
<1>3. CASE ScanCancelPending
  <2>1. scan.trade \in Trades /\ scan.at \in Time
    BY <1>3 DEF ScanCancelPending, LocalsOK
  <2>2. trade' \in [Trades -> Row] /\ slot' \in Slot \cup {None}
    BY <1>3, <2>1, CancelType DEF ScanCancelPending
  <2> QED
    BY <1>3, <2>2 DEF ScanCancelPending, IdleScan, TypeOK, LocalsOK
<1>4. CASE ScanFill
  <2>1. scan.trade \in Trades /\ scan.at \in Time
    BY <1>4 DEF ScanFill, LocalsOK
  <2>2. trade' \in [Trades -> Row]
    <3>1. PICK r \in Row :
             r = [trade[scan.trade] EXCEPT !.status = "open", !.opened = scan.at]
      BY <2>1, FilledRowType DEF TypeOK
    <3> QED
      BY <1>4, <2>1, <3>1 DEF ScanFill, TypeOK
  <2>3. slot' \in Slot \cup {None}
    BY <1>4 DEF ScanFill, TypeOK, Slot
  <2> QED
    BY <1>4, <2>2, <2>3 DEF ScanFill, IdleScan, TypeOK, LocalsOK
<1>5. CASE ScanExit
  <2>1. scan.trade \in Trades /\ scan.at \in Time /\ st \in State /\ "scanner" \in Closers
    BY <1>5 DEF ScanExit, LocalsOK, TypeOK, Closers
  <2>2. CloseTrade("scanner", scan.trade, scan.at, st)
    BY <1>5 DEF ScanExit
  <2> QED
    BY <1>5, <2>1, <2>2, CloseTradeType DEF MidClose, ScanExit, IdleScan, TypeOK, LocalsOK
<1> QED
  BY <1>1, <1>2, <1>3, <1>4, <1>5

LEMMA WorkerType ==
    ASSUME TypeInv, NEW t \in Trades,
           WorkerExit(t) \/ WorkerFinish(t) \/ WorkerCancelPending(t)
    PROVE  TypeInv'
<1> USE DEF TypeInv
<1>1. now \in Time /\ st \in State /\ "worker" \in Closers
  BY DEF TypeOK, Closers
<1>2. CASE WorkerExit(t) \/ WorkerFinish(t)
  <2>1. CloseTrade("worker", t, now, st)
    BY <1>2 DEF WorkerExit, WorkerFinish
  <2> QED
    BY <1>1, <1>2, <2>1, CloseTradeType DEF MidClose, WorkerExit, WorkerFinish, TypeOK, LocalsOK
<1>3. CASE WorkerCancelPending(t)
  BY <1>1, <1>3, CancelType DEF WorkerCancelPending, TypeOK, LocalsOK
<1> QED
  BY <1>2, <1>3

LEMMA FillAfterRequestType ==
    ASSUME TypeInv, NEW th \in Closers, FillAfterRequest(th)
    PROVE  TypeInv'
<1> USE DEF TypeInv
<1> DEFINE t == midClose[th].trade
           at == midClose[th].at
           loaded == midClose[th].st
<1>1. t \in Trades /\ at \in Time /\ loaded \in State
  BY DEF FillAfterRequest, MidClose, TypeOK, LocalsOK
<1>2. /\ midClose' \in MidClose
      /\ \A c \in Closers : midClose'[c].trade # NoTrade =>
              midClose'[c].at \in Time /\ midClose'[c].st \in State
  BY DEF FillAfterRequest, NotClosing, MidClose, TypeOK, LocalsOK
<1>3. CASE FillExit(t, at, loaded)
  <2>1. PICK result \in {"win", "loss"} : BookExit(t, result, at, loaded)
    BY <1>3 DEF FillExit
  <2> QED
    BY <1>1, <1>2, <2>1, BookExitType DEF FillAfterRequest, MidClose, TypeOK, LocalsOK
<1>4. CASE UNCHANGED db
  BY <1>2, <1>4 DEF FillAfterRequest, MidClose, TypeOK, LocalsOK, db
<1> QED
  BY <1>3, <1>4 DEF FillAfterRequest

LEMMA LockedRequestType ==
    ASSUME TypeInv,
           \/ Start \/ Stop \/ NewSession
           \/ \E enabled, block \in BOOLEAN \cup {None} : Patch(enabled, block)
           \/ \E t \in Trades : Abandon(t)
    PROVE  TypeInv'
<1> USE DEF TypeInv
<1>1. CASE Start
  <2>1. st' \in State
    BY <1>1, LadderType DEF Start, TypeOK, State, Reasons
  <2>2. cfg' \in Config
    BY <1>1 DEF Start, TypeOK, Config
  <2>3. run' = TRUE /\ pause' = "none"
        /\ UNCHANGED <<now, book, trade, slot, scan, midClose, admin>>
    BY <1>1 DEF Start
  <2> QED
    BY <2>1, <2>2, <2>3 DEF TypeOK, LocalsOK
<1>2. CASE Stop
  <2>1. st' \in State /\ cfg' \in Config
    BY <1>2 DEF Stop, TypeOK, State, Reasons, Config
  <2> QED
    BY <1>2, <2>1, CancelAllType, ZenonT(30) DEF Stop, TypeOK, LocalsOK
<1>3. CASE NewSession
  <2>1. st' \in State /\ cfg' \in Config
    BY <1>3, LadderType DEF NewSession, TypeOK, State, Reasons, Config
  <2> QED
    BY <1>3, <2>1 DEF NewSession, TypeOK, LocalsOK
<1>4. ASSUME NEW enabled \in BOOLEAN \cup {None}, NEW block \in BOOLEAN \cup {None},
             Patch(enabled, block)
      PROVE  TypeInv'
  <2>1. trade' \in [Trades -> Row] /\ slot' \in Slot \cup {None}
    BY <1>4, CancelAllType DEF Patch, TypeOK
  <2>2. st' \in State
    BY <1>4 DEF Patch, TypeOK, State, Reasons
  <2>3. cfg' \in Config
    BY <1>4 DEF Patch, TypeOK, Config
  <2>4. pause' \in {"none", "held", "undone"}
    BY <1>4 DEF Patch, TypeOK
  <2> QED
    BY <1>4, <2>1, <2>2, <2>3, <2>4, ZenonT(30) DEF Patch, TypeOK, LocalsOK
<1>5. ASSUME NEW t \in Trades, Abandon(t) PROVE TypeInv'
  <2>1. trade' \in [Trades -> Row]
    <3>1. PICK r \in Row :
             r = [trade[t] EXCEPT !.status = "paper_abandoned", !.closeReq = None,
                                  !.result = "abandoned"]
      BY AbandonedRowType DEF TypeOK
    <3> QED
      BY <1>5, <3>1 DEF Abandon, TypeOK
  <2>2. slot' \in Slot \cup {None}
    BY <1>5 DEF Abandon, Release, TypeOK
  <2>3. UNCHANGED <<now, book, cfg, st, run, scan, midClose, admin, pause>>
    BY <1>5 DEF Abandon
  <2> QED
    BY <2>1, <2>2, <2>3 DEF TypeOK, LocalsOK
<1> QED
  BY <1>1, <1>2, <1>3, <1>4, <1>5

LEMMA LoadedRequestType ==
    ASSUME TypeInv,
           \/ ResetLoad \/ ResetRecovery \/ SetCurrentMargin \/ CloseManual
           \/ \E t \in Trades : CloseLoad(t)
    PROVE  TypeInv'
<1> USE DEF TypeInv
<1>1. CASE ResetLoad
  BY <1>1 DEF ResetLoad, TypeOK, LocalsOK, db
<1>2. CASE ResetRecovery
  <2>1. admin.st \in State /\ st \in State
    BY <1>2 DEF ResetRecovery, TypeOK, LocalsOK
  <2>2. [ClearMarginPause(admin.st) EXCEPT !.losses = 0, !.last = "none"] \in State
    BY <2>1, ClearType DEF State, Results
  <2>3. st' \in State
    BY <1>2, <2>1, <2>2, FlushType DEF ResetRecovery
  <2> QED
    BY <1>2, <2>3 DEF ResetRecovery, IdleAdmin, TypeOK, LocalsOK
<1>3. CASE SetCurrentMargin
  <2>1. admin.st \in State /\ st \in State
    BY <1>3 DEF SetCurrentMargin, TypeOK, LocalsOK
  <2>2. [Running(admin.st) EXCEPT !.reason = "manual_margin_override",
                                  !.losses = 0, !.last = "none"] \in State
    BY <2>1, RunningType DEF State, Results, Reasons
  <2>3. st' \in State
    BY <1>3, <2>1, <2>2, FlushType DEF SetCurrentMargin
  <2> QED
    BY <1>3, <2>3 DEF SetCurrentMargin, IdleAdmin, TypeOK, LocalsOK
<1>4. CASE CloseManual
  <2> DEFINE t == admin.trade
  <2>1. t \in Trades /\ admin.st \in State /\ now \in Time /\ "http" \in Closers
    BY <1>4 DEF CloseManual, TypeOK, LocalsOK, Closers
  <2>2. CASE Cancel(t, now) /\ UNCHANGED <<cfg, st, run, midClose>>
    BY <1>4, <2>1, <2>2, CancelType DEF CloseManual, IdleAdmin, TypeOK, LocalsOK
  <2>3. CASE CloseTrade("http", t, now, admin.st)
    BY <1>4, <2>1, <2>3, CloseTradeType DEF MidClose, CloseManual, IdleAdmin, TypeOK, LocalsOK
  <2>4. CASE UNCHANGED <<db, midClose>>
    BY <1>4, <2>4 DEF CloseManual, IdleAdmin, TypeOK, LocalsOK, db
  <2> QED
    BY <1>4, <2>2, <2>3, <2>4 DEF CloseManual
<1>5. ASSUME NEW t \in Trades, CloseLoad(t) PROVE TypeInv'
  BY <1>5 DEF CloseLoad, TypeOK, LocalsOK, db
<1> QED
  BY <1>1, <1>2, <1>3, <1>4, <1>5

LEMMA EnvironmentType ==
    ASSUME TypeInv, Tick \/ Quote \/ Restart
    PROVE  TypeInv'
<1> USE DEF TypeInv
<1>1. CASE Tick
  BY <1>1, LifecycleAssumption DEF Tick, Time, TypeOK, LocalsOK, db
<1>2. CASE Quote
  <2>1. book' \in Book
    BY <1>2 DEF Quote, NoBook, Book, TypeOK, Time
  <2> QED
    BY <1>2, <2>1 DEF Quote, TypeOK, LocalsOK, db
<1>3. CASE Restart
  BY <1>3 DEF Restart, IdleScan, NotClosing, IdleAdmin, NoTrade, TypeOK, LocalsOK, db
<1> QED
  BY <1>1, <1>2, <1>3

LEMMA TypeStep == TypeInv /\ [Next]_vars => TypeInv'
<1> SUFFICES ASSUME TypeInv, [Next]_vars PROVE TypeInv'
  OBVIOUS
<1>1. CASE Scanner
  BY <1>1, ScanReadType, ScanWriteType DEF Scanner
<1>2. CASE Worker
  BY <1>2, WorkerType DEF Worker
<1>3. CASE Request
  BY <1>3, LockedRequestType, LoadedRequestType DEF Request
<1>4. CASE \E th \in Closers : FillAfterRequest(th)
  BY <1>4, FillAfterRequestType
<1>5. CASE Tick \/ Quote \/ Restart
  BY <1>5, EnvironmentType
<1>6. CASE UNCHANGED vars
  BY <1>6 DEF TypeInv, TypeOK, LocalsOK, vars
<1> QED
  BY <1>1, <1>2, <1>3, <1>4, <1>5, <1>6 DEF Next

\* The rows and the threads' locals stay in their types.
THEOREM TypeCorrect == Spec => []TypeOK
<1>1. Spec => []TypeInv
  BY TypeInit, TypeStep, PTL DEF Spec
<1> QED
  BY <1>1, PTL DEF TypeInv

-----------------------------------------------------------------------------
\* One position, one slot.  A reservation in flight began with no open trade,
\* and only a reservation opens one; the slot row alone would not exclude a
\* legacy position that never had one.
ReserveClear ==
    scan.pc = "reserve" => \A t \in Trades : Exposed(t) => ~trade[t].legacy

RowInv == SlotOwnership /\ AtMostOneExposure /\ ReserveClear
IInv == TypeInv /\ RowInv

\* No step but ScanSignal makes the scanner reserve.
KeepsPc == scan'.pc = "reserve" => scan.pc = "reserve"

LEMMA SamePhase ==
    ASSUME TypeOK, RowInv, KeepsPc, slot' = slot,
           \A t \in Trades : /\ trade'[t].status = trade[t].status
                             /\ trade'[t].legacy = trade[t].legacy
    PROVE  RowInv'
<1>1. \A t \in Trades : Exposed(t)' = Exposed(t) /\ Pending(trade[t])' = Pending(trade[t])
  BY DEF Exposed, Pending
<1>2. slot # None => slot.trade \in Trades
  BY DEF TypeOK, Slot
<1>3. SlotOwnership'
  BY <1>1, <1>2 DEF RowInv, SlotOwnership
<1>4. AtMostOneExposure'
  BY <1>1 DEF RowInv, AtMostOneExposure
<1>5. ReserveClear'
  BY <1>1 DEF RowInv, ReserveClear, KeepsPc
<1> QED
  BY <1>3, <1>4, <1>5 DEF RowInv

\* A trade ends and takes its slot with it.
LEMMA TradeEnds ==
    ASSUME TypeOK, RowInv, NEW t \in Trades, Exposed(t), ~Exposed(t)',
           slot' = None \/ slot' = Release(t),
           \A u \in Trades : u # t => trade'[u] = trade[u]
    PROVE  RowInv'
<1>1. \A u \in Trades : ~Exposed(u)'
  BY DEF RowInv, AtMostOneExposure, Exposed
<1>2. slot' = None
  BY DEF RowInv, SlotOwnership, AtMostOneExposure, Release, TypeOK, Slot
<1> QED
  BY <1>1, <1>2 DEF RowInv, SlotOwnership, AtMostOneExposure, ReserveClear

LEMMA CancelEnds ==
    ASSUME TypeOK, RowInv, NEW t \in Trades, NEW at, Pending(trade[t]), Cancel(t, at)
    PROVE  RowInv'
<1>1. Exposed(t)
  BY DEF Exposed, Pending
<1>2. trade' = [trade EXCEPT ![t] = CancelledRow(trade[t], at)] /\ slot' = Release(t)
  BY DEF Cancel
<1>3. trade[t] \in Row
  BY DEF TypeOK
<1>4. CancelledRow(trade[t], at).status = "paper_cancelled"
  BY <1>3 DEF CancelledRow, Row
<1>5. ~Exposed(t)'
  BY <1>2, <1>4 DEF Exposed, TypeOK
<1>6. \A u \in Trades : u # t => trade'[u] = trade[u]
  BY <1>2 DEF TypeOK
<1> QED
  BY <1>1, <1>2, <1>5, <1>6, TradeEnds

LEMMA CancelAllEnds ==
    ASSUME TypeOK, RowInv, KeepsPc, CancelAllPending
    PROVE  RowInv'
<1>1. \A t \in Trades : Pending(trade[t]) => Exposed(t)
  BY DEF Exposed, Pending
<1>2. CASE \E t \in Trades : Pending(trade[t])
  <2>1. PICK t \in Trades : Pending(trade[t])
    BY <1>2
  <2>2. \A u \in Trades : Pending(trade[u]) => u = t
    BY <1>1, <2>1 DEF RowInv, AtMostOneExposure
  <2>3. Exposed(t) /\ Cancel(t, now)
    <3>1. trade' = [trade EXCEPT ![t] = CancelledRow(trade[t], now)]
      BY <2>1, <2>2 DEF CancelAllPending, TypeOK
    <3>2. slot # None => slot.trade \in Trades /\ Exposed(slot.trade)
      BY DEF RowInv, SlotOwnership, TypeOK, Slot
    <3>3. slot # None => slot.trade = t
      BY <1>1, <2>1, <3>2 DEF RowInv, AtMostOneExposure
    <3>4. slot' = Release(t)
      BY <2>1, <3>3 DEF CancelAllPending, Release
    <3> QED
      BY <1>1, <2>1, <3>1, <3>4 DEF Cancel
  <2> QED
    BY <2>1, <2>3, CancelEnds
<1>3. CASE \A t \in Trades : ~Pending(trade[t])
  <2>1. trade' = trade
    BY <1>3 DEF CancelAllPending, TypeOK
  <2>2. slot' = slot
    BY <1>3 DEF CancelAllPending, TypeOK, Slot
  <2> QED
    BY <2>1, <2>2, SamePhase
<1> QED
  BY <1>2, <1>3

LEMMA ExitEnds ==
    ASSUME TypeOK, RowInv, NEW t \in Trades, NEW at, NEW loaded,
           trade[t].status = "open", FillExit(t, at, loaded)
    PROVE  RowInv'
<1>1. PICK result \in {"win", "loss"} : BookExit(t, result, at, loaded)
  BY DEF FillExit
<1>2. /\ slot' = None
      /\ trade' = [trade EXCEPT ![t].status = "closed", ![t].closedAt = at,
                                ![t].result = result]
  BY <1>1 DEF BookExit
<1>3. trade[t] \in Row
  BY DEF TypeOK
<1>4. trade'[t].status = "closed"
  BY <1>2, <1>3 DEF TypeOK, Row
<1>5. \A u \in Trades : u # t => trade'[u] = trade[u]
  BY <1>2 DEF TypeOK
<1>6. Exposed(t) /\ ~Exposed(t)'
  BY <1>4 DEF Exposed
<1> QED
  BY <1>2, <1>5, <1>6, TradeEnds

LEMMA CloseTradeRows ==
    ASSUME TypeOK, RowInv, KeepsPc, NEW th, NEW t \in Trades, NEW at, NEW loaded,
           trade[t].status = "open", CloseTrade(th, t, at, loaded)
    PROVE  RowInv'
<1>1. CASE trade[t].closeReq = None
  <2>1. trade' = [trade EXCEPT ![t].closeReq = at] /\ slot' = slot
    BY <1>1 DEF CloseTrade
  <2>2. trade[t] \in Row
    BY DEF TypeOK
  <2>3. \A u \in Trades : /\ trade'[u].status = trade[u].status
                          /\ trade'[u].legacy = trade[u].legacy
    BY <2>1, <2>2 DEF TypeOK, Row
  <2> QED
    BY <2>1, <2>3, SamePhase
<1>2. CASE trade[t].closeReq # None
  <2>1. FillExit(t, at, loaded)
    BY <1>2 DEF CloseTrade
  <2> QED
    BY <2>1, ExitEnds
<1> QED
  BY <1>1, <1>2

LEMMA ReserveRows ==
    ASSUME TypeInv, RowInv, ScanReserve
    PROVE  RowInv'
<1>1. PICK t \in Trades :
         /\ trade[t].status = "absent"
         /\ trade' = [trade EXCEPT ![t] = [AbsentRow EXCEPT
                            !.status = "paper_pending", !.opened = scan.at]]
         /\ slot' = [trade |-> t, status |-> "paper_pending"]
  BY DEF ScanReserve
<1>2. slot = None /\ scan.pc = "reserve" /\ scan' = IdleScan
  BY DEF ScanReserve
<1>3. \A u \in Trades : ~Exposed(u)
  BY <1>2 DEF RowInv, SlotOwnership, ReserveClear
<1>4. trade'[t].status = "paper_pending" /\ trade'[t].legacy = FALSE
  BY <1>1 DEF TypeInv, TypeOK, AbsentRow
<1>5. \A u \in Trades : u # t => trade'[u] = trade[u]
  BY <1>1 DEF TypeInv, TypeOK
<1>6. Exposed(t)' /\ \A u \in Trades : u # t => ~Exposed(u)'
  BY <1>3, <1>4, <1>5 DEF Exposed
<1>7. scan'.pc = "idle"
  BY <1>2 DEF IdleScan
<1>8. slot' # None => slot'.trade = t /\ slot'.status = "paper_pending"
  BY <1>1
<1>9. slot' # None
  BY <1>1, NullAssumption DEF Slot
<1> QED
  BY <1>4, <1>6, <1>7, <1>8, <1>9
     DEF RowInv, SlotOwnership, AtMostOneExposure, ReserveClear, Pending

LEMMA FillRows ==
    ASSUME TypeInv, RowInv, ScanFill
    PROVE  RowInv'
<1> DEFINE t == scan.trade
<1>1. t \in Trades /\ Pending(trade[t])
  BY DEF ScanFill, TypeInv, LocalsOK
<1>2. trade[t] \in Row
  BY <1>1 DEF TypeInv, TypeOK
<1>3. /\ trade'[t].status = "open" /\ trade'[t].legacy = trade[t].legacy
      /\ \A u \in Trades : u # t => trade'[u] = trade[u]
  BY <1>1, <1>2 DEF ScanFill, TypeInv, TypeOK, Row
<1>4. \A u \in Trades : Exposed(u)' <=> Exposed(u)
  BY <1>1, <1>3 DEF Exposed, Pending
<1>5. \A u \in Trades : Exposed(u) => u = t
  BY <1>1 DEF RowInv, AtMostOneExposure, Exposed, Pending
<1>6. CASE slot = None
  <2>1. slot' = None
    BY <1>6 DEF ScanFill
  <2>2. \A u \in Trades : Exposed(u)' => trade'[u].legacy
    BY <1>3, <1>4, <1>5, <1>6 DEF RowInv, SlotOwnership, Exposed
  <2>3. SlotOwnership'
    BY <2>1, <2>2 DEF SlotOwnership
  <2> QED
    BY <1>4, <2>3 DEF ScanFill, IdleScan, RowInv, AtMostOneExposure, ReserveClear
<1>7. CASE slot # None
  <2>1. slot \in Slot /\ slot.trade = t
    BY <1>5, <1>7 DEF RowInv, SlotOwnership, TypeInv, TypeOK, Slot
  <2>2. slot' = [slot EXCEPT !.status = "active"]
    BY <1>7 DEF ScanFill
  <2>3. slot'.trade = t /\ slot'.status = "active" /\ slot' \in Slot
    BY <2>1, <2>2 DEF Slot
  <2>4. slot' # None
    BY <2>3, NullAssumption
  <2>5. SlotOwnership'
    BY <1>1, <1>3, <1>4, <1>5, <2>3, <2>4 DEF SlotOwnership, Pending, Exposed
  <2> QED
    BY <1>4, <2>5 DEF ScanFill, IdleScan, RowInv, AtMostOneExposure, ReserveClear
<1> QED
  BY <1>6, <1>7

LEMMA RowInit == Init => RowInv
<1> SUFFICES ASSUME Init PROVE RowInv
  OBVIOUS
<1>1. PICK old \in {{}, LegacyRows} :
          /\ trade = [t \in Trades |-> IF t \in old THEN LegacyRow ELSE AbsentRow]
          /\ slot \in {None} \cup {[trade |-> t, status |-> "active"] : t \in old}
  BY DEF Init
<1>2. \A t \in Trades : /\ Exposed(t) <=> t \in old
                        /\ Exposed(t) => trade[t].legacy
  <2>1. /\ AbsentRow.status = "absent"
        /\ LegacyRow.status = "open" /\ LegacyRow.legacy = TRUE
    BY DEF LegacyRow, AbsentRow
  <2> QED
    BY <1>1, <2>1 DEF Exposed
<1>3. old \subseteq Trades /\ \A t, u \in old : t = u
  BY LifecycleAssumption DEF Trades
<1>4. slot # None => slot.trade \in old
  BY <1>1
<1>5. SlotOwnership
  BY <1>2, <1>3, <1>4 DEF SlotOwnership
<1>6. AtMostOneExposure
  BY <1>2, <1>3 DEF AtMostOneExposure
<1> QED
  BY <1>5, <1>6 DEF RowInv, ReserveClear, Init, IdleScan

LEMMA RowStep == IInv /\ [Next]_vars => RowInv'
<1> SUFFICES ASSUME TypeInv, TypeOK, RowInv, [Next]_vars PROVE RowInv'
  BY DEF IInv, TypeInv
<1>1. CASE ScanSignal
  <2>1. \A t \in Trades : ~Exposed(t)
    BY <1>1 DEF ScanSignal, OpenTrades
  <2>2. trade' = trade /\ slot' = slot
    BY <1>1 DEF ScanSignal, db
  <2> QED
    BY <2>1, <2>2 DEF RowInv, SlotOwnership, AtMostOneExposure, ReserveClear, Exposed,
                      TypeOK, Slot
<1>2. CASE \/ ScanLoadConfig \/ ScanLoadState \/ ScanResume \/ ScanManage
           \/ ScanNothing \/ ScanReserveRejected \/ ScanHold
  <2>1. trade' = trade /\ slot' = slot
    BY <1>2 DEF ScanLoadConfig, ScanLoadState, ScanResume, ScanManage, ScanNothing,
                ScanReserveRejected, ScanHold, db
  <2>2. scan'.pc \in {"config", "loaded", "resumed", "manage", "idle"}
    <3>1. CASE ScanLoadConfig \/ ScanLoadState \/ ScanResume
      BY <3>1 DEF ScanLoadConfig, ScanLoadState, ScanResume, TypeOK
    <3>2. CASE ScanManage
      BY <3>2 DEF ScanManage, IdleScan
    <3>3. CASE ScanNothing \/ ScanReserveRejected \/ ScanHold
      <4>1. scan' = IdleScan
        BY <3>3 DEF ScanNothing, ScanReserveRejected, ScanHold
      <4> QED
        BY <4>1 DEF IdleScan
    <3> QED
      BY <1>2, <3>1, <3>2, <3>3
  <2>3. KeepsPc
    BY <2>2 DEF KeepsPc
  <2> QED
    BY <2>1, <2>3, SamePhase
<1>3. CASE ScanReserve
  BY <1>3, ReserveRows
<1>4. CASE ScanCancelPending
  BY <1>4, CancelEnds DEF ScanCancelPending, TypeInv, LocalsOK
<1>5. CASE ScanFill
  BY <1>5, FillRows
<1>6. CASE ScanExit
  <2>1. KeepsPc /\ scan.trade \in Trades
    BY <1>6 DEF ScanExit, IdleScan, KeepsPc, TypeInv, LocalsOK
  <2> QED
    BY <1>6, <2>1, CloseTradeRows DEF ScanExit
<1>7. ASSUME NEW t \in Trades, WorkerExit(t) \/ WorkerFinish(t) PROVE RowInv'
  <2>1. KeepsPc /\ trade[t].status = "open" /\ CloseTrade("worker", t, now, st)
    BY <1>7 DEF WorkerExit, WorkerFinish, Managed, KeepsPc
  <2> QED
    BY <2>1, CloseTradeRows
<1>8. ASSUME NEW t \in Trades, WorkerCancelPending(t) PROVE RowInv'
  BY <1>8, CancelEnds DEF WorkerCancelPending
<1>9. CASE Start \/ NewSession \/ ResetLoad \/ ResetRecovery \/ SetCurrentMargin
           \/ (\E t \in Trades : CloseLoad(t)) \/ Tick \/ Quote \/ Restart
  <2>1. trade' = trade /\ slot' = slot /\ KeepsPc
    BY <1>9 DEF Start, NewSession, ResetLoad, ResetRecovery, SetCurrentMargin, CloseLoad,
                Tick, Quote, Restart, IdleScan, KeepsPc, db
  <2> QED
    BY <2>1, SamePhase
<1>10. CASE Stop
  BY <1>10, CancelAllEnds DEF Stop, KeepsPc
<1>11. ASSUME NEW enabled \in BOOLEAN \cup {None}, NEW block \in BOOLEAN \cup {None},
              Patch(enabled, block)
       PROVE  RowInv'
  <2>1. KeepsPc /\ (CancelAllPending \/ (trade' = trade /\ slot' = slot))
    BY <1>11 DEF Patch, KeepsPc
  <2> QED
    BY <2>1, CancelAllEnds, SamePhase
<1>12. ASSUME NEW t \in Trades, Abandon(t) PROVE RowInv'
  <2>1. trade[t] \in Row /\ trade[t].status = "open"
    BY <1>12 DEF Abandon, TypeOK
  <2>2. trade'[t].status = "paper_abandoned" /\ slot' = Release(t)
        /\ \A u \in Trades : u # t => trade'[u] = trade[u]
    BY <1>12, <2>1 DEF Abandon, TypeOK, Row
  <2> QED
    BY <2>1, <2>2, TradeEnds DEF Exposed
<1>13. CASE CloseManual
  <2>1. admin.trade \in Trades /\ KeepsPc
    BY <1>13 DEF CloseManual, KeepsPc, TypeInv, LocalsOK
  <2>2. CASE Pending(trade[admin.trade]) /\ Cancel(admin.trade, now)
    BY <2>1, <2>2, CancelEnds
  <2>3. CASE /\ trade[admin.trade].status = "open"
             /\ CloseTrade("http", admin.trade, now, admin.st)
    BY <2>1, <2>3, CloseTradeRows
  <2>4. CASE UNCHANGED <<db, midClose>>
    BY <2>1, <2>4, SamePhase DEF db
  <2> QED
    BY <1>13, <2>2, <2>3, <2>4 DEF CloseManual
<1>14. ASSUME NEW th \in Closers, FillAfterRequest(th) PROVE RowInv'
  <2>1. midClose[th].trade \in Trades /\ KeepsPc
    BY <1>14 DEF FillAfterRequest, KeepsPc, TypeOK
  <2>2. CASE /\ trade[midClose[th].trade].status = "open"
             /\ FillExit(midClose[th].trade, midClose[th].at, midClose[th].st)
    BY <2>1, <2>2, ExitEnds
  <2>3. CASE UNCHANGED db
    BY <2>1, <2>3, SamePhase DEF db
  <2> QED
    BY <1>14, <2>2, <2>3 DEF FillAfterRequest, StillOpen
<1>15. CASE UNCHANGED vars
  BY <1>15, SamePhase DEF vars, KeepsPc
<1> QED
  BY <1>1, <1>2, <1>3, <1>4, <1>5, <1>6, <1>7, <1>8, <1>9, <1>10, <1>11, <1>12, <1>13,
     <1>14, <1>15 DEF Next, Scanner, Worker, Request

LEMMA Inductive == Spec => []IInv
<1>1. Init => IInv
  BY TypeInit, RowInit DEF IInv
<1>2. IInv /\ [Next]_vars => IInv'
  BY TypeStep, RowStep DEF IInv
<1> QED
  BY <1>1, <1>2, PTL DEF Spec

\* The slot row and the open trade agree after every step of every thread.
THEOREM SlotOwned == Spec => []SlotOwnership
<1>1. IInv => SlotOwnership
  BY DEF IInv, RowInv
<1> QED
  BY <1>1, Inductive, PTL

\* However scanner, worker and requests interleave, and however old the images
\* they decide on, the strategy never has two open rows.
THEOREM OneExposure == Spec => []AtMostOneExposure
<1>1. IInv => AtMostOneExposure
  BY DEF IInv, RowInv
<1> QED
  BY <1>1, Inductive, PTL

-----------------------------------------------------------------------------
(***************************************************************************)
(* PaperLifecycle implements SlotContract, for every value of its          *)
(* constants.  Every step changes the phase of at most one trade: it keeps *)
(* all of them, ends one, reserves one or fills one.                       *)
(***************************************************************************)

Allowed == cfg.enabled /\ ~st.stopped /\ ~cfg.block

LEMMA PhaseCases ==
    ASSUME NEW row \in Row
    PROVE  /\ PhaseOf(row) = "free" <=> row.status = "absent"
           /\ PhaseOf(row) = "reserved" <=> row.status = "paper_pending"
           /\ PhaseOf(row) = "held" <=> row.status = "open"
           /\ row.status \in {"paper_cancelled", "closed", "paper_abandoned"}
                 => PhaseOf(row) = "over"
BY DEF PhaseOf, Row, Statuses

\* In the terms of the trades, a trade is busy when it is exposed.
LEMMA BusyIsExposed ==
    ASSUME TypeOK, NEW t \in Trades
    PROVE  Contract!Busy(t) <=> Exposed(t)
<1>1. trade[t] \in Row
  BY DEF TypeOK
<1>2. [u \in Trades |-> PhaseOf(trade[u])][t] = PhaseOf(trade[t])
  OBVIOUS
<1> QED
  BY <1>1, <1>2, PhaseCases DEF Contract!Busy, Exposed

LEMMA AllowedBoolean == ASSUME TypeOK PROVE Allowed \in BOOLEAN
BY DEF TypeOK, Config, State, Allowed

LEMMA ContractStart == Init /\ IInv => Contract!ContractInit
<1> SUFFICES ASSUME Init, IInv PROVE Contract!ContractInit
  OBVIOUS
<1>1. TypeOK /\ AtMostOneExposure
  BY DEF IInv, TypeInv, RowInv
<1>2. \A t \in Trades : trade[t].status \in {"absent", "open"} /\ trade[t] \in Row
  <2>1. LegacyRow.status = "open" /\ AbsentRow.status = "absent"
    BY DEF LegacyRow, AbsentRow
  <2>2. \A t \in Trades : trade[t] \in {LegacyRow, AbsentRow}
    BY DEF Init
  <2> QED
    BY <1>1, <2>1, <2>2 DEF TypeOK
<1>3. [t \in Trades |-> PhaseOf(trade[t])] \in [Trades -> {"free", "held"}]
  BY <1>2, PhaseCases
<1>4. \A t, u \in Trades : Contract!Busy(t) /\ Contract!Busy(u) => t = u
  BY <1>1, BusyIsExposed DEF AtMostOneExposure
<1>5. (cfg.enabled /\ ~st.stopped /\ ~cfg.block) \in BOOLEAN
  BY <1>1, AllowedBoolean DEF Allowed
<1> QED
  BY <1>3, <1>4, <1>5 DEF Contract!ContractInit

-----------------------------------------------------------------------------
\* What a step does to the rows.
SameRows == \A t \in Trades : trade'[t].status = trade[t].status
Ends(t) == /\ Exposed(t) /\ Over(t)'
           /\ \A u \in Trades : u # t => trade'[u] = trade[u]
OneEnds == \E t \in Trades : Ends(t)
Shape == SameRows \/ OneEnds \/ ScanReserve \/ ScanFill

LEMMA CancelShape ==
    ASSUME TypeOK, NEW t \in Trades, NEW at, Pending(trade[t]), Cancel(t, at)
    PROVE  OneEnds
<1>1. trade' = [trade EXCEPT ![t] = CancelledRow(trade[t], at)] /\ trade[t] \in Row
  BY DEF Cancel, TypeOK
<1>2. trade'[t].status = "paper_cancelled"
  BY <1>1 DEF CancelledRow, Row, TypeOK
<1>3. \A u \in Trades : u # t => trade'[u] = trade[u]
  BY <1>1 DEF TypeOK
<1> QED
  BY <1>2, <1>3 DEF OneEnds, Ends, Exposed, Over, Pending

LEMMA CancelAllShape ==
    ASSUME TypeOK, RowInv, CancelAllPending
    PROVE  SameRows \/ OneEnds
<1>1. CASE \E t \in Trades : Pending(trade[t])
  <2>1. PICK t \in Trades : Pending(trade[t])
    BY <1>1
  <2>2. \A u \in Trades : u # t => ~Pending(trade[u])
    BY <2>1 DEF RowInv, AtMostOneExposure, Exposed, Pending
  <2>3. trade[t] \in Row /\ trade'[t] = CancelledRow(trade[t], now)
    BY <2>1 DEF CancelAllPending, TypeOK
  <2>4. trade'[t].status = "paper_cancelled"
    BY <2>3 DEF CancelledRow, Row
  <2>5. \A u \in Trades : u # t => trade'[u] = trade[u]
    BY <2>2 DEF CancelAllPending
  <2> QED
    BY <2>1, <2>4, <2>5 DEF OneEnds, Ends, Exposed, Over, Pending
<1>2. CASE \A t \in Trades : ~Pending(trade[t])
  BY <1>2 DEF CancelAllPending, SameRows
<1> QED
  BY <1>1, <1>2

LEMMA ExitShape ==
    ASSUME TypeOK, NEW t \in Trades, NEW at, NEW loaded, trade[t].status = "open",
           FillExit(t, at, loaded)
    PROVE  OneEnds
<1>1. PICK result \in {"win", "loss"} : BookExit(t, result, at, loaded)
  BY DEF FillExit
<1>2. /\ trade' = [trade EXCEPT ![t].status = "closed", ![t].closedAt = at,
                                ![t].result = result]
      /\ trade[t] \in Row
  BY <1>1 DEF BookExit, TypeOK
<1>3. trade'[t].status = "closed"
  BY <1>2 DEF TypeOK, Row
<1>4. \A u \in Trades : u # t => trade'[u] = trade[u]
  BY <1>2 DEF TypeOK
<1> QED
  BY <1>3, <1>4 DEF OneEnds, Ends, Exposed, Over

LEMMA CloseShape ==
    ASSUME TypeOK, NEW th, NEW t \in Trades, NEW at, NEW loaded, trade[t].status = "open",
           CloseTrade(th, t, at, loaded)
    PROVE  SameRows \/ OneEnds
<1>1. CASE trade[t].closeReq = None
  <2>1. trade' = [trade EXCEPT ![t].closeReq = at] /\ trade[t] \in Row
    BY <1>1 DEF CloseTrade, TypeOK
  <2> QED
    BY <2>1 DEF SameRows, TypeOK, Row
<1>2. CASE trade[t].closeReq # None
  BY <1>2, ExitShape DEF CloseTrade
<1> QED
  BY <1>1, <1>2

LEMMA StepShape == IInv /\ [Next]_vars => Shape
<1> SUFFICES ASSUME TypeInv, TypeOK, RowInv, [Next]_vars PROVE Shape
  BY DEF IInv, TypeInv
<1> USE DEF Shape
<1>1. CASE \/ ScanLoadConfig \/ ScanLoadState \/ ScanResume \/ ScanManage \/ ScanSignal
           \/ ScanNothing \/ ScanReserveRejected \/ ScanHold
  BY <1>1 DEF ScanLoadConfig, ScanLoadState, ScanResume, ScanManage, ScanSignal, ScanNothing,
              ScanReserveRejected, ScanHold, db, SameRows
<1>2. CASE ScanReserve \/ ScanFill
  BY <1>2
<1>3. CASE ScanCancelPending
  BY <1>3, CancelShape DEF ScanCancelPending, TypeInv, LocalsOK
<1>4. CASE ScanExit
  BY <1>4, CloseShape DEF ScanExit, TypeInv, LocalsOK
<1>5. ASSUME NEW t \in Trades, WorkerExit(t) \/ WorkerFinish(t) PROVE Shape
  BY <1>5, CloseShape DEF WorkerExit, WorkerFinish, Managed
<1>6. ASSUME NEW t \in Trades, WorkerCancelPending(t) PROVE Shape
  BY <1>6, CancelShape DEF WorkerCancelPending
<1>7. CASE Start \/ NewSession \/ ResetLoad \/ ResetRecovery \/ SetCurrentMargin
           \/ (\E t \in Trades : CloseLoad(t)) \/ Tick \/ Quote \/ Restart
  BY <1>7 DEF Start, NewSession, ResetLoad, ResetRecovery, SetCurrentMargin, CloseLoad,
              Tick, Quote, Restart, db, SameRows
<1>8. CASE Stop
  BY <1>8, CancelAllShape DEF Stop
<1>9. ASSUME NEW enabled \in BOOLEAN \cup {None}, NEW block \in BOOLEAN \cup {None},
             Patch(enabled, block)
      PROVE  Shape
  <2>1. CancelAllPending \/ trade' = trade
    BY <1>9 DEF Patch
  <2> QED
    BY <2>1, CancelAllShape DEF SameRows
<1>10. ASSUME NEW t \in Trades, Abandon(t) PROVE Shape
  <2>1. trade[t] \in Row /\ trade[t].status = "open"
    BY <1>10 DEF Abandon, TypeOK
  <2>2. trade'[t].status = "paper_abandoned"
        /\ \A u \in Trades : u # t => trade'[u] = trade[u]
    BY <1>10, <2>1 DEF Abandon, TypeOK, Row
  <2> QED
    BY <2>1, <2>2 DEF OneEnds, Ends, Exposed, Over
<1>11. CASE CloseManual
  <2>1. admin.trade \in Trades
    BY <1>11 DEF CloseManual, TypeInv, LocalsOK
  <2>2. CASE Pending(trade[admin.trade]) /\ Cancel(admin.trade, now)
    BY <2>1, <2>2, CancelShape
  <2>3. CASE /\ trade[admin.trade].status = "open"
             /\ CloseTrade("http", admin.trade, now, admin.st)
    BY <2>1, <2>3, CloseShape
  <2>4. CASE UNCHANGED <<db, midClose>>
    BY <2>4 DEF db, SameRows
  <2> QED
    BY <1>11, <2>2, <2>3, <2>4 DEF CloseManual
<1>12. ASSUME NEW th \in Closers, FillAfterRequest(th) PROVE Shape
  <2>1. midClose[th].trade \in Trades
    BY <1>12 DEF FillAfterRequest, TypeOK
  <2>2. CASE /\ trade[midClose[th].trade].status = "open"
             /\ FillExit(midClose[th].trade, midClose[th].at, midClose[th].st)
    BY <2>1, <2>2, ExitShape
  <2>3. CASE UNCHANGED db
    BY <2>3 DEF db, SameRows
  <2> QED
    BY <1>12, <2>2, <2>3 DEF FillAfterRequest, StillOpen
<1>13. CASE UNCHANGED vars
  BY <1>13 DEF vars, SameRows
<1> QED
  BY <1>1, <1>2, <1>3, <1>4, <1>5, <1>6, <1>7, <1>8, <1>9, <1>10, <1>11, <1>12, <1>13
     DEF Next, Scanner, Worker, Request

-----------------------------------------------------------------------------
\* A row that moves alone is a move of the contract.
LEMMA OneMoves ==
    ASSUME TypeOK, TypeOK', NEW t \in Trades, NEW to, PhaseOf(trade'[t]) = to,
           \A u \in Trades : u # t => trade'[u] = trade[u]
    PROVE  Contract!Moves(t, to)
<1> DEFINE before == [u \in Trades |-> PhaseOf(trade[u])]
           after == [u \in Trades |-> PhaseOf(trade'[u])]
<1>1. \A u \in Trades : after[u] = [before EXCEPT ![t] = to][u]
  OBVIOUS
<1>2. after = [before EXCEPT ![t] = to]
  BY <1>1
<1> QED
  BY <1>2 DEF Contract!Moves

\* Nobody is exposed when a reservation commits: the slot is free and, as the scanner
\* has seen none, no legacy position is open.
LEMMA ReserveMoves ==
    ASSUME TypeInv, TypeOK', RowInv, ScanReserve
    PROVE  \E t \in Trades : Contract!Reserve(t)
<1>0. TypeOK
  BY DEF TypeInv
<1>1. PICK t \in Trades :
         /\ trade[t].status = "absent"
         /\ trade' = [trade EXCEPT ![t] = [AbsentRow EXCEPT
                            !.status = "paper_pending", !.opened = scan.at]]
  BY DEF ScanReserve
<1>2. trade'[t].status = "paper_pending" /\ \A u \in Trades : u # t => trade'[u] = trade[u]
  BY <1>0, <1>1 DEF TypeOK, AbsentRow
<1>3. PhaseOf(trade[t]) = "free" /\ PhaseOf(trade'[t]) = "reserved"
  BY <1>0, <1>1, <1>2, PhaseCases DEF TypeOK
<1>4. Contract!Moves(t, "reserved")
  BY <1>0, <1>2, <1>3, OneMoves
<1>5. \A u \in Trades : ~Exposed(u)
  BY DEF ScanReserve, RowInv, SlotOwnership, ReserveClear
<1>6. Contract!NobodyBusy
  BY <1>0, <1>5, BusyIsExposed DEF Contract!NobodyBusy
<1>7. cfg.enabled /\ ~st.stopped /\ ~cfg.block
  BY DEF ScanReserve, EntriesPaused
<1>8. [u \in Trades |-> PhaseOf(trade[u])][t] = "free"
  BY <1>3
<1> QED
  BY <1>4, <1>6, <1>7, <1>8 DEF Contract!Reserve

LEMMA FillMoves ==
    ASSUME TypeInv, TypeOK', ScanFill
    PROVE  \E t \in Trades : Contract!Fill(t)
<1> DEFINE t == scan.trade
<1>0. TypeOK
  BY DEF TypeInv
<1>1. t \in Trades /\ trade[t].status = "paper_pending" /\ trade[t] \in Row
  BY DEF ScanFill, TypeInv, LocalsOK, Pending, TypeOK
<1>2. trade'[t].status = "open" /\ \A u \in Trades : u # t => trade'[u] = trade[u]
  BY <1>0, <1>1 DEF ScanFill, TypeOK, Row
<1>3. PhaseOf(trade[t]) = "reserved" /\ PhaseOf(trade'[t]) = "held"
  BY <1>1, <1>2, PhaseCases DEF TypeOK
<1>4. Contract!Moves(t, "held")
  BY <1>0, <1>1, <1>2, <1>3, OneMoves
<1>5. cfg.enabled /\ ~st.stopped /\ ~cfg.block
  BY DEF ScanFill, EntriesPaused
<1>6. [u \in Trades |-> PhaseOf(trade[u])][t] = "reserved"
  BY <1>1, <1>3
<1> QED
  BY <1>1, <1>4, <1>5, <1>6 DEF Contract!Fill

LEMMA EndMoves ==
    ASSUME TypeOK, TypeOK', NEW t \in Trades, Ends(t)
    PROVE  Contract!Release(t)
<1>1. PhaseOf(trade'[t]) = "over"
  BY PhaseCases DEF Ends, Over, TypeOK
<1>2. Contract!Moves(t, "over")
  BY <1>1, OneMoves DEF Ends
<1> QED
  BY <1>2, BusyIsExposed DEF Contract!Release, Ends

LEMMA ContractStep == IInv /\ TypeInv' /\ [Next]_vars => Contract!ContractNext
<1> SUFFICES ASSUME IInv, TypeInv', [Next]_vars PROVE Contract!ContractNext
  OBVIOUS
<1>1. TypeInv /\ TypeOK /\ TypeOK' /\ RowInv
  BY DEF IInv, TypeInv
<1>2. (cfg'.enabled /\ ~st'.stopped /\ ~cfg'.block) \in BOOLEAN
  BY <1>1 DEF TypeOK, Config, State
<1>3. CASE SameRows
  <2>1. \A t \in Trades : PhaseOf(trade'[t]) = PhaseOf(trade[t])
    BY <1>3 DEF SameRows, PhaseOf
  <2>2. [t \in Trades |-> PhaseOf(trade'[t])] = [t \in Trades |-> PhaseOf(trade[t])]
    BY <2>1
  <2> QED
    BY <1>2, <2>2 DEF Contract!ContractNext
<1>4. CASE OneEnds
  BY <1>1, <1>2, <1>4, EndMoves DEF OneEnds, Contract!ContractNext
<1>5. CASE ScanReserve
  BY <1>1, <1>2, <1>5, ReserveMoves DEF Contract!ContractNext
<1>6. CASE ScanFill
  BY <1>1, <1>2, <1>6, FillMoves DEF Contract!ContractNext
<1> QED
  BY <1>3, <1>4, <1>5, <1>6, StepShape DEF Shape

\* Paper trading keeps the promise of SlotContract: reservations one at a time and only
\* while entries are allowed, fills only while they still are, no way back from the end.
THEOREM ContractKept == Spec => KeepsContract
<1>1. Init => Contract!ContractInit
  BY ContractStart, TypeInit, RowInit DEF IInv
<1>2. IInv /\ IInv' /\ [Next]_vars => [Contract!ContractNext]_(Contract!contractVars)
  BY ContractStep DEF IInv
<1> QED
  BY <1>1, <1>2, Inductive, PTL DEF Spec, KeepsContract, Contract!ContractSpec

-----------------------------------------------------------------------------
(***************************************************************************)
(* The rest of PaperLifecycle's safety properties for every value of its   *)
(* constants: a pause holds, a row that is over stays as it is, an outcome *)
(* reaches the ladder once, and no simulated fill looks ahead or falls     *)
(* into a cool-down.                                                       *)
(***************************************************************************)

-----------------------------------------------------------------------------
\* An operator's pause.  That no pending entry outlives a gate is needed for the
\* PATCH that lifts it: it is a new pause, and cancels nothing.
GateClear == cfg.block => \A t \in Trades : ~Pending(trade[t])

PauseInv == PauseHolds /\ GateClear

\* Only a reservation makes a row wait for its fill.
LEMMA PendingOnlyReserved ==
    ASSUME Shape, ~ScanReserve, TypeInv, NEW t \in Trades, ~Pending(trade[t])
    PROVE  ~Pending(trade[t])'
<1>1. CASE SameRows
  BY <1>1 DEF SameRows, Pending
<1>2. CASE OneEnds
  BY <1>2 DEF OneEnds, Ends, Over, Pending
<1>3. CASE ScanFill
  <2>1. scan.trade \in Trades /\ trade \in [Trades -> Row]
    BY <1>3 DEF ScanFill, TypeInv, TypeOK, LocalsOK
  <2>2. trade'[scan.trade].status = "open"
        /\ \A u \in Trades : u # scan.trade => trade'[u] = trade[u]
    BY <1>3, <2>1 DEF ScanFill, Row
  <2> QED
    BY <2>2 DEF Pending
<1> QED
  BY <1>1, <1>2, <1>3 DEF Shape

\* What a step does to the gates: entries are enabled by Start, PATCH and the
\* automatic resume alone, and the gate is moved by PATCH alone.
GatesRest == /\ cfg'.enabled => cfg.enabled
             /\ cfg'.block = cfg.block
             /\ pause' = "held" => pause = "held"

LEMMA CancelAllClears ==
    ASSUME TypeOK, CancelAllPending, NEW t \in Trades PROVE ~Pending(trade[t])'
<1>1. trade[t] \in Row /\ trade'[t] = IF Pending(trade[t]) THEN CancelledRow(trade[t], now)
                                      ELSE trade[t]
  BY DEF CancelAllPending, TypeOK
<1>2. CancelledRow(trade[t], now).status = "paper_cancelled"
  BY <1>1 DEF CancelledRow, Row
<1> QED
  BY <1>1, <1>2 DEF Pending

LEMMA CloseGates ==
    ASSUME TypeOK, pause' = pause, NEW th, NEW t, NEW at, NEW loaded,
           CloseTrade(th, t, at, loaded) \/ FillExit(t, at, loaded)
    PROVE  GatesRest
<1>1. CASE cfg' = cfg
  BY <1>1 DEF GatesRest
<1>2. CASE FillExit(t, at, loaded)
  <2>1. PICK result \in {"win", "loss"} : BookExit(t, result, at, loaded)
    BY <1>2 DEF FillExit
  <2>2. cfg' = [cfg EXCEPT !.enabled = @ /\ ~Exhausts(loaded, result)] /\ cfg \in Config
    BY <2>1 DEF BookExit, TypeOK
  <2> QED
    BY <2>2 DEF GatesRest, Config
<1> QED
  BY <1>1, <1>2 DEF CloseTrade

\* Every step but these leaves the gates alone or only closes them.
LEMMA GateStep ==
    ASSUME TypeInv, [Next]_vars
    PROVE  \/ GatesRest
           \/ ScanResume \/ Start \/ Stop
           \/ \E enabled, block \in BOOLEAN \cup {None} : Patch(enabled, block)
<1> USE DEF TypeInv
<1>1. CASE \/ ScanLoadConfig \/ ScanLoadState \/ ScanManage \/ ScanSignal
           \/ ScanNothing \/ ScanReserveRejected \/ ScanHold \/ ScanCancelPending \/ ScanFill
  BY <1>1 DEF ScanLoadConfig, ScanLoadState, ScanManage, ScanSignal, ScanNothing,
              ScanReserveRejected, ScanHold, ScanCancelPending, ScanFill, db, GatesRest
<1>2. CASE ScanReserve \/ NewSession
  BY <1>2 DEF ScanReserve, NewSession, TypeOK, Config, GatesRest
<1>3. CASE ScanExit
  BY <1>3, CloseGates DEF ScanExit
<1>4. ASSUME NEW t \in Trades, WorkerExit(t) \/ WorkerFinish(t) PROVE GatesRest
  BY <1>4, CloseGates DEF WorkerExit, WorkerFinish
<1>5. ASSUME NEW t \in Trades, WorkerCancelPending(t) \/ Abandon(t) \/ CloseLoad(t)
      PROVE  GatesRest
  BY <1>5 DEF WorkerCancelPending, Abandon, CloseLoad, db, GatesRest
<1>6. CASE ResetLoad \/ ResetRecovery \/ SetCurrentMargin \/ Tick \/ Quote \/ Restart
  BY <1>6 DEF ResetLoad, ResetRecovery, SetCurrentMargin, Tick, Quote, Restart, db, GatesRest
<1>7. CASE CloseManual
  <2>1. CASE cfg' = cfg
    BY <1>7, <2>1 DEF CloseManual, GatesRest
  <2>2. CASE CloseTrade("http", admin.trade, now, admin.st)
    BY <1>7, <2>2, CloseGates DEF CloseManual
  <2> QED
    BY <1>7, <2>1, <2>2 DEF CloseManual, db
<1>8. ASSUME NEW th \in Closers, FillAfterRequest(th) PROVE GatesRest
  <2>1. CASE FillExit(midClose[th].trade, midClose[th].at, midClose[th].st)
    BY <1>8, <2>1, CloseGates DEF FillAfterRequest
  <2>2. CASE UNCHANGED db
    BY <1>8, <2>2 DEF FillAfterRequest, db, GatesRest
  <2> QED
    BY <1>8, <2>1, <2>2 DEF FillAfterRequest
<1>9. CASE UNCHANGED vars
  BY <1>9 DEF vars, GatesRest
<1> QED
  BY <1>1, <1>2, <1>3, <1>4, <1>5, <1>6, <1>7, <1>8, <1>9 DEF Next, Scanner, Worker, Request

LEMMA PauseInit == Init => PauseInv
<1> SUFFICES ASSUME Init PROVE PauseInv
  OBVIOUS
<1>1. cfg.enabled = FALSE
  BY DEF Init
<1>2. \A t \in Trades : ~Pending(trade[t])
  BY DEF Init, LegacyRow, AbsentRow, Pending
<1> QED
  BY <1>1, <1>2 DEF PauseInv, PauseHolds, GateClear

LEMMA PauseStep == IInv /\ PauseInv /\ [Next]_vars => PauseInv'
<1> SUFFICES ASSUME IInv, PauseInv, [Next]_vars PROVE PauseInv'
  OBVIOUS
<1>1. TypeInv /\ TypeOK /\ Shape
  BY StepShape DEF IInv, TypeInv
<1> DEFINE NonePending == \A t \in Trades : ~Pending(trade[t])
<1>2. CASE GatesRest
  <2>1. CASE ScanReserve
    BY <1>2, <2>1 DEF ScanReserve, EntriesPaused, GatesRest, PauseInv, PauseHolds, GateClear
  <2>2. CASE ~ScanReserve
    <3>1. NonePending => NonePending'
      BY <1>1, <2>2, PendingOnlyReserved
    <3> QED
      BY <1>2, <3>1 DEF GatesRest, PauseInv, PauseHolds, GateClear
  <2> QED
    BY <2>1, <2>2
<1>3. CASE ScanResume
  <2>1. trade' = trade /\ pause' # "held" /\ scan.cfg \in Config /\ cfg \in Config
    BY <1>1, <1>3 DEF ScanResume, TypeInv, TypeOK, LocalsOK
  <2>2. cfg' = Flush(scan.cfg, [scan.cfg EXCEPT !.enabled = TRUE], cfg)
    BY <1>3 DEF ScanResume
  <2>3. cfg'.block = cfg.block
    BY <2>1, <2>2 DEF Flush, Config
  <2> QED
    BY <2>1, <2>3 DEF PauseInv, PauseHolds, GateClear
<1>4. CASE Start
  BY <1>1, <1>4 DEF Start, TypeOK, Config, PauseInv, PauseHolds, GateClear
<1>5. CASE Stop
  <2>1. NonePending'
    BY <1>1, <1>5, CancelAllClears DEF Stop
  <2>2. cfg'.enabled = FALSE
    BY <1>1, <1>5 DEF Stop, TypeOK, Config
  <2> QED
    BY <2>1, <2>2 DEF PauseInv, PauseHolds, GateClear
<1>6. ASSUME NEW enabled \in BOOLEAN \cup {None}, NEW block \in BOOLEAN \cup {None},
             Patch(enabled, block)
      PROVE  PauseInv'
  <2> DEFINE gate == IF block = None THEN cfg.block ELSE block
             changed == gate # cfg.block
             switch == IF enabled = None THEN cfg.enabled ELSE enabled
  <2>1. /\ cfg'.block = gate /\ cfg'.enabled = (switch /\ ~changed /\ ~gate)
        /\ pause' = IF changed \/ gate THEN "held" ELSE IF enabled = TRUE THEN "none" ELSE pause
    BY <1>1, <1>6 DEF Patch, TypeOK, Config
  <2>2. CASE gate
    <3>1. NonePending'
      BY <1>1, <1>6, <2>2, CancelAllClears DEF Patch
    <3> QED
      BY <2>1, <2>2, <3>1 DEF PauseInv, PauseHolds, GateClear
  <2>3. CASE ~gate
    <3>1. trade' = trade
      BY <1>6, <2>3 DEF Patch
    <3>2. changed => cfg.block
      BY <1>1, <2>3 DEF TypeOK, Config
    <3> QED
      BY <2>1, <2>3, <3>1, <3>2 DEF PauseInv, PauseHolds, GateClear
  <2> QED
    BY <2>2, <2>3
<1> QED
  BY <1>1, <1>2, <1>3, <1>4, <1>5, <1>6, GateStep

\* While the operator's Stop or gate change stands, entries stay disabled and nothing
\* waits to be filled, whatever the scanner had decided before it.
THEOREM PauseKept == Spec => []PauseHolds
<1>1. Init => PauseInv
  BY PauseInit
<1>2. IInv /\ PauseInv /\ [Next]_vars => PauseInv'
  BY PauseStep
<1>3. Spec => []PauseInv
  BY <1>1, <1>2, Inductive, PTL DEF Spec
<1> QED
  BY <1>3, PTL DEF PauseInv

-----------------------------------------------------------------------------
\* The end of a close, the one kind of step that books an outcome: on the row as it
\* is or on the image that a thread holds since it began to close the trade.
Holds(t, image) ==
    \/ \E th \in Closers : midClose[th].trade = t /\ midClose[th].st = image
    \/ admin.op = "close" /\ admin.trade = t /\ admin.st = image

Exits(t) ==
    /\ t \in Trades
    /\ trade[t].status = "open"
    /\ \E at \in Time, loaded \in State :
          /\ FillExit(t, at, loaded)
          /\ loaded = st \/ Holds(t, loaded)

\* Any other step: it starts no streak and books no time of close, it leaves what is
\* over as it is and closes no trade, and if it fills an entry it is the scanner's fill.
LadderQuiet ==
    /\ st'.losses \in {st.losses, 0}
    /\ st'.closed \in {st.closed, None}

RowQuiet(t) ==
    /\ Over(t) => trade'[t] = trade[t]
    /\ trade'[t].status = "closed" => trade[t].status = "closed"
    /\ Filled(t) => ScanFill /\ t = scan.trade

Quiet == LadderQuiet /\ \A t \in Trades : RowQuiet(t)
Outcome == Quiet \/ \E t \in Trades : Exits(t)

LEMMA SameIsQuiet ==
    ASSUME TypeOK, trade' = trade PROVE \A t \in Trades : RowQuiet(t)
BY DEF RowQuiet, Filled, Pending

\* One live row changes, without being filled or closed.
LEMMA OneIsQuiet ==
    ASSUME TypeOK, NEW t \in Trades, ~Over(t),
           \A u \in Trades : u # t => trade'[u] = trade[u],
           trade'[t].status # "closed",
           trade'[t].status = "open" => trade[t].status = "open"
    PROVE  \A u \in Trades : RowQuiet(u)
BY DEF RowQuiet, Filled, Pending

LEMMA CancelQuiet ==
    ASSUME TypeOK, NEW t \in Trades, NEW at, Pending(trade[t]), Cancel(t, at)
    PROVE  \A u \in Trades : RowQuiet(u)
<1>1. trade' = [trade EXCEPT ![t] = CancelledRow(trade[t], at)] /\ trade[t] \in Row
  BY DEF Cancel, TypeOK
<1>2. trade'[t].status = "paper_cancelled"
  BY <1>1 DEF CancelledRow, Row, TypeOK
<1>3. \A u \in Trades : u # t => trade'[u] = trade[u]
  BY <1>1 DEF TypeOK
<1>4. ~Over(t)
  BY DEF Over, Pending
<1> QED
  BY <1>2, <1>3, <1>4, OneIsQuiet

LEMMA CancelAllQuiet ==
    ASSUME TypeOK, CancelAllPending
    PROVE  \A u \in Trades : RowQuiet(u)
<1> SUFFICES ASSUME NEW u \in Trades PROVE RowQuiet(u)
  OBVIOUS
<1>1. trade'[u] = (IF Pending(trade[u]) THEN CancelledRow(trade[u], now) ELSE trade[u])
      /\ trade[u] \in Row
  BY DEF CancelAllPending, TypeOK
<1>2. CancelledRow(trade[u], now).status = "paper_cancelled"
  BY <1>1 DEF CancelledRow, Row
<1> QED
  BY <1>1, <1>2 DEF RowQuiet, Filled, Over, Pending

LEMMA CloseOutcome ==
    ASSUME TypeInv, NEW th, NEW t \in Trades, NEW at \in Time, NEW loaded \in State,
           trade[t].status = "open", CloseTrade(th, t, at, loaded),
           loaded = st \/ Holds(t, loaded)
    PROVE  Outcome
<1>1. CASE trade[t].closeReq = None
  <2>1. trade' = [trade EXCEPT ![t].closeReq = at] /\ st' = st /\ trade[t] \in Row
    BY <1>1 DEF CloseTrade, TypeInv, TypeOK
  <2>2. trade'[t].status = "open" /\ \A u \in Trades : u # t => trade'[u] = trade[u]
    BY <2>1 DEF TypeInv, TypeOK, Row
  <2>3. ~Over(t)
    BY DEF Over
  <2> QED
    BY <2>1, <2>2, <2>3, OneIsQuiet DEF Outcome, Quiet, LadderQuiet, TypeInv
<1>2. CASE trade[t].closeReq # None
  BY <1>2 DEF CloseTrade, Outcome, Exits
<1> QED
  BY <1>1, <1>2

\* What the column-wise UPDATE of an image writes of two columns that its target
\* clears or leaves alone.
LEMMA FlushLadder ==
    ASSUME NEW loaded \in State, NEW target \in State, NEW row \in State,
           target.losses = 0, target.closed \in {loaded.closed, None}
    PROVE  /\ Flush(loaded, target, row).losses \in {row.losses, 0}
           /\ Flush(loaded, target, row).closed \in {row.closed, None}
BY DEF Flush, State

LEMMA LadderWrites ==
    ASSUME TypeInv,
           \/ ScanResume \/ ScanReserve \/ Start \/ Stop \/ NewSession
           \/ ResetRecovery \/ SetCurrentMargin
           \/ \E enabled, block \in BOOLEAN \cup {None} : Patch(enabled, block)
    PROVE  LadderQuiet
<1> USE DEF TypeInv
<1>1. st \in State
  BY DEF TypeOK
<1>2. CASE ScanResume
  <2>1. scan.st \in State /\ st' = Flush(scan.st, Resumed(scan.st), st)
    BY <1>2 DEF ScanResume, LocalsOK
  <2>2. Resumed(scan.st).losses = 0 /\ Resumed(scan.st).closed = scan.st.closed
    BY <2>1 DEF Resumed, Running, State
  <2>3. Resumed(scan.st) \in State
    BY <2>1, ResumedType
  <2> QED
    BY <1>1, <2>1, <2>2, <2>3, FlushLadder DEF LadderQuiet
<1>3. CASE ScanReserve
  BY <1>1, <1>3 DEF ScanReserve, NewLadder, State, LadderQuiet
<1>4. CASE Start
  BY <1>1, <1>4 DEF Start, NewLadder, State, LadderQuiet
<1>5. CASE Stop
  BY <1>1, <1>5 DEF Stop, State, LadderQuiet
<1>6. CASE NewSession
  BY <1>1, <1>6 DEF NewSession, NewLadder, State, LadderQuiet
<1>7. CASE ResetRecovery
  <2> DEFINE restart == [ClearMarginPause(admin.st) EXCEPT !.losses = 0, !.last = "none"]
  <2>1. admin.st \in State /\ st' = Flush(admin.st, restart, st)
    BY <1>7 DEF ResetRecovery, LocalsOK
  <2>2. ClearMarginPause(admin.st) \in State
        /\ ClearMarginPause(admin.st).closed = admin.st.closed
    BY <2>1, ClearType DEF ClearMarginPause, Running, State
  <2>3. restart \in State /\ restart.losses = 0 /\ restart.closed = admin.st.closed
    BY <2>2 DEF State, Results
  <2> QED
    BY <1>1, <2>1, <2>3, FlushLadder DEF LadderQuiet
<1>8. CASE SetCurrentMargin
  <2> DEFINE override == [Running(admin.st) EXCEPT !.reason = "manual_margin_override",
                                                   !.losses = 0, !.last = "none"]
  <2>1. admin.st \in State /\ st' = Flush(admin.st, override, st)
    BY <1>8 DEF SetCurrentMargin, LocalsOK
  <2>2. Running(admin.st) \in State /\ Running(admin.st).closed = admin.st.closed
    BY <2>1, RunningType DEF Running, State
  <2>3. override \in State /\ override.losses = 0 /\ override.closed = admin.st.closed
    BY <2>2 DEF State, Results, Reasons
  <2> QED
    BY <1>1, <2>1, <2>3, FlushLadder DEF LadderQuiet
<1>9. ASSUME NEW enabled \in BOOLEAN \cup {None}, NEW block \in BOOLEAN \cup {None},
             Patch(enabled, block)
      PROVE  LadderQuiet
  <2>1. CASE st' = st
    BY <2>1 DEF LadderQuiet
  <2>2. CASE \E reason : st' = [st EXCEPT !.stopped = TRUE, !.reason = reason]
    BY <1>1, <2>2 DEF State, LadderQuiet
  <2> QED
    BY <1>9, <2>1, <2>2 DEF Patch
<1> QED
  BY <1>2, <1>3, <1>4, <1>5, <1>6, <1>7, <1>8, <1>9

LEMMA StepOutcome == IInv /\ [Next]_vars => Outcome
<1> SUFFICES ASSUME TypeInv, TypeOK, [Next]_vars PROVE Outcome
  BY DEF IInv, TypeInv
<1> USE DEF Outcome, Quiet
<1>0. st \in State /\ now \in Time
  BY DEF TypeOK
<1>1. CASE \/ ScanLoadConfig \/ ScanLoadState \/ ScanManage \/ ScanSignal
           \/ ScanNothing \/ ScanReserveRejected \/ ScanHold \/ ResetLoad
           \/ (\E t \in Trades : CloseLoad(t)) \/ Tick \/ Quote \/ Restart
  <2>1. trade' = trade /\ st' = st
    BY <1>1 DEF ScanLoadConfig, ScanLoadState, ScanManage, ScanSignal, ScanNothing,
                ScanReserveRejected, ScanHold, ResetLoad, CloseLoad, Tick, Quote, Restart, db
  <2> QED
    BY <2>1, SameIsQuiet DEF LadderQuiet
<1>2. CASE ScanResume \/ Start \/ NewSession \/ ResetRecovery \/ SetCurrentMargin
  <2>1. trade' = trade
    BY <1>2 DEF ScanResume, Start, NewSession, ResetRecovery, SetCurrentMargin
  <2> QED
    BY <1>2, <2>1, SameIsQuiet, LadderWrites
<1>3. CASE ScanReserve
  <2>1. PICK t \in Trades :
           /\ trade[t].status = "absent"
           /\ trade' = [trade EXCEPT ![t] = [AbsentRow EXCEPT
                              !.status = "paper_pending", !.opened = scan.at]]
    BY <1>3 DEF ScanReserve
  <2>2. trade'[t].status = "paper_pending" /\ \A u \in Trades : u # t => trade'[u] = trade[u]
    BY <2>1 DEF TypeOK, AbsentRow
  <2>3. ~Over(t)
    BY <2>1 DEF Over
  <2> QED
    BY <1>3, <2>2, <2>3, OneIsQuiet, LadderWrites
<1>4. CASE ScanCancelPending
  BY <1>4, CancelQuiet DEF ScanCancelPending, TypeInv, LocalsOK, LadderQuiet
<1>5. CASE ScanFill
  <2>1. scan.trade \in Trades /\ trade[scan.trade].status = "paper_pending"
    BY <1>5 DEF ScanFill, TypeInv, LocalsOK, Pending
  <2>2. trade[scan.trade] \in Row
    BY <2>1 DEF TypeOK
  <2>3. trade'[scan.trade].status = "open"
        /\ \A u \in Trades : u # scan.trade => trade'[u] = trade[u]
    BY <1>5, <2>1, <2>2 DEF ScanFill, TypeOK, Row
  <2> QED
    BY <1>5, <2>1, <2>3 DEF ScanFill, RowQuiet, LadderQuiet, Filled, Over, Pending
<1>6. CASE ScanExit
  BY <1>0, <1>6, CloseOutcome DEF ScanExit, TypeInv, LocalsOK
<1>7. ASSUME NEW t \in Trades, WorkerExit(t) \/ WorkerFinish(t) PROVE Outcome
  BY <1>0, <1>7, CloseOutcome DEF WorkerExit, WorkerFinish, Managed
<1>8. ASSUME NEW t \in Trades, WorkerCancelPending(t) PROVE Outcome
  BY <1>8, CancelQuiet DEF WorkerCancelPending, LadderQuiet
<1>9. CASE Stop
  BY <1>9, CancelAllQuiet, LadderWrites DEF Stop
<1>10. ASSUME NEW enabled \in BOOLEAN \cup {None}, NEW block \in BOOLEAN \cup {None},
              Patch(enabled, block)
       PROVE  Outcome
  <2>1. CancelAllPending \/ trade' = trade
    BY <1>10 DEF Patch
  <2> QED
    BY <1>10, <2>1, CancelAllQuiet, SameIsQuiet, LadderWrites
<1>11. ASSUME NEW t \in Trades, Abandon(t) PROVE Outcome
  <2>1. trade[t] \in Row /\ trade[t].status = "open"
    BY <1>11 DEF Abandon, TypeOK
  <2>2. trade'[t].status = "paper_abandoned"
        /\ \A u \in Trades : u # t => trade'[u] = trade[u]
    BY <1>11, <2>1 DEF Abandon, TypeOK, Row
  <2>3. ~Over(t)
    BY <2>1 DEF Over
  <2> QED
    BY <1>11, <2>2, <2>3, OneIsQuiet DEF Abandon, LadderQuiet
<1>12. CASE CloseManual
  <2>1. admin.op = "close" /\ admin.trade \in Trades /\ admin.st \in State
    BY <1>12 DEF CloseManual, TypeInv, LocalsOK
  <2>2. CASE Pending(trade[admin.trade]) /\ Cancel(admin.trade, now) /\ st' = st
    BY <2>1, <2>2, CancelQuiet DEF LadderQuiet
  <2>3. CASE /\ trade[admin.trade].status = "open"
             /\ CloseTrade("http", admin.trade, now, admin.st)
    BY <1>0, <2>1, <2>3, CloseOutcome DEF Holds
  <2>4. CASE UNCHANGED <<db, midClose>>
    BY <2>4, SameIsQuiet DEF db, LadderQuiet
  <2> QED
    BY <1>12, <2>2, <2>3, <2>4 DEF CloseManual
<1>13. ASSUME NEW th \in Closers, FillAfterRequest(th) PROVE Outcome
  <2>1. midClose[th].trade \in Trades /\ midClose[th].at \in Time /\ midClose[th].st \in State
    BY <1>13 DEF FillAfterRequest, TypeOK, TypeInv, LocalsOK
  <2>2. CASE /\ trade[midClose[th].trade].status = "open"
             /\ FillExit(midClose[th].trade, midClose[th].at, midClose[th].st)
    <3>1. Holds(midClose[th].trade, midClose[th].st)
      BY DEF Holds
    <3> QED
      BY <2>1, <2>2, <3>1 DEF Exits
  <2>3. CASE UNCHANGED db
    BY <2>3, SameIsQuiet DEF db, LadderQuiet
  <2> QED
    BY <1>13, <2>2, <2>3 DEF FillAfterRequest, StillOpen
<1>14. CASE UNCHANGED vars
  BY <1>14, SameIsQuiet DEF vars, LadderQuiet
<1> QED
  BY <1>1, <1>2, <1>3, <1>4, <1>5, <1>6, <1>7, <1>8, <1>9, <1>10, <1>11, <1>12, <1>13,
     <1>14 DEF Next, Scanner, Worker, Request

-----------------------------------------------------------------------------
\* What an exit does to the rows: one trade closes and the others stay.
LEMMA ExitRows ==
    ASSUME TypeOK, NEW t \in Trades, trade[t].status = "open",
           NEW at, NEW loaded, NEW result, BookExit(t, result, at, loaded)
    PROVE  /\ trade'[t].status = "closed"
           /\ trade'[t].closedAt = at /\ trade'[t].result = result
           /\ \A u \in Trades : u # t => trade'[u] = trade[u]
           /\ Closings = {t}
<1>1. trade' = [trade EXCEPT ![t].status = "closed", ![t].closedAt = at,
                             ![t].result = result] /\ trade[t] \in Row
  BY DEF BookExit, TypeOK
<1>2. /\ trade'[t].status = "closed"
      /\ trade'[t].closedAt = at /\ trade'[t].result = result
      /\ \A u \in Trades : u # t => trade'[u] = trade[u]
  BY <1>1 DEF TypeOK, Row
<1> QED
  BY <1>2 DEF Closings

\* Nothing closes in a quiet step.
LEMMA QuietRows ==
    ASSUME Quiet PROVE Closings = {}
BY DEF Quiet, RowQuiet, Closings

\* A row that is over never changes again.
THEOREM OverForGood == Spec => TerminalFrozen
<1>1. IInv /\ [Next]_vars => [\A t \in Trades : Over(t) => trade'[t] = trade[t]]_vars
  <2> SUFFICES ASSUME IInv, [Next]_vars, NEW t \in Trades, Over(t)
               PROVE  trade'[t] = trade[t]
    OBVIOUS
  <2>1. TypeOK /\ Outcome
    BY StepOutcome DEF IInv, TypeInv
  <2>2. CASE Quiet
    BY <2>2 DEF Quiet, RowQuiet
  <2>3. ASSUME NEW u \in Trades, Exits(u) PROVE trade'[t] = trade[t]
    <3>1. u # t
      BY <2>3 DEF Exits, Over
    <3>2. PICK at \in Time, loaded \in State, result \in {"win", "loss"} :
             BookExit(u, result, at, loaded)
      BY <2>3 DEF Exits, FillExit
    <3> QED
      BY <2>1, <2>3, <3>1, <3>2, ExitRows DEF Exits
  <2> QED
    BY <2>1, <2>2, <2>3 DEF Outcome
<1> QED
  BY <1>1, Inductive, PTL DEF Spec, TerminalFrozen

-----------------------------------------------------------------------------
\* The ladder.  An image is a row as it once was, so that its streak is below the limit
\* as well, and with it whatever an UPDATE may write back.
Short(s) == s.losses < MaxLosses

LadderInv ==
    /\ Short(st)
    /\ \A th \in Closers : midClose[th].trade # NoTrade => Short(midClose[th].st)
    /\ admin.op = "close" => Short(admin.st)

\* The streak an outcome leaves in the row, whatever the row held.
LEMMA StreakBooked ==
    ASSUME NEW loaded \in State, Short(loaded), NEW row \in State, Short(row),
           NEW result \in {"win", "loss"}, NEW at \in Time
    PROVE  LET after == Flush(loaded, RecoveryImage(loaded, result, at), row)
           IN  /\ Short(after)
               /\ result = "loss" /\ ~Exhausts(loaded, result)
                     => after.losses = loaded.losses + 1
               /\ result = "loss" /\ Exhausts(loaded, result) /\ loaded = row
                     => after.losses = 0
<1> DEFINE image == RecoveryImage(loaded, result, at)
           after == Flush(loaded, image, row)
<1>1. image \in State
  BY RecoveryImageType
<1>2. image.losses = AfterClose(loaded, result, at).losses
  <2>1. AfterClose(loaded, result, at) \in State
    BY AfterCloseType
  <2> QED
    BY <2>1 DEF RecoveryImage, State
<1>3. image.losses = IF result = "loss" /\ ~Exhausts(loaded, result)
                     THEN loaded.losses + 1 ELSE 0
  <2>1. PICK b \in State : b = [loaded EXCEPT !.last = result, !.closed = at]
    BY DEF State, Results
  <2>2. b.losses = loaded.losses
    BY <2>1 DEF State
  <2>3. CASE result = "win"
    BY <1>2, <2>1, <2>3 DEF AfterClose, Running, State
  <2>4. CASE result = "loss" /\ Exhausts(loaded, result)
    <3>1. AfterClose(loaded, result, at) =
             [b EXCEPT !.losses = 0, !.stopped = TRUE, !.reason = MaxRecoveryPause,
                       !.until = at + PauseFor]
      BY <2>1, <2>4 DEF AfterClose
    <3> QED
      BY <1>2, <2>4, <3>1 DEF State
  <2>5. CASE result = "loss" /\ ~Exhausts(loaded, result)
    <3>1. AfterClose(loaded, result, at) = [b EXCEPT !.losses = @ + 1]
      BY <2>1, <2>5 DEF AfterClose
    <3> QED
      BY <1>2, <2>2, <2>5, <3>1 DEF State
  <2> QED
    BY <2>3, <2>4, <2>5
<1>4. after.losses = IF image.losses = loaded.losses THEN row.losses ELSE image.losses
  BY <1>1 DEF Flush, State
<1>5. loaded.losses \in Nat /\ row.losses \in Nat
  BY DEF State
<1>6. result = "loss" => (Exhausts(loaded, result) <=> loaded.losses + 1 >= MaxLosses)
  BY DEF Exhausts
<1>7. after.losses = row.losses \/ after.losses = 0 \/ after.losses < MaxLosses
  BY <1>3, <1>4, <1>5, <1>6, RulesAssumption
<1>8. Short(after)
  BY <1>5, <1>7, RulesAssumption DEF Short
<1>9. result = "loss" /\ ~Exhausts(loaded, result) => after.losses = loaded.losses + 1
  BY <1>3, <1>4, <1>5
<1>10. result = "loss" /\ Exhausts(loaded, result) /\ loaded = row => after.losses = 0
  BY <1>3, <1>4, <1>5
<1> QED
  BY <1>8, <1>9, <1>10

LEMMA LadderInit == Init => LadderInv
BY RulesAssumption DEF Init, LadderInv, Short, NotClosing, NoTrade, IdleAdmin

\* The images that threads hold are the ones they held, or the row as it is.
LEMMA ImagesKept ==
    ASSUME TypeInv, [Next]_vars
    PROVE  /\ \A th \in Closers : midClose'[th].trade # NoTrade =>
                 \/ midClose'[th] = midClose[th]
                 \/ midClose'[th].st = st
                 \/ admin.op = "close" /\ midClose'[th].st = admin.st
           /\ admin'.op = "close" => admin' = admin \/ admin'.st = st
<1> DEFINE Kept == /\ \A th \in Closers : midClose'[th].trade # NoTrade =>
                       \/ midClose'[th] = midClose[th]
                       \/ midClose'[th].st = st
                       \/ admin.op = "close" /\ midClose'[th].st = admin.st
                   /\ admin'.op = "close" => admin' = admin \/ admin'.st = st
<1> USE DEF TypeInv
<1>1. CASE midClose' = midClose /\ admin' = admin
  BY <1>1
<1>2. CASE CloseManual
  <2>1. admin'.op # "close"
    BY <1>2 DEF CloseManual, IdleAdmin
  <2>2. CASE midClose' = midClose
    BY <2>1, <2>2
  <2>3. CASE CloseTrade("http", admin.trade, now, admin.st)
    BY <1>2, <2>1, <2>3 DEF CloseManual, CloseTrade, TypeOK
  <2> QED
    BY <1>2, <2>2, <2>3 DEF CloseManual
<1>3. ASSUME NEW th \in Closers, NEW t, NEW at, CloseTrade(th, t, at, st), admin' = admin
      PROVE  Kept
  BY <1>3 DEF CloseTrade, TypeOK
<1>4. ASSUME NEW th \in Closers, FillAfterRequest(th) PROVE Kept
  BY <1>4 DEF FillAfterRequest, NotClosing, TypeOK
<1>5. CASE ResetLoad \/ ResetRecovery \/ SetCurrentMargin \/ \E t \in Trades : CloseLoad(t)
  <2>1. midClose' = midClose
    BY <1>5 DEF ResetLoad, ResetRecovery, SetCurrentMargin, CloseLoad
  <2>2. admin'.op # "close" \/ admin'.st = st
    BY <1>5 DEF ResetLoad, ResetRecovery, SetCurrentMargin, CloseLoad, IdleAdmin
  <2> QED
    BY <2>1, <2>2
<1>6. CASE Restart
  BY <1>6 DEF Restart, NotClosing, IdleAdmin
<1>7. CASE Scanner
  BY <1>1, <1>3, <1>7
     DEF Scanner, ScanLoadConfig, ScanLoadState, ScanResume, ScanManage, ScanSignal, ScanNothing,
         ScanReserve, ScanReserveRejected, ScanCancelPending, ScanFill, ScanExit, ScanHold, Closers
<1>8. CASE Worker
  BY <1>1, <1>3, <1>8 DEF Worker, WorkerExit, WorkerFinish, WorkerCancelPending, Closers
<1>9. CASE Request
  BY <1>1, <1>2, <1>5, <1>9 DEF Request, Start, Stop, NewSession, Patch, Abandon
<1>10. CASE Tick \/ Quote \/ UNCHANGED vars
  BY <1>1, <1>10 DEF Tick, Quote, vars
<1> QED
  BY <1>4, <1>6, <1>7, <1>8, <1>9, <1>10 DEF Next

\* The image an exit works on has a streak below the limit.
LEMMA ExitImageShort ==
    ASSUME TypeOK, LadderInv, NEW t \in Trades, NEW loaded, loaded = st \/ Holds(t, loaded)
    PROVE  Short(loaded)
<1>1. t # NoTrade
  BY DEF Trades, NoTrade
<1> QED
  BY <1>1 DEF LadderInv, Holds

LEMMA LadderStep == IInv /\ LadderInv /\ [Next]_vars => LadderInv'
<1> SUFFICES ASSUME IInv, LadderInv, [Next]_vars PROVE LadderInv'
  OBVIOUS
<1>1. TypeInv /\ TypeOK /\ Outcome /\ st \in State
  BY StepOutcome DEF IInv, TypeInv, TypeOK
<1>2. Short(st)'
  <2>1. CASE Quiet
    BY <2>1, RulesAssumption DEF Quiet, LadderQuiet, LadderInv, Short
  <2>2. ASSUME NEW t \in Trades, Exits(t) PROVE Short(st)'
    <3>1. PICK at \in Time, loaded \in State :
             FillExit(t, at, loaded) /\ (loaded = st \/ Holds(t, loaded))
      BY <2>2 DEF Exits
    <3>2. PICK result \in {"win", "loss"} : BookExit(t, result, at, loaded)
      BY <3>1 DEF FillExit
    <3>3. st' = Flush(loaded, RecoveryImage(loaded, result, at), st)
      BY <3>2 DEF BookExit
    <3>4. Short(loaded) /\ Short(st)
      BY <1>1, <3>1, ExitImageShort DEF LadderInv
    <3> QED
      BY <1>1, <3>3, <3>4, StreakBooked DEF Short
  <2> QED
    BY <1>1, <2>1, <2>2 DEF Outcome
<1>3. \A th \in Closers : midClose'[th].trade # NoTrade => Short(midClose'[th].st)
  BY <1>1, ImagesKept DEF LadderInv
<1>4. admin'.op = "close" => Short(admin'.st)
  BY <1>1, ImagesKept DEF LadderInv
<1> QED
  BY <1>2, <1>3, <1>4 DEF LadderInv, Short

LEMMA LadderAlways == Spec => []LadderInv
<1>1. IInv /\ LadderInv /\ [Next]_vars => LadderInv'
  BY LadderStep
<1> QED
  BY <1>1, LadderInit, Inductive, PTL DEF Spec

\* The streak never rests at or above its limit, also when a close books its loss on
\* an image that a reset or another outcome has made stale.
THEOREM StreakBounded == Spec => []StreakBelowLimit
<1>1. LadderInv => StreakBelowLimit
  BY DEF LadderInv, Short, StreakBelowLimit
<1> QED
  BY <1>1, LadderAlways, PTL

\* What an exit that booked a loss leaves behind.
LEMMA LossNoticed ==
    ASSUME TypeInv, LadderInv, NEW t \in Trades, NEW at \in Time, NEW loaded \in State,
           loaded = st \/ Holds(t, loaded), BookExit(t, "loss", at, loaded)
    PROVE  /\ st'.losses > 0 \/ ~cfg'.enabled
           /\ cfg.enabled /\ ImageCurrent(t) =>
                 \/ st'.losses = st.losses + 1
                 \/ st'.losses = 0 /\ st'.reason = MaxRecoveryPause
<1> DEFINE image == RecoveryImage(loaded, "loss", at)
<1>1. TypeOK /\ st \in State /\ cfg \in Config /\ Short(loaded) /\ Short(st)
  BY ExitImageShort DEF TypeInv, TypeOK, LadderInv
<1>2. st' = Flush(loaded, image, st)
      /\ cfg' = [cfg EXCEPT !.enabled = @ /\ ~Exhausts(loaded, "loss")]
  BY DEF BookExit
<1>3. /\ ~Exhausts(loaded, "loss") => st'.losses = loaded.losses + 1
      /\ Exhausts(loaded, "loss") /\ loaded = st => st'.losses = 0
  BY <1>1, <1>2, StreakBooked
<1>4. cfg'.enabled = (cfg.enabled /\ ~Exhausts(loaded, "loss"))
  BY <1>1, <1>2 DEF Config
<1>5. ImageCurrent(t) => loaded = st
  BY DEF ImageCurrent, Holds
<1>6. cfg.enabled /\ loaded = st /\ Exhausts(loaded, "loss")
         => st'.reason = MaxRecoveryPause
  <2> SUFFICES ASSUME cfg.enabled, loaded = st, Exhausts(loaded, "loss")
               PROVE  st'.reason = MaxRecoveryPause
    OBVIOUS
  <2>1. PICK b \in State : b = [loaded EXCEPT !.last = "loss", !.closed = at]
    BY DEF State, Results
  <2>2. image = [b EXCEPT !.losses = 0, !.stopped = TRUE, !.reason = MaxRecoveryPause,
                          !.until = at + PauseFor]
    BY <2>1 DEF RecoveryImage, AfterClose
  <2> QED
    BY <1>1, <1>2, <2>2 DEF Flush, State
<1>7. CASE ~Exhausts(loaded, "loss")
  <2>1. st'.losses > 0
    BY <1>3, <1>7 DEF State
  <2>2. ImageCurrent(t) => st'.losses = st.losses + 1
    BY <1>3, <1>5, <1>7
  <2> QED
    BY <2>1, <2>2
<1>8. CASE Exhausts(loaded, "loss")
  BY <1>3, <1>4, <1>5, <1>6, <1>8
<1> QED
  BY <1>7, <1>8

\* An outcome reaches the ladder with the step that closes its trade and with no other,
\* and a loss is never lost, although a close may work on an old image of the row.
THEOREM OutcomeCounted == Spec => OutcomeOnce
<1> DEFINE Once ==
       /\ st'.losses > st.losses => Cardinality(Closings) = 1
       /\ st'.closed # st.closed => st'.closed = None \/ Cardinality(Closings) = 1
       /\ \A t \in Closings : trade'[t].result = "loss" =>
             /\ st'.losses > 0 \/ ~cfg'.enabled
             /\ cfg.enabled /\ ImageCurrent(t) =>
                   \/ st'.losses = st.losses + 1
                   \/ st'.losses = 0 /\ st'.reason = MaxRecoveryPause
<1>1. IInv /\ LadderInv /\ [Next]_vars => [Once]_vars
  <2> SUFFICES ASSUME IInv, LadderInv, [Next]_vars PROVE Once
    OBVIOUS
  <2>1. TypeInv /\ TypeOK /\ Outcome /\ st \in State
    BY StepOutcome DEF IInv, TypeInv, TypeOK
  <2>2. CASE Quiet
    <3>1. Closings = {}
      BY <2>2, QuietRows
    <3>2. ~(st'.losses > st.losses)
      BY <2>1, <2>2 DEF Quiet, LadderQuiet, State
    <3>3. st'.closed # st.closed => st'.closed = None
      BY <2>2 DEF Quiet, LadderQuiet
    <3> QED
      BY <3>1, <3>2, <3>3
  <2>3. ASSUME NEW t \in Trades, Exits(t) PROVE Once
    <3>1. PICK at \in Time, loaded \in State :
             FillExit(t, at, loaded) /\ (loaded = st \/ Holds(t, loaded))
      BY <2>3 DEF Exits
    <3>2. PICK result \in {"win", "loss"} : BookExit(t, result, at, loaded)
      BY <3>1 DEF FillExit
    <3>3. Closings = {t} /\ trade'[t].result = result
      BY <2>1, <2>3, <3>2, ExitRows DEF Exits
    <3>4. Cardinality(Closings) = 1
      BY <3>3, FS_Singleton
    <3>5. result = "loss" =>
             /\ st'.losses > 0 \/ ~cfg'.enabled
             /\ cfg.enabled /\ ImageCurrent(t) =>
                   \/ st'.losses = st.losses + 1
                   \/ st'.losses = 0 /\ st'.reason = MaxRecoveryPause
      BY <2>1, <3>1, <3>2, LossNoticed
    <3> QED
      BY <3>3, <3>4, <3>5
  <2> QED
    BY <2>1, <2>2, <2>3 DEF Outcome
<1> QED
  BY <1>1, Inductive, LadderAlways, PTL DEF Spec, OutcomeOnce

-----------------------------------------------------------------------------
\* The simulation uses no book from before the latency had passed or from after the
\* time it books, whichever thread fills and however late it does.
THEOREM FillsHonest == Spec => NoLookAhead
<1> DEFINE Honest(t) ==
       /\ Filled(t) => /\ book.src <= trade'[t].opened
                       /\ latency > 0 => book.src >= trade[t].opened + latency
       /\ ~Over(t) /\ trade'[t].status = "closed" =>
             /\ book.src <= trade'[t].closedAt
             /\ latency > 0 => book.src >= trade[t].closeReq + latency
<1>1. IInv /\ [Next]_vars => [\A t \in Trades : Honest(t)]_vars
  <2> SUFFICES ASSUME IInv, [Next]_vars, NEW t \in Trades PROVE Honest(t)
    OBVIOUS
  <2>1. TypeInv /\ TypeOK /\ Outcome
    BY StepOutcome DEF IInv, TypeInv
  <2>2. CASE Quiet
    <3>1. ~Over(t) => trade'[t].status # "closed"
      BY <2>2 DEF Quiet, RowQuiet, Over
    <3>2. ASSUME Filled(t)
          PROVE  /\ book.src <= trade'[t].opened
                 /\ latency > 0 => book.src >= trade[t].opened + latency
      <4>1. ScanFill /\ t = scan.trade /\ trade[t] \in Row
        BY <2>1, <2>2, <3>2 DEF Quiet, RowQuiet, TypeOK
      <4>2. Executable(scan.at, trade[t].opened + latency)
        BY <4>1 DEF ScanFill, Delayed
      <4>3. trade'[t].opened = scan.at
        BY <2>1, <4>1 DEF ScanFill, TypeOK, Row
      <4> QED
        BY <4>2, <4>3 DEF Executable, ValidBook
    <3> QED
      BY <3>1, <3>2
  <2>3. ASSUME NEW u \in Trades, Exits(u) PROVE Honest(t)
    <3>1. PICK at \in Time, loaded \in State : FillExit(u, at, loaded)
      BY <2>3 DEF Exits
    <3>2. Executable(at, trade[u].closeReq + latency)
          /\ \E result \in {"win", "loss"} : BookExit(u, result, at, loaded)
      BY <3>1 DEF FillExit
    <3>3. /\ trade'[u].status = "closed" /\ trade'[u].closedAt = at
          /\ \A v \in Trades : v # u => trade'[v] = trade[v]
      BY <2>1, <2>3, <3>2, ExitRows DEF Exits
    <3>4. CASE t = u
      BY <3>2, <3>3, <3>4 DEF Executable, ValidBook, Filled
    <3>5. CASE t # u
      BY <3>3, <3>5 DEF Filled, Pending, Over
    <3> QED
      BY <3>4, <3>5
  <2> QED
    BY <2>1, <2>2, <2>3 DEF Outcome
<1> QED
  BY <1>1, Inductive, PTL DEF Spec, NoLookAhead
=============================================================================
