----------------------------- MODULE LiveExecution -----------------------------
(***************************************************************************)
(* Live trading of one strategy configuration against MEXC: durable order  *)
(* intents, outcomes that stay unknown, reconciliation by client order id, *)
(* protection, closing, and the funding gate.                              *)
(*                                                                         *)
(* Threads: the scanner (evaluate: opens a position, manages the open      *)
(* one), the worker (reconcile_existing_positions, one trade at a time)    *)
(* and one HTTP request (close_manual).  Each has a session of its own     *)
(* whose images of the trade row, the slot row and the entry gate are not  *)
(* refreshed: me[th] holds them.  One action is one transaction or one     *)
(* exchange call.  reconcile_pending_trade keeps the slot row locked while *)
(* it reads the exchange, so it is a single action.                        *)
(*                                                                         *)
(* The exchange is external: an order that was sent may fill or die at any *)
(* later time, a position may be closed by its plan orders, and every call *)
(* may fail to answer.  What it does answer is true.                       *)
(***************************************************************************)
EXTENDS UnitOfWork, FiniteSets, Naturals

CONSTANTS
    None,       \* an SQL NULL
    MaxTrades,  \* bound: rows of strategy_run_trades
    MaxCloses,  \* bound: close orders
    Happens     \* bound: the requests and exchange events a run considers

ASSUME LiveAssumption ==
    /\ MaxTrades \in Nat \ {0}
    /\ MaxCloses \in Nat
    /\ Happens \subseteq {"clear", "close", "reject", "partial", "trigger"}

VARIABLES
    block,  \* emergency_entry_block; the other entry gates only forbid more
    trade,  \* StrategyRunTrade rows with execution_mode "live"
    slot,   \* the ExecutionSlot row
    me,     \* locals and session images of each thread
    open,   \* exchange: the open order of each trade
    close,  \* exchange: the close orders
    held    \* exchange: trades whose position is on the account

db == <<block, trade, slot>>
exchange == <<open, close, held>>
vars == <<block, trade, slot, me, open, close, held>>

Trades == 1..MaxTrades
Closes == 1..MaxCloses
Threads == {"scanner", "worker", "http"}
NoTrade == 0
NoOrder == 0

\* "null" is a live_status of NULL.
Statuses == {"absent", "null", "open_pending", "open_unknown", "open_failed",
             "tp_sl_unprotected", "open", "close_pending", "close_unknown",
             "close_failed", "closed", "external_close_unreconciled"}
Row == [live: Statuses, closed: BOOLEAN, result: {"none", "rejected", "booked"},
        closeId: Closes \cup {NoOrder}, plans: {"none", "sl", "both"},
        funding: {"none", "pending", "reconciled"}]
SlotStatuses == {"opening", "active", "open_unknown", "close_pending",
                 "close_unknown", "external_close_unreconciled"}
Slot == [trade: Trades, status: SlotStatuses]

AbsentRow == [live |-> "absent", closed |-> FALSE, result |-> "none",
              closeId |-> NoOrder, plans |-> "none", funding |-> "none"]
Idle == [pc |-> "idle", trade |-> NoTrade, row |-> AbsentRow, slot |-> "active",
         block |-> FALSE]

(***************************************************************************)
(* Row and session helpers                                                 *)
(***************************************************************************)
\* Faulty variant of PendingStatuses: a crash right after the intent.
UnknownStatuses == {"open_unknown", "close_pending", "close_unknown"}
PendingStatuses == {"open_pending", "open_unknown", "close_pending", "close_unknown"}
Closing(row) == row.live \in {"close_pending", "close_unknown"}

Unclosed == {t \in Trades : trade[t].live \notin {"absent", "open_failed"}
                            /\ ~trade[t].closed}

FilledRow(row, status) == [row EXCEPT !.live = status]
FailedRow(row) == [row EXCEPT !.live = "open_failed", !.closed = TRUE,
                              !.result = "rejected"]
\* Faulty variant of FinalRow: the reason ends up in live_status.
ReasonInStatus(row) == [row EXCEPT !.live = "reconciled_close", !.closed = TRUE,
                                   !.result = "booked"]
FinalRow(row) == [row EXCEPT !.live = "closed", !.closed = TRUE, !.result = "booked"]

\* Faulty variant of Write: the whole image is written.
WriteWhole(th, target) == trade' = [trade EXCEPT ![me[th].trade] = target]
\* The session of th writes its image of the trade and remembers what it wrote.
Write(th, target) ==
    trade' = [trade EXCEPT ![me[th].trade] = Flush(me[th].row, target, @)]

\* An UPDATE of the slot row; it fails when another thread deleted the row.
SetSlot(loaded, status) ==
    \/ loaded = status /\ UNCHANGED slot
    \/ loaded # status /\ slot # None /\ slot' = [slot EXCEPT !.status = status]

\* config.emergency_entry_block = True on a session's image of the row.
Block(loaded) == block' = (block \/ ~loaded)

Go(th, pc) == me' = [me EXCEPT ![th].pc = pc]
Continue(th, pc, target, status) ==
    me' = [me EXCEPT ![th].pc = pc, ![th].row = target, ![th].slot = status]
Done(th) == me' = [me EXCEPT ![th] = Idle]

(***************************************************************************)
(* What the exchange answers                                               *)
(***************************************************************************)
\* Faulty variant of ConfirmedUnfilled: an order that is not visible yet is
\* taken for one that was never filled.
NotVisible(t) == open[t] \in {"sent", "dead"}
ConfirmedUnfilled(t) == open[t] = "dead"
\* verified_mexc_order: a final state, a price and a fee; anything else is unknown.
ConfirmedFilled(t) == open[t] = "filled"

\* Faulty variant of FullyFilled: a partial fill closes the trade.
AnyFill(c) == close[c].status \in {"filled", "partial"}
\* verified_mexc_order and the comparison with the trade's own amount.
FullyFilled(c) == close[c].status = "filled"

\* position_is_open looks at symbol and side only: another trade's position
\* may answer for this one.
SeesPosition(t) == held # {}
SeesNoPosition(t) == t \notin held
\* external_close_order: closing orders of the trade's own position whose
\* amounts add up.
HistoryShows(t) == open[t] = "filled" /\ t \notin held

(***************************************************************************)
(* Closing for good                                                        *)
(***************************************************************************)
\* finalize_verified_close up to its first commit: whatever slot row the
\* configuration has is deleted.
Finalize(th) ==
    /\ Write(th, FinalRow(me[th].row))
    /\ slot' = None
    /\ Continue(th, "funding", FinalRow(me[th].row), "active")
    /\ UNCHANGED block

\* PositionGuardian.funding inside finalize_verified_close: settlement takes
\* thirty seconds, so the result is pending and entries are blocked, unless
\* another thread has asked a moment ago.
FinalizeFunding(th) ==
    LET t == me[th].trade
    IN  /\ me[th].pc = "funding"
        /\ \/ /\ trade' = [trade EXCEPT ![t].funding = "pending"]
              /\ Block(me[th].block)
           \/ trade[t].funding # "none" /\ UNCHANGED <<block, trade>>
        /\ Done(th)
        /\ UNCHANGED <<slot, exchange>>

(***************************************************************************)
(* reconcile_pending_trade, on the image of the trade the thread holds     *)
(***************************************************************************)
ReconcileOpen(th) ==
    LET t == me[th].trade
        row == me[th].row
    IN  \/ /\ ConfirmedFilled(t)
           /\ Write(th, FilledRow(row, "tp_sl_unprotected"))
           /\ slot' = [slot EXCEPT !.status = "active"]
           /\ Block(me[th].block)
           /\ Done(th)
        \/ /\ ConfirmedUnfilled(t)
           /\ Write(th, FailedRow(row))
           /\ slot' = None
           /\ Done(th)
           /\ UNCHANGED block

ReconcileClose(th) ==
    LET row == me[th].row
    IN  /\ row.closeId # NoOrder
        /\ \/ FullyFilled(row.closeId) /\ Finalize(th)
           \/ /\ close[row.closeId].status = "dead"
              /\ Write(th, [row EXCEPT !.live = "close_failed"])
              /\ slot' = [slot EXCEPT !.status = "active"]
              /\ Done(th)
              /\ UNCHANGED block

\* Every other answer only leaves a message in live_error: see GiveUp.
Reconcile(th) ==
    /\ slot # None
    /\ IF Closing(me[th].row) THEN ReconcileClose(th) ELSE ReconcileOpen(th)
    /\ UNCHANGED exchange

(***************************************************************************)
(* close_trade                                                             *)
(***************************************************************************)
NextClose(c) == close[c].status = "none" /\ \A d \in 1..c - 1 : close[d].status # "none"

\* The slot row is locked and read again, the trade is not.
CloseTrade(th) ==
    LET t == me[th].trade
        row == me[th].row
    IN  \/ /\ slot # None
           /\ slot.status \in {"close_pending", "close_unknown", "open_unknown", "opening"}
           /\ Reconcile(th)
        \/ /\ slot # None
           /\ slot.status \in {"active", "external_close_unreconciled"}
           /\ \E c \in Closes :
                 LET target == [row EXCEPT !.live = "close_pending", !.closeId = c]
                 IN  /\ NextClose(c)
                     /\ Write(th, target)
                     /\ close' = [close EXCEPT ![c] = [trade |-> t, status |-> "minted"]]
                     /\ Continue(th, "close", target, "close_pending")
           /\ slot' = [slot EXCEPT !.status = "close_pending"]
           /\ UNCHANGED <<block, open, held>>
        \/ slot = None /\ Done(th) /\ UNCHANGED <<db, exchange>>

CloseSubmit(th) ==
    /\ me[th].pc = "close"
    /\ close' = [close EXCEPT ![me[th].row.closeId].status = "sent"]
    /\ Go(th, "closeSent")
    /\ UNCHANGED <<db, open, held>>

CloseVerified(th) ==
    /\ me[th].pc = "closeSent"
    /\ FullyFilled(me[th].row.closeId)
    /\ Finalize(th)
    /\ UNCHANGED exchange

\* "Position is nonexistent or closed": only the order history counts.
CloseAlreadyClosed(th) ==
    LET t == me[th].trade
        c == me[th].row.closeId
        status == "external_close_unreconciled"
        target == [me[th].row EXCEPT !.live = status]
    IN  /\ me[th].pc = "closeSent"
        /\ close[c].status \in {"sent", "dead"} /\ SeesNoPosition(t)
        /\ close' = [close EXCEPT ![c].status = "dead"]
        /\ \/ HistoryShows(t) /\ Finalize(th)
           \/ /\ Write(th, target)
              /\ SetSlot(me[th].slot, status)
              /\ Done(th)
              /\ UNCHANGED block
        /\ UNCHANGED <<open, held>>

\* A timeout, a partial fill, an unreadable answer, an unfilled order.
CloseUnknown(th) ==
    LET target == [me[th].row EXCEPT !.live = "close_unknown"]
    IN  /\ me[th].pc \in {"close", "closeSent"}
        /\ Write(th, target)
        /\ SetSlot(me[th].slot, "close_unknown")
        /\ Done(th)
        /\ UNCHANGED <<block, exchange>>

(***************************************************************************)
(* The scanner opens a position                                            *)
(***************************************************************************)
\* evaluate without an open trade: the gate and the slot are read here, the
\* reservation commits later.
ScanEnter ==
    /\ me["scanner"].pc = "idle"
    /\ Unclosed = {} /\ slot = None /\ ~block
    /\ me' = [me EXCEPT !["scanner"] = [Idle EXCEPT !.pc = "reserve"]]
    /\ UNCHANGED <<db, exchange>>

\* The trade and its slot are inserted together; the slot's primary key lets
\* only one reservation through.
Reserve ==
    LET row == [AbsentRow EXCEPT !.live = "null"]
    IN  /\ me["scanner"].pc = "reserve"
        /\ slot = None
        /\ \E t \in Trades :
              /\ trade[t].live = "absent"
              /\ \A u \in 1..t - 1 : trade[u].live # "absent"
              /\ trade' = [trade EXCEPT ![t] = row]
              /\ slot' = [trade |-> t, status |-> "opening"]
              /\ me' = [me EXCEPT !["scanner"] = [Idle EXCEPT !.pc = "intent",
                                  !.trade = t, !.row = row, !.slot = "opening"]]
        /\ UNCHANGED <<block, exchange>>

\* The intent is durable before anything is sent.
Intent ==
    LET target == [me["scanner"].row EXCEPT !.live = "open_pending"]
    IN  /\ me["scanner"].pc = "intent"
        /\ Write("scanner", target)
        /\ Continue("scanner", "submit", target, me["scanner"].slot)
        /\ UNCHANGED <<block, slot, exchange>>

\* An account that already holds a position is a definite rejection.
Submit ==
    /\ me["scanner"].pc = "submit"
    /\ \/ /\ held = {}
          /\ open' = [open EXCEPT ![me["scanner"].trade] = "sent"]
          /\ Go("scanner", "sent")
       \/ held # {} /\ Go("scanner", "rejected") /\ UNCHANGED open
    /\ UNCHANGED <<db, close, held>>

\* The fill is stored before protection is created.
OnFill ==
    LET target == FilledRow(me["scanner"].row, "tp_sl_unprotected")
    IN  /\ me["scanner"].pc = "sent"
        /\ ConfirmedFilled(me["scanner"].trade)
        /\ Write("scanner", target)
        /\ SetSlot(me["scanner"].slot, "active")
        /\ Continue("scanner", "plan", target, "active")
        /\ UNCHANGED <<block, exchange>>

\* The stop first, then the take-profit; every confirmed identifier is stored.
PlacePlan ==
    LET row == me["scanner"].row
        target == [row EXCEPT !.plans = IF @ = "none" THEN "sl" ELSE "both"]
    IN  /\ me["scanner"].pc = "plan" /\ row.plans # "both"
        /\ Write("scanner", target)
        /\ Continue("scanner", "plan", target, "active")
        /\ UNCHANGED <<block, slot, exchange>>

\* Faulty variant of NeedsReview: half a protection passes.
NoPlanAtAll(row) == row.plans = "none"
\* Not protected by both plans: the final result blocks entries.
NeedsReview(row) == row.plans # "both"

\* Both plans confirmed, or one of them not.
OpenResult ==
    LET row == me["scanner"].row
        target == FilledRow(row, IF row.plans = "both" THEN "open" ELSE "tp_sl_unprotected")
    IN  /\ me["scanner"].pc = "plan"
        /\ Write("scanner", target)
        /\ IF NeedsReview(row) THEN Block(me["scanner"].block) ELSE UNCHANGED block
        /\ Done("scanner")
        /\ UNCHANGED <<slot, exchange>>

\* OrderNotFilled or an error code: the order never will be filled.
OpenRejected ==
    /\ \/ me["scanner"].pc = "rejected"
       \/ me["scanner"].pc = "sent" /\ ConfirmedUnfilled(me["scanner"].trade)
    /\ Write("scanner", FailedRow(me["scanner"].row))
    /\ slot' = None
    /\ Done("scanner")
    /\ UNCHANGED <<block, exchange>>

\* A timeout, a server error, an order that cannot be read: nothing is
\* repeated, the slot stays.
OpenUnknown ==
    /\ me["scanner"].pc \in {"submit", "sent"}
    /\ Write("scanner", [me["scanner"].row EXCEPT !.live = "open_unknown"])
    /\ SetSlot(me["scanner"].slot, "open_unknown")
    /\ Done("scanner")
    /\ UNCHANGED <<block, exchange>>

(***************************************************************************)
(* Loading a trade and managing it                                         *)
(***************************************************************************)
Load(th, t) ==
    /\ me[th].pc = "idle"
    /\ t \in Unclosed
    /\ me' = [me EXCEPT ![th] = [Idle EXCEPT !.pc = "manage", !.trade = t,
                                             !.row = trade[t], !.block = block]]
    /\ UNCHANGED <<db, exchange>>

\* open_trade: the newest unclosed row.
ScanLoad == \E t \in Trades : (\A u \in Unclosed : u <= t) /\ Load("scanner", t)
\* The worker's query skips rows whose live_status is NULL.
WorkerLoad(t) == trade[t].live # "null" /\ Load("worker", t)
HttpLoad(t) == "close" \in Happens /\ Load("http", t)

\* Scanner and worker: a row with an open intent is reconciled.
ManagePending(th) ==
    /\ th # "http"
    /\ me[th].pc = "manage"
    /\ me[th].row.live \in PendingStatuses
    /\ Reconcile(th)

Settled(th) == me[th].pc = "manage" /\ me[th].row.live \notin PendingStatuses

\* Closed outside the program, and the order history proves it.
ExternalClose(th) ==
    /\ th # "http"
    /\ Settled(th)
    /\ SeesNoPosition(me[th].trade) /\ HistoryShows(me[th].trade)
    /\ Finalize(th)
    /\ UNCHANGED exchange

\* The scanner marks a missing position whose history it cannot confirm; the
\* worker only leaves a message.
ExternalUnconfirmed ==
    /\ Settled("scanner")
    /\ SeesNoPosition(me["scanner"].trade)
    /\ Write("scanner", [me["scanner"].row EXCEPT !.live = "external_close_unreconciled"])
    /\ Done("scanner")
    /\ UNCHANGED <<block, slot, exchange>>

\* protection_state can only verify plans whose identifiers are known; it may still
\* find them missing, changed or expired, or not find out.
PlansVerified(row) == ~NeedsReview(row)

\* The worker: PositionGuardian.protection and then funding of an open position.
\* Missing identifiers, a missing or expired plan or an unreadable answer block
\* entries.  Unless it has asked a moment ago, funding notes what it learned on the
\* row as it is now: of a trade that is open, or was closed less than thirty seconds
\* ago, that the result is pending (as is one it could not read); entries are blocked
\* when the read fails or the trade is closed in the meantime.
Guard ==
    LET t == me["worker"].trade
        over == trade[t].closed
    IN  /\ Settled("worker")
        /\ SeesPosition(t)
        /\ \E learned \in {"nothing", "pending", "reconciled"} :
              /\ learned = "reconciled" => over /\ trade[t].result = "booked"
              /\ trade' = IF learned = "nothing" THEN trade
                          ELSE [trade EXCEPT ![t].funding = learned]
              /\ \/ Block(me["worker"].block)
                 \/ /\ PlansVerified(me["worker"].row)
                    /\ ~(over /\ learned = "pending")
                    /\ UNCHANGED block
        /\ Done("worker")
        /\ UNCHANGED <<slot, exchange>>

\* A take-profit or stop-loss the scanner sees, or close_manual.
Close(th) ==
    /\ \/ th = "scanner" /\ Settled(th)
       \/ th = "http" /\ me[th].pc = "manage"
    /\ CloseTrade(th)

\* The call ends without a change: nothing to do, an answer that decides
\* nothing, an exception, a deadlock victim, or the process dies here.
GiveUp(th) ==
    /\ me[th].pc # "idle"
    /\ Done(th)
    /\ UNCHANGED <<db, exchange>>

\* The worker asks again for closed trades until the funding is reconciled.
WorkerFunding(t) ==
    /\ me["worker"].pc = "idle"
    /\ trade[t].closed /\ trade[t].result = "booked"
    /\ trade[t].funding # "reconciled"
    /\ \/ trade' = [trade EXCEPT ![t].funding = "reconciled"] /\ UNCHANGED block
       \/ trade' = [trade EXCEPT ![t].funding = "pending"] /\ block' = TRUE
    /\ UNCHANGED <<slot, me, exchange>>

\* The operator reviews and clears the gate.
ClearBlock ==
    /\ "clear" \in Happens
    /\ block' = FALSE
    /\ UNCHANGED <<trade, slot, me, exchange>>

(***************************************************************************)
(* The exchange                                                            *)
(***************************************************************************)
ExchangeOpen(t) ==
    /\ open[t] = "sent"
    /\ \/ open' = [open EXCEPT ![t] = "filled"] /\ held' = held \cup {t}
       \/ /\ "reject" \in Happens
          /\ open' = [open EXCEPT ![t] = "dead"]
          /\ UNCHANGED held
    /\ UNCHANGED <<db, me, close>>

\* A close order closes whatever position the account has.  It is taken to be
\* reduce-only, which live_reduce_only_close says by default: an operator who
\* switches that off has it open the opposite position instead.
ExchangeClose(c) ==
    /\ close[c].status = "sent"
    /\ \/ \E u \in held : /\ close[c].trade \in held => u = close[c].trade
                          /\ held' = held \ {u}
                          /\ close' = [close EXCEPT ![c].status = "filled"]
       \/ /\ "partial" \in Happens /\ held # {}
          /\ close' = [close EXCEPT ![c].status = "partial"]
          /\ UNCHANGED held
       \/ close' = [close EXCEPT ![c].status = "dead"] /\ UNCHANGED held
    /\ UNCHANGED <<db, me, open>>

\* A plan order or the operator on the exchange closes the position.
ExchangeTrigger(t) ==
    /\ "trigger" \in Happens
    /\ t \in held
    /\ held' = held \ {t}
    /\ UNCHANGED <<db, me, open, close>>

-----------------------------------------------------------------------------
Init ==
    /\ block = FALSE
    /\ trade = [t \in Trades |-> AbsentRow]
    /\ slot = None
    /\ me = [th \in Threads |-> Idle]
    /\ open = [t \in Trades |-> "none"]
    /\ close = [c \in Closes |-> [trade |-> NoTrade, status |-> "none"]]
    /\ held = {}

Opener == \/ ScanEnter \/ Reserve \/ Intent \/ Submit \/ OnFill \/ PlacePlan
          \/ OpenResult \/ OpenRejected \/ OpenUnknown

Loading == \/ ScanLoad
           \/ \E t \in Trades : WorkerLoad(t) \/ HttpLoad(t)

Managing(th) == \/ ManagePending(th) \/ ExternalClose(th) \/ Close(th)
                \/ CloseSubmit(th) \/ CloseVerified(th) \/ CloseAlreadyClosed(th)
                \/ CloseUnknown(th) \/ FinalizeFunding(th) \/ GiveUp(th)

Exchange == \/ \E t \in Trades : ExchangeOpen(t) \/ ExchangeTrigger(t)
            \/ \E c \in Closes : ExchangeClose(c)

Next ==
    \/ Opener \/ Loading
    \/ \E th \in Threads : Managing(th)
    \/ ExternalUnconfirmed \/ Guard \/ ClearBlock
    \/ \E t \in Trades : WorkerFunding(t)
    \/ Exchange

Spec == Init /\ [][Next]_vars

\* The scanner's cycle starts the worker again and again, its calls end, and
\* the exchange answers it once in a while.
Fairness ==
    /\ \A t \in Trades : SF_vars(WorkerLoad(t))
    /\ SF_vars(ManagePending("worker"))
    /\ SF_vars(Guard)
    /\ WF_vars(GiveUp("worker"))
    /\ \A th \in Threads : WF_vars(FinalizeFunding(th))

FairSpec == Spec /\ Fairness

(***************************************************************************)
(* Properties                                                              *)
(***************************************************************************)
\* The variables stay in their types.
TypeOK ==
    /\ block \in BOOLEAN
    /\ trade \in [Trades -> Row]
    /\ slot \in Slot \cup {None}
    /\ me \in [Threads -> [pc: {"idle", "reserve", "intent", "submit", "sent", "plan",
                                "rejected", "manage", "close", "closeSent", "funding"},
                           trade: Trades \cup {NoTrade}, row: Row,
                           slot: SlotStatuses, block: BOOLEAN]]
    /\ open \in [Trades -> {"none", "sent", "filled", "dead"}]
    /\ close \in [Closes -> [trade: Trades \cup {NoTrade},
                             status: {"none", "minted", "sent", "filled", "partial", "dead"}]]
    /\ held \subseteq Trades

\* Whatever stays unknown, crashes or is reconciled on stale images: the
\* account never holds, or waits for, two positions of the strategy.
OneLivePosition == Cardinality({t \in Trades : open[t] = "sent"} \cup held) <= 1

\* A row is over only when the exchange is done with it: no position of the
\* trade is left on the account and its open order can never be filled,
\* whatever image of the row the closing thread was working on.
ClosedIsFlat ==
    \A t \in Trades : trade[t].closed =>
        /\ t \notin held
        /\ open[t] # "sent"

\* The rows implement SlotContract, for which an order under way and a position are the
\* same: one trade at a time, and a row that is over is never reopened by a thread that
\* still holds an older image of it.  (Whether the gate holds is another question: see
\* EntryWaitsForFunding.)
PhaseOf(row) ==
    CASE row.live = "absent" -> "free"
      [] row.live # "absent" /\ ~row.closed -> "reserved"
      [] OTHER -> "over"

Contract == INSTANCE SlotContract WITH
    phase <- [t \in Trades |-> PhaseOf(trade[t])],
    entries <- TRUE

KeepsContract == Contract!ContractSpec

Opening(t) == trade[t].live \in {"open_pending", "open_unknown"}

\* An open order whose fate the exchange has decided does not stay unknown, crash
\* between intent, order and fill included, for as long as its trade owns the slot.
\* Without the slot row reconcile_pending_trade returns at once, for ever: a trade
\* whose slot another finalization has deleted (SlotWhileUnknown is violated) is
\* never resolved, and nothing is promised for it.
OwnsSlot(t) == slot # None /\ slot.trade = t
OpenResolves ==
    \A t \in Trades : (Opening(t) /\ open[t] \in {"filled", "dead"})
                          ~> (~Opening(t) \/ ~OwnsSlot(t))

\* A position without both plans does not stay unnoticed: entries get blocked,
\* although the thread that placed the first plan may have died.
UnprotectedBlocks ==
    \A t \in Trades : (/\ t \in held /\ NeedsReview(trade[t])
                       /\ trade[t].live \in {"tp_sl_unprotected", "open"})
                          ~> (block \/ t \notin held \/ trade[t].plans = "both"
                              \/ trade[t].live \notin {"tp_sl_unprotected", "open"})

Sent(c) == close[c].status = "minted" /\ close'[c].status = "sent"

\* "An unknown submission is never repeated blindly": no second close order of
\* a trade is sent while an earlier one may still be filled.
NoBlindClose ==
    [][\A c, d \in Closes : Sent(c) /\ close[d].trade = close[c].trade
                                => close[d].status # "sent"]_vars

\* "The durable slot stays locked until the read-only reconciliation": a trade
\* with an unknown outcome owns the slot.
SlotWhileUnknown ==
    \A t \in Trades : trade[t].live \in PendingStatuses /\ ~trade[t].closed
                          => OwnsSlot(t)

\* "While the funding result is pending, new entries are blocked": nothing is
\* reserved before the funding of every closed trade is reconciled.
EntryWaitsForFunding ==
    [][\A t, u \in Trades :
         trade[t].live = "absent" /\ trade'[t].live # "absent" /\ trade[u].result = "booked"
             => trade[u].funding = "reconciled"]_vars
=============================================================================
