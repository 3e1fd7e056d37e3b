---------------------------- MODULE FundingLedger -----------------------------
(***************************************************************************)
(* PositionGuardian's accounting of live trades: the settlement records of *)
(* the exchange, the ledger they are kept in, the net result they decide   *)
(* some time after the close, and the one report of that result to the     *)
(* recovery ladder.  Legacy trades are audited first.                      *)
(*                                                                         *)
(* Workers run reconcile_existing_positions, each pass in a session of its *)
(* own: first the unclosed trades, then the closed ones whose funding is   *)
(* not reconciled.  Images of the configuration and of the ladder live as  *)
(* long as the session; funding() locks the trade and reads it again.  A   *)
(* trade that was asked about a moment ago is left, and its lock is kept   *)
(* until the next commit.  Opening, closing and protecting a position are  *)
(* in LiveExecution; here a position is over when the exchange says so.    *)
(***************************************************************************)
EXTENDS UnitOfWork, Integers, Sequences, SequencesExt, FiniteSetsExt

CONSTANTS
    Null,           \* an SQL NULL
    Workers,        \* threads that run a pass
    LiveTrades,     \* live trades of one configuration, none of them rejected
    Fills,          \* each trade's gross result less its fees
    Settlements,    \* each trade's records the exchange may show, a revised one too
    SettleTime,     \* how long after a close its funding is provisional
    CheckEvery,     \* how often a trade is asked about
    LossLimit,      \* max_consecutive_losses
    LedgerEnd       \* bound: the last instant

ASSUME FundingAssumption ==
    /\ {SettleTime, CheckEvery, LedgerEnd} \subseteq Nat
    /\ LossLimit \in Nat \ {0}
    /\ Null \notin Nat \cup LiveTrades
    /\ IsFiniteSet(LiveTrades)
    /\ Fills \in [LiveTrades -> Int]

VARIABLES
    moment,
    liveRows,   \* StrategyRunTrade rows with execution_mode "live"
    events,     \* TradeFundingEvent rows of each trade
    state,      \* RecoveryState
    gate,       \* the configuration: emergency_entry_block, enabled
    slotOf,     \* the trade of the ExecutionSlot row, Null without a row
    pass,       \* locals, session images and row locks of each worker
    settled,    \* exchange: the records it shows of each trade
    told,       \* history: the results the ladder was given
    overlapped, \* history: it was given one on an image that was no longer true
    redone      \* history: trades finalized by two threads

accountVars == <<liveRows, events, state, gate, slotOf, told, overlapped, redone>>
fundingVars == <<moment, accountVars, pass, settled>>

NoSession == [pc |-> "idle", holds |-> {}]

OpenRow == [closed |-> Null, net |-> 0, result |-> "none", funding |-> 0, status |-> "none",
            source |-> "none", checked |-> Null, legacy |-> FALSE]
ResultOf(net) == IF net > 0 THEN "win" ELSE IF net < 0 THEN "loss" ELSE "closed"

NoLoss == [losses |-> 0, stopped |-> FALSE]
LadderRows == [losses: 0..(LossLimit - 1), stopped: BOOLEAN]

\* finalize_verified_close: the result of the fills alone.
FinalRow(t, r, at) ==
    [r EXCEPT !.closed = at, !.net = Fills[t], !.result = IF Fills[t] > 0 THEN "win" ELSE "loss",
              !.source = "fills"]
\* A trade of an earlier release: the ladder was given its result at the close.
LegacyClosed(t) == [FinalRow(t, OpenRow, 0) EXCEPT !.source = "earlier", !.legacy = TRUE]

\* apply_recovery_after_close; a result of zero counts as a loss.
Pauses(s, result) == result # "win" /\ s.losses + 1 >= LossLimit
Reported(s, result) ==
    IF result = "win" THEN NoLoss
    ELSE IF Pauses(s, result) THEN [losses |-> 0, stopped |-> TRUE]
    ELSE [s EXCEPT !.losses = @ + 1]

\* Reconciled before the workers began, without any funding.
DoneWith(t) == [FinalRow(t, OpenRow, 0) EXCEPT !.status = "reconciled", !.source = "final",
                                               !.result = ResultOf(Fills[t])]
\* A row may be open, closed or done with; one of an earlier release is not audited yet.
Beginnings(t) ==
    {OpenRow, [OpenRow EXCEPT !.legacy = TRUE], FinalRow(t, OpenRow, 0), LegacyClosed(t), DoneWith(t)}

\* At most one trade is open, and at most one is of an earlier release.
FundingInit ==
    /\ moment = SettleTime
    /\ \E r \in [LiveTrades -> UNION {Beginnings(t) : t \in LiveTrades}] :
          /\ \A t \in LiveTrades : r[t] \in Beginnings(t)
          /\ \A t, u \in LiveTrades : r[t].closed = Null /\ r[u].closed = Null => t = u
          /\ \A t, u \in LiveTrades : r[t].legacy /\ r[u].legacy => t = u
          /\ liveRows = r
    /\ told = SetToSeq({[trade |-> t, result |-> liveRows[t].result] :
                          t \in {u \in LiveTrades : liveRows[u].source \in {"earlier", "final"}}})
    /\ \E run \in [0..Len(told) -> LadderRows] :
          /\ run[0] = NoLoss
          /\ \A i \in 1..Len(told) : run[i] = Reported(run[i - 1], told[i].result)
          /\ state = run[Len(told)]
    /\ slotOf \in {Null} \cup LiveTrades
    /\ slotOf # Null => liveRows[slotOf].closed = Null
    /\ \A t \in LiveTrades : liveRows[t].closed = Null /\ ~liveRows[t].legacy => slotOf = t
    /\ gate = [block |-> FALSE, enabled |-> TRUE]
    /\ events = [t \in LiveTrades |-> {}]
    /\ pass = [w \in Workers |-> NoSession]
    /\ settled = [t \in LiveTrades |-> {}]
    /\ overlapped = FALSE
    /\ redone = {}

-----------------------------------------------------------------------------
(* Sessions and locks. *)

RowFree(w, t) == \A v \in Workers \ {w} : t \notin pass[v].holds

\* The pass goes on; a commit releases what it has locked.
Continue(w, p) == pass' = [pass EXCEPT ![w] = p]
Committed(p) == [p EXCEPT !.holds = {}]
\* The trade of this turn is dealt with.
Handled(p) == [p EXCEPT !.pc = "walk", !.todo = @ \ {p.trade}, !.trade = Null, !.at = Null, !.row = Null]

\* The image a session uses is the one it loaded first.
Image(loaded, row) == IF loaded = Null THEN row ELSE loaded
\* config.emergency_entry_block = True, where blocks says so; the loss that reaches
\* the limit disables entries as well.
SetGate(p, blocks, disables) ==
    LET image == Image(p.gate, gate)
    IN  [image EXCEPT !.block = @ \/ blocks, !.enabled = @ /\ ~disables]

\* get_or_create_state is asked before an unclosed trade is looked at.
Loaded(p) == [p EXCEPT !.gate = Image(@, gate), !.state = IF p.loop = "unclosed" THEN Image(@, state) ELSE @]

\* A new session: the trades that are not closed.
StartPass(w) ==
    /\ pass[w].pc = "idle"
    /\ Continue(w, [pc |-> "walk", loop |-> "unclosed", trade |-> Null, at |-> Null,
                    todo |-> {t \in LiveTrades : liveRows[t].closed = Null},
                    legacy |-> {t \in LiveTrades : liveRows[t].closed = Null /\ liveRows[t].legacy},
                    state |-> Null, gate |-> Null, row |-> Null, holds |-> {}])
    /\ UNCHANGED <<moment, accountVars, settled>>

\* The second list: closed, and not reconciled yet.
ListClosed(w) ==
    LET todo == {t \in LiveTrades : liveRows[t].closed # Null /\ liveRows[t].status # "reconciled"}
    IN  /\ pass[w].pc = "walk" /\ pass[w].loop = "unclosed" /\ pass[w].todo = {}
        /\ Continue(w, [pass[w] EXCEPT !.loop = "closed", !.todo = todo,
                                       !.legacy = @ \cup {t \in todo : liveRows[t].legacy}])
        /\ UNCHANGED <<moment, accountVars, settled>>

\* The pass is over, its process dies, or the database ends it because two passes wait
\* for each other's trade: what is not committed is rolled back.
EndPass(w) ==
    /\ pass[w].pc # "idle"
    /\ Continue(w, NoSession)
    /\ UNCHANGED <<moment, accountVars, settled>>

-----------------------------------------------------------------------------
(* Legacy trades, and trades that turn out to be closed. *)

\* prepare_legacy: what the trade was opened with is verified by its order, or not.
\* Either way entries are blocked; a verified trade gets a slot where there is none.
Audit(w, t) ==
    LET p == [Loaded(pass[w]) EXCEPT !.trade = t, !.gate = SetGate(pass[w], TRUE, FALSE)]
        Done(q) == Continue(w, Committed(q))
    IN  /\ pass[w].pc = "walk" /\ t \in pass[w].todo \cap pass[w].legacy
        /\ RowFree(w, t)
        /\ gate' = Flush(Image(pass[w].gate, gate), p.gate, gate)
        /\ \/ Done(Handled(p)) /\ UNCHANGED <<liveRows, slotOf>>
           \/ /\ liveRows' = [liveRows EXCEPT ![t].legacy = FALSE]
              /\ slotOf' = IF slotOf = Null THEN t ELSE slotOf
              /\ Done([p EXCEPT !.legacy = @ \ {t}, !.trade = Null])
        /\ UNCHANGED <<moment, events, state, told, overlapped, redone, settled>>

\* The call of funding, with the time it is given.
Ask(w, t) == [Loaded(pass[w]) EXCEPT !.pc = "lock", !.trade = t, !.at = moment]

\* finalize_verified_close on the image of an unclosed trade, up to its commit.
Finalize(w, t) ==
    /\ pass[w].pc = "walk" /\ pass[w].loop = "unclosed"
    /\ t \in pass[w].todo \ pass[w].legacy /\ RowFree(w, t)
    /\ liveRows' = [liveRows EXCEPT ![t] = FinalRow(t, @, moment)]
    /\ slotOf' = Null
    /\ redone' = IF liveRows[t].closed = Null THEN redone ELSE redone \cup {t}
    /\ Continue(w, Committed(Ask(w, t)))
    /\ UNCHANGED <<moment, events, state, gate, told, overlapped, settled>>

\* Its position is open, and its protection has been looked at: its funding is next.
StillHeld(w, t) ==
    /\ pass[w].pc = "walk" /\ pass[w].loop = "unclosed"
    /\ t \in pass[w].todo \ pass[w].legacy /\ liveRows[t].closed = Null
    /\ Continue(w, Ask(w, t))
    /\ UNCHANGED <<moment, accountVars, settled>>

\* A closed trade whose result is provisional or unknown.
Revisit(w, t) ==
    /\ pass[w].pc = "walk" /\ pass[w].loop = "closed"
    /\ t \in pass[w].todo \ pass[w].legacy
    /\ Continue(w, Ask(w, t))
    /\ UNCHANGED <<moment, accountVars, settled>>
\* The exchange or the database fails: the message is committed.
GiveUpTurn(w, t) ==
    /\ pass[w].pc = "walk" /\ pass[w].loop = "unclosed" /\ t \in pass[w].todo
    /\ RowFree(w, t)
    /\ Continue(w, Committed(Handled([Loaded(pass[w]) EXCEPT !.trade = t])))
    /\ UNCHANGED <<moment, accountVars, settled>>

-----------------------------------------------------------------------------
(* PositionGuardian.funding. *)

JustChecked(r, at) == r.checked # Null /\ at < r.checked + CheckEvery

\* The row is locked and read again; whoever comes too early leaves without a commit.
FundingLock(w) ==
    LET t == pass[w].trade
        p == [pass[w] EXCEPT !.holds = @ \cup {t}]
    IN  /\ pass[w].pc = "lock" /\ RowFree(w, t)
        /\ Continue(w, IF JustChecked(liveRows[t], p.at)
                       THEN Handled(p) ELSE [p EXCEPT !.pc = "book", !.row = liveRows[t]])
        /\ UNCHANGED <<moment, accountVars, settled>>

SettledBy(r, at) == r.closed # Null /\ at >= r.closed + SettleTime
\* Faulty variant of OutcomeDue: whatever was not reconciled a moment ago is reported.
OutcomeDueAgain(r, at) == SettledBy(r, at) /\ r.status # "reconciled"
\* The result is final for the first time.
OutcomeDue(r, at) ==
    SettledBy(r, at) /\ r.status # "reconciled" /\ r.source \in {"fills", "provisional"}

\* get_or_create_state, when this session has not loaded it yet.
ReadLadder(w) ==
    /\ pass[w].pc = "book" /\ OutcomeDue(pass[w].row, pass[w].at) /\ pass[w].state = Null
    /\ Continue(w, [pass[w] EXCEPT !.state = state])
    /\ UNCHANGED <<moment, accountVars, settled>>

Sum(records) == MapThenSumSet(LAMBDA e : e.amount, records)
Known(t) == {e.id : e \in events[t]}
\* A record that is kept already with another amount.
Revised(t) == \E e \in events[t], r \in settled[t] : e.id = r.id /\ e.amount # r.amount
NewRecords(t) == {r \in settled[t] : r.id \notin Known(t)}

\* The row once its records are booked.
Accounted(t, r, records, at) ==
    LET status == IF SettledBy(r, at) THEN "reconciled" ELSE "pending"
        net == Fills[t] + Sum(records)
        asked == [r EXCEPT !.funding = Sum(records), !.status = status, !.checked = at]
    IN  IF r.closed = Null THEN asked
        ELSE [asked EXCEPT !.net = net, !.result = ResultOf(net),
                           !.source = IF status = "reconciled" THEN "final" ELSE "provisional"]

\* The exchange answers with all its records: they are booked, the result is, and when
\* it is final for the first time the ladder is given it.
BookFunding(w) ==
    LET p == pass[w]
        t == p.trade
        records == events[t] \cup NewRecords(t)
        target == Accounted(t, p.row, records, p.at)
        due == OutcomeDue(p.row, p.at)
        reported == Reported(p.state, target.result)
        loaded == Image(p.gate, gate)
        wanted == SetGate(p, target.closed # Null /\ target.status # "reconciled",
                          due /\ Pauses(p.state, target.result))
    IN  /\ p.pc = "book" /\ ~Revised(t) /\ (due => p.state # Null)
        /\ events' = [events EXCEPT ![t] = records]
        /\ liveRows' = [liveRows EXCEPT ![t] = Flush(p.row, target, @)]
        /\ gate' = Flush(loaded, wanted, gate)
        /\ IF due
           THEN /\ state' = Flush(p.state, reported, state)
                /\ told' = Append(told, [trade |-> t, result |-> target.result])
                /\ overlapped' = (overlapped \/ p.state # state)
           ELSE UNCHANGED <<state, told, overlapped>>
        /\ Continue(w, Committed(Handled([p EXCEPT !.gate = wanted,
                                                   !.state = IF due THEN reported ELSE @])))
        /\ UNCHANGED <<moment, slotOf, redone, settled>>

\* No answer, an unreadable one, or a record that has changed: what was added before it
\* was noticed stays, and the result has to be reviewed.
FailFunding(w) ==
    LET p == pass[w]
        t == p.trade
        target == [p.row EXCEPT !.status = "unavailable", !.checked = p.at]
        wanted == SetGate(p, TRUE, FALSE)
    IN  /\ p.pc = "book"
        /\ \E added \in {{}} \cup (IF Revised(t) THEN SUBSET NewRecords(t) ELSE {}) :
              events' = [events EXCEPT ![t] = @ \cup added]
        /\ liveRows' = [liveRows EXCEPT ![t] = Flush(p.row, target, @)]
        /\ gate' = Flush(Image(p.gate, gate), wanted, gate)
        /\ Continue(w, Committed(Handled([p EXCEPT !.gate = wanted])))
        /\ UNCHANGED <<moment, state, slotOf, told, overlapped, redone, settled>>

-----------------------------------------------------------------------------
(* The exchange, the operator and time. *)

\* A record appears, or replaces the one it revises.
Settlement(t, r) ==
    /\ r \notin settled[t]
    /\ settled' = [settled EXCEPT ![t] = {e \in @ : e.id # r.id} \cup {r}]
    /\ UNCHANGED <<moment, accountVars, pass>>

\* PATCH: the operator lifts the emergency block.
LiftBlock ==
    /\ gate.block /\ gate' = [gate EXCEPT !.block = FALSE]
    /\ UNCHANGED <<moment, liveRows, events, state, slotOf, pass, settled, told, overlapped, redone>>

TickFunding == moment < LedgerEnd /\ moment' = moment + 1 /\ UNCHANGED <<accountVars, pass, settled>>

WorkerStep(w) ==
    \/ StartPass(w) \/ ListClosed(w) \/ EndPass(w)
    \/ \E t \in LiveTrades :
          Audit(w, t) \/ Finalize(w, t) \/ StillHeld(w, t) \/ Revisit(w, t) \/ GiveUpTurn(w, t)
    \/ FundingLock(w) \/ ReadLadder(w) \/ BookFunding(w) \/ FailFunding(w)
FundingNext ==
    \/ \E w \in Workers : WorkerStep(w)
    \/ \E t \in LiveTrades : \E r \in Settlements[t] : Settlement(t, r)
    \/ LiftBlock \/ TickFunding
FundingSpec == FundingInit /\ [][FundingNext]_fundingVars

-----------------------------------------------------------------------------
(* Correctness. *)

\* What a row says of its funding is the sum of its ledger, which holds each event once.
SumsRight(t) ==
    /\ liveRows[t].status \in {"pending", "reconciled"} => liveRows[t].funding = Sum(events[t])
    /\ \A e, f \in events[t] : e.id = f.id => e = f
\* Its net result includes that funding, unless it says that it does not.
NetRight(t) ==
    liveRows[t].source \in {"provisional", "final"}
        => /\ liveRows[t].net = Fills[t] + liveRows[t].funding
           /\ liveRows[t].result = ResultOf(liveRows[t].net)
\* Of a trade that one thread finalized, the ladder is given the result once, and never
\* before it is final.  Of a trade that two threads finalized this says nothing: it may
\* be given its result again, as ResultToldOnce shows.
Times(t) == Cardinality({i \in DOMAIN told : told[i].trade = t})
ToldOnce(t) ==
    t \notin redone => /\ Times(t) <= 1
                       /\ liveRows[t].source = "final" => Times(t) = 1
                       /\ liveRows[t].source \in {"fills", "provisional"} => Times(t) = 0
\* The ladder's streak is that of the results it was given, as long as each was added to
\* an image that was still true; once two passes have overlapped this says nothing.
StreakAfter(n, result) == Reported([NoLoss EXCEPT !.losses = n], result).losses
\* Each result's streak from the one before it: the fold of told, without recursion.
Streaks ==
    {n \in [0..Len(told) -> 0..(LossLimit - 1)] :
        n[0] = 0 /\ \A i \in 1..Len(told) : n[i] = StreakAfter(n[i - 1], told[i].result)}
StreakRight == overlapped \/ \E n \in Streaks : state.losses = n[Len(told)]

\* Whatever workers, late and revised records, failed answers and crashes do,
\* PositionGuardian.funding sums each settlement once and keeps the net result in step
\* with its ledger.  The recovery ladder is given the final result of a trade once where
\* one thread finalized it, and its streak is right while no two passes overlapped: the
\* two cases in which the code goes wrong are excepted here.
LedgerTrue == StreakRight /\ \A t \in LiveTrades : SumsRight(t) /\ NetRight(t) /\ ToldOnce(t)

\* research/SAFETY_RESEARCH_REPORT_RU.md: the win or loss of a new live close is applied
\* once, after its funding is reconciled.  PositionGuardian.funding applies it again when
\* a second thread has finalized the trade in between, on an image from before the close.
ResultToldOnce == \A t \in LiveTrades : Times(t) <= 1
=============================================================================
