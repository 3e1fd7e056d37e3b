------------------------------ MODULE Observation ------------------------------
(***************************************************************************)
(* What a paper trade of an experimental strategy costs, fills at and is   *)
(* measured by.  Order books are normalised and consumed level by level;   *)
(* the amount is rounded down to contract lots; while the trade is open    *)
(* its executable exit quotes are recorded at fixed ages, and after it has *)
(* closed, or was cancelled before its fill, the price is followed for a   *)
(* while.  The state endpoint says why an exit has not been filled yet.    *)
(*                                                                         *)
(* The store keeps the last book that arrived, whatever its source time,   *)
(* so a tick may see a book twice, late or out of order.  The scanner      *)
(* stores books while a tick of the worker runs: the tick of an open trade *)
(* values one book and takes the source time of the one it finds after     *)
(* that, which may be the next.                                            *)
(* The reasons for an entry or a close are those of PaperLifecycle and     *)
(* Adaptive; here either may happen at any tick.  The trade is long.       *)
(***************************************************************************)
EXTENDS Integers, Sequences, FiniteSets, SequencesExt, FiniteSetsExt

CONSTANTS
    ObsBooks,       \* [bids, asks, flaw, rules]: levels [price, amount] in any order
    Lags,           \* how far the source time of a book may be behind its arrival
    BookAge,        \* max_snapshot_age_seconds
    Latency,        \* paper_latency_ms
    Notional,       \* margin times leverage, the cap of an entry
    FeePercent, ReservePercent, TargetProfit,   \* the last in units of 1 / 100
    ObsHorizons, ObsWindow,                     \* 15, 30, 60, 120 and 5 seconds
    ObsEnd                                      \* bound of the model

\* Levels and rules are numbers, a step is a positive one; horizons are seconds.
Levels == [price: Int, amount: Int]
ASSUME ObsAssumption ==
    /\ {Notional, Latency, ObsWindow, BookAge} \subseteq Nat /\ FeePercent \in Int
    /\ IsFiniteSet(ObsHorizons) /\ ObsHorizons # {} /\ ObsHorizons \subseteq Nat /\ Lags \subseteq Nat
    /\ \A b \in ObsBooks : /\ b.bids \in Seq(Levels) /\ b.asks \in Seq(Levels)
                           /\ b.rules # << >> => b.rules.step \in Nat \ {0}

Nothing == [cost |-> -1]
NoBook == [src |-> -1, recv |-> -1]
Blanks == [h \in ObsHorizons |-> [status |-> "unobserved", src |-> -1, value |-> 0]]
NoMeasure == [last |-> -1, best |-> 0, worst |-> 0, positive |-> -1, rows |-> Blanks]
NoShadow == [status |-> "none", origin |-> -1, last |-> -1, ref |-> -1, best |-> 0, worst |-> 0, rows |-> Blanks]
NoDeal == [phase |-> "none", opened |-> -1, amount |-> 0, entry |-> 0, requested |-> -1]

VARIABLES
    oclock, book,
    deal,           \* the trade
    measure,        \* entry_quality_measurement of its decision
    shadow,         \* paper_shadow_prices of its decision
    quotes          \* history variable: what was shown to the measurement in progress, a
                    \* cost, the source time given with it, and that of the book valued

obsVars == <<oclock, book, deal, measure, shadow, quotes>>

ObsInit ==
    /\ oclock = 0 /\ book = NoBook /\ deal = NoDeal
    /\ measure = NoMeasure /\ shadow = NoShadow /\ quotes = << >>

-----------------------------------------------------------------------------
(* Books. *)

Larger2(x, y) == IF x > y THEN x ELSE y
Smaller2(x, y) == IF x < y THEN x ELSE y

Usable(level) == level.price > 0 /\ level.amount >= 0

\* OrderBookNormalizer.normalize: every level is usable, both sides have one.
Normal(b) ==
    /\ b.bids # << >> /\ b.asks # << >>
    /\ \A i \in DOMAIN b.bids : Usable(b.bids[i])
    /\ \A i \in DOMAIN b.asks : Usable(b.asks[i])

Prices(levels) == {levels[i].price : i \in DOMAIN levels}
BestBid(b) == Max(Prices(b.bids))
BestAsk(b) == Min(Prices(b.asks))

Better(side, p, q) == IF side = "buy" THEN p < q ELSE p > q

BestOf(levels, side, rest) ==
    CHOOSE i \in rest : \A j \in rest : ~Better(side, levels[j].price, levels[i].price)

\* consume_book: all or nothing, level by level from the best price.
Consume(levels, side, amount) ==
    LET taken[n \in 0..Len(levels)] ==
          IF n = 0 THEN [left |-> amount, cost |-> 0, rest |-> DOMAIN levels]
          ELSE LET old == taken[n - 1]
                   i == BestOf(levels, side, old.rest)
                   q == Smaller2(old.left, levels[i].amount)
               IN  [left |-> old.left - q, cost |-> old.cost + q * levels[i].price, rest |-> old.rest \ {i}]
        all == taken[Len(levels)]
    IN  IF amount > 0 /\ all.left = 0 THEN [cost |-> all.cost] ELSE Nothing

\* executable_amount: whole lots, never more than requested, 0 when a rule forbids it.
Executable(requested, price, rules, cap) ==
    LET amount == (requested \div rules.step) * rules.step
    IN  IF rules = << >> THEN requested
        ELSE IF /\ amount > 0 /\ amount >= rules.least /\ amount <= rules.most
                /\ amount * price >= rules.cost /\ amount * price <= cap
             THEN amount ELSE 0

FeesOf(cost) == FeePercent * cost   \* in units of 1 / 100
Distance(x, y) == IF x > y THEN x - y ELSE y - x

\* costs of AdaptiveBookV1: the round trip through this very book, and its hurdle.
PassesHurdle(b, amount) ==
    LET entry == Consume(b.asks, "buy", amount)
        exit == Consume(b.bids, "sell", amount)
    IN  /\ entry # Nothing /\ exit # Nothing
        /\ TargetProfit >= 100 * Distance(entry.cost, exit.cost) + FeesOf(entry.cost) + FeesOf(exit.cost)
                           + ReservePercent * entry.cost

-----------------------------------------------------------------------------
(* Which book may be used at all. *)

AgeOf(b) == Larger2(oclock - b.src, oclock - b.recv)

Uncrossed(b) == BestAsk(b) >= BestBid(b) /\ \E i \in DOMAIN b.asks : b.asks[i].amount > 0

\* exchange_feature with protective = True, and paper_fill before it.
Executes(b) ==
    /\ b # NoBook /\ b.flaw = "none"
    /\ b.src <= oclock /\ AgeOf(b) <= BookAge
    /\ Normal(b) /\ Uncrossed(b)

\* paper_fill of an exit.
ExitQuote == IF Executes(book) THEN Consume(book.bids, "sell", deal.amount) ELSE Nothing

-----------------------------------------------------------------------------
(* The measurements. *)

NetOf(cost) == 100 * (cost - deal.entry) - FeesOf(cost) - FeesOf(deal.entry)

Reached(row, elapsed, h, src, value) ==
    IF row.status # "unobserved" \/ elapsed < h THEN row
    ELSE IF elapsed > h + ObsWindow THEN [row EXCEPT !.status = "missed_window"]
    ELSE [status |-> "observed", src |-> src, value |-> value]

\* Faulty variant of Observed: a book of an earlier time is taken as well.
ObservedAnyOrder(m, src, value) ==
    LET elapsed == src - deal.opened
    IN  IF src < deal.opened \/ src = m.last THEN m
        ELSE [last |-> src,
              best |-> IF m.last = -1 THEN value ELSE Larger2(m.best, value),
              worst |-> IF m.last = -1 THEN value ELSE Smaller2(m.worst, value),
              positive |-> IF m.positive = -1 /\ value > 0 THEN elapsed ELSE m.positive,
              rows |-> [h \in ObsHorizons |-> Reached(m.rows[h], elapsed, h, src, value)]]
\* observe of PaperEntryMeasurement: the first book in [h, h + window] fills a horizon.
Observed(m, src, value) ==
    LET elapsed == src - deal.opened
    IN  IF src < deal.opened \/ src <= m.last THEN m
        ELSE [last |-> src,
              best |-> IF m.last = -1 THEN value ELSE Larger2(m.best, value),
              worst |-> IF m.last = -1 THEN value ELSE Smaller2(m.worst, value),
              positive |-> IF m.positive = -1 /\ value > 0 THEN elapsed ELSE m.positive,
              rows |-> [h \in ObsHorizons |-> Reached(m.rows[h], elapsed, h, src, value)]]

\* A source time is measured with the quote of this tick.
Measured(src) == IF ExitQuote = Nothing THEN measure ELSE Observed(measure, src, NetOf(ExitQuote.cost))

\* observe of PaperShadowMeasurement: the reference is the first quote after the event.
Followed(s, src, cost) ==
    LET elapsed == src - s.origin
        ref == IF s.ref = -1 THEN cost ELSE s.ref
        change == cost - ref
    IN  IF src < s.origin \/ elapsed > Max(ObsHorizons) + ObsWindow \/ src <= s.last THEN s
        ELSE IF s.ref = -1 /\ elapsed > ObsWindow
             THEN [s EXCEPT !.last = src, !.status = "missing_reference_window"]
             ELSE [s EXCEPT !.last = src, !.status = "observing", !.ref = ref,
                            !.best = IF s.ref = -1 THEN change ELSE Larger2(@, change),
                            !.worst = IF s.ref = -1 THEN change ELSE Smaller2(@, change),
                            !.rows = [h \in ObsHorizons |-> Reached(s.rows[h], elapsed, h, src, change)]]

\* start_paper_shadow.
ShadowStarts == [NoShadow EXCEPT !.status = "awaiting_reference", !.origin = oclock]

\* What the measurement sees, unless it has just seen one of that time.
Shown(src) == IF ExitQuote = Nothing \/ (quotes # << >> /\ Last(quotes).src = src) THEN quotes
              ELSE Append(quotes, [src |-> src, cost |-> ExitQuote.cost, of |-> book.src])

-----------------------------------------------------------------------------
(* The trade. *)

\* One fetch of the scanner brings at most one book a second.
Stored(b, lag) ==
    /\ oclock >= lag /\ book.recv < oclock
    /\ book' = [src |-> oclock - lag, recv |-> oclock, bids |-> b.bids, asks |-> b.asks,
                flaw |-> b.flaw, rules |-> b.rules]

Arrive(b, lag) ==
    /\ Stored(b, lag)
    /\ UNCHANGED <<oclock, deal, measure, shadow, quotes>>

LotsAt(most) ==
    Executable(Smaller2(most, Notional \div BestAsk(book)), BestAsk(book), book.rules, Notional)

\* open_position sizes the entry and keeps it pending.
Enter ==
    /\ deal = NoDeal /\ Executes(book)
    /\ PassesHurdle(book, Notional \div BestAsk(book))
    /\ LotsAt(Notional) > 0
    /\ deal' = [NoDeal EXCEPT !.phase = "pending", !.opened = oclock, !.amount = LotsAt(Notional)]
    /\ UNCHANGED <<oclock, book, measure, shadow, quotes>>

\* The row is closed and its measurement final: the model forgets it.
End ==
    /\ deal' = [NoDeal EXCEPT !.phase = "closed", !.amount = deal.amount]
    /\ shadow' = ShadowStarts
    /\ measure' = NoMeasure /\ quotes' = << >>

\* A pending entry is cancelled: paused, expired, rejected or by hand.
Cancelled == End /\ UNCHANGED <<oclock, book>>

CancelEntry == deal.phase = "pending" /\ Cancelled

\* It is filled from a book after the latency, sized again for that book.
FillEntry ==
    /\ deal.phase = "pending" /\ oclock >= deal.opened + Latency
    /\ Executes(book)
    /\ Latency > 0 => book.src >= deal.opened + Latency
    /\ LET amount == LotsAt(deal.amount)
           fill == Consume(book.asks, "buy", amount)
       IN  IF amount = 0 \/ (fill # Nothing /\ fill.cost > Notional) THEN Cancelled
           ELSE /\ fill # Nothing
                /\ deal' = [deal EXCEPT !.phase = "open", !.opened = oclock, !.amount = amount, !.entry = fill.cost]
                /\ UNCHANGED <<oclock, book, measure, shadow, quotes>>

\* A management tick of an open trade measures: evaluate_open_trade values the book in
\* the store and asks the store again for the source time.
Hold ==
    /\ deal.phase = "open"
    /\ measure' = Measured(book.src) /\ quotes' = Shown(book.src)
    /\ UNCHANGED <<oclock, book, deal, shadow>>

\* A book arrives between the two reads: the old one is valued, the new one gives the time.
TornHold(b, lag) ==
    /\ deal.phase = "open" /\ ExitQuote # Nothing
    /\ Stored(b, lag)
    /\ measure' = Measured(oclock - lag) /\ quotes' = Shown(oclock - lag)
    /\ UNCHANGED <<oclock, deal, shadow>>

\* The tick, or a request, may ask for the close, which measures again, now from one
\* book (measure_pending_exit); with no latency it closes with that quote.
RequestClose ==
    /\ deal.phase = "open" /\ (Latency > 0 \/ ExitQuote = Nothing)
    /\ measure' = Measured(book.src) /\ quotes' = Shown(book.src)
    /\ deal' = [deal EXCEPT !.phase = "closing", !.requested = oclock]
    /\ UNCHANGED <<oclock, book, shadow>>

\* The book close_trade would fill from.
ExitFills == /\ ExitQuote # Nothing /\ oclock >= deal.requested + Latency
             /\ Latency > 0 => book.src >= deal.requested + Latency

\* A tick of a requested close measures first and fills if it can.
CloseTick ==
    /\ deal.phase = "closing" \/ (deal.phase = "open" /\ Latency = 0 /\ ExitQuote # Nothing)
    /\ IF deal.phase = "open" \/ ExitFills THEN End
       ELSE measure' = Measured(book.src) /\ quotes' = Shown(book.src) /\ UNCHANGED <<deal, shadow>>
    /\ UNCHANGED <<oclock, book>>

\* observe_recent_paper_shadows: the worker follows the trades of the last seconds, the
\* twenty latest, and skips a locked one.
ShadowTick ==
    /\ deal.phase = "closed" /\ oclock <= shadow.origin + Max(ObsHorizons) + ObsWindow
    /\ ExitQuote # Nothing
    /\ shadow' = Followed(shadow, book.src, ExitQuote.cost)
    /\ quotes' = Shown(book.src)
    /\ UNCHANGED <<oclock, book, deal, measure>>

TickObservation ==
    /\ oclock < ObsEnd /\ oclock' = oclock + 1
    /\ UNCHANGED <<book, deal, measure, shadow, quotes>>

ObsNext ==
    \/ Enter \/ CancelEntry \/ FillEntry \/ Hold \/ RequestClose \/ CloseTick \/ ShadowTick \/ TickObservation
    \/ \E b \in ObsBooks, lag \in Lags : Arrive(b, lag) \/ TornHold(b, lag)

ObsSpec == ObsInit /\ [][ObsNext]_obsVars

\* exit_diagnostics of the state endpoint.
Diagnosis ==
    IF book = NoBook THEN "missing_execution_book"
    ELSE IF book.flaw # "none" THEN "incompatible_futures_snapshot"
    ELSE IF book.src > oclock THEN "future_book_not_available"
    ELSE IF AgeOf(book) > BookAge THEN "stale_snapshot"
    ELSE IF ~Normal(book) THEN "invalid_price_amount"
    ELSE IF Consume(book.bids, "sell", deal.amount) = Nothing THEN "insufficient_exit_depth"
    ELSE IF deal.phase = "open" THEN "monitoring"
    ELSE IF oclock < deal.requested + Latency THEN "pending_fixed_latency"
    ELSE IF book.src < deal.requested + Latency THEN "no_new_book_after_latency"
    ELSE "awaiting_management_tick"

-----------------------------------------------------------------------------
(* Correctness. *)

\* The quotes that count: each newer than all before it and not older than the origin.
Counting(from) ==
    {i \in DOMAIN quotes : quotes[i].src >= from /\ \A j \in 1..(i - 1) : quotes[j].src < quotes[i].src}

RowTells(row, h, from, counting, value(_)) ==
    LET later == {i \in counting : quotes[i].src >= from + h}
        first == Min(later)
    IN  IF later = {} THEN row.status = "unobserved"
        ELSE IF quotes[first].src <= from + h + ObsWindow
             THEN row = [status |-> "observed", src |-> quotes[first].src, value |-> value(quotes[first].cost)]
             ELSE row.status = "missed_window"

\* While a trade is open, a horizon holds what was first shown under a time that counts
\* if that time falls into the window, and says missed otherwise; best and worst are those
\* of all that counts (PaperEntryMeasurement).  Nothing is interpolated or filled in
\* later.  The value need not be that of the book whose time it carries: it is that of a
\* book which was in the store before, and at most BookAge older than that time.
EntryMeasured ==
    deal.phase \in {"open", "closing"} =>
        LET counting == Counting(deal.opened)
            values == {NetOf(quotes[i].cost) : i \in counting}
        IN  /\ \A h \in ObsHorizons : RowTells(measure.rows[h], h, deal.opened, counting, NetOf)
            /\ counting # {} => measure.best = Max(values) /\ measure.worst = Min(values)
            /\ \A i \in counting : quotes[i].of >= quotes[i].src - BookAge

\* After the end the same holds relative to the first quote in the window of the
\* reference, and without one nothing is observed (PaperShadowMeasurement).
ShadowFollowed ==
    deal.phase = "closed" =>
        LET counting == {i \in Counting(shadow.origin) :
                            quotes[i].src <= shadow.origin + Max(ObsHorizons) + ObsWindow}
            usable == counting # {} /\ quotes[Min(counting)].src <= shadow.origin + ObsWindow
            change(cost) == cost - quotes[Min(counting)].cost
        IN  IF usable
            THEN \A h \in ObsHorizons : RowTells(shadow.rows[h], h, shadow.origin, counting, change)
            ELSE shadow.rows = Blanks /\ shadow.ref = -1

\* The endpoint says that the exit waits for nothing but a tick exactly when a tick would
\* fill it, or would value an open trade, unless the book is crossed or its asks are empty,
\* which only the fill looks at.
DiagnosisAgrees ==
    (deal.phase \in {"open", "closing"} /\ book # NoBook /\ Normal(book) /\ Uncrossed(book)) =>
        IF deal.phase = "open" THEN Diagnosis = "monitoring" <=> ExitQuote # Nothing
        ELSE Latency > 0 => (Diagnosis = "awaiting_management_tick" <=> ExitFills)

\* What is recorded of a trade is what was on offer, at its time or shortly before it.
ObservationTrue == EntryMeasured /\ ShadowFollowed /\ DiagnosisAgrees
=============================================================================
