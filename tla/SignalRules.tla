------------------------------ MODULE SignalRules ------------------------------
(***************************************************************************)
(* The pure part of an evaluation: what one stored futures book says       *)
(* (exchange_feature, features), what the books of all exchanges say       *)
(* together (consensus_snapshot, SignalRules.py), and the filters a signal *)
(* passes before it becomes an entry (SignalFeedbackService,               *)
(* profit_protection_rejection, confirmation_reject_reason).               *)
(*                                                                         *)
(* A book is [src, imb, mid, kind]: its source time in seconds, its        *)
(* bid/ask volume ratio in units of the thresholds, its mid price in       *)
(* ticks, and what else makes it acceptable or not.  A price history is    *)
(* the sequence of points [src, mid] the momentum window reads.            *)
(***************************************************************************)
EXTENDS Integers, Sequences, FiniteSets, TLC, SequencesExt

CONSTANTS
    None,
    MaxAge,             \* max_snapshot_age_seconds
    Tolerance,          \* how far a source time may lie ahead of the evaluation
    Window, WindowSpan, \* momentum_window_snapshots; its 10 seconds
    LongAbove, ShortUpTo, \* long_ and short_imbalance_threshold
    AnomalyMin, AnomalyMax, \* imbalance_anomaly_min and _max, excluded when crossed
    MinValid, MinConfirming, MinRatio,  \* the consensus, the ratio in percent
    Lookback, StreakLimit, SideCooldown, \* feedback_lookback_trades, side_loss_streak_limit, ...
    MinWinRate, RatioBoost, ValidBoost,
    QualityLookback, QualityCooldown,   \* side_quality_*
    MinDelta            \* confirmation_min_momentum_delta

VARIABLE
    on  \* what the configuration switches on, see Switches

ASSUME WindowAssumption == Window \in Nat \ {0} /\ WindowSpan \in Nat
ASSUME LookbackAssumption ==
    StreakLimit \in Nat \ {0} /\ Lookback \in Nat /\ Lookback >= StreakLimit /\ SideCooldown \in Nat

\* use_median_imbalance, require_configured_exchange_signal, exclude_anomalous_imbalance,
\* confirmation_require_momentum_improvement, feedback_enabled, side_quality_filter_enabled.
Switches == {"median", "main", "exclude", "improve", "feedback", "quality"}

Sides == {"long", "short"}
Sign(side) == IF side = "long" THEN 1 ELSE -1
Scale == 60  \* a price ratio is kept as a whole number of sixtieths

Total(s) == FoldLeft(LAMBDA a, b: a + b, 0, s)
Newest(n, s) == SubSeq(s, 1, IF Len(s) < n THEN Len(s) ELSE n)

-----------------------------------------------------------------------------
(* One book. *)

\* Faulty variant of Stale: only the time of arrival counts.
StaleOnArrival(book, received, at) == at - received > MaxAge
\* The age of a book is the greater of its own and that of its arrival.
Stale(book, received, at) == at - book.src > MaxAge \/ at - received > MaxAge
Ahead(book, at) == book.src > at + Tolerance

\* The checks of exchange_feature that come before the book is looked into.
Early(book, received, at) ==
    \/ book.kind = "spot"          \* incompatible_futures_snapshot
    \/ Ahead(book, at)
    \/ Stale(book, received, at)
    \/ book.kind = "broken"        \* the normaliser refuses it

\* Faulty variant of Record: the history is never cut to the window.
RecordAll(points, book) ==
    IF points = << >> \/ book.src > Last(points).src
    THEN Append(points, [src |-> book.src, mid |-> book.mid]) ELSE points
\* features: a mid price joins the history only when its source time is newer.
Record(points, book) ==
    IF points = << >> \/ book.src > Last(points).src
    THEN LET all == Append(points, [src |-> book.src, mid |-> book.mid])
         IN  SubSeq(all, IF Len(all) > Window THEN Len(all) - Window + 1 ELSE 1, Len(all))
    ELSE points

\* exchange_feature records the price of every book it looks into, also of the
\* one it then rejects for its spread or its imbalance.
Recorded(points, book, received, at) ==
    IF Early(book, received, at) THEN points ELSE Record(points, book)

Momentum(points) ==
    LET near == SelectSeq(points, LAMBDA p: Last(points).src - p.src <= WindowSpan)
    IN  IF Len(near) < 2 THEN 0
        ELSE (Last(near).mid * Scale) \div near[1].mid - Scale

Anomalous(book) == book.imb < AnomalyMin \/ book.imb > AnomalyMax

\* A spread that is too wide is found before an anomalous imbalance, which
\* alone takes the two signals back, where anomalies are excluded at all.
Row(book, points, received, at) ==
    LET looked == ~Early(book, received, at)
        excluded == "exclude" \in on /\ Anomalous(book)
    IN  [valid    |-> looked /\ book.kind # "wide" /\ ~excluded,
         imb      |-> book.imb,
         momentum |-> IF looked THEN Momentum(points) ELSE 0,
         long     |-> looked /\ book.imb > LongAbove /\ (excluded => book.kind = "wide"),
         short    |-> looked /\ book.imb <= ShortUpTo /\ (excluded => book.kind = "wide")]

-----------------------------------------------------------------------------
(* All books together. *)

\* The k-th smallest imbalance of the rows in ok, and twice their median.
Kth(rows, ok, k) ==
    CHOOSE v \in {rows[p].imb : p \in ok} :
        /\ Cardinality({p \in ok : rows[p].imb < v}) < k
        /\ Cardinality({p \in ok : rows[p].imb <= v}) >= k

Median2(rows, ok) ==
    LET n == Cardinality(ok) IN Kth(rows, ok, (n + 1) \div 2) + Kth(rows, ok, n \div 2 + 1)

\* rows is a function from the pairs with a stored book to their rows.
Consensus(rows, main) ==
    LET ok == {p \in DOMAIN rows : rows[p].valid}
        n == Cardinality(ok)
        count == [s \in Sides |-> Cardinality({p \in ok : rows[p][s]})]
        known == main \in DOMAIN rows
    IN  [valid     |-> n,
         count     |-> count,
         ratio     |-> [s \in Sides |-> IF n = 0 THEN 0 ELSE (100 * count[s]) \div n],
         median2   |-> IF n = 0 THEN None ELSE Median2(rows, ok),
         momentum  |-> MapThenSumSet(LAMBDA p: rows[p].momentum, ok),
         mainValid |-> known /\ rows[main].valid,
         mainSide  |-> [s \in Sides |-> known /\ rows[main][s]]]

\* Faulty variant of MedianAgrees: a median on the long threshold is a long one.
MedianFrom(c, side) ==
    /\ c.median2 # None
    /\ IF side = "long" THEN c.median2 >= 2 * LongAbove ELSE c.median2 <= 2 * ShortUpTo
MedianAgrees(c, side) ==
    /\ c.median2 # None
    /\ IF side = "long" THEN c.median2 > 2 * LongAbove ELSE c.median2 <= 2 * ShortUpTo

\* consensus_side: the long side is tried first.
Carries(c, side) ==
    /\ c.count[side] >= MinConfirming
    /\ c.ratio[side] >= MinRatio
    /\ c.momentum * Sign(side) > 0
    /\ "median" \in on => MedianAgrees(c, side)
    /\ "main" \in on => c.mainSide[side]

ConsensusSide(c) ==
    IF c.valid < MinValid \/ ~c.mainValid \/ ("median" \in on /\ c.median2 = None) THEN None
    ELSE IF Carries(c, "long") THEN "long"
    ELSE IF Carries(c, "short") THEN "short"
    ELSE None

\* direction_rejections: the reasons shown to the operator for each side.
Rejections(c, side) ==
    {r \in {"valid", "main", "count", "ratio", "momentum", "median", "mainSide"} :
        CASE r = "valid"    -> c.valid < MinValid
          [] r = "main"     -> ~c.mainValid
          [] r = "count"    -> c.count[side] < MinConfirming
          [] r = "ratio"    -> c.ratio[side] < MinRatio
          [] r = "momentum" -> c.momentum * Sign(side) <= 0
          [] r = "median"   -> /\ "median" \in on
                               /\ \/ c.median2 = None
                                  \/ IF side = "long" THEN c.median2 <= 2 * LongAbove
                                                      ELSE c.median2 > 2 * ShortUpTo
          [] OTHER          -> "main" \in on /\ ~c.mainSide[side]}

\* side_decision_audit: consensus_passed of a side and not blocked by the configured
\* exchange.  It asks for the median whatever use_median_imbalance says.
AuditPasses(c, side) ==
    /\ c.valid >= MinValid
    /\ c.count[side] >= MinConfirming /\ c.ratio[side] >= MinRatio
    /\ c.momentum * Sign(side) > 0
    /\ MedianAgrees(c, side)
    /\ "main" \in on => c.mainSide[side]

-----------------------------------------------------------------------------
(* The filters.  trades lists the closed trades, the newest first, each    *)
(* [side, at, pnl, few]: few when fewer than three exchanges were valid.   *)

\* The closed trades of a side, in the order they have in trades.
OfSide(trades, side) ==
    LET kept[n \in 0..Len(trades)] ==
            IF n = 0 THEN << >>
            ELSE IF trades[n].side = side THEN Append(kept[n - 1], trades[n]) ELSE kept[n - 1]
    IN  kept[Len(trades)]

\* The first trade that is not a loss ends the streak.
LossStreak(recent) ==
    LET others == {i \in DOMAIN recent : recent[i].pnl >= 0}
    IN  IF others = {} THEN Len(recent) ELSE (CHOOSE i \in others : \A j \in others : i <= j) - 1

\* Faulty variant of Resting: one loss more than the limit is needed.
RestingLate(recent, at) ==
    /\ recent # << >>
    /\ LossStreak(recent) > StreakLimit
    /\ at < recent[1].at + SideCooldown
\* A streak of losses rests its side from the newest loss on.
Resting(recent, at) ==
    /\ recent # << >>
    /\ LossStreak(recent) >= StreakLimit
    /\ at < recent[1].at + SideCooldown

\* SignalFeedbackService.evaluate; a signal of ConsensusSide has a momentum of at
\* least a sixtieth, so the refusal of a momentum below 0.000001 never applies.
FeedbackAllows(trades, side, c, at) ==
    LET recent == Newest(Lookback, OfSide(trades, side))
        losses == Newest(5, SelectSeq(recent, LAMBDA t: t.pnl < 0))
        twenty == Newest(20, OfSide(trades, side))
        won == Len(SelectSeq(twenty, LAMBDA t: t.pnl > 0))
        ratio == IF twenty # << >> /\ 100 * won < MinWinRate * Len(twenty)
                 THEN (IF MinRatio + RatioBoost > 100 THEN 100 ELSE MinRatio + RatioBoost)
                 ELSE MinRatio
        losing == Total([i \in DOMAIN recent |-> recent[i].pnl]) < 0
        base == MinValid + (IF losing THEN ValidBoost ELSE 0)
        valid == IF base < 3 /\ \E i \in DOMAIN losses : losses[i].few THEN 3 ELSE base
    IN  "feedback" \in on => /\ ~Resting(recent, at)
                             /\ c.ratio[side] >= ratio
                             /\ c.valid >= valid

\* side_quality_filter_result.
QualityPasses(trades, side, at) ==
    LET recent == Newest(QualityLookback, OfSide(trades, side))
    IN  ~ /\ "quality" \in on
          /\ recent # << >>
          /\ Len(recent) >= QualityLookback
          /\ Total([i \in DOMAIN recent |-> recent[i].pnl]) < 0
          /\ at < recent[1].at + QualityCooldown

\* The signal that is left when risk_rejection, the feedback and the profit
\* protection have been asked; the momentum confirmation of the latter repeats
\* what Carries demands.
Signal(c, trades, at) ==
    LET side == ConsensusSide(c)
    IN  IF side # None /\ FeedbackAllows(trades, side, c, at) /\ QualityPasses(trades, side, at)
        THEN side ELSE None

\* The average momentum has not fallen short of the first one, by the given delta.
Improves(pending, c) ==
    c.momentum * Sign(pending.side) * pending.valid
        >= (pending.momentum * Sign(pending.side) + MinDelta * pending.valid) * c.valid

\* confirmation_reject_reason.  Its switches for the direction and for a consensus that
\* is still valid change the reason only: another signal is refused in any case, and the
\* same one needs a valid book of the configured exchange (ConsensusSide).
Confirms(pending, signal, c) ==
    /\ c.mainValid
    /\ signal = pending.side
    /\ c.valid >= MinValid
    /\ c.count[pending.side] >= MinConfirming
    /\ c.ratio[pending.side] >= MinRatio
    /\ c.momentum * Sign(pending.side) > 0
    /\ "improve" \in on => Improves(pending, c)
=============================================================================
