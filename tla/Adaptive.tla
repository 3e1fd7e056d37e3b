-------------------------------- MODULE Adaptive --------------------------------
(***************************************************************************)
(* The experimental paper strategies: AdaptiveBookV1, AdaptiveBookV2 and   *)
(* AdaptiveTrendV3.  They stand between the consensus signal and an entry, *)
(* and watch the open trade for a reason to leave.  A signal or a reversal *)
(* counts only when enough distinct books confirm it for long enough; the  *)
(* memory of an entry is a class attribute, the memory of an exit is kept  *)
(* in the row of the trade.                                                *)
(*                                                                         *)
(* Books arrive late, twice and out of order.  An evaluation sees one book *)
(* of the configured exchange (its source time and mid price) and what the *)
(* consensus says at that moment.  What PaperLifecycle models (delayed     *)
(* fills, take profit and stop loss) is here an entry or a close at once.  *)
(***************************************************************************)
EXTENDS Integers, Sequences, FiniteSets, SequencesExt

CONSTANTS
    Views,              \* what the consensus may say: [dir, ok, firm]
    Ages, Mids, Results,   \* ages and mid prices of a book, results of the open trade
    MinBooks, MinSpan,  \* per version: distinct books and seconds of an entry or renewal
    ExitSpan,           \* per version: seconds of an exit
    ExitGap,            \* per version: the longest pause between two books of an exit
    MaxAge,             \* max_snapshot_age_seconds
    MaxHold,            \* max_hold_seconds
    Trail,              \* margin times trailing_margin_percent, 0 when it is off
    TrendFresh, TrendGap, TrendMin, TrendMax,  \* 5, 5, 60 and 65 seconds
    AdaptiveEnd, MaxCloses                     \* bounds of the model

Versions == {"v1", "v2", "v3"}

\* A view is what the consensus says of one evaluation; ages may be negative, the age of
\* a book from the future.  The other constants are numbers of books or of seconds.
ASSUME AdaptiveAssumption ==
    /\ Views \subseteq [dir : {"none", "long", "short"}, ok : BOOLEAN, firm : BOOLEAN]
    /\ Ages \subseteq Int /\ Results \subseteq Int
    /\ {MinBooks, MinSpan, ExitSpan, ExitGap} \subseteq [Versions -> Int]
    /\ {MaxAge, MaxHold, Trail, TrendFresh, TrendGap, TrendMin, TrendMax, AdaptiveEnd, MaxCloses} \subseteq Nat

Never == -1
NoHistory == [side |-> "none", first |-> Never, last |-> Never, count |-> 0]
NoRenewal == [id |-> 0, first |-> Never, last |-> Never, count |-> 0, armed |-> FALSE]
NoTrade == [side |-> "none", opened |-> Never, last |-> Never, peak |-> 0, kind |-> "none",
            since |-> Never, count |-> 0]
NoClosed == [id |-> 0, side |-> "none", at |-> Never]

VARIABLES
    now, version,
    history,    \* _history of the configuration
    renewal,    \* _renewal of the configuration
    trend,      \* _trend: <<source, mid>>, oldest first
    trade,      \* the open trade with its experiment_exit_state
    closed,     \* the last closed trade of the session
    entryProof, renewalProof, exitProof  \* history variables: the books that confirmed

memory == <<history, renewal, trend>>
proofs == <<entryProof, renewalProof, exitProof>>
adaptiveVars == <<now, version, memory, trade, closed, proofs>>

NoProof == [side |-> "none", at |-> {}]

AdaptiveInit ==
    /\ now = 1
    /\ version \in Versions
    /\ history = NoHistory /\ renewal = NoRenewal /\ trend = << >>
    /\ \/ trade = NoTrade /\ closed \in {NoClosed, [id |-> 1, side |-> "long", at |-> 0]}
       \/ trade = [NoTrade EXCEPT !.side = "long", !.opened = 0] /\ closed = NoClosed
    /\ entryProof = NoProof /\ renewalProof = {} /\ exitProof = {}

Fresh(src) == src <= now /\ now - src <= MaxAge

-----------------------------------------------------------------------------
(* Entries. *)

\* AdaptiveBookV1.entry: the evaluation confirms the direction of the consensus.
Confirms(v, src) == Fresh(src) /\ v.ok /\ v.dir # "none" /\ v.firm

\* Faulty variant of Counted: a book that is seen again counts again.
CountedTwice(h, v, src) ==
    IF h.side # v.dir \/ src < h.last \/ src - h.last > MaxAge
    THEN [side |-> v.dir, first |-> src, last |-> src, count |-> 1]
    ELSE [h EXCEPT !.last = src, !.count = @ + 1]
\* The history after a confirming book: it starts again when the side changes, when
\* books go back in time and after a pause.
Counted(h, v, src) ==
    IF h.side # v.dir \/ src < h.last \/ src - h.last > MaxAge
    THEN [side |-> v.dir, first |-> src, last |-> src, count |-> 1]
    ELSE IF src > h.last THEN [h EXCEPT !.last = src, !.count = @ + 1] ELSE h

HistoryAfter(h, v, src) == IF Confirms(v, src) THEN Counted(h, v, src) ELSE NoHistory

Selects(h) ==
    /\ h.side # "none"
    /\ h.last - h.first >= MinSpan[version] /\ h.count >= MinBooks[version]

\* classification of AdaptiveBookV2.
Classification(side, v) ==
    IF ~v.ok THEN "unavailable" ELSE IF v.dir = "none" THEN "neutral"
    ELSE IF v.dir = side THEN "same" ELSE "reversal"

\* AdaptiveBookV2.entry: after a close the old signal must first have gone away.
NeedsRenewal == version # "v1" /\ closed.id > 0
RenewalOfClosed == IF renewal.id = closed.id THEN renewal ELSE [NoRenewal EXCEPT !.id = closed.id]

Renews(v, src) ==
    /\ closed.at < src /\ Fresh(src)
    /\ Classification(closed.side, v) \in {"neutral", "reversal"}

RenewalAfter(r, v, src) ==
    LET broken == r.last # Never /\ (src <= r.last \/ src - r.last > MaxAge)
        first == IF broken \/ r.first = Never THEN src ELSE r.first
        count == IF broken THEN 1 ELSE r.count + 1
    IN  IF ~Renews(v, src) THEN [r EXCEPT !.count = 0, !.first = Never, !.last = Never]
        ELSE IF r.last = src THEN r
        ELSE [r EXCEPT !.first = first, !.last = src, !.count = count,
                       !.armed = count >= MinBooks[version] /\ src - first >= MinSpan[version]]

\* AdaptiveTrendV3.trend: the price has moved with the side since a minute ago.
TrendRefuses(src) ==
    \/ src > now \/ now - src > TrendFresh
    \/ trend # << >> /\ src < Last(trend)[1]

\* A pause starts the prices again; a book that is known keeps its price.
Added(src, mid) ==
    LET known == IF trend # << >> /\ src - Last(trend)[1] > TrendGap THEN << >> ELSE trend
    IN  IF known = << >> \/ src > Last(known)[1] THEN Append(known, <<src, mid>>) ELSE known

\* Rows are dropped on the left as long as the first is too old.
Kept(src, mid) ==
    LET rows == Added(src, mid)
        young == {i \in DOMAIN rows : src - rows[i][1] <= TrendMax}
    IN  SubSeq(rows, Min(young), Len(rows))

TrendAfter(src, mid) == IF TrendRefuses(src) THEN trend ELSE Kept(src, mid)

Along(side, from, to) == IF side = "long" THEN to > from ELSE to < from

TrendConfirms(side, src, mid) ==
    LET rows == Kept(src, mid)
        anchors == {i \in DOMAIN rows : src - rows[i][1] >= TrendMin}
    IN  /\ ~TrendRefuses(src)
        /\ anchors # {} /\ side \in {"long", "short"}
        /\ Along(side, rows[Max(anchors)][2], Last(rows)[2])

-----------------------------------------------------------------------------
(* Exits. *)

Trailing(peak, pnl) == Trail > 0 /\ peak > 0 /\ pnl <= peak - Trail

Larger(a, b) == IF a > b THEN a ELSE b
Forgotten(t) == [t EXCEPT !.since = Never, !.count = 0]
Paused(t, src) == t.last # Never /\ src - t.last > ExitGap[version]
Marked(t, kind, src) ==
    [t EXCEPT !.kind = kind, !.since = IF @ = Never THEN src ELSE @, !.count = @ + 1]

\* exit_decision of V1, which is asked only while the consensus is available: the
\* direction is lost or the profit trails.
WatchV1(t, v, src, pnl) ==
    LET u == [(IF Paused(t, src) THEN Forgotten(t) ELSE t)
              EXCEPT !.last = src, !.peak = Larger(t.peak, pnl)]
    IN  IF ~v.ok \/ src > now \/ src <= t.last THEN t
        ELSE IF v.dir # t.side \/ Trailing(u.peak, pnl) THEN Marked(u, "none", src)
        ELSE Forgotten(u)

\* Faulty variant of WatchV2: an unavailable consensus leaves the evidence alone.
WatchV2Blind(t, v, src, pnl) ==
    LET u == [(IF Paused(t, src) THEN Forgotten(t) ELSE t)
              EXCEPT !.last = src, !.peak = Larger(t.peak, pnl)]
        kind == IF Trailing(u.peak, pnl) THEN "trailing" ELSE "reversal"
    IN  IF ~v.ok \/ ~Fresh(src) \/ src <= t.last THEN t
        ELSE IF ~Trailing(u.peak, pnl) /\ Classification(t.side, v) # "reversal"
        THEN [Forgotten(u) EXCEPT !.kind = "none"]
        ELSE Marked(IF t.kind = kind THEN u ELSE Forgotten(u), kind, src)
\* exit_decision of V2 and V3: a confirmed reversal or a trailing profit, not both mixed.
WatchV2(t, v, src, pnl) ==
    LET u == [(IF Paused(t, src) THEN Forgotten(t) ELSE t)
              EXCEPT !.last = src, !.peak = Larger(t.peak, pnl)]
        kind == IF Trailing(u.peak, pnl) THEN "trailing" ELSE "reversal"
    IN  IF ~v.ok \/ ~Fresh(src) THEN Forgotten(t)
        ELSE IF src <= t.last THEN t
        ELSE IF ~Trailing(u.peak, pnl) /\ Classification(t.side, v) # "reversal"
        THEN [Forgotten(u) EXCEPT !.kind = "none"]
        ELSE Marked(IF t.kind = kind THEN u ELSE Forgotten(u), kind, src)

Watched(v, src, pnl) == IF version = "v1" THEN WatchV1(trade, v, src, pnl) ELSE WatchV2(trade, v, src, pnl)

\* The decision of this book, not of an earlier one.
Confirmed(t, src) ==
    /\ t # trade /\ t.count > 0 /\ t.last = src
    /\ t.count >= MinBooks[version] /\ src - t.since >= ExitSpan[version]

Held == now - trade.opened >= MaxHold

-----------------------------------------------------------------------------
(* Actions. *)

\* signal: one evaluation without an open trade.  A selected side is traded or is
\* refused, by the hurdle of its costs or further on.
Evaluate(src, v, mid) ==
    LET waiting == NeedsRenewal /\ ~RenewalOfClosed.armed
        kept == IF NeedsRenewal /\ renewal.id # closed.id THEN NoHistory ELSE history
        h == HistoryAfter(kept, v, src)
        selected == /\ ~waiting /\ Selects(h)
                    /\ version = "v3" => TrendConfirms(v.dir, src, mid)
    IN  /\ trade = NoTrade
        /\ history' = IF waiting THEN NoHistory ELSE h
        /\ renewal' = IF waiting THEN RenewalAfter(RenewalOfClosed, v, src) ELSE renewal
        /\ trend' = IF version = "v3" THEN TrendAfter(src, mid) ELSE trend
        /\ trade' \in {NoTrade} \cup (IF selected
                                      THEN {[NoTrade EXCEPT !.side = v.dir, !.opened = now]} ELSE {})
        /\ entryProof' = IF waiting \/ ~Confirms(v, src) THEN NoProof
                         ELSE [side |-> v.dir,
                               at   |-> {src} \cup (IF entryProof.side = v.dir THEN entryProof.at ELSE {})]
        /\ renewalProof' = IF ~waiting THEN renewalProof
                           ELSE IF Renews(v, src) THEN renewalProof \cup {src} ELSE {}
        /\ exitProof' = {}
        /\ UNCHANGED <<now, version, closed>>

Close == /\ trade' = NoTrade
         /\ closed' = [id |-> closed.id + 1, side |-> trade.side, at |-> now]
         /\ renewalProof' = {}

Weakens(v, pnl) ==
    \/ IF version = "v1" THEN v.dir # trade.side ELSE Classification(trade.side, v) = "reversal"
    \/ Trailing(Larger(trade.peak, pnl), pnl)

\* The books that have spoken against the trade since one spoke for it.  V1 asks only that
\* a book is not from the future; V2 and V3 drop what they have when one is old.
Evidence(v, src, pnl) ==
    IF ~v.ok \/ (IF version = "v1" THEN src > now ELSE ~Fresh(src))
    THEN (IF version = "v1" THEN exitProof ELSE {})
    ELSE IF src <= trade.last THEN exitProof
    ELSE IF Weakens(v, pnl) THEN exitProof \cup {src} ELSE {}

\* evaluate_open_trade after take profit and stop loss have said no.
Manage(src, v, pnl) ==
    LET t == Watched(v, src, pnl)
    IN  /\ trade # NoTrade /\ closed.id < MaxCloses
        /\ IF Held \/ Confirmed(t, src) THEN Close
           ELSE trade' = t /\ UNCHANGED <<closed, renewalProof>>
        /\ exitProof' = Evidence(v, src, pnl)
        /\ UNCHANGED <<now, version, memory, entryProof>>

\* Take profit, stop loss or a close by hand.
CloseOtherwise ==
    /\ trade # NoTrade /\ closed.id < MaxCloses
    /\ Close /\ exitProof' = {}
    /\ UNCHANGED <<now, version, memory, entryProof>>

\* A rejected risk, a disabled configuration or a missing book resets only V1.
ResetV1 ==
    /\ version = "v1" /\ trade = NoTrade
    /\ history' = NoHistory
    /\ UNCHANGED <<now, version, renewal, trend, trade, closed, proofs>>

\* stop forgets the entries of all versions and the renewal of V3.
StopAdaptive ==
    /\ history' = NoHistory /\ trend' = << >>
    /\ renewal' = IF version = "v3" THEN NoRenewal ELSE renewal
    /\ renewalProof' = IF version = "v3" THEN {} ELSE renewalProof
    /\ UNCHANGED <<now, version, trade, closed, entryProof, exitProof>>

\* A restart loses the class attributes; the state of an exit is in the row.
RestartAdaptive ==
    /\ history' = NoHistory /\ renewal' = NoRenewal /\ trend' = << >>
    /\ renewalProof' = {} /\ entryProof' = NoProof
    /\ UNCHANGED <<now, version, trade, closed, exitProof>>

TickAdaptive ==
    /\ now < AdaptiveEnd
    /\ now' = now + 1
    /\ UNCHANGED <<version, memory, trade, closed, proofs>>

AdaptiveNext ==
    \/ ResetV1 \/ StopAdaptive \/ RestartAdaptive \/ CloseOtherwise \/ TickAdaptive
    \/ \E age \in Ages, v \in Views :
         \/ \E mid \in (IF version = "v3" THEN Mids ELSE {0}) : now >= age /\ Evaluate(now - age, v, mid)
         \/ \E pnl \in Results : now >= age /\ Manage(now - age, v, pnl)

AdaptiveSpec == AdaptiveInit /\ [][AdaptiveNext]_adaptiveVars

-----------------------------------------------------------------------------
(* Correctness. *)

\* What "confirmed" means, whatever the counters say: n distinct books, no two
\* neighbours further apart than gap, that span the time.
Persistent(books, n, span, gap) ==
    \E lo, hi \in books :
        LET between == {b \in books : lo <= b /\ b <= hi}
        IN  /\ hi - lo >= span /\ Cardinality(between) >= n
            /\ \A b \in between \ {hi} : \E c \in between : b < c /\ c - b <= gap

\* A trade is opened only on a signal that enough distinct books have confirmed without
\* one contradiction, after a close only when the old signal had gone away as long, and
\* by V3 only along a price move over an unbroken minute: whatever books are repeated,
\* late or out of order, and whatever a stop or a restart has forgotten.
EntryWarranted ==
    (trade = NoTrade /\ trade' # NoTrade) =>
        /\ trade'.side = entryProof'.side
        /\ Persistent(entryProof'.at, MinBooks[version], MinSpan[version], MaxAge)
        /\ NeedsRenewal => Persistent(renewalProof, MinBooks[version], MinSpan[version], MaxAge)
        /\ version = "v3" =>
             \E i \in DOMAIN trend' :
                /\ Last(trend')[1] - trend'[i][1] \in TrendMin..TrendMax
                /\ Along(trade'.side, trend'[i][2], Last(trend')[2])
                /\ \A j \in i..(Len(trend') - 1) : trend'[j + 1][1] - trend'[j][1] \in 1..TrendGap
EntryEarned == [][EntryWarranted]_adaptiveVars

\* An experimental exit before max_hold_seconds has the same kind of evidence: enough
\* distinct books that all spoke against the trade.  The evidence survives a restart; for
\* V2 and V3 an unavailable consensus destroys it.
ExitWarranted ==
    (trade # NoTrade /\ trade' = NoTrade /\ ~Held) =>
        \A age \in Ages, v \in Views, pnl \in Results :
            now >= age /\ Manage(now - age, v, pnl) =>
                Persistent(exitProof', MinBooks[version], ExitSpan[version], ExitGap[version])
ExitEarned == [][ExitWarranted]_adaptiveVars
=============================================================================
