------------------------------ MODULE MCBackOffice ------------------------------
(***************************************************************************)
(* The instances of the components that stand beside the recovery          *)
(* strategy, checked in one run.  They share no rows, so a behaviour       *)
(* belongs to one of them, its part, and leaves the others as they began.  *)
(***************************************************************************)
EXTENDS SpotDesk, Adaptive, Labeller, Observation, Backtest

VARIABLE part   \* the component that moves

\* Spot: a and d offer what b buys, a with little depth, d with more than the margin.
MCPairs == {"a", "b", "d"}
MCExchange == [p \in MCPairs |-> CASE p = "a" -> "A" [] p = "b" -> "B" [] p = "d" -> "D"]
MCSymbol == [p \in MCPairs |-> "x"]
MCEnabled == {{"a", "b"}, {"d", "b"}}
SpotBook(ask, bid, size) == [ask |-> ask, bid |-> bid, size |-> size, fee |-> 0]
MCSpotBooks == [p \in MCPairs |-> CASE p = "a" -> {SpotBook(3, 2, 1)} [] p = "b" -> {SpotBook(7, 6, 9)}
                                    [] p = "d" -> {SpotBook(3, 2, 9)}]
\* A manual order brings wider limits than the desk's and is filled above the price they
\* are tested at; after it was closed at a loss they refuse another.
MCManual == {[price |-> 6, fill |-> 8, amount |-> 1, margin |-> 7, loss |-> 5]}

\* Adaptive: three books over two seconds confirm.
View(dir, ok, firm) == [dir |-> dir, ok |-> ok, firm |-> firm]
MCViews == {View("long", TRUE, TRUE), View("short", TRUE, TRUE), View("long", TRUE, FALSE), View("none", FALSE, FALSE)}
MCBooksNeeded == [v \in Versions |-> 3]
MCSpan == [v \in Versions |-> 2]
MCGap == [v \in Versions |-> IF v = "v1" THEN 3 ELSE 2]

\* Labels: the own venue alone or with another.
MCQuotes == {[own |-> 2], [own |-> 4, far |-> 2]}

\* Observation: levels out of order, a price at which the lots are too few, a crossed book.
Level(price, amount) == [price |-> price, amount |-> amount]
MCRules == [step |-> 2, least |-> 3, most |-> 8, cost |-> 4]
ObsBook(bids, asks) == [bids |-> bids, asks |-> asks, flaw |-> "none", rules |-> MCRules]
MCObsBooks == {ObsBook(<<Level(8, 1), Level(9, 3)>>, <<Level(10, 4)>>),
               ObsBook(<<Level(14, 1), Level(13, 3)>>, <<Level(15, 1), Level(14, 2)>>),
               ObsBook(<<Level(12, 9)>>, <<Level(11, 9)>>)}

\* Research: candles that rise, fall and stand still (three of these have an average range
\* of zero), and two parameter sets.
Candle(high, low, close) == [high |-> high, low |-> low, close |-> close]
MCShapes == {Candle(13, 9, 12), Candle(12, 8, 9), Candle(10, 10, 10)}
MCConfig == [fast |-> 2, slow |-> 3, rsi |-> 2, longMax |-> 90, shortMin |-> 10, tp |-> 10, sl |-> 10,
             risk |-> 10, tolerance |-> 5, fee |-> 0]
MCConfigs == {MCConfig, [MCConfig EXCEPT !.tp = 20, !.fee = 1]}
MCMarkets == {"m1", "m2"}
MCAccepted == [m \in MCMarkets |-> IF m = "m1" THEN {MCConfig} ELSE {}]
MCShort == {"m2"}

-----------------------------------------------------------------------------
\* A part that does not move begins in one state.
SpotIdle == SpotInit /\ fetch["b"] = "idle" /\ fetch["a"] = "idle"
AdaptiveIdle == AdaptiveInit /\ version = "v1" /\ trade = NoTrade /\ closed = NoClosed
BacktestIdle == BacktestInit /\ config = MCConfig

Parts == {"spot", "adaptive", "labels", "observation", "backtest", "experiments"}
MCInit ==
    /\ part \in Parts
    /\ LabelInit /\ ObsInit
    /\ IF part = "spot" THEN SpotInit ELSE SpotIdle
    /\ IF part = "adaptive" THEN AdaptiveInit ELSE AdaptiveIdle
    /\ IF part \in {"backtest", "experiments"} THEN BacktestInit ELSE BacktestIdle

\* A signal given by hand looks at no pair: it comes where d is enabled.
SpotPart == /\ part = "spot" /\ SpotNext
            /\ fetch["d"] = "off" => \A r \in Runners : runs'[r].order = << >>
            /\ UNCHANGED <<part, adaptiveVars, labelVars, obsVars, researchVars, experimentVars>>
AdaptivePart == /\ part = "adaptive" /\ AdaptiveNext
                /\ UNCHANGED <<part, spotVars, labelVars, obsVars, researchVars, experimentVars>>
LabelPart == /\ part = "labels" /\ LabelNext
             /\ UNCHANGED <<part, spotVars, adaptiveVars, obsVars, researchVars, experimentVars>>
ObsPart == /\ part = "observation" /\ ObsNext
           /\ UNCHANGED <<part, spotVars, adaptiveVars, labelVars, researchVars, experimentVars>>
\* The experiments have a clock of their own and look at no tape.  Any seven candles, and
\* two that fall: with nine a candidate is accepted whose training traded.
ResearchPart == /\ part = "backtest" /\ BacktestNext
                /\ Len(tape') > 7 => Last(tape') = Candle(12, 8, 9)
                /\ UNCHANGED <<part, spotVars, adaptiveVars, labelVars, obsVars, experimentVars>>
ExperimentPart == /\ part = "experiments" /\ BacktestNext
                  /\ UNCHANGED <<part, spotVars, adaptiveVars, labelVars, obsVars, researchVars>>

MCNext ==
    \/ SpotPart \/ AdaptivePart \/ LabelPart \/ ObsPart \/ ResearchPart \/ ExperimentPart

MCSpec ==
    /\ MCInit
    /\ [][MCNext]_<<part, spotVars, adaptiveVars, labelVars, obsVars, researchVars, experimentVars>>
=============================================================================
