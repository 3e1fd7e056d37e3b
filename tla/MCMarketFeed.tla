----------------------------- MODULE MCMarketFeed ------------------------------
(***************************************************************************)
(* The instances of what brings an entry and of what is kept of it.  A     *)
(* behaviour belongs to one part: the feed, the forward tests, the trades, *)
(* the funding of one live trade (ledger), or the report of two to the     *)
(* ladder.  The feed knows the strategy only as active or not; what it     *)
(* would add to the others is the instant of an entry, which they leave    *)
(* open.                                                                   *)
(*                                                                         *)
(* The feed has two exchanges with one pair each; a book with imbalance 3  *)
(* is a long signal, one with imbalance 2 just a short one.                *)
(***************************************************************************)
EXTENDS MarketFeed, TradeBook, FundingLedger, TLC

VARIABLE part   \* what moves

TwoPairs == {"main", "other"}
Own == [p \in TwoPairs |-> p]

Book(i, m, late) == [lag |-> late, imb |-> i, mid |-> m, kind |-> "ok"]

\* The traded pair rises to a long book and falls to a short one; the other is so far
\* below that the median is on the long threshold, and a second old when it arrives.
Turning ==
    [p \in TwoPairs |-> IF p = "main" THEN {Book(3, 2, 0), Book(2, 1, 0)}
                                      ELSE {Book(1, 1, 1)}]

\* The configuration as it is shipped, and one without median, configured exchange,
\* anomalies and improvement but with the quality filter.
Shipped == {"median", "main", "exclude", "improve", "feedback"}
Configurations == {Shipped, {"feedback", "quality"}}

OneLoss == {<<[side |-> "long", at |-> 0, pnl |-> -1, few |-> FALSE]>>}

\* Funding: trade 1 wins before its funding; one of its records is revised, another
\* comes after.
Shows(id, amount) == [id |-> id, amount |-> amount]
FirstWins == [t \in {1, 2} |-> IF t = 1 THEN 1 ELSE -1]
OneRevised ==
    [t \in {1, 2} |-> IF t = 1 THEN {Shows("a", -2), Shows("a", -1), Shows("b", 1)} ELSE {}]
ShownInTurn == {{}, {Shows("a", -2)}, {Shows("a", -1)}, {Shows("a", -1), Shows("b", 1)}}

\* No step tells one worker from another.
Alike == Permutations(Workers)

-----------------------------------------------------------------------------
\* A part that does not move begins in one state.
FundingIdle == FundingInit /\ \A t \in LiveTrades : liveRows[t] = DoneWith(t)

MCInit ==
    /\ Init /\ BookInit
    /\ \/ part = "feed" /\ FundingIdle
       \/ part \in {"tests", "trades"} /\ FundingIdle
       \/ /\ part = "ledger" /\ FundingInit /\ liveRows[2] = DoneWith(2)
          /\ liveRows[1].legacy => liveRows[1].closed # Null
       \/ /\ part = "ladder" /\ FundingInit
          /\ liveRows[2] # DoneWith(2) /\ \A t \in LiveTrades : ~liveRows[t].legacy
    /\ part # "feed" => on = Shipped

\* The second configuration has a second less: an entry, but none too late.
FeedPart ==
    /\ part = "feed" /\ Next
    /\ on # Shipped => now' < MaxTime
    /\ UNCHANGED <<part, bookVars, fundingVars>>

\* One risk will do where the tests are at stake, and one trade.
TestPart ==
    /\ part = "tests" /\ (RunNext \/ TestNext \/ OpenEntry \/ \E i \in OpenRows : CloseEntry(i))
    /\ conf'.risk = RiskCap /\ Len(tradeRows') <= 1
    /\ \A f \in Testers : tests'[f].pc # "idle" => tests'[f].risk = RiskCap
    /\ UNCHANGED <<part, vars, fundingVars>>

\* One run will do where the trades are.
TradePart ==
    /\ part = "trades" /\ (RunNext \/ TradeNext) /\ Len(strategyRuns') <= 1
    /\ UNCHANGED <<part, vars, fundingVars>>

\* Records come in one order, and neither they nor failures in the last instant.
LedgerPart ==
    /\ part = "ledger" /\ FundingNext /\ ~LiftBlock /\ settled'[1] \in ShownInTurn
    /\ moment = LedgerEnd => settled' = settled /\ \A w \in Workers : ~FailFunding(w)
    /\ UNCHANGED <<part, vars, bookVars>>

\* Two trades without records and without failures, for one instant less; the block is
\* lifted at the end, while nobody works.
LadderPart ==
    /\ part = "ladder" /\ FundingNext /\ settled' = settled /\ moment' < LedgerEnd
    /\ LiftBlock => moment = LedgerEnd - 1 /\ \A w \in Workers : pass[w].pc = "idle"
    /\ \A t \in LiveTrades : liveRows'[t].status # "unavailable"
    /\ UNCHANGED <<part, vars, bookVars>>

MCNext == FeedPart \/ TestPart \/ TradePart \/ LedgerPart \/ LadderPart
MCSpec == MCInit /\ [][MCNext]_<<part, vars, bookVars, fundingVars>>

\* The run LedgerTwice: the funding of one live trade alone.
LedgerSpec == MCSpec /\ part = "ledger"
=============================================================================
