--------------------------- MODULE MCPaperLifecycle ---------------------------
(***************************************************************************)
(* Values for the set-valued constants of the runs of PaperLifecycle.  The *)
(* run PaperControl has two parts: with a latency the operator's requests  *)
(* meet pending entries on a database that holds a legacy position; with   *)
(* none a close commits in the middle, and closes, reset and override race *)
(* for the ladder of two trades, for one instant.                          *)
(***************************************************************************)
EXTENDS PaperLifecycle, TLC

NoLegacy == {}
OneLegacy == {1}

Operator == {"start", "stop", "patch", "session", "abandon", "close", "restart"}
Ladder == {"start", "reset", "margin", "close", "restart"}
TwoParts == (0 :> Ladder) @@ (1 :> Operator)

Faults == 1 :> {"start", "stop", "restart"}
StartStop == 1 :> {"start", "stop"}
Closing == 1 :> {"start", "stop", "close", "restart"}

\* The one position the first part can open loses the last loss before the pause.
MCInit ==
    /\ Init
    /\ latency > 0 <=> \E t \in Trades : trade[t].legacy
    /\ st.losses = IF latency > 0 THEN MaxLosses - 1 ELSE 0
\* Thin books beside a latency are left to PaperClock.
MCNext ==
    /\ Next
    /\ IF latency > 0 THEN book'.kind # "thin" ELSE now' <= 1
MCSpec == MCInit /\ [][MCNext]_vars

\* The run PaperClock begins without losses.
ClockInit == Init /\ st.losses = 0
ClockSpec == ClockInit /\ [][Next]_vars /\ Fairness
=============================================================================
