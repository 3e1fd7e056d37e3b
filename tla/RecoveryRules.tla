---------------------------- MODULE RecoveryRules ----------------------------
(***************************************************************************)
(* The bookkeeping of the RecoveryState row: what a closed trade does to   *)
(* the loss streak, when the strategy pauses itself, when that pause ends, *)
(* and the cool-down an entry has to wait for.  Pure operators, shared by  *)
(* the components that close trades.                                       *)
(*                                                                         *)
(* A row image s has the fields                                            *)
(*   stopped, reason   is_stopped, stop_reason                             *)
(*   until             paused_until                                        *)
(*   losses            consecutive_losses                                  *)
(*   last, closed      last_trade_result, last_closed_at                   *)
(* current_step and current_margin are sizing data and are left out.       *)
(***************************************************************************)
EXTENDS Naturals, UnitOfWork

CONSTANTS
    None,       \* an SQL NULL
    MaxLosses,  \* max_consecutive_losses
    PauseFor,   \* cooldown_after_max_recovery_seconds
    CoolLoss,   \* cooldown_after_loss_seconds
    CoolWin     \* cooldown_after_win_seconds

ASSUME RulesAssumption ==
    /\ None \notin Nat
    /\ MaxLosses \in Nat \ {0}
    /\ PauseFor \in Nat
    /\ CoolLoss \in Nat
    /\ CoolWin \in Nat

MaxRecoveryPause == "max_recovery_pause"
Reasons == { "none", "manual_stop", "emergency_entry_block", MaxRecoveryPause,
             "manual_margin_override" }
Results == { "none", "win", "loss" }

Running(s) == [s EXCEPT !.stopped = FALSE, !.reason = "none", !.until = None]

\* Faulty variant of Exhausts: off by one.
ExhaustsLate(s, result) == result = "loss" /\ s.losses + 1 > MaxLosses
\* apply_recovery_after_close: the loss that reaches the limit.
Exhausts(s, result) == result = "loss" /\ s.losses + 1 >= MaxLosses

AfterClose(s, result, at) ==
    LET booked == [s EXCEPT !.last = result, !.closed = at]
    IN  IF result = "win"
        THEN [Running(booked) EXCEPT !.losses = 0]
        ELSE IF Exhausts(s, result)
             THEN [booked EXCEPT !.losses = 0, !.stopped = TRUE,
                                 !.reason = MaxRecoveryPause,
                                 !.until = at + PauseFor]
             ELSE [booked EXCEPT !.losses = @ + 1]

\* resume_after_recovery_pause: its guard, and the image it writes.
PauseOver(s, at) ==
    /\ s.reason = MaxRecoveryPause
    /\ s.until # None
    /\ at >= s.until

Resumed(s) == [Running(s) EXCEPT !.losses = 0, !.last = "none"]

\* The two cool-downs at the end of risk_rejection.
CoolingDown(s, at) ==
    /\ s.closed # None
    /\ \/ s.last = "loss" /\ at < s.closed + CoolLoss
       \/ s.last = "win"  /\ at < s.closed + CoolWin

\* Every margin-related reason of margin_related_stop_reason that the code
\* ever stores is the recovery pause.
ClearMarginPause(s) == IF s.reason = MaxRecoveryPause THEN Running(s) ELSE s
=============================================================================
