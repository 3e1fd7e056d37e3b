---------------------------- MODULE MCLiveExecution ----------------------------
(***************************************************************************)
(* Values for the model checker.                                           *)
(***************************************************************************)
EXTENDS LiveExecution

OperatorAndExchange == {"clear", "reject", "trigger"}
Requests == {"close"}
RejectedAndPartial == {"close", "reject", "partial"}

=============================================================================
