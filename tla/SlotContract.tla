----------------------------- MODULE SlotContract ------------------------------
(***************************************************************************)
(* What a strategy configuration promises about its trades, whoever        *)
(* handles them: a trade is reserved when no other is reserved or held and *)
(* entries are allowed, it becomes a position only while they still are,   *)
(* and once it is over it stays over.  Entries may be allowed and          *)
(* forbidden at any time.  PaperLifecycle and LiveExecution implement it.  *)
(***************************************************************************)
CONSTANT Trades

VARIABLES
    phase,      \* of a trade: free, reserved, held, over
    entries     \* are entries allowed

contractVars == <<phase, entries>>

Busy(t) == phase[t] \in {"reserved", "held"}
NobodyBusy == \A t \in Trades : ~Busy(t)

\* A database may begin with one position.
ContractInit ==
    /\ phase \in [Trades -> {"free", "held"}]
    /\ \A t, u \in Trades : Busy(t) /\ Busy(u) => t = u
    /\ entries \in BOOLEAN

Moves(t, to) == phase' = [phase EXCEPT ![t] = to]

Reserve(t) == entries /\ NobodyBusy /\ phase[t] = "free" /\ Moves(t, "reserved")
Fill(t) == entries /\ phase[t] = "reserved" /\ Moves(t, "held")
Release(t) == Busy(t) /\ Moves(t, "over")

ContractNext ==
    /\ entries' \in BOOLEAN
    /\ \/ UNCHANGED phase
       \/ \E t \in Trades : Reserve(t) \/ Fill(t) \/ Release(t)

ContractSpec == ContractInit /\ [][ContractNext]_contractVars
=============================================================================
