------------------------------ MODULE DayFunnel ------------------------------
(***************************************************************************)
(* What strategy-engine promises of a trading day, without candles: the    *)
(* day is decided once, to be left alone or to watch some stocks; a        *)
(* watched stock leaves the list once, with a signal or without; no other  *)
(* stock is signalled and none comes back.                                 *)
(***************************************************************************)
CONSTANT Stocks

VARIABLES
    phase,      \* "none", "gathering", "closed" or "watching"
    watched,    \* the stocks that may still be signalled
    signalled   \* the stocks this plan has signalled

vars == <<phase, watched, signalled>>

NoPlan(p) == phase' = p /\ watched' = {} /\ signalled' = {}

Init == phase = "none" /\ watched = {} /\ signalled = {}

\* A day begins, or the process forgets the one it was in.
Begin == NoPlan("gathering")
Forget == NoPlan("none")

Decide ==
    /\ phase = "gathering"
    /\ \/ phase' = "closed" /\ watched' = {}
       \/ phase' = "watching" /\ watched' \in SUBSET Stocks
    /\ UNCHANGED signalled

Leave(s) ==
    /\ phase = "watching"
    /\ s \in watched
    /\ watched' = watched \ {s}
    /\ signalled' \in {signalled, signalled \cup {s}}
    /\ UNCHANGED phase

Next == Begin \/ Forget \/ Decide \/ \E s \in Stocks : Leave(s)

Spec == Init /\ [][Next]_vars

=============================================================================
