---------------------------- MODULE TradeLifecycle ----------------------------
(***************************************************************************)
(* What a broker promises about an order, whatever the prices do: the      *)
(* abstract specification behind shared/broker.py and the status column of *)
(* the trades table.                                                       *)
(*                                                                         *)
(* Every order goes once along                                             *)
(*                                                                         *)
(*     unknown -> resting -> open -> closed                                *)
(*                      \        \                                         *)
(*                       \--------\--> withdrawn   (cancel_order)          *)
(*                        \-> skipped, or closed on its entry candle       *)
(*                                                                         *)
(* and at most one order moves at a time, so that one returned Trade can   *)
(* tell all that happened.                                                 *)
(***************************************************************************)
CONSTANT Ids            \* the orders' ids

VARIABLE stage          \* where each order stands

Stages == {"unknown", "resting", "open", "closed", "skipped", "withdrawn"}

LifecycleTypeOK == stage \in [Ids -> Stages]

LifecycleInit == stage = [i \in Ids |-> "unknown"]

Moves == { <<"unknown", "resting">>,
           <<"resting", "open">>, <<"resting", "closed">>,
           <<"resting", "skipped">>, <<"open", "closed">>,
           <<"resting", "withdrawn">>, <<"open", "withdrawn">>,
           <<"closed", "withdrawn">>, <<"skipped", "withdrawn">> }

Move(i, s) ==
    /\ <<stage[i], s>> \in Moves
    /\ stage' = [stage EXCEPT ![i] = s]

LifecycleNext == \E i \in Ids, s \in Stages : Move(i, s)

LifecycleSpec == LifecycleInit /\ [][LifecycleNext]_stage

=============================================================================
