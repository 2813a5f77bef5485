----------------------------- MODULE MCCandleFeed -----------------------------
(***************************************************************************)
(* A small instance of CandleFeed: days of four slots of a tick, the first *)
(* three within market hours, up to the second day's trading.  The file    *)
(* holds the second day's token, so the first day needs a login.           *)
(***************************************************************************)
EXTENDS CandleFeed

CONSTANTS TCS, INFY

MCPricesOf == [k \in Keys |-> IF k = TCS THEN {1, 2} ELSE {1}]

=============================================================================
