------------------------------- MODULE Charges -------------------------------
(***************************************************************************)
(* The cost of one round trip: services/execution-engine/app/charges.py.   *)
(*                                                                         *)
(* Prices are whole rupees and quantities whole shares, so an order value  *)
(* is a whole number of rupees.  The rates are per cent figures with up to *)
(* five decimals; in units of 10^-7 rupee every one of them is a whole     *)
(* number per rupee of value, so the sums below are exact.  Only the last  *)
(* step, round(x, 2), divides: to whole paise, halves up.                  *)
(***************************************************************************)
EXTENDS Integers

MicroPerPaisa   == 100000      \* 10^-7 rupee units in one paisa

BrokerageFlat   == 200000000   \* 20 rupees per executed order ...
BrokeragePerRupee == 10000     \* ... or 0.1 % of its value, if lower
SttPerRupee     == 2500        \* 0.025 %, sell side only
ExchangePerRupee == 297        \* 0.00297 %, both sides
SebiPerRupee    == 10          \* 0.0001 %, both sides
StampPerRupee   == 300         \* 0.003 %, buy side only
GstPct          == 18          \* on brokerage + exchange + SEBI

\* min(BROKERAGE_FLAT, v * BROKERAGE_PCT_CAP / 100) for one side of value v.
Brokerage(v) ==
    IF v * BrokeragePerRupee < BrokerageFlat THEN v * BrokeragePerRupee
                                             ELSE BrokerageFlat

\* Rounded to whole paise (amounts are never negative here).
ToPaise(x) == (x + MicroPerPaisa \div 2) \div MicroPerPaisa

\* Total charges, in paise, for a buy of value buy and a sale of value sell.
ChargesOn(buy, sell) ==
    LET taxed == Brokerage(buy) + Brokerage(sell)
                   + (buy + sell) * (ExchangePerRupee + SebiPerRupee)
        gst   == (taxed * GstPct) \div 100
    IN  ToPaise(taxed + gst + sell * SttPerRupee + buy * StampPerRupee)

\* round_trip_charges: a LONG buys at its entry, a SHORT at its exit.
RoundTripCharges(dir, qty, entry, exit) ==
    IF dir = "LONG" THEN ChargesOn(qty * entry, qty * exit)
                    ELSE ChargesOn(qty * exit, qty * entry)

=============================================================================
