------------------------------ MODULE PlanState ------------------------------
(***************************************************************************)
(* The life of one paper order, candle by candle: the class _PlanState of  *)
(* services/execution-engine/app/brokers/paper_broker.py, as operators on  *)
(* plan records.  No variables: PaperBroker and ExecutionEngine keep plans *)
(* in their states and advance them with Advance.                          *)
(*                                                                         *)
(* Time is counted in five-minute slots of trading sessions: slot t lies   *)
(* in session t \div SlotsPerDay.  The code never compares times of day:   *)
(* it compares the characters "HH:MM" of the candle's timestamp with       *)
(* "15:10".  Label(t) is that text as a number of slots after midnight     *)
(* (15:10 is 182), FirstLabel the label of a session's first slot, which   *)
(* depends on the zone in which the candle's open_time is written.         *)
(***************************************************************************)
EXTENDS Charges

CONSTANTS
    SlotsPerDay,    \* candles of one session
    FirstLabel,     \* HH:MM label of a session's first candle
    ForceExit,      \* FORCE_EXIT_CANDLE_START
    LastEntry,      \* LAST_ENTRY_CANDLE_START
    SlipPct,        \* PAPER_SLIPPAGE_PCT
    NoPrice         \* None, for a price, a time or an amount not set

ASSUME PlanAssumption ==
    /\ SlotsPerDay \in Nat \ {0}
    /\ FirstLabel \in Nat
    /\ ForceExit \in Nat
    /\ LastEntry \in Nat
    /\ SlipPct \in 0 .. 99
    /\ NoPrice \notin Int

Directions == {"LONG", "SHORT"}
PlanStates == {"PENDING", "OPEN", "CLOSED"}
Outcomes   == {"NONE", "TARGET_HIT", "STOPPED_LOSS", "STOPPED_BREAKEVEN",
               "EOD_EXIT", "EXPIRED"}

DayOf(t) == t \div SlotsPerDay

\* _hhmm
Label(t) == FirstLabel + (t % SlotsPerDay)

-----------------------------------------------------------------------------
(* Prices seen from a direction: a LONG gains as they rise, a SHORT as     *)
(* they fall.  The code writes each of these as "... if d == LONG else".   *)

\* _offset
Offset(d, p, amount) == IF d = "LONG" THEN p + amount ELSE p - amount

\* p is at q or past it, on the winning side.
Reached(d, p, q) == IF d = "LONG" THEN p >= q ELSE p <= q

Better(d, p, q) == IF Reached(d, p, q) THEN p ELSE q
Worse(d, p, q)  == IF Reached(d, p, q) THEN q ELSE p

\* The ends of a candle's range.
BestOf(d, c)  == IF d = "LONG" THEN c.high ELSE c.low
WorstOf(d, c) == IF d = "LONG" THEN c.low  ELSE c.high

SlipOn(p) == (p * SlipPct) \div 100

\* A price made worse by slippage on the way in, and on the way out.
SlippedIn(d, p)  == Offset(d, p, SlipOn(p))
SlippedOut(d, p) == Offset(d, p, -SlipOn(p))

-----------------------------------------------------------------------------
(* An order as the strategy and the risk-engine build it: its stop behind  *)
(* the entry, its breakeven trigger (when it has one) between entry and    *)
(* target.  born is the slot of the breakout candle the signal is about.   *)

IsOrder(o) ==
    /\ o.dir \in Directions
    /\ o.qty \in Nat \ {0}
    /\ o.born \in Nat
    /\ {o.entry, o.stop, o.target} \subseteq Nat
    /\ o.trigger \in Nat \cup {NoPrice}
    /\ ~Reached(o.dir, o.stop, o.entry)
    /\ ~Reached(o.dir, o.entry, o.target)
    /\ o.trigger # NoPrice => /\ ~Reached(o.dir, o.entry, o.trigger)
                              /\ ~Reached(o.dir, o.trigger, o.target)

IsShape(c) ==
    /\ {c.open, c.high, c.low, c.close} \subseteq Nat
    /\ c.low <= c.open  /\ c.open  <= c.high
    /\ c.low <= c.close /\ c.close <= c.high

\* The fields of a candle that do not depend on when it closes.
Shapes(levels) ==
    {c \in [open : levels, high : levels, low : levels, close : levels] :
        IsShape(c)}

CandleAt(t, shape) ==
    [time |-> t, open |-> shape.open, high |-> shape.high,
     low |-> shape.low, close |-> shape.close]

-----------------------------------------------------------------------------
(* The plan record.  last_price, r_multiple and the charges themselves are *)
(* left out: the first is never read, the others follow from the rest.     *)

NewPlan(o) ==
    [order |-> o, state |-> "PENDING", outcome |-> "NONE",
     entry_price |-> NoPrice, entry_time |-> NoPrice,
     current_stop |-> NoPrice, at_breakeven |-> FALSE,
     exit_price |-> NoPrice, exit_time |-> NoPrice,
     gross_pnl |-> NoPrice, net_pnl |-> NoPrice]

Amounts == {NoPrice} \cup Int

\* The plans for a set of orders.
PlansFor(orders) ==
    [order : orders, state : PlanStates, outcome : Outcomes,
     entry_price : Amounts, entry_time : Amounts,
     current_stop : Amounts, at_breakeven : BOOLEAN,
     exit_price : Amounts, exit_time : Amounts,
     gross_pnl : Amounts, net_pnl : Amounts]

\* Variant: an expired order is not recognised as terminal.
IsTerminal_ClosedOnly(p) == p.state = "CLOSED"

IsTerminal(p) == p.state = "CLOSED" \/ p.outcome = "EXPIRED"
IsLive(p)     == ~IsTerminal(p)

\* to_trade: a resting order is already reported as OPEN.
TradeStatus(p) ==
    IF p.state = "CLOSED" THEN "CLOSED"
    ELSE IF p.outcome = "EXPIRED" THEN "SKIPPED" ELSE "OPEN"

\* Variant: the order's price is reported as the entry before the fill.
ToTrade_OrderPrice(p) ==
    [order_id |-> p.order.id, symbol |-> p.order.symbol,
     status |-> TradeStatus(p),
     entry_price |-> p.order.entry, entry_time |-> p.entry_time,
     exit_price |-> p.exit_price, exit_time |-> p.exit_time,
     gross_pnl |-> p.gross_pnl, net_pnl |-> p.net_pnl]

ToTrade(p) ==
    [order_id |-> p.order.id, symbol |-> p.order.symbol,
     status |-> TradeStatus(p),
     entry_price |-> p.entry_price, entry_time |-> p.entry_time,
     exit_price |-> p.exit_price, exit_time |-> p.exit_time,
     gross_pnl |-> p.gross_pnl, net_pnl |-> p.net_pnl]

-----------------------------------------------------------------------------
(* Exits.                                                                  *)

\* Variant: a SHORT's result is computed as a LONG's.
Close_LongOnly(p, outcome, exit_time, px) ==
    LET gross == 100 * p.order.qty * (px - p.entry_price)
    IN  [p EXCEPT !.state = "CLOSED", !.outcome = outcome,
                  !.exit_time = exit_time, !.exit_price = px,
                  !.gross_pnl = gross,
                  !.net_pnl = gross - RoundTripCharges(p.order.dir, p.order.qty,
                                                       p.entry_price, px)]

\* _close.  Profit and loss are in paise, prices in rupees.
Close(p, outcome, exit_time, px) ==
    LET d     == p.order.dir
        gain  == IF d = "LONG" THEN px - p.entry_price ELSE p.entry_price - px
        gross == 100 * p.order.qty * gain
    IN  [p EXCEPT !.state = "CLOSED", !.outcome = outcome,
                  !.exit_time = exit_time, !.exit_price = px,
                  !.gross_pnl = gross,
                  !.net_pnl = gross - RoundTripCharges(d, p.order.qty,
                                                       p.entry_price, px)]

\* The candle reaches the breakeven trigger of a plan not yet protected.
MovesToBreakeven(p, c) ==
    /\ ~p.at_breakeven
    /\ p.order.trigger # NoPrice
    /\ Reached(p.order.dir, BestOf(p.order.dir, c), p.order.trigger)

\* Variant: breakeven is the order's price, not the price paid.
Protected_AtOrderPrice(p, c) ==
    IF MovesToBreakeven(p, c)
    THEN [p EXCEPT !.current_stop = p.order.entry, !.at_breakeven = TRUE]
    ELSE p

\* Variant: the stop is set anew on every candle.
Protected_Forgetful(p, c) ==
    IF MovesToBreakeven(p, c)
    THEN [p EXCEPT !.current_stop = p.entry_price, !.at_breakeven = TRUE]
    ELSE [p EXCEPT !.current_stop = p.order.stop]

Protected(p, c) ==
    IF MovesToBreakeven(p, c)
    THEN [p EXCEPT !.current_stop = p.entry_price, !.at_breakeven = TRUE]
    ELSE p

Stopped(p, c) ==
    Reached(p.order.dir, p.current_stop, WorstOf(p.order.dir, c))

\* Variant: a gap through the stop still fills at the stop.
StopExit_NoGap(p, c, gap_ok) == SlippedOut(p.order.dir, p.current_stop)

\* A candle that opens beyond the stop fills there, unless it is the entry
\* candle or the one that has just moved the stop.
StopExit(p, c, gap_ok) ==
    LET d == p.order.dir
    IN  SlippedOut(d, IF gap_ok THEN Worse(d, p.current_stop, c.open)
                                ELSE p.current_stop)

HitsTarget(p, c) ==
    Reached(p.order.dir, BestOf(p.order.dir, c), p.order.target)

TargetExit(p, c, gap_ok) ==
    IF gap_ok THEN Better(p.order.dir, p.order.target, c.open)
              ELSE p.order.target

StopOutcome(p) ==
    IF p.at_breakeven THEN "STOPPED_BREAKEVEN" ELSE "STOPPED_LOSS"

\* Variant: the target is looked at before the stop.
ManageOpen_TargetFirst(p, c) ==
    LET q      == Protected(p, c)
        moved  == MovesToBreakeven(p, c)
        gap_ok == c.time # q.entry_time
    IN  IF HitsTarget(q, c)
        THEN Close(q, "TARGET_HIT", c.time, TargetExit(q, c, gap_ok))
        ELSE IF Stopped(q, c)
        THEN Close(q, StopOutcome(q), c.time, StopExit(q, c, gap_ok /\ ~moved))
        ELSE IF Label(c.time) >= ForceExit
        THEN Close(q, "EOD_EXIT", c.time + 1, SlippedOut(q.order.dir, c.close))
        ELSE q

\* Variant: no force exit at the end of a session.
ManageOpen_NoForceExit(p, c) ==
    LET q      == Protected(p, c)
        moved  == MovesToBreakeven(p, c)
        gap_ok == c.time # q.entry_time
    IN  IF Stopped(q, c)
        THEN Close(q, StopOutcome(q), c.time, StopExit(q, c, gap_ok /\ ~moved))
        ELSE IF HitsTarget(q, c)
        THEN Close(q, "TARGET_HIT", c.time, TargetExit(q, c, gap_ok))
        ELSE q

\* The second half of advance: a plan that is OPEN, with the stop already
\* moved if this candle moves it.  A candle that reaches both the stop and
\* the target is counted as stopped.
ManageOpen(p, c) ==
    LET q      == Protected(p, c)
        moved  == MovesToBreakeven(p, c)
        gap_ok == c.time # q.entry_time
    IN  IF Stopped(q, c)
        THEN Close(q, StopOutcome(q), c.time, StopExit(q, c, gap_ok /\ ~moved))
        ELSE IF HitsTarget(q, c)
        THEN Close(q, "TARGET_HIT", c.time, TargetExit(q, c, gap_ok))
        ELSE IF Label(c.time) >= ForceExit
        THEN Close(q, "EOD_EXIT", c.time + 1, SlippedOut(q.order.dir, c.close))
        ELSE q

-----------------------------------------------------------------------------
(* Entries.                                                                *)

Triggered(o, c) == Reached(o.dir, BestOf(o.dir, c), o.entry)

\* Variant: a gap beyond the entry still fills at the order's price.
FillPrice_NoGap(o, c) == o.entry

\* A stop order fills at its price, or at the open beyond it.
FillPrice(o, c) == Better(o.dir, o.entry, c.open)

PastTarget(o, fill) == Reached(o.dir, fill, o.target)

\* Variant: expiry is written to the state instead of the outcome.
Expire_AsState(p) == [p EXCEPT !.state = "EXPIRED"]

Expire(p) == [p EXCEPT !.outcome = "EXPIRED"]

Fill(p, c) ==
    [p EXCEPT !.state = "OPEN",
              !.entry_price = SlippedIn(p.order.dir, FillPrice(p.order, c)),
              !.entry_time = c.time,
              !.current_stop = p.order.stop]

\* Variant: a resting order is never too late.
AdvancePending_NoLastEntry(p, c) ==
    IF ~Triggered(p.order, c) THEN p
    ELSE IF PastTarget(p.order, FillPrice(p.order, c)) THEN Expire(p)
    ELSE ManageOpen(Fill(p, c), c)

\* The entry candle goes on to manage the position it has just opened.
AdvancePending(p, c) ==
    IF Label(c.time) >= LastEntry THEN Expire(p)
    ELSE IF ~Triggered(p.order, c) THEN p
    ELSE IF PastTarget(p.order, FillPrice(p.order, c)) THEN Expire(p)
    ELSE ManageOpen(Fill(p, c), c)

-----------------------------------------------------------------------------
\* advance, for a plan that is not terminal.
Advance(p, c) ==
    IF p.state = "PENDING" THEN AdvancePending(p, c) ELSE ManageOpen(p, c)

\* Variant: a fill is not reported.
Reports_ClosesOnly(p, c) ==
    LET q == Advance(p, c)
    IN  q.state = "CLOSED" \/ q.outcome = "EXPIRED"

\* What advance returns: whether the candle filled, closed or expired the
\* plan.  Moving the stop to breakeven alone is not reported.
Reports(p, c) ==
    LET q == Advance(p, c)
    IN  \/ q.state = "CLOSED"
        \/ q.outcome = "EXPIRED"
        \/ q.state = "OPEN" /\ c.time = q.entry_time

-----------------------------------------------------------------------------
\* The fields of a plan agree with its state: a price is filled in exactly
\* when the plan got that far, and an open plan's stop is the order's or the
\* entry price.
PlanCoherent(p) ==
    /\ (p.state = "PENDING") <=> (p.entry_time = NoPrice)
    /\ (p.state = "PENDING") <=> (p.entry_price = NoPrice)
    /\ (p.state = "CLOSED") <=> (p.exit_price # NoPrice)
    /\ p.state = "CLOSED" => p.exit_time >= p.entry_time
    /\ p.state = "PENDING" => p.outcome \in {"NONE", "EXPIRED"}
    /\ p.state = "OPEN" =>
          /\ p.outcome = "NONE"
          /\ p.current_stop =
                IF p.at_breakeven THEN p.entry_price ELSE p.order.stop
    /\ p.state = "CLOSED" => p.outcome \notin {"NONE", "EXPIRED"}

=============================================================================
