----------------------------- MODULE RiskEngine -----------------------------
(***************************************************************************)
(* services/risk-engine: one loop that turns the strategy's signals into   *)
(* orders (app/main.py), under a daily cap (app/daily_cap.py), sized from  *)
(* the day's equity and its remaining cash (app/sizing.py, app/equity.py). *)
(*                                                                         *)
(* One message of the `signals` channel is one step: the loop awaits only  *)
(* the publication of the order, which is its last effect.  A publication  *)
(* that fails raises out of the loop and ends the process: that is a lost  *)
(* signal followed by a Restart.                                           *)
(***************************************************************************)
EXTENDS Integers, FiniteSets, Functions

CONSTANTS
    Symbols,
    Signals,            \* the signals strategy-engine may publish
    Equities,           \* equity values execution-engine may record
    PaperCapital,       \* PAPER_CAPITAL
    RiskPct,            \* RISK_PER_TRADE_PCT, in whole per cent
    LeveragePct,        \* LEVERAGE, in per cent (1.0 is 100)
    MaxTradesPerDay,    \* MAX_TRADES_PER_DAY
    NoDate,             \* None, the tracker's date before the first signal
    NoRow               \* no row in equity_snapshots

\* A signal carries the day of its detected_at, its breakout price (the
\* order's entry) and its stop.  Ids tell two signals for a symbol apart.
IsSignal(s) ==
    /\ s.symbol \in Symbols
    /\ s.day \in Nat
    /\ s.entry \in Nat
    /\ s.stop \in Nat

ASSUME RiskAssumption ==
    /\ \A s \in Signals : IsSignal(s)
    /\ Equities \subseteq Int
    /\ PaperCapital \in Nat
    /\ RiskPct \in Nat
    /\ LeveragePct \in Nat
    /\ MaxTradesPerDay \in Nat
    /\ NoDate \notin Nat
    /\ NoRow \notin Int

VARIABLES
    date,       \* the tracker's _date
    accepted,   \* the tracker's _accepted_symbols
    equity,     \* the day's equity, read at the day's first signal
    cash,       \* what the day's orders have left of it
    snapshot,   \* the newest equity in equity_snapshots, or NoRow
    orders,     \* history: the orders published
    handled,    \* history: the signals taken off the channel, or lost
    interrupted \* history: the days during which the process was restarted

vars == <<date, accepted, equity, cash, snapshot, orders, handled,
          interrupted>>

-----------------------------------------------------------------------------
(* Sizing: size_order.                                                     *)

Distance(p, q) == IF p >= q THEN p - q ELSE q - p

NonNegative(x) == IF x >= 0 THEN x ELSE 0

Smaller(x, y) == IF x <= y THEN x ELSE y

RiskPerShare(s) == Distance(s.entry, s.stop)

\* Variant: the risk budget is rounded up to a whole share.
QtyByRisk_Rounded(s, eq) == (eq * RiskPct) \div (100 * RiskPerShare(s)) + 1

\* Shares the per-trade risk budget pays for.
QtyByRisk(s, eq) == (eq * RiskPct) \div (100 * RiskPerShare(s))

\* Shares the free cash pays for.
QtyByCash(s, free) ==
    IF s.entry = 0 THEN 0
    ELSE (NonNegative(free) * LeveragePct) \div (100 * s.entry)

\* Variant: every order is sized from the whole equity.
SizeOrder_IgnoreCash(s, eq, free) ==
    IF RiskPerShare(s) = 0 THEN 0
    ELSE NonNegative(Smaller(QtyByRisk(s, eq), QtyByCash(s, eq)))

\* Variant: only the cash bounds the quantity.
SizeOrder_IgnoreRisk(s, eq, free) ==
    IF RiskPerShare(s) = 0 THEN 0 ELSE QtyByCash(s, free)

\* The quantity; 0 when size_order skips the signal.
SizeOrder(s, eq, free) ==
    IF RiskPerShare(s) = 0 THEN 0
    ELSE NonNegative(Smaller(QtyByRisk(s, eq), QtyByCash(s, free)))

-----------------------------------------------------------------------------
(* The daily cap: DailyCapTracker.                                         *)

IsNewDay(s) == s.day # date

\* _accepted_symbols after reset_if_new_day.
AcceptedOn(s) == IF IsNewDay(s) THEN {} ELSE accepted

\* Variant: one trade too many.
CanAccept_OneMore(s) ==
    /\ s.symbol \notin AcceptedOn(s)
    /\ Cardinality(AcceptedOn(s)) <= MaxTradesPerDay

CanAccept(s) ==
    /\ s.symbol \notin AcceptedOn(s)
    /\ Cardinality(AcceptedOn(s)) < MaxTradesPerDay

-----------------------------------------------------------------------------
(* latest_equity: the newest snapshot, or the default when there is none   *)
(* or the read fails.                                                      *)
LatestEquity ==
    IF snapshot = NoRow THEN {PaperCapital} ELSE {snapshot, PaperCapital}

\* Variant: a new day keeps the old day's cash.
Baselines_KeepCash(s) ==
    IF IsNewDay(s) THEN {[equity |-> e, cash |-> cash] : e \in LatestEquity}
                   ELSE {[equity |-> equity, cash |-> cash]}

\* The equity and cash the signal is sized with.
Baselines(s) ==
    IF IsNewDay(s) THEN {[equity |-> e, cash |-> e] : e \in LatestEquity}
                   ELSE {[equity |-> equity, cash |-> cash]}

OrderFor(s, eq, qty) ==
    [signal |-> s, symbol |-> s.symbol, day |-> s.day, qty |-> qty,
     notional |-> qty * s.entry, risk |-> qty * RiskPerShare(s), equity |-> eq]

-----------------------------------------------------------------------------
Init ==
    /\ date = NoDate
    /\ accepted = {}
    /\ equity = PaperCapital
    /\ cash = PaperCapital
    /\ snapshot \in {NoRow} \cup Equities
    /\ orders = {}
    /\ handled = {}
    /\ interrupted = {}

\* Signals come day by day; within a day in any order.
MayCome(s) ==
    /\ s \notin handled
    /\ \A h \in handled : h.day <= s.day

\* The day's baseline is refreshed whatever becomes of the signal.
BeginDay(s, base) ==
    /\ date' = s.day
    /\ equity' = base.equity
    /\ handled' = handled \cup {s}
    /\ UNCHANGED <<snapshot, interrupted>>

SkipSignal(s) ==
    /\ MayCome(s)
    /\ \E base \in Baselines(s) :
        /\ CanAccept(s) => SizeOrder(s, base.equity, base.cash) < 1
        /\ BeginDay(s, base)
        /\ cash' = base.cash
        /\ accepted' = AcceptedOn(s)
        /\ UNCHANGED orders

\* Variant: a quantity of zero is not skipped.
AcceptSignal_NoSkip(s) ==
    /\ MayCome(s)
    /\ \E base \in Baselines(s) :
        LET qty == SizeOrder(s, base.equity, base.cash)
        IN  /\ CanAccept(s)
            /\ BeginDay(s, base)
            /\ cash' = base.cash - qty * s.entry
            /\ accepted' = AcceptedOn(s) \cup {s.symbol}
            /\ orders' = orders \cup {OrderFor(s, base.equity, qty)}

AcceptSignal(s) ==
    /\ MayCome(s)
    /\ \E base \in Baselines(s) :
        LET qty == SizeOrder(s, base.equity, base.cash)
        IN  /\ CanAccept(s)
            /\ qty >= 1
            /\ BeginDay(s, base)
            /\ cash' = base.cash - qty * s.entry
            /\ accepted' = AcceptedOn(s) \cup {s.symbol}
            /\ orders' = orders \cup {OrderFor(s, base.equity, qty)}

\* Redis pub/sub drops what is published while nobody listens.
LoseSignal(s) ==
    /\ MayCome(s)
    /\ handled' = handled \cup {s}
    /\ UNCHANGED <<date, accepted, equity, cash, snapshot, orders, interrupted>>

\* execution-engine records the equity after a trade closed.
RecordEquity(e) ==
    /\ snapshot' = e
    /\ UNCHANGED <<date, accepted, equity, cash, orders, handled, interrupted>>

\* The tracker and the baseline live in the process only.
Restart ==
    /\ interrupted' = interrupted \cup ({date} \ {NoDate})
    /\ date' = NoDate
    /\ accepted' = {}
    /\ equity' = PaperCapital
    /\ cash' = PaperCapital
    /\ UNCHANGED <<snapshot, orders, handled>>

Next ==
    \/ \E s \in Signals : SkipSignal(s) \/ AcceptSignal(s) \/ LoseSignal(s)
    \/ \E e \in Equities : RecordEquity(e)
    \/ Restart

Spec == Init /\ [][Next]_vars

-----------------------------------------------------------------------------
(* Properties.                                                             *)

OrdersOn(d) == {o \in orders : o.day = d}
Risks       == [o \in orders |-> o.risk]
Notionals   == [o \in orders |-> o.notional]

TypeOK ==
    /\ date \in Nat \cup {NoDate}
    /\ accepted \subseteq Symbols
    /\ equity \in Int
    /\ cash \in Int
    /\ snapshot \in Int \cup {NoRow}
    /\ orders \subseteq [signal : Signals, symbol : Symbols, day : Nat,
                         qty : Nat \ {0}, notional : Nat, risk : Nat,
                         equity : Int]
    /\ handled \subseteq Signals
    /\ interrupted \subseteq Nat

OneDaysCapKept(day) ==
    /\ Cardinality(OrdersOn(day)) <= MaxTradesPerDay
    /\ \A o, q \in OrdersOn(day) : q.symbol = o.symbol => q = o

Uninterrupted == {o \in orders : o.day \notin interrupted}

(* main.py:5: "one position per symbol, at most MAX_TRADES_PER_DAY a day", *)
(* over all the orders published for a day that saw no restart, whatever   *)
(* mix of accepted, skipped, lost and repeated signals it brought.         *)
DailyCapKept == \A o \in Uninterrupted : OneDaysCapKept(o.day)

(* The same of every day.                                                  *)
DailyCapSurvivesRestart == \A o \in orders : OneDaysCapKept(o.day)

(* "1% risk" (main.py:5): no order risks more than its share of the day's  *)
(* equity.                                                                 *)
OrderRiskWithinBudget ==
    \A o \in orders : 100 * o.risk <= RiskPct * o.equity

(* The cap and the sizing together bound a day: whatever mix of signals an *)
(* uninterrupted day brings, its orders are all sized from one equity and  *)
(* together risk at most MAX_TRADES_PER_DAY times the per-trade share of   *)
(* it.                                                                     *)
DayRiskBounded ==
    \A o \in Uninterrupted :
        /\ \A q \in OrdersOn(o.day) : q.equity = o.equity
        /\ 100 * SumFunctionOnSet(Risks, OrdersOn(o.day))
              <= MaxTradesPerDay * RiskPct * o.equity

(* The orders published for a day that saw no restart together cost at     *)
(* most the leveraged equity they were sized from (the equity itself when  *)
(* LEVERAGE is at most 1), although each is checked only against the cash  *)
(* left when it came.  (A restart forgets what its day has committed, and  *)
(* the day may commit as much again.)                                      *)
BuyingPowerPct == IF LeveragePct >= 100 THEN LeveragePct ELSE 100

NeverOverCommitted ==
    \A o \in Uninterrupted :
        100 * SumFunctionOnSet(Notionals, OrdersOn(o.day))
            <= o.equity * BuyingPowerPct

(* The cash is exactly the day's equity less the orders published that     *)
(* day: a skipped signal costs nothing, a new day forgets the old orders.  *)
(* (A restart forgets the orders of its own day as well.)                  *)
CashAccountsForOrders ==
    date \notin interrupted \cup {NoDate} =>
        cash = equity - SumFunctionOnSet(Notionals, OrdersOn(date))

(* The quantity is the largest one that both budgets pay for: one share    *)
(* more would exceed the risk budget or the buying power.                  *)
Affordable(s, eq, free, q) ==
    /\ q * 100 * RiskPerShare(s) <= eq * RiskPct
    /\ q * 100 * s.entry <= NonNegative(free) * LeveragePct

SizingIsMaximal ==
    \A s \in Signals : RiskPerShare(s) # 0 /\ s.entry # 0 =>
        LET qty == SizeOrder(s, equity, cash)
        IN  /\ qty >= 1 => Affordable(s, equity, cash, qty)
            /\ ~Affordable(s, equity, cash, qty + 1)

=============================================================================
