----------------------------- MODULE PaperBroker -----------------------------
(***************************************************************************)
(* The broker of execution-engine: class PaperBroker of                    *)
(* services/execution-engine/app/brokers/paper_broker.py, driven by orders *)
(* and by the closed candles of each symbol.                               *)
(*                                                                         *)
(* The environment is the rest of the pipeline as the broker sees it:      *)
(*  - candles of a symbol arrive in the order of their slots, but slots    *)
(*    may be missing (no trade in them, or a message lost by Redis         *)
(*    pub/sub);                                                            *)
(*  - an order arrives once its breakout candle was published, so the      *)
(*    broker has consumed that candle or has it next in its queue, and     *)
(*    usually while candles of that session are still to come, but it may  *)
(*    also arrive right after the session's last candle;                   *)
(*  - risk-engine accepts one order per symbol and session;                *)
(*  - an order placed may be cancelled at any time.                        *)
(* `irregular` remembers the symbols for which a candle was missing or an  *)
(* order came after the last candle: what only holds of an orderly feed is *)
(* stated of the others.                                                   *)
(***************************************************************************)
EXTENDS BrokerPlans

CONSTANTS
    Symbols,
    Orders,         \* the orders risk-engine may publish
    CandleShapes,   \* the candles the feed may close
    NumDays         \* bound: sessions modelled

ASSUME BrokerAssumption ==
    /\ \A o \in Orders : IsOrder(o) /\ o.symbol \in Symbols
    /\ \A o1, o2 \in Orders : o1.id = o2.id => o1 = o2
    /\ \A c \in CandleShapes : IsShape(c)
    /\ NumDays \in Nat \ {0}

VARIABLES
    plans,      \* _plans, a dict: the plans in their insertion order
    clock,      \* slot of the last candle consumed, for each symbol
    placed,     \* the orders placed so far, cancelled ones included
    reply,      \* the trades returned by the last call: none or one
    irregular   \* history: the symbols with a missing candle or a late order

vars == <<plans, clock, placed, reply, irregular>>

LastSlot == NumDays * SlotsPerDay - 1

\* The last slot of the session of slot t.
SessionEnd(t) == (DayOf(t) + 1) * SlotsPerDay - 1

-----------------------------------------------------------------------------
Init ==
    /\ plans = <<>>
    /\ clock = [s \in Symbols |-> -1]
    /\ placed = {}
    /\ reply = <<>>
    /\ irregular = {}

OrderMayArrive(o) ==
    /\ o \notin placed
    /\ \A q \in placed : q.symbol = o.symbol => DayOf(q.born) # DayOf(o.born)
    /\ o.born - 1 <= clock[o.symbol]
    /\ clock[o.symbol] <= SessionEnd(o.born)

IsLate(o) == clock[o.symbol] = SessionEnd(o.born)

PlaceOrder(o) ==
    /\ OrderMayArrive(o)
    /\ plans' = PlansWith(plans, o)
    /\ placed' = placed \cup {o}
    /\ reply' = <<ToTrade(NewPlan(o))>>
    /\ irregular' = irregular \cup {s \in {o.symbol} : IsLate(o)}
    /\ UNCHANGED clock

CandleMayArrive(s, t) == t \in clock[s] + 1 .. LastSlot

OnCandle(s, c) ==
    /\ CandleMayArrive(s, c.time)
    /\ plans' = PlansAfter(plans, s, c)
    /\ reply' = TradeAfter(plans, s, c)
    /\ clock' = [clock EXCEPT ![s] = c.time]
    /\ irregular' = irregular \cup {k \in {s} : c.time # clock[s] + 1}
    /\ UNCHANGED placed

\* No code of the repository calls cancel_order; the interface offers it.
CancelOrder(id) ==
    /\ plans' = PlansWithout(plans, id)
    /\ reply' = <<>>
    /\ UNCHANGED <<clock, placed, irregular>>

\* Every candle of the bounded feed was consumed.
Finished ==
    /\ \A s \in Symbols : clock[s] = LastSlot
    /\ UNCHANGED vars

Next ==
    \/ \E o \in Orders : PlaceOrder(o)
    \/ \E s \in Symbols, t \in 0 .. LastSlot, shape \in CandleShapes :
            OnCandle(s, CandleAt(t, shape))
    \/ \E o \in placed : CancelOrder(o.id)
    \/ Finished

Spec == Init /\ [][Next]_vars

-----------------------------------------------------------------------------
(* Properties.                                                             *)

\* The candles that may arrive next for a symbol.
NextCandles(s) ==
    {CandleAt(t, shape) :
        t \in {u \in 0 .. LastSlot : CandleMayArrive(s, u)},
        shape \in CandleShapes}

TypeOK ==
    /\ plans \in Seq(PlansFor(Orders))
    /\ clock \in [Symbols -> -1 .. LastSlot]
    /\ placed \subseteq Orders
    /\ Len(reply) <= 1
    /\ irregular \subseteq Symbols

(* Over any sequence of calls the fields of every plan stay coherent, and  *)
(* no order has two plans.                                                 *)
PlansCoherent ==
    /\ \A i \in DOMAIN plans : /\ plans[i].order \in placed
                                /\ PlanCoherent(plans[i])
    /\ \A i, j \in DOMAIN plans :
            plans[i].order.id = plans[j].order.id => i = j

(* on_candle's assumption (paper_broker.py:186): a symbol never has two    *)
(* plans that are resting or open at once.  It takes the one-per-session   *)
(* rule of risk-engine and the force exit of every earlier session, and it *)
(* needs every candle and no order after the last one.                     *)
AtMostOneLivePlan ==
    \A s \in Symbols \ irregular : \A i, j \in LiveOn(plans, s) : i = j

(* Intraday trading: once a session's candles are all consumed, every      *)
(* order of that session is closed or expired; nothing stays open or       *)
(* resting overnight, provided that the symbol's feed was orderly.         *)
SettledBySessionEnd ==
    \A i \in DOMAIN plans :
        LET o == plans[i].order
        IN  /\ o.symbol \notin irregular
            /\ clock[o.symbol] >= SessionEnd(o.born)
            => IsTerminal(plans[i])

(* The prices a paper fill books are prices the candle traded at, give or  *)
(* take the slippage: an entry or an exit never lies outside the range of  *)
(* the candle that makes it, whatever gaps, breakeven moves and stops      *)
(* meet on that candle.                                                    *)
TradedOn(c, px) ==
    /\ px >= c.low  - SlipOn(c.low)
    /\ px <= c.high + SlipOn(c.high)

FillsInsideTheCandle ==
    \A s \in Symbols : \A i \in LiveOn(plans, s), c \in NextCandles(s) :
        LET p == plans[i]
            q == Advance(p, c)
        IN  /\ p.state = "PENDING" /\ q.state # "PENDING"
                    => TradedOn(c, q.entry_price)
            /\ q.state = "CLOSED" => TradedOn(c, q.exit_price)

(* A candle that fills an order and also reaches its breakeven trigger     *)
(* always stops it out at breakeven: the entry candle's range includes the *)
(* fill.  So a position with a breakeven trigger takes its target only on  *)
(* a later candle, even when the entry candle reaches the target.          *)
TargetNeedsALaterCandle ==
    \A i \in DOMAIN plans : LET p == plans[i] IN
        p.outcome = "TARGET_HIT" /\ p.order.trigger # NoPrice
            => p.exit_time > p.entry_time

(* The outcome on a closed plan and the sign of its result agree: a loss   *)
(* stop loses, a breakeven stop never gains, a target gains when no        *)
(* slippage is configured, and the charges never add to it; they take at   *)
(* least a paisa once five rupees changed hands (on less, round() drops    *)
(* them).                                                                  *)
ResultMatchesOutcome ==
    \A i \in DOMAIN plans : LET p == plans[i] IN
        p.state = "CLOSED" =>
            /\ p.net_pnl <= p.gross_pnl
            /\ p.order.qty * (p.entry_price + p.exit_price) >= 5
                  => p.net_pnl < p.gross_pnl
            /\ p.outcome = "STOPPED_LOSS" => p.gross_pnl < 0
            /\ p.outcome = "STOPPED_BREAKEVEN" => p.gross_pnl <= 0
            /\ p.outcome = "TARGET_HIT" /\ SlipPct = 0 => p.gross_pnl > 0

(* The stop of an open plan only ever moves in the position's favour.      *)
StopNeverLoosens ==
    [][\A i \in DOMAIN plans \cap DOMAIN plans' :
          /\ plans[i].order = plans'[i].order
          /\ plans[i].state = "OPEN"
          => Reached(plans[i].order.dir,
                     plans'[i].current_stop, plans[i].current_stop)]_vars

\* What the consumer of on_candle's result persists and books.
Visible(p) == ToTrade(p)

(* The caller of on_candle learns of every change: a candle returns a      *)
(* trade exactly when some plan's trade changed, that one is the only one, *)
(* and the returned trade is its new content.  The caller writes and books *)
(* nothing else, so a change that is not returned is lost to the database. *)
ReportedExactlyWhatChanged ==
    [][clock' # clock =>
          LET changed == {i \in DOMAIN plans :
                             Visible(plans'[i]) # Visible(plans[i])}
          IN  {reply'[k] : k \in DOMAIN reply'}
                 = {Visible(plans'[i]) : i \in changed}]_vars

(* paper_broker.py:185: on_candle "advances every non-terminal plan for    *)
(* `symbol` by one closed candle".  It returns at the first plan that      *)
(* reports, so this too needs an orderly feed.                             *)
AdvancesEveryLivePlan ==
    \A s \in Symbols \ irregular : \A c \in NextCandles(s) :
        AdvancedOn(plans, s, c) = LiveOn(plans, s)

(* params.py:69: "any open position is closed at 15:15": when a session    *)
(* starts, no position of an earlier one is open.                          *)
NoPositionOvernight ==
    \A i \in Positions(plans) : plans[i].order.symbol \notin irregular =>
        DayOf(plans[i].entry_time) = DayOf(clock[plans[i].order.symbol])

-----------------------------------------------------------------------------
(* PaperBroker implements TradeLifecycle.                                  *)

StageOf(p) ==
    IF p.state = "CLOSED" THEN "closed"
    ELSE IF p.outcome = "EXPIRED" THEN "skipped"
    ELSE IF p.state = "OPEN" THEN "open" ELSE "resting"

Stage(id) ==
    LET mine == {i \in DOMAIN plans : plans[i].order.id = id}
    IN  IF mine # {} THEN StageOf(plans[CHOOSE i \in mine : TRUE])
        ELSE IF \E o \in placed : o.id = id THEN "withdrawn"
        ELSE "unknown"

OrderIds == {o.id : o \in Orders}

Lifecycle == INSTANCE TradeLifecycle
                WITH Ids <- OrderIds, stage <- [id \in OrderIds |-> Stage(id)]

(* Each order lives one life, and no call moves two orders at once.        *)
ImplementsLifecycle == Lifecycle!LifecycleSpec

=============================================================================
