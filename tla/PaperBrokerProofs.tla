-------------------------- MODULE PaperBrokerProofs --------------------------
(***************************************************************************)
(* Proofs about PaperBroker, for every set of symbols, orders and candles, *)
(* any number of sessions, any session times and any slippage: its plans   *)
(* stay coherent and its prices on the candles, it tells its caller        *)
(* everything, and it implements TradeLifecycle.                           *)
(***************************************************************************)
EXTENDS PaperBroker, PlanProofs

-----------------------------------------------------------------------------
(* The inductive invariant.                                                *)

\* The plans are those of placed orders, each at most once.
OnePlanPerOrder ==
    /\ \A i \in DOMAIN plans : plans[i].order \in placed
    /\ \A i, j \in DOMAIN plans :
            plans[i].order.id = plans[j].order.id => i = j

\* No position was entered after the last candle of its symbol.
EnteredInThePast ==
    \A i \in DOMAIN plans :
        plans[i].state # "PENDING" =>
            plans[i].entry_time <= clock[plans[i].order.symbol]

ShapeInv ==
    /\ clock \in [Symbols -> -1 .. LastSlot]
    /\ placed \subseteq Orders
    /\ Len(reply) <= 1
    /\ irregular \subseteq Symbols

BrokerInv ==
    /\ ShapeInv
    /\ GoodPlans(plans, Orders)
    /\ OnePlanPerOrder
    /\ EnteredInThePast

-----------------------------------------------------------------------------
(* Facts about the environment.                                            *)

\* The bounds of the feed are integers, and its slots natural numbers.
LEMMA SlotsAreNat ==
    /\ LastSlot \in Int
    /\ \A t \in 0 .. LastSlot : t \in Nat
<1>1. NumDays \in Nat /\ SlotsPerDay \in Nat
  BY BrokerAssumption, PlanAssumption
<1>2. NumDays * SlotsPerDay \in Int
  BY <1>1
<1> QED BY <1>2 DEF LastSlot

\* A candle of the feed is one the broker can receive.
LEMMA FeedCandles ==
    ASSUME NEW t \in 0 .. LastSlot, NEW shape \in CandleShapes
    PROVE  IsCandle(CandleAt(t, shape)) /\ CandleAt(t, shape).time = t
<1>1. IsShape(shape)
  BY BrokerAssumption
<1>2. t \in Nat
  BY SlotsAreNat
<1> QED BY <1>1, <1>2 DEF CandleAt, IsCandle, IsShape

\* A candle that may arrive comes after every entry on its symbol.
LEMMA CandlesComeLater ==
    ASSUME BrokerInv, NEW s \in Symbols, NEW c, CandleMayArrive(s, c.time)
    PROVE  NotBefore(plans, s, c) /\ c.time > clock[s] /\ c.time \in -1 .. LastSlot
<1>1. clock[s] \in Int /\ clock[s] >= -1
  BY SlotsAreNat DEF BrokerInv, ShapeInv
<1>2. c.time \in Int /\ c.time > clock[s] /\ c.time <= LastSlot
  BY <1>1, SlotsAreNat DEF CandleMayArrive
<1>3. ASSUME NEW i \in DOMAIN plans,
             plans[i].order.symbol = s, plans[i].state = "OPEN"
      PROVE  c.time >= plans[i].entry_time
  <2>1. plans[i].entry_time \in Int
    BY <1>3, OpenPlan DEF BrokerInv, GoodPlans
  <2>2. plans[i].entry_time <= clock[s]
    BY <1>3 DEF BrokerInv, EnteredInThePast
  <2> QED BY <1>1, <1>2, <2>1, <2>2
<1> QED BY <1>1, <1>2, <1>3, SlotsAreNat DEF NotBefore

\* A candle that may arrive does not come at the slot of an entry either.
LEMMA CandlesComeStrictlyLater ==
    ASSUME BrokerInv, NEW s \in Symbols, NEW c, CandleMayArrive(s, c.time)
    PROVE  EnteredBefore(plans, s, c)
<1>1. clock[s] \in Int /\ c.time \in Int /\ c.time > clock[s]
  BY CandlesComeLater, SlotsAreNat DEF BrokerInv, ShapeInv
<1> SUFFICES ASSUME NEW i \in DOMAIN plans,
                    plans[i].order.symbol = s, plans[i].state = "OPEN"
             PROVE  c.time > plans[i].entry_time
  BY DEF EnteredBefore
<1>2. plans[i].entry_time \in Int
  BY OpenPlan DEF BrokerInv, GoodPlans
<1>3. plans[i].entry_time <= clock[s]
  BY DEF BrokerInv, EnteredInThePast
<1> QED BY <1>1, <1>2, <1>3

\* The symbol of a good plan's order is one of the feed's.
LEMMA PlanSymbols ==
    ASSUME BrokerInv, NEW i \in DOMAIN plans
    PROVE  /\ plans[i].order \in Orders
           /\ plans[i].order.symbol \in Symbols
           /\ clock[plans[i].order.symbol] \in Int
<1>1. plans[i].order \in Orders
  BY DEF BrokerInv, OnePlanPerOrder, ShapeInv
<1>2. plans[i].order.symbol \in Symbols
  BY <1>1, BrokerAssumption
<1> QED BY <1>1, <1>2, SlotsAreNat DEF BrokerInv, ShapeInv

-----------------------------------------------------------------------------
(* Every step keeps the invariant.                                         *)

\* A broker without plans satisfies it.
LEMMA InitInv == Init => BrokerInv
<1> SUFFICES ASSUME Init PROVE BrokerInv
  OBVIOUS
<1>1. plans = <<>> /\ reply = <<>> /\ placed = {} /\ irregular = {}
  BY DEF Init
<1>2. GoodPlans(plans, Orders)
  BY <1>1 DEF GoodPlans
<1>3. OnePlanPerOrder /\ EnteredInThePast
  BY <1>1 DEF OnePlanPerOrder, EnteredInThePast
<1>4. clock \in [Symbols -> -1 .. LastSlot]
  <2>1. NumDays * SlotsPerDay >= 0
    <3>1. \A a, b \in Nat : a * b >= 0
      OBVIOUS
    <3>2. NumDays \in Nat /\ SlotsPerDay \in Nat
      BY BrokerAssumption, PlanAssumption
    <3> QED BY <3>1, <3>2
  <2>2. LastSlot \in Int /\ LastSlot >= -1
    <3> DEFINE slots == NumDays * SlotsPerDay
    <3>1. slots >= 0 /\ LastSlot \in Int /\ LastSlot = slots - 1
      BY <2>1, SlotsAreNat DEF LastSlot
    <3>2. slots \in Int
      <4>1. NumDays \in Int /\ SlotsPerDay \in Int
        BY BrokerAssumption, PlanAssumption
      <4> QED BY <4>1
    <3> HIDE DEF slots
    <3> QED BY <3>1, <3>2
  <2> QED BY <2>2 DEF Init
<1> QED BY <1>1, <1>2, <1>3, <1>4 DEF BrokerInv, ShapeInv

\* place_order puts the new plan behind the others and leaves those as they were.
LEMMA PlacedPlans ==
    ASSUME BrokerInv, NEW o \in Orders, PlaceOrder(o)
    PROVE  GoodPlans(plans', Orders) /\ GainsPlan(plans, plans', NewPlan(o))
<1>1. GoodPlans(plans, Orders) /\ plans' = PlansWith(plans, o)
  BY DEF BrokerInv, PlaceOrder
<1>2. IsOrder(o)
  BY BrokerAssumption
<1> QED BY <1>1, <1>2, PlansWithFacts

\* place_order adds the plan of an order that had none.
LEMMA PlaceOrderInv ==
    ASSUME BrokerInv, NEW o \in Orders, PlaceOrder(o)
    PROVE  BrokerInv'
<1>1. /\ o \notin placed /\ placed' = placed \cup {o}
      /\ plans' = PlansWith(plans, o)
      /\ reply' = <<ToTrade(NewPlan(o))>>
      /\ clock' = clock
      /\ irregular' = irregular \cup {s \in {o.symbol} : IsLate(o)}
  BY DEF PlaceOrder, OrderMayArrive
<1>2. o.symbol \in Symbols
  BY BrokerAssumption
<1>3. /\ GoodPlans(plans', Orders)
      /\ DOMAIN plans' = DOMAIN plans \cup {Len(plans) + 1}
      /\ \A i \in DOMAIN plans : plans'[i] = plans[i]
      /\ plans'[Len(plans) + 1] = NewPlan(o)
  BY PlacedPlans DEF GainsPlan
<1>4. NewPlan(o).order = o /\ NewPlan(o).state = "PENDING"
  BY DEF NewPlan
<1>5. \A i \in DOMAIN plans : plans[i].order.id # o.id
  <2> SUFFICES ASSUME NEW i \in DOMAIN plans, plans[i].order.id = o.id
               PROVE  FALSE
    OBVIOUS
  <2>1. plans[i].order \in placed /\ plans[i].order \in Orders
    BY DEF BrokerInv, OnePlanPerOrder, ShapeInv
  <2>2. plans[i].order = o
    BY <2>1, BrokerAssumption
  <2> QED BY <1>1, <2>1, <2>2
<1>6. OnePlanPerOrder'
  <2>1. \A i \in DOMAIN plans' : plans'[i].order \in placed'
    BY <1>1, <1>3, <1>4 DEF BrokerInv, OnePlanPerOrder
  <2>2. \A i, j \in DOMAIN plans' :
            plans'[i].order.id = plans'[j].order.id => i = j
    BY <1>3, <1>4, <1>5 DEF BrokerInv, OnePlanPerOrder
  <2> QED BY <2>1, <2>2 DEF OnePlanPerOrder
<1>7. EnteredInThePast'
  BY <1>1, <1>3, <1>4 DEF BrokerInv, EnteredInThePast
<1>8. ShapeInv'
  <2>1. Len(reply') <= 1
    BY <1>1
  <2> QED BY <1>1, <1>2, <2>1 DEF BrokerInv, ShapeInv
<1> QED BY <1>3, <1>6, <1>7, <1>8 DEF BrokerInv

\* on_candle advances plans in place, by a candle later than every entry.
LEMMA OnCandleInv ==
    ASSUME BrokerInv, NEW s \in Symbols, NEW t \in 0 .. LastSlot,
           NEW shape \in CandleShapes, OnCandle(s, CandleAt(t, shape))
    PROVE  BrokerInv'
<1> DEFINE c == CandleAt(t, shape)
<1>1. IsCandle(c) /\ c.time = t /\ t \in Nat
  BY FeedCandles, SlotsAreNat
<1> HIDE DEF c
<1>2. /\ CandleMayArrive(s, c.time)
      /\ plans' = PlansAfter(plans, s, c)
      /\ reply' = TradeAfter(plans, s, c)
      /\ clock' = [clock EXCEPT ![s] = c.time]
      /\ irregular' = irregular \cup {k \in {s} : c.time # clock[s] + 1}
      /\ placed' = placed
  BY DEF OnCandle, c
<1>3. NotBefore(plans, s, c) /\ c.time > clock[s] /\ c.time \in -1 .. LastSlot
  BY <1>2, CandlesComeLater
<1>4. /\ GoodPlans(plans', Orders)
      /\ DOMAIN plans' = DOMAIN plans
      /\ \A i \in DOMAIN plans :
            \/ plans'[i] = plans[i]
            \/ i \in LiveOn(plans, s) /\ plans'[i] = Advance(plans[i], c)
  BY <1>1, <1>2, <1>3, PlansAfterFacts DEF BrokerInv
<1>5. ASSUME NEW i \in DOMAIN plans
      PROVE  /\ plans'[i].order = plans[i].order
             /\ \/ plans'[i] = plans[i]
                \/ /\ plans[i].order.symbol = s
                   /\ plans'[i].state # "PENDING" =>
                         \/ plans'[i].entry_time = c.time
                         \/ plans'[i].entry_time = plans[i].entry_time
  <2>1. CASE plans'[i] = plans[i]
    BY <2>1
  <2>2. CASE i \in LiveOn(plans, s) /\ plans'[i] = Advance(plans[i], c)
    <3>1. IsLive(plans[i]) /\ plans[i].order.symbol = s
      BY <2>2 DEF LiveOn
    <3>2. GoodPlan(plans[i], Orders)
      BY DEF BrokerInv, GoodPlans
    <3>3. plans[i].state = "OPEN" => c.time >= plans[i].entry_time
      BY <1>3, <3>1 DEF NotBefore
    <3>4. /\ Advance(plans[i], c).order = plans[i].order
          /\ Advance(plans[i], c).state # "PENDING" =>
                \/ Advance(plans[i], c).entry_time = c.time
                \/ Advance(plans[i], c).entry_time = plans[i].entry_time
      BY <1>1, <3>1, <3>2, <3>3, AdvanceFacts
    <3> QED BY <2>2, <3>1, <3>4
  <2> QED BY <1>4, <2>1, <2>2
<1>6. OnePlanPerOrder'
  BY <1>2, <1>4, <1>5 DEF BrokerInv, OnePlanPerOrder
<1>7. ASSUME NEW i \in DOMAIN plans, plans'[i].state # "PENDING"
      PROVE  plans'[i].entry_time <= clock'[plans'[i].order.symbol]
  <2>1. /\ plans[i].order.symbol \in Symbols
        /\ clock[plans[i].order.symbol] \in Int
    BY PlanSymbols
  <2>2. clock'[plans[i].order.symbol] =
           IF plans[i].order.symbol = s THEN c.time
                                        ELSE clock[plans[i].order.symbol]
    BY <1>2, <2>1 DEF BrokerInv, ShapeInv
  <2>3. GoodPlan(plans[i], Orders)
    BY DEF BrokerInv, GoodPlans
  <2>4. CASE plans[i].state # "PENDING"
    <3>1. plans[i].entry_time \in Int
      BY <2>3, <2>4 DEF GoodPlan, PlansFor, PlanInv, PlanCoherent, Amounts
    <3>2. plans[i].entry_time <= clock[plans[i].order.symbol]
      BY <2>4 DEF BrokerInv, EnteredInThePast
    <3> QED BY <1>1, <1>3, <1>5, <1>7, <2>1, <2>2, <3>1, <3>2
  <2>5. CASE plans[i].state = "PENDING"
    <3>1. /\ plans[i].order.symbol = s
          /\ \/ plans'[i].entry_time = c.time
             \/ plans'[i].entry_time = plans[i].entry_time
      BY <1>5, <1>7, <2>5
    <3>2. plans[i].entry_time = NoPrice
      BY <2>3, <2>5 DEF GoodPlan, PlanInv, PlanCoherent
    <3>3. plans'[i].entry_time # NoPrice
      BY <1>4, <1>7 DEF GoodPlans, GoodPlan, PlanInv, PlanCoherent
    <3> QED BY <1>1, <1>5, <2>2, <3>1, <3>2, <3>3
  <2> QED BY <2>4, <2>5
<1>8. EnteredInThePast'
  BY <1>4, <1>7 DEF EnteredInThePast
<1>9. ShapeInv'
  <2>1. Len(reply') <= 1
    BY <1>2 DEF TradeAfter
  <2> QED BY <1>2, <1>3, <2>1 DEF BrokerInv, ShapeInv
<1> QED BY <1>4, <1>6, <1>8, <1>9 DEF BrokerInv

\* cancel_order leaves a part of the plans.
LEMMA CancelOrderInv ==
    ASSUME BrokerInv, NEW id, CancelOrder(id)
    PROVE  BrokerInv'
<1>1. /\ plans' = PlansWithout(plans, id) /\ reply' = <<>>
      /\ clock' = clock /\ placed' = placed /\ irregular' = irregular
  BY DEF CancelOrder
<1>2. /\ GoodPlans(plans', Orders)
      /\ \/ plans' = plans
         \/ \E i \in DOMAIN plans : \A k \in DOMAIN plans' :
               /\ k < i  => k \in DOMAIN plans /\ plans'[k] = plans[k]
               /\ k >= i => k + 1 \in DOMAIN plans /\ plans'[k] = plans[k + 1]
  BY <1>1, PlansWithoutFacts DEF BrokerInv
<1>3. ShapeInv'
  BY <1>1 DEF BrokerInv, ShapeInv
<1>4. CASE plans' = plans
  BY <1>1, <1>2, <1>3, <1>4
     DEF BrokerInv, OnePlanPerOrder, EnteredInThePast
<1>5. ASSUME NEW i \in DOMAIN plans,
             \A k \in DOMAIN plans' :
               /\ k < i  => k \in DOMAIN plans /\ plans'[k] = plans[k]
               /\ k >= i => k + 1 \in DOMAIN plans /\ plans'[k] = plans[k + 1]
      PROVE  BrokerInv'
  <2>1. DOMAIN plans \subseteq Int /\ DOMAIN plans' \subseteq Int
    BY <1>2, LenProperties DEF BrokerInv, GoodPlans
  <2> DEFINE at(k) == IF k < i THEN k ELSE k + 1
  <2>2. \A k \in DOMAIN plans' :
            at(k) \in DOMAIN plans /\ plans'[k] = plans[at(k)]
    BY <1>5, <2>1
  <2>3. \A k, l \in DOMAIN plans' : at(k) = at(l) => k = l
    BY <1>5, <2>1
  <2> HIDE DEF at
  <2>4. OnePlanPerOrder'
    BY <1>1, <2>2, <2>3 DEF BrokerInv, OnePlanPerOrder
  <2>5. EnteredInThePast'
    BY <1>1, <2>2 DEF BrokerInv, EnteredInThePast
  <2> QED BY <1>2, <1>3, <2>4, <2>5 DEF BrokerInv
<1> QED BY <1>2, <1>4, <1>5

\* The invariant is inductive.
LEMMA StepInv == BrokerInv /\ [Next]_vars => BrokerInv'
<1> SUFFICES ASSUME BrokerInv, [Next]_vars PROVE BrokerInv'
  OBVIOUS
<1>1. ASSUME NEW o \in Orders, PlaceOrder(o) PROVE BrokerInv'
  BY <1>1, PlaceOrderInv
<1>2. ASSUME NEW s \in Symbols, NEW t \in 0 .. LastSlot,
             NEW shape \in CandleShapes, OnCandle(s, CandleAt(t, shape))
      PROVE  BrokerInv'
  BY <1>2, OnCandleInv
<1>3. ASSUME NEW o \in placed, CancelOrder(o.id) PROVE BrokerInv'
  BY <1>3, CancelOrderInv
<1>4. CASE UNCHANGED vars
  BY <1>4 DEF vars, BrokerInv, ShapeInv, OnePlanPerOrder, EnteredInThePast
<1>5. CASE Finished
  BY <1>4, <1>5 DEF Finished
<1> QED BY <1>1, <1>2, <1>3, <1>4, <1>5 DEF Next

\* It holds in every reachable state.
LEMMA InvHolds == Spec => []BrokerInv
  BY InitInv, StepInv, PTL DEF Spec

-----------------------------------------------------------------------------
(* The theorems.                                                           *)

\* Every state of the broker has the declared types, whatever candles come.
THEOREM TypeCorrect == Spec => []TypeOK
<1>1. BrokerInv => TypeOK
  BY DEF BrokerInv, GoodPlans, ShapeInv, TypeOK
<1> QED BY <1>1, InvHolds, PTL

\* The fields of every plan agree with its state after any sequence of calls,
\* and no order ever has two plans.
THEOREM PlansStayCoherent == Spec => []PlansCoherent
<1>1. BrokerInv => PlansCoherent
  BY DEF BrokerInv, GoodPlans, GoodPlan, PlanInv, OnePlanPerOrder,
         PlansCoherent
<1> QED BY <1>1, InvHolds, PTL

\* No call of the broker loosens the stop of an open position: not a candle,
\* not an order for the same symbol, not a cancellation that moves plans up.
THEOREM StopsNeverLoosen == Spec => StopNeverLoosens
<1> DEFINE Kept == \A i \in DOMAIN plans \cap DOMAIN plans' :
                      /\ plans[i].order = plans'[i].order
                      /\ plans[i].state = "OPEN"
                      => Reached(plans[i].order.dir,
                                 plans'[i].current_stop, plans[i].current_stop)
<1>1. BrokerInv /\ [Next]_vars => [Kept]_vars
  <2> SUFFICES ASSUME BrokerInv, Next PROVE Kept
    BY DEF Kept
  <2>1. ASSUME NEW i \in DOMAIN plans, plans[i].state = "OPEN"
        PROVE  /\ GoodPlan(plans[i], Orders)
               /\ Reached(plans[i].order.dir,
                          plans[i].current_stop, plans[i].current_stop)
    <3>1. GoodPlan(plans[i], Orders)
      BY DEF BrokerInv, GoodPlans
    <3> QED BY <2>1, <3>1, OpenPlan, ReachedOrder
  <2>2. ASSUME \A i \in DOMAIN plans \cap DOMAIN plans' :
                  plans[i].order = plans'[i].order => plans'[i] = plans[i]
        PROVE  Kept
    BY <2>1, <2>2
  <2>3. ASSUME NEW o \in Orders, PlaceOrder(o) PROVE Kept
    <3>1. \A i \in DOMAIN plans : plans'[i] = plans[i]
      BY <2>3, PlacedPlans DEF GainsPlan
    <3> QED BY <2>2, <3>1
  <2>4. ASSUME NEW s \in Symbols, NEW t \in 0 .. LastSlot,
               NEW shape \in CandleShapes, OnCandle(s, CandleAt(t, shape))
        PROVE  Kept
    <3> DEFINE c == CandleAt(t, shape)
    <3>1. IsCandle(c) /\ CandleMayArrive(s, c.time)
      BY <2>4, FeedCandles DEF OnCandle
    <3> HIDE DEF c
    <3>2. NotBefore(plans, s, c)
      BY <3>1, CandlesComeLater
    <3>3. \A i \in DOMAIN plans :
            \/ plans'[i] = plans[i]
            \/ i \in LiveOn(plans, s) /\ plans'[i] = Advance(plans[i], c)
      BY <2>4, <3>1, <3>2, PlansAfterFacts DEF BrokerInv, OnCandle, c
    <3> SUFFICES ASSUME NEW i \in DOMAIN plans, plans[i].state = "OPEN"
                 PROVE  Reached(plans[i].order.dir, plans'[i].current_stop,
                                plans[i].current_stop)
      OBVIOUS
    <3>4. CASE plans'[i] = plans[i]
      BY <2>1, <3>4
    <3>5. CASE i \in LiveOn(plans, s) /\ plans'[i] = Advance(plans[i], c)
      <4>1. IsLive(plans[i]) /\ c.time >= plans[i].entry_time
        BY <3>2, <3>5 DEF LiveOn, NotBefore
      <4>2. Reached(plans[i].order.dir,
                    Advance(plans[i], c).current_stop, plans[i].current_stop)
        BY <2>1, <3>1, <4>1, AdvanceFacts
      <4> QED BY <3>5, <4>2
    <3> QED BY <3>3, <3>4, <3>5
  <2>5. ASSUME NEW o \in placed, CancelOrder(o.id) PROVE Kept
    <3>1. \/ plans' = plans
          \/ \E i \in DOMAIN plans : \A k \in DOMAIN plans' :
                /\ k < i  => k \in DOMAIN plans /\ plans'[k] = plans[k]
                /\ k >= i => k + 1 \in DOMAIN plans /\ plans'[k] = plans[k + 1]
      BY <2>5, PlansWithoutFacts DEF BrokerInv, CancelOrder
    <3>2. CASE plans' = plans
      BY <2>2, <3>2
    <3>3. ASSUME NEW i \in DOMAIN plans,
                 \A k \in DOMAIN plans' :
                    /\ k < i  => k \in DOMAIN plans /\ plans'[k] = plans[k]
                    /\ k >= i => k + 1 \in DOMAIN plans /\ plans'[k] = plans[k + 1]
          PROVE  Kept
      <4>1. DOMAIN plans \subseteq Int
        BY LenProperties DEF BrokerInv, GoodPlans
      <4>2. ASSUME NEW k \in DOMAIN plans \cap DOMAIN plans',
                   plans[k].order = plans'[k].order
            PROVE  plans'[k] = plans[k]
        <5>1. k < i \/ k >= i
          BY <4>1
        <5>2. ~(k >= i)
          <6> SUFFICES ASSUME k >= i PROVE FALSE
            OBVIOUS
          <6>1. k + 1 \in DOMAIN plans /\ plans[k].order = plans[k + 1].order
            BY <3>3, <4>2
          <6>2. k = k + 1
            BY <6>1 DEF BrokerInv, OnePlanPerOrder
          <6> QED BY <4>1, <6>2
        <5> QED BY <3>3, <5>1, <5>2
      <4> QED BY <2>2, <4>2
    <3> QED BY <3>1, <3>2, <3>3
  <2>6. CASE Finished
    BY <2>2, <2>6 DEF Finished, vars
  <2> QED BY <2>3, <2>4, <2>5, <2>6 DEF Next
<1> QED BY <1>1, InvHolds, PTL DEF Spec, StopNeverLoosens

-----------------------------------------------------------------------------
(* Prices: slippage and charges.                                           *)

\* Slippage grows with the price, but never faster than the price.
LEMMA SlipOnGrows ==
    ASSUME NEW x \in Nat, NEW y \in Nat, x <= y
    PROVE  /\ SlipOn(x) \in Nat /\ SlipOn(y) \in Nat
           /\ SlipOn(x) <= SlipOn(y)
           /\ x - SlipOn(x) <= y - SlipOn(y)
           /\ SlipOn(x) <= x
<1> DEFINE a == x * SlipPct
           b == y * SlipPct
<1>1. SlipPct \in Nat /\ SlipPct <= 99
  BY PlanAssumption
<1>2. a \in Nat /\ b \in Nat
  BY <1>1
<1>3. \A n \in Nat : n * SlipPct \in Nat /\ n * SlipPct <= n * 99
  BY <1>1
<1>4. a <= x * 99
  BY <1>3
<1>5. b - a \in Nat /\ b - a <= (y - x) * 99
  <2> DEFINE e == y - x
  <2>1. e \in Nat /\ y = x + e
    OBVIOUS
  <2> HIDE DEF e
  <2>2. b = a + e * SlipPct
    BY <1>1, <2>1
  <2>3. e * SlipPct \in Nat /\ e * SlipPct <= e * 99
    BY <1>3, <2>1
  <2>4. b - a = e * SlipPct
    BY <1>2, <2>2, <2>3
  <2> QED BY <2>3, <2>4 DEF e
<1> HIDE DEF a, b
<1>6. /\ a \div 100 \in Nat /\ b \div 100 \in Nat
      /\ a \div 100 <= b \div 100
      /\ b \div 100 <= (a \div 100) + (y - x)
      /\ a \div 100 <= x
  BY <1>2, <1>4, <1>5
<1>7. SlipOn(x) = a \div 100 /\ SlipOn(y) = b \div 100
  BY DEF SlipOn, a, b
<1> QED BY <1>6, <1>7

\* Charges never add to a result, and take something from a trade in which at
\* least five rupees changed hands.
LEMMA ChargesTake ==
    ASSUME NEW d, NEW qty \in Nat, NEW entry \in Nat, NEW exit \in Nat
    PROVE  /\ RoundTripCharges(d, qty, entry, exit) \in Nat
           /\ qty * (entry + exit) >= 5
                 => RoundTripCharges(d, qty, entry, exit) > 0
<1>1. ASSUME NEW b \in Nat, NEW s \in Nat
      PROVE  ChargesOn(b, s) \in Nat /\ (b + s >= 5 => ChargesOn(b, s) > 0)
  <2> DEFINE taxed == Brokerage(b) + Brokerage(s)
                        + (b + s) * (ExchangePerRupee + SebiPerRupee)
             gst   == (taxed * GstPct) \div 100
             owed  == taxed + gst + s * SttPerRupee + b * StampPerRupee
  <2>1. \A v \in Nat : Brokerage(v) \in Nat
    BY DEF Brokerage, BrokeragePerRupee, BrokerageFlat
  <2>2. b + s >= 5 => Brokerage(b) + Brokerage(s) >= 50000
    BY DEF Brokerage, BrokeragePerRupee, BrokerageFlat
  <2>3. taxed \in Nat /\ (b + s >= 5 => taxed >= 50000)
    BY <2>1, <2>2 DEF ExchangePerRupee, SebiPerRupee
  <2>4. gst \in Nat
    <3> HIDE DEF taxed
    <3>1. taxed * GstPct \in Nat
      BY <2>3 DEF GstPct
    <3>2. \A n \in Nat : n \div 100 \in Nat
      OBVIOUS
    <3> QED BY <3>1, <3>2
  <2>5. owed \in Nat /\ (b + s >= 5 => owed >= 50000)
    <3> HIDE DEF taxed, gst
    <3> QED BY <2>3, <2>4 DEF SttPerRupee, StampPerRupee
  <2>6. \A n \in Nat : ToPaise(n) \in Nat /\ (n >= 50000 => ToPaise(n) > 0)
    BY DEF ToPaise, MicroPerPaisa
  <2>7. ChargesOn(b, s) = ToPaise(owed)
    BY DEF ChargesOn
  <2> HIDE DEF owed
  <2> QED BY <2>5, <2>6, <2>7
<1> DEFINE in  == qty * entry
           out == qty * exit
<1>2. in \in Nat /\ out \in Nat /\ qty * (entry + exit) = in + out
  OBVIOUS
<1>3. RoundTripCharges(d, qty, entry, exit) =
         IF d = "LONG" THEN ChargesOn(in, out) ELSE ChargesOn(out, in)
  BY DEF RoundTripCharges
<1> HIDE DEF in, out
<1>4. in + out = out + in
  BY <1>2
<1> QED BY <1>1, <1>2, <1>3, <1>4

\* What a closed plan's result must satisfy, given its outcome.
ResultFits(p) ==
    /\ p.net_pnl <= p.gross_pnl
    /\ p.order.qty * (p.entry_price + p.exit_price) >= 5
          => p.net_pnl < p.gross_pnl
    /\ p.outcome = "STOPPED_LOSS" => p.gross_pnl < 0
    /\ p.outcome = "STOPPED_BREAKEVEN" => p.gross_pnl <= 0
    /\ p.outcome = "TARGET_HIT" /\ SlipPct = 0 => p.gross_pnl > 0

\* The result of a position has the sign of the move from entry to exit.
LEMMA CloseResult ==
    ASSUME NEW orders, NEW p \in PlansFor(orders), IsOrder(p.order),
           p.entry_price \in Nat,
           NEW outcome, NEW t, NEW px \in Nat
    PROVE  LET q == Close(p, outcome, t, px)
               d == p.order.dir
           IN  /\ q.net_pnl <= q.gross_pnl
               /\ p.order.qty * (p.entry_price + px) >= 5
                     => q.net_pnl < q.gross_pnl
               /\ ~Reached(d, px, p.entry_price) => q.gross_pnl < 0
               /\ Reached(d, p.entry_price, px) => q.gross_pnl <= 0
               /\ ~Reached(d, p.entry_price, px) => q.gross_pnl > 0
<1> DEFINE d == p.order.dir
           qty == p.order.qty
           gain == IF d = "LONG" THEN px - p.entry_price ELSE p.entry_price - px
           gross == 100 * qty * gain
           charges == RoundTripCharges(d, qty, p.entry_price, px)
           q == Close(p, outcome, t, px)
<1>1. qty \in Nat /\ qty > 0
  BY DEF IsOrder
<1>2. /\ gain \in Int
      /\ gain < 0 <=> ~Reached(d, px, p.entry_price)
      /\ gain <= 0 <=> Reached(d, p.entry_price, px)
  BY DEF Reached
<1>3. q.gross_pnl = gross /\ q.net_pnl = gross - charges
  BY DEF Close, PlansFor
<1>4. charges \in Nat /\ (qty * (p.entry_price + px) >= 5 => charges > 0)
  BY <1>1, ChargesTake
<1> HIDE DEF gain, charges, q
<1>5. /\ gross \in Int
      /\ gain < 0 => gross < 0
      /\ gain <= 0 => gross <= 0
      /\ gain > 0 => gross > 0
  <2>1. \A n \in Nat, g \in Int : n > 0 =>
            /\ n * g \in Int
            /\ g < 0 => n * g < 0
            /\ g <= 0 => n * g <= 0
            /\ g > 0 => n * g > 0
    OBVIOUS
  <2>2. 100 * qty \in Nat /\ 100 * qty > 0
    BY <1>1
  <2> QED BY <1>2, <2>1, <2>2
<1> HIDE DEF gross
<1> QED BY <1>2, <1>3, <1>4, <1>5 DEF q

-----------------------------------------------------------------------------
(* Prices: where a candle fills.                                           *)

\* A price within the range of a candle trades on it.
LEMMA WithinRange ==
    ASSUME NEW c, IsCandle(c), NEW px \in Nat, c.low <= px, px <= c.high
    PROVE  TradedOn(c, px)
<1>1. c.low \in Nat /\ c.high \in Nat
  BY DEF IsCandle, IsShape
<1>2. SlipOn(c.low) \in Nat /\ SlipOn(c.high) \in Nat
  BY <1>1, SlipOnNat
<1> QED BY <1>1, <1>2 DEF TradedOn

\* Slippage on the way in worsens a price within the range by no more than
\* the range allows.
LEMMA SlippedInInside ==
    ASSUME NEW d \in Directions, NEW c, IsCandle(c),
           NEW fill \in Nat, c.low <= fill, fill <= c.high
    PROVE  LET px == SlippedIn(d, fill)
           IN  /\ px \in Nat
               /\ TradedOn(c, px)
               /\ Reached(d, px, fill)
               /\ Reached(d, px, WorstOf(d, c))
               /\ SlipPct = 0 => px = fill
<1>1. c.low \in Nat /\ c.high \in Nat
  BY DEF IsCandle, IsShape
<1>2. /\ SlipOn(c.low) \in Nat /\ SlipOn(fill) \in Nat /\ SlipOn(c.high) \in Nat
      /\ SlipOn(fill) <= SlipOn(c.high)
      /\ c.low - SlipOn(c.low) <= fill - SlipOn(fill)
      /\ SlipOn(fill) <= fill
  BY <1>1, SlipOnGrows
<1>3. SlipPct = 0 => SlipOn(fill) = 0
  BY DEF SlipOn
<1> QED BY <1>1, <1>2, <1>3
        DEF SlippedIn, Offset, TradedOn, Reached, WorstOf, Directions

\* Slippage on the way out does the same for a price that the candle's worst
\* has met.
LEMMA SlippedOutInside ==
    ASSUME NEW d \in Directions, NEW c, IsCandle(c),
           NEW level \in Nat, TradedOn(c, level), Reached(d, level, WorstOf(d, c))
    PROVE  LET px == SlippedOut(d, level)
           IN  px \in Nat /\ TradedOn(c, px) /\ Reached(d, level, px)
<1>1. c.low \in Nat /\ c.high \in Nat
  BY DEF IsCandle, IsShape
<1>2. SlipOn(level) \in Nat /\ SlipOn(level) <= level
      /\ SlipOn(c.low) \in Nat /\ SlipOn(c.high) \in Nat
  BY <1>1, SlipOnGrows
<1>3. CASE d = "LONG"
  <2>1. c.low <= level
    BY <1>3 DEF Reached, WorstOf
  <2>2. c.low - SlipOn(c.low) <= level - SlipOn(level)
    BY <1>1, <2>1, SlipOnGrows
  <2>3. SlippedOut(d, level) = level - SlipOn(level)
    BY <1>2, <1>3 DEF SlippedOut, Offset
  <2> QED BY <1>1, <1>2, <1>3, <2>2, <2>3 DEF TradedOn, Reached
<1>4. CASE d = "SHORT"
  <2>1. level <= c.high
    BY <1>4 DEF Reached, WorstOf
  <2>2. SlipOn(level) <= SlipOn(c.high)
    BY <1>1, <2>1, SlipOnGrows
  <2>3. SlippedOut(d, level) = level + SlipOn(level)
    BY <1>2, <1>4 DEF SlippedOut, Offset
  <2> QED BY <1>1, <1>2, <1>4, <2>1, <2>2, <2>3 DEF TradedOn, Reached
<1> QED BY <1>3, <1>4 DEF Directions

\* The price paid for a position and the order's levels.
EntryPriced(p) ==
    /\ p.entry_price \in Nat
    /\ ~Reached(p.order.dir, p.order.stop, p.entry_price)
    /\ SlipPct = 0 => ~Reached(p.order.dir, p.entry_price, p.order.target)

\* The fill behind that price did not reach the breakeven trigger, as long as
\* the stop was not moved.
TriggerAhead(p) ==
    ~p.at_breakeven /\ p.order.trigger # NoPrice =>
        \E fill \in Nat : /\ p.entry_price = SlippedIn(p.order.dir, fill)
                          /\ ~Reached(p.order.dir, fill, p.order.trigger)

\* The position was filled on this very candle, between stop and target.
FilledOn(p, c) ==
    /\ c.time = p.entry_time
    /\ ~p.at_breakeven
    /\ \E fill \in Nat :
          /\ c.low <= fill /\ fill <= c.high
          /\ p.entry_price = SlippedIn(p.order.dir, fill)
          /\ ~Reached(p.order.dir, p.order.stop, fill)
          /\ ~Reached(p.order.dir, fill, p.order.target)

\* What the prices of a plan satisfy after any number of candles.
PricedPlan(p) ==
    /\ p.state # "PENDING" => EntryPriced(p)
    /\ p.state = "OPEN" => TriggerAhead(p)
    /\ p.state = "CLOSED" => ResultFits(p)
    /\ p.outcome = "TARGET_HIT" /\ p.order.trigger # NoPrice
          => p.exit_time > p.entry_time

\* A resting order is filled within the candle's range, short of its target.
LEMMA FillIsInside ==
    ASSUME NEW orders, NEW p, GoodPlan(p, orders), p.state = "PENDING", IsLive(p),
           NEW c, IsCandle(c), Triggered(p.order, c),
           ~PastTarget(p.order, FillPrice(p.order, c))
    PROVE  LET q == Fill(p, c)
           IN  /\ EntryPriced(q)
               /\ FilledOn(q, c)
               /\ TradedOn(c, q.entry_price)
<1> DEFINE o == p.order
           d == o.dir
           fill == FillPrice(o, c)
           q == Fill(p, c)
<1>1. /\ d \in Directions /\ o.entry \in Nat /\ o.stop \in Nat /\ o.target \in Nat
      /\ ~Reached(d, o.stop, o.entry)
  BY DEF GoodPlan, IsOrder
<1>2. /\ c.open \in Nat /\ c.low \in Nat /\ c.high \in Nat
      /\ c.low <= c.open /\ c.open <= c.high
  BY DEF IsCandle, IsShape
<1>3. Reached(d, BestOf(d, c), o.entry)
  BY DEF Triggered
<1>4. /\ q.order = o /\ q.entry_price = SlippedIn(d, fill)
      /\ q.entry_time = c.time /\ q.at_breakeven = FALSE
  BY DEF Fill, GoodPlan, PlansFor, PlanInv
<1>5. ~Reached(d, fill, o.target)
  BY DEF PastTarget
<1> HIDE DEF q, d, o
<1>6. /\ fill \in Nat /\ c.low <= fill /\ fill <= c.high
      /\ Reached(d, fill, o.entry)
  BY <1>1, <1>2, <1>3 DEF FillPrice, Better, Reached, BestOf, Directions, d
<1> HIDE DEF fill
<1>7. /\ SlippedIn(d, fill) \in Nat /\ TradedOn(c, SlippedIn(d, fill))
      /\ Reached(d, SlippedIn(d, fill), fill)
      /\ SlipPct = 0 => SlippedIn(d, fill) = fill
  BY <1>1, <1>6, SlippedInInside
<1>8. /\ ~Reached(d, o.stop, fill)
      /\ ~Reached(d, o.stop, SlippedIn(d, fill))
  BY <1>1, <1>6, <1>7 DEF Reached
<1>9. q.order.dir = d
  BY <1>4 DEF d
<1> QED BY <1>4, <1>5, <1>6, <1>7, <1>8, <1>9 DEF EntryPriced, FilledOn, q

\* An open plan with everything that bounds its next exit.
Managed(p, c) ==
    /\ p.state = "OPEN"
    /\ EntryPriced(p)
    /\ \/ TriggerAhead(p) /\ c.time > p.entry_time
       \/ FilledOn(p, c)

\* The levels an exit can be at are prices.
LEMMA ManagedLevels ==
    ASSUME NEW orders, NEW p, GoodPlan(p, orders), NEW c, IsCandle(c),
           Managed(p, c)
    PROVE  LET q == Protected(p, c)
           IN  /\ GoodPlan(q, orders) /\ q.state = "OPEN" /\ q.order = p.order
               /\ q.entry_price = p.entry_price /\ q.entry_time = p.entry_time
               /\ q.at_breakeven = (p.at_breakeven \/ MovesToBreakeven(p, c))
               /\ q.current_stop \in Nat
               /\ q.current_stop = IF q.at_breakeven THEN p.entry_price
                                                     ELSE p.order.stop
               /\ p.order.dir \in Directions
               /\ p.order.stop \in Nat /\ p.order.target \in Nat
               /\ p.entry_price \in Nat
<1>1. /\ p.order.dir \in Directions
      /\ p.order.stop \in Nat /\ p.order.target \in Nat
  BY DEF GoodPlan, IsOrder
<1>2. p.state = "OPEN" /\ p.entry_price \in Nat
  BY DEF Managed, EntryPriced
<1>3. LET q == Protected(p, c)
      IN  /\ GoodPlan(q, orders) /\ q.state = "OPEN" /\ q.order = p.order
          /\ q.entry_price = p.entry_price /\ q.entry_time = p.entry_time
  BY <1>2, ProtectedFacts
<1>4. Protected(p, c).at_breakeven = (p.at_breakeven \/ MovesToBreakeven(p, c))
  <2>1. p \in PlansFor(orders)
    BY DEF GoodPlan
  <2>2. p.at_breakeven \in BOOLEAN
    BY <2>1 DEF PlansFor
  <2>3. CASE MovesToBreakeven(p, c)
    <3>1. Protected(p, c).at_breakeven = TRUE
      BY <2>1, <2>3 DEF Protected, PlansFor
    <3> QED BY <2>3, <3>1
  <2>4. CASE ~MovesToBreakeven(p, c)
    BY <2>2, <2>4 DEF Protected
  <2> QED BY <2>3, <2>4
<1> DEFINE q == Protected(p, c)
<1> HIDE DEF q
<1>5. q.current_stop = IF q.at_breakeven THEN q.entry_price ELSE q.order.stop
  BY <1>3, OpenPlan DEF q
<1> QED BY <1>1, <1>2, <1>3, <1>4, <1>5 DEF q

\* A stop that the candle meets is met at a price of its range, the stop just
\* moved to breakeven included.
LEMMA StopIsInside ==
    ASSUME NEW orders, NEW p, GoodPlan(p, orders), NEW c, IsCandle(c),
           Managed(p, c), Stopped(Protected(p, c), c)
    PROVE  LET q  == Protected(p, c)
               px == StopExit(q, c, c.time # q.entry_time /\ ~MovesToBreakeven(p, c))
           IN  /\ px \in Nat
               /\ TradedOn(c, px)
               /\ Reached(p.order.dir, q.current_stop, px)
<1> DEFINE q == Protected(p, c)
           d == p.order.dir
           stop == q.current_stop
           moved == MovesToBreakeven(p, c)
           gap_ok == c.time # q.entry_time /\ ~moved
           level == IF gap_ok THEN Worse(d, stop, c.open) ELSE stop
           px == StopExit(q, c, gap_ok)
<1>1. /\ q.order = p.order /\ q.entry_time = p.entry_time
      /\ q.at_breakeven = (p.at_breakeven \/ moved)
      /\ stop \in Nat
      /\ stop = IF q.at_breakeven THEN p.entry_price ELSE p.order.stop
      /\ d \in Directions /\ p.order.stop \in Nat /\ p.entry_price \in Nat
  BY ManagedLevels
<1>2. /\ c.open \in Nat /\ c.low \in Nat /\ c.high \in Nat
      /\ c.low <= c.open /\ c.open <= c.high /\ c.low <= c.high
  BY DEF IsCandle, IsShape
<1>3. Reached(d, stop, WorstOf(d, c))
  BY <1>1 DEF Stopped
<1>4. px = SlippedOut(d, level)
  BY <1>1 DEF StopExit
<1> HIDE DEF q, stop, moved, px
<1>5. /\ level \in Nat
      /\ Reached(d, level, WorstOf(d, c))
      /\ Reached(d, stop, level)
  BY <1>1, <1>2, <1>3 DEF Worse, Reached, WorstOf, Directions
<1>6. TradedOn(c, level)
  <2>1. CASE gap_ok
    <3>1. c.low <= level /\ level <= c.high
      BY <1>1, <1>2, <1>3, <2>1 DEF Worse, Reached, WorstOf, Directions
    <3> QED BY <1>5, <3>1, WithinRange
  <2>2. CASE moved
    <3>1. level = p.entry_price
      BY <1>1, <2>2
    <3>2. CASE FilledOn(p, c)
      BY <1>1, <3>1, <3>2, SlippedInInside DEF FilledOn
    <3>3. CASE TriggerAhead(p)
      <4>1. /\ p.order.trigger # NoPrice /\ ~p.at_breakeven
            /\ Reached(d, BestOf(d, c), p.order.trigger)
            /\ p.order.trigger \in Nat
        BY <2>2 DEF moved, MovesToBreakeven, GoodPlan, IsOrder
      <4>2. PICK fill \in Nat : /\ p.entry_price = SlippedIn(d, fill)
                                /\ ~Reached(d, fill, p.order.trigger)
        BY <3>3, <4>1 DEF TriggerAhead
      <4>3. SlipOn(fill) \in Nat
        BY SlipOnNat
      <4>4. CASE d = "LONG"
        <5>1. fill <= c.high /\ p.entry_price = fill + SlipOn(fill)
          BY <1>2, <4>1, <4>2, <4>4 DEF Reached, BestOf, SlippedIn, Offset
        <5>2. SlipOn(fill) <= SlipOn(c.high) /\ SlipOn(c.high) \in Nat
          BY <1>2, <5>1, SlipOnGrows
        <5>3. c.low <= p.entry_price
          BY <1>5, <3>1, <4>4 DEF Reached, WorstOf
        <5>4. SlipOn(c.low) \in Nat
          BY <1>2, SlipOnNat
        <5> QED BY <1>1, <1>2, <3>1, <4>3, <5>1, <5>2, <5>3, <5>4 DEF TradedOn
      <4>5. CASE d = "SHORT"
        <5>1. c.low <= fill /\ p.entry_price = fill - SlipOn(fill)
          BY <1>2, <4>1, <4>2, <4>5 DEF Reached, BestOf, SlippedIn, Offset
        <5>2. c.low - SlipOn(c.low) <= fill - SlipOn(fill)
          BY <1>2, <5>1, SlipOnGrows
        <5>3. p.entry_price <= c.high
          BY <1>5, <3>1, <4>5 DEF Reached, WorstOf
        <5>4. SlipOn(c.high) \in Nat
          BY <1>2, SlipOnNat
        <5> QED BY <1>1, <1>2, <3>1, <5>1, <5>2, <5>3, <5>4 DEF TradedOn
      <4> QED BY <1>1, <4>4, <4>5 DEF Directions
    <3> QED BY <3>2, <3>3 DEF Managed
  <2>3. CASE ~gap_ok /\ ~moved
    <3>1. FilledOn(p, c)
      <4>1. c.time = p.entry_time /\ c.time \in Int
        BY <1>1, <2>3 DEF IsCandle
      <4> QED BY <4>1 DEF Managed
    <3>2. level = p.order.stop
      BY <1>1, <2>3, <3>1 DEF FilledOn
    <3>3. c.low <= level /\ level <= c.high
      BY <1>1, <1>2, <1>5, <3>1, <3>2 DEF FilledOn, Reached, WorstOf, Directions
    <3> QED BY <1>5, <3>3, WithinRange
  <2> QED BY <2>1, <2>2, <2>3
<1>7. px \in Nat /\ TradedOn(c, px) /\ Reached(d, level, px)
  BY <1>1, <1>4, <1>5, <1>6, SlippedOutInside
<1>8. Reached(d, stop, px)
  <2> HIDE DEF level
  <2>1. stop \in Int /\ level \in Int /\ px \in Int
    BY <1>1, <1>5, <1>7
  <2> QED BY <1>5, <1>7, <2>1, ReachedOrder
<1> QED BY <1>7, <1>8 DEF px, q, stop, moved

\* A target is taken within the range and at or beyond its price; with a
\* breakeven trigger, never on the entry candle.
LEMMA TargetIsInside ==
    ASSUME NEW orders, NEW p, GoodPlan(p, orders), NEW c, IsCandle(c),
           Managed(p, c), ~Stopped(Protected(p, c), c),
           HitsTarget(Protected(p, c), c)
    PROVE  LET q  == Protected(p, c)
               px == TargetExit(q, c, c.time # q.entry_time)
           IN  /\ px \in Nat
               /\ TradedOn(c, px)
               /\ Reached(p.order.dir, px, p.order.target)
               /\ p.order.trigger # NoPrice => c.time > p.entry_time
<1> DEFINE q == Protected(p, c)
           d == p.order.dir
           target == p.order.target
           px == TargetExit(q, c, c.time # q.entry_time)
<1>1. /\ q.order = p.order /\ q.entry_time = p.entry_time
      /\ q.at_breakeven = (p.at_breakeven \/ MovesToBreakeven(p, c))
      /\ q.current_stop = IF q.at_breakeven THEN p.entry_price ELSE p.order.stop
      /\ d \in Directions /\ target \in Nat
  BY ManagedLevels
<1>2. /\ c.open \in Nat /\ c.low \in Nat /\ c.high \in Nat /\ c.time \in Int
      /\ c.low <= c.open /\ c.open <= c.high /\ c.low <= c.high
  BY DEF IsCandle, IsShape
<1>3. /\ Reached(d, BestOf(d, c), target)
      /\ ~Reached(d, q.current_stop, WorstOf(d, c))
  BY <1>1 DEF HitsTarget, Stopped
<1>4. px = IF c.time # p.entry_time THEN Better(d, target, c.open) ELSE target
  BY <1>1 DEF TargetExit
<1> HIDE DEF q, px
<1>5. c.time > p.entry_time => c.time # p.entry_time
  <2>1. p.entry_time \in Int
    BY OpenPlan DEF Managed
  <2> QED BY <1>2, <2>1
<1>6. CASE c.time > p.entry_time
  <2>1. px = Better(d, target, c.open)
    BY <1>4, <1>5, <1>6
  <2>2. /\ px \in Nat /\ c.low <= px /\ px <= c.high
        /\ Reached(d, px, target)
    BY <1>1, <1>2, <1>3, <2>1 DEF Better, Reached, BestOf, Directions
  <2> QED BY <1>6, <2>2, WithinRange DEF px, q
<1>7. CASE FilledOn(p, c)
  <2>1. PICK fill \in Nat : /\ c.low <= fill /\ fill <= c.high
                            /\ p.entry_price = SlippedIn(d, fill)
                            /\ ~Reached(d, fill, target)
    BY <1>7 DEF FilledOn
  <2>2. px = target
    BY <1>4, <1>7 DEF FilledOn
  <2>3. /\ px \in Nat /\ c.low <= px /\ px <= c.high
        /\ Reached(d, px, target)
    BY <1>1, <1>2, <1>3, <2>1, <2>2 DEF Reached, BestOf, Directions
  <2>4. p.order.trigger = NoPrice
    <3> SUFFICES ASSUME p.order.trigger # NoPrice PROVE FALSE
      OBVIOUS
    <3>1. /\ p.order.trigger \in Nat
          /\ ~Reached(d, p.order.trigger, target)
      BY DEF GoodPlan, IsOrder
    <3>2. Reached(d, BestOf(d, c), p.order.trigger)
      BY <1>1, <1>2, <1>3, <3>1 DEF Reached, BestOf, Directions
    <3>3. MovesToBreakeven(p, c)
      BY <1>7, <3>2 DEF MovesToBreakeven, FilledOn
    <3>4. q.current_stop = p.entry_price
      BY <1>1, <3>3
    <3>5. Reached(d, p.entry_price, WorstOf(d, c))
      BY <1>1, <2>1, SlippedInInside
    <3> QED BY <1>3, <3>4, <3>5
  <2> QED BY <2>3, <2>4, WithinRange DEF px, q
<1> QED BY <1>6, <1>7 DEF Managed

\* Managing an open plan keeps its prices, and exits inside the candle.
LEMMA ManagePrices ==
    ASSUME NEW orders, NEW p, GoodPlan(p, orders), NEW c, IsCandle(c),
           Managed(p, c)
    PROVE  LET r == ManageOpen(p, c)
           IN  /\ PricedPlan(r)
               /\ r.entry_price = p.entry_price
               /\ r.state = "CLOSED" => TradedOn(c, r.exit_price)
<1> DEFINE q == Protected(p, c)
           d == p.order.dir
           gap_ok == c.time # q.entry_time
           moved == MovesToBreakeven(p, c)
           r == ManageOpen(p, c)
<1>1. /\ GoodPlan(q, orders) /\ q.state = "OPEN" /\ q.order = p.order
      /\ q.entry_price = p.entry_price /\ q.entry_time = p.entry_time
      /\ q.at_breakeven = (p.at_breakeven \/ moved)
      /\ q.current_stop = IF q.at_breakeven THEN p.entry_price ELSE p.order.stop
      /\ d \in Directions /\ p.entry_price \in Nat
      /\ p.order.stop \in Nat /\ p.order.target \in Nat
  BY ManagedLevels
<1>2. /\ q \in PlansFor(orders) /\ IsOrder(q.order) /\ q.outcome = "NONE"
      /\ q.entry_time \in Int
  BY <1>1, OpenPlan DEF GoodPlan
<1>3. EntryPriced(p) /\ EntryPriced(q)
  BY <1>1 DEF Managed, EntryPriced
<1> HIDE DEF q, gap_ok, moved
<1>4. ASSUME NEW outcome \in Outcomes \ {"NONE", "EXPIRED"}, NEW t \in Int,
             NEW px \in Nat, r = Close(q, outcome, t, px), TradedOn(c, px),
             outcome = "STOPPED_LOSS" => ~Reached(d, px, p.entry_price),
             outcome = "STOPPED_BREAKEVEN" => Reached(d, p.entry_price, px),
             outcome = "TARGET_HIT" /\ SlipPct = 0
                => ~Reached(d, p.entry_price, px),
             outcome = "TARGET_HIT" /\ p.order.trigger # NoPrice
                => t > p.entry_time
      PROVE  /\ PricedPlan(r)
             /\ r.entry_price = p.entry_price
             /\ r.state = "CLOSED" => TradedOn(c, r.exit_price)
  <2>1. /\ r.order = p.order /\ r.state = "CLOSED" /\ r.outcome = outcome
        /\ r.entry_price = p.entry_price /\ r.entry_time = p.entry_time
        /\ r.exit_time = t /\ r.exit_price = px
    BY <1>1, <1>2, <1>4, CloseFacts
  <2>2. /\ r.net_pnl <= r.gross_pnl
        /\ p.order.qty * (p.entry_price + px) >= 5 => r.net_pnl < r.gross_pnl
        /\ ~Reached(d, px, p.entry_price) => r.gross_pnl < 0
        /\ Reached(d, p.entry_price, px) => r.gross_pnl <= 0
        /\ ~Reached(d, p.entry_price, px) => r.gross_pnl > 0
    BY <1>1, <1>2, <1>4, CloseResult
  <2> HIDE DEF r
  <2>3. ResultFits(r)
    BY <1>4, <2>1, <2>2 DEF ResultFits
  <2>4. EntryPriced(r)
    BY <1>3, <2>1 DEF EntryPriced
  <2> QED BY <1>4, <2>1, <2>3, <2>4 DEF PricedPlan
<1>5. CASE Stopped(q, c)
  <2> DEFINE px == StopExit(q, c, gap_ok /\ ~moved)
  <2>1. r = Close(q, StopOutcome(q), c.time, px)
    BY <1>5 DEF ManageOpen, q, gap_ok, moved
  <2>2. px \in Nat /\ TradedOn(c, px) /\ Reached(d, q.current_stop, px)
    BY <1>5, StopIsInside DEF q, gap_ok, moved
  <2>3. StopOutcome(q) \in Outcomes \ {"NONE", "EXPIRED"} /\ c.time \in Int
    BY DEF StopOutcome, Outcomes, IsCandle
  <2> HIDE DEF px, r
  <2>4. StopOutcome(q) = "STOPPED_LOSS" => ~Reached(d, px, p.entry_price)
    <3> SUFFICES ASSUME StopOutcome(q) = "STOPPED_LOSS"
                 PROVE  ~Reached(d, px, p.entry_price)
      OBVIOUS
    <3>1. q.current_stop = p.order.stop
      BY <1>1 DEF StopOutcome
    <3>2. ~Reached(d, p.order.stop, p.entry_price)
      BY <1>3 DEF EntryPriced
    <3> QED BY <1>1, <2>2, <3>1, <3>2 DEF Reached
  <2>5. StopOutcome(q) = "STOPPED_BREAKEVEN" => Reached(d, p.entry_price, px)
    BY <1>1, <2>2 DEF StopOutcome
  <2>6. StopOutcome(q) # "TARGET_HIT"
    BY DEF StopOutcome
  <2> QED BY <1>4, <2>1, <2>2, <2>3, <2>4, <2>5, <2>6 DEF r
<1>6. CASE ~Stopped(q, c) /\ HitsTarget(q, c)
  <2> DEFINE px == TargetExit(q, c, gap_ok)
  <2>1. r = Close(q, "TARGET_HIT", c.time, px)
    BY <1>6 DEF ManageOpen, q, gap_ok
  <2>2. /\ px \in Nat /\ TradedOn(c, px) /\ Reached(d, px, p.order.target)
        /\ p.order.trigger # NoPrice => c.time > p.entry_time
    BY <1>6, TargetIsInside DEF q, gap_ok
  <2>3. "TARGET_HIT" \in Outcomes \ {"NONE", "EXPIRED"} /\ c.time \in Int
    BY DEF Outcomes, IsCandle
  <2> HIDE DEF px, r
  <2>4. SlipPct = 0 => ~Reached(d, p.entry_price, px)
    BY <1>1, <1>3, <2>2 DEF EntryPriced, Reached
  <2> QED BY <1>4, <2>1, <2>2, <2>3, <2>4 DEF r
<1>7. CASE ~Stopped(q, c) /\ ~HitsTarget(q, c) /\ Label(c.time) >= ForceExit
  <2> DEFINE px == SlippedOut(d, c.close)
  <2>1. r = Close(q, "EOD_EXIT", c.time + 1, px)
    BY <1>1, <1>7 DEF ManageOpen, q
  <2>2. /\ c.close \in Nat /\ c.low <= c.close /\ c.close <= c.high
        /\ c.low \in Nat /\ c.high \in Nat /\ c.time + 1 \in Int
    BY DEF IsCandle, IsShape
  <2>3. Reached(d, c.close, WorstOf(d, c)) /\ TradedOn(c, c.close)
    BY <1>1, <2>2, WithinRange DEF Reached, WorstOf, Directions
  <2>4. px \in Nat /\ TradedOn(c, px)
    BY <1>1, <2>2, <2>3, SlippedOutInside
  <2>5. "EOD_EXIT" \in Outcomes \ {"NONE", "EXPIRED"}
    BY DEF Outcomes
  <2> HIDE DEF px, r
  <2> QED BY <1>4, <2>1, <2>2, <2>4, <2>5 DEF r
<1>8. CASE ~Stopped(q, c) /\ ~HitsTarget(q, c) /\ ~(Label(c.time) >= ForceExit)
  <2>1. r = q
    BY <1>8 DEF ManageOpen, q
  <2>2. TriggerAhead(q)
    <3>1. CASE q.at_breakeven
      BY <3>1 DEF TriggerAhead
    <3>2. CASE ~q.at_breakeven /\ TriggerAhead(p)
      BY <1>1, <3>2 DEF TriggerAhead
    <3>3. CASE ~q.at_breakeven /\ FilledOn(p, c) /\ p.order.trigger # NoPrice
      <4>1. PICK fill \in Nat : /\ c.low <= fill /\ fill <= c.high
                                /\ p.entry_price = SlippedIn(d, fill)
        BY <3>3 DEF FilledOn
      <4>2. ~Reached(d, BestOf(d, c), p.order.trigger)
        BY <1>1, <3>3 DEF moved, MovesToBreakeven
      <4>3. p.order.trigger \in Nat /\ c.low \in Nat /\ c.high \in Nat
        BY <3>3 DEF GoodPlan, IsOrder, IsCandle, IsShape
      <4>4. ~Reached(d, fill, p.order.trigger)
        BY <1>1, <4>1, <4>2, <4>3 DEF Reached, BestOf, Directions
      <4> QED BY <1>1, <4>1, <4>4 DEF TriggerAhead
    <3>4. CASE p.order.trigger = NoPrice
      BY <1>1, <3>4 DEF TriggerAhead
    <3> QED BY <3>1, <3>2, <3>3, <3>4 DEF Managed
  <2> HIDE DEF r
  <2> QED BY <1>1, <1>2, <1>3, <2>1, <2>2 DEF PricedPlan, r
<1> QED BY <1>5, <1>6, <1>7, <1>8

\* A candle keeps the prices of a plan, and enters and exits in its range.
LEMMA AdvancePrices ==
    ASSUME NEW orders, NEW p, GoodPlan(p, orders), IsLive(p), PricedPlan(p),
           NEW c, IsCandle(c), p.state = "OPEN" => c.time > p.entry_time
    PROVE  LET r == Advance(p, c)
           IN  /\ PricedPlan(r)
               /\ p.state = "PENDING" /\ r.state # "PENDING"
                     => TradedOn(c, r.entry_price)
               /\ r.state = "CLOSED" => TradedOn(c, r.exit_price)
<1> DEFINE r == Advance(p, c)
<1>1. p \in PlansFor(orders) /\ p.state \in {"PENDING", "OPEN"}
  BY DEF GoodPlan, PlansFor, PlanStates, IsLive, IsTerminal
<1>2. CASE p.state = "PENDING"
  <2>1. \/ r = p
        \/ r = Expire(p)
        \/ /\ r = ManageOpen(Fill(p, c), c)
           /\ Triggered(p.order, c)
           /\ ~PastTarget(p.order, FillPrice(p.order, c))
    BY <1>2 DEF Advance, AdvancePending
  <2>2. CASE r = p
    BY <1>2, <2>2
  <2>3. CASE r = Expire(p)
    <3>1. r.state = "PENDING" /\ r.outcome = "EXPIRED"
      BY <1>1, <1>2, <2>3 DEF Expire, PlansFor
    <3> HIDE DEF r
    <3> QED BY <3>1 DEF PricedPlan, r
  <2>4. CASE /\ r = ManageOpen(Fill(p, c), c)
             /\ Triggered(p.order, c)
             /\ ~PastTarget(p.order, FillPrice(p.order, c))
    <3> DEFINE f == Fill(p, c)
    <3>1. GoodPlan(f, orders) /\ f.state = "OPEN"
      BY <1>2, FillFacts
    <3>2. EntryPriced(f) /\ FilledOn(f, c) /\ TradedOn(c, f.entry_price)
      BY <1>2, <2>4, FillIsInside
    <3> HIDE DEF f
    <3>3. Managed(f, c)
      BY <3>1, <3>2 DEF Managed
    <3>4. LET m == ManageOpen(f, c)
          IN  /\ PricedPlan(m) /\ m.entry_price = f.entry_price
              /\ m.state = "CLOSED" => TradedOn(c, m.exit_price)
      BY <3>1, <3>3, ManagePrices
    <3>5. r = ManageOpen(f, c)
      BY <2>4 DEF f
    <3> HIDE DEF r
    <3> QED BY <3>2, <3>4, <3>5 DEF r
  <2> QED BY <2>1, <2>2, <2>3, <2>4
<1>3. CASE p.state = "OPEN"
  <2>1. r = ManageOpen(p, c)
    BY <1>3 DEF Advance
  <2>2. Managed(p, c)
    BY <1>3 DEF Managed, PricedPlan
  <2> HIDE DEF r
  <2> QED BY <1>3, <2>1, <2>2, ManagePrices DEF r
<1> QED BY <1>1, <1>2, <1>3

-----------------------------------------------------------------------------
(* Prices: the theorems.                                                   *)

\* The prices of every plan fit its order and its outcome.
PricesInv ==
    /\ BrokerInv
    /\ \A i \in DOMAIN plans : PricedPlan(plans[i])

\* Every step keeps them.
LEMMA PricesInvHolds == Spec => []PricesInv
<1> DEFINE Priced == \A i \in DOMAIN plans : PricedPlan(plans[i])
<1>1. Init => PricesInv
  BY InitInv DEF Init, PricesInv
<1>2. PricesInv /\ [Next]_vars => PricesInv'
  <2> SUFFICES ASSUME PricesInv, [Next]_vars PROVE Priced'
    BY StepInv DEF PricesInv
  <2>1. BrokerInv /\ Priced
    BY DEF PricesInv
  <2>2. ASSUME NEW o \in Orders, PlaceOrder(o) PROVE Priced'
    <3>1. /\ DOMAIN plans' = DOMAIN plans \cup {Len(plans) + 1}
          /\ \A i \in DOMAIN plans : plans'[i] = plans[i]
          /\ plans'[Len(plans) + 1] = NewPlan(o)
      BY <2>1, <2>2, PlacedPlans DEF GainsPlan
    <3>2. PricedPlan(NewPlan(o))
      BY DEF NewPlan, PricedPlan
    <3> QED BY <2>1, <3>1, <3>2
  <2>3. ASSUME NEW s \in Symbols, NEW t \in 0 .. LastSlot,
               NEW shape \in CandleShapes, OnCandle(s, CandleAt(t, shape))
        PROVE  Priced'
    <3> DEFINE c == CandleAt(t, shape)
    <3>1. IsCandle(c) /\ CandleMayArrive(s, c.time)
      BY <2>3, FeedCandles DEF OnCandle
    <3>2. plans' = PlansAfter(plans, s, c)
      BY <2>3 DEF OnCandle
    <3> HIDE DEF c
    <3>3. /\ GoodPlans(plans, Orders) /\ NotBefore(plans, s, c)
          /\ EnteredBefore(plans, s, c)
      BY <2>1, <3>1, CandlesComeLater, CandlesComeStrictlyLater DEF BrokerInv
    <3>4. /\ DOMAIN plans' = DOMAIN plans
          /\ \A i \in DOMAIN plans :
                \/ plans'[i] = plans[i]
                \/ i \in LiveOn(plans, s) /\ plans'[i] = Advance(plans[i], c)
      BY <3>1, <3>2, <3>3, PlansAfterFacts
    <3>5. ASSUME NEW i \in LiveOn(plans, s) PROVE PricedPlan(Advance(plans[i], c))
      <4>1. /\ GoodPlan(plans[i], Orders) /\ IsLive(plans[i])
            /\ PricedPlan(plans[i])
            /\ plans[i].state = "OPEN" => c.time > plans[i].entry_time
        BY <2>1, <3>3 DEF LiveOn, GoodPlans, EnteredBefore
      <4> QED BY <3>1, <4>1, AdvancePrices
    <3> QED BY <2>1, <3>4, <3>5
  <2>4. ASSUME NEW o \in placed, CancelOrder(o.id) PROVE Priced'
    <3>1. \A k \in DOMAIN plans' : \E i \in DOMAIN plans : plans[i] = plans'[k]
      BY <2>1, <2>4, PlansWithoutKeeps
         DEF CancelOrder, BrokerInv, OnePlanPerOrder
    <3> QED BY <2>1, <3>1
  <2>5. CASE UNCHANGED vars
    BY <2>1, <2>5 DEF vars
  <2>6. CASE Finished
    BY <2>5, <2>6 DEF Finished
  <2> QED BY <2>2, <2>3, <2>4, <2>5, <2>6 DEF Next
<1> QED BY <1>1, <1>2, PTL DEF Spec

\* Whatever gaps, breakeven moves and stops meet on a candle, an entry and an
\* exit are at prices of its range, give or take the slippage.
THEOREM FillsStayInside == Spec => []FillsInsideTheCandle
<1>1. PricesInv => FillsInsideTheCandle
  <2> SUFFICES ASSUME PricesInv, NEW s \in Symbols,
                      NEW i \in LiveOn(plans, s), NEW c \in NextCandles(s)
               PROVE  LET p == plans[i]
                          q == Advance(p, c)
                      IN  /\ p.state = "PENDING" /\ q.state # "PENDING"
                                => TradedOn(c, q.entry_price)
                          /\ q.state = "CLOSED" => TradedOn(c, q.exit_price)
    BY DEF FillsInsideTheCandle
  <2>1. IsCandle(c) /\ CandleMayArrive(s, c.time)
    <3>1. PICK t \in {u \in 0 .. LastSlot : CandleMayArrive(s, u)},
               shape \in CandleShapes : c = CandleAt(t, shape)
      BY DEF NextCandles
    <3> QED BY <3>1, FeedCandles
  <2>2. EnteredBefore(plans, s, c)
    BY <2>1, CandlesComeStrictlyLater DEF PricesInv
  <2>3. /\ GoodPlan(plans[i], Orders) /\ IsLive(plans[i])
        /\ PricedPlan(plans[i])
        /\ plans[i].state = "OPEN" => c.time > plans[i].entry_time
    BY <2>2 DEF LiveOn, PricesInv, BrokerInv, GoodPlans, EnteredBefore
  <2> QED BY <2>1, <2>3, AdvancePrices
<1> QED BY <1>1, PricesInvHolds, PTL

\* A position with a breakeven trigger never takes its target on the candle
\* that filled it: that candle has stopped it out first.
THEOREM TargetsTakeALaterCandle == Spec => []TargetNeedsALaterCandle
<1>1. PricesInv => TargetNeedsALaterCandle
  BY DEF PricesInv, PricedPlan, TargetNeedsALaterCandle
<1> QED BY <1>1, PricesInvHolds, PTL

\* The outcome of a closed plan and the sign of its result agree, and charges
\* never add to it.
THEOREM ResultsMatchOutcomes == Spec => []ResultMatchesOutcome
<1>1. PricesInv => ResultMatchesOutcome
  BY DEF PricesInv, PricedPlan, ResultFits, ResultMatchesOutcome
<1> QED BY <1>1, PricesInvHolds, PTL

-----------------------------------------------------------------------------
(* What one candle does.                                                   *)

\* The plan that a candle reports: the one at f, and no other shows a change.
ReportsPlan(f) ==
    /\ reply' = <<ToTrade(plans'[f])>>
    /\ IsLive(plans[f])
    /\ ReportedStep(plans[f], plans'[f])
    /\ ToTrade(plans'[f]) # ToTrade(plans[f])
    /\ \A i \in DOMAIN plans \ {f} : LooksAsBefore(plans, plans', i)

\* A candle keeps every plan in its place; it reports one or none.
LEMMA CandleReports ==
    ASSUME BrokerInv, NEW s \in Symbols, NEW t \in 0 .. LastSlot,
           NEW shape \in CandleShapes, OnCandle(s, CandleAt(t, shape))
    PROVE  /\ DOMAIN plans' = DOMAIN plans
           /\ \A i \in DOMAIN plans : plans'[i].order = plans[i].order
           /\ \/ /\ reply' = <<>>
                 /\ \A i \in DOMAIN plans : LooksAsBefore(plans, plans', i)
              \/ \E f \in DOMAIN plans : ReportsPlan(f)
<1> DEFINE c == CandleAt(t, shape)
<1>1. IsCandle(c) /\ CandleMayArrive(s, c.time)
  BY FeedCandles DEF OnCandle
<1>2. plans' = PlansAfter(plans, s, c) /\ reply' = TradeAfter(plans, s, c)
  BY DEF OnCandle
<1> HIDE DEF c
<1>3. GoodPlans(plans, Orders) /\ EnteredBefore(plans, s, c)
  BY <1>1, CandlesComeStrictlyLater DEF BrokerInv
<1>4. NotBefore(plans, s, c)
  BY <1>1, CandlesComeLater
<1>5. /\ DOMAIN plans' = DOMAIN plans
      /\ \A i \in DOMAIN plans :
            \/ plans'[i] = plans[i]
            \/ i \in LiveOn(plans, s) /\ plans'[i] = Advance(plans[i], c)
  BY <1>1, <1>2, <1>3, <1>4, PlansAfterFacts
<1>6. ASSUME NEW i \in DOMAIN plans PROVE plans'[i].order = plans[i].order
  <2>1. CASE i \in LiveOn(plans, s) /\ plans'[i] = Advance(plans[i], c)
    <3>1. /\ IsLive(plans[i]) /\ GoodPlan(plans[i], Orders)
          /\ plans[i].state = "OPEN" => c.time >= plans[i].entry_time
      BY <1>3, <1>4, <2>1 DEF LiveOn, NotBefore, GoodPlans
    <3> QED BY <1>1, <2>1, <3>1, AdvanceFacts
  <2> QED BY <1>5, <2>1
<1>7. \/ /\ reply' = <<>>
         /\ \A i \in DOMAIN plans : LooksAsBefore(plans, plans', i)
      \/ \E f \in LiveOn(plans, s) : ReportsPlan(f)
  BY <1>1, <1>2, <1>3, OneReport DEF ReportsPlan, LiveOn
<1> QED BY <1>5, <1>6, <1>7 DEF LiveOn

-----------------------------------------------------------------------------
(* The caller learns of every change.                                      *)

\* A candle returns a trade exactly when a plan's trade changed, that plan is
\* the only one, and the returned trade is its new content: nothing that
\* on_candle does is lost to the ledger and the database.
THEOREM NothingGoesUnreported == Spec => ReportedExactlyWhatChanged
<1> DEFINE changed == {i \in DOMAIN plans : Visible(plans'[i]) # Visible(plans[i])}
           told    == {reply'[k] : k \in DOMAIN reply'}
           Told    == clock' # clock =>
                          told = {Visible(plans'[i]) : i \in changed}
<1>1. BrokerInv /\ [Next]_vars => [Told]_vars
  <2> SUFFICES ASSUME BrokerInv, Next PROVE Told
    OBVIOUS
  <2>1. ASSUME NEW o \in Orders, PlaceOrder(o) PROVE Told
    BY <2>1 DEF PlaceOrder
  <2>2. ASSUME NEW o \in placed, CancelOrder(o.id) PROVE Told
    BY <2>2 DEF CancelOrder
  <2>3. CASE Finished
    BY <2>3 DEF Finished, vars
  <2>4. ASSUME NEW s \in Symbols, NEW t \in 0 .. LastSlot,
               NEW shape \in CandleShapes, OnCandle(s, CandleAt(t, shape))
        PROVE  Told
    <3>1. CASE /\ reply' = <<>>
               /\ \A i \in DOMAIN plans : LooksAsBefore(plans, plans', i)
      <4>1. told = {}
        BY <3>1
      <4>2. changed = {}
        BY <3>1 DEF LooksAsBefore, Visible
      <4> QED BY <4>1, <4>2
    <3>2. ASSUME NEW f \in DOMAIN plans, ReportsPlan(f) PROVE Told
      <4>1. told = {ToTrade(plans'[f])}
        BY <3>2 DEF ReportsPlan
      <4>2. changed = {f}
        BY <3>2 DEF ReportsPlan, LooksAsBefore, Visible
      <4> QED BY <4>1, <4>2 DEF Visible
    <3> QED BY <2>4, <3>1, <3>2, CandleReports
  <2> QED BY <2>1, <2>2, <2>3, <2>4 DEF Next
<1> QED BY <1>1, InvHolds, PTL DEF Spec, ReportedExactlyWhatChanged

-----------------------------------------------------------------------------
(* The refinement.                                                         *)

\* Stage, of given plans and given placed orders.
StageIn(ps, pl, id) ==
    LET mine == {i \in DOMAIN ps : ps[i].order.id = id}
    IN  IF mine # {} THEN StageOf(ps[CHOOSE i \in mine : TRUE])
        ELSE IF \E o \in pl : o.id = id THEN "withdrawn"
        ELSE "unknown"

\* The stage of an order with a plan is the one that its only plan shows.
LEMMA StageOfItsPlan ==
    ASSUME NEW ps, NEW pl,
           \A i, j \in DOMAIN ps : ps[i].order.id = ps[j].order.id => i = j,
           NEW i \in DOMAIN ps
    PROVE  StageIn(ps, pl, ps[i].order.id) = StageOf(ps[i])
<1> DEFINE mine == {j \in DOMAIN ps : ps[j].order.id = ps[i].order.id}
           it   == CHOOSE j \in mine : TRUE
<1>1. it \in mine /\ mine # {}
  OBVIOUS
<1>2. it = i
  BY <1>1
<1> QED BY <1>1, <1>2 DEF StageIn

\* The stage of an order without one depends on the placed orders only.
LEMMA StageWithoutPlan ==
    ASSUME NEW ps, NEW pl, NEW id, \A i \in DOMAIN ps : ps[i].order.id # id
    PROVE  StageIn(ps, pl, id) =
              IF \E o \in pl : o.id = id THEN "withdrawn" ELSE "unknown"
<1>1. {i \in DOMAIN ps : ps[i].order.id = id} = {}
  OBVIOUS
<1> QED BY <1>1 DEF StageIn

\* From one state of the broker to the next, at most one order moves, and it
\* moves along the lifecycle.
OneMove(ps, pl, qs, ql) ==
    \/ \A id \in OrderIds : StageIn(qs, ql, id) = StageIn(ps, pl, id)
    \/ \E mover \in OrderIds :
          /\ <<StageIn(ps, pl, mover), StageIn(qs, ql, mover)>>
                \in Lifecycle!Moves
          /\ StageIn(qs, ql, mover) \in Lifecycle!Stages
          /\ \A id \in OrderIds \ {mover} :
                StageIn(qs, ql, id) = StageIn(ps, pl, id)

\* An order that is placed was unknown, and rests.
LEMMA PlaceMoves ==
    ASSUME BrokerInv, BrokerInv', NEW o \in Orders, PlaceOrder(o)
    PROVE  OneMove(plans, placed, plans', placed')
<1>1. o \notin placed /\ placed' = placed \cup {o} /\ placed \subseteq Orders
  BY DEF PlaceOrder, OrderMayArrive, BrokerInv, ShapeInv
<1>2. /\ DOMAIN plans' = DOMAIN plans \cup {Len(plans) + 1}
      /\ \A i \in DOMAIN plans : plans'[i] = plans[i]
      /\ plans'[Len(plans) + 1] = NewPlan(o)
  BY PlacedPlans DEF GainsPlan
<1>3. /\ NewPlan(o).order = o
      /\ StageOf(NewPlan(o)) = "resting"
  BY DEF NewPlan, StageOf
<1>4. /\ \A i \in DOMAIN plans : plans[i].order \in placed
      /\ \A i, j \in DOMAIN plans : plans[i].order.id = plans[j].order.id => i = j
      /\ \A i, j \in DOMAIN plans' : plans'[i].order.id = plans'[j].order.id => i = j
  BY DEF BrokerInv, OnePlanPerOrder
<1>5. \A q \in placed : q.id # o.id
  BY <1>1, BrokerAssumption
<1>6. StageIn(plans, placed, o.id) = "unknown"
  BY <1>4, <1>5, StageWithoutPlan
<1>7. StageIn(plans', placed', o.id) = "resting"
  <2> DEFINE n == Len(plans) + 1
  <2>1. n \in DOMAIN plans' /\ plans'[n].order.id = o.id
    BY <1>2, <1>3
  <2> HIDE DEF n
  <2>2. StageIn(plans', placed', plans'[n].order.id) = StageOf(plans'[n])
    BY <1>4, <2>1, StageOfItsPlan
  <2> QED BY <1>2, <1>3, <2>1, <2>2 DEF n
<1>8. ASSUME NEW id \in OrderIds \ {o.id}
      PROVE  StageIn(plans', placed', id) = StageIn(plans, placed, id)
  <2>1. CASE \E i \in DOMAIN plans : plans[i].order.id = id
    <3>1. PICK i \in DOMAIN plans : plans[i].order.id = id
      BY <2>1
    <3>2. i \in DOMAIN plans' /\ plans'[i] = plans[i]
      BY <1>2
    <3>3. /\ StageIn(plans, placed, plans[i].order.id) = StageOf(plans[i])
          /\ StageIn(plans', placed', plans'[i].order.id) = StageOf(plans'[i])
      BY <1>4, <3>2, StageOfItsPlan
    <3> QED BY <3>1, <3>2, <3>3
  <2>2. CASE \A i \in DOMAIN plans : plans[i].order.id # id
    <3>1. \A i \in DOMAIN plans' : plans'[i].order.id # id
      BY <1>2, <1>3, <2>2
    <3>2. (\E q \in placed' : q.id = id) <=> (\E q \in placed : q.id = id)
      BY <1>1
    <3> QED BY <2>2, <3>1, <3>2, StageWithoutPlan
  <2> QED BY <2>1, <2>2
<1>9. o.id \in OrderIds
  BY DEF OrderIds
<1> QED BY <1>6, <1>7, <1>8, <1>9 DEF OneMove, Lifecycle!Moves, Lifecycle!Stages

\* A candle fills, closes or skips one order at most.
LEMMA CandleMoves ==
    ASSUME BrokerInv, BrokerInv', NEW s \in Symbols, NEW t \in 0 .. LastSlot,
           NEW shape \in CandleShapes, OnCandle(s, CandleAt(t, shape))
    PROVE  OneMove(plans, placed, plans', placed')
<1>1. /\ DOMAIN plans' = DOMAIN plans
      /\ \A i \in DOMAIN plans : plans'[i].order = plans[i].order
  BY CandleReports
<1>2. /\ \A i, j \in DOMAIN plans : plans[i].order.id = plans[j].order.id => i = j
      /\ \A i, j \in DOMAIN plans' : plans'[i].order.id = plans'[j].order.id => i = j
      /\ placed' = placed
  BY DEF BrokerInv, OnePlanPerOrder, OnCandle
<1>3. ASSUME NEW i \in DOMAIN plans
      PROVE  /\ StageIn(plans, placed, plans[i].order.id) = StageOf(plans[i])
             /\ StageIn(plans', placed', plans[i].order.id) = StageOf(plans'[i])
  <2>1. StageIn(plans', placed', plans'[i].order.id) = StageOf(plans'[i])
    BY <1>1, <1>2, StageOfItsPlan
  <2> QED BY <1>1, <1>2, <2>1, StageOfItsPlan
<1>4. ASSUME NEW id, \A i \in DOMAIN plans : plans[i].order.id # id
      PROVE  StageIn(plans', placed', id) = StageIn(plans, placed, id)
  <2>1. \A i \in DOMAIN plans' : plans'[i].order.id # id
    BY <1>1, <1>4
  <2> QED BY <1>2, <1>4, <2>1, StageWithoutPlan
<1>5. \A i \in DOMAIN plans : LooksAsBefore(plans, plans', i)
            => StageOf(plans'[i]) = StageOf(plans[i])
  BY DEF LooksAsBefore, StageOf
<1>6. CASE \A i \in DOMAIN plans : LooksAsBefore(plans, plans', i)
  <2>1. \A id \in OrderIds :
            StageIn(plans', placed', id) = StageIn(plans, placed, id)
    BY <1>3, <1>4, <1>5, <1>6
  <2> QED BY <2>1 DEF OneMove
<1>7. ASSUME NEW f \in DOMAIN plans, ReportsPlan(f)
      PROVE  OneMove(plans, placed, plans', placed')
  <2> DEFINE mover == plans[f].order.id
  <2>1. mover \in OrderIds
    BY DEF BrokerInv, OnePlanPerOrder, ShapeInv, OrderIds
  <2>2. <<StageOf(plans[f]), StageOf(plans'[f])>> \in
            { <<"resting", "open">>, <<"resting", "closed">>,
              <<"resting", "skipped">>, <<"open", "closed">> }
    <3>1. /\ ReportedStep(plans[f], plans'[f])
          /\ IsLive(plans[f])
          /\ GoodPlan(plans'[f], Orders)
      BY <1>1, <1>7 DEF ReportsPlan, BrokerInv, GoodPlans
    <3> QED BY <3>1 DEF ReportedStep, StageOf, IsLive, IsTerminal, GoodPlan,
                        PlanInv, PlanCoherent
  <2>3. ASSUME NEW id \in OrderIds \ {mover}
        PROVE  StageIn(plans', placed', id) = StageIn(plans, placed, id)
    <3>1. ASSUME NEW i \in DOMAIN plans, plans[i].order.id = id
          PROVE  StageIn(plans', placed', id) = StageIn(plans, placed, id)
      <4>1. i # f
        BY <3>1
      <4>2. LooksAsBefore(plans, plans', i)
        BY <1>7, <4>1 DEF ReportsPlan
      <4> QED BY <1>3, <1>5, <3>1, <4>2
    <3> QED BY <1>4, <3>1
  <2>4. /\ StageIn(plans, placed, mover) = StageOf(plans[f])
        /\ StageIn(plans', placed', mover) = StageOf(plans'[f])
    BY <1>3
  <2> HIDE DEF mover
  <2> QED BY <2>1, <2>2, <2>3, <2>4 DEF OneMove, Lifecycle!Moves, Lifecycle!Stages
<1> QED BY <1>6, <1>7, CandleReports

\* A cancelled order is withdrawn, whatever its stage; one without a plan
\* stays as it is.
LEMMA CancelMoves ==
    ASSUME BrokerInv, BrokerInv', NEW o \in placed, CancelOrder(o.id)
    PROVE  OneMove(plans, placed, plans', placed')
<1>1. /\ plans' = PlansWithout(plans, o.id) /\ placed' = placed
      /\ GoodPlans(plans, Orders)
  BY DEF CancelOrder, BrokerInv
<1>2. /\ \A i, j \in DOMAIN plans : plans[i].order.id = plans[j].order.id => i = j
      /\ \A i, j \in DOMAIN plans' : plans'[i].order.id = plans'[j].order.id => i = j
  BY DEF BrokerInv, OnePlanPerOrder
<1>3. /\ \A k \in DOMAIN plans' : plans'[k].order.id # o.id
      /\ \A k \in DOMAIN plans' : \E i \in DOMAIN plans : plans[i] = plans'[k]
      /\ \A i \in DOMAIN plans : plans[i].order.id # o.id
            => \E k \in DOMAIN plans' : plans'[k] = plans[i]
  BY <1>1, <1>2, PlansWithoutKeeps
<1>4. ASSUME NEW id, id # o.id
      PROVE  StageIn(plans', placed', id) = StageIn(plans, placed, id)
  <2>1. ASSUME NEW i \in DOMAIN plans, plans[i].order.id = id
        PROVE  StageIn(plans', placed', id) = StageIn(plans, placed, id)
    <3>1. PICK k \in DOMAIN plans' : plans'[k] = plans[i]
      BY <1>3, <1>4, <2>1
    <3>2. /\ StageIn(plans, placed, plans[i].order.id) = StageOf(plans[i])
          /\ StageIn(plans', placed', plans'[k].order.id) = StageOf(plans'[k])
      BY <1>2, StageOfItsPlan
    <3> QED BY <2>1, <3>1, <3>2
  <2>2. CASE \A i \in DOMAIN plans : plans[i].order.id # id
    <3>1. \A k \in DOMAIN plans' : plans'[k].order.id # id
      BY <1>3, <2>2
    <3> QED BY <1>1, <2>2, <3>1, StageWithoutPlan
  <2> QED BY <2>1, <2>2
<1>5. StageIn(plans', placed', o.id) = "withdrawn"
  BY <1>1, <1>3, StageWithoutPlan
<1>6. CASE \A i \in DOMAIN plans : plans[i].order.id # o.id
  <2>1. StageIn(plans, placed, o.id) = "withdrawn"
    BY <1>6, StageWithoutPlan
  <2> QED BY <1>4, <1>5, <2>1 DEF OneMove
<1>7. ASSUME NEW i \in DOMAIN plans, plans[i].order.id = o.id
      PROVE  OneMove(plans, placed, plans', placed')
  <2>1. StageIn(plans, placed, o.id) = StageOf(plans[i])
    BY <1>2, <1>7, StageOfItsPlan
  <2>2. StageOf(plans[i]) \in {"resting", "open", "closed", "skipped"}
    BY DEF StageOf
  <2>3. o.id \in OrderIds
    BY DEF BrokerInv, ShapeInv, OrderIds
  <2> QED BY <1>4, <1>5, <2>1, <2>2, <2>3
          DEF OneMove, Lifecycle!Moves, Lifecycle!Stages
<1> QED BY <1>6, <1>7

\* Every step of the broker is a step of the lifecycle, or none of it.
LEMMA StepsMove ==
    ASSUME BrokerInv, [Next]_vars
    PROVE  OneMove(plans, placed, plans', placed')
<1>1. BrokerInv'
  BY StepInv
<1>2. ASSUME NEW o \in Orders, PlaceOrder(o)
      PROVE  OneMove(plans, placed, plans', placed')
  BY <1>1, <1>2, PlaceMoves
<1>3. ASSUME NEW s \in Symbols, NEW t \in 0 .. LastSlot,
             NEW shape \in CandleShapes, OnCandle(s, CandleAt(t, shape))
      PROVE  OneMove(plans, placed, plans', placed')
  BY <1>1, <1>3, CandleMoves
<1>4. ASSUME NEW o \in placed, CancelOrder(o.id)
      PROVE  OneMove(plans, placed, plans', placed')
  BY <1>1, <1>4, CancelMoves
<1>5. CASE UNCHANGED vars
  BY <1>5 DEF vars, OneMove
<1>6. CASE Finished
  BY <1>5, <1>6 DEF Finished
<1> QED BY <1>2, <1>3, <1>4, <1>5, <1>6 DEF Next

\* PaperBroker implements TradeLifecycle: each order lives one life, and no
\* call - an order, a candle or a cancellation - moves two orders at once.
THEOREM EveryOrderLivesOneLife == Spec => ImplementsLifecycle
<1> DEFINE stage == [id \in OrderIds |-> Stage(id)]
<1>1. \A id : Stage(id) = StageIn(plans, placed, id)
  BY DEF Stage, StageIn
<1>2. \A id : Stage(id)' = StageIn(plans', placed', id)
  BY DEF Stage, StageIn
<1>3. Init => Lifecycle!LifecycleInit
  <2> SUFFICES ASSUME Init PROVE Lifecycle!LifecycleInit
    OBVIOUS
  <2>1. plans = <<>> /\ placed = {}
    BY DEF Init
  <2>2. \A id : Stage(id) = "unknown"
    BY <2>1 DEF Stage
  <2> QED BY <2>2 DEF Lifecycle!LifecycleInit
<1>4. BrokerInv /\ [Next]_vars => [Lifecycle!LifecycleNext]_stage
  <2> SUFFICES ASSUME BrokerInv, [Next]_vars
               PROVE  [Lifecycle!LifecycleNext]_stage
    OBVIOUS
  <2>1. OneMove(plans, placed, plans', placed')
    BY StepsMove
  <2>2. CASE \A id \in OrderIds :
                StageIn(plans', placed', id) = StageIn(plans, placed, id)
    BY <1>1, <1>2, <2>2
  <2>3. ASSUME NEW mover \in OrderIds,
               <<Stage(mover), Stage(mover)'>> \in Lifecycle!Moves,
               Stage(mover)' \in Lifecycle!Stages,
               \A id \in OrderIds \ {mover} : Stage(id)' = Stage(id)
        PROVE  Lifecycle!LifecycleNext
    <3>1. stage' = [stage EXCEPT ![mover] = Stage(mover)']
      BY <2>3
    <3>2. stage[mover] = Stage(mover)
      OBVIOUS
    <3>3. Lifecycle!Move(mover, Stage(mover)')
      BY <2>3, <3>1, <3>2 DEF Lifecycle!Move
    <3> QED BY <2>3, <3>3 DEF Lifecycle!LifecycleNext
  <2> QED BY <1>1, <1>2, <2>1, <2>2, <2>3 DEF OneMove
<1> QED BY <1>3, <1>4, InvHolds, PTL
        DEF Spec, ImplementsLifecycle, Lifecycle!LifecycleSpec

-----------------------------------------------------------------------------
(* Sessions.                                                               *)

\* The last candle of a session is labelled at or after both cut-offs, as the
\* labels of Indian time are (15:25 against 15:10).  With the labels of
\* another zone it need not be, and run Broker_overnight shows what happens.
SessionsEndAfterCutoffs ==
    /\ FirstLabel + (SlotsPerDay - 1) >= ForceExit
    /\ FirstLabel + (SlotsPerDay - 1) >= LastEntry

\* A slot lies in the session that its quotient names.
LEMMA QuotientIsUnique ==
    ASSUME NEW n \in Nat \ {0}, NEW t \in Nat, NEW q \in Nat,
           n * q <= t, t < n * (q + 1)
    PROVE  t \div n = q /\ t % n = t - n * q
<1> DEFINE k == t \div n
           r == t % n
<1>1. k \in Nat /\ r \in Nat /\ r < n
  OBVIOUS
<1>2. t = n * k + r
  OBVIOUS
<1> HIDE DEF k, r
<1>3. \A a, b \in Nat : a < b => n * (a + 1) <= n * b
  <2> SUFFICES ASSUME NEW a \in Nat, NEW b \in Nat, a < b
               PROVE  n * (a + 1) <= n * b
    OBVIOUS
  <2> DEFINE e == b - (a + 1)
  <2>1. e \in Nat /\ b = a + 1 + e
    OBVIOUS
  <2> HIDE DEF e
  <2>2. n * b = n * (a + 1) + n * e /\ n * e \in Nat
    BY <2>1
  <2>3. n * (a + 1) \in Nat
    OBVIOUS
  <2> QED BY <2>2, <2>3
<1>4. n * (k + 1) = n * k + n
  BY <1>1
<1>5. /\ n * k \in Nat /\ n * q \in Nat
      /\ n * (q + 1) \in Nat /\ n * (k + 1) \in Nat
  BY <1>1
<1>6. ~(k < q)
  <2> SUFFICES ASSUME k < q PROVE FALSE
    OBVIOUS
  <2>1. n * (k + 1) <= n * q
    BY <1>1, <1>3
  <2> QED BY <1>1, <1>2, <1>4, <1>5, <2>1
<1>7. ~(q < k)
  <2> SUFFICES ASSUME q < k PROVE FALSE
    OBVIOUS
  <2>1. n * (q + 1) <= n * k
    BY <1>1, <1>3
  <2> QED BY <1>1, <1>2, <1>5, <2>1
<1>8. k = q
  BY <1>1, <1>6, <1>7
<1>9. r = t - n * q
  BY <1>1, <1>2, <1>5, <1>8
<1> QED BY <1>8, <1>9 DEF k, r

\* The slots from b to the end of its session are of the session of b, and
\* the last one is labelled as the last slot of any session.
LEMMA SessionSlots ==
    ASSUME NEW b \in Nat
    PROVE  /\ SessionEnd(b) \in Nat
           /\ b <= SessionEnd(b)
           /\ \A t \in Nat : b <= t /\ t <= SessionEnd(b)
                                => DayOf(t) = DayOf(b)
           /\ Label(SessionEnd(b)) = FirstLabel + (SlotsPerDay - 1)
<1> DEFINE n == SlotsPerDay
           q == b \div n
<1>1. n \in Nat \ {0}
  BY PlanAssumption
<1>2. /\ q \in Nat /\ b % n \in 0 .. n - 1
      /\ b = n * q + (b % n)
  BY <1>1
<1>3. SessionEnd(b) = (q + 1) * n - 1
  BY DEF SessionEnd, DayOf
<1> HIDE DEF n, q
<1>4. (q + 1) * n = n * (q + 1) /\ n * (q + 1) = n * q + n /\ n * q \in Nat
  BY <1>1, <1>2
<1>5. SessionEnd(b) = n * q + n - 1 /\ SessionEnd(b) \in Nat
  BY <1>1, <1>3, <1>4
<1>6. n * q <= b /\ b <= SessionEnd(b)
  BY <1>1, <1>2, <1>4, <1>5
<1>7. ASSUME NEW t \in Nat, n * q <= t, t <= SessionEnd(b)
      PROVE  t \div n = q /\ t % n = t - n * q
  <2>1. t < n * (q + 1)
    BY <1>1, <1>4, <1>5, <1>7
  <2> QED BY <1>1, <1>2, <1>7, <2>1, QuotientIsUnique
<1>8. \A t \in Nat : b <= t /\ t <= SessionEnd(b) => DayOf(t) = DayOf(b)
  <2> SUFFICES ASSUME NEW t \in Nat, b <= t, t <= SessionEnd(b)
               PROVE  DayOf(t) = DayOf(b)
    OBVIOUS
  <2>1. n * q <= t
    BY <1>4, <1>6
  <2>2. t \div n = q
    BY <1>7, <2>1
  <2> QED BY <2>2 DEF DayOf, n, q
<1>9. SessionEnd(b) % n = n - 1
  <2>1. SessionEnd(b) % n = SessionEnd(b) - n * q
    BY <1>1, <1>4, <1>5, <1>7
  <2> QED BY <1>1, <1>4, <1>5, <2>1
<1> QED BY <1>5, <1>6, <1>8, <1>9 DEF Label, n

\* A candle past both cut-offs ends every plan it reaches.
LEMMA LastCandleSettles ==
    ASSUME NEW orders, NEW p, GoodPlan(p, orders), IsLive(p), NEW c,
           Label(c.time) >= ForceExit, Label(c.time) >= LastEntry
    PROVE  IsTerminal(Advance(p, c))
<1>1. p \in PlansFor(orders) /\ p.state \in {"PENDING", "OPEN"}
  BY DEF GoodPlan, PlansFor, PlanStates, IsLive, IsTerminal
<1>2. CASE p.state = "PENDING"
  <2>1. Advance(p, c) = Expire(p)
    BY <1>2 DEF Advance, AdvancePending
  <2>2. Expire(p).outcome = "EXPIRED"
    BY <1>1 DEF Expire, PlansFor
  <2> QED BY <2>1, <2>2 DEF IsTerminal
<1>3. CASE p.state = "OPEN"
  <2> DEFINE q == Protected(p, c)
  <2>1. q \in PlansFor(orders)
    BY <1>1 DEF Protected, PlansFor, Amounts
  <2>2. ASSUME NEW outcome, NEW t, NEW px
        PROVE  Close(q, outcome, t, px).state = "CLOSED"
    <3> HIDE DEF q
    <3> QED BY <2>1 DEF Close, PlansFor
  <2>3. ManageOpen(p, c).state = "CLOSED"
    BY <2>2 DEF ManageOpen
  <2>4. Advance(p, c) = ManageOpen(p, c)
    BY <1>3 DEF Advance
  <2> QED BY <2>3, <2>4 DEF IsTerminal
<1> QED BY <1>1, <1>2, <1>3

\* A live plan belongs to the session of the candle that comes next.
LiveInItsSession ==
    \A i \in DOMAIN plans :
        LET o == plans[i].order
        IN  o.symbol \notin irregular /\ IsLive(plans[i]) =>
                /\ o.born - 1 <= clock[o.symbol]
                /\ clock[o.symbol] < SessionEnd(o.born)

OneOrderPerSession ==
    \A o1, o2 \in placed :
        o1.symbol = o2.symbol /\ DayOf(o1.born) = DayOf(o2.born) => o1 = o2

\* The inductive invariant behind the properties of sessions.
SessionInv ==
    /\ BrokerInv
    /\ LiveInItsSession
    /\ OneOrderPerSession

\* Two live plans of a regular symbol are of one session, so of one order.
LEMMA OneLivePlan == SessionInv => AtMostOneLivePlan
<1> SUFFICES ASSUME SessionInv,
                    NEW s \in Symbols, s \notin irregular,
                    NEW i \in LiveOn(plans, s), NEW j \in LiveOn(plans, s)
             PROVE  i = j
  BY DEF AtMostOneLivePlan
<1>1. clock[s] \in Int /\ clock[s] + 1 \in Nat
  BY SlotsAreNat DEF SessionInv, BrokerInv, ShapeInv
<1>2. ASSUME NEW k \in LiveOn(plans, s)
      PROVE  /\ plans[k].order \in placed /\ plans[k].order.symbol = s
             /\ DayOf(clock[s] + 1) = DayOf(plans[k].order.born)
  <2>1. /\ k \in DOMAIN plans /\ plans[k].order.symbol = s /\ IsLive(plans[k])
        /\ plans[k].order \in placed /\ IsOrder(plans[k].order)
    BY DEF LiveOn, SessionInv, BrokerInv, OnePlanPerOrder, GoodPlans, GoodPlan
  <2> DEFINE b == plans[k].order.born
  <2>2. b \in Nat
    BY <2>1 DEF IsOrder
  <2>3. b - 1 <= clock[s] /\ clock[s] < SessionEnd(b)
    BY <2>1 DEF SessionInv, LiveInItsSession
  <2> HIDE DEF b
  <2>4. SessionEnd(b) \in Nat
    BY <2>2, SessionSlots
  <2>5. b <= clock[s] + 1 /\ clock[s] + 1 <= SessionEnd(b)
    BY <1>1, <2>2, <2>3, <2>4
  <2> QED BY <1>1, <2>1, <2>2, <2>5, SessionSlots DEF b
<1>3. plans[i].order = plans[j].order
  BY <1>2 DEF SessionInv, OneOrderPerSession
<1> QED BY <1>3 DEF LiveOn, SessionInv, BrokerInv, OnePlanPerOrder

\* An order that comes before the last candle of its session leaves its plan
\* with a candle to come.
LEMMA PlaceOrderSessions ==
    ASSUME SessionInv, BrokerInv', NEW o \in Orders, PlaceOrder(o)
    PROVE  SessionInv'
<1>1. /\ OrderMayArrive(o)
      /\ placed' = placed \cup {o} /\ clock' = clock
      /\ irregular' = irregular \cup {s \in {o.symbol} : IsLate(o)}
  BY DEF PlaceOrder
<1>2. /\ DOMAIN plans' = DOMAIN plans \cup {Len(plans) + 1}
      /\ \A i \in DOMAIN plans : plans'[i] = plans[i]
      /\ plans'[Len(plans) + 1] = NewPlan(o)
  BY PlacedPlans DEF SessionInv, GainsPlan
<1>3. NewPlan(o).order = o
  BY DEF NewPlan
<1>4. OneOrderPerSession'
  BY <1>1 DEF SessionInv, OneOrderPerSession, OrderMayArrive
<1>5. o.symbol \notin irregular' => clock[o.symbol] < SessionEnd(o.born)
  <2>1. o.symbol \in Symbols /\ o.born \in Nat
    BY BrokerAssumption DEF IsOrder
  <2>2. clock[o.symbol] \in Int
    BY <2>1, SlotsAreNat DEF SessionInv, BrokerInv, ShapeInv
  <2>3. SessionEnd(o.born) \in Nat
    BY <2>1, SessionSlots
  <2> QED BY <1>1, <2>2, <2>3 DEF OrderMayArrive, IsLate
<1>6. LiveInItsSession'
  <2> SUFFICES ASSUME NEW i \in DOMAIN plans',
                      plans'[i].order.symbol \notin irregular',
                      IsLive(plans'[i])
               PROVE  LET b == plans'[i].order
                      IN  /\ b.born - 1 <= clock[b.symbol]
                          /\ clock[b.symbol] < SessionEnd(b.born)
    BY <1>1 DEF LiveInItsSession
  <2>1. CASE i \in DOMAIN plans
    BY <1>1, <1>2, <2>1 DEF SessionInv, LiveInItsSession
  <2>2. CASE i = Len(plans) + 1
    BY <1>1, <1>2, <1>3, <1>5, <2>2 DEF OrderMayArrive
  <2> QED BY <1>2, <2>1, <2>2
<1> QED BY <1>4, <1>6 DEF SessionInv

\* The last candle of a session ends the live plan of its symbol; any other
\* candle leaves one more to come.
LEMMA OnCandleSessions ==
    ASSUME SessionsEndAfterCutoffs, SessionInv, BrokerInv',
           NEW s \in Symbols, NEW t \in 0 .. LastSlot,
           NEW shape \in CandleShapes, OnCandle(s, CandleAt(t, shape))
    PROVE  SessionInv'
<1> DEFINE c == CandleAt(t, shape)
<1>1. /\ IsCandle(c) /\ CandleMayArrive(s, c.time)
      /\ c.time \in Nat
  BY FeedCandles DEF OnCandle, IsCandle
<1>2. /\ plans' = PlansAfter(plans, s, c)
      /\ clock' = [clock EXCEPT ![s] = c.time]
      /\ irregular' = irregular \cup {k \in {s} : c.time # clock[s] + 1}
      /\ placed' = placed
  BY DEF OnCandle
<1> HIDE DEF c
<1>3. /\ GoodPlans(plans, Orders) /\ NotBefore(plans, s, c)
      /\ clock \in [Symbols -> -1 .. LastSlot] /\ clock[s] \in Int
  BY <1>1, CandlesComeLater, SlotsAreNat DEF SessionInv, BrokerInv, ShapeInv
<1>4. /\ DOMAIN plans' = DOMAIN plans
      /\ \A i \in DOMAIN plans :
            \/ plans'[i] = plans[i]
            \/ i \in LiveOn(plans, s) /\ plans'[i] = Advance(plans[i], c)
  BY <1>1, <1>2, <1>3, PlansAfterFacts
<1>5. ASSUME NEW i \in DOMAIN plans, IsLive(plans'[i])
      PROVE  /\ IsLive(plans[i])
             /\ plans'[i].order = plans[i].order
             /\ plans'[i].order.symbol \in Symbols
             /\ plans'[i].order.born \in Nat
  <2>1. GoodPlan(plans[i], Orders) /\ plans[i].order.symbol \in Symbols
    BY PlanSymbols DEF SessionInv, BrokerInv, GoodPlans
  <2>2. plans[i].order.born \in Nat
    BY <2>1 DEF GoodPlan, IsOrder
  <2>3. CASE i \in LiveOn(plans, s) /\ plans'[i] = Advance(plans[i], c)
    <3>1. /\ IsLive(plans[i])
          /\ plans[i].state = "OPEN" => c.time >= plans[i].entry_time
      BY <1>3, <2>3 DEF LiveOn, NotBefore
    <3> QED BY <1>1, <2>1, <2>2, <2>3, <3>1, AdvanceFacts
  <2> QED BY <1>4, <1>5, <2>1, <2>2, <2>3
<1>6. ASSUME NEW i \in DOMAIN plans, IsLive(plans'[i]),
             plans'[i].order.symbol = s, s \notin irregular'
      PROVE  /\ plans'[i].order.born - 1 <= c.time
             /\ c.time < SessionEnd(plans'[i].order.born)
  <2> DEFINE b == plans[i].order.born
  <2>1. b \in Nat /\ SessionEnd(b) \in Nat
    BY <1>5, <1>6, SessionSlots
  <2>2. s \notin irregular /\ c.time = clock[s] + 1
    BY <1>2, <1>6
  <2>3. b - 1 <= clock[s] /\ clock[s] < SessionEnd(b)
    BY <1>5, <1>6, <2>2 DEF SessionInv, LiveInItsSession
  <2>4. plans'[i] = Advance(plans[i], c)
    <3>1. i \in LiveOn(plans, s) /\ \A j \in LiveOn(plans, s) : j = i
      BY <1>5, <1>6, <2>2, OneLivePlan DEF LiveOn, AtMostOneLivePlan
    <3>2. i \in Nat
      BY <1>3, LenProperties DEF GoodPlans
    <3>3. i \in AdvancedOn(plans, s, c)
      BY <3>1, <3>2 DEF AdvancedOn, ReportingOn
    <3> QED BY <1>2, <3>3 DEF PlansAfter
  <2>5. c.time # SessionEnd(b)
    <3> SUFFICES ASSUME c.time = SessionEnd(b) PROVE FALSE
      OBVIOUS
    <3>1. Label(c.time) >= ForceExit /\ Label(c.time) >= LastEntry
      BY <2>1, SessionSlots DEF SessionsEndAfterCutoffs
    <3>2. IsTerminal(plans'[i])
      BY <1>3, <1>5, <1>6, <2>4, <3>1, LastCandleSettles DEF GoodPlans
    <3> QED BY <1>6, <3>2 DEF IsLive
  <2> HIDE DEF b
  <2>6. b - 1 <= c.time /\ c.time < SessionEnd(b)
    BY <1>1, <1>3, <2>1, <2>2, <2>3, <2>5
  <2> QED BY <1>5, <1>6, <2>6 DEF b
<1>7. LiveInItsSession'
  <2> SUFFICES ASSUME NEW i \in DOMAIN plans', IsLive(plans'[i]),
                      plans'[i].order.symbol \notin irregular'
               PROVE  LET b == plans'[i].order
                      IN  /\ b.born - 1 <= clock'[b.symbol]
                          /\ clock'[b.symbol] < SessionEnd(b.born)
    BY DEF LiveInItsSession
  <2>1. i \in DOMAIN plans
    BY <1>4
  <2>2. CASE plans'[i].order.symbol = s
    BY <1>2, <1>3, <1>6, <2>1, <2>2
  <2>3. CASE plans'[i].order.symbol # s
    <3>1. clock'[plans'[i].order.symbol] = clock[plans'[i].order.symbol]
      BY <1>2, <1>3, <1>5, <2>1, <2>3
    <3>2. plans'[i].order.symbol \notin irregular
      BY <1>2
    <3> QED BY <1>5, <2>1, <3>1, <3>2 DEF SessionInv, LiveInItsSession
  <2> QED BY <2>2, <2>3
<1>8. OneOrderPerSession'
  BY <1>2 DEF SessionInv, OneOrderPerSession
<1> QED BY <1>7, <1>8 DEF SessionInv

\* A cancellation only takes plans away.
LEMMA CancelOrderSessions ==
    ASSUME SessionInv, BrokerInv', NEW id, CancelOrder(id)
    PROVE  SessionInv'
<1>1. /\ plans' = PlansWithout(plans, id)
      /\ clock' = clock /\ placed' = placed /\ irregular' = irregular
  BY DEF CancelOrder
<1>2. \A k \in DOMAIN plans' : \E i \in DOMAIN plans : plans[i] = plans'[k]
  BY <1>1, PlansWithoutKeeps DEF SessionInv, BrokerInv, OnePlanPerOrder
<1> QED BY <1>1, <1>2 DEF SessionInv, LiveInItsSession, OneOrderPerSession

\* Where sessions end after the cut-offs, the invariant is inductive.
LEMMA SessionInvHolds ==
    ASSUME SessionsEndAfterCutoffs
    PROVE  Spec => []SessionInv
<1>1. Init => SessionInv
  <2>1. Init => plans = <<>> /\ placed = {}
    BY DEF Init
  <2>2. plans = <<>> /\ placed = {} => LiveInItsSession /\ OneOrderPerSession
    BY DEF LiveInItsSession, OneOrderPerSession
  <2> QED BY <2>1, <2>2, InitInv DEF SessionInv
<1>2. SessionInv /\ [Next]_vars => SessionInv'
  <2> SUFFICES ASSUME SessionInv, [Next]_vars PROVE SessionInv'
    OBVIOUS
  <2>1. BrokerInv'
    BY StepInv DEF SessionInv
  <2>2. ASSUME NEW o \in Orders, PlaceOrder(o) PROVE SessionInv'
    BY <2>1, <2>2, PlaceOrderSessions
  <2>3. ASSUME NEW s \in Symbols, NEW t \in 0 .. LastSlot,
               NEW shape \in CandleShapes, OnCandle(s, CandleAt(t, shape))
        PROVE  SessionInv'
    BY <2>1, <2>3, OnCandleSessions
  <2>4. ASSUME NEW o \in placed, CancelOrder(o.id) PROVE SessionInv'
    BY <2>1, <2>4, CancelOrderSessions
  <2>5. CASE UNCHANGED vars
    BY <2>1, <2>5 DEF vars, SessionInv, LiveInItsSession, OneOrderPerSession
  <2>6. CASE Finished
    BY <2>5, <2>6 DEF Finished
  <2> QED BY <2>2, <2>3, <2>4, <2>5, <2>6 DEF Next
<1> QED BY <1>1, <1>2, PTL DEF Spec

\* on_candle's assumption holds on an orderly feed whose sessions end after
\* the cut-offs: no symbol ever has two plans that are resting or open.
THEOREM OneLivePlanPerSymbol ==
    ASSUME SessionsEndAfterCutoffs
    PROVE  Spec => []AtMostOneLivePlan
  BY SessionInvHolds, OneLivePlan, PTL

\* ... and once the candles of a session are consumed every order of it is
\* closed or expired: nothing stays open or resting overnight.
THEOREM EverySessionSettles ==
    ASSUME SessionsEndAfterCutoffs
    PROVE  Spec => []SettledBySessionEnd
<1>1. SessionInv => SettledBySessionEnd
  <2> SUFFICES ASSUME SessionInv, NEW i \in DOMAIN plans,
                      plans[i].order.symbol \notin irregular,
                      clock[plans[i].order.symbol]
                         >= SessionEnd(plans[i].order.born)
               PROVE  IsTerminal(plans[i])
    BY DEF SettledBySessionEnd
  <2> DEFINE now == clock[plans[i].order.symbol]
             end == SessionEnd(plans[i].order.born)
  <2>1. now \in Int /\ plans[i].order.born \in Nat
    BY PlanSymbols DEF SessionInv, BrokerInv, GoodPlans, GoodPlan, IsOrder
  <2>2. end \in Nat
    BY <2>1, SessionSlots
  <2>3. IsLive(plans[i]) => now < end
    BY DEF SessionInv, LiveInItsSession
  <2> HIDE DEF now, end
  <2>4. now >= end
    BY DEF now, end
  <2>5. ~IsLive(plans[i])
    BY <2>1, <2>2, <2>3, <2>4
  <2> QED BY <2>5 DEF IsLive
<1> QED BY <1>1, SessionInvHolds, PTL

\* ... so on_candle, though it returns at the first plan that reports, has
\* advanced every live plan of its symbol.
THEOREM EveryLivePlanAdvances ==
    ASSUME SessionsEndAfterCutoffs
    PROVE  Spec => []AdvancesEveryLivePlan
<1>1. SessionInv => AdvancesEveryLivePlan
  <2> SUFFICES ASSUME SessionInv,
                      NEW s \in Symbols, s \notin irregular,
                      NEW c \in NextCandles(s)
               PROVE  AdvancedOn(plans, s, c) = LiveOn(plans, s)
    BY DEF AdvancesEveryLivePlan
  <2>1. \A i, j \in LiveOn(plans, s) : i = j
    BY OneLivePlan DEF AtMostOneLivePlan
  <2>2. LiveOn(plans, s) \subseteq Nat
    BY LenProperties DEF LiveOn, SessionInv, BrokerInv, GoodPlans
  <2>3. \A i, j \in LiveOn(plans, s) : i <= j
    BY <2>1, <2>2
  <2> QED BY <2>3 DEF AdvancedOn, ReportingOn
<1> QED BY <1>1, SessionInvHolds, PTL

=============================================================================
