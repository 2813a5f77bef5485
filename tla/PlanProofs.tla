------------------------------ MODULE PlanProofs ------------------------------
(***************************************************************************)
(* Lemmas about one plan and one candle (PlanState) and about the broker's *)
(* sequence of plans (BrokerPlans), for every order and every candle.      *)
(***************************************************************************)
EXTENDS BrokerPlans, SumProofs, SequenceTheorems, TLAPS

\* A closed candle as the broker receives it.
IsCandle(c) == c.time \in Nat /\ IsShape(c)

\* What every plan the broker keeps satisfies: its fields are coherent, the
\* stop of a resting order was not moved yet, a position was entered on the
\* winning side of its stop, and a closed plan has a result.
PlanInv(p) ==
    /\ PlanCoherent(p)
    /\ p.state = "PENDING" => ~p.at_breakeven
    /\ p.state # "PENDING" =>
          Reached(p.order.dir, p.entry_price, p.order.stop)
    /\ p.state = "CLOSED" => p.gross_pnl \in Int /\ p.net_pnl \in Int

\* The plans of well-formed orders that satisfy it.
GoodPlan(p, orders) ==
    /\ IsOrder(p.order)
    /\ p \in PlansFor(orders)
    /\ PlanInv(p)

-----------------------------------------------------------------------------
(* Arithmetic.                                                             *)

\* Slippage never helps, and takes whole rupees.
LEMMA SlipOnNat ==
    ASSUME NEW px \in Nat
    PROVE  SlipOn(px) \in Nat
<1>1. SlipPct \in Nat
  BY PlanAssumption
<1>2. px * SlipPct \in Nat
  BY <1>1
<1>3. \A n \in Nat : n \div 100 \in Nat
  OBVIOUS
<1> QED BY <1>2, <1>3 DEF SlipOn

\* Charges are integers.
LEMMA ChargesInt ==
    ASSUME NEW d, NEW qty \in Nat, NEW entry \in Int, NEW exit \in Int
    PROVE  RoundTripCharges(d, qty, entry, exit) \in Int
<1>1. \A v \in Int : Brokerage(v) \in Int
  BY DEF Brokerage, BrokeragePerRupee, BrokerageFlat
<1>2. \A x \in Int : ToPaise(x) \in Int
  BY DEF ToPaise, MicroPerPaisa
<1>3. \A x \in Int : (x * GstPct) \div 100 \in Int
  BY DEF GstPct
<1>4. ASSUME NEW b \in Int, NEW s \in Int PROVE ChargesOn(b, s) \in Int
  <2> DEFINE taxed == Brokerage(b) + Brokerage(s)
                        + (b + s) * (ExchangePerRupee + SebiPerRupee)
             gst   == (taxed * GstPct) \div 100
  <2>1. taxed \in Int
    BY <1>1 DEF ExchangePerRupee, SebiPerRupee
  <2>2. gst \in Int
    <3> HIDE DEF taxed
    <3> QED BY <2>1, <1>3
  <2>3. taxed + gst + s * SttPerRupee + b * StampPerRupee \in Int
    <3> HIDE DEF taxed, gst
    <3> QED BY <2>1, <2>2 DEF SttPerRupee, StampPerRupee
  <2> QED BY <2>3, <1>2 DEF ChargesOn
<1>5. qty * entry \in Int /\ qty * exit \in Int
  OBVIOUS
<1> QED BY <1>4, <1>5 DEF RoundTripCharges

-----------------------------------------------------------------------------
(* Closing a position.                                                     *)

\* _close ends the plan and touches only its state, outcome, exit and result.
LEMMA CloseFacts ==
    ASSUME NEW orders, NEW p \in PlansFor(orders),
           IsOrder(p.order), p.entry_price \in Int,
           NEW outcome \in Outcomes, NEW t \in Int, NEW px \in Int
    PROVE  LET q == Close(p, outcome, t, px)
           IN  /\ q \in PlansFor(orders)
               /\ q.order = p.order
               /\ q.state = "CLOSED"
               /\ q.outcome = outcome
               /\ q.entry_price = p.entry_price
               /\ q.entry_time = p.entry_time
               /\ q.current_stop = p.current_stop
               /\ q.at_breakeven = p.at_breakeven
               /\ q.exit_time = t
               /\ q.exit_price = px
               /\ q.gross_pnl \in Int /\ q.net_pnl \in Int
<1> DEFINE d == p.order.dir
           gain == IF d = "LONG" THEN px - p.entry_price ELSE p.entry_price - px
           gross == 100 * p.order.qty * gain
           net == gross - RoundTripCharges(d, p.order.qty, p.entry_price, px)
<1>1. p.order.qty \in Nat
  BY DEF PlansFor, IsOrder
<1>2. gain \in Int
  OBVIOUS
<1>3. gross \in Int
  <2> HIDE DEF gain
  <2> QED BY <1>1, <1>2
<1>4. net \in Int
  <2> HIDE DEF gross
  <2> QED BY <1>1, <1>3, ChargesInt
<1>5. Close(p, outcome, t, px) =
        [p EXCEPT !.state = "CLOSED", !.outcome = outcome,
                  !.exit_time = t, !.exit_price = px,
                  !.gross_pnl = gross, !.net_pnl = net]
  BY DEF Close
<1> HIDE DEF gross, net
<1> QED BY <1>3, <1>4, <1>5 DEF PlansFor, PlanStates, Amounts

-----------------------------------------------------------------------------
(* Managing an open position.                                              *)

\* Reached is a total order of the prices, in either direction.
LEMMA ReachedOrder ==
    ASSUME NEW d, NEW x \in Int, NEW y \in Int, NEW z \in Int
    PROVE  /\ Reached(d, x, x)
           /\ Reached(d, x, y) /\ Reached(d, y, z) => Reached(d, x, z)
           /\ Reached(d, x, y) \/ Reached(d, y, x)
  BY DEF Reached

\* An open plan has an entry, a stop and no exit.
LEMMA OpenPlan ==
    ASSUME NEW orders, NEW p, GoodPlan(p, orders), p.state = "OPEN"
    PROVE  /\ p.order \in orders
           /\ IsOrder(p.order)
           /\ p.entry_price \in Int
           /\ p.entry_time \in Int
           /\ p.current_stop \in Int
           /\ p.current_stop =
                 IF p.at_breakeven THEN p.entry_price ELSE p.order.stop
           /\ p.exit_price = NoPrice
           /\ p.outcome = "NONE"
           /\ Reached(p.order.dir, p.entry_price, p.order.stop)
<1>1. p.order \in orders /\ IsOrder(p.order)
  BY DEF GoodPlan, PlansFor
<1>2. p.entry_price \in Int /\ p.entry_time \in Int
  BY DEF GoodPlan, PlansFor, PlanInv, PlanCoherent, Amounts
<1>3. p.order.stop \in Int
  BY <1>1 DEF IsOrder
<1> QED BY <1>1, <1>2, <1>3 DEF GoodPlan, PlanInv, PlanCoherent

\* Moving the stop to breakeven keeps a plan good and never loosens it.
LEMMA ProtectedFacts ==
    ASSUME NEW orders, NEW p, GoodPlan(p, orders), p.state = "OPEN",
           NEW c, IsCandle(c)
    PROVE  LET q == Protected(p, c)
           IN  /\ GoodPlan(q, orders)
               /\ q.state = "OPEN"
               /\ q.order = p.order
               /\ q.entry_price = p.entry_price
               /\ q.entry_time = p.entry_time
               /\ Reached(p.order.dir, q.current_stop, p.current_stop)
<1> DEFINE q == [p EXCEPT !.current_stop = p.entry_price, !.at_breakeven = TRUE]
<1>1. CASE ~MovesToBreakeven(p, c)
  BY <1>1, OpenPlan, ReachedOrder DEF Protected
<1>2. CASE MovesToBreakeven(p, c)
  <2>1. Protected(p, c) = q
    BY <1>2 DEF Protected
  <2>2. p \in PlansFor(orders) /\ p.entry_price \in Int
    BY OpenPlan DEF GoodPlan
  <2>3. /\ q \in PlansFor(orders)
        /\ q.order = p.order /\ q.state = "OPEN" /\ q.outcome = p.outcome
        /\ q.entry_price = p.entry_price /\ q.entry_time = p.entry_time
        /\ q.exit_price = p.exit_price
        /\ q.current_stop = p.entry_price /\ q.at_breakeven = TRUE
    BY <2>2 DEF PlansFor, Amounts
  <2>4. PlanInv(q)
    <3> HIDE DEF q
    <3> QED BY <2>3, OpenPlan DEF GoodPlan, PlanInv, PlanCoherent
  <2>5. p.current_stop = p.order.stop
    BY <1>2, OpenPlan DEF MovesToBreakeven
  <2> HIDE DEF q
  <2> QED BY <2>1, <2>3, <2>4, <2>5, OpenPlan DEF GoodPlan
<1> QED BY <1>1, <1>2

\* A plan closed after its entry is good.
LEMMA CloseIsGood ==
    ASSUME NEW orders, NEW p, GoodPlan(p, orders), p.state = "OPEN",
           NEW outcome \in Outcomes \ {"NONE", "EXPIRED"},
           NEW t \in Int, t >= p.entry_time, NEW px \in Int
    PROVE  LET q == Close(p, outcome, t, px)
           IN  /\ GoodPlan(q, orders)
               /\ q.state = "CLOSED"
               /\ q.order = p.order
               /\ q.entry_price = p.entry_price
               /\ q.entry_time = p.entry_time
               /\ q.current_stop = p.current_stop
<1> DEFINE q == Close(p, outcome, t, px)
<1>1. /\ p \in PlansFor(orders) /\ IsOrder(p.order)
      /\ p.entry_price \in Int /\ p.entry_time \in Int
  BY OpenPlan DEF GoodPlan
<1>2. /\ q \in PlansFor(orders) /\ q.order = p.order
      /\ q.state = "CLOSED" /\ q.outcome = outcome
      /\ q.entry_price = p.entry_price /\ q.entry_time = p.entry_time
      /\ q.current_stop = p.current_stop
      /\ q.exit_time = t /\ q.exit_price = px
      /\ q.gross_pnl \in Int /\ q.net_pnl \in Int
  BY <1>1, CloseFacts
<1> HIDE DEF q
<1>3. PlanCoherent(q)
  BY <1>1, <1>2, PlanAssumption DEF PlanCoherent
<1>4. PlanInv(q)
  BY <1>2, <1>3, OpenPlan DEF PlanInv
<1> QED BY <1>1, <1>2, <1>4 DEF GoodPlan, q

\* The prices a position is closed at are integers.
LEMMA ExitPrices ==
    ASSUME NEW orders, NEW p, GoodPlan(p, orders), p.state = "OPEN",
           NEW c, IsCandle(c), NEW gap_ok \in BOOLEAN
    PROVE  /\ StopExit(p, c, gap_ok) \in Int
           /\ TargetExit(p, c, gap_ok) \in Int
           /\ SlippedOut(p.order.dir, c.close) \in Int
<1>1. \A px \in Int : SlipOn(px) \in Int
  <2>1. SlipPct \in Int
    BY PlanAssumption
  <2>2. \A px \in Int : px * SlipPct \in Int
    BY <2>1
  <2> QED BY <2>2 DEF SlipOn
<1>2. \A d : \A px \in Int : SlippedOut(d, px) \in Int
  BY <1>1 DEF SlippedOut, Offset
<1>3. c.open \in Int /\ c.close \in Int
  BY DEF IsCandle, IsShape
<1>4. p.current_stop \in Int /\ p.order.target \in Int
  BY OpenPlan DEF IsOrder
<1>5. /\ Worse(p.order.dir, p.current_stop, c.open) \in Int
      /\ Better(p.order.dir, p.order.target, c.open) \in Int
  BY <1>3, <1>4 DEF Worse, Better
<1> QED BY <1>2, <1>3, <1>4, <1>5 DEF StopExit, TargetExit

\* The second half of advance keeps a plan good, never loosens its stop and
\* leaves its entry alone.
LEMMA ManageOpenFacts ==
    ASSUME NEW orders, NEW p, GoodPlan(p, orders), p.state = "OPEN",
           NEW c, IsCandle(c), c.time >= p.entry_time
    PROVE  LET r == ManageOpen(p, c)
           IN  /\ GoodPlan(r, orders)
               /\ r.order = p.order
               /\ r.state \in {"OPEN", "CLOSED"}
               /\ r.entry_price = p.entry_price
               /\ r.entry_time = p.entry_time
               /\ Reached(p.order.dir, r.current_stop, p.current_stop)
<1> DEFINE q      == Protected(p, c)
           moved  == MovesToBreakeven(p, c)
           gap_ok == c.time # q.entry_time
           r      == ManageOpen(p, c)
<1>1. /\ GoodPlan(q, orders) /\ q.state = "OPEN"
      /\ q.order = p.order /\ q.entry_price = p.entry_price
      /\ q.entry_time = p.entry_time
      /\ Reached(p.order.dir, q.current_stop, p.current_stop)
  BY ProtectedFacts
<1>2. /\ c.time \in Int /\ c.time + 1 \in Int
      /\ c.time >= q.entry_time /\ c.time + 1 >= q.entry_time
  BY <1>1, OpenPlan DEF IsCandle
<1>3. \/ r = q
      \/ \E outcome \in Outcomes \ {"NONE", "EXPIRED"},
            t \in {c.time, c.time + 1}, px \in Int :
            r = Close(q, outcome, t, px)
  <2>1. CASE Stopped(q, c)
    <3>1. StopOutcome(q) \in Outcomes \ {"NONE", "EXPIRED"}
      BY DEF StopOutcome, Outcomes
    <3>2. StopExit(q, c, gap_ok /\ ~moved) \in Int
      <4>1. (gap_ok /\ ~moved) \in BOOLEAN
        OBVIOUS
      <4> HIDE DEF q, moved, gap_ok
      <4> QED BY <1>1, <4>1, ExitPrices
    <3>3. r = Close(q, StopOutcome(q), c.time,
                    StopExit(q, c, gap_ok /\ ~moved))
      BY <2>1 DEF ManageOpen
    <3> HIDE DEF q, r, moved, gap_ok
    <3> QED BY <3>1, <3>2, <3>3
  <2>2. CASE ~Stopped(q, c) /\ HitsTarget(q, c)
    <3>1. TargetExit(q, c, gap_ok) \in Int
      <4>1. gap_ok \in BOOLEAN
        OBVIOUS
      <4> HIDE DEF q, gap_ok
      <4> QED BY <1>1, <4>1, ExitPrices
    <3>2. r = Close(q, "TARGET_HIT", c.time, TargetExit(q, c, gap_ok))
      BY <2>2 DEF ManageOpen
    <3> HIDE DEF q, r, gap_ok
    <3> QED BY <3>1, <3>2 DEF Outcomes
  <2>3. CASE /\ ~Stopped(q, c) /\ ~HitsTarget(q, c)
             /\ Label(c.time) >= ForceExit
    <3>1. SlippedOut(q.order.dir, c.close) \in Int
      <4> HIDE DEF q
      <4> QED BY <1>1, ExitPrices
    <3>2. r = Close(q, "EOD_EXIT", c.time + 1, SlippedOut(q.order.dir, c.close))
      BY <2>3 DEF ManageOpen
    <3> HIDE DEF q, r
    <3> QED BY <3>1, <3>2 DEF Outcomes
  <2>4. CASE /\ ~Stopped(q, c) /\ ~HitsTarget(q, c)
             /\ ~(Label(c.time) >= ForceExit)
    BY <2>4 DEF ManageOpen
  <2> QED BY <2>1, <2>2, <2>3, <2>4
<1> HIDE DEF q, r, moved, gap_ok
<1>4. CASE r = q
  BY <1>1, <1>4 DEF r
<1>5. ASSUME NEW outcome \in Outcomes \ {"NONE", "EXPIRED"},
             NEW t \in {c.time, c.time + 1}, NEW px \in Int,
             r = Close(q, outcome, t, px)
      PROVE  /\ GoodPlan(r, orders) /\ r.order = p.order
             /\ r.state = "CLOSED"
             /\ r.entry_price = p.entry_price /\ r.entry_time = p.entry_time
             /\ Reached(p.order.dir, r.current_stop, p.current_stop)
  <2>1. t \in Int /\ t >= q.entry_time
    BY <1>2
  <2> QED BY <1>1, <1>5, <2>1, CloseIsGood
<1> QED BY <1>3, <1>4, <1>5 DEF r

-----------------------------------------------------------------------------
(* Entering, and the whole of advance.                                     *)

\* A plan as place_order makes it is good and live.
LEMMA NewPlanIsGood ==
    ASSUME NEW orders, NEW o \in orders, IsOrder(o)
    PROVE  LET p == NewPlan(o)
           IN  GoodPlan(p, orders) /\ p.order = o /\ p.state = "PENDING"
<1> DEFINE p == NewPlan(o)
<1>1. p \in PlansFor(orders)
  BY DEF NewPlan, PlansFor, PlanStates, Outcomes, Amounts
<1>2. /\ p.order = o /\ p.state = "PENDING" /\ p.outcome = "NONE"
      /\ p.entry_price = NoPrice /\ p.entry_time = NoPrice
      /\ p.exit_price = NoPrice /\ p.at_breakeven = FALSE
  BY DEF NewPlan
<1> HIDE DEF p
<1>3. PlanInv(p)
  BY <1>2 DEF PlanInv, PlanCoherent
<1> QED BY <1>1, <1>2, <1>3 DEF GoodPlan, p

\* The price paid lies on the winning side of the order's stop.
LEMMA EntryBeyondStop ==
    ASSUME NEW o, IsOrder(o), NEW c, IsCandle(c)
    PROVE  LET px == SlippedIn(o.dir, FillPrice(o, c))
           IN  px \in Int /\ Reached(o.dir, px, o.stop)
<1>1. o.entry \in Nat /\ o.stop \in Nat /\ c.open \in Nat
  BY DEF IsOrder, IsCandle, IsShape
<1>2. FillPrice(o, c) \in Nat /\ Reached(o.dir, FillPrice(o, c), o.entry)
  BY <1>1 DEF FillPrice, Better, Reached
<1>3. SlipOn(FillPrice(o, c)) \in Nat
  BY <1>2, SlipOnNat
<1>4. ~Reached(o.dir, o.stop, o.entry)
  BY DEF IsOrder
<1> QED BY <1>1, <1>2, <1>3, <1>4 DEF SlippedIn, Offset, Reached

\* The fill of a resting order opens a good position.
LEMMA FillFacts ==
    ASSUME NEW orders, NEW p, GoodPlan(p, orders), p.state = "PENDING",
           IsLive(p), NEW c, IsCandle(c)
    PROVE  LET q == Fill(p, c)
           IN  /\ GoodPlan(q, orders)
               /\ q.state = "OPEN"
               /\ q.order = p.order
               /\ q.entry_time = c.time
<1> DEFINE px == SlippedIn(p.order.dir, FillPrice(p.order, c))
           q  == Fill(p, c)
<1>1. /\ p \in PlansFor(orders) /\ p.order \in orders /\ IsOrder(p.order)
  BY DEF GoodPlan, PlansFor
<1>2. px \in Int /\ Reached(p.order.dir, px, p.order.stop)
  BY <1>1, EntryBeyondStop
<1>3. c.time \in Int /\ p.order.stop \in Int
  BY <1>1 DEF IsCandle, IsOrder
<1>4. q = [p EXCEPT !.state = "OPEN", !.entry_price = px,
                    !.entry_time = c.time, !.current_stop = p.order.stop]
  BY DEF Fill
<1> HIDE DEF px, q
<1>5. /\ q \in PlansFor(orders)
      /\ q.order = p.order /\ q.state = "OPEN" /\ q.outcome = p.outcome
      /\ q.entry_price = px /\ q.entry_time = c.time
      /\ q.current_stop = p.order.stop /\ q.at_breakeven = p.at_breakeven
      /\ q.exit_price = p.exit_price
  BY <1>1, <1>2, <1>3, <1>4 DEF PlansFor, PlanStates, Amounts
<1>6. p.outcome = "NONE" /\ p.at_breakeven = FALSE /\ p.exit_price = NoPrice
  BY <1>1 DEF GoodPlan, PlanInv, PlanCoherent, IsLive, IsTerminal, PlansFor
<1>7. PlanInv(q)
  BY <1>2, <1>3, <1>5, <1>6, PlanAssumption DEF PlanInv, PlanCoherent
<1> QED BY <1>1, <1>5, <1>7 DEF GoodPlan, q

\* An expired order is a good plan, and still PENDING.
LEMMA ExpireFacts ==
    ASSUME NEW orders, NEW p, GoodPlan(p, orders), p.state = "PENDING"
    PROVE  LET q == Expire(p)
           IN  GoodPlan(q, orders) /\ q.state = "PENDING" /\ q.order = p.order
<1> DEFINE q == Expire(p)
<1>1. p \in PlansFor(orders)
  BY DEF GoodPlan
<1>2. /\ q \in PlansFor(orders)
      /\ q.order = p.order /\ q.state = "PENDING" /\ q.outcome = "EXPIRED"
      /\ q.entry_price = p.entry_price /\ q.entry_time = p.entry_time
      /\ q.exit_price = p.exit_price /\ q.at_breakeven = p.at_breakeven
  BY <1>1 DEF Expire, PlansFor, Outcomes
<1> HIDE DEF q
<1>3. PlanInv(q)
  BY <1>2 DEF GoodPlan, PlanInv, PlanCoherent
<1> QED BY <1>2, <1>3 DEF GoodPlan, q

\* advance keeps a live plan good, never loosens the stop of a position, and
\* enters at no other time than the candle's.
LEMMA AdvanceFacts ==
    ASSUME NEW orders, NEW p, GoodPlan(p, orders), IsLive(p),
           NEW c, IsCandle(c), p.state = "OPEN" => c.time >= p.entry_time
    PROVE  LET r == Advance(p, c)
           IN  /\ GoodPlan(r, orders)
               /\ r.order = p.order
               /\ r.state # "PENDING" =>
                     r.entry_time = c.time \/ r.entry_time = p.entry_time
               /\ p.state = "OPEN" =>
                     /\ r.state # "PENDING"
                     /\ r.entry_time = p.entry_time
                     /\ r.entry_price = p.entry_price
                     /\ Reached(p.order.dir, r.current_stop, p.current_stop)
<1> DEFINE r == Advance(p, c)
<1>1. CASE p.state = "PENDING"
  <2>1. r = AdvancePending(p, c)
    BY <1>1 DEF Advance
  <2>2. r = p \/ r = Expire(p) \/ r = ManageOpen(Fill(p, c), c)
    BY <2>1 DEF AdvancePending
  <2>3. CASE r = p
    BY <1>1, <2>3
  <2>4. CASE r = Expire(p)
    BY <1>1, <2>4, ExpireFacts
  <2>5. CASE r = ManageOpen(Fill(p, c), c)
    <3> DEFINE f == Fill(p, c)
    <3>1. /\ GoodPlan(f, orders) /\ f.state = "OPEN" /\ f.order = p.order
          /\ f.entry_time = c.time /\ c.time >= f.entry_time
      BY <1>1, FillFacts DEF IsCandle
    <3> HIDE DEF f, r
    <3>2. /\ GoodPlan(ManageOpen(f, c), orders)
          /\ ManageOpen(f, c).order = f.order
          /\ ManageOpen(f, c).entry_time = f.entry_time
      BY <3>1, ManageOpenFacts
    <3>3. r = ManageOpen(f, c)
      BY <2>5 DEF f
    <3> QED BY <1>1, <3>1, <3>2, <3>3 DEF r
  <2> QED BY <2>2, <2>3, <2>4, <2>5
<1>2. CASE p.state = "OPEN"
  <2>1. r = ManageOpen(p, c)
    BY <1>2 DEF Advance
  <2> HIDE DEF r
  <2> QED BY <1>2, <2>1, ManageOpenFacts DEF r
<1>3. p.state \in {"PENDING", "OPEN"}
  BY DEF GoodPlan, PlansFor, PlanStates, IsLive, IsTerminal
<1> QED BY <1>1, <1>2, <1>3

-----------------------------------------------------------------------------
(* The broker's sequence of plans.                                         *)

GoodPlans(ps, orders) ==
    /\ ps \in Seq(PlansFor(orders))
    /\ \A i \in DOMAIN ps : GoodPlan(ps[i], orders)

\* A candle comes no earlier than the entry of an open plan of its symbol.
NotBefore(ps, s, c) ==
    \A i \in DOMAIN ps :
        ps[i].order.symbol = s /\ ps[i].state = "OPEN"
            => c.time >= ps[i].entry_time

\* on_candle keeps the plans good and in place; the ones it changes are live
\* and were advanced.
LEMMA PlansAfterFacts ==
    ASSUME NEW orders, NEW ps, GoodPlans(ps, orders),
           NEW s, NEW c, IsCandle(c), NotBefore(ps, s, c)
    PROVE  LET qs == PlansAfter(ps, s, c)
           IN  /\ GoodPlans(qs, orders)
               /\ DOMAIN qs = DOMAIN ps
               /\ \A i \in DOMAIN ps :
                     \/ qs[i] = ps[i]
                     \/ i \in LiveOn(ps, s) /\ qs[i] = Advance(ps[i], c)
<1> DEFINE qs == PlansAfter(ps, s, c)
<1>1. /\ ps \in Seq(PlansFor(orders))
      /\ Len(ps) \in Nat /\ DOMAIN ps = 1 .. Len(ps)
  BY LenProperties DEF GoodPlans
<1>2. /\ DOMAIN qs = DOMAIN ps
      /\ \A i \in DOMAIN ps :
            \/ qs[i] = ps[i]
            \/ i \in LiveOn(ps, s) /\ qs[i] = Advance(ps[i], c)
  BY DEF PlansAfter, AdvancedOn
<1>3. ASSUME NEW i \in DOMAIN ps PROVE GoodPlan(qs[i], orders)
  <2>1. GoodPlan(ps[i], orders)
    BY DEF GoodPlans
  <2>2. CASE qs[i] = ps[i]
    BY <2>1, <2>2
  <2>3. CASE i \in LiveOn(ps, s) /\ qs[i] = Advance(ps[i], c)
    <3>1. IsLive(ps[i]) /\ ps[i].order.symbol = s
      BY <2>3 DEF LiveOn
    <3>2. ps[i].state = "OPEN" => c.time >= ps[i].entry_time
      BY <3>1 DEF NotBefore
    <3> HIDE DEF qs
    <3> QED BY <2>1, <2>3, <3>1, <3>2, AdvanceFacts
  <2> QED BY <1>2, <2>2, <2>3
<1>4. qs \in Seq(PlansFor(orders))
  <2>1. \A i \in DOMAIN ps : qs[i] \in PlansFor(orders)
    BY <1>3 DEF GoodPlan
  <2>2. qs = [i \in 1 .. Len(ps) |-> qs[i]]
    BY <1>1 DEF PlansAfter
  <2> HIDE DEF qs
  <2>3. qs \in [1 .. Len(ps) -> PlansFor(orders)]
    BY <1>1, <2>1, <2>2
  <2> QED BY <1>1, <2>3, IsASeq
<1> QED BY <1>2, <1>3, <1>4 DEF GoodPlans

\* qs is ps with the plan n behind its last plan.
GainsPlan(ps, qs, n) ==
    /\ DOMAIN qs = DOMAIN ps \cup {Len(ps) + 1}
    /\ \A i \in DOMAIN ps : qs[i] = ps[i]
    /\ Len(ps) + 1 \notin DOMAIN ps
    /\ qs[Len(ps) + 1] = n

\* place_order appends a good plan.
LEMMA PlansWithFacts ==
    ASSUME NEW orders, NEW ps, GoodPlans(ps, orders),
           NEW o \in orders, IsOrder(o)
    PROVE  /\ GoodPlans(PlansWith(ps, o), orders)
           /\ GainsPlan(ps, PlansWith(ps, o), NewPlan(o))
<1> DEFINE n  == NewPlan(o)
           qs == PlansWith(ps, o)
<1>1. GoodPlan(n, orders) /\ n \in PlansFor(orders)
  BY NewPlanIsGood DEF GoodPlan
<1>2. /\ ps \in Seq(PlansFor(orders))
      /\ Len(ps) \in Nat /\ DOMAIN ps = 1 .. Len(ps)
  BY LenProperties DEF GoodPlans
<1>3. qs = Append(ps, n)
  BY DEF PlansWith
<1> HIDE DEF n, qs
<1>4. /\ qs \in Seq(PlansFor(orders)) /\ DOMAIN qs = 1 .. Len(ps) + 1
      /\ \A i \in 1 .. Len(ps) : qs[i] = ps[i]
      /\ qs[Len(ps) + 1] = n
  BY <1>1, <1>2, <1>3, AppendProperties
<1>5. GoodPlans(qs, orders)
  BY <1>1, <1>2, <1>4 DEF GoodPlans
<1>6. GainsPlan(ps, qs, n)
  BY <1>2, <1>4 DEF GainsPlan
<1> QED BY <1>5, <1>6 DEF n, qs

\* cancel_order takes out at most one plan and closes the gap.
LEMMA PlansWithoutFacts ==
    ASSUME NEW orders, NEW ps, GoodPlans(ps, orders), NEW id
    PROVE  LET qs == PlansWithout(ps, id)
           IN  /\ GoodPlans(qs, orders)
               /\ \/ qs = ps /\ \A i \in DOMAIN ps : ps[i].order.id # id
                  \/ \E i \in DOMAIN ps :
                        /\ ps[i].order.id = id
                        /\ DOMAIN qs = 1 .. Len(ps) - 1
                        /\ \A k \in DOMAIN qs :
                              /\ k < i  => k \in DOMAIN ps /\ qs[k] = ps[k]
                              /\ k >= i => k + 1 \in DOMAIN ps
                                              /\ qs[k] = ps[k + 1]
<1> DEFINE mine == {i \in DOMAIN ps : ps[i].order.id = id}
           i    == CHOOSE j \in mine : TRUE
           head == SubSeq(ps, 1, i - 1)
           tail == SubSeq(ps, i + 1, Len(ps))
<1>1. /\ ps \in Seq(PlansFor(orders))
      /\ Len(ps) \in Nat /\ DOMAIN ps = 1 .. Len(ps)
  BY LenProperties DEF GoodPlans
<1>2. CASE mine = {}
  BY <1>2 DEF PlansWithout
<1>3. CASE mine # {}
  <2>1. PlansWithout(ps, id) = head \o tail
    BY <1>3 DEF PlansWithout
  <2>2. i \in 1 .. Len(ps) /\ ps[i].order.id = id
    <3>1. i \in mine
      BY <1>3
    <3> QED BY <1>1, <3>1
  <2> HIDE DEF i
  <2>3. /\ head \in Seq(PlansFor(orders)) /\ Len(head) = i - 1
        /\ \A k \in 1 .. i - 1 : head[k] = ps[k]
    BY <1>1, <2>2
  <2>4. /\ tail \in Seq(PlansFor(orders)) /\ Len(tail) = Len(ps) - i
        /\ \A k \in 1 .. Len(ps) - i : tail[k] = ps[k + i]
    <3>1. \A k \in i + 1 .. Len(ps) : ps[k] \in PlansFor(orders)
      BY <1>1, <2>2
    <3>2. /\ i + 1 \in Int /\ Len(ps) \in Int
          /\ Len(ps) - (i + 1) + 1 = Len(ps) - i
          /\ (IF i + 1 <= Len(ps) THEN Len(ps) - (i + 1) + 1 ELSE 0)
                = Len(ps) - i
      <4>1. \A n \in Nat : \A m \in 1 .. n :
                /\ m + 1 \in Int /\ n \in Int /\ n - (m + 1) + 1 = n - m
                /\ (IF m + 1 <= n THEN n - (m + 1) + 1 ELSE 0) = n - m
        OBVIOUS
      <4> QED BY <1>1, <2>2, <4>1
    <3>3. /\ tail \in Seq(PlansFor(orders))
          /\ Len(tail) = IF i + 1 <= Len(ps) THEN Len(ps) - (i + 1) + 1 ELSE 0
          /\ \A k \in 1 .. Len(ps) - (i + 1) + 1 : tail[k] = ps[i + 1 + k - 1]
      BY <3>1, <3>2, SubSeqProperties
    <3>4. \A k \in 1 .. Len(ps) - i : i + 1 + k - 1 = k + i
      BY <1>1, <2>2
    <3> QED BY <3>2, <3>3, <3>4
  <2> DEFINE qs == head \o tail
  <2> HIDE DEF head, tail
  <2>5. /\ qs \in Seq(PlansFor(orders)) /\ Len(qs) = Len(ps) - 1
        /\ DOMAIN qs = 1 .. Len(ps) - 1
        /\ \A k \in 1 .. Len(ps) - 1 :
              qs[k] = IF k <= i - 1 THEN head[k] ELSE tail[k - (i - 1)]
    <3>1. Len(head) + Len(tail) = Len(ps) - 1
      BY <1>1, <2>2, <2>3, <2>4
    <3>2. /\ qs \in Seq(PlansFor(orders)) /\ Len(qs) = Len(head) + Len(tail)
          /\ \A k \in 1 .. Len(head) + Len(tail) :
                qs[k] = IF k <= Len(head) THEN head[k] ELSE tail[k - Len(head)]
      BY <2>3, <2>4, ConcatProperties
    <3> HIDE DEF qs
    <3>3. DOMAIN qs = 1 .. Len(qs)
      BY <3>2, LenProperties
    <3> QED BY <2>3, <3>1, <3>2, <3>3
  <2> HIDE DEF qs
  <2>6. \A k \in DOMAIN qs :
            /\ k < i  => k \in DOMAIN ps /\ qs[k] = ps[k]
            /\ k >= i => k + 1 \in DOMAIN ps /\ qs[k] = ps[k + 1]
    <3> SUFFICES ASSUME NEW k \in 1 .. Len(ps) - 1
                 PROVE  /\ k < i  => k \in DOMAIN ps /\ qs[k] = ps[k]
                        /\ k >= i => k + 1 \in DOMAIN ps /\ qs[k] = ps[k + 1]
      BY <2>5
    <3>1. CASE k < i
      BY <1>1, <2>2, <2>3, <2>5, <3>1
    <3>2. CASE k >= i
      <4>1. k - (i - 1) \in 1 .. Len(ps) - i /\ k - (i - 1) + i = k + 1
        BY <1>1, <2>2, <3>2
      <4>2. tail[k - (i - 1)] = ps[k + 1]
        BY <2>4, <4>1
      <4> QED BY <1>1, <2>2, <2>5, <3>2, <4>2
    <3> QED BY <1>1, <2>2, <3>1, <3>2
  <2>7. GoodPlans(qs, orders)
    <3> SUFFICES ASSUME NEW k \in DOMAIN qs PROVE GoodPlan(qs[k], orders)
      BY <2>5 DEF GoodPlans
    <3> QED BY <1>1, <2>2, <2>5, <2>6 DEF GoodPlans
  <2> QED BY <1>1, <2>1, <2>2, <2>5, <2>6, <2>7 DEF qs
<1> QED BY <1>2, <1>3

\* With one plan per order, cancel_order takes out the plan of that order and
\* no other.
LEMMA PlansWithoutKeeps ==
    ASSUME NEW orders, NEW ps, GoodPlans(ps, orders), NEW id,
           \A i, j \in DOMAIN ps : ps[i].order.id = ps[j].order.id => i = j
    PROVE  LET qs == PlansWithout(ps, id)
           IN  /\ \A k \in DOMAIN qs : qs[k].order.id # id
               /\ \A k \in DOMAIN qs : \E i \in DOMAIN ps : ps[i] = qs[k]
               /\ \A i \in DOMAIN ps : ps[i].order.id # id
                     => \E k \in DOMAIN qs : qs[k] = ps[i]
<1> DEFINE qs == PlansWithout(ps, id)
<1>1. Len(ps) \in Nat /\ DOMAIN ps = 1 .. Len(ps)
  BY LenProperties DEF GoodPlans
<1>2. CASE qs = ps /\ \A i \in DOMAIN ps : ps[i].order.id # id
  BY <1>2
<1>3. ASSUME NEW i \in DOMAIN ps, ps[i].order.id = id,
             DOMAIN qs = 1 .. Len(ps) - 1,
             \A k \in DOMAIN qs :
                /\ k < i  => k \in DOMAIN ps /\ qs[k] = ps[k]
                /\ k >= i => k + 1 \in DOMAIN ps /\ qs[k] = ps[k + 1]
      PROVE  /\ \A k \in DOMAIN qs : qs[k].order.id # id
             /\ \A k \in DOMAIN qs : \E j \in DOMAIN ps : ps[j] = qs[k]
             /\ \A j \in DOMAIN ps : ps[j].order.id # id
                   => \E k \in DOMAIN qs : qs[k] = ps[j]
  <2> HIDE DEF qs
  <2>1. ASSUME NEW k \in DOMAIN qs
        PROVE  \E j \in DOMAIN ps : j # i /\ ps[j] = qs[k]
    <3>1. k < i \/ k >= i
      BY <1>1, <1>3
    <3>2. k \in Int /\ i \in Int
      BY <1>1, <1>3
    <3> QED BY <1>3, <3>1, <3>2
  <2>2. ASSUME NEW j \in DOMAIN ps, ps[j].order.id # id
        PROVE  \E k \in DOMAIN qs : qs[k] = ps[j]
    <3>1. j # i /\ j \in 1 .. Len(ps) /\ i \in 1 .. Len(ps)
      BY <1>1, <1>3, <2>2
    <3>2. CASE j < i
      <4>1. j \in DOMAIN qs
        BY <1>1, <1>3, <3>1, <3>2
      <4> QED BY <1>3, <3>2, <4>1
    <3>3. CASE j > i
      <4>1. /\ j - 1 \in DOMAIN qs /\ j - 1 >= i /\ (j - 1) + 1 = j
        BY <1>1, <1>3, <3>1, <3>3
      <4> QED BY <1>3, <4>1
    <3> QED BY <3>1, <3>2, <3>3
  <2> QED BY <1>3, <2>1, <2>2
<1> QED BY <1>2, <1>3, PlansWithoutFacts

-----------------------------------------------------------------------------
(* What on_candle reports.                                                 *)

\* Nothing that a trade shows depends on the stop.
LEMMA ProtectedTrade ==
    ASSUME NEW orders, NEW p \in PlansFor(orders), NEW c
    PROVE  LET q == Protected(p, c)
           IN  /\ ToTrade(q) = ToTrade(p)
               /\ q.state = p.state /\ q.outcome = p.outcome
               /\ q.entry_time = p.entry_time
<1> DEFINE q == [p EXCEPT !.current_stop = p.entry_price, !.at_breakeven = TRUE]
<1>1. Protected(p, c) = p \/ Protected(p, c) = q
  BY DEF Protected
<1>2. /\ q.order = p.order /\ q.state = p.state /\ q.outcome = p.outcome
      /\ q.entry_price = p.entry_price /\ q.entry_time = p.entry_time
      /\ q.exit_price = p.exit_price /\ q.exit_time = p.exit_time
      /\ q.gross_pnl = p.gross_pnl /\ q.net_pnl = p.net_pnl
  BY DEF PlansFor
<1> HIDE DEF q
<1>3. ToTrade(q) = ToTrade(p)
  BY <1>2 DEF ToTrade, TradeStatus
<1> QED BY <1>1, <1>2, <1>3

\* The second half of advance closes the position or moves its stop at most.
LEMMA ManageOpenCases ==
    ASSUME NEW orders, NEW p \in PlansFor(orders), NEW c
    PROVE  \/ ManageOpen(p, c) = Protected(p, c)
           \/ ManageOpen(p, c).state = "CLOSED"
<1> DEFINE q == Protected(p, c)
<1>1. q \in PlansFor(orders)
  BY DEF Protected, PlansFor, Amounts
<1>2. ASSUME NEW outcome, NEW t, NEW px
      PROVE  Close(q, outcome, t, px).state = "CLOSED"
  <2> HIDE DEF q
  <2> QED BY <1>1 DEF Close, PlansFor
<1> QED BY <1>2 DEF ManageOpen

\* The steps a plan takes that are reported.
ReportedStep(p, r) ==
    \/ /\ p.state = "PENDING"
       /\ r.state = "PENDING" /\ r.outcome = "EXPIRED"
    \/ /\ p.state = "PENDING"
       /\ r.state \in {"OPEN", "CLOSED"}
    \/ /\ p.state = "OPEN"
       /\ r.state = "CLOSED"

\* A live plan that a candle does not report shows the same trade as before;
\* one that it reports took a step, and its trade shows it.
LEMMA ReportsFacts ==
    ASSUME NEW orders, NEW p, GoodPlan(p, orders), IsLive(p),
           NEW c, IsCandle(c), p.state = "OPEN" => c.time > p.entry_time
    PROVE  LET r == Advance(p, c)
           IN  /\ ~Reports(p, c) =>
                     /\ ToTrade(r) = ToTrade(p)
                     /\ r.state = p.state /\ r.outcome = p.outcome
               /\ Reports(p, c) =>
                     /\ ReportedStep(p, r)
                     /\ ToTrade(r) # ToTrade(p)
<1> DEFINE r == Advance(p, c)
<1>1. /\ p \in PlansFor(orders) /\ c.time \in Nat
      /\ p.state \in {"PENDING", "OPEN"} /\ p.outcome = "NONE"
      /\ TradeStatus(p) = "OPEN"
      /\ p.state = "PENDING" => p.entry_time = NoPrice
  BY DEF GoodPlan, PlansFor, PlanStates, IsLive, IsTerminal, IsCandle,
         PlanInv, PlanCoherent, TradeStatus
<1>2. p.state = "OPEN" => p.entry_time \in Int /\ c.time >= p.entry_time
  BY OpenPlan, <1>1
<1>3. GoodPlan(r, orders) /\ r.order = p.order
  BY <1>2, AdvanceFacts
<1>4. Reports(p, c) <=> \/ r.state = "CLOSED"
                        \/ r.outcome = "EXPIRED"
                        \/ r.state = "OPEN" /\ c.time = r.entry_time
  BY DEF Reports
<1>5. ASSUME ReportedStep(p, r)
      PROVE  ToTrade(r) # ToTrade(p)
  <2>1. CASE r.state = "CLOSED" \/ r.outcome = "EXPIRED"
    <3>1. TradeStatus(r) # "OPEN"
      BY <2>1 DEF TradeStatus
    <3>2. ToTrade(r).status # ToTrade(p).status
      <4> HIDE DEF r
      <4> QED BY <1>1, <3>1 DEF ToTrade
    <3> QED BY <3>2
  <2>2. CASE p.state = "PENDING" /\ r.state = "OPEN"
    <3>1. r.entry_time # NoPrice
      BY <1>3, <2>2 DEF GoodPlan, PlanInv, PlanCoherent
    <3>2. ToTrade(r).entry_time # ToTrade(p).entry_time
      <4> HIDE DEF r
      <4> QED BY <1>1, <2>2, <3>1 DEF ToTrade
    <3> QED BY <3>2
  <2> QED BY <1>5, <2>1, <2>2 DEF ReportedStep
<1>6. CASE p.state = "PENDING"
  <2>1. r = p \/ r = Expire(p) \/ r = ManageOpen(Fill(p, c), c)
    BY <1>6 DEF Advance, AdvancePending
  <2>2. CASE r = p
    <3>1. ~Reports(p, c)
      BY <1>1, <1>4, <1>6, <2>2
    <3> QED BY <2>2, <3>1
  <2>3. CASE r = Expire(p)
    <3>1. r.state = "PENDING" /\ r.outcome = "EXPIRED"
      BY <1>1, <1>6, <2>3 DEF Expire, PlansFor
    <3>2. Reports(p, c) /\ ReportedStep(p, r)
      BY <1>4, <1>6, <3>1 DEF ReportedStep
    <3> QED BY <1>5, <3>2
  <2>4. CASE r = ManageOpen(Fill(p, c), c)
    <3> DEFINE f == Fill(p, c)
    <3>1. /\ GoodPlan(f, orders) /\ f.state = "OPEN"
          /\ f.entry_time = c.time /\ c.time >= f.entry_time
      BY <1>1, <1>6, FillFacts
    <3> HIDE DEF f
    <3>2. /\ ManageOpen(f, c).entry_time = f.entry_time
          /\ ManageOpen(f, c).state \in {"OPEN", "CLOSED"}
      BY <3>1, ManageOpenFacts
    <3>3. r = ManageOpen(f, c)
      BY <2>4 DEF f
    <3> HIDE DEF r
    <3>4. Reports(p, c) /\ ReportedStep(p, r)
      BY <1>4, <1>6, <3>1, <3>2, <3>3 DEF ReportedStep
    <3> QED BY <1>5, <3>4 DEF r
  <2> QED BY <2>1, <2>2, <2>3, <2>4
<1>7. CASE p.state = "OPEN"
  <2>1. r = ManageOpen(p, c)
    BY <1>7 DEF Advance
  <2>2. CASE r.state = "CLOSED"
    <3>1. Reports(p, c) /\ ReportedStep(p, r)
      BY <1>4, <1>7, <2>2 DEF ReportedStep
    <3> QED BY <1>5, <3>1
  <2>3. CASE r = Protected(p, c)
    <3>1. /\ ToTrade(r) = ToTrade(p)
          /\ r.state = p.state /\ r.outcome = p.outcome
          /\ r.entry_time = p.entry_time
      BY <1>1, <2>3, ProtectedTrade
    <3>2. ~Reports(p, c)
      BY <1>1, <1>2, <1>4, <1>7, <3>1
    <3> QED BY <3>1, <3>2
  <2> QED BY <1>1, <2>1, <2>2, <2>3, ManageOpenCases
<1> QED BY <1>1, <1>6, <1>7

\* A candle comes after the entry of every open plan of its symbol.
EnteredBefore(ps, s, c) ==
    \A i \in DOMAIN ps :
        ps[i].order.symbol = s /\ ps[i].state = "OPEN"
            => c.time > ps[i].entry_time

\* The plan at i is as on_candle found it, as far as a reader can tell.
LooksAsBefore(ps, qs, i) ==
    /\ ToTrade(qs[i]) = ToTrade(ps[i])
    /\ qs[i].state = ps[i].state
    /\ qs[i].outcome = ps[i].outcome

\* on_candle returns no trade and changes none, or it returns the one trade
\* it has changed.
LEMMA OneReport ==
    ASSUME NEW orders, NEW ps, GoodPlans(ps, orders),
           NEW s, NEW c, IsCandle(c), EnteredBefore(ps, s, c)
    PROVE  LET qs == PlansAfter(ps, s, c)
           IN  \/ /\ TradeAfter(ps, s, c) = <<>>
                  /\ \A i \in DOMAIN ps : LooksAsBefore(ps, qs, i)
               \/ \E f \in LiveOn(ps, s) :
                     /\ TradeAfter(ps, s, c) = <<ToTrade(qs[f])>>
                     /\ qs[f] = Advance(ps[f], c)
                     /\ ReportedStep(ps[f], qs[f])
                     /\ ToTrade(qs[f]) # ToTrade(ps[f])
                     /\ \A i \in DOMAIN ps \ {f} : LooksAsBefore(ps, qs, i)
<1> DEFINE qs == PlansAfter(ps, s, c)
           reporting == ReportingOn(ps, s, c)
<1>1. /\ ps \in Seq(PlansFor(orders))
      /\ Len(ps) \in Nat /\ DOMAIN ps = 1 .. Len(ps)
  BY LenProperties DEF GoodPlans
<1>2. ASSUME NEW i \in LiveOn(ps, s)
      PROVE  /\ i \in DOMAIN ps /\ GoodPlan(ps[i], orders) /\ IsLive(ps[i])
             /\ ps[i].state = "OPEN" => c.time > ps[i].entry_time
  BY DEF LiveOn, GoodPlans, EnteredBefore
<1>3. ASSUME NEW i \in DOMAIN ps, i \notin reporting
      PROVE  LooksAsBefore(ps, qs, i)
  <2>1. CASE i \in LiveOn(ps, s) /\ qs[i] = Advance(ps[i], c)
    <3>1. ~Reports(ps[i], c)
      BY <1>3, <2>1 DEF ReportingOn
    <3> HIDE DEF qs
    <3> QED BY <1>2, <2>1, <3>1, ReportsFacts DEF LooksAsBefore
  <2>2. CASE qs[i] = ps[i]
    BY <2>2 DEF LooksAsBefore
  <2>3. qs[i] = ps[i] \/ (i \in LiveOn(ps, s) /\ qs[i] = Advance(ps[i], c))
    BY DEF PlansAfter, AdvancedOn
  <2> QED BY <2>1, <2>2, <2>3
<1>4. CASE reporting = {}
  BY <1>3, <1>4 DEF TradeAfter
<1>5. CASE reporting # {}
  <2>1. reporting \subseteq DOMAIN ps /\ reporting \subseteq Nat
    BY <1>1 DEF ReportingOn, LiveOn
  <2>2. \E x \in reporting : \A y \in reporting : x <= y
    <3> HIDE DEF reporting
    <3> QED BY <1>5, <2>1, MinNat
  <2> DEFINE first == CHOOSE x \in reporting : \A y \in reporting : x <= y
  <2>3. first \in reporting /\ \A y \in reporting : first <= y
    BY <2>2
  <2>4. TradeAfter(ps, s, c) = <<ToTrade(Advance(ps[first], c))>>
    BY <1>5 DEF TradeAfter
  <2> HIDE DEF first
  <2>5. \A i \in DOMAIN ps : i \in AdvancedOn(ps, s, c) /\ i # first
            => i \notin reporting
    <3> SUFFICES ASSUME NEW i \in reporting, i \in AdvancedOn(ps, s, c)
                 PROVE  i = first
      OBVIOUS
    <3>1. i <= first /\ first <= i
      BY <2>3 DEF AdvancedOn
    <3> QED BY <2>1, <2>3, <3>1
  <2>6. first \in LiveOn(ps, s) /\ Reports(ps[first], c)
    BY <2>3 DEF ReportingOn
  <2>7. qs[first] = Advance(ps[first], c)
    BY <2>3, <2>6, <1>2 DEF PlansAfter, AdvancedOn
  <2>8. \A i \in DOMAIN ps \ {first} : LooksAsBefore(ps, qs, i)
    <3> SUFFICES ASSUME NEW i \in DOMAIN ps, i # first
                 PROVE  LooksAsBefore(ps, qs, i)
      OBVIOUS
    <3>1. CASE i \in AdvancedOn(ps, s, c)
      BY <1>3, <2>5, <3>1
    <3>2. CASE i \notin AdvancedOn(ps, s, c)
      <4>1. qs[i] = ps[i]
        BY <3>2 DEF PlansAfter
      <4> QED BY <4>1 DEF LooksAsBefore
    <3> QED BY <3>1, <3>2
  <2> HIDE DEF qs, reporting
  <2>9. ReportedStep(ps[first], qs[first]) /\ ToTrade(qs[first]) # ToTrade(ps[first])
    BY <1>2, <2>6, <2>7, ReportsFacts
  <2> QED BY <2>4, <2>6, <2>7, <2>8, <2>9 DEF qs
<1> QED BY <1>4, <1>5

=============================================================================
