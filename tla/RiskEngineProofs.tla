-------------------------- MODULE RiskEngineProofs --------------------------
(***************************************************************************)
(* Proofs about RiskEngine, for every set of symbols and signals, every    *)
(* capital, leverage and cap.                                              *)
(***************************************************************************)
EXTENDS RiskEngine, SumProofs

-----------------------------------------------------------------------------
(* Arithmetic of the sizing.                                               *)

\* A quotient never pays for more than the dividend.
LEMMA QuotientBound ==
    ASSUME NEW a \in Int, NEW b \in Nat, b > 0
    PROVE  /\ a \div b \in Int
           /\ (a \div b) * b <= a
  OBVIOUS

\* The products the sizing is made of are integers.
LEMMA ProductInt ==
    ASSUME NEW a \in Int, NEW b \in Int
    PROVE  a * b \in Int
  OBVIOUS

\* What a signal risks per share is a natural number.
LEMMA RiskPerShareNat ==
    ASSUME NEW s \in Signals
    PROVE  RiskPerShare(s) \in Nat
  BY RiskAssumption DEF IsSignal, RiskPerShare, Distance

\* size_order returns a natural number.
LEMMA SizeOrderNat ==
    ASSUME NEW s \in Signals, NEW eq \in Int, NEW free \in Int
    PROVE  SizeOrder(s, eq, free) \in Nat
<1>1. s.entry \in Nat
  BY RiskAssumption DEF IsSignal
<1>2. RiskPerShare(s) \in Nat
  BY RiskPerShareNat
<1>3. CASE RiskPerShare(s) = 0
  BY <1>3 DEF SizeOrder
<1>4. CASE RiskPerShare(s) # 0
  <2>1. eq * RiskPct \in Int
    BY ProductInt, RiskAssumption
  <2>2. 100 * RiskPerShare(s) \in Nat /\ 100 * RiskPerShare(s) > 0
    BY <1>2, <1>4
  <2>3. QtyByRisk(s, eq) \in Int
    BY <2>1, <2>2, QuotientBound DEF QtyByRisk
  <2>4. QtyByCash(s, free) \in Int
    <3>1. NonNegative(free) * LeveragePct \in Int
      BY ProductInt, RiskAssumption DEF NonNegative
    <3>2. s.entry # 0 => 100 * s.entry \in Nat /\ 100 * s.entry > 0
      BY <1>1
    <3> QED BY <3>1, <3>2, QuotientBound DEF QtyByCash
  <2> QED BY <1>4, <2>3, <2>4 DEF SizeOrder, Smaller, NonNegative
<1> QED BY <1>3, <1>4

\* An order that is not skipped fits the risk budget.
LEMMA SizeFitsRisk ==
    ASSUME NEW s \in Signals, NEW eq \in Int, NEW free \in Int,
           SizeOrder(s, eq, free) >= 1
    PROVE  100 * (SizeOrder(s, eq, free) * RiskPerShare(s)) <= RiskPct * eq
<1> DEFINE q == SizeOrder(s, eq, free)
           r == RiskPerShare(s)
           y == QtyByRisk(s, eq)
           b == 100 * r
<1>1. r \in Nat /\ q \in Nat
  BY RiskPerShareNat, SizeOrderNat
<1>2. r # 0
  BY DEF SizeOrder
<1>3. eq * RiskPct \in Int /\ RiskPct * eq = eq * RiskPct
  BY ProductInt, RiskAssumption
<1>4. y \in Int /\ y * b <= eq * RiskPct
  <2>1. b \in Nat /\ b > 0
    BY <1>1, <1>2
  <2> HIDE DEF b, r
  <2>2. y = (eq * RiskPct) \div b
    BY DEF QtyByRisk, b, r
  <2> QED BY <2>1, <2>2, <1>3, QuotientBound
<1>5. q <= y
  <2>1. QtyByCash(s, free) \in Int
    <3>1. s.entry \in Nat
      BY RiskAssumption DEF IsSignal
    <3>2. NonNegative(free) * LeveragePct \in Int
      BY ProductInt, RiskAssumption DEF NonNegative
    <3>3. s.entry # 0 => 100 * s.entry \in Nat /\ 100 * s.entry > 0
      BY <3>1
    <3> QED BY <3>2, <3>3, QuotientBound DEF QtyByCash
  <2> QED BY <1>2, <1>4, <2>1 DEF SizeOrder, Smaller, NonNegative
<1>6. 100 * (q * r) <= y * b
  <2> HIDE DEF q, r, y
  <2>1. q * r <= y * r
    BY <1>1, <1>4, <1>5
  <2> QED BY <2>1, <1>1, <1>4
<1>7. 100 * (q * r) \in Int /\ y * b \in Int
  <2> HIDE DEF q, r, y
  <2> QED BY <1>1, <1>4
<1> QED BY <1>3, <1>4, <1>6, <1>7

\* An order that is not skipped fits the buying power, and there is cash.
LEMMA SizeFitsCash ==
    ASSUME NEW s \in Signals, NEW eq \in Int, NEW free \in Int,
           SizeOrder(s, eq, free) >= 1
    PROVE  /\ free > 0
           /\ 100 * (SizeOrder(s, eq, free) * s.entry) <= free * LeveragePct
<1> DEFINE q == SizeOrder(s, eq, free)
           p == s.entry
           y == QtyByCash(s, free)
           c == NonNegative(free)
           b == 100 * p
<1>1. p \in Nat /\ q \in Nat /\ c \in Nat /\ LeveragePct \in Nat
  BY SizeOrderNat, RiskAssumption DEF IsSignal, NonNegative
<1>2. RiskPerShare(s) # 0 /\ RiskPerShare(s) \in Nat
  BY RiskPerShareNat DEF SizeOrder
<1>3. QtyByRisk(s, eq) \in Int
  <2>1. eq * RiskPct \in Int
    BY ProductInt, RiskAssumption
  <2>2. 100 * RiskPerShare(s) \in Nat /\ 100 * RiskPerShare(s) > 0
    BY <1>2
  <2> QED BY <2>1, <2>2, QuotientBound DEF QtyByRisk
<1>4. c * LeveragePct \in Int
  BY <1>1, ProductInt
<1>5. p # 0 => b \in Nat /\ b > 0
  BY <1>1
<1>6. p # 0 => y = (c * LeveragePct) \div b
  BY DEF QtyByCash
<1>7. y \in Int /\ (p # 0 => y * b <= c * LeveragePct)
  <2>1. CASE p = 0
    BY <2>1 DEF QtyByCash
  <2>2. CASE p # 0
    <3> HIDE DEF b, c, y
    <3> QED BY <2>2, <1>4, <1>5, <1>6, QuotientBound
  <2> QED BY <2>1, <2>2
<1>8. q <= y
  BY <1>2, <1>3, <1>7 DEF SizeOrder, Smaller, NonNegative
<1>9. p # 0
  <2> SUFFICES ASSUME p = 0 PROVE FALSE
    OBVIOUS
  <2>1. y = 0
    BY DEF QtyByCash
  <2>2. q >= 1
    OBVIOUS
  <2> HIDE DEF q, y
  <2> QED BY <2>1, <2>2, <1>1, <1>8
<1>10. 100 * (q * p) <= y * b
  <2> HIDE DEF q, p, y
  <2>1. q * p <= y * p
    BY <1>1, <1>7, <1>8
  <2> QED BY <2>1, <1>1, <1>7
<1>11. 100 * (q * p) <= c * LeveragePct
  <2>1. 100 * (q * p) \in Int /\ y * b \in Int
    <3> HIDE DEF q, p, y
    <3> QED BY <1>1, <1>7
  <2> QED BY <2>1, <1>4, <1>7, <1>9, <1>10
<1>12. free > 0
  <2> SUFFICES ASSUME ~(free > 0) PROVE FALSE
    OBVIOUS
  <2>1. c = 0
    BY DEF NonNegative
  <2>2. q * p >= 1
    <3> HIDE DEF q, p
    <3> QED BY <1>1, <1>9, SizeOrderNat DEF q
  <2> HIDE DEF q, p, c
  <2> QED BY <1>1, <1>11, <2>1, <2>2
<1>13. c = free
  BY <1>12 DEF NonNegative
<1> QED BY <1>11, <1>12, <1>13

\* One more share than size_order allows exceeds one of the two budgets.
LEMMA NextQuotientExceeds ==
    ASSUME NEW a \in Int, NEW b \in Nat, b > 0, NEW q \in Int, q >= a \div b
    PROVE  (q + 1) * b > a
<1>1. /\ a \div b \in Int
      /\ (a \div b) * b + b > a
  OBVIOUS
<1>2. q * b >= (a \div b) * b
  BY <1>1
<1>3. /\ (q + 1) * b = q * b + b
      /\ q * b \in Int /\ (a \div b) * b \in Int
  BY <1>1
<1> DEFINE x == q * b
           y == (a \div b) * b
<1> HIDE DEF x, y
<1>4. x + b > a
  BY <1>1, <1>2, <1>3 DEF x, y
<1> QED BY <1>3, <1>4 DEF x

\* The quantity is the largest one that fits both budgets, whatever equity
\* and cash the signal is sized with.
LEMMA SizeIsMaximal ==
    ASSUME NEW s \in Signals, NEW eq \in Int, NEW free \in Int,
           RiskPerShare(s) # 0, s.entry # 0
    PROVE  LET qty == SizeOrder(s, eq, free)
           IN  /\ qty >= 1 => Affordable(s, eq, free, qty)
               /\ ~Affordable(s, eq, free, qty + 1)
<1> DEFINE q  == SizeOrder(s, eq, free)
           br == 100 * RiskPerShare(s)
           bc == 100 * s.entry
           ar == eq * RiskPct
           ac == NonNegative(free) * LeveragePct
<1>1. /\ RiskPerShare(s) \in Nat /\ s.entry \in Nat /\ q \in Nat
      /\ RiskPct \in Int /\ LeveragePct \in Int /\ NonNegative(free) \in Int
  BY RiskPerShareNat, SizeOrderNat, RiskAssumption DEF IsSignal, NonNegative
<1>2. ar \in Int /\ ac \in Int
  BY <1>1, ProductInt
<1>3. br \in Nat /\ br > 0 /\ bc \in Nat /\ bc > 0
  BY <1>1
<1>4. QtyByRisk(s, eq) = ar \div br /\ QtyByCash(s, free) = ac \div bc
  BY DEF QtyByRisk, QtyByCash
<1>5. q = NonNegative(Smaller(QtyByRisk(s, eq), QtyByCash(s, free)))
  BY DEF SizeOrder
<1>6. \A k \in Int : /\ k * 100 * RiskPerShare(s) = k * br
                      /\ k * 100 * s.entry = k * bc
  BY <1>1
<1> HIDE DEF q, br, bc, ar, ac
<1>7. ar \div br \in Int /\ ac \div bc \in Int
  BY <1>2, <1>3
<1>8. \/ q >= ar \div br
      \/ q >= ac \div bc
  BY <1>4, <1>5, <1>7 DEF NonNegative, Smaller
<1>9. (q + 1) * br > ar \/ (q + 1) * bc > ac
  BY <1>1, <1>2, <1>3, <1>8, NextQuotientExceeds
<1>10. ~Affordable(s, eq, free, q + 1)
  <2>1. /\ (q + 1) * br \in Int /\ (q + 1) * bc \in Int
    BY <1>1, <1>3, ProductInt
  <2>2. /\ (q + 1) * 100 * RiskPerShare(s) = (q + 1) * br
        /\ (q + 1) * 100 * s.entry = (q + 1) * bc
    BY <1>1, <1>6
  <2> QED BY <1>2, <1>9, <2>1, <2>2 DEF Affordable, ar, ac
<1>11. ASSUME q >= 1 PROVE Affordable(s, eq, free, q)
  <2>1. q <= ar \div br /\ q <= ac \div bc
    BY <1>4, <1>5, <1>7, <1>11 DEF NonNegative, Smaller
  <2>2. \A a \in Int, b \in Nat : b > 0 /\ q <= a \div b => q * b <= a
    <3> SUFFICES ASSUME NEW a \in Int, NEW b \in Nat, b > 0, q <= a \div b
                 PROVE  q * b <= a
      OBVIOUS
    <3>1. a \div b \in Int /\ (a \div b) * b <= a
      BY QuotientBound
    <3>2. q * b <= (a \div b) * b
      BY <1>1, <3>1
    <3>3. q * b \in Int /\ (a \div b) * b \in Int
      BY <1>1, <3>1
    <3> QED BY <3>1, <3>2, <3>3
  <2>3. q * br <= ar /\ q * bc <= ac
    BY <1>2, <1>3, <2>1, <2>2
  <2> QED BY <1>1, <1>6, <2>3 DEF Affordable, ar, ac
<1> QED BY <1>10, <1>11 DEF q

-----------------------------------------------------------------------------
(* Type correctness.                                                       *)

\* The baselines a signal is sized with are integers, and its cash is not
\* more than its equity if that held before.
LEMMA BaselineFacts ==
    ASSUME TypeOK, NEW s \in Signals, NEW base \in Baselines(s)
    PROVE  /\ base.equity \in Int
           /\ base.cash \in Int
           /\ IsNewDay(s) => base.cash = base.equity
           /\ ~IsNewDay(s) => base.equity = equity /\ base.cash = cash
<1>1. LatestEquity \subseteq Int
  BY RiskAssumption DEF LatestEquity, TypeOK
<1> QED BY <1>1 DEF Baselines, TypeOK

\* The record published for an accepted signal.
LEMMA OrderForType ==
    ASSUME NEW s \in Signals, NEW eq \in Int, NEW qty \in Nat \ {0}
    PROVE  OrderFor(s, eq, qty) \in
              [signal : Signals, symbol : Symbols, day : Nat,
               qty : Nat \ {0}, notional : Nat, risk : Nat, equity : Int]
<1>1. s.symbol \in Symbols /\ s.day \in Nat /\ s.entry \in Nat
  BY RiskAssumption DEF IsSignal
<1>2. RiskPerShare(s) \in Nat
  BY RiskPerShareNat
<1>3. qty * s.entry \in Nat /\ qty * RiskPerShare(s) \in Nat
  BY <1>1, <1>2
<1> QED BY <1>1, <1>3 DEF OrderFor

\* Every state of the risk engine has the declared types.
THEOREM TypeCorrect == Spec => []TypeOK
<1>1. Init => TypeOK
  <2> SUFFICES ASSUME Init PROVE TypeOK
    OBVIOUS
  <2>1. snapshot \in Int \cup {NoRow} /\ PaperCapital \in Int
    <3>1. Equities \subseteq Int /\ PaperCapital \in Nat
      BY RiskAssumption
    <3>2. snapshot \in {NoRow} \cup Equities
      BY DEF Init
    <3>3. snapshot = NoRow \/ snapshot \in Equities
      BY <3>2
    <3>4. snapshot \in Equities => snapshot \in Int
      BY <3>1
    <3> QED BY <3>1, <3>3, <3>4
  <2>2. /\ date = NoDate /\ accepted = {} /\ orders = {}
        /\ handled = {} /\ interrupted = {}
    BY DEF Init
  <2>3. equity \in Int /\ cash \in Int
    BY <2>1 DEF Init
  <2> QED BY <2>1, <2>2, <2>3 DEF TypeOK
<1>2. TypeOK /\ [Next]_vars => TypeOK'
  <2> SUFFICES ASSUME TypeOK, [Next]_vars PROVE TypeOK'
    OBVIOUS
  <2>1. ASSUME NEW s \in Signals, SkipSignal(s) PROVE TypeOK'
    <3>1. PICK base \in Baselines(s) :
              /\ BeginDay(s, base)
              /\ cash' = base.cash
              /\ accepted' = AcceptedOn(s)
              /\ UNCHANGED orders
      BY <2>1 DEF SkipSignal
    <3>2. base.equity \in Int /\ base.cash \in Int
      BY BaselineFacts
    <3>3. s.day \in Nat
      BY RiskAssumption DEF IsSignal
    <3> QED BY <3>1, <3>2, <3>3 DEF TypeOK, BeginDay, AcceptedOn
  <2>2. ASSUME NEW s \in Signals, AcceptSignal(s) PROVE TypeOK'
    <3>1. PICK base \in Baselines(s) :
              LET qty == SizeOrder(s, base.equity, base.cash)
              IN  /\ qty >= 1
                  /\ BeginDay(s, base)
                  /\ cash' = base.cash - qty * s.entry
                  /\ accepted' = AcceptedOn(s) \cup {s.symbol}
                  /\ orders' = orders \cup {OrderFor(s, base.equity, qty)}
      BY <2>2 DEF AcceptSignal
    <3> DEFINE qty == SizeOrder(s, base.equity, base.cash)
    <3>2. base.equity \in Int /\ base.cash \in Int
      BY BaselineFacts
    <3>3. qty \in Nat \ {0}
      BY <3>1, <3>2, SizeOrderNat
    <3>4. s.symbol \in Symbols /\ s.day \in Nat /\ s.entry \in Nat
      BY RiskAssumption DEF IsSignal
    <3>5. orders' \subseteq [signal : Signals, symbol : Symbols, day : Nat,
                             qty : Nat \ {0}, notional : Nat, risk : Nat,
                             equity : Int]
      <4> HIDE DEF qty
      <4>1. orders' = orders \cup {OrderFor(s, base.equity, qty)}
        BY <3>1 DEF qty
      <4> QED BY <4>1, <3>2, <3>3, OrderForType DEF TypeOK
    <3>6. cash' \in Int
      BY <3>1, <3>2, <3>3, <3>4
    <3> QED BY <3>1, <3>2, <3>4, <3>5, <3>6 DEF TypeOK, BeginDay, AcceptedOn
  <2>3. ASSUME NEW s \in Signals, LoseSignal(s) PROVE TypeOK'
    BY <2>3 DEF LoseSignal, TypeOK
  <2>4. ASSUME NEW e \in Equities, RecordEquity(e) PROVE TypeOK'
    BY <2>4, RiskAssumption DEF RecordEquity, TypeOK
  <2>5. CASE Restart
    <3>1. interrupted' \subseteq Nat
      BY <2>5 DEF Restart, TypeOK
    <3>2. date' = NoDate /\ accepted' = {} /\ equity' \in Int /\ cash' \in Int
      BY <2>5, RiskAssumption DEF Restart
    <3>3. UNCHANGED <<snapshot, orders, handled>>
      BY <2>5 DEF Restart
    <3> QED BY <3>1, <3>2, <3>3 DEF TypeOK
  <2>6. CASE UNCHANGED vars
    BY <2>6 DEF vars, TypeOK
  <2> QED BY <2>1, <2>2, <2>3, <2>4, <2>5, <2>6 DEF Next
<1> QED BY <1>1, <1>2, PTL DEF Spec

-----------------------------------------------------------------------------
(* Sizing over a day.                                                      *)

\* Every signal is sized as large as its budget and the buying power allow,
\* and not a share larger, with whatever equity and cash the engine has.
THEOREM SizingMaximal == Spec => []SizingIsMaximal
<1>1. TypeOK => SizingIsMaximal
  BY SizeIsMaximal DEF TypeOK, SizingIsMaximal
<1> QED BY <1>1, TypeCorrect, PTL

\* Every order risks at most its share of the equity it was sized from, with
\* restarts too.
THEOREM OrderRiskBounded == Spec => []OrderRiskWithinBudget
<1>1. Init => OrderRiskWithinBudget
  BY DEF Init, OrderRiskWithinBudget
<1>2. TypeOK /\ OrderRiskWithinBudget /\ [Next]_vars => OrderRiskWithinBudget'
  <2> SUFFICES ASSUME TypeOK, OrderRiskWithinBudget, [Next]_vars
               PROVE  OrderRiskWithinBudget'
    OBVIOUS
  <2>1. ASSUME NEW s \in Signals, AcceptSignal(s)
        PROVE  OrderRiskWithinBudget'
    <3>1. PICK base \in Baselines(s) :
              LET qty == SizeOrder(s, base.equity, base.cash)
              IN  /\ qty >= 1
                  /\ orders' = orders \cup {OrderFor(s, base.equity, qty)}
      BY <2>1 DEF AcceptSignal
    <3> DEFINE qty == SizeOrder(s, base.equity, base.cash)
    <3>2. base.equity \in Int /\ base.cash \in Int
      BY BaselineFacts
    <3>3. 100 * (qty * RiskPerShare(s)) <= RiskPct * base.equity
      BY <3>1, <3>2, SizeFitsRisk
    <3>4. /\ OrderFor(s, base.equity, qty).risk = qty * RiskPerShare(s)
          /\ OrderFor(s, base.equity, qty).equity = base.equity
      BY DEF OrderFor
    <3> HIDE DEF qty
    <3>5. orders' = orders \cup {OrderFor(s, base.equity, qty)}
      BY <3>1 DEF qty
    <3> QED BY <3>3, <3>4, <3>5 DEF OrderRiskWithinBudget
  <2>2. CASE UNCHANGED orders
    BY <2>2 DEF OrderRiskWithinBudget
  <2>3. ASSUME NEW s \in Signals, SkipSignal(s) \/ LoseSignal(s)
        PROVE  UNCHANGED orders
    BY <2>3 DEF SkipSignal, LoseSignal
  <2>4. ASSUME NEW e \in Equities, RecordEquity(e) PROVE UNCHANGED orders
    BY <2>4 DEF RecordEquity
  <2>5. Restart \/ UNCHANGED vars => UNCHANGED orders
    BY DEF Restart, vars
  <2> QED BY <2>1, <2>2, <2>3, <2>4, <2>5 DEF Next
<1> QED BY <1>1, <1>2, TypeCorrect, PTL DEF Spec

\* The arithmetic of one accepted order: whatever the cash was, it is missing
\* at most the leveraged equity after paying for the order.
LEMMA CommitStep ==
    ASSUME NEW eq \in Int, NEW free \in Int, NEW cost \in Int,
           free <= eq, free > 0, 100 * cost <= free * LeveragePct,
           NEW k \in Int, k = BuyingPowerPct
    PROVE  100 * (eq - (free - cost)) <= eq * k
<1>1. LeveragePct \in Nat
  BY RiskAssumption
<1>2. CASE LeveragePct >= 100
  <2>1. k = LeveragePct
    BY <1>2 DEF BuyingPowerPct
  <2>2. (eq - free) * 100 <= (eq - free) * LeveragePct
    <3> DEFINE m == eq - free
               j == LeveragePct - 100
    <3>1. m \in Nat /\ j \in Nat
      BY <1>1, <1>2
    <3>2. m * j >= 0
      <4> HIDE DEF m, j
      <4> QED BY <3>1
    <3>3. m * LeveragePct = m * 100 + m * j
      <4> HIDE DEF m
      <4> QED BY <3>1, <1>1
    <3>4. m * j \in Int /\ m * LeveragePct \in Int
      <4> HIDE DEF m, j
      <4> QED BY <3>1, <1>1
    <3> QED BY <3>2, <3>3, <3>4
  <2>3. (eq - free) * LeveragePct = eq * LeveragePct - free * LeveragePct
    BY <1>1
  <2>4. eq * LeveragePct \in Int /\ free * LeveragePct \in Int
    BY <1>1
  <2> QED BY <2>1, <2>2, <2>3, <2>4
<1>3. CASE LeveragePct < 100
  <2>1. free * LeveragePct <= free * 100
    <3>1. 100 - LeveragePct \in Nat
      BY <1>1, <1>3
    <3>2. free * (100 - LeveragePct) >= 0
      BY <3>1
    <3>3. free * (100 - LeveragePct) = free * 100 - free * LeveragePct
      BY <1>1
    <3>4. free * LeveragePct \in Int
      BY <1>1
    <3> QED BY <3>2, <3>3, <3>4
  <2>2. free * LeveragePct \in Int
    BY <1>1
  <2> QED BY <1>3, <2>1, <2>2 DEF BuyingPowerPct
<1> QED BY <1>1, <1>2, <1>3

\* What the process remembers is bounded: the cash is missing at most the
\* leveraged equity, and it never exceeds the equity.
CommitInv ==
    /\ 100 * (equity - cash) <= NonNegative(equity) * BuyingPowerPct
    /\ cash <= equity

LEMMA CommitInvHolds == Spec => []CommitInv
<1> DEFINE k == BuyingPowerPct
<1>0. k \in Nat /\ \A e \in Int : NonNegative(e) * k >= 0
  <2>1. k \in Nat
    BY RiskAssumption DEF BuyingPowerPct
  <2>2. \A e \in Int : NonNegative(e) \in Nat
    BY DEF NonNegative
  <2> QED BY <2>1, <2>2
<1>1. ASSUME NEW e \in Int, equity = e, cash = e PROVE CommitInv
  BY <1>0, <1>1 DEF CommitInv
<1>2. ASSUME NEW e \in Int, equity' = e, cash' = e PROVE CommitInv'
  BY <1>0, <1>2 DEF CommitInv
<1>3. Init => CommitInv
  BY <1>1, RiskAssumption DEF Init
<1>4. TypeOK /\ CommitInv /\ [Next]_vars => CommitInv'
  <2> SUFFICES ASSUME TypeOK, CommitInv, [Next]_vars PROVE CommitInv'
    OBVIOUS
  <2>1. ASSUME NEW s \in Signals, SkipSignal(s) PROVE CommitInv'
    <3>1. PICK base \in Baselines(s) :
              equity' = base.equity /\ cash' = base.cash
      BY <2>1 DEF SkipSignal, BeginDay
    <3>2. CASE IsNewDay(s)
      BY <1>2, <3>1, <3>2, BaselineFacts
    <3>3. CASE ~IsNewDay(s)
      <4>1. equity' = equity /\ cash' = cash
        BY <3>1, <3>3, BaselineFacts
      <4> QED BY <4>1 DEF CommitInv
    <3> QED BY <3>2, <3>3
  <2>2. ASSUME NEW s \in Signals, AcceptSignal(s) PROVE CommitInv'
    <3>1. PICK base \in Baselines(s) :
              LET qty == SizeOrder(s, base.equity, base.cash)
              IN  /\ qty >= 1
                  /\ equity' = base.equity
                  /\ cash' = base.cash - qty * s.entry
      BY <2>2 DEF AcceptSignal, BeginDay
    <3> DEFINE qty  == SizeOrder(s, base.equity, base.cash)
               cost == qty * s.entry
    <3>2. base.equity \in Int /\ base.cash \in Int /\ base.cash <= base.equity
      BY BaselineFacts DEF CommitInv, TypeOK
    <3>3. base.cash > 0 /\ 100 * cost <= base.cash * LeveragePct
      BY <3>1, <3>2, SizeFitsCash
    <3>4. s.entry \in Nat /\ qty \in Nat
      BY <3>2, SizeOrderNat, RiskAssumption DEF IsSignal
    <3>5. cost \in Nat
      <4> HIDE DEF qty
      <4> QED BY <3>4
    <3>6. cash' = base.cash - cost /\ equity' = base.equity
      BY <3>1
    <3> HIDE DEF cost, k
    <3>7. 100 * (equity' - cash') <= equity' * k
      BY <3>2, <3>3, <3>5, <3>6, <1>0, CommitStep DEF k
    <3>8. NonNegative(equity') = equity'
      BY <3>2, <3>3, <3>6 DEF NonNegative
    <3> QED BY <3>2, <3>5, <3>6, <3>7, <3>8
            DEF CommitInv, k
  <2>3. CASE Restart
    BY <1>2, <2>3, RiskAssumption DEF Restart
  <2>4. CASE UNCHANGED <<equity, cash>>
    BY <2>4 DEF CommitInv
  <2>5. ASSUME NEW s \in Signals, LoseSignal(s)
        PROVE  UNCHANGED <<equity, cash>>
    BY <2>5 DEF LoseSignal
  <2>6. ASSUME NEW e \in Equities, RecordEquity(e)
        PROVE  UNCHANGED <<equity, cash>>
    BY <2>6 DEF RecordEquity
  <2>7. UNCHANGED vars => UNCHANGED <<equity, cash>>
    BY DEF vars
  <2> QED BY <2>1, <2>2, <2>3, <2>4, <2>5, <2>6, <2>7 DEF Next
<1> QED BY <1>3, <1>4, TypeCorrect, PTL DEF Spec

-----------------------------------------------------------------------------
(* The daily cap.                                                          *)

\* What the tracker remembers about the orders of its day, unless it was
\* restarted during it.
TrackerKnows(day) ==
    /\ \A o \in OrdersOn(day) : o.symbol \in accepted
    /\ Cardinality(OrdersOn(day)) <= Cardinality(accepted)

\* No further signal of a day with orders comes unless the tracker is at
\* that day or was restarted during it.
PastDaysAreOver ==
    \A o \in Uninterrupted :
        o.day = date \/ \E h \in handled : h.day > o.day

CapInv ==
    /\ date # NoDate => \E h \in handled : h.day = date
    /\ date \notin interrupted \cup {NoDate} => TrackerKnows(date)
    /\ PastDaysAreOver
    /\ IsFiniteSet(accepted)
    /\ IsFiniteSet(orders)
    /\ \A d \in Nat \ interrupted : OneDaysCapKept(d)

\* The orders of a day are finitely many.
LEMMA DayIsFinite ==
    ASSUME CapInv, NEW d
    PROVE  IsFiniteSet(OrdersOn(d)) /\ Cardinality(OrdersOn(d)) \in Nat
<1>1. OrdersOn(d) \subseteq orders
  BY DEF OrdersOn
<1> QED BY <1>1, FS_Subset, FS_CardinalityType DEF CapInv

\* A signal of an uninterrupted day that the tracker is not at finds no
\* order of its day.
LEMMA NewDayIsFresh ==
    ASSUME TypeOK, CapInv, NEW s \in Signals, MayCome(s), IsNewDay(s),
           s.day \notin interrupted
    PROVE  OrdersOn(s.day) = {}
<1> SUFFICES ASSUME NEW o \in orders, o.day = s.day PROVE FALSE
  BY DEF OrdersOn
<1>1. PICK h \in handled : h.day > o.day
  BY DEF CapInv, PastDaysAreOver, Uninterrupted, IsNewDay
<1>2. h.day <= s.day
  BY DEF MayCome
<1>3. h.day \in Nat /\ s.day \in Nat
  BY RiskAssumption DEF IsSignal, TypeOK
<1> QED BY <1>1, <1>2, <1>3

\* What the tracker holds once the signal's day has begun.
LEMMA TrackerFacts ==
    ASSUME TypeOK, CapInv, NEW s \in Signals, MayCome(s)
    PROVE  /\ s.day \in Nat
           /\ s.day # NoDate
           /\ IsFiniteSet(AcceptedOn(s))
           /\ Cardinality(AcceptedOn(s)) \in Nat
           /\ s.day \notin interrupted =>
                 /\ \A o \in OrdersOn(s.day) : o.symbol \in AcceptedOn(s)
                 /\ Cardinality(OrdersOn(s.day)) <= Cardinality(AcceptedOn(s))
<1>1. s.day \in Nat /\ s.day # NoDate
  BY RiskAssumption DEF IsSignal
<1>2. IsFiniteSet({}) /\ Cardinality({}) = 0
  BY FS_EmptySet
<1>3. IsFiniteSet(AcceptedOn(s)) /\ Cardinality(AcceptedOn(s)) \in Nat
  BY <1>2, FS_CardinalityType DEF CapInv, AcceptedOn
<1>4. CASE IsNewDay(s)
  <2>1. AcceptedOn(s) = {}
    BY <1>4 DEF AcceptedOn
  <2>2. s.day \notin interrupted => OrdersOn(s.day) = {}
    BY <1>4, NewDayIsFresh
  <2> QED BY <1>1, <1>2, <1>3, <2>1, <2>2
<1>5. CASE ~IsNewDay(s)
  <2>1. s.day = date /\ AcceptedOn(s) = accepted
    BY <1>5 DEF IsNewDay, AcceptedOn
  <2>2. s.day \notin interrupted => TrackerKnows(s.day)
    BY <1>1, <2>1 DEF CapInv
  <2> QED BY <1>1, <1>3, <2>1, <2>2 DEF TrackerKnows
<1> QED BY <1>4, <1>5

\* When a signal has begun its day, the days before are over.
LEMMA DayBegun ==
    ASSUME TypeOK, CapInv, NEW s \in Signals, MayCome(s),
           NEW o \in Uninterrupted
    PROVE  o.day = s.day \/ \E h \in handled \cup {s} : h.day > o.day
<1>1. o.day \in Nat /\ s.day \in Nat
  BY RiskAssumption DEF IsSignal, TypeOK, Uninterrupted
<1>2. CASE o.day = date
  <2>1. PICK h \in handled : h.day = date
    BY <1>1, <1>2, RiskAssumption DEF CapInv
  <2>2. o.day <= s.day
    BY <1>2, <2>1 DEF MayCome
  <2> QED BY <1>1, <2>2
<1>3. CASE o.day # date
  BY <1>3 DEF CapInv, PastDaysAreOver
<1> QED BY <1>2, <1>3

\* The tracker counts what was published, on every day without a restart.
LEMMA CapInvHolds == Spec => []CapInv
<1>1. Init => CapInv
  <2> SUFFICES ASSUME Init PROVE CapInv
    OBVIOUS
  <2>1. \A d : OrdersOn(d) = {}
    BY DEF Init, OrdersOn
  <2>2. IsFiniteSet({}) /\ Cardinality({}) = 0
    BY FS_EmptySet
  <2>3. \A d : OneDaysCapKept(d)
    BY <2>1, <2>2, RiskAssumption DEF OneDaysCapKept
  <2>4. date = NoDate /\ PastDaysAreOver
    BY DEF Init, PastDaysAreOver, Uninterrupted
  <2> QED BY <2>2, <2>3, <2>4 DEF Init, CapInv
<1>2. TypeOK /\ CapInv /\ [Next]_vars => CapInv'
  <2> SUFFICES ASSUME TypeOK, CapInv, [Next]_vars PROVE CapInv'
    OBVIOUS
  <2>1. ASSUME NEW s \in Signals, SkipSignal(s) PROVE CapInv'
    <3>1. /\ MayCome(s)
          /\ date' = s.day
          /\ handled' = handled \cup {s}
          /\ accepted' = AcceptedOn(s)
          /\ orders' = orders
          /\ interrupted' = interrupted
      BY <2>1 DEF SkipSignal, BeginDay
    <3>2. \A d : /\ OrdersOn(d)' = OrdersOn(d)
                 /\ OneDaysCapKept(d)' <=> OneDaysCapKept(d)
      BY <3>1 DEF OrdersOn, OneDaysCapKept
    <3>3. date' \notin interrupted' => TrackerKnows(s.day)'
      BY <3>1, <3>2, TrackerFacts DEF TrackerKnows
    <3>4. PastDaysAreOver'
      BY <3>1, DayBegun DEF PastDaysAreOver, Uninterrupted
    <3>5. TrackerKnows(date)' <=> TrackerKnows(s.day)'
      BY <3>1 DEF TrackerKnows, OrdersOn
    <3> QED BY <3>1, <3>2, <3>3, <3>4, <3>5, TrackerFacts DEF CapInv
  <2>2. ASSUME NEW s \in Signals, AcceptSignal(s) PROVE CapInv'
    <3>1. PICK o : /\ o.day = s.day
                   /\ o.symbol = s.symbol
                   /\ orders' = orders \cup {o}
      BY <2>2 DEF AcceptSignal, OrderFor
    <3>2. /\ MayCome(s)
          /\ CanAccept(s)
          /\ date' = s.day
          /\ handled' = handled \cup {s}
          /\ accepted' = AcceptedOn(s) \cup {s.symbol}
          /\ interrupted' = interrupted
      BY <2>2 DEF AcceptSignal, BeginDay
    <3>3. /\ OrdersOn(s.day)' = OrdersOn(s.day) \cup {o}
          /\ \A d : d # s.day => OrdersOn(d)' = OrdersOn(d)
      BY <3>1 DEF OrdersOn
    <3>4. /\ Cardinality(OrdersOn(s.day)') \in Nat
          /\ Cardinality(OrdersOn(s.day)') <= Cardinality(OrdersOn(s.day)) + 1
      BY <3>3, DayIsFinite, FS_AddElement, FS_CardinalityType
    <3>5. /\ IsFiniteSet(accepted')
          /\ Cardinality(accepted') = Cardinality(AcceptedOn(s)) + 1
      BY <3>2, TrackerFacts, FS_AddElement DEF CanAccept
    <3>6. ASSUME s.day \notin interrupted
          PROVE  /\ TrackerKnows(s.day)'
                 /\ OneDaysCapKept(s.day)'
      <4>1. /\ \A q \in OrdersOn(s.day) : q.symbol \in AcceptedOn(s)
            /\ Cardinality(OrdersOn(s.day)) <= Cardinality(AcceptedOn(s))
            /\ Cardinality(AcceptedOn(s)) \in Nat
        BY <3>2, <3>6, TrackerFacts
      <4>2. /\ Cardinality(OrdersOn(s.day)') <= Cardinality(accepted')
            /\ Cardinality(OrdersOn(s.day)') <= MaxTradesPerDay
        BY <3>2, <3>4, <3>5, <4>1, DayIsFinite, RiskAssumption DEF CanAccept
      <4>3. \A q \in OrdersOn(s.day) : q.symbol # s.symbol
        BY <3>2, <4>1 DEF CanAccept
      <4>4. OneDaysCapKept(s.day)
        BY <3>2, <3>6, TrackerFacts DEF CapInv
      <4>5. \A p, q \in OrdersOn(s.day)' : q.symbol = p.symbol => q = p
        BY <3>1, <3>3, <4>3, <4>4 DEF OneDaysCapKept
      <4>6. \A q \in OrdersOn(s.day)' : q.symbol \in accepted'
        BY <3>1, <3>2, <3>3, <4>1
      <4> QED BY <4>2, <4>5, <4>6 DEF TrackerKnows, OneDaysCapKept
    <3>7. \A d \in Nat \ interrupted' : OneDaysCapKept(d)'
      <4>1. \A d : d # s.day => (OneDaysCapKept(d)' <=> OneDaysCapKept(d))
        BY <3>3 DEF OneDaysCapKept
      <4> QED BY <3>2, <3>6, <4>1 DEF CapInv
    <3>8. PastDaysAreOver'
      BY <3>1, <3>2, DayBegun DEF PastDaysAreOver, Uninterrupted
    <3>9. date' \notin interrupted' => TrackerKnows(date)'
      <4>1. TrackerKnows(date)' <=> TrackerKnows(s.day)'
        BY <3>2 DEF TrackerKnows, OrdersOn
      <4> QED BY <3>2, <3>6, <4>1
    <3>10. IsFiniteSet(orders')
      BY <3>1, FS_AddElement DEF CapInv
    <3> QED BY <3>2, <3>5, <3>7, <3>8, <3>9, <3>10 DEF CapInv
  <2>3. ASSUME NEW s \in Signals, LoseSignal(s) PROVE CapInv'
    <3>1. /\ UNCHANGED <<date, accepted, orders, interrupted>>
          /\ handled \subseteq handled'
      BY <2>3 DEF LoseSignal
    <3> QED BY <3>1 DEF CapInv, TrackerKnows, PastDaysAreOver, Uninterrupted,
                        OneDaysCapKept, OrdersOn
  <2>4. CASE UNCHANGED <<date, accepted, orders, handled, interrupted>>
    BY <2>4 DEF CapInv, TrackerKnows, PastDaysAreOver, Uninterrupted,
                OneDaysCapKept, OrdersOn
  <2>5. ASSUME NEW e \in Equities, RecordEquity(e)
        PROVE  UNCHANGED <<date, accepted, orders, handled, interrupted>>
    BY <2>5 DEF RecordEquity
  <2>6. UNCHANGED vars
            => UNCHANGED <<date, accepted, orders, handled, interrupted>>
    BY DEF vars
  <2>7. CASE Restart
    <3>1. /\ date' = NoDate /\ accepted' = {}
          /\ orders' = orders /\ handled' = handled
          /\ interrupted \subseteq interrupted'
          /\ date # NoDate => date \in interrupted'
      BY <2>7 DEF Restart
    <3>2. \A d : OneDaysCapKept(d)' <=> OneDaysCapKept(d)
      BY <3>1 DEF OneDaysCapKept, OrdersOn
    <3>3. PastDaysAreOver'
      <4> SUFFICES ASSUME NEW o \in orders, o.day \notin interrupted'
                   PROVE  \E h \in handled : h.day > o.day
        BY <3>1 DEF PastDaysAreOver, Uninterrupted
      <4>1. o.day # date
        BY <3>1, RiskAssumption DEF TypeOK
      <4> QED BY <3>1, <4>1 DEF CapInv, PastDaysAreOver, Uninterrupted
    <3>4. IsFiniteSet({})
      BY FS_EmptySet
    <3> QED BY <3>1, <3>2, <3>3, <3>4 DEF CapInv
  <2> QED BY <2>1, <2>2, <2>3, <2>4, <2>5, <2>6, <2>7 DEF Next
<1> QED BY <1>1, <1>2, TypeCorrect, PTL DEF Spec

\* On every day that sees no restart at most MaxTradesPerDay orders are
\* published, and at most one of them for each symbol.
THEOREM DailyCapHolds == Spec => []DailyCapKept
<1>1. TypeOK /\ CapInv => DailyCapKept
  BY DEF TypeOK, CapInv, DailyCapKept, Uninterrupted
<1> QED BY <1>1, CapInvHolds, TypeCorrect, PTL

-----------------------------------------------------------------------------
(* The day's books: its equity, its cash and its risk.                     *)

\* The orders of a day without restart are sized from one equity, the one
\* the engine still holds while it is at that day.
OneEquityPerDay ==
    \A o \in Uninterrupted :
        /\ o.day = date => o.equity = equity
        /\ \A q \in OrdersOn(o.day) : q.equity = o.equity

\* An order is published for a signal that was taken.
OrdersOfHandled == \A o \in orders : o.signal \in handled

DayInv ==
    /\ OneEquityPerDay
    /\ OrdersOfHandled
    /\ CashAccountsForOrders

\* What a skipped or accepted signal is sized with accounts for the orders
\* published on its day.
LEMMA BaselineAccounts ==
    ASSUME TypeOK, CapInv, DayInv, NEW s \in Signals, MayCome(s),
           NEW base \in Baselines(s), s.day \notin interrupted
    PROVE  /\ base.cash = base.equity
                             - SumFunctionOnSet(Notionals, OrdersOn(s.day))
           /\ \A o \in OrdersOn(s.day) : o.equity = base.equity
<1>1. base.equity \in Int /\ s.day # NoDate
  BY BaselineFacts, RiskAssumption DEF IsSignal
<1>2. CASE IsNewDay(s)
  <2>1. OrdersOn(s.day) = {}
    BY <1>2, NewDayIsFresh
  <2>2. SumFunctionOnSet(Notionals, {}) = 0
    BY SumUnrolled, FS_EmptySet
  <2>3. base.cash = base.equity
    BY <1>2, BaselineFacts
  <2> QED BY <1>1, <2>1, <2>2, <2>3
<1>3. CASE ~IsNewDay(s)
  <2>1. s.day = date /\ base.equity = equity /\ base.cash = cash
    BY <1>3, BaselineFacts DEF IsNewDay
  <2>2. cash = equity - SumFunctionOnSet(Notionals, OrdersOn(date))
    BY <1>1, <2>1 DEF DayInv, CashAccountsForOrders
  <2>3. \A o \in OrdersOn(date) : o.equity = equity
    BY <2>1 DEF DayInv, OneEquityPerDay, OrdersOn, Uninterrupted
  <2> QED BY <2>1, <2>2, <2>3
<1> QED BY <1>2, <1>3

\* Skipping a signal keeps the books.
LEMMA SkipKeepsBooks ==
    ASSUME TypeOK, CapInv, DayInv, NEW s \in Signals, SkipSignal(s)
    PROVE  DayInv'
<1>1. PICK base \in Baselines(s) :
          /\ MayCome(s)
          /\ date' = s.day /\ equity' = base.equity /\ cash' = base.cash
          /\ handled' = handled \cup {s}
          /\ orders' = orders /\ interrupted' = interrupted
  BY DEF SkipSignal, BeginDay
<1>2. /\ \A d : OrdersOn(d)' = OrdersOn(d)
      /\ OrdersOn(date)' = OrdersOn(s.day)
      /\ Uninterrupted' = Uninterrupted /\ Notionals' = Notionals
  BY <1>1 DEF OrdersOn, Uninterrupted, Notionals
<1>3. OneEquityPerDay'
  <2> SUFFICES ASSUME NEW o \in Uninterrupted
               PROVE  /\ o.day = s.day => o.equity = base.equity
                      /\ \A q \in OrdersOn(o.day) : q.equity = o.equity
    BY <1>1, <1>2 DEF OneEquityPerDay
  <2>1. o \in OrdersOn(o.day) /\ o.day \notin interrupted
    BY DEF Uninterrupted, OrdersOn
  <2>2. \A q \in OrdersOn(o.day) : q.equity = o.equity
    BY DEF DayInv, OneEquityPerDay
  <2> QED BY <1>1, <2>1, <2>2, BaselineAccounts
<1>4. OrdersOfHandled'
  BY <1>1 DEF DayInv, OrdersOfHandled
<1>5. CashAccountsForOrders'
  <2> SUFFICES ASSUME s.day \notin interrupted
               PROVE  base.cash = base.equity
                          - SumFunctionOnSet(Notionals, OrdersOn(s.day))
    BY <1>1, <1>2 DEF CashAccountsForOrders
  <2> QED BY <1>1, BaselineAccounts
<1> QED BY <1>3, <1>4, <1>5 DEF DayInv

\* Accepting one takes its notional off the cash and adds its order to the
\* day's, which was sized from the same equity.
LEMMA AcceptKeepsBooks ==
    ASSUME TypeOK, CapInv, DayInv, NEW s \in Signals, AcceptSignal(s)
    PROVE  DayInv'
<1>1. PICK base \in Baselines(s) :
          LET qty == SizeOrder(s, base.equity, base.cash)
          IN  /\ MayCome(s)
              /\ qty >= 1
              /\ date' = s.day /\ equity' = base.equity
              /\ cash' = base.cash - qty * s.entry
              /\ handled' = handled \cup {s}
              /\ orders' = orders \cup {OrderFor(s, base.equity, qty)}
              /\ interrupted' = interrupted
  BY DEF AcceptSignal, BeginDay
<1> DEFINE qty == SizeOrder(s, base.equity, base.cash)
           n   == OrderFor(s, base.equity, qty)
           day == OrdersOn(s.day)
<1>2. /\ base.equity \in Int /\ base.cash \in Int
      /\ qty \in Nat /\ qty # 0 /\ s.entry \in Nat /\ s.day \in Nat
  BY <1>1, BaselineFacts, SizeOrderNat, RiskAssumption DEF IsSignal
<1>3. /\ n.day = s.day /\ n.equity = base.equity
      /\ n.notional = qty * s.entry /\ n.signal = s
  BY DEF OrderFor
<1>4. qty * s.entry \in Int
  <2> HIDE DEF qty
  <2> QED BY <1>2, ProductInt
<1>5. n \notin orders
  BY <1>1, <1>3 DEF DayInv, OrdersOfHandled, MayCome
<1>6. orders' = orders \cup {n} /\ cash' = base.cash - n.notional
  BY <1>1, <1>3
<1> HIDE DEF n, qty
<1>7. /\ OrdersOn(s.day)' = day \cup {n} /\ OrdersOn(date)' = day \cup {n}
      /\ \A d : d # s.day => OrdersOn(d)' = OrdersOn(d)
  BY <1>1, <1>3, <1>6 DEF OrdersOn
<1>8. OneEquityPerDay'
  <2> SUFFICES ASSUME NEW o \in orders \cup {n}, o.day \notin interrupted
               PROVE  /\ o.day = s.day => o.equity = base.equity
                      /\ \A q \in OrdersOn(o.day)' : q.equity = o.equity
    BY <1>1, <1>6 DEF OneEquityPerDay, Uninterrupted
  <2>1. CASE o.day = s.day
    <3>1. \A q \in day \cup {n} : q.equity = base.equity
      BY <1>1, <1>3, <2>1, BaselineAccounts
    <3>2. o \in day \cup {n}
      BY <2>1 DEF OrdersOn
    <3> QED BY <1>7, <2>1, <3>1, <3>2
  <2>2. CASE o.day # s.day
    <3>1. o \in Uninterrupted
      BY <1>3, <2>2 DEF Uninterrupted
    <3> QED BY <1>7, <2>2, <3>1 DEF DayInv, OneEquityPerDay
  <2> QED BY <2>1, <2>2
<1>9. OrdersOfHandled'
  BY <1>1, <1>3, <1>6 DEF DayInv, OrdersOfHandled
<1>10. CashAccountsForOrders'
  <2> SUFFICES ASSUME s.day \notin interrupted
               PROVE  cash' = equity'
                         - SumFunctionOnSet(Notionals', day \cup {n})
    BY <1>1, <1>7 DEF CashAccountsForOrders
  <2>1. IsFiniteSet(day) /\ n \notin day /\ day \subseteq orders
    BY <1>5, DayIsFinite DEF OrdersOn
  <2>2. /\ \A o \in day : Notionals'[o] = Notionals[o]
        /\ \A o \in day \cup {n} : Notionals'[o] = o.notional
    BY <1>6, <2>1 DEF Notionals
  <2>3. \A o \in day \cup {n} : o.notional \in Int
    BY <1>3, <1>4, <2>1 DEF TypeOK
  <2>4. SumFunctionOnSet(Notionals', day \cup {n})
           = SumFunctionOnSet(Notionals', day) + n.notional
    BY <2>1, <2>2, <2>3, SumWith
  <2>5. SumFunctionOnSet(Notionals', day) = SumFunctionOnSet(Notionals, day)
    BY <2>1, <2>2, SumCongruent
  <2>6. SumFunctionOnSet(Notionals, day) \in Int
    <3>1. \A o \in day : Notionals[o] \in Int
      BY <2>2, <2>3
    <3> QED BY <2>1, <3>1, SumInt
  <2>7. base.cash = base.equity - SumFunctionOnSet(Notionals, day)
    BY <1>1, BaselineAccounts
  <2>8. n.notional \in Int
    BY <2>3
  <2> HIDE DEF day
  <2> QED BY <1>1, <1>2, <1>6, <2>4, <2>5, <2>6, <2>7, <2>8
<1> QED BY <1>8, <1>9, <1>10 DEF DayInv

\* The books are kept by every step.
LEMMA DayInvHolds == Spec => []DayInv
<1>1. Init => DayInv
  BY DEF Init, DayInv, OneEquityPerDay, OrdersOfHandled,
         CashAccountsForOrders, Uninterrupted
<1>2. TypeOK /\ CapInv /\ DayInv /\ [Next]_vars => DayInv'
  <2> SUFFICES ASSUME TypeOK, CapInv, DayInv, [Next]_vars PROVE DayInv'
    OBVIOUS
  <2>1. ASSUME NEW s \in Signals, SkipSignal(s) PROVE DayInv'
    BY <2>1, SkipKeepsBooks
  <2>2. ASSUME NEW s \in Signals, AcceptSignal(s) PROVE DayInv'
    BY <2>2, AcceptKeepsBooks
  <2>3. ASSUME UNCHANGED <<date, equity, cash, orders, interrupted>>,
               handled \subseteq handled'
        PROVE  DayInv'
    BY <2>3 DEF DayInv, OneEquityPerDay, OrdersOfHandled,
                CashAccountsForOrders, Uninterrupted, OrdersOn, Notionals
  <2>4. ASSUME NEW s \in Signals, LoseSignal(s) PROVE DayInv'
    BY <2>3, <2>4 DEF LoseSignal
  <2>5. ASSUME NEW e \in Equities, RecordEquity(e) PROVE DayInv'
    BY <2>3, <2>5 DEF RecordEquity
  <2>6. CASE UNCHANGED vars
    BY <2>3, <2>6 DEF vars
  <2>7. CASE Restart
    <3>1. /\ date' = NoDate /\ orders' = orders /\ handled' = handled
          /\ interrupted \subseteq interrupted'
      BY <2>7 DEF Restart
    <3>2. \A o \in Uninterrupted' : o \in Uninterrupted /\ o.day # date'
      BY <3>1, RiskAssumption DEF Uninterrupted, TypeOK
    <3>3. OneEquityPerDay'
      BY <3>1, <3>2 DEF DayInv, OneEquityPerDay, OrdersOn
    <3> QED BY <3>1, <3>3 DEF DayInv, OrdersOfHandled, CashAccountsForOrders
  <2> QED BY <2>1, <2>2, <2>4, <2>5, <2>6, <2>7 DEF Next
<1> QED BY <1>1, <1>2, TypeCorrect, CapInvHolds, PTL DEF Spec

\* On a day without a restart the cash is the day's equity less the prices
\* times quantities of all the orders published that day: the reservation of
\* every order counts, only once, and whole (it is not divided by the leverage).
THEOREM CashAccounted == Spec => []CashAccountsForOrders
<1>1. DayInv => CashAccountsForOrders
  BY DEF DayInv
<1> QED BY <1>1, DayInvHolds, PTL

\* An accepted order leaves its day within the leveraged equity, and the days
\* before as they are.
LEMMA AcceptStaysWithin ==
    ASSUME TypeOK, CapInv, CommitInv, NeverOverCommitted,
           TypeOK', CapInv', DayInv', CommitInv',
           NEW s \in Signals, AcceptSignal(s)
    PROVE  NeverOverCommitted'
<1>1. PICK base \in Baselines(s) :
          LET qty == SizeOrder(s, base.equity, base.cash)
          IN  /\ qty >= 1
              /\ date' = s.day /\ equity' = base.equity
              /\ orders' = orders \cup {OrderFor(s, base.equity, qty)}
              /\ interrupted' = interrupted
  BY DEF AcceptSignal, BeginDay
<1> DEFINE n == OrderFor(s, base.equity, SizeOrder(s, base.equity, base.cash))
<1>2. n.day = s.day /\ orders' = orders \cup {n}
  BY <1>1 DEF OrderFor
<1>3. equity' \in Int /\ NonNegative(equity') = equity'
  <2>1. base.equity \in Int /\ base.cash \in Int /\ base.cash <= base.equity
    BY BaselineFacts DEF CommitInv, TypeOK
  <2>2. base.cash > 0
    BY <1>1, <2>1, SizeFitsCash
  <2> QED BY <1>1, <2>1, <2>2 DEF NonNegative
<1> HIDE DEF n
<1> SUFFICES ASSUME NEW o \in Uninterrupted'
             PROVE  100 * SumFunctionOnSet(Notionals', OrdersOn(o.day)')
                        <= o.equity * BuyingPowerPct
  BY DEF NeverOverCommitted
<1>4. CASE o.day = s.day
  <2>1. o \in orders' /\ date' = o.day /\ date' \notin interrupted' \cup {NoDate}
    BY <1>1, <1>4, RiskAssumption DEF Uninterrupted, IsSignal
  <2>2. OrdersOn(date)' = OrdersOn(o.day)' /\ o.equity = equity'
    BY <2>1 DEF DayInv, OneEquityPerDay, OrdersOn
  <2>3. cash' = equity' - SumFunctionOnSet(Notionals', OrdersOn(o.day)')
    BY <2>1, <2>2 DEF DayInv, CashAccountsForOrders
  <2>4. SumFunctionOnSet(Notionals', OrdersOn(o.day)') \in Int
    <3>1. IsFiniteSet(OrdersOn(o.day)')
      BY FS_Subset DEF CapInv, OrdersOn
    <3>2. \A q \in OrdersOn(o.day)' : Notionals'[q] \in Int
      BY DEF Notionals, OrdersOn, TypeOK
    <3> QED BY <3>1, <3>2, SumInt
  <2>5. 100 * (equity' - cash') <= equity' * BuyingPowerPct
    BY <1>3 DEF CommitInv
  <2> QED BY <1>3, <2>2, <2>3, <2>4, <2>5
<1>5. CASE o.day # s.day
  <2>1. o \in Uninterrupted
    BY <1>1, <1>2, <1>5 DEF Uninterrupted
  <2>2. OrdersOn(o.day)' = OrdersOn(o.day)
    BY <1>2, <1>5 DEF OrdersOn
  <2>3. IsFiniteSet(OrdersOn(o.day)) /\ OrdersOn(o.day) \subseteq orders
    BY DayIsFinite DEF OrdersOn
  <2>4. \A q \in OrdersOn(o.day) : Notionals'[q] = Notionals[q]
    BY <1>2, <2>3 DEF Notionals
  <2>5. SumFunctionOnSet(Notionals', OrdersOn(o.day))
           = SumFunctionOnSet(Notionals, OrdersOn(o.day))
    BY <2>3, <2>4, SumCongruent
  <2> QED BY <2>1, <2>2, <2>5 DEF NeverOverCommitted
<1> QED BY <1>4, <1>5

\* The orders of a day without a restart together cost at most the leveraged
\* equity they were sized from.  The cash in memory is bounded by CommitInv
\* and accounts for them as long as their day lasts (DayInv); once it is over
\* no order is added to it.
THEOREM CommitmentBounded == Spec => []NeverOverCommitted
<1>1. Init => NeverOverCommitted
  BY DEF Init, NeverOverCommitted, Uninterrupted
<1>2. /\ TypeOK /\ CapInv /\ CommitInv /\ NeverOverCommitted
      /\ TypeOK' /\ CapInv' /\ DayInv' /\ CommitInv'
      /\ [Next]_vars
      => NeverOverCommitted'
  <2> SUFFICES ASSUME TypeOK, CapInv, CommitInv, NeverOverCommitted,
                      TypeOK', CapInv', DayInv', CommitInv', [Next]_vars
               PROVE  NeverOverCommitted'
    OBVIOUS
  <2>1. ASSUME NEW s \in Signals, AcceptSignal(s) PROVE NeverOverCommitted'
    BY <2>1, AcceptStaysWithin
  <2>2. ASSUME UNCHANGED orders, interrupted \subseteq interrupted'
        PROVE  NeverOverCommitted'
    BY <2>2 DEF NeverOverCommitted, Uninterrupted, OrdersOn, Notionals
  <2>3. ASSUME NEW s \in Signals, SkipSignal(s) \/ LoseSignal(s)
        PROVE  UNCHANGED <<orders, interrupted>>
    BY <2>3 DEF SkipSignal, LoseSignal, BeginDay
  <2>4. ASSUME NEW e \in Equities, RecordEquity(e)
        PROVE  UNCHANGED <<orders, interrupted>>
    BY <2>4 DEF RecordEquity
  <2>5. Restart \/ UNCHANGED vars
            => UNCHANGED orders /\ interrupted \subseteq interrupted'
    BY DEF Restart, vars
  <2> QED BY <2>1, <2>2, <2>3, <2>4, <2>5 DEF Next
<1> QED BY <1>1, <1>2, TypeCorrect, CapInvHolds, DayInvHolds, CommitInvHolds,
           PTL DEF Spec

\* Whatever mix of signals a day brings, its orders together risk at most
\* MaxTradesPerDay times the per-trade share of the one equity they are all
\* sized from.
THEOREM DayRiskIsBounded == Spec => []DayRiskBounded
<1>1. TypeOK /\ CapInv /\ DayInv /\ OrderRiskWithinBudget => DayRiskBounded
  <2> SUFFICES ASSUME TypeOK, CapInv, DayInv, OrderRiskWithinBudget,
                      NEW o \in Uninterrupted
               PROVE  /\ \A q \in OrdersOn(o.day) : q.equity = o.equity
                      /\ 100 * SumFunctionOnSet(Risks, OrdersOn(o.day))
                            <= MaxTradesPerDay * RiskPct * o.equity
    BY DEF DayRiskBounded
  <2> DEFINE day   == OrdersOn(o.day)
             sum   == SumFunctionOnSet(Risks, day)
             share == RiskPct * o.equity
             b     == share \div 100
             n     == Cardinality(day)
  <2>1. \A q \in day : q.equity = o.equity /\ q \in orders
    BY DEF DayInv, OneEquityPerDay, OrdersOn
  <2>2. /\ o \in orders /\ o.equity \in Int /\ o.day \in Nat \ interrupted
        /\ MaxTradesPerDay \in Nat /\ RiskPct \in Nat
    BY RiskAssumption DEF Uninterrupted, TypeOK
  <2>3. share \in Int
    BY <2>2, ProductInt
  <2>4. \A q \in day : Risks[q] = q.risk /\ q.risk \in Nat
    BY <2>1 DEF Risks, TypeOK
  <2>5. b \in Int /\ 100 * b <= share
    <3> HIDE DEF share
    <3> QED BY <2>3
  <2>6. \A q \in day : q.risk <= b
    <3> SUFFICES ASSUME NEW q \in day PROVE q.risk <= b
      OBVIOUS
    <3>1. 100 * q.risk <= share /\ q.risk \in Nat
      BY <2>1, <2>4 DEF OrderRiskWithinBudget
    <3> HIDE DEF share
    <3> QED BY <2>3, <3>1
  <2>7. IsFiniteSet(day) /\ n \in Nat /\ n <= MaxTradesPerDay
    BY <2>2, DayIsFinite DEF CapInv, OneDaysCapKept
  <2>8. sum <= n * b /\ sum \in Int
    <3>1. \A q \in day : Risks[q] \in Int /\ Risks[q] <= b
      BY <2>4, <2>6
    <3> HIDE DEF b, day
    <3> QED BY <2>5, <2>7, <3>1, SumBounded, SumInt
  <2>9. b >= 0
    <3>1. o \in day
      BY <2>2 DEF OrdersOn
    <3> HIDE DEF b
    <3> QED BY <2>4, <2>5, <2>6, <3>1
  <2> HIDE DEF share, b, n, sum, day
  <2>10. n * b <= MaxTradesPerDay * b
    BY <2>2, <2>5, <2>7, <2>9
  <2>11. MaxTradesPerDay * (100 * b) <= MaxTradesPerDay * share
    BY <2>2, <2>3, <2>5
  <2>12. /\ MaxTradesPerDay * RiskPct * o.equity = MaxTradesPerDay * share
         /\ MaxTradesPerDay * (100 * b) = 100 * (MaxTradesPerDay * b)
         /\ n * b \in Int /\ MaxTradesPerDay * b \in Int
         /\ MaxTradesPerDay * share \in Int
    BY <2>2, <2>3, <2>5, <2>7 DEF share
  <2>13. 100 * sum <= MaxTradesPerDay * share
    <3> DEFINE mb == MaxTradesPerDay * b
               ms == MaxTradesPerDay * share
               nb == n * b
    <3>1. /\ mb \in Int /\ ms \in Int /\ nb \in Int
          /\ sum <= nb /\ nb <= mb /\ 100 * mb <= ms
      BY <2>8, <2>10, <2>11, <2>12
    <3> HIDE DEF mb, ms, nb
    <3>2. 100 * sum <= ms
      BY <2>8, <3>1
    <3> QED BY <3>2 DEF ms
  <2> QED BY <2>1, <2>12, <2>13 DEF sum, day
<1> QED BY <1>1, TypeCorrect, CapInvHolds, DayInvHolds, OrderRiskBounded, PTL

=============================================================================
