------------------------- MODULE ExecutionEngineProofs -------------------------
(***************************************************************************)
(* Proofs about ExecutionEngine and the Dashboard on its tables, for every *)
(* set of symbols, orders and candles, any number of sessions and crashes, *)
(* and any interleaving of the two tasks.                                  *)
(***************************************************************************)
EXTENDS Dashboard, PlanProofs

-----------------------------------------------------------------------------
(* The inductive invariant.                                                *)

\* The candles the feed publishes, and the messages on the candle channel.
FeedCandles == {CandleAt(t, shape) : t \in 0 .. LastSlot, shape \in CandleShapes}
Messages    == [key : Keys, candle : FeedCandles]

Statuses == {"OPEN", "CLOSED", "SKIPPED"}

ShapeInv ==
    /\ realized \in Int
    /\ orderQ \in Seq(Orders)
    /\ candleQ \in Seq(Messages)
    /\ up \in BOOLEAN
    /\ crashes \in 0 .. MaxCrashes
    /\ feed \in [Keys -> -1 .. LastSlot]
    /\ sent \subseteq Orders
    /\ orderRows \subseteq {o.id : o \in sent}
    /\ \A r \in tradeRows : r.order_id \in orderRows /\ r.status \in Statuses
    /\ snapshots \in Seq(Int)

\* The plans are those of published orders, each at most once.
OnePlanPerOrder ==
    /\ \A k \in DOMAIN plans : plans[k].order \in sent
    /\ \A k, l \in DOMAIN plans :
            plans[k].order.id = plans[l].order.id => k = l

\* An order in the queue is there once, has no plan yet and no row.
QueuedOnce ==
    /\ \A i \in DOMAIN orderQ : /\ orderQ[i] \in sent
                                 /\ orderQ[i].id \notin orderRows
    /\ \A i, j \in DOMAIN orderQ : orderQ[i] = orderQ[j] => i = j
    /\ \A i \in DOMAIN orderQ, k \in DOMAIN plans : plans[k].order # orderQ[i]

\* The queued candles of a key are in the order they were published in.
CandlesInOrder ==
    /\ \A i \in DOMAIN candleQ :
            candleQ[i].candle.time <= feed[candleQ[i].key]
    /\ \A i, j \in DOMAIN candleQ :
            i < j /\ candleQ[i].key = candleQ[j].key
                => candleQ[i].candle.time < candleQ[j].candle.time

\* A position was entered on a candle that is no longer in the queue.
EnteredBeforeQueue ==
    \A k \in DOMAIN plans : plans[k].state # "PENDING" =>
        /\ 0 <= plans[k].entry_time
        /\ plans[k].entry_time <= feed[plans[k].order.symbol]
        /\ \A i \in DOMAIN candleQ :
              candleQ[i].key = plans[k].order.symbol
                 => candleQ[i].candle.time > plans[k].entry_time

\* A row tells of a plan nothing that the plan contradicts, and all of it when
\* the row is final.
RowFits(r, p) ==
    /\ r.status # "OPEN" => r = ToTrade(p)
    /\ r.entry_time # NoPrice =>
          p.entry_time = r.entry_time /\ p.entry_price = r.entry_price

RowsFit ==
    \A k \in DOMAIN plans, r \in tradeRows :
        r.order_id = plans[k].order.id => RowFits(r, plans[k])

ExecInv ==
    /\ ShapeInv
    /\ GoodPlans(plans, Orders)
    /\ OnePlanPerOrder
    /\ QueuedOnce
    /\ CandlesInOrder
    /\ EnteredBeforeQueue
    /\ RowsFit

-----------------------------------------------------------------------------
(* Facts about the feed, the queues and the tables.                        *)

\* The bounds of the feed are integers.
LEMMA SlotsAreInt == LastSlot \in Int /\ LastSlot >= -1
<1>1. NumDays \in Nat /\ SlotsPerDay \in Nat
  BY ExecutionAssumption, PlanAssumption
<1>2. \A a, b \in Nat : a * b \in Nat
  OBVIOUS
<1>3. NumDays * SlotsPerDay \in Nat
  BY <1>1, <1>2
<1> DEFINE slots == NumDays * SlotsPerDay
<1>4. slots \in Nat /\ LastSlot = slots - 1
  BY <1>3 DEF LastSlot
<1> HIDE DEF slots
<1> QED BY <1>4

\* The feed's candles are candles the broker can receive.
LEMMA FeedIsGood ==
    ASSUME NEW c \in FeedCandles
    PROVE  IsCandle(c) /\ c.time \in Int
<1>1. PICK t \in 0 .. LastSlot, shape \in CandleShapes : c = CandleAt(t, shape)
  BY DEF FeedCandles
<1>2. t \in Nat /\ IsShape(shape)
  BY SlotsAreInt, ExecutionAssumption
<1> QED BY <1>1, <1>2 DEF CandleAt, IsCandle, IsShape

\* What is taken off a queue is its first element; the others move up.
LEMMA TakenOff ==
    ASSUME NEW S, NEW q \in Seq(S), q # <<>>
    PROVE  /\ 1 \in DOMAIN q /\ Head(q) = q[1] /\ Head(q) \in S
           /\ Tail(q) \in Seq(S)
           /\ DOMAIN q \subseteq Nat /\ DOMAIN Tail(q) \subseteq Nat
           /\ \A i \in DOMAIN Tail(q) :
                 i + 1 \in DOMAIN q /\ Tail(q)[i] = q[i + 1] /\ i + 1 > 1
<1>1. /\ Len(q) \in Nat /\ Len(q) # 0 /\ DOMAIN q = 1 .. Len(q)
      /\ \A i \in 1 .. Len(q) : q[i] \in S
  BY EmptySeq, LenProperties, ElementOfSeq
<1>2. /\ Head(q) \in S /\ Tail(q) \in Seq(S)
      /\ Head(q) = q[1]
      /\ Len(Tail(q)) = Len(q) - 1
      /\ \A i \in 1 .. Len(Tail(q)) : Tail(q)[i] = q[i + 1]
  BY HeadTailProperties
<1>3. DOMAIN Tail(q) = 1 .. Len(q) - 1
  BY <1>2, LenProperties
<1> QED BY <1>1, <1>2, <1>3

\* d is the queue q with the message e behind the others.
Gains(q, d, e) ==
    /\ DOMAIN d = DOMAIN q \cup {Len(q) + 1}
    /\ \A i \in DOMAIN q : d[i] = q[i] /\ i < Len(q) + 1
    /\ d[Len(q) + 1] = e
    /\ DOMAIN d \subseteq Nat

\* What is delivered comes last, or nowhere.
LEMMA DeliveredLast ==
    ASSUME NEW S, NEW q \in Seq(S), NEW e \in S
    PROVE  LET d == Delivered(q, e)
           IN  /\ d \in Seq(S)
               /\ d = q \/ Gains(q, d, e)
<1>1. Len(q) \in Nat /\ DOMAIN q = 1 .. Len(q)
  BY LenProperties
<1>2. /\ Append(q, e) \in Seq(S)
      /\ DOMAIN Append(q, e) = 1 .. Len(q) + 1
      /\ \A i \in 1 .. Len(q) : Append(q, e)[i] = q[i]
      /\ Append(q, e)[Len(q) + 1] = e
  BY <1>1, AppendProperties
<1>3. 1 .. Len(q) + 1 = (1 .. Len(q)) \cup {Len(q) + 1}
  BY <1>1
<1>4. \A i \in 1 .. Len(q) : i < Len(q) + 1
  BY <1>1
<1> DEFINE d == Delivered(q, e)
<1>5. d = q \/ d = Append(q, e)
  BY DEF Delivered
<1>6. DOMAIN Append(q, e) \subseteq Nat
  BY <1>1, <1>2
<1> HIDE DEF d
<1>7. CASE d = Append(q, e)
  BY <1>1, <1>2, <1>3, <1>4, <1>6, <1>7 DEF d, Gains
<1> QED BY <1>5, <1>7 DEF d

\* An upsert changes the row of its trade only, and succeeds when writes do.
LEMMA UpsertFacts ==
    ASSUME NEW refs, NEW trade, NEW rows \in TradeUpserts(refs, trade)
    PROVE  /\ \/ rows = tradeRows
              \/ /\ trade.order_id \in refs
                 /\ rows = RowWithout(tradeRows, trade.order_id) \cup {trade}
           /\ ~WritesFail /\ trade.order_id \in refs
                 => rows = RowWithout(tradeRows, trade.order_id) \cup {trade}
  BY DEF TradeUpserts, Written

\* A trade carries its order's id and one of the three statuses.
LEMMA TradeFields ==
    ASSUME NEW p
    PROVE  /\ ToTrade(p).order_id = p.order.id
           /\ ToTrade(p).status = TradeStatus(p)
           /\ ToTrade(p).status \in Statuses
           /\ ToTrade(p).entry_time = p.entry_time
           /\ ToTrade(p).entry_price = p.entry_price
           /\ ToTrade(p).net_pnl = p.net_pnl
           /\ RowFits(ToTrade(p), p)
  BY DEF ToTrade, TradeStatus, Statuses, RowFits

\* The symbol of a plan's order is a key of the feed.
LEMMA PlanKeys ==
    ASSUME ExecInv, NEW k \in DOMAIN plans
    PROVE  /\ GoodPlan(plans[k], Orders)
           /\ plans[k].order \in Orders
           /\ plans[k].order.symbol \in Keys
           /\ feed[plans[k].order.symbol] \in Int
           /\ plans[k].state # "PENDING" => plans[k].entry_time \in Int
<1>1. plans[k].order \in Orders
  BY DEF ExecInv, OnePlanPerOrder, ShapeInv
<1>2. plans[k].order.symbol \in Keys
  BY <1>1, ExecutionAssumption DEF Keys
<1>3. feed[plans[k].order.symbol] \in Int
  BY <1>2, SlotsAreInt DEF ExecInv, ShapeInv
<1>4. GoodPlan(plans[k], Orders)
  BY DEF ExecInv, GoodPlans
<1>5. plans[k].state # "PENDING" => plans[k].entry_time \in Int
  BY <1>4 DEF GoodPlan, PlansFor, PlanInv, PlanCoherent, Amounts
<1> QED BY <1>1, <1>2, <1>3, <1>4, <1>5

-----------------------------------------------------------------------------
(* Every step keeps the invariant.                                         *)

\* A process that has seen nothing satisfies it.
LEMMA InitInv == Init => ExecInv
<1> SUFFICES ASSUME Init PROVE ExecInv
  OBVIOUS
<1>1. /\ plans = <<>> /\ orderQ = <<>> /\ candleQ = <<>> /\ snapshots = <<>>
      /\ realized = 0 /\ up = TRUE /\ crashes = 0
      /\ sent = {} /\ orderRows = {} /\ tradeRows = {}
  BY DEF Init
<1>2. feed \in [Keys -> -1 .. LastSlot]
  BY SlotsAreInt DEF Init
<1>3. 0 \in 0 .. MaxCrashes
  BY ExecutionAssumption
<1>4. ShapeInv
  BY <1>1, <1>2, <1>3 DEF ShapeInv
<1>5. GoodPlans(plans, Orders)
  BY <1>1 DEF GoodPlans
<1> QED BY <1>1, <1>4, <1>5
        DEF ExecInv, OnePlanPerOrder, QueuedOnce, CandlesInOrder,
            EnteredBeforeQueue, RowsFit

\* A candle that is published is later than all of its key, queued or entered.
LEMMA PublishCandleInv ==
    ASSUME ExecInv, NEW k \in Keys, NEW shape \in CandleShapes,
           PublishCandle(k, shape)
    PROVE  ExecInv'
<1> DEFINE m == [key |-> k, candle |-> CandleAt(feed[k] + 1, shape)]
<1>1. /\ feed[k] < LastSlot
      /\ feed' = [feed EXCEPT ![k] = feed[k] + 1]
      /\ candleQ' = Delivered(candleQ, m)
      /\ plans' = plans /\ realized' = realized /\ orderQ' = orderQ /\ up' = up
      /\ crashes' = crashes /\ sent' = sent /\ orderRows' = orderRows
      /\ tradeRows' = tradeRows /\ snapshots' = snapshots
  BY DEF PublishCandle, memory, tables
<1>2. /\ feed \in [Keys -> -1 .. LastSlot] /\ feed[k] \in Int /\ LastSlot \in Int
      /\ feed[k] + 1 \in 0 .. LastSlot
  BY <1>1, SlotsAreInt DEF ExecInv, ShapeInv
<1>3. m \in Messages /\ m.key = k /\ m.candle.time = feed[k] + 1
  BY <1>2 DEF Messages, FeedCandles, CandleAt
<1> HIDE DEF m
<1>4. /\ candleQ' \in Seq(Messages)
      /\ candleQ' = candleQ \/ Gains(candleQ, candleQ', m)
  <2>1. candleQ \in Seq(Messages)
    BY DEF ExecInv, ShapeInv
  <2>2. LET d == Delivered(candleQ, m)
        IN  d \in Seq(Messages) /\ (d = candleQ \/ Gains(candleQ, d, m))
    BY <1>3, <2>1, DeliveredLast
  <2> QED BY <1>1, <2>2
<1>5. /\ feed' \in [Keys -> -1 .. LastSlot]
      /\ feed'[k] = feed[k] + 1
      /\ \A key \in Keys : key # k => feed'[key] = feed[key]
  BY <1>1, <1>2
<1>6. \A i \in DOMAIN candleQ :
         /\ candleQ[i].key \in Keys
         /\ candleQ[i].candle.time \in Int /\ feed[candleQ[i].key] \in Int
         /\ candleQ[i].candle.time <= feed[candleQ[i].key]
  <2> SUFFICES ASSUME NEW i \in DOMAIN candleQ
               PROVE  /\ candleQ[i].key \in Keys
                      /\ candleQ[i].candle.time \in Int
                      /\ feed[candleQ[i].key] \in Int
                      /\ candleQ[i].candle.time <= feed[candleQ[i].key]
    OBVIOUS
  <2>1. candleQ[i] \in Messages
    BY ElementOfSeq, LenProperties DEF ExecInv, ShapeInv
  <2>2. candleQ[i].key \in Keys /\ candleQ[i].candle \in FeedCandles
    BY <2>1 DEF Messages
  <2> QED BY <1>2, <2>2, FeedIsGood, SlotsAreInt
          DEF ExecInv, CandlesInOrder
<1>7. ASSUME NEW i \in DOMAIN candleQ
      PROVE  /\ candleQ[i].candle.time <= feed'[candleQ[i].key]
             /\ candleQ[i].key = k => candleQ[i].candle.time < m.candle.time
  BY <1>2, <1>3, <1>5, <1>6
<1>8. CandlesInOrder'
  <2>1. CASE candleQ' = candleQ
    BY <1>7, <2>1 DEF ExecInv, CandlesInOrder
  <2>2. CASE Gains(candleQ, candleQ', m)
    <3>1. \A i \in DOMAIN candleQ' :
             candleQ'[i].candle.time <= feed'[candleQ'[i].key]
      BY <1>2, <1>3, <1>5, <1>7, <2>2 DEF Gains
    <3>2. ASSUME NEW i \in DOMAIN candleQ', NEW j \in DOMAIN candleQ', i < j,
                 candleQ'[i].key = candleQ'[j].key
          PROVE  candleQ'[i].candle.time < candleQ'[j].candle.time
      <4>1. i \in Nat /\ j \in Nat
        BY <2>2 DEF Gains
      <4>2. i \in DOMAIN candleQ
        BY <2>2, <3>2, <4>1 DEF Gains
      <4>3. CASE j \in DOMAIN candleQ
        BY <2>2, <3>2, <4>2, <4>3 DEF Gains, ExecInv, CandlesInOrder
      <4>4. CASE j = Len(candleQ) + 1
        BY <1>3, <1>7, <2>2, <3>2, <4>2, <4>4 DEF Gains
      <4> QED BY <2>2, <4>3, <4>4 DEF Gains
    <3> QED BY <3>1, <3>2 DEF CandlesInOrder
  <2> QED BY <1>4, <2>1, <2>2
<1>9. EnteredBeforeQueue'
  <2> SUFFICES ASSUME NEW n \in DOMAIN plans, plans[n].state # "PENDING"
               PROVE  /\ 0 <= plans[n].entry_time
                      /\ plans[n].entry_time <= feed'[plans[n].order.symbol]
                      /\ \A i \in DOMAIN candleQ' :
                            candleQ'[i].key = plans[n].order.symbol
                               => candleQ'[i].candle.time > plans[n].entry_time
    BY <1>1 DEF EnteredBeforeQueue
  <2> DEFINE s == plans[n].order.symbol
             entered == plans[n].entry_time
  <2>1. s \in Keys /\ feed[s] \in Int /\ entered \in Int
    BY PlanKeys
  <2>2. /\ 0 <= entered /\ entered <= feed[s]
        /\ \A i \in DOMAIN candleQ : candleQ[i].key = s
              => candleQ[i].candle.time > entered
    BY DEF ExecInv, EnteredBeforeQueue
  <2> HIDE DEF s, entered
  <2>3. entered <= feed'[s]
    BY <1>5, <2>1, <2>2
  <2>4. k = s => m.candle.time > entered
    BY <1>3, <2>1, <2>2
  <2>5. \A i \in DOMAIN candleQ' : candleQ'[i].key = s
            => candleQ'[i].candle.time > entered
    BY <1>3, <1>4, <2>2, <2>4 DEF Gains
  <2> QED BY <2>2, <2>3, <2>5 DEF s, entered
<1>10. ShapeInv'
  BY <1>1, <1>4, <1>5 DEF ExecInv, ShapeInv
<1>11. GoodPlans(plans, Orders)' /\ OnePlanPerOrder' /\ QueuedOnce' /\ RowsFit'
  BY <1>1 DEF ExecInv, OnePlanPerOrder, QueuedOnce, RowsFit
<1> QED BY <1>8, <1>9, <1>10, <1>11 DEF ExecInv

\* An order that is published was not: it has no plan, no row, and is not in
\* the queue yet.
LEMMA PublishOrderInv ==
    ASSUME ExecInv, NEW o \in Orders, PublishOrder(o)
    PROVE  ExecInv'
<1>1. /\ o \notin sent /\ sent' = sent \cup {o}
      /\ orderQ' = Delivered(orderQ, o)
      /\ plans' = plans /\ realized' = realized /\ candleQ' = candleQ /\ up' = up
      /\ crashes' = crashes /\ feed' = feed /\ orderRows' = orderRows
      /\ tradeRows' = tradeRows /\ snapshots' = snapshots
  BY DEF PublishOrder, memory, tables
<1>2. orderQ' \in Seq(Orders) /\ (orderQ' = orderQ \/ Gains(orderQ, orderQ', o))
  <2>1. orderQ \in Seq(Orders)
    BY DEF ExecInv, ShapeInv
  <2>2. LET d == Delivered(orderQ, o)
        IN  d \in Seq(Orders) /\ (d = orderQ \/ Gains(orderQ, d, o))
    BY <2>1, DeliveredLast
  <2> QED BY <1>1, <2>2
<1>3. \A q \in sent : q.id # o.id
  BY <1>1, ExecutionAssumption DEF ExecInv, ShapeInv
<1>4. o.id \notin orderRows
  BY <1>3 DEF ExecInv, ShapeInv
<1>5. /\ \A i \in DOMAIN orderQ : orderQ[i] # o
      /\ \A k \in DOMAIN plans : plans[k].order # o
  BY <1>1 DEF ExecInv, QueuedOnce, OnePlanPerOrder
<1>6. QueuedOnce'
  <2>1. CASE orderQ' = orderQ
    BY <1>1, <2>1 DEF ExecInv, QueuedOnce
  <2>2. CASE Gains(orderQ, orderQ', o)
    <3>1. \A i \in DOMAIN orderQ' :
             orderQ'[i] \in sent' /\ orderQ'[i].id \notin orderRows'
      BY <1>1, <1>4, <2>2 DEF Gains, ExecInv, QueuedOnce
    <3>2. \A i, j \in DOMAIN orderQ' : orderQ'[i] = orderQ'[j] => i = j
      BY <1>5, <2>2 DEF Gains, ExecInv, QueuedOnce
    <3>3. \A i \in DOMAIN orderQ', k \in DOMAIN plans' :
             plans'[k].order # orderQ'[i]
      BY <1>1, <1>5, <2>2 DEF Gains, ExecInv, QueuedOnce
    <3> QED BY <3>1, <3>2, <3>3 DEF QueuedOnce
  <2> QED BY <1>2, <2>1, <2>2
<1>7. ShapeInv'
  BY <1>1, <1>2 DEF ExecInv, ShapeInv
<1>8. OnePlanPerOrder'
  BY <1>1 DEF ExecInv, OnePlanPerOrder
<1>9. CandlesInOrder' /\ EnteredBeforeQueue' /\ RowsFit' /\ GoodPlans(plans, Orders)'
  BY <1>1 DEF ExecInv, CandlesInOrder, EnteredBeforeQueue, RowsFit
<1> QED BY <1>6, <1>7, <1>8, <1>9 DEF ExecInv

\* The task of the orders gives the next order its plan, its order row and
\* its trade row, as far as the writes succeed.
LEMMA ConsumeOrderFacts ==
    ASSUME ExecInv, ConsumeOrder
    PROVE  LET o == Head(orderQ)
               n == NewPlan(o)
           IN  /\ o \in Orders /\ o \in sent /\ o.id \notin orderRows
               /\ \A k \in DOMAIN plans : plans[k].order # o
               /\ n.order = o /\ n.state = "PENDING" /\ n.entry_time = NoPrice
               /\ GoodPlans(plans', Orders)
               /\ GainsPlan(plans, plans', n)
               /\ orderRows' \in {orderRows, orderRows \cup {o.id}}
               /\ ~WritesFail => orderRows' = orderRows \cup {o.id}
               /\ \/ tradeRows' = tradeRows
                  \/ /\ o.id \in orderRows'
                     /\ tradeRows' = tradeRows \cup {ToTrade(n)}
               /\ ~WritesFail => tradeRows' = tradeRows \cup {ToTrade(n)}
               /\ \A r \in tradeRows : r.order_id # o.id
<1> DEFINE o == Head(orderQ)
           n == NewPlan(o)
           row == ToTrade(n)
<1>1. /\ 1 \in DOMAIN orderQ /\ o = orderQ[1] /\ o \in Orders
  <2>1. orderQ \in Seq(Orders) /\ orderQ # <<>>
    BY DEF ExecInv, ShapeInv, ConsumeOrder
  <2> QED BY <2>1, TakenOff
<1>2. /\ o \in sent /\ o.id \notin orderRows
      /\ \A k \in DOMAIN plans : plans[k].order # o
  BY <1>1 DEF ExecInv, QueuedOnce
<1>3. /\ plans' = PlansWith(plans, o)
      /\ orderRows' \in OrderUpserts(o.id)
      /\ tradeRows' \in TradeUpserts(orderRows', row)
  BY DEF ConsumeOrder
<1>4. n.order = o /\ n.state = "PENDING" /\ n.entry_time = NoPrice
  BY DEF NewPlan
<1> HIDE DEF o
<1>5. GoodPlans(plans', Orders) /\ GainsPlan(plans, plans', n)
  <2>1. IsOrder(o)
    BY <1>1, ExecutionAssumption
  <2> QED BY <1>1, <1>3, <2>1, PlansWithFacts DEF ExecInv
<1> HIDE DEF n
<1>6. row.order_id = o.id
  BY <1>4, TradeFields
<1> HIDE DEF row
<1>7. /\ orderRows' \in {orderRows, orderRows \cup {o.id}}
      /\ ~WritesFail => orderRows' = orderRows \cup {o.id}
  BY <1>3 DEF OrderUpserts, Written
<1>8. \A r \in tradeRows : r.order_id # o.id
  BY <1>2 DEF ExecInv, ShapeInv
<1>9. RowWithout(tradeRows, o.id) = tradeRows
  BY <1>8 DEF RowWithout
<1>10. /\ \/ tradeRows' = tradeRows
          \/ o.id \in orderRows' /\ tradeRows' = tradeRows \cup {row}
       /\ ~WritesFail => tradeRows' = tradeRows \cup {row}
  BY <1>3, <1>6, <1>7, <1>9, UpsertFacts
<1> QED BY <1>1, <1>2, <1>4, <1>5, <1>7, <1>8, <1>10 DEF o, n, row

LEMMA ConsumeOrderInv ==
    ASSUME ExecInv, ConsumeOrder
    PROVE  ExecInv'
<1> DEFINE o == Head(orderQ)
           n == NewPlan(o)
<1>1. /\ o \in Orders /\ o \in sent /\ o.id \notin orderRows
      /\ \A k \in DOMAIN plans : plans[k].order # o
      /\ n.order = o /\ n.state = "PENDING" /\ n.entry_time = NoPrice
      /\ GoodPlans(plans', Orders)
      /\ GainsPlan(plans, plans', n)
      /\ orderRows' \in {orderRows, orderRows \cup {o.id}}
      /\ \/ tradeRows' = tradeRows
         \/ o.id \in orderRows' /\ tradeRows' = tradeRows \cup {ToTrade(n)}
      /\ \A r \in tradeRows : r.order_id # o.id
  BY ConsumeOrderFacts
<1>2. /\ orderQ' = Tail(orderQ) /\ orderQ # <<>>
      /\ realized' = realized /\ candleQ' = candleQ /\ up' = up
      /\ crashes' = crashes /\ feed' = feed /\ sent' = sent
      /\ snapshots' = snapshots
  BY DEF ConsumeOrder, bus
<1>3. orderQ \in Seq(Orders)
  BY DEF ExecInv, ShapeInv
<1>4. /\ 1 \in DOMAIN orderQ /\ o = orderQ[1]
      /\ orderQ' \in Seq(Orders)
      /\ DOMAIN orderQ \subseteq Nat /\ DOMAIN orderQ' \subseteq Nat
      /\ \A i \in DOMAIN orderQ' :
            i + 1 \in DOMAIN orderQ /\ orderQ'[i] = orderQ[i + 1] /\ i + 1 > 1
  BY <1>2, <1>3, TakenOff
<1>5. ToTrade(n).order_id = o.id /\ ToTrade(n).status \in Statuses
      /\ RowFits(ToTrade(n), n)
  BY <1>1, TradeFields
<1> HIDE DEF o, n
<1>6. \A q \in sent : q.id = o.id => q = o
  BY <1>1, ExecutionAssumption DEF ExecInv, ShapeInv
<1>7. ShapeInv'
  <2>1. orderRows' \subseteq {q.id : q \in sent}
    BY <1>1 DEF ExecInv, ShapeInv
  <2>2. \A r \in tradeRows' : r.order_id \in orderRows' /\ r.status \in Statuses
    BY <1>1, <1>5 DEF ExecInv, ShapeInv
  <2> QED BY <1>2, <1>4, <2>1, <2>2 DEF ExecInv, ShapeInv
<1>8. OnePlanPerOrder'
  <2>1. \A k \in DOMAIN plans : plans[k].order.id # o.id
    BY <1>1, <1>6 DEF ExecInv, OnePlanPerOrder
  <2>2. \A k \in DOMAIN plans' : plans'[k].order \in sent
    BY <1>1 DEF ExecInv, OnePlanPerOrder, GainsPlan
  <2>3. \A k, l \in DOMAIN plans' :
            plans'[k].order.id = plans'[l].order.id => k = l
    BY <1>1, <2>1 DEF ExecInv, OnePlanPerOrder, GainsPlan
  <2> QED BY <1>2, <2>2, <2>3 DEF OnePlanPerOrder
<1>9. QueuedOnce'
  <2>1. \A i \in DOMAIN orderQ' : orderQ'[i] # o
    BY <1>4 DEF ExecInv, QueuedOnce
  <2>2. \A i \in DOMAIN orderQ' :
            orderQ'[i] \in sent /\ orderQ'[i].id \notin orderRows'
    BY <1>1, <1>4, <1>6, <2>1 DEF ExecInv, QueuedOnce
  <2>3. \A i, j \in DOMAIN orderQ' : orderQ'[i] = orderQ'[j] => i = j
    <3> SUFFICES ASSUME NEW i \in DOMAIN orderQ', NEW j \in DOMAIN orderQ',
                        orderQ'[i] = orderQ'[j]
                 PROVE  i = j
      OBVIOUS
    <3>1. i + 1 = j + 1
      BY <1>4 DEF ExecInv, QueuedOnce
    <3> QED BY <1>4, <3>1
  <2>4. \A i \in DOMAIN orderQ', k \in DOMAIN plans' :
            plans'[k].order # orderQ'[i]
    BY <1>1, <1>4, <2>1 DEF ExecInv, QueuedOnce, GainsPlan
  <2> QED BY <1>2, <2>2, <2>3, <2>4 DEF QueuedOnce
<1>10. EnteredBeforeQueue'
  BY <1>1, <1>2 DEF ExecInv, EnteredBeforeQueue, GainsPlan
<1>11. RowsFit'
  <2> SUFFICES ASSUME NEW k \in DOMAIN plans', NEW r \in tradeRows',
                      r.order_id = plans'[k].order.id
               PROVE  RowFits(r, plans'[k])
    BY DEF RowsFit
  <2>1. CASE k \in DOMAIN plans /\ r \in tradeRows
    BY <1>1, <2>1 DEF ExecInv, RowsFit, GainsPlan
  <2>2. CASE k = Len(plans) + 1 /\ r = ToTrade(n)
    BY <1>1, <1>5, <2>2 DEF GainsPlan
  <2>3. ~(k = Len(plans) + 1 /\ r \in tradeRows)
    BY <1>1 DEF GainsPlan
  <2>4. ~(k \in DOMAIN plans /\ r = ToTrade(n))
    BY <1>1, <1>5, <1>6 DEF ExecInv, OnePlanPerOrder, GainsPlan
  <2> QED BY <1>1, <2>1, <2>2, <2>3, <2>4 DEF GainsPlan
<1>12. CandlesInOrder'
  BY <1>2 DEF ExecInv, CandlesInOrder
<1> QED BY <1>1, <1>7, <1>8, <1>9, <1>10, <1>11, <1>12 DEF ExecInv

\* The candle at the head of the queue comes after every entry of its key.
LEMMA HeadCandle ==
    ASSUME ExecInv, candleQ # <<>>
    PROVE  LET m == Head(candleQ)
           IN  /\ m \in Messages /\ m.key \in Keys
               /\ IsCandle(m.candle) /\ m.candle.time \in Int
               /\ m.candle.time <= feed[m.key]
               /\ EnteredBefore(plans, m.key, m.candle)
               /\ NotBefore(plans, m.key, m.candle)
               /\ candleQ' = Tail(candleQ) =>
                     /\ candleQ' \in Seq(Messages)
                     /\ DOMAIN candleQ' \subseteq Nat
                     /\ \A i \in DOMAIN candleQ' :
                           /\ i + 1 \in DOMAIN candleQ
                           /\ candleQ'[i] = candleQ[i + 1]
                           /\ candleQ'[i].key = m.key
                                => candleQ'[i].candle.time > m.candle.time
<1> DEFINE m == Head(candleQ)
<1>1. candleQ \in Seq(Messages)
  BY DEF ExecInv, ShapeInv
<1>2. /\ 1 \in DOMAIN candleQ /\ m = candleQ[1] /\ m \in Messages
      /\ Tail(candleQ) \in Seq(Messages)
      /\ DOMAIN Tail(candleQ) \subseteq Nat
      /\ DOMAIN candleQ \subseteq Nat
      /\ \A i \in DOMAIN Tail(candleQ) :
            /\ i + 1 \in DOMAIN candleQ /\ i + 1 > 1
            /\ Tail(candleQ)[i] = candleQ[i + 1]
  BY <1>1, TakenOff
<1>3. /\ m.key \in Keys /\ m.candle \in FeedCandles
  BY <1>2 DEF Messages
<1>4. IsCandle(m.candle) /\ m.candle.time \in Int
  BY <1>3, FeedIsGood
<1>5. m.candle.time <= feed[m.key]
  BY <1>2 DEF ExecInv, CandlesInOrder
<1> HIDE DEF m
<1>6. ASSUME NEW k \in DOMAIN plans, plans[k].order.symbol = m.key,
             plans[k].state = "OPEN"
      PROVE  m.candle.time > plans[k].entry_time /\ plans[k].entry_time \in Int
  BY <1>2, <1>6, PlanKeys DEF ExecInv, EnteredBeforeQueue
<1>7. EnteredBefore(plans, m.key, m.candle)
  BY <1>6 DEF EnteredBefore
<1>8. NotBefore(plans, m.key, m.candle)
  <2> SUFFICES ASSUME NEW k \in DOMAIN plans, plans[k].order.symbol = m.key,
                      plans[k].state = "OPEN"
               PROVE  m.candle.time >= plans[k].entry_time
    BY DEF NotBefore
  <2>1. m.candle.time > plans[k].entry_time /\ plans[k].entry_time \in Int
    BY <1>6
  <2> QED BY <1>4, <2>1
<1>9. ASSUME NEW i \in DOMAIN Tail(candleQ), Tail(candleQ)[i].key = m.key
      PROVE  Tail(candleQ)[i].candle.time > m.candle.time
  <2>1. m.candle.time < candleQ[i + 1].candle.time
    BY <1>2, <1>9 DEF ExecInv, CandlesInOrder
  <2>2. candleQ[i + 1].candle.time \in Int
    <3>1. candleQ[i + 1] \in Messages
      BY <1>1, <1>2, ElementOfSeq, LenProperties
    <3> QED BY <3>1, FeedIsGood DEF Messages
  <2> QED BY <1>2, <1>4, <2>1, <2>2
<1> QED BY <1>2, <1>3, <1>4, <1>5, <1>7, <1>8, <1>9 DEF m

\* What a reader knows of a plan is not taken back: a final plan stays as it
\* is, an entry stays, and a new one is on the candle.
MovesOn(p, q, m) ==
    /\ q.order = p.order
    /\ ~IsLive(p) => q = p
    /\ p.state # "PENDING" =>
          /\ q.state # "PENDING"
          /\ q.entry_time = p.entry_time
          /\ q.entry_price = p.entry_price
    /\ p.state = "PENDING" /\ q.state # "PENDING" =>
          p.order.symbol = m.key /\ q.entry_time = m.candle.time

\* No plan has changed, to a reader, and nothing is written.
Quiet ==
    /\ \A k \in DOMAIN plans : LooksAsBefore(plans, plans', k)
    /\ realized' = realized /\ tradeRows' = tradeRows /\ snapshots' = snapshots

\* The one plan that has changed is settled.
SettlesOne(f) ==
    /\ f \in DOMAIN plans /\ IsLive(plans[f])
    /\ ReportedStep(plans[f], plans'[f])
    /\ Settle(ToTrade(plans'[f]))
    /\ \A k \in DOMAIN plans \ {f} : LooksAsBefore(plans, plans', k)

\* The task of the candles leaves the orders' side alone; the plans move on,
\* and what has changed is settled.
LEMMA ConsumeCandleFacts ==
    ASSUME ExecInv, ConsumeCandle
    PROVE  LET m == Head(candleQ)
           IN  /\ GoodPlans(plans', Orders)
               /\ DOMAIN plans' = DOMAIN plans
               /\ \A k \in DOMAIN plans : MovesOn(plans[k], plans'[k], m)
               /\ Quiet \/ \E f \in DOMAIN plans : SettlesOne(f)
               /\ candleQ' = Tail(candleQ) /\ candleQ # <<>>
               /\ orderQ' = orderQ /\ up' = up /\ crashes' = crashes
               /\ feed' = feed /\ sent' = sent /\ orderRows' = orderRows
<1> DEFINE m == Head(candleQ)
           c == m.candle
<1>1. /\ candleQ' = Tail(candleQ) /\ candleQ # <<>>
      /\ orderQ' = orderQ /\ up' = up /\ crashes' = crashes
      /\ feed' = feed /\ sent' = sent /\ orderRows' = orderRows
  BY DEF ConsumeCandle, bus
<1>2. /\ IsCandle(c) /\ c.time \in Int
      /\ EnteredBefore(plans, m.key, c) /\ NotBefore(plans, m.key, c)
  BY <1>1, HeadCandle
<1>3. GoodPlans(plans, Orders)
  BY DEF ExecInv
<1>4. CASE m.key \notin Symbols
  <2>1. /\ plans' = plans /\ realized' = realized
        /\ tradeRows' = tradeRows /\ snapshots' = snapshots
    BY <1>4 DEF ConsumeCandle, memory
  <2>2. Quiet
    BY <2>1 DEF Quiet, LooksAsBefore
  <2>3. \A k \in DOMAIN plans : MovesOn(plans[k], plans'[k], m)
    BY <2>1 DEF MovesOn
  <2> QED BY <1>1, <1>3, <2>1, <2>2, <2>3
<1>5. CASE m.key \in Symbols
  <2> DEFINE trade == TradeAfter(plans, m.key, c)
  <2>1. /\ plans' = PlansAfter(plans, m.key, c)
        /\ IF trade # <<>> THEN Settle(Head(trade))
           ELSE UNCHANGED <<realized, tradeRows, snapshots>>
    BY <1>5 DEF ConsumeCandle
  <2> HIDE DEF trade, m
  <2>2. /\ GoodPlans(plans', Orders) /\ DOMAIN plans' = DOMAIN plans
        /\ \A k \in DOMAIN plans :
              \/ plans'[k] = plans[k]
              \/ k \in LiveOn(plans, m.key) /\ plans'[k] = Advance(plans[k], c)
    BY <1>2, <1>3, <2>1, PlansAfterFacts
  <2>3. ASSUME NEW k \in DOMAIN plans
        PROVE  MovesOn(plans[k], plans'[k], m)
    <3>1. CASE plans'[k] = plans[k]
      BY <3>1 DEF MovesOn
    <3>2. CASE k \in LiveOn(plans, m.key) /\ plans'[k] = Advance(plans[k], c)
      <4> DEFINE p == plans[k]
                 r == plans'[k]
      <4>1. /\ p.order.symbol = m.key /\ IsLive(p) /\ GoodPlan(p, Orders)
            /\ p.state = "OPEN" => c.time >= p.entry_time
        BY <1>2, <1>3, <3>2 DEF LiveOn, GoodPlans, NotBefore
      <4>2. r = Advance(p, c)
        BY <3>2
      <4> HIDE DEF p, r
      <4>3. /\ GoodPlan(r, Orders) /\ r.order = p.order
            /\ r.state # "PENDING" =>
                  r.entry_time = c.time \/ r.entry_time = p.entry_time
            /\ p.state = "OPEN" =>
                  /\ r.state # "PENDING"
                  /\ r.entry_time = p.entry_time
                  /\ r.entry_price = p.entry_price
        BY <1>2, <4>1, <4>2, AdvanceFacts
      <4>4. /\ p.state \in {"PENDING", "OPEN"}
            /\ p.state = "PENDING" => p.entry_time = NoPrice
        BY <4>1 DEF GoodPlan, PlansFor, PlanStates, IsLive, IsTerminal,
                    PlanInv, PlanCoherent
      <4>5. r.state # "PENDING" => r.entry_time # NoPrice
        BY <4>3 DEF GoodPlan, PlanInv, PlanCoherent
      <4>6. MovesOn(p, r, m)
        BY <4>1, <4>3, <4>4, <4>5 DEF MovesOn
      <4> QED BY <4>6 DEF p, r
    <3> QED BY <2>2, <3>1, <3>2
  <2>4. \/ /\ trade = <<>>
           /\ \A k \in DOMAIN plans : LooksAsBefore(plans, plans', k)
        \/ \E f \in LiveOn(plans, m.key) :
              /\ trade = <<ToTrade(plans'[f])>>
              /\ ReportedStep(plans[f], plans'[f])
              /\ \A k \in DOMAIN plans \ {f} : LooksAsBefore(plans, plans', k)
    BY <1>2, <1>3, <2>1, OneReport DEF trade
  <2>5. Quiet \/ \E f \in DOMAIN plans : SettlesOne(f)
    <3>1. CASE /\ trade = <<>>
               /\ \A k \in DOMAIN plans : LooksAsBefore(plans, plans', k)
      BY <2>1, <3>1 DEF Quiet
    <3>2. ASSUME NEW f \in LiveOn(plans, m.key),
                 trade = <<ToTrade(plans'[f])>>,
                 ReportedStep(plans[f], plans'[f]),
                 \A k \in DOMAIN plans \ {f} : LooksAsBefore(plans, plans', k)
          PROVE  \E g \in DOMAIN plans : SettlesOne(g)
      <4> DEFINE row == ToTrade(plans'[f])
      <4>1. f \in DOMAIN plans /\ IsLive(plans[f])
        BY DEF LiveOn
      <4>2. Settle(Head(trade))
        <5> HIDE DEF row
        <5> QED BY <2>1, <3>2 DEF row
      <4>3. Settle(row)
        BY <3>2, <4>2
      <4> QED BY <3>2, <4>1, <4>3 DEF SettlesOne
    <3> QED BY <2>4, <3>1, <3>2
  <2> QED BY <1>1, <2>2, <2>3, <2>5 DEF m
<1> QED BY <1>4, <1>5

\* What a settled trade does to the tables and the ledger.
LEMMA SettleFacts ==
    ASSUME ExecInv, ConsumeCandle, NEW f, SettlesOne(f)
    PROVE  LET p   == plans'[f]
               row == ToTrade(p)
           IN  /\ GoodPlan(p, Orders) /\ p.order = plans[f].order
               /\ row.order_id = p.order.id
               /\ row.status = TradeStatus(p) /\ row.status \in Statuses
               /\ p.state = "CLOSED" <=> row.status = "CLOSED"
               /\ row.net_pnl = p.net_pnl
               /\ \/ tradeRows' = tradeRows
                  \/ /\ row.order_id \in orderRows
                     /\ tradeRows' = RowWithout(tradeRows, row.order_id) \cup {row}
               /\ ~WritesFail /\ row.order_id \in orderRows =>
                     tradeRows' = RowWithout(tradeRows, row.order_id) \cup {row}
               /\ p.state = "CLOSED" =>
                     /\ p.net_pnl \in Int
                     /\ realized' = realized + p.net_pnl /\ realized' \in Int
                     /\ snapshots' \in {snapshots,
                                        Append(snapshots, Equity(realized'))}
                     /\ ~WritesFail =>
                           snapshots' = Append(snapshots, Equity(realized'))
               /\ p.state # "CLOSED" =>
                     realized' = realized /\ snapshots' = snapshots
<1> DEFINE p   == plans'[f]
           row == ToTrade(p)
<1>1. f \in DOMAIN plans /\ Settle(row)
  BY DEF SettlesOne
<1>2. GoodPlan(p, Orders) /\ p.order = plans[f].order
  BY <1>1, ConsumeCandleFacts DEF GoodPlans, MovesOn
<1> HIDE DEF p
<1>3. /\ row.order_id = p.order.id
      /\ row.status = TradeStatus(p) /\ row.status \in Statuses
      /\ row.net_pnl = p.net_pnl
  BY TradeFields
<1>4. p.state = "CLOSED" <=> row.status = "CLOSED"
  BY <1>3 DEF TradeStatus
<1> HIDE DEF row
<1>5. /\ tradeRows' \in TradeUpserts(orderRows, row)
      /\ row.status = "CLOSED" =>
            /\ realized' = realized + row.net_pnl
            /\ snapshots' \in SnapshotInserts(Equity(realized'))
      /\ row.status # "CLOSED" => realized' = realized /\ snapshots' = snapshots
  BY <1>1 DEF Settle
<1>6. /\ \/ tradeRows' = tradeRows
         \/ /\ row.order_id \in orderRows
            /\ tradeRows' = RowWithout(tradeRows, row.order_id) \cup {row}
      /\ ~WritesFail /\ row.order_id \in orderRows =>
            tradeRows' = RowWithout(tradeRows, row.order_id) \cup {row}
  BY <1>5, UpsertFacts
<1>7. p.state = "CLOSED" =>
         /\ p.net_pnl \in Int
         /\ realized' = realized + p.net_pnl /\ realized' \in Int
         /\ snapshots' \in {snapshots, Append(snapshots, Equity(realized'))}
         /\ ~WritesFail => snapshots' = Append(snapshots, Equity(realized'))
  <2> SUFFICES ASSUME p.state = "CLOSED"
               PROVE  /\ p.net_pnl \in Int
                      /\ realized' = realized + p.net_pnl /\ realized' \in Int
                      /\ snapshots' \in {snapshots,
                                         Append(snapshots, Equity(realized'))}
                      /\ ~WritesFail =>
                            snapshots' = Append(snapshots, Equity(realized'))
    OBVIOUS
  <2>1. p.net_pnl \in Int
    BY <1>2 DEF GoodPlan, PlanInv
  <2>2. realized \in Int
    BY DEF ExecInv, ShapeInv
  <2>3. realized' = realized + p.net_pnl
    BY <1>3, <1>4, <1>5
  <2> QED BY <1>4, <1>5, <2>1, <2>2, <2>3 DEF SnapshotInserts, Written
<1>8. p.state # "CLOSED" => realized' = realized /\ snapshots' = snapshots
  BY <1>4, <1>5
<1> QED BY <1>2, <1>3, <1>4, <1>6, <1>7, <1>8 DEF p, row

LEMMA ConsumeCandleInv ==
    ASSUME ExecInv, ConsumeCandle
    PROVE  ExecInv'
<1> DEFINE m == Head(candleQ)
<1>1. /\ GoodPlans(plans', Orders)
      /\ DOMAIN plans' = DOMAIN plans
      /\ \A k \in DOMAIN plans : MovesOn(plans[k], plans'[k], m)
      /\ Quiet \/ \E f \in DOMAIN plans : SettlesOne(f)
      /\ candleQ' = Tail(candleQ) /\ candleQ # <<>>
      /\ orderQ' = orderQ /\ up' = up /\ crashes' = crashes
      /\ feed' = feed /\ sent' = sent /\ orderRows' = orderRows
  BY ConsumeCandleFacts
<1>2. /\ m \in Messages /\ m.candle.time \in Nat
      /\ m.candle.time <= feed[m.key]
      /\ candleQ' \in Seq(Messages) /\ DOMAIN candleQ' \subseteq Nat
      /\ \A i \in DOMAIN candleQ' :
            /\ i + 1 \in DOMAIN candleQ
            /\ candleQ'[i] = candleQ[i + 1]
            /\ candleQ'[i].key = m.key
                 => candleQ'[i].candle.time > m.candle.time
  BY <1>1, HeadCandle DEF IsCandle
<1> HIDE DEF m
<1>3. \A k \in DOMAIN plans : plans'[k].order = plans[k].order
  BY <1>1 DEF MovesOn
<1>4. ASSUME NEW r \in tradeRows'
      PROVE  \/ r \in tradeRows
             \/ \E f \in DOMAIN plans :
                   /\ r = ToTrade(plans'[f])
                   /\ r.order_id \in orderRows /\ r.status \in Statuses
                   /\ r.order_id = plans'[f].order.id
  <2>1. CASE Quiet
    BY <2>1 DEF Quiet
  <2>2. CASE \E f \in DOMAIN plans : SettlesOne(f)
    <3>1. PICK f \in DOMAIN plans : SettlesOne(f)
      BY <2>2
    <3> DEFINE row == ToTrade(plans'[f])
    <3>2. /\ row.order_id = plans'[f].order.id /\ row.status \in Statuses
          /\ \/ tradeRows' = tradeRows
             \/ /\ row.order_id \in orderRows
                /\ tradeRows' = RowWithout(tradeRows, row.order_id) \cup {row}
      BY <3>1, SettleFacts
    <3> HIDE DEF row
    <3>3. r \in tradeRows \/ (r = row /\ row.order_id \in orderRows)
      BY <3>2 DEF RowWithout
    <3> QED BY <3>2, <3>3 DEF row
  <2> QED BY <1>1, <2>1, <2>2
<1>5. ShapeInv'
  <2>1. \A r \in tradeRows' : r.order_id \in orderRows' /\ r.status \in Statuses
    BY <1>1, <1>4 DEF ExecInv, ShapeInv
  <2>2. realized' \in Int /\ snapshots' \in Seq(Int)
    <3>1. realized \in Int /\ snapshots \in Seq(Int)
      BY DEF ExecInv, ShapeInv
    <3>2. CASE Quiet
      BY <3>1, <3>2 DEF Quiet
    <3>3. ASSUME NEW f, SettlesOne(f)
          PROVE  realized' \in Int /\ snapshots' \in Seq(Int)
      <4>1. CASE plans'[f].state = "CLOSED"
        <5>1. /\ realized' \in Int
              /\ snapshots' \in {snapshots, Append(snapshots, Equity(realized'))}
          BY <3>3, <4>1, SettleFacts
        <5>2. Equity(realized') \in Int
          BY <5>1, ExecutionAssumption DEF Equity
        <5> QED BY <3>1, <5>1, <5>2
      <4>2. CASE plans'[f].state # "CLOSED"
        BY <3>1, <3>3, <4>2, SettleFacts
      <4> QED BY <4>1, <4>2
    <3> QED BY <1>1, <3>2, <3>3
  <2> QED BY <1>1, <1>2, <2>1, <2>2 DEF ExecInv, ShapeInv
<1>6. OnePlanPerOrder' /\ QueuedOnce'
  BY <1>1, <1>3 DEF ExecInv, OnePlanPerOrder, QueuedOnce
<1>7. CandlesInOrder'
  <2>1. \A i \in DOMAIN candleQ' :
           candleQ'[i].candle.time <= feed[candleQ'[i].key]
    BY <1>2 DEF ExecInv, CandlesInOrder
  <2>2. ASSUME NEW i \in DOMAIN candleQ', NEW j \in DOMAIN candleQ', i < j,
               candleQ'[i].key = candleQ'[j].key
        PROVE  candleQ'[i].candle.time < candleQ'[j].candle.time
    <3>1. /\ i + 1 \in DOMAIN candleQ /\ j + 1 \in DOMAIN candleQ
          /\ i + 1 < j + 1
      BY <1>2, <2>2
    <3>2. candleQ[i + 1].candle.time < candleQ[j + 1].candle.time
      BY <1>2, <2>2, <3>1 DEF ExecInv, CandlesInOrder
    <3> QED BY <1>2, <3>2
  <2> QED BY <1>1, <2>1, <2>2 DEF CandlesInOrder
<1>8. EnteredBeforeQueue'
  <2> SUFFICES ASSUME NEW k \in DOMAIN plans, plans'[k].state # "PENDING"
               PROVE  /\ 0 <= plans'[k].entry_time
                      /\ plans'[k].entry_time <= feed[plans[k].order.symbol]
                      /\ \A i \in DOMAIN candleQ' :
                            candleQ'[i].key = plans[k].order.symbol =>
                               candleQ'[i].candle.time > plans'[k].entry_time
    BY <1>1, <1>3 DEF EnteredBeforeQueue
  <2>1. CASE plans[k].state # "PENDING"
    <3>1. plans'[k].entry_time = plans[k].entry_time
      BY <1>1, <2>1 DEF MovesOn
    <3> QED BY <1>2, <2>1, <3>1 DEF ExecInv, EnteredBeforeQueue
  <2>2. CASE plans[k].state = "PENDING"
    <3>1. /\ plans[k].order.symbol = m.key
          /\ plans'[k].entry_time = m.candle.time
      BY <1>1, <2>2 DEF MovesOn
    <3> QED BY <1>2, <3>1
  <2> QED BY <2>1, <2>2
<1>9. RowsFit'
  <2> SUFFICES ASSUME NEW k \in DOMAIN plans, NEW r \in tradeRows',
                      r.order_id = plans'[k].order.id
               PROVE  RowFits(r, plans'[k])
    BY <1>1 DEF RowsFit
  <2>1. CASE r \in tradeRows
    <3>1. RowFits(r, plans[k]) /\ MovesOn(plans[k], plans'[k], m)
      BY <1>1, <1>3, <2>1 DEF ExecInv, RowsFit
    <3>2. r.status # "OPEN" => r = ToTrade(plans'[k])
      <4> SUFFICES ASSUME r.status # "OPEN" PROVE r = ToTrade(plans'[k])
        OBVIOUS
      <4>1. r = ToTrade(plans[k])
        BY <3>1 DEF RowFits
      <4>2. TradeStatus(plans[k]) # "OPEN"
        BY <4>1, TradeFields
      <4>3. ~IsLive(plans[k])
        BY <4>2 DEF TradeStatus, IsLive, IsTerminal
      <4> QED BY <3>1, <4>1, <4>3 DEF MovesOn
    <3>3. r.entry_time # NoPrice =>
             /\ plans'[k].entry_time = r.entry_time
             /\ plans'[k].entry_price = r.entry_price
      <4>1. plans[k].state = "PENDING" => plans[k].entry_time = NoPrice
        BY PlanKeys DEF GoodPlan, PlanInv, PlanCoherent
      <4> QED BY <3>1, <4>1 DEF RowFits, MovesOn
    <3> QED BY <3>2, <3>3 DEF RowFits
  <2>2. ASSUME NEW f \in DOMAIN plans, r = ToTrade(plans'[f]),
               r.order_id = plans'[f].order.id
        PROVE  RowFits(r, plans'[k])
    <3>1. k = f
      BY <1>3, <2>2 DEF ExecInv, OnePlanPerOrder
    <3> QED BY <2>2, <3>1, TradeFields
  <2> QED BY <1>4, <2>1, <2>2
<1> QED BY <1>1, <1>5, <1>6, <1>7, <1>8, <1>9 DEF ExecInv

\* A crash takes the plans and the queues, and a restart finds none.
LEMMA CrashInv ==
    ASSUME ExecInv, Crash
    PROVE  ExecInv'
<1>1. /\ plans' = <<>> /\ orderQ' = <<>> /\ candleQ' = <<>>
      /\ realized' = 0 /\ up' = FALSE /\ crashes' = crashes + 1
      /\ crashes < MaxCrashes
      /\ feed' = feed /\ sent' = sent /\ orderRows' = orderRows
      /\ tradeRows' = tradeRows /\ snapshots' = snapshots
  BY DEF Crash, bus, tables
<1>2. crashes' \in 0 .. MaxCrashes
  BY <1>1, ExecutionAssumption DEF ExecInv, ShapeInv
<1>3. ShapeInv'
  <2>1. realized' \in Int /\ orderQ' \in Seq(Orders) /\ candleQ' \in Seq(Messages)
    BY <1>1
  <2>2. up' \in BOOLEAN
    BY <1>1
  <2> QED BY <1>1, <1>2, <2>1, <2>2 DEF ExecInv, ShapeInv
<1>4. GoodPlans(plans, Orders)'
  BY <1>1 DEF GoodPlans
<1> QED BY <1>1, <1>3, <1>4
        DEF ExecInv, OnePlanPerOrder, QueuedOnce, CandlesInOrder,
            EnteredBeforeQueue, RowsFit

LEMMA RestInv ==
    ASSUME ExecInv, Restart \/ Finished \/ UNCHANGED vars
    PROVE  ExecInv'
<1>1. /\ plans' = plans /\ realized' = realized /\ orderQ' = orderQ
      /\ candleQ' = candleQ /\ up' \in BOOLEAN /\ crashes' = crashes
      /\ feed' = feed /\ sent' = sent /\ orderRows' = orderRows
      /\ tradeRows' = tradeRows /\ snapshots' = snapshots
  BY DEF Restart, Finished, vars, memory, queues, bus, tables, ExecInv, ShapeInv
<1> QED BY <1>1
        DEF ExecInv, ShapeInv, OnePlanPerOrder, QueuedOnce, CandlesInOrder,
            EnteredBeforeQueue, RowsFit

LEMMA StepInv == ExecInv /\ [Next]_vars => ExecInv'
<1> SUFFICES ASSUME ExecInv, [Next]_vars PROVE ExecInv'
  OBVIOUS
<1>1. CASE \E k \in Keys, shape \in CandleShapes : PublishCandle(k, shape)
  BY <1>1, PublishCandleInv
<1>2. CASE \E o \in Orders : PublishOrder(o)
  BY <1>2, PublishOrderInv
<1>3. CASE ConsumeOrder
  BY <1>3, ConsumeOrderInv
<1>4. CASE ConsumeCandle
  BY <1>4, ConsumeCandleInv
<1>5. CASE Crash
  BY <1>5, CrashInv
<1>6. CASE Restart \/ Finished \/ UNCHANGED vars
  BY <1>6, RestInv
<1> QED BY <1>1, <1>2, <1>3, <1>4, <1>5, <1>6 DEF Next

LEMMA InvHolds == Spec => []ExecInv
  BY InitInv, StepInv, PTL DEF Spec

-----------------------------------------------------------------------------
(* What follows for every reachable state and every step.                  *)

\* The process keeps its types: plans of orders it was sent, queues of
\* published messages, and trade rows that belong to order rows.
LEMMA TypeFollows == ExecInv => TypeOK
<1> SUFFICES ASSUME ExecInv PROVE TypeOK
  OBVIOUS
<1>1. plans \in Seq(PlansFor(Orders))
  BY DEF ExecInv, GoodPlans
<1>2. ASSUME NEW i \in DOMAIN candleQ
      PROVE  /\ candleQ[i].key \in Keys
             /\ candleQ[i].candle.time \in 0 .. feed[candleQ[i].key]
  <2>1. candleQ[i] \in Messages
    BY ElementOfSeq, LenProperties DEF ExecInv, ShapeInv
  <2>2. candleQ[i].key \in Keys /\ candleQ[i].candle \in FeedCandles
    BY <2>1 DEF Messages
  <2>3. candleQ[i].candle.time \in Nat
    BY <2>2, FeedIsGood DEF IsCandle
  <2>4. candleQ[i].candle.time <= feed[candleQ[i].key]
    BY DEF ExecInv, CandlesInOrder
  <2>5. feed[candleQ[i].key] \in Int
    BY <2>2, SlotsAreInt DEF ExecInv, ShapeInv
  <2> QED BY <2>2, <2>3, <2>4, <2>5
<1>3. {r.order_id : r \in tradeRows} \subseteq orderRows
  BY DEF ExecInv, ShapeInv
<1> QED BY <1>1, <1>2, <1>3 DEF TypeOK, ExecInv, ShapeInv

\* A live plan's rows leave its entry as it is when its trade is upserted.
LEMMA RowsContinue ==
    ASSUME ExecInv, [Next]_vars, NEW r \in tradeRows
    PROVE  \E q \in tradeRows' : Continues(q, r)
<1>1. Continues(r, r)
  BY DEF Continues
<1>2. CASE ConsumeOrder
  <2>1. r \in tradeRows'
    BY <1>2, ConsumeOrderFacts
  <2> QED BY <1>1, <2>1
<1>3. CASE ConsumeCandle
  <2>1. CASE r \in tradeRows'
    BY <1>1, <2>1
  <2>2. CASE r \notin tradeRows'
    <3>1. ~Quiet
      BY <2>2 DEF Quiet
    <3>2. PICK f \in DOMAIN plans : SettlesOne(f)
      BY <1>3, <3>1, ConsumeCandleFacts
    <3> DEFINE p == plans[f]
               q == plans'[f]
               row == ToTrade(q)
    <3>3. MovesOn(p, q, Head(candleQ)) /\ IsLive(p)
      BY <1>3, <3>2, ConsumeCandleFacts DEF SettlesOne
    <3>4. /\ row.order_id = p.order.id
          /\ \/ tradeRows' = tradeRows
             \/ tradeRows' = RowWithout(tradeRows, row.order_id) \cup {row}
      BY <1>3, <3>2, SettleFacts
    <3>5. /\ row.entry_time = q.entry_time
          /\ row.entry_price = q.entry_price
      <4> HIDE DEF q
      <4> QED BY TradeFields
    <3>6. GoodPlan(p, Orders)
      BY PlanKeys
    <3> HIDE DEF row
    <3>7. r.order_id = row.order_id /\ row \in tradeRows'
      BY <2>2, <3>4 DEF RowWithout
    <3>8. RowFits(r, p)
      BY <3>4, <3>7 DEF ExecInv, RowsFit
    <3> HIDE DEF p, q
    <3>9. r.status = "OPEN"
      <4>1. TradeStatus(p) = "OPEN"
        BY <3>3 DEF IsLive, IsTerminal, TradeStatus
      <4> QED BY <3>8, <4>1, TradeFields DEF RowFits
    <3>10. r.entry_time # NoPrice =>
             row.entry_time = r.entry_time /\ row.entry_price = r.entry_price
      <4> SUFFICES ASSUME r.entry_time # NoPrice
                   PROVE  /\ row.entry_time = r.entry_time
                          /\ row.entry_price = r.entry_price
        OBVIOUS
      <4>1. p.state # "PENDING"
        BY <3>6, <3>8 DEF RowFits, GoodPlan, PlanInv, PlanCoherent
      <4> QED BY <3>3, <3>5, <3>8, <4>1 DEF RowFits, MovesOn
    <3> QED BY <3>7, <3>9, <3>10 DEF Continues
  <2> QED BY <2>1, <2>2
<1>4. CASE tradeRows' = tradeRows
  BY <1>1, <1>4
<1>5. ConsumeOrder \/ ConsumeCandle \/ tradeRows' = tradeRows
  BY DEF Next, PublishCandle, PublishOrder, Crash, Restart, Finished, vars, tables
<1> QED BY <1>2, <1>3, <1>4, <1>5

\* The rows of the broker's orders are never more final than its plans.
LEMMA RowsNeverLead == ExecInv => TablesNeverLead
<1> SUFFICES ASSUME ExecInv, NEW i \in DOMAIN plans, NEW r \in tradeRows,
                    r.order_id = plans[i].order.id
             PROVE  /\ Rank(r.status) <= Rank(TradeStatus(plans[i]))
                    /\ r.status # "OPEN" => r = ToTrade(plans[i])
  BY DEF TablesNeverLead
<1>1. RowFits(r, plans[i]) /\ r.status \in Statuses
  BY DEF ExecInv, RowsFit, ShapeInv
<1>2. TradeStatus(plans[i]) \in Statuses
  BY DEF TradeStatus, Statuses
<1>3. CASE r.status = "OPEN"
  <2>1. Rank(r.status) = 0
    BY <1>3 DEF Rank
  <2>2. Rank(TradeStatus(plans[i])) \in {0, 1}
    <3>1. \A status \in Statuses : Rank(status) \in {0, 1}
      BY DEF Rank, Statuses
    <3> QED BY <1>2, <3>1
  <2> QED BY <1>3, <2>1, <2>2
<1>4. CASE r.status # "OPEN"
  <2>1. r = ToTrade(plans[i])
    BY <1>1, <1>4 DEF RowFits
  <2>2. r.status = TradeStatus(plans[i])
    BY <2>1, TradeFields
  <2>3. Rank(r.status) \in Int
    BY <1>1 DEF Rank, Statuses
  <2> QED BY <2>1, <2>2, <2>3
<1> QED BY <1>3, <1>4

(* The process keeps its types (TypeOK): the broker's plans are those of   *)
(* orders sent on the channel, no candle is queued before it was           *)
(* published, and a trade row belongs to an order row.                     *)
THEOREM TypesHold == Spec => []TypeOK
  BY InvHolds, TypeFollows, PTL

(* Whatever the interleaving of the two tasks, the writes that fail and    *)
(* the crashes, an entry shown in the trades table is never taken back,    *)
(* and a closed or skipped row is never changed or removed.                *)
THEOREM RowsAreNotTakenBack == Spec => RowsOnlyMoveForward
<1>1. ExecInv /\ [Next]_vars
        => [\A r \in tradeRows : \E q \in tradeRows' : Continues(q, r)]_vars
  BY RowsContinue
<1> QED BY <1>1, InvHolds, PTL DEF Spec, RowsOnlyMoveForward

(* With writes that may fail, the trades table may fall behind the broker, *)
(* but never runs ahead of it.                                             *)
THEOREM TablesDoNotLead == Spec => []TablesNeverLead
  BY InvHolds, RowsNeverLead, PTL

-----------------------------------------------------------------------------
(* The ledger.                                                             *)

\* A closed plan has a result, and there are finitely many.
LEMMA ClosedFacts ==
    ASSUME ExecInv
    PROVE  /\ IsFiniteSet(DOMAIN plans) /\ IsFiniteSet(ClosedPlans)
           /\ \A k \in ClosedPlans :
                 k \in DOMAIN plans /\ Nets[k] = plans[k].net_pnl /\ Nets[k] \in Int
<1>1. Len(plans) \in Nat /\ DOMAIN plans = 1 .. Len(plans)
  BY LenProperties DEF ExecInv, GoodPlans
<1>2. IsFiniteSet(DOMAIN plans)
  BY <1>1, FS_Interval
<1>3. ClosedPlans \in SUBSET DOMAIN plans
  BY DEF ClosedPlans
<1>4. IsFiniteSet(ClosedPlans)
  BY <1>2, <1>3, FS_Subset
<1>5. \A k \in ClosedPlans : plans[k].net_pnl \in Int
  BY DEF ClosedPlans, ExecInv, GoodPlans, GoodPlan, PlanInv
<1> QED BY <1>2, <1>3, <1>4, <1>5 DEF Nets

\* A step that leaves the closed plans and their results alone keeps the sum.
LEMMA SameSum ==
    ASSUME ExecInv, ClosedPlans' = ClosedPlans,
           \A k \in ClosedPlans :
              k \in DOMAIN plans' /\ plans'[k].net_pnl = plans[k].net_pnl
    PROVE  SumFunctionOnSet(Nets', ClosedPlans') = SumFunctionOnSet(Nets, ClosedPlans)
<1>1. \A k \in ClosedPlans : Nets'[k] = Nets[k]
  BY ClosedFacts DEF Nets
<1>2. IsFiniteSet(ClosedPlans)
  BY ClosedFacts
<1>3. SumFunctionOnSet(Nets', ClosedPlans) = SumFunctionOnSet(Nets, ClosedPlans)
  BY <1>1, <1>2, SumCongruent
<1> QED BY <1>3

\* A settled trade that closes adds its plan to the closed ones; any other
\* leaves them as they are.
LEMMA ClosedPlansMove ==
    ASSUME ExecInv, ConsumeCandle
    PROVE  /\ \A k \in ClosedPlans :
                 k \in DOMAIN plans' /\ plans'[k].net_pnl = plans[k].net_pnl
           /\ Quiet => ClosedPlans' = ClosedPlans
           /\ \A f \in DOMAIN plans : SettlesOne(f) =>
                 IF plans'[f].state = "CLOSED"
                 THEN /\ f \notin ClosedPlans
                      /\ ClosedPlans' = ClosedPlans \cup {f}
                 ELSE ClosedPlans' = ClosedPlans
<1>1. DOMAIN plans' = DOMAIN plans
  BY ConsumeCandleFacts
<1>2. ASSUME NEW k \in ClosedPlans
      PROVE  k \in DOMAIN plans' /\ plans'[k] = plans[k]
  <2>1. k \in DOMAIN plans /\ ~IsLive(plans[k])
    BY DEF ClosedPlans, IsLive, IsTerminal
  <2> QED BY <1>1, <2>1, ConsumeCandleFacts DEF MovesOn
<1>3. ASSUME Quiet
      PROVE  ClosedPlans' = ClosedPlans
  BY <1>1, <1>3 DEF Quiet, LooksAsBefore, ClosedPlans
<1>4. ASSUME NEW f \in DOMAIN plans, SettlesOne(f)
      PROVE  IF plans'[f].state = "CLOSED"
             THEN f \notin ClosedPlans /\ ClosedPlans' = ClosedPlans \cup {f}
             ELSE ClosedPlans' = ClosedPlans
  <2>1. \A k \in DOMAIN plans \ {f} : plans'[k].state = plans[k].state
    BY <1>4 DEF SettlesOne, LooksAsBefore
  <2>2. plans[f].state # "CLOSED"
    BY <1>4 DEF SettlesOne, IsLive, IsTerminal
  <2> QED BY <1>1, <2>1, <2>2 DEF ClosedPlans
<1> QED BY <1>2, <1>3, <1>4

\* One step of the process keeps the ledger at the sum of the closes.
LEMMA LedgerStep ==
    ASSUME ExecInv, LedgerIsSumOfCloses, [Next]_vars
    PROVE  LedgerIsSumOfCloses'
<1>1. realized = SumFunctionOnSet(Nets, ClosedPlans)
  BY DEF LedgerIsSumOfCloses
<1> SUFFICES realized' = SumFunctionOnSet(Nets', ClosedPlans')
  BY DEF LedgerIsSumOfCloses
<1>2. CASE ConsumeOrder
  <2> DEFINE n == NewPlan(Head(orderQ))
  <2>1. /\ n.state = "PENDING" /\ GainsPlan(plans, plans', n)
    BY <1>2, ConsumeOrderFacts
  <2> HIDE DEF n
  <2>2. ClosedPlans' = ClosedPlans
    BY <2>1 DEF GainsPlan, ClosedPlans
  <2>3. \A k \in ClosedPlans :
           k \in DOMAIN plans' /\ plans'[k].net_pnl = plans[k].net_pnl
    BY <2>1 DEF GainsPlan, ClosedPlans
  <2>4. realized' = realized
    BY <1>2 DEF ConsumeOrder
  <2> QED BY <1>1, <2>2, <2>3, <2>4, SameSum
<1>3. CASE ConsumeCandle
  <2>1. \A k \in ClosedPlans :
           k \in DOMAIN plans' /\ plans'[k].net_pnl = plans[k].net_pnl
    BY <1>3, ClosedPlansMove
  <2>2. CASE ClosedPlans' = ClosedPlans /\ realized' = realized
    BY <1>1, <2>1, <2>2, SameSum
  <2>3. CASE Quiet
    <3>1. ClosedPlans' = ClosedPlans /\ realized' = realized
      BY <1>3, <2>3, ClosedPlansMove DEF Quiet
    <3> QED BY <2>2, <3>1
  <2>4. ASSUME NEW f \in DOMAIN plans, SettlesOne(f)
        PROVE  realized' = SumFunctionOnSet(Nets', ClosedPlans')
    <3>1. CASE plans'[f].state # "CLOSED"
      <4>1. ClosedPlans' = ClosedPlans
        BY <1>3, <2>4, <3>1, ClosedPlansMove
      <4>2. realized' = realized
        BY <1>3, <2>4, <3>1, SettleFacts
      <4> QED BY <2>2, <4>1, <4>2
    <3>2. CASE plans'[f].state = "CLOSED"
      <4>1. f \notin ClosedPlans /\ ClosedPlans' = ClosedPlans \cup {f}
        BY <1>3, <2>4, <3>2, ClosedPlansMove
      <4>2. /\ realized' = realized + plans'[f].net_pnl
            /\ plans'[f].net_pnl \in Int
        BY <1>3, <2>4, <3>2, SettleFacts
      <4>3. Nets'[f] = plans'[f].net_pnl
        BY <1>3, ConsumeCandleFacts DEF Nets
      <4>4. /\ IsFiniteSet(ClosedPlans)
            /\ \A k \in ClosedPlans : Nets'[k] = Nets[k] /\ Nets[k] \in Int
        BY <2>1, ClosedFacts DEF Nets
      <4>5. \A k \in ClosedPlans \cup {f} : Nets'[k] \in Int
        BY <4>2, <4>3, <4>4
      <4> DEFINE before == SumFunctionOnSet(Nets', ClosedPlans)
      <4>6. SumFunctionOnSet(Nets', ClosedPlans \cup {f}) = before + Nets'[f]
        BY <4>1, <4>4, <4>5, SumWith
      <4>7. before = realized
        BY <1>1, <4>4, SumCongruent
      <4> HIDE DEF before
      <4> QED BY <4>1, <4>2, <4>3, <4>6, <4>7
    <3> QED BY <3>1, <3>2
  <2> QED BY <1>3, <2>3, <2>4, ConsumeCandleFacts
<1>4. CASE Crash
  <2>1. plans' = <<>> /\ realized' = 0
    BY <1>4 DEF Crash
  <2>2. ClosedPlans' = {}
    BY <2>1 DEF ClosedPlans
  <2>3. SumFunctionOnSet(Nets', {}) = 0
    BY FS_EmptySet, SumUnrolled
  <2> QED BY <2>1, <2>2, <2>3
<1>5. CASE UNCHANGED memory
  <2>1. plans' = plans /\ realized' = realized
    BY <1>5 DEF memory
  <2>2. Nets' = Nets /\ ClosedPlans' = ClosedPlans
    BY <2>1 DEF Nets, ClosedPlans
  <2> QED BY <1>1, <2>1, <2>2
<1>6. ConsumeOrder \/ ConsumeCandle \/ Crash \/ UNCHANGED memory
  BY DEF Next, PublishCandle, PublishOrder, Restart, Finished, vars
<1> QED BY <1>2, <1>3, <1>4, <1>5, <1>6

(* However orders and candles interleave, whatever writes fail and however *)
(* often the process crashes, the realised result of the ledger is the sum *)
(* of the net results of the plans the broker has closed: no close is      *)
(* booked twice and none is missed.                                        *)
THEOREM LedgerCountsEveryClose == Spec => []LedgerIsSumOfCloses
<1>1. Init => LedgerIsSumOfCloses
  <2> SUFFICES ASSUME Init PROVE LedgerIsSumOfCloses
    OBVIOUS
  <2>1. realized = 0 /\ ClosedPlans = {}
    BY DEF Init, ClosedPlans
  <2>2. SumFunctionOnSet(Nets, {}) = 0
    BY FS_EmptySet, SumUnrolled
  <2> QED BY <2>1, <2>2 DEF LedgerIsSumOfCloses
<1>2. ExecInv /\ LedgerIsSumOfCloses /\ [Next]_vars => LedgerIsSumOfCloses'
  BY LedgerStep
<1> QED BY <1>1, <1>2, InvHolds, PTL DEF Spec

-----------------------------------------------------------------------------
(* The tables, while writes succeed.                                       *)

\* One step of the process with writes that succeed keeps the tables at what
\* the broker and the ledger hold.
LEMMA MatchStep ==
    ASSUME ~WritesFail, ExecInv, TablesMatchMemory, [Next]_vars
    PROVE  TablesMatchMemory'
<1>1. ASSUME NEW k \in DOMAIN plans
      PROVE  plans[k].order.id \in orderRows /\ ToTrade(plans[k]) \in tradeRows
  BY DEF TablesMatchMemory
<1>2. ClosedPlans # {} =>
         snapshots # <<>> /\ snapshots[Len(snapshots)] = Equity(realized)
  BY DEF TablesMatchMemory
<1>3. CASE ConsumeOrder
  <2> DEFINE o == Head(orderQ)
             n == NewPlan(o)
  <2>1. /\ n.order = o /\ n.state = "PENDING"
        /\ GainsPlan(plans, plans', n)
        /\ orderRows' = orderRows \cup {o.id}
        /\ tradeRows' = tradeRows \cup {ToTrade(n)}
    BY <1>3, ConsumeOrderFacts
  <2>2. realized' = realized /\ snapshots' = snapshots
    BY <1>3 DEF ConsumeOrder
  <2> HIDE DEF n
  <2>3. ASSUME NEW k \in DOMAIN plans'
        PROVE  plans'[k].order.id \in orderRows' /\ ToTrade(plans'[k]) \in tradeRows'
    <3>1. CASE k \in DOMAIN plans
      BY <1>1, <2>1, <3>1 DEF GainsPlan
    <3>2. CASE k = Len(plans) + 1
      BY <2>1, <3>2 DEF GainsPlan
    <3> QED BY <2>1, <3>1, <3>2 DEF GainsPlan
  <2>4. ClosedPlans' = ClosedPlans
    BY <2>1 DEF GainsPlan, ClosedPlans
  <2> QED BY <1>2, <2>2, <2>3, <2>4 DEF TablesMatchMemory
<1>4. CASE ConsumeCandle
  <2>1. DOMAIN plans' = DOMAIN plans /\ orderRows' = orderRows
    BY <1>4, ConsumeCandleFacts
  <2>2. \A k \in DOMAIN plans : plans'[k].order = plans[k].order
    BY <1>4, ConsumeCandleFacts DEF MovesOn
  <2>3. CASE Quiet
    <3>1. /\ ClosedPlans' = ClosedPlans /\ realized' = realized
          /\ snapshots' = snapshots /\ tradeRows' = tradeRows
      BY <1>4, <2>3, ClosedPlansMove DEF Quiet
    <3>2. \A k \in DOMAIN plans : ToTrade(plans'[k]) = ToTrade(plans[k])
      BY <2>3 DEF Quiet, LooksAsBefore
    <3> QED BY <1>1, <1>2, <2>1, <2>2, <3>1, <3>2 DEF TablesMatchMemory
  <2>4. ASSUME NEW f \in DOMAIN plans, SettlesOne(f)
        PROVE  TablesMatchMemory'
    <3> DEFINE row == ToTrade(plans'[f])
    <3>1. /\ row.order_id = plans[f].order.id
          /\ row.order_id \in orderRows
          /\ tradeRows' = RowWithout(tradeRows, row.order_id) \cup {row}
      <4>1. row.order_id = plans[f].order.id
        BY <1>4, <2>4, SettleFacts
      <4>2. row.order_id \in orderRows
        BY <1>1, <4>1
      <4> QED BY <1>4, <2>4, <4>1, <4>2, SettleFacts
    <3> HIDE DEF row
    <3>2. ASSUME NEW k \in DOMAIN plans
          PROVE  ToTrade(plans'[k]) \in tradeRows'
      <4>1. CASE k = f
        BY <3>1, <4>1 DEF row
      <4>2. CASE k # f
        <5>1. ToTrade(plans'[k]) = ToTrade(plans[k])
          BY <2>4, <4>2 DEF SettlesOne, LooksAsBefore
        <5>2. ToTrade(plans[k]).order_id # row.order_id
          BY <3>1, <4>2, TradeFields DEF ExecInv, OnePlanPerOrder
        <5> QED BY <1>1, <3>1, <5>1, <5>2 DEF RowWithout
      <4> QED BY <4>1, <4>2
    <3>3. ClosedPlans' # {} =>
             /\ snapshots' # <<>>
             /\ snapshots'[Len(snapshots')] = Equity(realized')
      <4>1. CASE plans'[f].state # "CLOSED"
        <5>1. /\ ClosedPlans' = ClosedPlans
              /\ realized' = realized /\ snapshots' = snapshots
          BY <1>4, <2>4, <4>1, ClosedPlansMove, SettleFacts
        <5> QED BY <1>2, <5>1
      <4>2. CASE plans'[f].state = "CLOSED"
        <5>1. /\ snapshots' = Append(snapshots, Equity(realized'))
              /\ realized' \in Int
          BY <1>4, <2>4, <4>2, SettleFacts
        <5>2. snapshots \in Seq(Int) /\ Equity(realized') \in Int
          BY <5>1, ExecutionAssumption DEF ExecInv, ShapeInv, Equity
        <5> QED BY <5>1, <5>2, AppendProperties, LenProperties
      <4> QED BY <4>1, <4>2
    <3> QED BY <1>1, <2>1, <2>2, <3>2, <3>3 DEF TablesMatchMemory
  <2> QED BY <1>4, <2>3, <2>4, ConsumeCandleFacts
<1>5. CASE Crash
  BY <1>5 DEF Crash, TablesMatchMemory, ClosedPlans
<1>6. CASE UNCHANGED <<memory, tables>>
  BY <1>1, <1>2, <1>6 DEF memory, tables, TablesMatchMemory, ClosedPlans
<1>7. ConsumeOrder \/ ConsumeCandle \/ Crash \/ UNCHANGED <<memory, tables>>
  BY DEF Next, PublishCandle, PublishOrder, Restart, Finished, vars
<1> QED BY <1>3, <1>4, <1>5, <1>6, <1>7

(* While writes succeed, and through crashes, every order the broker has   *)
(* its row and the up-to-date row of its trade, and the newest snapshot is *)
(* the ledger's equity as soon as anything was closed.                     *)
THEOREM TablesFollowMemory ==
    ASSUME ~WritesFail
    PROVE  Spec => []TablesMatchMemory
<1>1. Init => TablesMatchMemory
  BY DEF Init, TablesMatchMemory, ClosedPlans
<1>2. ExecInv /\ TablesMatchMemory /\ [Next]_vars => TablesMatchMemory'
  BY MatchStep
<1> QED BY <1>1, <1>2, InvHolds, PTL DEF Spec

-----------------------------------------------------------------------------
(* The dashboard, while writes succeed and the process does not crash.     *)

\* The trades table holds the trade of every plan of the broker and no other.
OneRowPerPlan == tradeRows = {ToTrade(plans[k]) : k \in DOMAIN plans}

LEMMA RowPerPlanStep ==
    ASSUME ~WritesFail, MaxCrashes = 0, ExecInv, TablesMatchMemory,
           OneRowPerPlan, [Next]_vars
    PROVE  OneRowPerPlan'
<1>1. CASE ConsumeOrder
  <2> DEFINE n == NewPlan(Head(orderQ))
  <2>1. /\ GainsPlan(plans, plans', n)
        /\ tradeRows' = tradeRows \cup {ToTrade(n)}
    BY <1>1, ConsumeOrderFacts
  <2> HIDE DEF n
  <2> QED BY <2>1 DEF OneRowPerPlan, GainsPlan
<1>2. CASE ConsumeCandle
  <2>1. DOMAIN plans' = DOMAIN plans
    BY <1>2, ConsumeCandleFacts
  <2>2. CASE Quiet
    <3>1. /\ tradeRows' = tradeRows
          /\ \A k \in DOMAIN plans : ToTrade(plans'[k]) = ToTrade(plans[k])
      BY <2>2 DEF Quiet, LooksAsBefore
    <3> QED BY <2>1, <3>1 DEF OneRowPerPlan
  <2>3. ASSUME NEW f \in DOMAIN plans, SettlesOne(f)
        PROVE  OneRowPerPlan'
    <3> DEFINE row == ToTrade(plans'[f])
    <3>1. /\ row.order_id = plans[f].order.id
          /\ tradeRows' = RowWithout(tradeRows, row.order_id) \cup {row}
      <4>1. row.order_id = plans[f].order.id
        BY <1>2, <2>3, SettleFacts
      <4>2. row.order_id \in orderRows
        BY <4>1 DEF TablesMatchMemory
      <4> QED BY <1>2, <2>3, <4>1, <4>2, SettleFacts
    <3>2. \A k \in DOMAIN plans \ {f} :
             /\ ToTrade(plans'[k]) = ToTrade(plans[k])
             /\ ToTrade(plans[k]).order_id # row.order_id
      <4>1. \A k \in DOMAIN plans \ {f} :
               plans[k].order.id # plans[f].order.id
        BY DEF ExecInv, OnePlanPerOrder
      <4> HIDE DEF row
      <4> QED BY <2>3, <3>1, <4>1, TradeFields DEF SettlesOne, LooksAsBefore
    <3>3. ToTrade(plans[f]).order_id = row.order_id
      BY <3>1, TradeFields
    <3>4. \A r : r \in tradeRows' <=> \E k \in DOMAIN plans : r = ToTrade(plans'[k])
      <4> SUFFICES ASSUME NEW r
                   PROVE  r \in tradeRows'
                             <=> \E k \in DOMAIN plans : r = ToTrade(plans'[k])
        OBVIOUS
      <4>1. CASE r = row
        BY <3>1, <4>1
      <4>2. CASE r # row
        <5>1. r \in tradeRows' <=> r \in tradeRows /\ r.order_id # row.order_id
          <6> HIDE DEF row
          <6> QED BY <3>1, <4>2 DEF RowWithout
        <5>2. r \in tradeRows <=> \E k \in DOMAIN plans : r = ToTrade(plans[k])
          BY DEF OneRowPerPlan
        <5>3. r \in tradeRows' => \E k \in DOMAIN plans : r = ToTrade(plans'[k])
          <6> HIDE DEF row
          <6> QED BY <3>2, <3>3, <5>1, <5>2
        <5>4. (\E k \in DOMAIN plans : r = ToTrade(plans'[k])) => r \in tradeRows'
          BY <3>2, <4>2, <5>1, <5>2
        <5> QED BY <5>3, <5>4
      <4> QED BY <4>1, <4>2
    <3> QED BY <2>1, <3>4 DEF OneRowPerPlan
  <2> QED BY <1>2, <2>2, <2>3, ConsumeCandleFacts
<1>3. ~Crash
  BY DEF Crash, ExecInv, ShapeInv
<1>4. CASE UNCHANGED <<memory, tables>>
  BY <1>4 DEF memory, tables, OneRowPerPlan
<1>5. ConsumeOrder \/ ConsumeCandle \/ Crash \/ UNCHANGED <<memory, tables>>
  BY DEF Next, PublishCandle, PublishOrder, Restart, Finished, vars
<1> QED BY <1>1, <1>2, <1>3, <1>4, <1>5

\* What the dashboard's properties follow from.
DashInv == ExecInv /\ TablesMatchMemory /\ OneRowPerPlan

LEMMA DashInvHolds ==
    ASSUME ~WritesFail, MaxCrashes = 0
    PROVE  Spec => []DashInv
<1>1. Init => OneRowPerPlan
  BY DEF Init, OneRowPerPlan
<1>2. ExecInv /\ TablesMatchMemory /\ OneRowPerPlan /\ [Next]_vars
        => OneRowPerPlan'
  BY RowPerPlanStep
<1> QED BY <1>1, <1>2, InvHolds, TablesFollowMemory, PTL DEF Spec, DashInv

\* The smaller of two limits.
LEMMA MinOfTwo ==
    ASSUME NEW a \in Int, NEW b \in Int
    PROVE  Min({a, b}) = IF a <= b THEN a ELSE b
  BY DEF Min

\* Rows that fit on one page are that page.
LEMMA WholePage ==
    ASSUME NEW rows, IsFiniteSet(rows), NEW limit \in Nat,
           Cardinality(rows) <= limit
    PROVE  Pages(rows, limit) = {rows}
<1>1. Cardinality(rows) \in Nat
  BY FS_CardinalityType
<1>2. Min({limit, Cardinality(rows)}) = Cardinality(rows)
  BY <1>1, MinOfTwo
<1>3. rows \in Pages(rows, limit)
  BY <1>2 DEF Pages
<1>4. ASSUME NEW page \in Pages(rows, limit) PROVE page = rows
  <2>1. page \in SUBSET rows /\ Cardinality(page) = Cardinality(rows)
    BY <1>2 DEF Pages
  <2> QED BY <2>1, FS_Subset
<1> QED BY <1>3, <1>4

\* The rows without a filter on the date are the page.
LEMMA AnyDateKeepsAll ==
    ASSUME NEW page
    PROVE  OnDate(page, AnyDate) = page
  BY DEF OnDate

\* A set of plans has no more trades than plans.
LEMMA FewTrades ==
    ASSUME NEW S, IsFiniteSet(S)
    PROVE  LET rows == {ToTrade(plans[k]) : k \in S}
           IN  IsFiniteSet(rows) /\ Cardinality(rows) <= Cardinality(S)
<1> DEFINE rows == {ToTrade(plans[k]) : k \in S}
           trade == [k \in S |-> ToTrade(plans[k])]
<1>1. trade \in Surjection(S, rows)
  BY DEF Surjection
<1> HIDE DEF rows, trade
<1> QED BY <1>1, FS_Surjection DEF rows

\* The open positions shown are the live plans.
LEMMA PositionsAreLive ==
    ASSUME DashInv, Cardinality(LivePlans) <= TradeLimit
    PROVE  FetchPositions = {{ToTrade(plans[i]) : i \in LivePlans}}
<1> DEFINE rows == {ToTrade(plans[k]) : k \in LivePlans}
<1>1. IsFiniteSet(LivePlans)
  <2>1. LivePlans \in SUBSET DOMAIN plans
    BY DEF LivePlans
  <2> QED BY <2>1, ClosedFacts, FS_Subset DEF DashInv
<1>2. HasStatus(tradeRows, {"OPEN"}) = rows
  <2>1. \A k : ToTrade(plans[k]).status = "OPEN" <=> IsLive(plans[k])
    <3>1. \A k : ToTrade(plans[k]).status = TradeStatus(plans[k])
      BY TradeFields
    <3> QED BY <3>1 DEF TradeStatus, IsLive, IsTerminal
  <2>2. tradeRows = {ToTrade(plans[k]) : k \in DOMAIN plans}
    BY DEF DashInv, OneRowPerPlan
  <2> QED BY <2>1, <2>2 DEF HasStatus, LivePlans
<1>3. IsFiniteSet(rows) /\ Cardinality(rows) <= Cardinality(LivePlans)
  BY <1>1, FewTrades
<1>4. Cardinality(LivePlans) \in Nat /\ TradeLimit \in Nat
  BY <1>1, FS_CardinalityType, DashboardAssumption
<1> HIDE DEF rows
<1>5. Cardinality(rows) \in Nat
  BY <1>3, FS_CardinalityType
<1>6. Pages(rows, TradeLimit) = {rows}
  BY <1>3, <1>4, <1>5, WholePage
<1>7. FetchPositions = {rows}
  BY <1>2, <1>6, AnyDateKeepsAll DEF FetchPositions, FetchTrades
<1> QED BY <1>7 DEF rows

\* The equity shown is the ledger's.
LEMMA EquityIsLedgers ==
    ASSUME DashInv, ClosedPlans # {}, Len(snapshots) <= EquityLimit
    PROVE  LatestEquity = Equity(realized)
<1>1. /\ snapshots # <<>> /\ snapshots \in Seq(Int)
      /\ snapshots[Len(snapshots)] = Equity(realized)
  BY DEF DashInv, TablesMatchMemory, ExecInv, ShapeInv
<1>2. Len(snapshots) \in Nat /\ Len(snapshots) # 0
  BY <1>1, EmptySeq, LenProperties
<1>3. Min({EquityLimit, Len(snapshots)}) = Len(snapshots)
  <2>1. EquityLimit \in Int
    BY DashboardAssumption
  <2> QED BY <1>2, <2>1, MinOfTwo
<1>4. FetchEquityCurve(EquityLimit) = SubSeq(snapshots, 1, Len(snapshots))
  BY <1>3 DEF FetchEquityCurve
<1> DEFINE curve == SubSeq(snapshots, 1, Len(snapshots))
<1>5. /\ Len(curve) = Len(snapshots)
      /\ \A i \in 1 .. Len(snapshots) : curve[i] = snapshots[i]
  BY <1>1, <1>2
<1>6. curve[Len(curve)] = snapshots[Len(snapshots)]
  <2> HIDE DEF curve
  <2> QED BY <1>2, <1>5
<1> HIDE DEF curve
<1> QED BY <1>1, <1>4, <1>6 DEF LatestEquity, curve

(* While writes succeed and the process does not crash, the open positions *)
(* on the dashboard are the broker's live plans and its equity is the      *)
(* ledger's, as long as neither outgrows its limit.                        *)
THEOREM DashboardFollows ==
    ASSUME ~WritesFail, MaxCrashes = 0
    PROVE  Spec => []DashboardIsCurrent
<1>1. DashInv => DashboardIsCurrent
  BY PositionsAreLive, EquityIsLedgers DEF DashboardIsCurrent
<1> QED BY <1>1, DashInvHolds, PTL

-----------------------------------------------------------------------------
(* The page of the newest day.                                             *)

\* A later slot is of the same session or of a later one.
LEMMA QuotientsGrow ==
    ASSUME NEW n \in Nat \ {0}, NEW t \in Int, NEW u \in Int, t <= u
    PROVE  t \div n \in Int /\ u \div n \in Int /\ t \div n <= u \div n
<1> DEFINE k == t \div n
           l == u \div n
           r == t % n
           s == u % n
<1>1. /\ k \in Int /\ l \in Int
      /\ r \in Int /\ 0 <= r /\ r < n
      /\ s \in Int /\ 0 <= s /\ s < n
  OBVIOUS
<1>2. t = n * k + r /\ u = n * l + s
  OBVIOUS
<1> HIDE DEF k, l, r, s
<1>3. ~(l < k)
  <2> SUFFICES ASSUME l < k PROVE FALSE
    OBVIOUS
  <2> DEFINE e == k - (l + 1)
  <2>1. e \in Nat /\ k = l + 1 + e
    BY <1>1
  <2> HIDE DEF e
  <2>2. n * k = n * l + n + n * e /\ n * e \in Nat
    BY <1>1, <2>1
  <2>3. n * l \in Int
    BY <1>1
  <2> QED BY <1>1, <1>2, <2>2, <2>3
<1> QED BY <1>1, <1>3 DEF k, l

\* The quotient of a multiple.
LEMMA QuotientOfMultiple ==
    ASSUME NEW n \in Nat \ {0}, NEW d \in Nat
    PROVE  (n * d) \div n = d
<1> DEFINE k == (n * d) \div n
           r == (n * d) % n
<1>1. n * d \in Int
  OBVIOUS
<1>2. k \in Int /\ r \in Int /\ 0 <= r /\ r < n
  BY <1>1
<1>3. n * d = n * k + r
  <2> DEFINE t == n * d
  <2>1. t \in Int
    BY <1>1
  <2> HIDE DEF t
  <2>2. t = n * (t \div n) + (t % n)
    BY <2>1
  <2> QED BY <2>2 DEF t
<1> HIDE DEF k, r
<1> DEFINE e == d - k
<1>4. e \in Int /\ d = k + e
  BY <1>2
<1> HIDE DEF e
<1>5. n * d = n * k + n * e
  BY <1>2, <1>4
<1>6. n * k \in Int /\ n * e \in Int
  BY <1>2, <1>4
<1>7. r = n * e
  BY <1>2, <1>3, <1>5, <1>6
<1>8. ~(e >= 1)
  <2> SUFFICES ASSUME e >= 1 PROVE FALSE
    OBVIOUS
  <2> DEFINE g == e - 1
  <2>1. g \in Nat /\ e = g + 1
    BY <1>4
  <2> HIDE DEF g
  <2>2. n * e = n * g + n /\ n * g \in Nat
    BY <2>1
  <2> QED BY <1>2, <1>7, <2>2
<1>9. ~(e <= -1)
  <2> SUFFICES ASSUME e <= -1 PROVE FALSE
    OBVIOUS
  <2> DEFINE g == -1 - e
  <2>1. g \in Nat /\ e = -1 - g
    BY <1>4
  <2> HIDE DEF g
  <2>2. n * e = -n - n * g /\ n * g \in Nat
    BY <2>1
  <2> QED BY <1>2, <1>7, <2>2
<1> QED BY <1>2, <1>4, <1>8, <1>9 DEF k

\* The sessions of the feed are numbered from 0.
LEMMA DaysOfSlots ==
    ASSUME NEW t \in Int, 0 <= t, t <= LastSlot
    PROVE  DayOf(t) \in 0 .. NumDays
<1>1. SlotsPerDay \in Nat \ {0} /\ NumDays \in Nat
  BY ExecutionAssumption, PlanAssumption
<1> DEFINE slots == SlotsPerDay * NumDays
<1>2. slots \in Nat /\ LastSlot = slots - 1
  <2>1. NumDays * SlotsPerDay = SlotsPerDay * NumDays
    BY <1>1
  <2>2. slots \in Nat
    BY <1>1
  <2> HIDE DEF slots
  <2>3. NumDays * SlotsPerDay = slots
    BY <2>1 DEF slots
  <2> QED BY <2>2, <2>3 DEF LastSlot
<1>3. slots \div SlotsPerDay = NumDays
  BY <1>1, QuotientOfMultiple
<1> HIDE DEF slots
<1>4. /\ t \div SlotsPerDay \in Int
      /\ t \div SlotsPerDay <= slots \div SlotsPerDay
  BY <1>1, <1>2, QuotientsGrow
<1>5. 0 \div SlotsPerDay = 0
  <2>1. SlotsPerDay * 0 = 0
    BY <1>1
  <2>2. (SlotsPerDay * 0) \div SlotsPerDay = 0
    BY <1>1, QuotientOfMultiple
  <2> QED BY <2>1, <2>2
<1>6. 0 \div SlotsPerDay <= t \div SlotsPerDay
  BY <1>1, QuotientsGrow
<1> QED BY <1>1, <1>3, <1>4, <1>5, <1>6 DEF DayOf

\* Rows whose entry is no slot beyond the feed.
Dated(rows) ==
    \A r \in rows : r.entry_time # NoPrice =>
        r.entry_time \in Int /\ 0 <= r.entry_time /\ r.entry_time <= LastSlot

\* Some row sorts behind none of the others.
LEMMA FirstOfRows ==
    ASSUME NEW rows, Dated(rows), rows # {}
    PROVE  \E q \in rows : \A r \in rows : ~SortsBefore(r, q)
<1>1. CASE \E q \in rows : q.entry_time = NoPrice
  BY <1>1 DEF SortsBefore
<1>2. CASE \A q \in rows : q.entry_time # NoPrice
  <2> DEFINE ages == {LastSlot - q.entry_time : q \in rows}
  <2>1. ages \subseteq Nat /\ ages # {}
    BY <1>2, SlotsAreInt DEF Dated
  <2> HIDE DEF ages
  <2>2. PICK age \in ages : \A a \in ages : age <= a
    BY <2>1, MinNat
  <2>3. PICK q \in rows : age = LastSlot - q.entry_time
    BY DEF ages
  <2>4. ASSUME NEW r \in rows PROVE ~SortsBefore(r, q)
    <3>1. age <= LastSlot - r.entry_time
      BY <2>2 DEF ages
    <3>2. r.entry_time <= q.entry_time
      BY <1>2, <2>3, <3>1, SlotsAreInt DEF Dated
    <3> QED BY <1>2, <3>2 DEF SortsBefore, Dated
  <2> QED BY <2>4
<1> QED BY <1>1, <1>2

\* A page: no row that is left out sorts before one that is not.
Tops(page, rows) == \A r \in page, q \in rows \ page : ~SortsBefore(q, r)

\* There is a page of every size.
LEMMA PageOfSize ==
    ASSUME NEW rows, IsFiniteSet(rows), Dated(rows),
           NEW size \in Nat, size <= Cardinality(rows)
    PROVE  \E page \in SUBSET rows : Cardinality(page) = size /\ Tops(page, rows)
<1> DEFINE Bad == {m \in 0 .. Cardinality(rows) :
                     ~\E page \in SUBSET rows :
                          Cardinality(page) = m /\ Tops(page, rows)}
<1>1. Cardinality(rows) \in Nat
  BY FS_CardinalityType
<1>2. Bad = {}
  <2> SUFFICES ASSUME Bad # {} PROVE FALSE
    OBVIOUS
  <2>1. Bad \subseteq Nat
    BY <1>1
  <2>2. PICK m \in Bad : \A x \in Bad : m <= x
    <3> HIDE DEF Bad
    <3> QED BY <2>1, MinNat
  <2>3. m \in Nat /\ m <= Cardinality(rows)
    BY <1>1
  <2>4. m # 0
    <3>1. /\ {} \in SUBSET rows /\ Cardinality({}) = 0 /\ Tops({}, rows)
      BY FS_EmptySet DEF Tops
    <3> QED BY <3>1
  <2>5. m - 1 \notin Bad /\ m - 1 \in 0 .. Cardinality(rows)
    BY <1>1, <2>2, <2>3, <2>4
  <2>6. PICK page \in SUBSET rows :
           Cardinality(page) = m - 1 /\ Tops(page, rows)
    BY <2>5
  <2> DEFINE rest == rows \ page
  <2>7. rest # {}
    <3> SUFFICES ASSUME rest = {} PROVE FALSE
      OBVIOUS
    <3>1. page = rows
      OBVIOUS
    <3> QED BY <2>3, <2>6, <3>1
  <2>8. PICK q \in rest : \A r \in rest : ~SortsBefore(r, q)
    <3>1. Dated(rest)
      BY DEF Dated
    <3> HIDE DEF rest
    <3> QED BY <2>7, <3>1, FirstOfRows
  <2>9. Cardinality(page \cup {q}) = m
    <3>1. IsFiniteSet(page)
      BY FS_Subset
    <3>2. Cardinality(page \cup {q}) = Cardinality(page) + 1
      BY <3>1, FS_AddElement
    <3> QED BY <2>3, <2>6, <3>2
  <2>10. Tops(page \cup {q}, rows)
    BY <2>6, <2>8 DEF Tops
  <2> QED BY <2>2, <2>9, <2>10
<1> QED BY <1>1, <1>2

\* So a read is always answered.
LEMMA SomePage ==
    ASSUME NEW rows, IsFiniteSet(rows), Dated(rows), NEW limit \in Nat
    PROVE  \E page \in Pages(rows, limit) : TRUE
<1> DEFINE size == Min({limit, Cardinality(rows)})
<1>1. Cardinality(rows) \in Nat
  BY FS_CardinalityType
<1>2. size \in Nat /\ size <= Cardinality(rows)
  BY <1>1, MinOfTwo
<1>3. \E page \in SUBSET rows : Cardinality(page) = size /\ Tops(page, rows)
  <2> HIDE DEF size
  <2> QED BY <1>2, PageOfSize
<1> QED BY <1>3 DEF Pages, Tops

\* The rows of the table, their plans and their dates.
LEMMA RowsOfPlans ==
    ASSUME DashInv
    PROVE  /\ IsFiniteSet(tradeRows)
           /\ Dated(tradeRows)
           /\ \A r \in tradeRows : \E k \in DOMAIN plans :
                 /\ r = ToTrade(plans[k])
                 /\ r.entry_time = plans[k].entry_time
           /\ HasStatus(tradeRows, AnyStatus) = tradeRows
<1>1. tradeRows = {ToTrade(plans[k]) : k \in DOMAIN plans}
  BY DEF DashInv, OneRowPerPlan
<1>2. IsFiniteSet(DOMAIN plans)
  BY ClosedFacts DEF DashInv
<1>3. IsFiniteSet(tradeRows)
  BY <1>1, <1>2, FewTrades
<1>4. \A k : ToTrade(plans[k]).entry_time = plans[k].entry_time
  BY TradeFields
<1>5. ASSUME NEW k \in DOMAIN plans, plans[k].entry_time # NoPrice
      PROVE  /\ plans[k].entry_time \in Int /\ 0 <= plans[k].entry_time
             /\ plans[k].entry_time <= LastSlot
  <2>1. /\ GoodPlan(plans[k], Orders) /\ plans[k].order.symbol \in Keys
        /\ plans[k].state # "PENDING" => plans[k].entry_time \in Int
    BY PlanKeys DEF DashInv
  <2>2. plans[k].state # "PENDING"
    BY <1>5, <2>1 DEF GoodPlan, PlanInv, PlanCoherent
  <2>3. /\ 0 <= plans[k].entry_time
        /\ plans[k].entry_time <= feed[plans[k].order.symbol]
    BY <2>2 DEF DashInv, ExecInv, EnteredBeforeQueue
  <2>4. feed[plans[k].order.symbol] \in -1 .. LastSlot
    BY <2>1 DEF DashInv, ExecInv, ShapeInv
  <2> QED BY <2>1, <2>2, <2>3, <2>4, SlotsAreInt
<1>6. Dated(tradeRows)
  BY <1>1, <1>4, <1>5 DEF Dated
<1>7. HasStatus(tradeRows, AnyStatus) = tradeRows
  BY DEF DashInv, ExecInv, ShapeInv, Statuses, AnyStatus, HasStatus
<1> QED BY <1>1, <1>3, <1>4, <1>6, <1>7

\* When no row is of a later date, and the rows without an entry leave room,
\* no page leaves out a row of the date.
LEMMA PageHasTheDay ==
    ASSUME NEW rows, IsFiniteSet(rows), Dated(rows), NEW limit \in Nat,
           NEW date \in Int,
           \A r \in rows : r.entry_time # NoPrice => DayOf(r.entry_time) <= date,
           Cardinality({r \in rows : r.entry_time = NoPrice})
              + Cardinality({r \in rows : r.entry_time # NoPrice
                                /\ DayOf(r.entry_time) = date}) <= limit,
           NEW page \in Pages(rows, limit),
           NEW row \in rows, row.entry_time # NoPrice,
           DayOf(row.entry_time) = date
    PROVE  row \in page
<1> SUFFICES ASSUME row \notin page PROVE FALSE
  OBVIOUS
<1> DEFINE idle == {r \in rows : r.entry_time = NoPrice}
           day  == {r \in rows : r.entry_time # NoPrice
                                    /\ DayOf(r.entry_time) = date}
           left == day \ {row}
<1>1. /\ page \in SUBSET rows
      /\ Cardinality(page) = Min({limit, Cardinality(rows)})
      /\ \A r \in page : ~SortsBefore(row, r)
  BY DEF Pages
<1>2. IsFiniteSet(idle) /\ IsFiniteSet(day) /\ IsFiniteSet(page)
  <2>1. idle \in SUBSET rows /\ day \in SUBSET rows
    OBVIOUS
  <2> QED BY <1>1, <2>1, FS_Subset
<1>3. /\ Cardinality(idle) \in Nat /\ Cardinality(day) \in Nat
      /\ Cardinality(rows) \in Nat /\ Cardinality(page) \in Nat
  BY <1>2, FS_CardinalityType
<1>4. IsFiniteSet(left) /\ Cardinality(left) = Cardinality(day) - 1
  <2>1. row \in day
    OBVIOUS
  <2> HIDE DEF day
  <2> QED BY <1>2, <2>1, FS_RemoveElement
<1>5. page \subseteq idle \cup left
  <2> SUFFICES ASSUME NEW r \in page, r.entry_time # NoPrice
               PROVE  r \in day /\ r # row
    BY <1>1
  <2>1. /\ row.entry_time \in Int /\ r.entry_time \in Int
        /\ row.entry_time <= r.entry_time
    BY <1>1 DEF SortsBefore, Dated
  <2>2. SlotsPerDay \in Nat \ {0}
    BY PlanAssumption
  <2>3. /\ DayOf(row.entry_time) <= DayOf(r.entry_time)
        /\ DayOf(r.entry_time) \in Int
    BY <2>1, <2>2, QuotientsGrow DEF DayOf
  <2>4. DayOf(r.entry_time) <= date
    BY <1>1
  <2>5. DayOf(r.entry_time) = date
    BY <2>3, <2>4
  <2> QED BY <1>1, <2>5
<1> HIDE DEF idle, left, day
<1>6. /\ IsFiniteSet(idle \cup left)
      /\ Cardinality(idle \cup left)
            = Cardinality(idle) + Cardinality(left) - Cardinality(idle \cap left)
      /\ Cardinality(idle \cap left) \in Nat
  <2>1. /\ IsFiniteSet(idle \cup left)
        /\ IsFiniteSet(idle \cap left)
        /\ Cardinality(idle \cup left)
              = Cardinality(idle) + Cardinality(left) - Cardinality(idle \cap left)
    BY <1>2, <1>4, FS_Union, FS_Intersection
  <2> QED BY <2>1, FS_CardinalityType
<1>7. Cardinality(page) <= Cardinality(idle \cup left)
  BY <1>5, <1>6, FS_Subset
<1>8. Cardinality(idle) + Cardinality(day) <= limit
  BY DEF idle, day
<1>9. Cardinality(page) < limit
  BY <1>3, <1>4, <1>6, <1>7, <1>8
<1>10. Cardinality(page) = Cardinality(rows)
  <2>1. Min({limit, Cardinality(rows)}) = IF limit <= Cardinality(rows)
                                            THEN limit ELSE Cardinality(rows)
    BY <1>3, MinOfTwo
  <2> QED BY <1>1, <1>9, <2>1
<1>11. page = rows
  BY <1>1, <1>10, FS_Subset
<1> QED BY <1>11

\* The page of the newest day shows its trades and no other.
LEMMA NewestDayFollows == DashInv => NewestDayIsListed
<1> SUFFICES
       ASSUME DashInv, NEW i \in DOMAIN plans, plans[i].entry_time # NoPrice,
              NEW date, date = DayOf(plans[i].entry_time),
              \A later \in date + 1 .. NumDays : EnteredOn(later) = {},
              Cardinality(NotEntered) + Cardinality(EnteredOn(date)) <= TradeLimit
       PROVE  FetchTrades(date, AnyStatus, TradeLimit)
                 = {{ToTrade(plans[k]) : k \in EnteredOn(date)}}
  BY DEF NewestDayIsListed
<1> DEFINE day   == {r \in tradeRows : r.entry_time # NoPrice
                                         /\ DayOf(r.entry_time) = date}
           shown == {ToTrade(plans[k]) : k \in EnteredOn(date)}
<1>1. /\ IsFiniteSet(tradeRows) /\ Dated(tradeRows)
      /\ \A r \in tradeRows : \E k \in DOMAIN plans :
            r = ToTrade(plans[k]) /\ r.entry_time = plans[k].entry_time
      /\ HasStatus(tradeRows, AnyStatus) = tradeRows
  BY RowsOfPlans
<1>2. /\ \A k \in DOMAIN plans : ToTrade(plans[k]) \in tradeRows
      /\ \A k : ToTrade(plans[k]).entry_time = plans[k].entry_time
  BY TradeFields DEF DashInv, TablesMatchMemory
<1>3. ASSUME NEW k \in DOMAIN plans, plans[k].entry_time # NoPrice
      PROVE  DayOf(plans[k].entry_time) \in 0 .. NumDays
  <2>1. /\ plans[k].entry_time \in Int /\ 0 <= plans[k].entry_time
        /\ plans[k].entry_time <= LastSlot
    BY <1>1, <1>2, <1>3 DEF Dated
  <2> QED BY <2>1, DaysOfSlots
<1>4. date \in 0 .. NumDays /\ date \in Int /\ date # AnyDate
  BY <1>3, ExecutionAssumption DEF AnyDate
<1>5. ASSUME NEW r \in tradeRows, r.entry_time # NoPrice
      PROVE  DayOf(r.entry_time) <= date
  <2>1. PICK k \in DOMAIN plans : r.entry_time = plans[k].entry_time
    BY <1>1
  <2>2. DayOf(r.entry_time) \in 0 .. NumDays
    BY <1>3, <1>5, <2>1
  <2>3. EnteredOn(DayOf(r.entry_time)) # {}
    BY <1>5, <2>1 DEF EnteredOn
  <2> QED BY <1>4, <2>2, <2>3, ExecutionAssumption
<1>6. day = shown
  <2>1. ASSUME NEW r \in day PROVE r \in shown
    <3>1. PICK k \in DOMAIN plans :
             r = ToTrade(plans[k]) /\ r.entry_time = plans[k].entry_time
      BY <1>1
    <3> QED BY <3>1 DEF EnteredOn
  <2>2. ASSUME NEW k \in EnteredOn(date) PROVE ToTrade(plans[k]) \in day
    BY <1>2 DEF EnteredOn
  <2> QED BY <2>1, <2>2
<1>7. /\ TradeLimit \in Nat
      /\ Cardinality(day) <= Cardinality(EnteredOn(date))
      /\ Cardinality(EnteredOn(date)) \in Nat
  <2>1. EnteredOn(date) \in SUBSET DOMAIN plans
    BY DEF EnteredOn
  <2>2. IsFiniteSet(EnteredOn(date))
    BY <2>1, ClosedFacts, FS_Subset DEF DashInv
  <2>3. Cardinality(EnteredOn(date)) \in Nat
    BY <2>2, FS_CardinalityType
  <2>4. Cardinality(shown) <= Cardinality(EnteredOn(date))
    BY <2>2, FewTrades
  <2>5. Cardinality(day) <= Cardinality(EnteredOn(date))
    BY <1>6, <2>4
  <2> QED BY <2>3, <2>5, DashboardAssumption
<1>8. /\ IsFiniteSet(day) /\ IsFiniteSet(NotEntered)
      /\ Cardinality(day) \in Nat /\ Cardinality(NotEntered) \in Nat
  <2>1. day \in SUBSET tradeRows /\ NotEntered \in SUBSET tradeRows
    BY DEF NotEntered
  <2>2. IsFiniteSet(day) /\ IsFiniteSet(NotEntered)
    BY <1>1, <2>1, FS_Subset
  <2> QED BY <2>2, FS_CardinalityType
<1>9. Cardinality(NotEntered) + Cardinality(day) <= TradeLimit
  <2> HIDE DEF day
  <2> QED BY <1>7, <1>8
<1>10. ASSUME NEW page \in Pages(tradeRows, TradeLimit)
       PROVE  OnDate(page, date) = day
  <2>1. page \in SUBSET tradeRows
    BY DEF Pages
  <2>2. ASSUME NEW r \in day PROVE r \in page
    <3>1. /\ Cardinality({q \in tradeRows : q.entry_time = NoPrice})
                + Cardinality({q \in tradeRows : q.entry_time # NoPrice
                                  /\ DayOf(q.entry_time) = date}) <= TradeLimit
      BY <1>9 DEF NotEntered
    <3>2. /\ r \in tradeRows /\ r.entry_time # NoPrice
          /\ DayOf(r.entry_time) = date
      OBVIOUS
    <3> HIDE DEF day
    <3> QED BY <1>1, <1>4, <1>5, <1>7, <3>1, <3>2, PageHasTheDay
  <2> QED BY <1>4, <2>1, <2>2 DEF OnDate
<1>11. \E page \in Pages(tradeRows, TradeLimit) : TRUE
  BY <1>1, <1>7, SomePage
<1>12. FetchTrades(date, AnyStatus, TradeLimit) = {day}
  <2>1. FetchTrades(date, AnyStatus, TradeLimit)
           = {OnDate(page, date) : page \in Pages(tradeRows, TradeLimit)}
    BY <1>1 DEF FetchTrades
  <2> HIDE DEF day
  <2> QED BY <1>10, <1>11, <2>1
<1> HIDE DEF day, shown
<1>13. FetchTrades(date, AnyStatus, TradeLimit) = {shown}
  BY <1>6, <1>12
<1> QED BY <1>13 DEF shown

(* While writes succeed and the process does not crash, the page of the    *)
(* newest day lists every trade of that day and no other, unless the rows  *)
(* without an entry leave no room for them: the limit, which comes before  *)
(* the date, cuts off older trades only.                                   *)
THEOREM NewestDayIsComplete ==
    ASSUME ~WritesFail, MaxCrashes = 0
    PROVE  Spec => []NewestDayIsListed
  BY NewestDayFollows, DashInvHolds, PTL

=============================================================================
