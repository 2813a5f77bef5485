--------------------------- MODULE ExecutionEngine ---------------------------
(***************************************************************************)
(* services/execution-engine as a process (app/main.py): two asyncio tasks *)
(* take orders and candles off their Redis subscriptions and share one     *)
(* PaperBroker and one Ledger; what they do is written to Supabase         *)
(* (app/persistence.py).                                                   *)
(*                                                                         *)
(* Neither task awaits anything between taking a message and its last      *)
(* write, so a message is handled in one step; but the two channels are    *)
(* independent, so an order and the candles published around it are        *)
(* handled in any order.  A message published while the process is down    *)
(* is lost, and so are the ones still queued when it crashes.              *)
(***************************************************************************)
EXTENDS BrokerPlans, FiniteSets, Functions

CONSTANTS
    Symbols,        \* the symbols of the local instrument master
    Indices,        \* keys on the candle channel that are not in it
    Orders,         \* the orders risk-engine may publish
    CandleShapes,   \* the candles the feed may close
    NumDays,        \* bound: sessions modelled
    MaxCrashes,     \* bound: crashes modelled
    PaperCapital,   \* PAPER_CAPITAL
    WritesFail      \* a write to Supabase may fail

ASSUME ExecutionAssumption ==
    /\ \A o \in Orders : IsOrder(o) /\ o.symbol \in Symbols
    /\ \A o1, o2 \in Orders : o1.id = o2.id => o1 = o2
    /\ \A c \in CandleShapes : IsShape(c)
    /\ Symbols \cap Indices = {}
    /\ NumDays \in Nat \ {0}
    /\ MaxCrashes \in Nat
    /\ PaperCapital \in Nat
    /\ WritesFail \in BOOLEAN

VARIABLES
    plans,      \* the broker's _plans
    realized,   \* the ledger's realized_net_pnl, in paise
    orderQ,     \* the subscription to the `orders` channel
    candleQ,    \* the subscription to the `candles` channel
    up,         \* whether the process runs
    crashes,    \* crashes so far
    feed,       \* slot of the last candle published, for each key
    sent,       \* the orders published
    orderRows,  \* table orders: the ids of its rows
    tradeRows,  \* table trades: the rows
    snapshots   \* table equity_snapshots: its equity column, in order

memory == <<plans, realized>>
queues == <<orderQ, candleQ>>
bus    == <<feed, sent>>
tables == <<orderRows, tradeRows, snapshots>>
vars   == <<memory, queues, up, crashes, bus, tables>>

Keys == Symbols \cup Indices

LastSlot == NumDays * SlotsPerDay - 1

Equity(pnl) == 100 * PaperCapital + pnl

-----------------------------------------------------------------------------
(* Supabase.  Every write either succeeds or logs a warning and changes    *)
(* nothing.  (0001_init.sql declares uuid ids and lets orders refer to     *)
(* signals, which no service writes; against that very schema every upsert *)
(* of an order or a trade is of the second kind.)                          *)

Written(before, after) ==
    IF WritesFail THEN {before, after} ELSE {after}

\* upsert_order
OrderUpserts(id) == Written(orderRows, orderRows \cup {id})

RowWithout(rows, id) == {r \in rows : r.order_id # id}

\* Variant: the row is deleted and inserted in two writes.
TradeUpserts_InTwoWrites(refs, trade) ==
    LET others == RowWithout(tradeRows, trade.order_id)
    IN  IF trade.order_id \in refs
        THEN {tradeRows} \cup Written(others, others \cup {trade})
        ELSE {tradeRows}

\* upsert_trade: trades.order_id references orders.
TradeUpserts(refs, trade) ==
    IF trade.order_id \in refs
    THEN Written(tradeRows, RowWithout(tradeRows, trade.order_id) \cup {trade})
    ELSE {tradeRows}

\* write_equity_snapshot
SnapshotInserts(equity) == Written(snapshots, Append(snapshots, equity))

-----------------------------------------------------------------------------
Init ==
    /\ plans = <<>>
    /\ realized = 0
    /\ orderQ = <<>>
    /\ candleQ = <<>>
    /\ up = TRUE
    /\ crashes = 0
    /\ feed = [k \in Keys |-> -1]
    /\ sent = {}
    /\ orderRows = {}
    /\ tradeRows = {}
    /\ snapshots = <<>>

\* Redis hands a message to a running subscriber, or to nobody.
Delivered(queue, message) == IF up THEN Append(queue, message) ELSE queue

\* data-engine closes the next candle of a key.
PublishCandle(k, shape) ==
    /\ feed[k] < LastSlot
    /\ feed' = [feed EXCEPT ![k] = feed[k] + 1]
    /\ candleQ' = Delivered(candleQ, [key |-> k,
                                      candle |-> CandleAt(feed[k] + 1, shape)])
    /\ UNCHANGED <<memory, orderQ, up, crashes, sent, tables>>

\* risk-engine publishes the order of a breakout candle once that candle was
\* published, and however late; a restart lets it send a second one for a
\* symbol and session.
PublishOrder(o) ==
    /\ o \notin sent
    /\ o.born <= feed[o.symbol]
    /\ sent' = sent \cup {o}
    /\ orderQ' = Delivered(orderQ, o)
    /\ UNCHANGED <<memory, candleQ, up, crashes, feed, tables>>

\* One turn of consume_orders.
ConsumeOrder ==
    /\ up
    /\ orderQ # <<>>
    /\ LET o == Head(orderQ)
       IN  /\ plans' = PlansWith(plans, o)
           /\ orderRows' \in OrderUpserts(o.id)
           /\ tradeRows' \in TradeUpserts(orderRows', ToTrade(NewPlan(o)))
    /\ orderQ' = Tail(orderQ)
    /\ UNCHANGED <<realized, candleQ, up, crashes, bus, snapshots>>

\* Variant: the ledger books the result before charges.
Settle_Gross(trade) ==
    /\ tradeRows' \in TradeUpserts(orderRows, trade)
    /\ IF trade.status = "CLOSED"
       THEN /\ realized' = realized + trade.gross_pnl
            /\ snapshots' \in SnapshotInserts(Equity(realized'))
       ELSE UNCHANGED <<realized, snapshots>>

\* Variant: the row is written before the charges are taken off.
Settle_GrossRow(trade) ==
    /\ tradeRows' \in TradeUpserts(orderRows,
                           [trade EXCEPT !.net_pnl = trade.gross_pnl])
    /\ IF trade.status = "CLOSED"
       THEN /\ realized' = realized + trade.net_pnl
            /\ snapshots' \in SnapshotInserts(Equity(realized'))
       ELSE UNCHANGED <<realized, snapshots>>

\* The rest of a turn of consume_candles, for the trade on_candle returned.
Settle(trade) ==
    /\ tradeRows' \in TradeUpserts(orderRows, trade)
    /\ IF trade.status = "CLOSED"
       THEN /\ realized' = realized + trade.net_pnl
            /\ snapshots' \in SnapshotInserts(Equity(realized'))
       ELSE UNCHANGED <<realized, snapshots>>

\* One turn of consume_candles; the candles of an index are dropped.
ConsumeCandle ==
    /\ up
    /\ candleQ # <<>>
    /\ LET m == Head(candleQ)
           trade == TradeAfter(plans, m.key, m.candle)
       IN  IF m.key \in Symbols
           THEN /\ plans' = PlansAfter(plans, m.key, m.candle)
                /\ IF trade # <<>>
                   THEN Settle(Head(trade))
                   ELSE UNCHANGED <<realized, tradeRows, snapshots>>
           ELSE UNCHANGED <<memory, tradeRows, snapshots>>
    /\ candleQ' = Tail(candleQ)
    /\ UNCHANGED <<orderQ, up, crashes, bus, orderRows>>

\* Broker, ledger and subscriptions live in the process only.
Crash ==
    /\ up
    /\ crashes < MaxCrashes
    /\ up' = FALSE
    /\ crashes' = crashes + 1
    /\ plans' = <<>>
    /\ realized' = 0
    /\ orderQ' = <<>>
    /\ candleQ' = <<>>
    /\ UNCHANGED <<bus, tables>>

Restart ==
    /\ ~up
    /\ up' = TRUE
    /\ UNCHANGED <<memory, queues, crashes, bus, tables>>

\* The bounded feed is over and every message was consumed.
Finished ==
    /\ \A k \in Keys : feed[k] = LastSlot
    /\ up
    /\ orderQ = <<>> /\ candleQ = <<>>
    /\ UNCHANGED vars

Next ==
    \/ \E k \in Keys, shape \in CandleShapes : PublishCandle(k, shape)
    \/ \E o \in Orders : PublishOrder(o)
    \/ ConsumeOrder
    \/ ConsumeCandle
    \/ Crash
    \/ Restart
    \/ Finished

Spec == Init /\ [][Next]_vars

\* consume_candles takes the next message; the steps of Next that do so are
\* those of ConsumeCandle, which is enabled whenever this is.
TakeCandle ==
    /\ up
    /\ candleQ # <<>>
    /\ candleQ' = Tail(candleQ)
    /\ up' = up

\* Both tasks are served by the event loop, and while the session lasts the
\* feed goes on closing candles.  Nothing obliges an order to be published.
Fairness ==
    /\ WF_vars(ConsumeOrder)
    /\ WF_candleQ(TakeCandle)
    /\ \A k \in Keys :
          WF_vars(\E shape \in CandleShapes : PublishCandle(k, shape))

FairSpec == Spec /\ Fairness

-----------------------------------------------------------------------------
(* Properties.                                                             *)

TypeOK ==
    /\ plans \in Seq(PlansFor(Orders))
    /\ realized \in Int
    /\ orderQ \in Seq(Orders)
    /\ \A i \in DOMAIN candleQ :
          /\ candleQ[i].key \in Keys
          /\ candleQ[i].candle.time \in 0 .. feed[candleQ[i].key]
    /\ up \in BOOLEAN
    /\ crashes \in 0 .. MaxCrashes
    /\ feed \in [Keys -> -1 .. LastSlot]
    /\ sent \subseteq Orders
    /\ orderRows \subseteq {o.id : o \in sent}
    /\ {r.order_id : r \in tradeRows} \subseteq orderRows
    /\ snapshots \in Seq(Int)

ClosedPlans == {i \in DOMAIN plans : plans[i].state = "CLOSED"}

Nets == [i \in DOMAIN plans |-> plans[i].net_pnl]

(* Every close is booked in the ledger exactly once, and nothing else is,  *)
(* however the two tasks interleave: the realised result is the sum of the *)
(* results of the broker's closed plans.                                   *)
LedgerIsSumOfCloses == realized = SumFunctionOnSet(Nets, ClosedPlans)

(* "Writes trade lifecycle to Supabase" (README.md:33): while writes       *)
(* succeed, the tables hold an order row and an up-to-date trade row for   *)
(* every order the broker has, and the newest equity snapshot is the       *)
(* ledger's equity.                                                        *)
TablesMatchMemory ==
    /\ \A i \in DOMAIN plans :
          /\ plans[i].order.id \in orderRows
          /\ ToTrade(plans[i]) \in tradeRows
    /\ ClosedPlans # {} =>
          /\ snapshots # <<>>
          /\ snapshots[Len(snapshots)] = Equity(realized)

Rank(status) == CASE status = "OPEN" -> 0
                  [] status = "CLOSED" -> 1
                  [] status = "SKIPPED" -> 1

(* When writes fail the tables fall behind the broker and are not caught   *)
(* up, but they never run ahead of it: the row of an order the broker has  *)
(* is never more final than its plan, and a final row is the plan's final  *)
(* trade.                                                                  *)
TablesNeverLead ==
    \A i \in DOMAIN plans, r \in tradeRows :
        r.order_id = plans[i].order.id =>
            /\ Rank(r.status) <= Rank(TradeStatus(plans[i]))
            /\ r.status # "OPEN" => r = ToTrade(plans[i])

\* A later version q of a row r tells nothing that r contradicts.
Continues(q, r) ==
    /\ q.order_id = r.order_id
    /\ r.entry_time # NoPrice =>
          /\ q.entry_time = r.entry_time
          /\ q.entry_price = r.entry_price
    /\ r.status # "OPEN" => q = r

(* What a reader of the trades table was shown of an order stays true: no  *)
(* later message, failed write, crash or restart takes an entry back, or   *)
(* changes or removes a closed or skipped row.                             *)
RowsOnlyMoveForward ==
    [][\A r \in tradeRows : \E q \in tradeRows' : Continues(q, r)]_vars

(* params.py:65: the entry of a breakout "is then a stop order at that     *)
(* candle's high": it can only be filled by a later candle.                *)
NoLookAheadFill ==
    \A i \in DOMAIN plans :
        plans[i].entry_time # NoPrice =>
            plans[i].entry_time > plans[i].order.born

ClosedRows == {r \in tradeRows : r.status = "CLOSED"}
BookedNets == [r \in ClosedRows |-> r.net_pnl]

(* services/risk-engine/app/equity.py:1: "the most recent equity snapshot  *)
(* so risk-engine knows today's starting capital": it is the paper capital *)
(* and all the results booked so far.                                      *)
SnapshotCarriesAllResults ==
    snapshots # <<>> =>
        snapshots[Len(snapshots)]
            = Equity(SumFunction(BookedNets))

(* Every order that the broker has ends as a closed or a skipped row, even *)
(* when the task that placed it lagged behind the candles, provided that   *)
(* enough candles at or after the force exit are still to be consumed: one *)
(* for each live order on the symbol, since each settles only one of them. *)
Settled(o) ==
    \E r \in tradeRows : r.order_id = o.id /\ r.status # "OPEN"

\* The slots of a symbol that consume_candles has still to see.
SlotsAhead(s) ==
    feed[s] + 1 - Len(SelectSeq(candleQ, LAMBDA m : m.key = s)) .. LastSlot

ForceExitsAhead(s) == {t \in SlotsAhead(s) : Label(t) >= ForceExit}

CanStillSettle(o) ==
    /\ \E i \in DOMAIN plans : plans[i].order = o
    /\ Cardinality(LiveOn(plans, o.symbol))
          <= Cardinality(ForceExitsAhead(o.symbol))

EventuallySettled ==
    \A o \in Orders : CanStillSettle(o) ~> Settled(o)

=============================================================================
