----------------------------- MODULE BrokerPlans -----------------------------
(***************************************************************************)
(* The methods of class PaperBroker                                        *)
(* (services/execution-engine/app/brokers/paper_broker.py) as operators on *)
(* its dict of plans.  The dict is a sequence of plan records in insertion *)
(* order, the order in which on_candle visits them.                        *)
(***************************************************************************)
EXTENDS PlanState, Sequences

\* The plans the loop of on_candle does not skip.
LiveOn(ps, s) == {i \in DOMAIN ps : ps[i].order.symbol = s /\ IsLive(ps[i])}

\* Those whose advance returns True.
ReportingOn(ps, s, c) == {i \in LiveOn(ps, s) : Reports(ps[i], c)}

\* Variant: the loop goes on after a plan that reports.
AdvancedOn_All(ps, s, c) == LiveOn(ps, s)

\* on_candle returns at the first plan that reports: the loop never gets to
\* the plans behind it.
AdvancedOn(ps, s, c) ==
    {i \in LiveOn(ps, s) : \A j \in ReportingOn(ps, s, c) : i <= j}

PlansAfter(ps, s, c) ==
    [i \in DOMAIN ps |->
        IF i \in AdvancedOn(ps, s, c) THEN Advance(ps[i], c) ELSE ps[i]]

\* The trade on_candle returns, as a sequence of length 0 (None) or 1.
TradeAfter(ps, s, c) ==
    LET reporting == ReportingOn(ps, s, c)
    IN  IF reporting = {} THEN <<>>
        ELSE LET first == CHOOSE i \in reporting : \A j \in reporting : i <= j
             IN  <<ToTrade(Advance(ps[first], c))>>

\* place_order, for an id that is not in the dict yet.
PlansWith(ps, o) == Append(ps, NewPlan(o))

\* cancel_order: _plans.pop(order_id, None), whatever the plan's state.
PlansWithout(ps, id) ==
    LET mine == {i \in DOMAIN ps : ps[i].order.id = id}
        i    == CHOOSE j \in mine : TRUE
    IN  IF mine = {} THEN ps
        ELSE SubSeq(ps, 1, i - 1) \o SubSeq(ps, i + 1, Len(ps))

\* get_positions: the plans that are OPEN.
Positions(ps) == {i \in DOMAIN ps : ps[i].state = "OPEN"}

=============================================================================
