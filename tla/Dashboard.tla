------------------------------ MODULE Dashboard ------------------------------
(***************************************************************************)
(* What the dashboard shows of the execution engine's tables: the reads of *)
(* services/api-gateway/app/queries.py behind the routes of app/main.py,   *)
(* and what frontend/src/App.tsx makes of them.  A read changes nothing,   *)
(* so an answer is a function of the tables.                               *)
(*                                                                         *)
(* Answers are sets of pages: rows that sort alike come in any order, and  *)
(* the limit then keeps any of them.  A read that fails is an empty page   *)
(* and is left out, and so are the retries of the frontend's polling.      *)
(***************************************************************************)
EXTENDS ExecutionEngine, FiniteSetsExt

CONSTANTS
    TradeLimit,     \* the default limit of fetch_trades
    EquityLimit     \* the default limit of fetch_equity_curve

ASSUME DashboardAssumption == {TradeLimit, EquityLimit} \subseteq Nat \ {0}

\* No filter on the date, or on the status.
AnyDate == -1
AnyStatus == {"OPEN", "CLOSED", "SKIPPED"}

\* Variant: ascending, as without desc=True; NULLs come last.
SortsBefore_OldestFirst(r, q) ==
    /\ r.entry_time # NoPrice
    /\ q.entry_time # NoPrice => r.entry_time < q.entry_time

\* order("entry_time", desc=True): PostgreSQL puts NULLs first.
SortsBefore(r, q) ==
    /\ q.entry_time # NoPrice
    /\ r.entry_time # NoPrice => r.entry_time > q.entry_time

Pages(rows, limit) ==
    {page \in SUBSET rows :
        /\ Cardinality(page) = Min({limit, Cardinality(rows)})
        /\ \A r \in page, q \in rows \ page : ~SortsBefore(q, r)}

HasStatus(rows, statuses) == {r \in rows : r.status \in statuses}

\* entry_time.startswith(date): a row that never entered has no date.
OnDate(rows, date) ==
    {r \in rows : date # AnyDate =>
        r.entry_time # NoPrice /\ DayOf(r.entry_time) = date}

\* Variant: the limit comes before the status, as it does before the date.
FetchTrades_LimitFirst(date, statuses, limit) ==
    {OnDate(HasStatus(page, statuses), date) : page \in Pages(tradeRows, limit)}

\* fetch_trades: the database filters by status and then limits; only the
\* page that is left is filtered by date.
FetchTrades(date, statuses, limit) ==
    {OnDate(page, date) :
        page \in Pages(HasStatus(tradeRows, statuses), limit)}

FetchPositions == FetchTrades(AnyDate, {"OPEN"}, TradeLimit)

\* The first snapshots, oldest first.
FetchEquityCurve(limit) ==
    SubSeq(snapshots, 1, Min({limit, Len(snapshots)}))

\* App.tsx: the figure under "Equity" is the last point of the curve.
LatestEquity ==
    LET curve == FetchEquityCurve(EquityLimit) IN curve[Len(curve)]

-----------------------------------------------------------------------------
(* Properties.                                                             *)

LivePlans == {i \in DOMAIN plans : IsLive(plans[i])}

(* "live positions, trade log, equity curve" (README.md:35): while writes  *)
(* succeed, "Open positions" are the broker's live plans, those still      *)
(* waiting for their entry included, and "Equity" is the ledger's, as long *)
(* as neither outgrows its limit; the rows that are over never crowd out a *)
(* position.                                                               *)
DashboardIsCurrent ==
    /\ Cardinality(LivePlans) <= TradeLimit =>
          FetchPositions = {{ToTrade(plans[i]) : i \in LivePlans}}
    /\ ClosedPlans # {} /\ Len(snapshots) <= EquityLimit =>
          LatestEquity = Equity(realized)

EnteredOn(date) ==
    {i \in DOMAIN plans :
        plans[i].entry_time # NoPrice /\ DayOf(plans[i].entry_time) = date}

NotEntered == {r \in tradeRows : r.entry_time = NoPrice}

(* The page of a date is filtered after the limit.  The page of the newest *)
(* day is complete all the same, however many trades there were before,    *)
(* unless the rows without an entry, which sort first, leave no room.      *)
NewestDayIsListed ==
    \A date \in {DayOf(plans[i].entry_time) : i \in
                    {j \in DOMAIN plans : plans[j].entry_time # NoPrice}} :
        /\ \A later \in date + 1 .. NumDays : EnteredOn(later) = {}
        /\ Cardinality(NotEntered) + Cardinality(EnteredOn(date)) <= TradeLimit
        => FetchTrades(date, AnyStatus, TradeLimit)
               = {{ToTrade(plans[i]) : i \in EnteredOn(date)}}

=============================================================================
