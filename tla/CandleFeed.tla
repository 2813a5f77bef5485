----------------------------- MODULE CandleFeed ------------------------------
(***************************************************************************)
(* services/data-engine: one Upstox feed session after another, each with  *)
(* an aggregator of its own that turns ticks into candles (app/main.py,    *)
(* app/candle_aggregator.py, app/market_hours.py), authorised with a token *)
(* (app/auth.py, app/feed_client.py) that a login through api-gateway      *)
(* stores (services/api-gateway/app/upstox_auth.py).                       *)
(*                                                                         *)
(* Messages that are not of type live_feed are left out: run_session takes *)
(* the next one without even looking at the clock.  The waits of main (60, *)
(* 15 and 5 s) are between one step of the idle engine and the next.  The  *)
(* ticks of a message are a map by key, iterated in any order, and the     *)
(* order of candles is kept for each key only.                             *)
(***************************************************************************)
EXTENDS Integers, Sequences, FiniteSets, FiniteSetsExt, Functions

CONSTANTS
    Keys,           \* INSTRUMENT_KEYS
    PricesOf,       \* the prices the trades of each key are made at
    SlotTicks,      \* clock ticks in CANDLE_TIMEFRAME_SECONDS
    DayTicks,       \* clock ticks in a day
    MARKET_OPEN,    \* ticks after midnight
    MARKET_CLOSE,
    Weekend,        \* the days that are Saturdays or Sundays
    FileToken,      \* the day on which the token in the file is good
    LastTick,       \* bound: the last tick of the clock
    MaxTrades,      \* bound: trades of the exchange
    MaxLag,         \* bound: ticks that a sent trade waits to be handled
    MaxDrops,       \* bound: sessions that end before their flush
    NoBar           \* no bar is open

Bars == [slot : Nat, open : Nat, high : Nat, low : Nat, close : Nat,
         volume : Nat]

ASSUME FeedAssumption ==
    /\ NoBar \notin Bars
    /\ \A k \in Keys : PricesOf[k] \subseteq Nat
    /\ SlotTicks \in Nat \ {0}
    /\ DayTicks \in Nat \ {0} /\ DayTicks % SlotTicks = 0
    /\ {MARKET_OPEN, MARKET_CLOSE} \subseteq 0 .. DayTicks - 1
    /\ {LastTick, MaxTrades, MaxLag, MaxDrops} \subseteq Nat

VARIABLES
    now,        \* the time
    trades,     \* the trades of each key; `by` is the session that handled it
    past,       \* for each key, how many of them were handled or missed
    tokens,     \* table upstox_tokens: the day of each login
    streaming,  \* whether a session runs
    session,    \* sessions begun
    began,      \* when the last one began
    bars,       \* _open_bars of its aggregator
    candles,    \* the candles published of each key
    dropped     \* history: the sessions that ended before their flush

vars == <<now, trades, past, tokens, streaming, session, began, bars,
          candles, dropped>>

Clock == 0 .. LastTick

Day(t) == t \div DayTicks

\* The bucket of a tick, as a count.
Slot(t) == t \div SlotTicks

\* is_market_open: 15:30:00 itself is open.
IsMarketOpen(t) ==
    /\ Day(t) \notin Weekend
    /\ MARKET_OPEN <= t % DayTicks /\ t % DayTicks <= MARKET_CLOSE

-----------------------------------------------------------------------------
(* The aggregator.                                                         *)

NoBars == [k \in Keys |-> NoBar]

NewBar(t) ==
    [slot |-> Slot(t.time), open |-> t.price, high |-> t.price,
     low |-> t.price, close |-> t.price, volume |-> 1]

StartsBar(bar, t) == bar = NoBar \/ bar.slot # Slot(t.time)

\* Variant: the low of a bar is forgotten as it goes on.
BarAfter_LosesLow(bar, t) ==
    IF StartsBar(bar, t)
    THEN NewBar(t)
    ELSE [bar EXCEPT !.high = Max({@, t.price}), !.low = t.price,
                     !.close = t.price, !.volume = @ + 1]

\* ingest_tick: the open bar after a tick.
BarAfter(bar, t) ==
    IF StartsBar(bar, t)
    THEN NewBar(t)
    ELSE [bar EXCEPT !.high = Max({@, t.price}), !.low = Min({@, t.price}),
                     !.close = t.price, !.volume = @ + 1]

\* Whether ingest_tick returns the bar that was open.
Closes(bar, t) == bar # NoBar /\ StartsBar(bar, t)

-----------------------------------------------------------------------------
Init ==
    /\ now = 0
    /\ trades = [k \in Keys |-> <<>>]
    /\ past = [k \in Keys |-> 0]
    /\ tokens = <<>>
    /\ streaming = FALSE
    /\ session = 0
    /\ began = 0
    /\ bars = NoBars
    /\ candles = [k \in Keys |-> <<>>]
    /\ dropped = {}

Tick ==
    /\ now + 1 \in Clock
    /\ \A k \in Keys : past[k] < Len(trades[k]) =>
          now - trades[k][past[k] + 1].time < MaxLag
    /\ now' = now + 1
    /\ UNCHANGED <<trades, past, tokens, streaming, session, began, bars,
                   candles, dropped>>

\* The exchange trades, and tells the session that is connected.
Trade(k, p) ==
    /\ IsMarketOpen(now)
    /\ MapThenSumSet(LAMBDA key : Len(trades[key]), Keys) < MaxTrades
    /\ trades' = [trades EXCEPT ![k] =
                     Append(@, [price |-> p, time |-> now, by |-> 0])]
    /\ past' = IF streaming THEN past ELSE [past EXCEPT ![k] = @ + 1]
    /\ UNCHANGED <<now, tokens, streaming, session, began, bars, candles,
                   dropped>>

\* Variant: the oldest row of the table instead of the newest.
LoadAccessToken_Oldest(readable) ==
    IF readable /\ tokens # <<>> THEN tokens[1] ELSE FileToken

\* load_access_token: the newest row; the file when there is none, or when
\* the table cannot be read.
LoadAccessToken(readable) ==
    IF readable /\ tokens # <<>> THEN tokens[Len(tokens)] ELSE FileToken

\* callback: a login stores its token, unless the write fails.  Bound: only
\* in market hours and with no token of the day stored; nothing but the start
\* of a session reads the table.
Login ==
    /\ IsMarketOpen(now) /\ ~streaming
    /\ tokens # <<>> => tokens[Len(tokens)] # Day(now)
    /\ tokens' = Append(tokens, Day(now))
    /\ UNCHANGED <<now, trades, past, streaming, session, began, bars,
                   candles, dropped>>

\* main begins a session while the market is open; Upstox authorises it on a
\* token of the day.  When it does not, main tries again.
StartSession(readable) ==
    /\ ~streaming
    /\ IsMarketOpen(now)
    /\ LoadAccessToken(readable) = Day(now)
    /\ streaming' = TRUE
    /\ session' = session + 1
    /\ began' = now
    /\ UNCHANGED <<now, trades, past, tokens, bars, candles, dropped>>

\* Variant: one aggregator for all sessions.
EndSession_KeepsBars ==
    /\ streaming' = FALSE
    /\ past' = [k \in Keys |-> Len(trades[k])]
    /\ UNCHANGED bars

\* The session is over, and its aggregator and what was sent to it are gone.
EndSession ==
    /\ streaming' = FALSE
    /\ past' = [k \in Keys |-> Len(trades[k])]
    /\ bars' = NoBars

\* Variant: the clock is looked at only after a message with ticks.
EndsAfter_TicksOnly(told) == told # {} /\ ~IsMarketOpen(now)

\* Whether the message is the last of its session.
EndsAfter(told) == ~IsMarketOpen(now)

\* The keys that have a tick on the connection, and that tick.
Waiting == {k \in Keys : past[k] < Len(trades[k])}
NextTick(k) == trades[k][past[k] + 1]

\* The ticks of a live message with one of each key in `told`.
Handled(told) ==
    [k \in Keys |->
        IF k \in told
        THEN [trades[k] EXCEPT ![past[k] + 1].by = session]
        ELSE trades[k]]

BarsAfter(told) ==
    [k \in Keys |->
        IF k \in told THEN BarAfter(bars[k], NextTick(k)) ELSE bars[k]]

Candle(bar, cause) == [bar |-> bar, by |-> session, cause |-> cause]

\* The candle of a key that its tick closes.
ClosedByTick(told, k) ==
    IF k \in told /\ Closes(bars[k], NextTick(k))
    THEN <<Candle(bars[k], "tick")>>
    ELSE <<>>

\* Variant: only the keys of the message are flushed.
FlushedAfter_KeysOfMessage(told, k) ==
    IF EndsAfter(told) /\ k \in told
    THEN <<Candle(BarsAfter(told)[k], "flush")>>
    ELSE <<>>

\* flush: the candle of a key that the end of the session closes.
FlushedAfter(told, k) ==
    IF EndsAfter(told) /\ BarsAfter(told)[k] # NoBar
    THEN <<Candle(BarsAfter(told)[k], "flush")>>
    ELSE <<>>

\* One turn of run_session.
LiveMessage(told) ==
    /\ streaming
    /\ told \subseteq Waiting
    /\ trades' = Handled(told)
    /\ candles' = [k \in Keys |-> candles[k] \o ClosedByTick(told, k)
                                             \o FlushedAfter(told, k)]
    /\ IF EndsAfter(told)
       THEN EndSession
       ELSE /\ bars' = BarsAfter(told)
            /\ past' = [k \in Keys |-> past[k] + IF k \in told THEN 1 ELSE 0]
            /\ UNCHANGED streaming
    /\ UNCHANGED <<now, tokens, session, began, dropped>>

\* The session ends before its flush is done: an error is raised, or the
\* server closes the connection and the messages are over.
Fails ==
    /\ streaming
    /\ Cardinality(dropped) < MaxDrops
    /\ dropped' = dropped \cup {session}
    /\ EndSession
    /\ UNCHANGED <<now, tokens, session, began>>

\* The publication of a candle that a tick closed fails: of the other ticks
\* of the message only those before it were handled.
PublishFails(told, k) ==
    /\ told \subseteq Waiting
    /\ k \in told /\ ClosedByTick(told, k) # <<>>
    /\ trades' = Handled(told)
    /\ candles' = [key \in Keys |->
           IF key = k THEN candles[key]
           ELSE candles[key] \o ClosedByTick(told, key)]
    /\ Fails

\* The publication of a flushed candle fails after those in `made`.
FlushFails(told, made) ==
    /\ told \subseteq Waiting
    /\ \E k \in Keys \ made : FlushedAfter(told, k) # <<>>
    /\ trades' = Handled(told)
    /\ candles' = [k \in Keys |-> candles[k] \o ClosedByTick(told, k)
           \o IF k \in made THEN FlushedAfter(told, k) ELSE <<>>]
    /\ Fails

\* Variant: what was open is published when the connection drops.
Drop_Flushes ==
    /\ candles' = [k \in Keys |-> candles[k]
           \o IF bars[k] # NoBar THEN <<Candle(bars[k], "flush")>> ELSE <<>>]
    /\ Fails
    /\ UNCHANGED trades

\* The connection drops, with an error, or is closed without one.
Drop == Fails /\ UNCHANGED <<trades, candles>>

\* The modelled time is over.
Finished == now + 1 \notin Clock /\ ~streaming /\ UNCHANGED vars

Next ==
    \/ Tick
    \/ \E k \in Keys : \E p \in PricesOf[k] : Trade(k, p)
    \/ Login
    \/ \E readable \in BOOLEAN : StartSession(readable)
    \/ \E told \in SUBSET Keys :
          \/ LiveMessage(told)
          \/ \E k \in Keys : PublishFails(told, k)
          \/ \E made \in SUBSET Keys : FlushFails(told, made)
    \/ Drop
    \/ Finished

Spec == Init /\ [][Next]_vars

\* main goes on trying, the table can be read again in the end, and the feed
\* goes on sending live messages.  Nobody has to log in, and the clock of the
\* model may stop.
Fairness ==
    /\ WF_vars(StartSession(TRUE))
    /\ WF_vars(LiveMessage(Waiting))

FairSpec == Spec /\ Fairness

-----------------------------------------------------------------------------
(* Properties.                                                             *)

IsBar(b) ==
    /\ b.low <= b.open /\ b.open <= b.high
    /\ b.low <= b.close /\ b.close <= b.high
    /\ b.volume >= 1

TypeOK ==
    /\ now \in Clock
    /\ \A k \in Keys :
          /\ past[k] \in 0 .. Len(trades[k])
          /\ ~streaming => past[k] = Len(trades[k])
          /\ \A i \in DOMAIN trades[k] :
                /\ trades[k][i].by \in 0 .. session
                /\ i > past[k] => trades[k][i].by = 0
                /\ IsMarketOpen(trades[k][i].time)
                /\ trades[k][i].time <= now
          /\ bars[k] # NoBar => streaming /\ IsBar(bars[k])
          /\ \A i \in DOMAIN candles[k] :
                candles[k][i].by \in 1 .. session /\ IsBar(candles[k][i].bar)
    /\ began <= now
    /\ dropped \subseteq 1 .. session
    /\ \A i \in 2 .. Len(tokens) : tokens[i - 1] < tokens[i]

\* The trades of a key that the exchange made in a slot, by their numbers.
TapeOf(k, slot) == {i \in DOMAIN trades[k] : Slot(trades[k][i].time) = slot}

(* "aggregates LTP ticks into closed candles" (main.py:4): a candle closed *)
(* by a later tick, of a slot that began after its session was connected,   *)
(* tells the open, high, low, close and volume of all that the exchange    *)
(* traded in the slot.                                                     *)
CandlesMatchTape ==
    \A k \in Keys : \A i \in DOMAIN candles[k] :
        LET c == candles[k][i]
            tape == TapeOf(k, c.bar.slot)
            paid == {trades[k][j].price : j \in tape}
        IN  c.cause = "tick" /\ c.by = session
                /\ began < c.bar.slot * SlotTicks =>
            /\ c.bar.open = trades[k][Min(tape)].price
            /\ c.bar.close = trades[k][Max(tape)].price
            /\ c.bar.high = Max(paid)
            /\ c.bar.low = Min(paid)
            /\ c.bar.volume = Cardinality(tape)

VolumeHeard(k, s) ==
    Cardinality({i \in DOMAIN trades[k] : trades[k][i].by = s})

Volumes(k) == [i \in DOMAIN candles[k] |-> candles[k][i].bar.volume]

VolumeOut(k, s) ==
    SumFunctionOnSet(Volumes(k), {i \in DOMAIN candles[k] : candles[k][i].by = s})

VolumeOpen(k, s) ==
    IF s = session /\ bars[k] # NoBar THEN bars[k].volume ELSE 0

(* Every tick that a session handled is in exactly one of its candles or   *)
(* open bars, however ticks, bucket ends and the end of the market fall    *)
(* together (candle_aggregator.py:60: "so the last partial bar isn't       *)
(* lost"); only a session that ends without its flush, by an error or by   *)
(* the server's closing the connection, takes bars with it.                *)
NothingHeardIsLost ==
    \A k \in Keys, s \in 1 .. session :
        LET out == VolumeOut(k, s) + VolumeOpen(k, s)
        IN  IF s \in dropped
            THEN out <= VolumeHeard(k, s)
            ELSE out = VolumeHeard(k, s)

(* strategy-engine takes each key's candles for successive slots: over all *)
(* sessions, reconnections and nights, no slot of a key is published twice *)
(* or after a later one.                                                   *)
SlotsMoveForward ==
    \A k \in Keys : \A i, j \in DOMAIN candles[k] :
        i < j => candles[k][i].bar.slot < candles[k][j].bar.slot

(* auth.py:11, "only reads whichever is freshest": once a login of the day *)
(* is stored, main's retries end in a session, unless the market closes.   *)
LoginEndsTheOutage ==
    (/\ ~streaming /\ IsMarketOpen(now)
     /\ tokens # <<>> /\ tokens[Len(tokens)] = Day(now))
        ~> (streaming \/ ~IsMarketOpen(now))

(* A session does not outlive the market while messages arrive, ticks or   *)
(* none; only silence carries it, and the bars open in it, to the next     *)
(* trading day.                                                            *)
SessionEndsAfterClose ==
    (streaming /\ ~IsMarketOpen(now)) ~> (~streaming \/ IsMarketOpen(now))

=============================================================================
