-------------------------- MODULE CandleFeedProofs ---------------------------
(***************************************************************************)
(* Proofs about data-engine's feed, for any keys, prices, slot length,     *)
(* market hours, weekends and number of sessions, errors and days.         *)
(*                                                                         *)
(* FeedInv: a key's candles rise because its open bar is later than all of *)
(* them and no later than its next tick; when the bar is flushed the       *)
(* market is closed, and it opens again on a later day, in a later slot.   *)
(*                                                                         *)
(* HeardInv: what a session heard of a key is in its candles or its open   *)
(* bar (KeyHeard), and a bar of a slot that began after the session tells  *)
(* the tape of its slot so far, since nothing of the slot was missed and   *)
(* ticks come in the order of the trades (KeyTape).                        *)
(***************************************************************************)
EXTENDS CandleFeed, SumProofs

(* Division.                                                               *)

LEMMA DivMod ==
    ASSUME NEW a \in Nat, NEW d \in Nat \ {0}
    PROVE  /\ a \div d \in Nat
           /\ a % d \in 0 .. d - 1
           /\ a = d * (a \div d) + (a % d)
BY Z3

LEMMA MultipleMonotone ==
    ASSUME NEW d \in Nat \ {0}, NEW x \in Nat, NEW y \in Nat, x <= y
    PROVE  d * x <= d * y
BY Z3

LEMMA NextMultiple ==
    ASSUME NEW d \in Nat \ {0}, NEW x \in Nat, NEW y \in Nat, x < y
    PROVE  d * x + d <= d * y
<1>1. d * (x + 1) <= d * y
    BY x + 1 <= y, MultipleMonotone
<1>2. d * (x + 1) = d * x + d
    BY Z3
<1> QED BY <1>1, <1>2

LEMMA DivMonotone ==
    ASSUME NEW d \in Nat \ {0}, NEW a \in Nat, NEW b \in Nat, a <= b
    PROVE  a \div d <= b \div d
<1>1. CASE b \div d < a \div d
    <2>1. d * (b \div d) + d <= d * (a \div d)
        BY <1>1, NextMultiple, DivMod
    <2> QED BY <2>1, DivMod
<1> QED BY <1>1, DivMod

-----------------------------------------------------------------------------
(* The calendar.                                                           *)

\* A later day is a later slot.
LEMMA LaterDay ==
    ASSUME NEW a \in Nat, NEW b \in Nat, Day(a) < Day(b)
    PROVE  Slot(a) < Slot(b)
<1> DEFINE m == DayTicks \div SlotTicks
           s == m * Day(b)
<1>1. /\ DayTicks \in Nat \ {0} /\ SlotTicks \in Nat \ {0}
      /\ DayTicks % SlotTicks = 0
    BY FeedAssumption
<1>2. DayTicks = SlotTicks * m /\ m \in Nat
    <2>1. /\ DayTicks = SlotTicks * m + (DayTicks % SlotTicks)
          /\ m \in Nat
        BY <1>1, DivMod
    <2>2. SlotTicks * m \in Nat
        BY <1>1, <2>1, Z3
    <2> HIDE DEF m
    <2> QED BY <1>1, <2>1, <2>2
<1>3. Day(a) \in Nat /\ Day(b) \in Nat /\ Slot(a) \in Nat /\ Slot(b) \in Nat
    BY <1>1, DivMod DEF Day, Slot
<1>4. s \in Nat
    BY <1>2, <1>3, Z3
<1>5. DayTicks * Day(b) = SlotTicks * s
    BY <1>1, <1>2, <1>3, Z3
<1> HIDE DEF m, s
<1>6. a < SlotTicks * s
    <2>1. a < DayTicks * Day(a) + DayTicks
        BY <1>1, DivMod DEF Day
    <2>2. DayTicks * Day(a) + DayTicks <= DayTicks * Day(b)
        BY <1>1, <1>3, NextMultiple
    <2>3. DayTicks * Day(a) \in Nat /\ DayTicks * Day(b) \in Nat
        BY <1>1, <1>3, Z3
    <2> QED BY <1>1, <1>5, <2>1, <2>2, <2>3
<1>7. SlotTicks * s <= b
    BY <1>1, <1>3, <1>5, DivMod DEF Day
<1>8. SlotTicks * s \in Nat /\ SlotTicks * Slot(a) \in Nat
      /\ SlotTicks * Slot(b) \in Nat
    BY <1>1, <1>3, <1>4, Z3
<1>9. Slot(a) < s
    <2>1. CASE s <= Slot(a)
        <3>1. SlotTicks * s <= SlotTicks * Slot(a)
            BY <2>1, <1>1, <1>3, <1>4, MultipleMonotone
        <3>2. SlotTicks * Slot(a) <= a
            BY <1>1, DivMod DEF Slot
        <3> QED BY <3>1, <3>2, <1>6, <1>8
    <2> QED BY <2>1, <1>3, <1>4
<1>10. s <= Slot(b)
    <2>1. CASE Slot(b) < s
        <3>1. SlotTicks * Slot(b) + SlotTicks <= SlotTicks * s
            BY <2>1, <1>1, <1>3, <1>4, NextMultiple
        <3>2. b < SlotTicks * Slot(b) + SlotTicks
            BY <1>1, DivMod DEF Slot
        <3> QED BY <3>1, <3>2, <1>1, <1>7, <1>8
    <2> QED BY <2>1, <1>3, <1>4
<1> QED BY <1>3, <1>4, <1>9, <1>10

\* Within a day the market is open without a break.
LEMMA NoBreakInTheDay ==
    ASSUME NEW a \in Nat, NEW n \in Nat, NEW b \in Nat, a <= n, n <= b,
           IsMarketOpen(a), IsMarketOpen(b), Day(a) = Day(b)
    PROVE  IsMarketOpen(n)
<1>1. DayTicks \in Nat \ {0}
    BY FeedAssumption
<1>2. Day(n) = Day(a) /\ Day(a) \in Nat
    <2>1. Day(a) <= Day(n)
        BY <1>1, DivMonotone DEF Day
    <2>2. Day(n) <= Day(b)
        BY <1>1, DivMonotone DEF Day
    <2>3. Day(a) \in Nat /\ Day(n) \in Nat /\ Day(b) \in Nat
        BY <1>1, DivMod DEF Day
    <2> QED BY <2>1, <2>2, <2>3
<1>3. a % DayTicks <= n % DayTicks /\ n % DayTicks <= b % DayTicks
    <2> DEFINE d == DayTicks * Day(a)
    <2>1. d \in Nat
        BY <1>1, <1>2, Z3
    <2>2. /\ a = d + (a % DayTicks)
          /\ n = d + (n % DayTicks)
          /\ b = d + (b % DayTicks)
        BY <1>1, <1>2, DivMod DEF Day
    <2>3. /\ a % DayTicks \in Nat /\ n % DayTicks \in Nat
          /\ b % DayTicks \in Nat
        BY <1>1, DivMod
    <2> HIDE DEF d
    <2> QED BY <2>1, <2>2, <2>3
<1>4. /\ a % DayTicks \in Nat /\ n % DayTicks \in Nat /\ b % DayTicks \in Nat
      /\ MARKET_OPEN \in Nat /\ MARKET_CLOSE \in Nat
    BY <1>1, DivMod, FeedAssumption
<1> QED BY <1>2, <1>3, <1>4 DEF IsMarketOpen

\* The next trade after a closing is in a later slot than the last before it.
LEMMA ReopensLater ==
    ASSUME NEW a \in Nat, NEW n \in Nat, NEW b \in Nat, a <= n, n <= b,
           IsMarketOpen(a), ~IsMarketOpen(n), IsMarketOpen(b)
    PROVE  Slot(a) < Slot(b)
<1>1. Day(a) # Day(b)
    BY NoBreakInTheDay
<1>2. DayTicks \in Nat \ {0} /\ a <= b
    BY FeedAssumption
<1>3. Day(a) <= Day(b)
    BY <1>2, DivMonotone DEF Day
<1>4. Day(a) \in Nat /\ Day(b) \in Nat
    BY <1>2, DivMod DEF Day
<1> QED BY <1>1, <1>3, <1>4, LaterDay

-----------------------------------------------------------------------------
(* The invariant of a key: its trades, how many are past, its open bar and *)
(* its candles, at time n.                                                 *)

Candles == [bar : Bars, by : Nat, cause : {"tick", "flush"}]
Trades == [price : Nat, time : Nat, by : Nat]

Rising(c) ==
    \A i, j \in 1 .. Len(c) : i < j => c[i].bar.slot < c[j].bar.slot

Below(c, slot) == \A i \in 1 .. Len(c) : c[i].bar.slot < slot

TradesInv(n, tr) ==
    /\ tr \in Seq(Trades)
    /\ \A i \in 1 .. Len(tr) : IsMarketOpen(tr[i].time) /\ tr[i].time <= n
    /\ \A i, j \in 1 .. Len(tr) : i <= j => tr[i].time <= tr[j].time

BarInv(n, tr, p, b, c) ==
    /\ b \in Bars
    /\ Below(c, b.slot)
    /\ \E t \in 0 .. n : IsMarketOpen(t) /\ b.slot = Slot(t)
    /\ \A i \in p + 1 .. Len(tr) : b.slot <= Slot(tr[i].time)

CandlesInv(n, tr, p, c) ==
    /\ c \in Seq(Candles)
    /\ Rising(c)
    /\ \A i \in p + 1 .. Len(tr) : Below(c, Slot(tr[i].time))
    /\ \A t \in Nat : t >= n /\ IsMarketOpen(t) => Below(c, Slot(t))

KeyInv(n, tr, p, b, c) ==
    /\ TradesInv(n, tr)
    /\ p \in 0 .. Len(tr)
    /\ b # NoBar => BarInv(n, tr, p, b, c)
    /\ CandlesInv(n, tr, p, c)

SameTimes(q, tr) ==
    /\ q \in Seq(Trades)
    /\ Len(q) = Len(tr)
    /\ \A i \in 1 .. Len(tr) : q[i].time = tr[i].time

LEMMA TimesAreNat ==
    ASSUME NEW tr \in Seq(Trades), NEW i \in 1 .. Len(tr)
    PROVE  tr[i].time \in Nat
<1>1. tr[i] \in Trades
    OBVIOUS
<1> QED BY <1>1 DEF Trades

LEMMA SlotNat == ASSUME NEW t \in Nat PROVE Slot(t) \in Nat
BY FeedAssumption, DivMod DEF Slot

LEMMA SlotMonotone ==
    ASSUME NEW a \in Nat, NEW b \in Nat, a <= b
    PROVE  Slot(a) <= Slot(b)
BY FeedAssumption, DivMonotone DEF Slot

\* A candle is published.
LEMMA Push ==
    ASSUME NEW c \in Seq(Candles), Rising(c),
           NEW d \in Candles, Below(c, d.bar.slot)
    PROVE  /\ c \o <<d>> \in Seq(Candles)
           /\ Rising(c \o <<d>>)
           /\ \A x \in Nat : Below(c, x) /\ d.bar.slot < x
                                => Below(c \o <<d>>, x)
<1> DEFINE e == c \o <<d>>
<1>1. /\ e \in Seq(Candles)
      /\ Len(e) = Len(c) + 1
      /\ \A i \in 1 .. Len(c) : e[i] = c[i]
      /\ e[Len(c) + 1] = d
      /\ Len(c) \in Nat
    OBVIOUS
<1> HIDE DEF e
<1>2. \A i \in 1 .. Len(c) : e[i].bar.slot < d.bar.slot
    BY <1>1 DEF Below
<1>3. Rising(e)
    BY <1>1, <1>2 DEF Rising
<1>4. \A x \in Nat : Below(c, x) /\ d.bar.slot < x => Below(e, x)
    BY <1>1 DEF Below
<1> QED BY <1>1, <1>3, <1>4 DEF e

LEMMA PushNothing ==
    ASSUME NEW c \in Seq(Candles)
    PROVE  c \o <<>> = c
OBVIOUS

-----------------------------------------------------------------------------
(* What each kind of step does to a key.                                   *)

LEMMA KeyLater ==
    ASSUME NEW n \in Nat, NEW tr, NEW p, NEW b, NEW c, KeyInv(n, tr, p, b, c)
    PROVE  KeyInv(n + 1, tr, p, b, c)
<1>1. TradesInv(n + 1, tr)
    <2>1. TradesInv(n, tr)
        BY DEF KeyInv
    <2>2. \A i \in 1 .. Len(tr) : tr[i].time <= n + 1
        BY <2>1, TimesAreNat DEF TradesInv
    <2> QED BY <2>1, <2>2 DEF TradesInv
<1>2. b # NoBar => BarInv(n + 1, tr, p, b, c)
    BY DEF KeyInv, BarInv
<1>3. CandlesInv(n + 1, tr, p, c)
    BY DEF KeyInv, CandlesInv
<1> QED BY <1>1, <1>2, <1>3 DEF KeyInv

\* The session that handled a trade is of no account.
LEMMA KeyMarked ==
    ASSUME NEW n \in Nat, NEW tr, NEW p, NEW b, NEW c, KeyInv(n, tr, p, b, c),
           NEW q, SameTimes(q, tr)
    PROVE  KeyInv(n, q, p, b, c)
<1>1. /\ Len(q) = Len(tr) /\ Len(tr) \in Nat /\ p \in 0 .. Len(tr)
      /\ \A i \in 1 .. Len(tr) : q[i].time = tr[i].time
    BY DEF SameTimes, KeyInv, TradesInv
<1>2. TradesInv(n, q)
    BY <1>1 DEF KeyInv, TradesInv, SameTimes
<1>3. b # NoBar => BarInv(n, q, p, b, c)
    BY <1>1 DEF KeyInv, BarInv
<1>4. CandlesInv(n, q, p, c)
    BY <1>1 DEF KeyInv, CandlesInv
<1> QED BY <1>1, <1>2, <1>3, <1>4 DEF KeyInv

\* Its session ends: nothing is open and nothing sent.
LEMMA KeyEnds ==
    ASSUME NEW n \in Nat, NEW tr, NEW p, NEW b, NEW c, KeyInv(n, tr, p, b, c)
    PROVE  KeyInv(n, tr, Len(tr), NoBar, c)
<1>1. Len(tr) \in Nat
    BY DEF KeyInv, TradesInv
<1> QED BY <1>1 DEF KeyInv, CandlesInv

LEMMA KeyTrades ==
    ASSUME NEW n \in Nat, NEW tr, NEW p, NEW b, NEW c, KeyInv(n, tr, p, b, c),
           IsMarketOpen(n), NEW t \in Trades, t.time = n,
           NEW p1 \in {p, p + 1}, p1 = p \/ (b = NoBar /\ p = Len(tr))
    PROVE  KeyInv(n, Append(tr, t), p1, b, c)
<1> DEFINE q == Append(tr, t)
<1>1. /\ tr \in Seq(Trades) /\ Len(tr) \in Nat /\ p \in 0 .. Len(tr)
      /\ q \in Seq(Trades)
      /\ Len(q) = Len(tr) + 1
      /\ \A i \in 1 .. Len(tr) : q[i] = tr[i]
      /\ q[Len(tr) + 1] = t
    BY DEF KeyInv, TradesInv
<1> HIDE DEF q
<1>2. p1 \in 0 .. Len(q)
    BY <1>1
<1>3. TradesInv(n, q)
    <2>1. \A i \in 1 .. Len(q) : IsMarketOpen(q[i].time) /\ q[i].time <= n
        BY <1>1 DEF KeyInv, TradesInv
    <2>2. \A i, j \in 1 .. Len(q) : i <= j => q[i].time <= q[j].time
        <3> SUFFICES ASSUME NEW i \in 1 .. Len(q), NEW j \in 1 .. Len(q),
                            i <= j
                     PROVE  q[i].time <= q[j].time
            OBVIOUS
        <3>1. CASE j = Len(tr) + 1
            BY <3>1, <1>1, <2>1
        <3>2. CASE j # Len(tr) + 1
            <4>1. i \in 1 .. Len(tr) /\ j \in 1 .. Len(tr)
                BY <3>2, <1>1
            <4> QED BY <4>1, <1>1 DEF KeyInv, TradesInv
        <3> QED BY <3>1, <3>2
    <2> QED BY <1>1, <2>1, <2>2 DEF TradesInv
<1>4. b # NoBar => BarInv(n, q, p1, b, c)
    <2> SUFFICES ASSUME b # NoBar
                 PROVE  BarInv(n, q, p1, b, c)
        OBVIOUS
    <2>1. p1 = p /\ BarInv(n, tr, p, b, c)
        BY DEF KeyInv
    <2>2. b.slot <= Slot(n)
        BY <2>1, SlotMonotone DEF BarInv
    <2> QED BY <1>1, <2>1, <2>2 DEF BarInv
<1>5. CandlesInv(n, q, p1, c)
    <2>1. CandlesInv(n, tr, p, c)
        BY DEF KeyInv
    <2>2. Below(c, Slot(n))
        BY <2>1 DEF CandlesInv
    <2>3. \A i \in p1 + 1 .. Len(q) : Below(c, Slot(q[i].time))
        BY <1>1, <2>1, <2>2 DEF CandlesInv
    <2> QED BY <2>1, <2>3 DEF CandlesInv
<1> QED BY <1>2, <1>3, <1>4, <1>5 DEF KeyInv, q

LEMMA MaxMin ==
    ASSUME NEW x \in Nat, NEW y \in Nat
    PROVE  Max({x, y}) \in Nat /\ Min({x, y}) \in Nat
<1>1. \E m \in {x, y} : \A z \in {x, y} : m >= z
    OBVIOUS
<1>2. Max({x, y}) \in {x, y}
    BY <1>1 DEF Max
<1>3. \E m \in {x, y} : \A z \in {x, y} : m <= z
    OBVIOUS
<1>4. Min({x, y}) \in {x, y}
    BY <1>3 DEF Min
<1> QED BY <1>2, <1>4

\* ingest_tick: the bar is of the tick's slot.
LEMMA BarAfterTick ==
    ASSUME NEW b, b # NoBar => b \in Bars, NEW t \in Trades
    PROVE  /\ BarAfter(b, t) \in Bars
           /\ BarAfter(b, t).slot = Slot(t.time)
<1>1. t.time \in Nat /\ t.price \in Nat /\ Slot(t.time) \in Nat
    BY SlotNat DEF Trades
<1>2. CASE StartsBar(b, t)
    BY <1>1, <1>2 DEF BarAfter, NewBar, Bars
<1>3. CASE ~StartsBar(b, t)
    <2>1. b \in Bars /\ b.slot = Slot(t.time)
        BY <1>3 DEF StartsBar
    <2> DEFINE high == Max({b.high, t.price})
               low  == Min({b.low, t.price})
    <2>2. high \in Nat /\ low \in Nat
        BY <1>1, <2>1, MaxMin DEF Bars
    <2>3. BarAfter(b, t) =
            [b EXCEPT !.high = high, !.low = low,
                      !.close = t.price, !.volume = b.volume + 1]
        BY <1>3 DEF BarAfter
    <2> HIDE DEF high, low
    <2>4. b.volume + 1 \in Nat
        BY <2>1 DEF Bars
    <2> QED BY <1>1, <2>1, <2>2, <2>3, <2>4 DEF Bars
<1> QED BY <1>2, <1>3

LEMMA KeyIngests ==
    ASSUME NEW n \in Nat, NEW tr, NEW p, NEW b, NEW c, KeyInv(n, tr, p, b, c),
           p < Len(tr),
           NEW out, out = <<>> \/ \E d \in Candles : out = <<d>> /\ d.bar = b,
           out = <<>> <=> ~Closes(b, tr[p + 1])
    PROVE  KeyInv(n, tr, p + 1, BarAfter(b, tr[p + 1]), c \o out)
<1> DEFINE t == tr[p + 1]
           b1 == BarAfter(b, t)
<1>1. /\ tr \in Seq(Trades) /\ Len(tr) \in Nat /\ p \in 0 .. Len(tr)
      /\ p + 1 \in 1 .. Len(tr)
    BY DEF KeyInv, TradesInv
<1>2. b # NoBar => BarInv(n, tr, p, b, c)
    BY DEF KeyInv
<1>3. t \in Trades /\ t.time \in 0 .. n /\ t.time \in Nat
      /\ IsMarketOpen(t.time)
    BY <1>1, TimesAreNat DEF KeyInv, TradesInv
<1> HIDE DEF t
<1>4. b1 \in Bars /\ b1.slot = Slot(t.time)
    BY <1>2, <1>3, BarAfterTick DEF BarInv
<1>5. \A i \in p + 1 .. Len(tr) :
         Slot(t.time) <= Slot(tr[i].time) /\ Slot(tr[i].time) \in Nat
    <2> SUFFICES ASSUME NEW i \in p + 1 .. Len(tr)
                 PROVE  /\ Slot(t.time) <= Slot(tr[i].time)
                        /\ Slot(tr[i].time) \in Nat
        OBVIOUS
    <2>1. i \in 1 .. Len(tr) /\ p + 1 <= i
        BY <1>1
    <2>2. tr[i].time \in Nat /\ t.time <= tr[i].time
        BY <1>1, <2>1, TimesAreNat DEF KeyInv, TradesInv, t
    <2> QED BY <1>3, <2>2, SlotMonotone, SlotNat
<1>6. \A x \in Nat : x >= n => Slot(t.time) <= Slot(x) /\ Slot(x) \in Nat
    <2> SUFFICES ASSUME NEW x \in Nat, x >= n
                 PROVE  Slot(t.time) <= Slot(x) /\ Slot(x) \in Nat
        OBVIOUS
    <2>1. t.time <= x
        BY <1>3
    <2> QED BY <1>3, <2>1, SlotMonotone, SlotNat
<1>7. CandlesInv(n, tr, p, c) /\ Slot(t.time) \in Nat
    BY <1>3, SlotNat DEF KeyInv
<1> HIDE DEF b1
<1>8. /\ Below(c \o out, Slot(t.time))
      /\ CandlesInv(n, tr, p + 1, c \o out)
    <2>1. Below(c, Slot(t.time))
        BY <1>1, <1>7 DEF CandlesInv, t
    <2>2. CASE out = <<>>
        <3>1. c \o out = c
            BY <2>2, <1>7, PushNothing DEF CandlesInv
        <3> QED BY <1>1, <1>7, <2>1, <3>1 DEF CandlesInv
    <2>3. CASE out # <<>>
        <3>1. PICK d \in Candles : out = <<d>> /\ d.bar = b
            BY <2>3
        <3>2. b # NoBar /\ b.slot # Slot(t.time)
            BY <2>3 DEF Closes, StartsBar, t
        <3>3. b.slot \in Nat /\ b.slot < Slot(t.time)
            BY <1>1, <1>2, <1>7, <3>2 DEF BarInv, Bars, t
        <3>4. Below(c, d.bar.slot)
            BY <1>2, <3>1, <3>2 DEF BarInv
        <3>5. /\ c \o out \in Seq(Candles)
              /\ Rising(c \o out)
              /\ \A x \in Nat : Below(c, x) /\ b.slot < x => Below(c \o out, x)
            BY <1>7, <3>1, <3>4, Push DEF CandlesInv
        <3>6. \A i \in p + 2 .. Len(tr) : Below(c \o out, Slot(tr[i].time))
            <4> SUFFICES ASSUME NEW i \in p + 2 .. Len(tr)
                         PROVE  Below(c \o out, Slot(tr[i].time))
                OBVIOUS
            <4>1. i \in p + 1 .. Len(tr)
                BY <1>1
            <4>2. Below(c, Slot(tr[i].time))
                BY <1>7, <4>1 DEF CandlesInv
            <4>3. Slot(tr[i].time) \in Nat /\ b.slot < Slot(tr[i].time)
                BY <1>5, <1>7, <3>3, <4>1
            <4> QED BY <3>5, <4>2, <4>3
        <3>7. \A x \in Nat : x >= n /\ IsMarketOpen(x)
                                => Below(c \o out, Slot(x))
            <4> SUFFICES ASSUME NEW x \in Nat, x >= n, IsMarketOpen(x)
                         PROVE  Below(c \o out, Slot(x))
                OBVIOUS
            <4>1. Below(c, Slot(x))
                BY <1>7 DEF CandlesInv
            <4>2. Slot(x) \in Nat /\ b.slot < Slot(x)
                BY <1>6, <1>7, <3>3
            <4> QED BY <3>5, <4>1, <4>2
        <3>8. p + 1 + 1 = p + 2
            BY <1>1
        <3> QED BY <1>7, <2>1, <3>3, <3>5, <3>6, <3>7, <3>8 DEF CandlesInv
    <2> QED BY <2>2, <2>3
<1>9. BarInv(n, tr, p + 1, b1, c \o out)
    BY <1>1, <1>3, <1>4, <1>5, <1>8 DEF BarInv
<1> QED BY <1>1, <1>8, <1>9 DEF KeyInv, t, b1

LEMMA KeyFlushes ==
    ASSUME NEW n \in Nat, NEW tr, NEW p, NEW b, NEW c, KeyInv(n, tr, p, b, c),
           ~IsMarketOpen(n), b # NoBar,
           NEW d \in Candles, d.bar = b
    PROVE  KeyInv(n, tr, Len(tr), NoBar, c \o <<d>>)
<1>1. BarInv(n, tr, p, b, c) /\ CandlesInv(n, tr, p, c) /\ Len(tr) \in Nat
    BY DEF KeyInv, TradesInv
<1>2. PICK t \in 0 .. n : IsMarketOpen(t) /\ b.slot = Slot(t)
    BY <1>1 DEF BarInv
<1>3. /\ c \o <<d>> \in Seq(Candles)
      /\ Rising(c \o <<d>>)
      /\ \A x \in Nat : Below(c, x) /\ b.slot < x => Below(c \o <<d>>, x)
    BY <1>1, Push DEF BarInv, CandlesInv
<1>4. \A x \in Nat : x >= n /\ IsMarketOpen(x) => b.slot < Slot(x)
    BY <1>2, ReopensLater
<1>5. \A x \in Nat : x >= n /\ IsMarketOpen(x) => Below(c \o <<d>>, Slot(x))
    BY <1>1, <1>3, <1>4, SlotNat DEF CandlesInv
<1>6. CandlesInv(n, tr, Len(tr), c \o <<d>>)
    BY <1>1, <1>3, <1>5 DEF CandlesInv
<1> QED BY <1>1, <1>6 DEF KeyInv

-----------------------------------------------------------------------------
(* The invariant of the engine.                                            *)

FeedInv ==
    /\ now \in Nat /\ session \in Nat
    /\ trades \in [Keys -> Seq(Trades)]
    /\ past \in [Keys -> Nat]
    /\ \A k \in Keys :
          /\ KeyInv(now, trades[k], past[k], bars[k], candles[k])
          /\ ~streaming => bars[k] = NoBar /\ past[k] = Len(trades[k])

LEMMA Marks ==
    ASSUME NEW tr \in Seq(Trades), NEW i \in 1 .. Len(tr), NEW s \in Nat
    PROVE  SameTimes([tr EXCEPT ![i].by = s], tr)
<1> DEFINE r == [tr[i] EXCEPT !.by = s]
<1>1. tr[i] \in Trades
    OBVIOUS
<1>2. r \in Trades /\ r.time = tr[i].time
    BY <1>1 DEF Trades
<1>3. [tr EXCEPT ![i].by = s] = [tr EXCEPT ![i] = r]
    OBVIOUS
<1> HIDE DEF r
<1> QED BY <1>2, <1>3 DEF SameTimes

LEMMA SameAsItself ==
    ASSUME NEW tr \in Seq(Trades)
    PROVE  SameTimes(tr, tr)
BY DEF SameTimes

\* A message, for one key: its trades after it.
LEMMA HandledKeepsTimes ==
    ASSUME FeedInv, NEW told, told \subseteq Waiting, NEW k \in Keys
    PROVE  SameTimes(Handled(told)[k], trades[k])
<1>1. trades[k] \in Seq(Trades) /\ session \in Nat
    BY DEF FeedInv
<1>2. CASE k \in told
    <2>1. past[k] + 1 \in 1 .. Len(trades[k])
        BY <1>1, <1>2 DEF Waiting, FeedInv
    <2>2. Handled(told)[k] = [trades[k] EXCEPT ![past[k] + 1].by = session]
        BY <1>2 DEF Handled
    <2> QED BY <1>1, <2>1, <2>2, Marks
<1>3. CASE k \notin told
    BY <1>1, <1>3, SameAsItself DEF Handled
<1> QED BY <1>2, <1>3

\* A candle of an open bar.
LEMMA CandleOfBar ==
    ASSUME session \in Nat, NEW b \in Bars, NEW cause \in {"tick", "flush"}
    PROVE  Candle(b, cause) \in Candles /\ Candle(b, cause).bar = b
BY DEF Candle, Candles

\* Its bar and candles once the ticks of the message are ingested.
LEMMA MessageTicks ==
    ASSUME FeedInv, NEW told, told \subseteq Waiting, NEW k \in Keys
    PROVE  KeyInv(now, Handled(told)[k],
                  past[k] + (IF k \in told THEN 1 ELSE 0),
                  BarsAfter(told)[k], candles[k] \o ClosedByTick(told, k))
<1> DEFINE out == ClosedByTick(told, k)
<1>1. /\ KeyInv(now, trades[k], past[k], bars[k], candles[k])
      /\ now \in Nat /\ session \in Nat /\ past[k] \in Nat
    BY DEF FeedInv
<1>2. SameTimes(Handled(told)[k], trades[k])
    BY HandledKeepsTimes
<1>3. CASE k \in told
    <2>1. past[k] < Len(trades[k])
        BY <1>3 DEF Waiting
    <2>2. bars[k] # NoBar => bars[k] \in Bars
        BY <1>1 DEF KeyInv, BarInv
    <2>3. out = <<>> \/ \E d \in Candles : out = <<d>> /\ d.bar = bars[k]
        BY <1>1, <2>2, CandleOfBar DEF ClosedByTick, Closes
    <2>4. out = <<>> <=> ~Closes(bars[k], trades[k][past[k] + 1])
        BY <1>3 DEF ClosedByTick, NextTick
    <2> HIDE DEF out
    <2>5. KeyInv(now, trades[k], past[k] + 1,
                 BarAfter(bars[k], trades[k][past[k] + 1]), candles[k] \o out)
        BY <1>1, <2>1, <2>3, <2>4, KeyIngests
    <2>6. KeyInv(now, Handled(told)[k], past[k] + 1,
                 BarAfter(bars[k], trades[k][past[k] + 1]), candles[k] \o out)
        BY <1>1, <1>2, <2>5, KeyMarked
    <2> QED BY <1>3, <2>6 DEF BarsAfter, NextTick, out
<1>4. CASE k \notin told
    <2>1. out = <<>> /\ BarsAfter(told)[k] = bars[k]
        BY <1>4 DEF ClosedByTick, BarsAfter
    <2>2. candles[k] \o <<>> = candles[k]
        BY <1>1, PushNothing DEF KeyInv, CandlesInv
    <2>3. KeyInv(now, Handled(told)[k], past[k], bars[k], candles[k])
        BY <1>1, <1>2, KeyMarked
    <2> QED BY <1>1, <1>4, <2>1, <2>2, <2>3
<1> QED BY <1>3, <1>4

\* Its candles when the session ends, flushed or not.
LEMMA MessageEnds ==
    ASSUME FeedInv, NEW told, told \subseteq Waiting, NEW k \in Keys
    PROVE  /\ KeyInv(now, Handled(told)[k], Len(trades[k]), NoBar, candles[k])
           /\ KeyInv(now, Handled(told)[k], Len(trades[k]), NoBar,
                     candles[k] \o ClosedByTick(told, k))
           /\ KeyInv(now, Handled(told)[k], Len(trades[k]), NoBar,
                     candles[k] \o ClosedByTick(told, k)
                                \o FlushedAfter(told, k))
<1> DEFINE q == Handled(told)[k]
           c == candles[k] \o ClosedByTick(told, k)
           b == BarsAfter(told)[k]
           p == past[k] + (IF k \in told THEN 1 ELSE 0)
<1>1. /\ KeyInv(now, trades[k], past[k], bars[k], candles[k])
      /\ now \in Nat /\ session \in Nat
    BY DEF FeedInv
<1>2. SameTimes(q, trades[k]) /\ Len(q) = Len(trades[k])
    BY HandledKeepsTimes DEF SameTimes
<1>3. KeyInv(now, q, p, b, c)
    BY MessageTicks
<1> HIDE DEF q, c, b, p
<1>4. KeyInv(now, q, Len(trades[k]), NoBar, candles[k])
    <2>1. KeyInv(now, q, past[k], bars[k], candles[k])
        BY <1>1, <1>2, KeyMarked
    <2> QED BY <1>1, <1>2, <2>1, KeyEnds
<1>5. KeyInv(now, q, Len(trades[k]), NoBar, c)
    BY <1>1, <1>2, <1>3, KeyEnds
<1>6. KeyInv(now, q, Len(trades[k]), NoBar, c \o FlushedAfter(told, k))
    <2>1. CASE EndsAfter(told) /\ b # NoBar
        <3>1. b \in Bars
            BY <1>3, <2>1 DEF KeyInv, BarInv
        <3>2. FlushedAfter(told, k) = <<Candle(b, "flush")>>
            BY <2>1 DEF FlushedAfter, b
        <3>3. Candle(b, "flush") \in Candles /\ Candle(b, "flush").bar = b
            BY <1>1, <3>1, CandleOfBar
        <3>4. ~IsMarketOpen(now)
            BY <2>1 DEF EndsAfter
        <3> QED BY <1>1, <1>2, <1>3, <2>1, <3>2, <3>3, <3>4, KeyFlushes
    <2>2. CASE ~(EndsAfter(told) /\ b # NoBar)
        <3>1. FlushedAfter(told, k) = <<>>
            BY <2>2 DEF FlushedAfter, b
        <3>2. c \o <<>> = c
            BY <1>5, PushNothing DEF KeyInv, CandlesInv
        <3> QED BY <1>5, <3>1, <3>2
    <2> QED BY <2>1, <2>2
<1> QED BY <1>4, <1>5, <1>6 DEF q, c

LEMMA HandledTyped ==
    ASSUME FeedInv, NEW told, told \subseteq Waiting
    PROVE  Handled(told) \in [Keys -> Seq(Trades)]
<1>1. \A k \in Keys : Handled(told)[k] \in Seq(Trades)
    BY HandledKeepsTimes DEF SameTimes
<1> QED BY <1>1 DEF Handled

\* A step that ends the session keeps the invariant when it does for each key.
LEMMA EndKeepsInv ==
    ASSUME FeedInv, EndSession,
           now' = now, session' = session,
           trades' \in [Keys -> Seq(Trades)],
           \A k \in Keys : Len(trades'[k]) = Len(trades[k]),
           \A k \in Keys :
              KeyInv(now, trades'[k], Len(trades[k]), NoBar, candles'[k])
    PROVE  FeedInv'
<1>1. \A k \in Keys : Len(trades[k]) \in Nat
    BY DEF FeedInv
<1>2. /\ past' = [k \in Keys |-> Len(trades[k])]
      /\ bars' = [k \in Keys |-> NoBar]
    BY DEF EndSession, NoBars
<1>3. past' \in [Keys -> Nat]
    BY <1>1, <1>2
<1>4. \A k \in Keys :
        KeyInv(now', trades'[k], past'[k], bars'[k], candles'[k])
    BY <1>2
<1> QED BY <1>2, <1>3, <1>4 DEF FeedInv

LEMMA FeedInit == Init => FeedInv
<1> SUFFICES ASSUME Init
             PROVE  FeedInv
    OBVIOUS
<1>1. ASSUME NEW k \in Keys
      PROVE  KeyInv(now, trades[k], past[k], bars[k], candles[k])
    <2>1. /\ trades[k] = <<>> /\ past[k] = 0 /\ bars[k] = NoBar
          /\ candles[k] = <<>>
        BY DEF Init, NoBars
    <2>2. TradesInv(now, <<>>)
        BY DEF TradesInv
    <2>3. CandlesInv(now, <<>>, 0, <<>>)
        BY DEF CandlesInv, Rising, Below
    <2> QED BY <2>1, <2>2, <2>3 DEF KeyInv
<1> QED BY <1>1 DEF Init, FeedInv, NoBars

LEMMA FeedStep == FeedInv /\ [Next]_vars => FeedInv'
<1> SUFFICES ASSUME FeedInv, [Next]_vars
             PROVE  FeedInv'
    OBVIOUS
<1>1. /\ now \in Nat /\ session \in Nat
      /\ trades \in [Keys -> Seq(Trades)] /\ past \in [Keys -> Nat]
    BY DEF FeedInv
<1>2. CASE Tick
    <2>1. \A k \in Keys : KeyInv(now', trades[k], past[k], bars[k], candles[k])
        BY <1>1, <1>2, KeyLater DEF Tick, FeedInv
    <2> QED BY <1>1, <1>2, <2>1 DEF Tick, FeedInv
<1>3. ASSUME NEW key \in Keys, NEW p \in PricesOf[key], Trade(key, p)
      PROVE  FeedInv'
    <2> DEFINE t == [price |-> p, time |-> now, by |-> 0]
    <2>1. t \in Trades /\ t.time = now
        BY <1>1, FeedAssumption DEF Trades
    <2>2. /\ trades' = [trades EXCEPT ![key] = Append(@, t)]
          /\ past' = IF streaming THEN past ELSE [past EXCEPT ![key] = @ + 1]
          /\ IsMarketOpen(now)
          /\ UNCHANGED <<now, streaming, session, bars, candles>>
        BY <1>3 DEF Trade
    <2> HIDE DEF t
    <2>3. trades' \in [Keys -> Seq(Trades)] /\ past' \in [Keys -> Nat]
        BY <1>1, <2>1, <2>2
    <2>4. KeyInv(now, trades'[key], past'[key], bars[key], candles[key])
        <3>1. /\ KeyInv(now, trades[key], past[key], bars[key], candles[key])
              /\ ~streaming => /\ bars[key] = NoBar
                               /\ past[key] = Len(trades[key])
            BY DEF FeedInv
        <3>2. trades'[key] = Append(trades[key], t)
            BY <1>1, <2>2
        <3>3. past'[key] = IF streaming THEN past[key] ELSE past[key] + 1
            BY <1>1, <2>2
        <3> QED BY <1>1, <2>1, <2>2, <3>1, <3>2, <3>3, KeyTrades
    <2>5. \A k \in Keys :
            KeyInv(now, trades'[k], past'[k], bars[k], candles[k])
        BY <1>1, <2>2, <2>4 DEF FeedInv
    <2>6. \A k \in Keys : ~streaming =>
            bars[k] = NoBar /\ past'[k] = Len(trades'[k])
        BY <1>1, <2>2 DEF FeedInv
    <2> QED BY <1>1, <2>2, <2>3, <2>5, <2>6 DEF FeedInv
<1>4. CASE Login
    BY <1>4 DEF Login, FeedInv
<1>5. ASSUME NEW readable \in BOOLEAN, StartSession(readable)
      PROVE  FeedInv'
    BY <1>1, <1>5 DEF StartSession, FeedInv
<1>6. ASSUME NEW told \in SUBSET Keys, LiveMessage(told)
      PROVE  FeedInv'
    <2>1. /\ told \subseteq Waiting
          /\ trades' = Handled(told)
          /\ candles' = [k \in Keys |-> candles[k] \o ClosedByTick(told, k)
                                                   \o FlushedAfter(told, k)]
          /\ now' = now /\ session' = session
        BY <1>6 DEF LiveMessage
    <2>2. trades' \in [Keys -> Seq(Trades)]
        BY <2>1, HandledTyped
    <2>3. CASE EndsAfter(told)
        <3>1. EndSession
            BY <1>6, <2>3 DEF LiveMessage
        <3>2. \A k \in Keys : Len(trades'[k]) = Len(trades[k])
            BY <2>1, HandledKeepsTimes DEF SameTimes
        <3>3. \A k \in Keys :
                KeyInv(now, trades'[k], Len(trades[k]), NoBar, candles'[k])
            BY <2>1, MessageEnds
        <3> QED BY <2>1, <2>2, <3>1, <3>2, <3>3, EndKeepsInv
    <2>4. CASE ~EndsAfter(told)
        <3>1. /\ bars' = BarsAfter(told)
              /\ past' = [k \in Keys |->
                             past[k] + IF k \in told THEN 1 ELSE 0]
              /\ streaming' = streaming /\ streaming
            BY <1>6, <2>4 DEF LiveMessage
        <3>2. past' \in [Keys -> Nat]
            BY <1>1, <3>1
        <3>3. ASSUME NEW k \in Keys
              PROVE  KeyInv(now', trades'[k], past'[k], bars'[k], candles'[k])
            <4> DEFINE c == candles[k] \o ClosedByTick(told, k)
            <4>1. KeyInv(now, trades'[k], past'[k], bars'[k], c)
                BY <2>1, <3>1, MessageTicks
            <4> HIDE DEF c
            <4>2. c \o <<>> = c
                BY <4>1, PushNothing DEF KeyInv, CandlesInv
            <4>3. FlushedAfter(told, k) = <<>>
                BY <2>4 DEF FlushedAfter
            <4>4. candles'[k] = c
                BY <2>1, <4>2, <4>3 DEF c
            <4> QED BY <2>1, <4>1, <4>4
        <3> QED BY <1>1, <2>1, <2>2, <3>1, <3>2, <3>3 DEF FeedInv
    <2> QED BY <2>3, <2>4
<1>7. ASSUME NEW told \in SUBSET Keys, NEW key \in Keys,
             PublishFails(told, key)
      PROVE  FeedInv'
    <2>1. /\ told \subseteq Waiting
          /\ trades' = Handled(told)
          /\ candles' = [k \in Keys |->
                 IF k = key THEN candles[k]
                 ELSE candles[k] \o ClosedByTick(told, k)]
          /\ now' = now /\ session' = session /\ EndSession
        BY <1>7 DEF PublishFails, Fails
    <2>2. trades' \in [Keys -> Seq(Trades)]
        BY <2>1, HandledTyped
    <2>3. \A k \in Keys : Len(trades'[k]) = Len(trades[k])
        BY <2>1, HandledKeepsTimes DEF SameTimes
    <2>4. \A k \in Keys :
            KeyInv(now, trades'[k], Len(trades[k]), NoBar, candles'[k])
        BY <2>1, MessageEnds
    <2> QED BY <2>1, <2>2, <2>3, <2>4, EndKeepsInv
<1>8. ASSUME NEW told \in SUBSET Keys, NEW made \in SUBSET Keys,
             FlushFails(told, made)
      PROVE  FeedInv'
    <2>1. /\ told \subseteq Waiting
          /\ trades' = Handled(told)
          /\ candles' = [k \in Keys |-> candles[k] \o ClosedByTick(told, k)
                 \o IF k \in made THEN FlushedAfter(told, k) ELSE <<>>]
          /\ now' = now /\ session' = session /\ EndSession
        BY <1>8 DEF FlushFails, Fails
    <2>2. trades' \in [Keys -> Seq(Trades)]
        BY <2>1, HandledTyped
    <2>3. \A k \in Keys : Len(trades'[k]) = Len(trades[k])
        BY <2>1, HandledKeepsTimes DEF SameTimes
    <2>4. ASSUME NEW k \in Keys
          PROVE  KeyInv(now, trades'[k], Len(trades[k]), NoBar, candles'[k])
        <3> DEFINE c == candles[k] \o ClosedByTick(told, k)
        <3>1. /\ KeyInv(now, trades'[k], Len(trades[k]), NoBar, c)
              /\ KeyInv(now, trades'[k], Len(trades[k]), NoBar,
                        c \o FlushedAfter(told, k))
            BY <2>1, MessageEnds
        <3>2. candles'[k] = c \o IF k \in made THEN FlushedAfter(told, k)
                                 ELSE <<>>
            BY <2>1
        <3> HIDE DEF c
        <3>3. c \o <<>> = c
            BY <3>1, PushNothing DEF KeyInv, CandlesInv
        <3> QED BY <3>1, <3>2, <3>3
    <2> QED BY <2>1, <2>2, <2>3, <2>4, EndKeepsInv
<1>9. CASE Drop
    <2>1. /\ trades' = trades /\ candles' = candles
          /\ now' = now /\ session' = session /\ EndSession
        BY <1>9 DEF Drop, Fails
    <2>2. \A k \in Keys :
            KeyInv(now, trades[k], Len(trades[k]), NoBar, candles[k])
        BY <1>1, KeyEnds DEF FeedInv
    <2> QED BY <1>1, <2>1, <2>2, EndKeepsInv
<1>10. CASE Finished
    BY <1>10 DEF Finished, vars, FeedInv
<1>11. CASE UNCHANGED vars
    BY <1>11 DEF vars, FeedInv
<1> QED BY <1>2, <1>3, <1>4, <1>5, <1>6, <1>7, <1>8, <1>9, <1>10, <1>11
        DEF Next

\* The open bar of a key is later than all of its candles and no later than
\* its trades still to come.
THEOREM FeedInvariant == Spec => []FeedInv
BY FeedInit, FeedStep, PTL DEF Spec

(* data-engine publishes the candles of a key for ever later slots: no     *)
(* reconnection, failed publication, silent night or market closing makes  *)
(* it repeat a slot or go back to an earlier one.                          *)
THEOREM CandlesMoveForward == Spec => []SlotsMoveForward
<1>1. FeedInv => SlotsMoveForward
    <2> SUFFICES ASSUME FeedInv, NEW k \in Keys
                 PROVE  \A i, j \in DOMAIN candles[k] :
                          i < j => candles[k][i].bar.slot
                                     < candles[k][j].bar.slot
        BY DEF SlotsMoveForward
    <2>1. candles[k] \in Seq(Candles) /\ Rising(candles[k])
        BY DEF FeedInv, KeyInv, CandlesInv
    <2>2. DOMAIN candles[k] = 1 .. Len(candles[k])
        BY <2>1
    <2> QED BY <2>1, <2>2 DEF Rising
<1> QED BY <1>1, FeedInvariant, PTL

-----------------------------------------------------------------------------
(* Volumes.  What a session heard of a key, published of it and has open.  *)

Heard(tr, s) == {i \in DOMAIN tr : tr[i].by = s}

CandleVolumes(c) == [i \in DOMAIN c |-> c[i].bar.volume]

CandlesOf(c, s) == {i \in DOMAIN c : c[i].by = s}

Out(c, s) == SumFunctionOnSet(CandleVolumes(c), CandlesOf(c, s))

\* Trades that differ in who heard them only.
SameTrades(q, tr) ==
    /\ SameTimes(q, tr)
    /\ \A i \in 1 .. Len(tr) : q[i].price = tr[i].price

LEMMA IndicesFinite ==
    ASSUME NEW D, NEW c \in Seq(D), NEW S, S \subseteq DOMAIN c
    PROVE  IsFiniteSet(S)
<1>1. DOMAIN c = 1 .. Len(c) /\ Len(c) \in Nat
    OBVIOUS
<1>2. IsFiniteSet(1 .. Len(c))
    BY <1>1, FS_Interval
<1> QED BY <1>1, <1>2, FS_Subset

LEMMA OutIsNat ==
    ASSUME NEW c \in Seq(Candles), NEW s
    PROVE  Out(c, s) \in Nat
<1>1. IsFiniteSet(CandlesOf(c, s))
    BY IndicesFinite DEF CandlesOf
<1>2. \A i \in CandlesOf(c, s) : CandleVolumes(c)[i] \in Nat
    <2> SUFFICES ASSUME NEW i \in DOMAIN c
                 PROVE  CandleVolumes(c)[i] \in Nat
        BY DEF CandlesOf
    <2>1. c[i] \in Candles
        OBVIOUS
    <2>2. c[i].bar \in Bars
        BY <2>1 DEF Candles
    <2>3. c[i].bar.volume \in Nat
        BY <2>2 DEF Bars
    <2> QED BY <2>3 DEF CandleVolumes
<1> HIDE DEF Candles
<1> QED BY <1>1, <1>2, SumNat DEF Out

LEMMA OutOfNothing ==
    ASSUME NEW c, NEW s, CandlesOf(c, s) = {}
    PROVE  Out(c, s) = 0
<1>1. IsFiniteSet({})
    BY FS_EmptySet
<1> QED BY <1>1, SumUnrolled DEF Out

\* A candle that is published adds its volume to its session's.
LEMMA OutPush ==
    ASSUME NEW c \in Seq(Candles), NEW d \in Candles, NEW s
    PROVE  Out(c \o <<d>>, s) =
              Out(c, s) + (IF d.by = s THEN d.bar.volume ELSE 0)
<1> DEFINE e == c \o <<d>>
           n == Len(c) + 1
<1>1. /\ e \in Seq(Candles)
      /\ DOMAIN e = 1 .. n /\ DOMAIN c = 1 .. Len(c) /\ Len(c) \in Nat
      /\ \A i \in 1 .. Len(c) : e[i] = c[i]
      /\ e[n] = d
    OBVIOUS
<1> HIDE DEF e
<1>2. \A i \in DOMAIN e : CandleVolumes(e)[i] \in Int
    <2> SUFFICES ASSUME NEW i \in DOMAIN e
                 PROVE  CandleVolumes(e)[i] \in Int
        OBVIOUS
    <2>1. e[i] \in Candles
        BY <1>1
    <2>2. e[i].bar \in Bars
        BY <2>1 DEF Candles
    <2>3. e[i].bar.volume \in Int
        BY <2>2 DEF Bars
    <2> QED BY <2>3 DEF CandleVolumes
<1>3. n \in DOMAIN e /\ n \notin DOMAIN c /\ DOMAIN c \subseteq DOMAIN e
    BY <1>1
<1>4. IsFiniteSet(CandlesOf(c, s)) /\ CandlesOf(c, s) \subseteq DOMAIN c
    BY IndicesFinite DEF CandlesOf
<1>5. SumFunctionOnSet(CandleVolumes(e), CandlesOf(c, s)) = Out(c, s)
    <2>1. \A i \in CandlesOf(c, s) : CandleVolumes(e)[i] = CandleVolumes(c)[i]
        BY <1>1, <1>3, <1>4 DEF CandleVolumes
    <2> QED BY <1>4, <2>1, SumCongruent DEF Out
<1>6. CASE d.by = s
    <2>1. CandlesOf(e, s) = CandlesOf(c, s) \cup {n}
        BY <1>1, <1>6 DEF CandlesOf
    <2>2. n \notin CandlesOf(c, s)
          /\ \A i \in CandlesOf(c, s) \cup {n} : CandleVolumes(e)[i] \in Int
        BY <1>2, <1>3, <1>4
    <2>3. SumFunctionOnSet(CandleVolumes(e), CandlesOf(c, s) \cup {n})
            = SumFunctionOnSet(CandleVolumes(e), CandlesOf(c, s))
                + CandleVolumes(e)[n]
        BY <1>4, <2>2, SumWith
    <2>4. CandleVolumes(e)[n] = d.bar.volume
        BY <1>1, <1>3 DEF CandleVolumes
    <2> QED BY <1>5, <1>6, <2>1, <2>3, <2>4 DEF Out, e
<1>7. CASE d.by # s
    <2>1. CandlesOf(e, s) = CandlesOf(c, s)
        BY <1>1, <1>7 DEF CandlesOf
    <2>2. Out(e, s) = Out(c, s)
        BY <1>5, <2>1 DEF Out
    <2>3. Out(c, s) \in Nat
        BY OutIsNat
    <2> QED BY <1>7, <2>2, <2>3 DEF e
<1> QED BY <1>6, <1>7

LEMMA HeardFinite ==
    ASSUME NEW tr \in Seq(Trades), NEW s
    PROVE  IsFiniteSet(Heard(tr, s)) /\ Cardinality(Heard(tr, s)) \in Nat
<1>1. IsFiniteSet(Heard(tr, s))
    BY IndicesFinite DEF Heard
<1> QED BY <1>1, FS_CardinalityType

\* A tick that nobody has heard is handled.
LEMMA HeardMark ==
    ASSUME NEW tr \in Seq(Trades), NEW i \in 1 .. Len(tr), tr[i].by = 0,
           NEW x \in Nat, NEW s \in Nat \ {0}
    PROVE  Cardinality(Heard([tr EXCEPT ![i].by = x], s))
              = Cardinality(Heard(tr, s)) + (IF s = x THEN 1 ELSE 0)
<1> DEFINE q == [tr EXCEPT ![i].by = x]
<1>1. DOMAIN q = DOMAIN tr /\ i \in DOMAIN tr
    OBVIOUS
<1>2. \A j \in DOMAIN tr : q[j].by = IF j = i THEN x ELSE tr[j].by
    <2>1. tr[i] \in Trades
        OBVIOUS
    <2> QED BY <2>1 DEF Trades
<1> HIDE DEF q
<1>3. IsFiniteSet(Heard(tr, s)) /\ Cardinality(Heard(tr, s)) \in Nat
    BY HeardFinite
<1>4. i \notin Heard(tr, s)
    BY DEF Heard
<1>5. CASE s = x
    <2>1. Heard(q, s) = Heard(tr, s) \cup {i}
        BY <1>1, <1>2, <1>5 DEF Heard
    <2>2. Cardinality(Heard(tr, s) \cup {i}) = Cardinality(Heard(tr, s)) + 1
        BY <1>3, <1>4, FS_AddElement
    <2> QED BY <1>5, <2>1, <2>2 DEF q
<1>6. CASE s # x
    <2>1. Heard(q, s) = Heard(tr, s)
        BY <1>1, <1>2, <1>4, <1>6 DEF Heard
    <2> QED BY <1>3, <1>6, <2>1 DEF q
<1> QED BY <1>5, <1>6

LEMMA HeardAppend ==
    ASSUME NEW tr \in Seq(Trades), NEW t \in Trades, t.by = 0,
           NEW s \in Nat \ {0}
    PROVE  Heard(Append(tr, t), s) = Heard(tr, s)
<1> DEFINE q == Append(tr, t)
<1>1. /\ DOMAIN q = 1 .. Len(tr) + 1 /\ DOMAIN tr = 1 .. Len(tr)
      /\ \A j \in 1 .. Len(tr) : q[j] = tr[j]
      /\ q[Len(tr) + 1] = t
      /\ Len(tr) \in Nat
    OBVIOUS
<1> HIDE DEF q
<1> QED BY <1>1 DEF Heard, q

LEMMA MaxMinBounds ==
    ASSUME NEW x \in Nat, NEW y \in Nat
    PROVE  /\ Max({x, y}) \in {x, y} /\ Max({x, y}) >= x /\ Max({x, y}) >= y
           /\ Min({x, y}) \in {x, y} /\ Min({x, y}) <= x /\ Min({x, y}) <= y
<1>1. \E m \in {x, y} : \A z \in {x, y} : m >= z
    OBVIOUS
<1>2. /\ Max({x, y}) \in {x, y}
      /\ \A z \in {x, y} : Max({x, y}) >= z
    BY <1>1 DEF Max
<1>3. \E m \in {x, y} : \A z \in {x, y} : m <= z
    OBVIOUS
<1>4. /\ Min({x, y}) \in {x, y}
      /\ \A z \in {x, y} : Min({x, y}) <= z
    BY <1>3 DEF Min
<1> QED BY <1>2, <1>4

\* ingest_tick: a bar that goes on.
LEMMA BarGrows ==
    ASSUME NEW b \in Bars, NEW t \in Trades, ~StartsBar(b, t)
    PROVE  /\ BarAfter(b, t) \in Bars
           /\ BarAfter(b, t).slot = b.slot
           /\ BarAfter(b, t).open = b.open
           /\ BarAfter(b, t).close = t.price
           /\ BarAfter(b, t).volume = b.volume + 1
           /\ BarAfter(b, t).high \in {b.high, t.price}
           /\ BarAfter(b, t).high >= b.high /\ BarAfter(b, t).high >= t.price
           /\ BarAfter(b, t).low \in {b.low, t.price}
           /\ BarAfter(b, t).low <= b.low /\ BarAfter(b, t).low <= t.price
<1> DEFINE high == Max({b.high, t.price})
           low  == Min({b.low, t.price})
<1>1. t.price \in Nat /\ b.high \in Nat /\ b.low \in Nat /\ b.volume + 1 \in Nat
    BY DEF Trades, Bars
<1>2. /\ high \in {b.high, t.price} /\ high >= b.high /\ high >= t.price
      /\ low \in {b.low, t.price} /\ low <= b.low /\ low <= t.price
    BY <1>1, MaxMinBounds
<1>3. BarAfter(b, t) =
        [b EXCEPT !.high = high, !.low = low,
                  !.close = t.price, !.volume = b.volume + 1]
    BY DEF BarAfter
<1> HIDE DEF high, low
<1>4. high \in Nat /\ low \in Nat
    BY <1>1, <1>2
<1> QED BY <1>1, <1>2, <1>3, <1>4 DEF Bars

LEMMA BarStarts ==
    ASSUME NEW b, NEW t \in Trades, StartsBar(b, t)
    PROVE  /\ BarAfter(b, t) \in Bars
           /\ BarAfter(b, t) = NewBar(t)
<1>1. t.time \in Nat /\ t.price \in Nat /\ Slot(t.time) \in Nat
    BY SlotNat DEF Trades
<1> QED BY <1>1 DEF BarAfter, NewBar, Bars

\* The prices of a bar lie between its low and its high.
LEMMA BarStaysInside ==
    ASSUME NEW b, b # NoBar => b \in Bars /\ IsBar(b), NEW t \in Trades
    PROVE  /\ BarAfter(b, t) \in Bars /\ IsBar(BarAfter(b, t))
           /\ BarAfter(b, t).volume =
                 IF StartsBar(b, t) THEN 1 ELSE b.volume + 1
<1>1. t.price \in Nat
    BY DEF Trades
<1>2. CASE StartsBar(b, t)
    BY <1>1, <1>2, BarStarts DEF NewBar, IsBar
<1>3. CASE ~StartsBar(b, t)
    <2>1. b \in Bars /\ IsBar(b)
        BY <1>3 DEF StartsBar
    <2> DEFINE e == BarAfter(b, t)
    <2>2. /\ e \in Bars /\ e.open = b.open /\ e.close = t.price
          /\ e.volume = b.volume + 1
          /\ e.high >= b.high /\ e.high >= t.price
          /\ e.low <= b.low /\ e.low <= t.price
        BY <1>3, <2>1, BarGrows
    <2> HIDE DEF e
    <2>3. IsBar(e)
        BY <1>1, <2>1, <2>2 DEF Bars, IsBar
    <2> QED BY <1>3, <2>2, <2>3 DEF e
<1> QED BY <1>2, <1>3

-----------------------------------------------------------------------------
(* What was heard of a key is published or open: with ss sessions begun,   *)
(* those in dr ended before their flush.                                   *)

Open(b, s, ss) == IF s = ss /\ b # NoBar THEN b.volume ELSE 0

Balanced(out, heard, lost) == IF lost THEN out <= heard ELSE out = heard

Books(tr, b, c, ss, dr) ==
    \A s \in 1 .. ss :
        Balanced(Out(c, s) + Open(b, s, ss), Cardinality(Heard(tr, s)), s \in dr)

KeyHeard(tr, p, b, c, ss, dr) ==
    /\ \A i \in 1 .. Len(tr) :
          tr[i].by \in 0 .. ss /\ (i > p => tr[i].by = 0)
    /\ b # NoBar => b \in Bars /\ IsBar(b)
    /\ \A i \in 1 .. Len(c) : c[i].by \in 1 .. ss /\ IsBar(c[i].bar)
    /\ Books(tr, b, c, ss, dr)

LEMMA OpenIsNat ==
    ASSUME NEW b, b # NoBar => b \in Bars, NEW s, NEW ss
    PROVE  Open(b, s, ss) \in Nat
BY DEF Open, Bars

\* A candle of the running session is published.
LEMMA PushedCandles ==
    ASSUME NEW c \in Seq(Candles), NEW ss \in Nat \ {0},
           \A i \in 1 .. Len(c) : c[i].by \in 1 .. ss /\ IsBar(c[i].bar),
           NEW d \in Candles, d.by = ss, IsBar(d.bar)
    PROVE  \A i \in 1 .. Len(c \o <<d>>) :
              (c \o <<d>>)[i].by \in 1 .. ss /\ IsBar((c \o <<d>>)[i].bar)
<1> DEFINE e == c \o <<d>>
<1>1. /\ Len(e) = Len(c) + 1 /\ Len(c) \in Nat
      /\ \A i \in 1 .. Len(c) : e[i] = c[i]
      /\ e[Len(c) + 1] = d
    OBVIOUS
<1> HIDE DEF e
<1>2. \A i \in 1 .. Len(e) : e[i].by \in 1 .. ss /\ IsBar(e[i].bar)
    <2> SUFFICES ASSUME NEW i \in 1 .. Len(e)
                 PROVE  e[i].by \in 1 .. ss /\ IsBar(e[i].bar)
        OBVIOUS
    <2>1. CASE i = Len(c) + 1
        BY <1>1, <2>1
    <2>2. CASE i # Len(c) + 1
        BY <1>1, <2>2
    <2> QED BY <2>1, <2>2
<1> QED BY <1>2 DEF e

\* A tick is ingested, and the candle that it closes published.
LEMMA HeardTick ==
    ASSUME NEW tr \in Seq(Trades), NEW p \in Nat, p < Len(tr),
           NEW b, NEW c \in Seq(Candles), NEW ss \in Nat \ {0}, NEW dr,
           KeyHeard(tr, p, b, c, ss, dr),
           NEW out, \/ out = <<>> /\ ~Closes(b, tr[p + 1])
                    \/ /\ Closes(b, tr[p + 1])
                       /\ \E d \in Candles : out = <<d>> /\ d.bar = b /\ d.by = ss
    PROVE  KeyHeard([tr EXCEPT ![p + 1].by = ss], p + 1,
                    BarAfter(b, tr[p + 1]), c \o out, ss, dr)
<1> DEFINE t == tr[p + 1]
           q == [tr EXCEPT ![p + 1].by = ss]
           b1 == BarAfter(b, t)
           c1 == c \o out
<1>1. /\ Len(tr) \in Nat /\ p + 1 \in 1 .. Len(tr)
      /\ Len(q) = Len(tr)
      /\ t \in Trades
    OBVIOUS
<1>2. \A j \in 1 .. Len(tr) : q[j].by = IF j = p + 1 THEN ss ELSE tr[j].by
    BY <1>1 DEF Trades
<1>3. t.by = 0
    BY <1>1 DEF KeyHeard
<1>4. \A s \in Nat \ {0} :
        Cardinality(Heard(q, s)) =
            Cardinality(Heard(tr, s)) + (IF s = ss THEN 1 ELSE 0)
    BY <1>1, <1>3, HeardMark
<1>5. /\ b1 \in Bars /\ IsBar(b1) /\ b1 # NoBar
      /\ b1.volume = IF StartsBar(b, t) THEN 1 ELSE b.volume + 1
    BY <1>1, BarStaysInside, FeedAssumption DEF KeyHeard
<1>6. b # NoBar => b \in Bars /\ IsBar(b) /\ b.volume \in Nat
    BY DEF KeyHeard, Bars
<1> HIDE DEF q, b1, t
<1>7. /\ \A i \in 1 .. Len(c1) : c1[i].by \in 1 .. ss /\ IsBar(c1[i].bar)
      /\ \A s \in 1 .. ss :
            Out(c1, s) = Out(c, s) +
                (IF s = ss /\ Closes(b, t) THEN b.volume ELSE 0)
    <2>1. CASE out = <<>>
        <3>1. c1 = c
            BY <2>1, PushNothing
        <3>2. ~Closes(b, t)
            BY <2>1 DEF t
        <3>3. \A s : Out(c, s) \in Nat
            BY OutIsNat
        <3> QED BY <3>1, <3>2, <3>3 DEF KeyHeard
    <2>2. CASE out # <<>>
        <3>1. PICK d \in Candles : out = <<d>> /\ d.bar = b /\ d.by = ss
            BY <2>2
        <3>2. Closes(b, t) /\ IsBar(b)
            BY <2>2, <1>6 DEF Closes, t
        <3>3. \A s : Out(c1, s) = Out(c, s) + IF d.by = s THEN d.bar.volume ELSE 0
            BY <3>1, OutPush
        <3>4. \A i \in 1 .. Len(c1) : c1[i].by \in 1 .. ss /\ IsBar(c1[i].bar)
            BY <3>1, <3>2, PushedCandles DEF KeyHeard
        <3> HIDE DEF c1
        <3> QED BY <3>1, <3>2, <3>3, <3>4
    <2> QED BY <2>1, <2>2
<1> HIDE DEF c1
<1>8. \A i \in 1 .. Len(q) : q[i].by \in 0 .. ss /\ (i > p + 1 => q[i].by = 0)
    BY <1>1, <1>2 DEF KeyHeard
<1>9. ASSUME NEW s \in 1 .. ss
      PROVE  Balanced(Out(c1, s) + Open(b1, s, ss), Cardinality(Heard(q, s)),
                      s \in dr)
    <2> DEFINE o == Out(c, s)
               h == Cardinality(Heard(tr, s))
    <2>1. o \in Nat /\ h \in Nat
        BY OutIsNat, HeardFinite
    <2>2. Balanced(o + Open(b, s, ss), h, s \in dr)
        BY DEF KeyHeard, Books
    <2>3. /\ Out(c1, s) = o + (IF s = ss /\ Closes(b, t) THEN b.volume ELSE 0)
          /\ Cardinality(Heard(q, s)) = h + (IF s = ss THEN 1 ELSE 0)
        BY <1>4, <1>7
    <2> HIDE DEF o, h
    <2>4. CASE s # ss
        BY <2>1, <2>2, <2>3, <2>4 DEF Balanced, Open
    <2>5. CASE s = ss
        <3>1. Out(c1, s) + Open(b1, s, ss) = o + Open(b, s, ss) + 1
            <4>1. CASE Closes(b, t)
                BY <4>1, <1>5, <1>6, <2>1, <2>3, <2>5 DEF Closes, Open, Bars
            <4>2. CASE ~Closes(b, t) /\ StartsBar(b, t)
                BY <4>2, <1>5, <2>1, <2>3, <2>5 DEF Closes, Open, Bars
            <4>3. CASE ~StartsBar(b, t)
                <5>1. b # NoBar /\ ~Closes(b, t)
                    BY <4>3 DEF StartsBar, Closes
                <5> QED BY <4>3, <5>1, <1>5, <1>6, <2>1, <2>3, <2>5 DEF Open, Bars
            <4> QED BY <4>1, <4>2, <4>3
        <3>2. Open(b, s, ss) \in Nat
            BY <1>6, OpenIsNat
        <3> QED BY <2>1, <2>2, <2>3, <2>5, <3>1, <3>2 DEF Balanced
    <2> QED BY <2>4, <2>5
<1> QED BY <1>5, <1>7, <1>8, <1>9 DEF KeyHeard, Books, q, b1, c1, t

\* The session goes on to be one of those that ended before their flush.
LEMMA HeardForgiven ==
    ASSUME NEW tr \in Seq(Trades), NEW p, NEW b, NEW c \in Seq(Candles),
           NEW ss \in Nat \ {0}, NEW dr, KeyHeard(tr, p, b, c, ss, dr)
    PROVE  KeyHeard(tr, p, b, c, ss, dr \cup {ss})
<1>1. ASSUME NEW s \in 1 .. ss
      PROVE  Balanced(Out(c, s) + Open(b, s, ss), Cardinality(Heard(tr, s)),
                      s \in dr \cup {ss})
    <2>1. /\ Out(c, s) \in Nat /\ Open(b, s, ss) \in Nat
          /\ Cardinality(Heard(tr, s)) \in Nat
        BY OutIsNat, OpenIsNat, HeardFinite DEF KeyHeard
    <2> QED BY <2>1 DEF KeyHeard, Books, Balanced
<1> QED BY <1>1 DEF KeyHeard, Books

\* The session ends without its flush: its bar is lost, and perhaps a tick it was
\* handling.
LEMMA HeardLost ==
    ASSUME NEW tr \in Seq(Trades), NEW p \in Nat, NEW b, NEW c \in Seq(Candles),
           NEW ss \in Nat \ {0}, NEW dr, KeyHeard(tr, p, b, c, ss, dr),
           NEW q, \/ q = tr
                  \/ p < Len(tr) /\ q = [tr EXCEPT ![p + 1].by = ss]
    PROVE  KeyHeard(q, Len(tr), NoBar, c, ss, dr \cup {ss})
<1>1. \A i \in 1 .. Len(tr) : tr[i].by \in 0 .. ss
    BY DEF KeyHeard
<1>2. /\ Len(q) = Len(tr) /\ Len(tr) \in Nat
      /\ \A i \in 1 .. Len(q) : q[i].by \in 0 .. ss
    <2>1. CASE q = tr
        BY <2>1, <1>1
    <2>2. CASE p < Len(tr) /\ q = [tr EXCEPT ![p + 1].by = ss]
        <3>1. p + 1 \in 1 .. Len(tr) /\ tr[p + 1] \in Trades
            BY <2>2
        <3>2. \A j \in 1 .. Len(tr) :
                 q[j].by = IF j = p + 1 THEN ss ELSE tr[j].by
            BY <2>2, <3>1 DEF Trades
        <3>3. Len(q) = Len(tr) /\ Len(tr) \in Nat
            BY <2>2
        <3> QED BY <3>2, <3>3, <1>1
    <2> QED BY <2>1, <2>2
<1>3. ASSUME NEW s \in 1 .. ss
      PROVE  /\ Cardinality(Heard(q, s)) \in Nat
             /\ Cardinality(Heard(tr, s)) <= Cardinality(Heard(q, s))
             /\ s # ss => Cardinality(Heard(q, s)) = Cardinality(Heard(tr, s))
    <2>1. Cardinality(Heard(tr, s)) \in Nat
        BY HeardFinite
    <2>2. CASE q = tr
        BY <2>1, <2>2
    <2>3. CASE p < Len(tr) /\ q = [tr EXCEPT ![p + 1].by = ss]
        <3>1. p + 1 \in 1 .. Len(tr) /\ tr[p + 1].by = 0
            BY <2>3 DEF KeyHeard
        <3>2. s \in Nat \ {0}
            OBVIOUS
        <3>3. Cardinality(Heard([tr EXCEPT ![p + 1].by = ss], s)) =
                 Cardinality(Heard(tr, s)) + (IF s = ss THEN 1 ELSE 0)
            <4>1. ss \in Nat
                OBVIOUS
            <4> QED BY <3>1, <3>2, <4>1, HeardMark
        <3>4. Heard(q, s) = Heard([tr EXCEPT ![p + 1].by = ss], s)
            BY <2>3
        <3> QED BY <2>1, <3>3, <3>4
    <2> QED BY <2>2, <2>3
<1>4. ASSUME NEW s \in 1 .. ss
      PROVE  Balanced(Out(c, s) + Open(NoBar, s, ss), Cardinality(Heard(q, s)),
                      s \in dr \cup {ss})
    <2>1. /\ Out(c, s) \in Nat /\ Open(b, s, ss) \in Nat
          /\ Cardinality(Heard(tr, s)) \in Nat
        BY OutIsNat, OpenIsNat, HeardFinite DEF KeyHeard
    <2>2. Open(NoBar, s, ss) = 0 /\ (s # ss => Open(b, s, ss) = 0)
        BY DEF Open
    <2>3. Balanced(Out(c, s) + Open(b, s, ss), Cardinality(Heard(tr, s)), s \in dr)
        BY DEF KeyHeard, Books
    <2> QED BY <1>3, <2>1, <2>2, <2>3 DEF Balanced
<1> QED BY <1>2, <1>4 DEF KeyHeard, Books

\* The session is over with nothing open, ...
LEMMA HeardEnds ==
    ASSUME NEW tr \in Seq(Trades), NEW p, NEW c, NEW ss, NEW dr,
           KeyHeard(tr, p, NoBar, c, ss, dr)
    PROVE  KeyHeard(tr, Len(tr), NoBar, c, ss, dr)
BY DEF KeyHeard

\* ... or its bar is flushed.
LEMMA HeardFlushes ==
    ASSUME NEW tr \in Seq(Trades), NEW p, NEW b, b # NoBar,
           NEW c \in Seq(Candles), NEW ss \in Nat \ {0}, NEW dr,
           KeyHeard(tr, p, b, c, ss, dr),
           NEW d \in Candles, d.bar = b, d.by = ss
    PROVE  KeyHeard(tr, Len(tr), NoBar, c \o <<d>>, ss, dr)
<1> DEFINE c1 == c \o <<d>>
<1>1. \A i \in 1 .. Len(c1) : c1[i].by \in 1 .. ss /\ IsBar(c1[i].bar)
    BY PushedCandles DEF KeyHeard
<1>2. \A s : Out(c1, s) = Out(c, s) + IF d.by = s THEN d.bar.volume ELSE 0
    BY OutPush
<1> HIDE DEF c1
<1>3. ASSUME NEW s \in 1 .. ss
      PROVE  Balanced(Out(c1, s) + Open(NoBar, s, ss), Cardinality(Heard(tr, s)),
                      s \in dr)
    <2>1. Out(c, s) \in Nat
        BY OutIsNat
    <2>2. Out(c1, s) + Open(NoBar, s, ss) = Out(c, s) + Open(b, s, ss)
        BY <1>2, <2>1 DEF Open, KeyHeard, Bars
    <2> QED BY <2>2 DEF KeyHeard, Books
<1>4. \A i \in 1 .. Len(tr) :
         tr[i].by \in 0 .. ss /\ (i > Len(tr) => tr[i].by = 0)
    BY DEF KeyHeard
<1> QED BY <1>1, <1>3, <1>4 DEF KeyHeard, Books, c1

\* The exchange trades.
LEMMA HeardTrades ==
    ASSUME NEW tr \in Seq(Trades), NEW p, NEW b, NEW c,
           NEW ss \in Nat, NEW dr, KeyHeard(tr, p, b, c, ss, dr),
           p \in 0 .. Len(tr),
           NEW t \in Trades, t.by = 0, NEW p1 \in {p, p + 1}
    PROVE  KeyHeard(Append(tr, t), p1, b, c, ss, dr)
<1> DEFINE q == Append(tr, t)
<1>1. /\ Len(q) = Len(tr) + 1 /\ Len(tr) \in Nat
      /\ \A i \in 1 .. Len(tr) : q[i] = tr[i]
      /\ q[Len(tr) + 1] = t
    OBVIOUS
<1>2. \A s \in Nat \ {0} : Heard(q, s) = Heard(tr, s)
    BY HeardAppend
<1> HIDE DEF q
<1>3. \A i \in 1 .. Len(q) : q[i].by \in 0 .. ss /\ (i > p1 => q[i].by = 0)
    <2> SUFFICES ASSUME NEW i \in 1 .. Len(q)
                 PROVE  q[i].by \in 0 .. ss /\ (i > p1 => q[i].by = 0)
        OBVIOUS
    <2>1. CASE i = Len(tr) + 1
        BY <2>1, <1>1
    <2>2. CASE i # Len(tr) + 1
        <3>1. i \in 1 .. Len(tr) /\ (i > p1 => i > p)
            BY <2>2, <1>1
        <3> QED BY <3>1, <1>1 DEF KeyHeard
    <2> QED BY <2>1, <2>2
<1>4. \A s \in 1 .. ss : Heard(q, s) = Heard(tr, s)
    BY <1>2
<1> QED BY <1>3, <1>4 DEF KeyHeard, Books, q

\* A session begins.
LEMMA HeardNothingYet ==
    ASSUME NEW tr \in Seq(Trades), NEW p, NEW c \in Seq(Candles),
           NEW ss \in Nat, NEW dr, ss + 1 \notin dr,
           KeyHeard(tr, p, NoBar, c, ss, dr)
    PROVE  KeyHeard(tr, p, NoBar, c, ss + 1, dr)
<1>1. /\ \A i \in 1 .. Len(tr) :
            tr[i].by \in 0 .. ss + 1 /\ (i > p => tr[i].by = 0)
      /\ \A i \in 1 .. Len(c) : c[i].by \in 1 .. ss + 1 /\ IsBar(c[i].bar)
    BY DEF KeyHeard
<1>2. ASSUME NEW s \in 1 .. ss + 1
      PROVE  Balanced(Out(c, s) + Open(NoBar, s, ss + 1),
                      Cardinality(Heard(tr, s)), s \in dr)
    <2>1. Open(NoBar, s, ss + 1) = 0 /\ Open(NoBar, s, ss) = 0
        BY DEF Open
    <2>2. CASE s \in 1 .. ss
        BY <2>1, <2>2 DEF KeyHeard, Books
    <2>3. CASE s \notin 1 .. ss
        <3>1. s = ss + 1
            BY <2>3
        <3>2. CandlesOf(c, s) = {} /\ Heard(tr, s) = {}
            <4>1. DOMAIN c = 1 .. Len(c) /\ DOMAIN tr = 1 .. Len(tr)
                OBVIOUS
            <4> QED BY <3>1, <4>1 DEF KeyHeard, CandlesOf, Heard
        <3>3. Out(c, s) = 0 /\ Cardinality(Heard(tr, s)) = 0
            BY <3>2, OutOfNothing, FS_EmptySet
        <3> QED BY <2>1, <3>1, <3>3 DEF Balanced
    <2> QED BY <2>2, <2>3
<1> QED BY <1>1, <1>2 DEF KeyHeard, Books

-----------------------------------------------------------------------------
(* The tape.  What a bar tells of a set of a key's trades.                 *)

InSlot(tr, n, slot) == {i \in 1 .. n : Slot(tr[i].time) = slot}

Tells(b, tr, S) ==
    /\ \E i \in S : (\A j \in S : i <= j) /\ b.open = tr[i].price
    /\ \E i \in S : (\A j \in S : j <= i) /\ b.close = tr[i].price
    /\ \E i \in S : b.high = tr[i].price
    /\ \E i \in S : b.low = tr[i].price
    /\ \A i \in S : b.low <= tr[i].price /\ tr[i].price <= b.high
    /\ b.volume = Cardinality(S)

\* A bar of a slot that began after `bg` tells the trades of it so far, and
\* so does a candle that a tick closed in session ss, of all trades of its
\* slot.  Before its first tick, a running session has missed only trades
\* that are no later than its beginning.
KeyTape(tr, p, b, c, ss, bg, live) ==
    /\ b # NoBar =>
          /\ \A i \in 1 .. p : Slot(tr[i].time) <= b.slot
          /\ bg < b.slot * SlotTicks => Tells(b, tr, InSlot(tr, p, b.slot))
    /\ live /\ b = NoBar => \A i \in 1 .. p : tr[i].time <= bg
    /\ \A i \in 1 .. Len(c) :
          c[i].cause = "tick" /\ c[i].by = ss /\ bg < c[i].bar.slot * SlotTicks
             => Tells(c[i].bar, tr, InSlot(tr, Len(tr), c[i].bar.slot))

\* A trade made before a slot began is not in it.
LEMMA BeforeItsSlot ==
    ASSUME NEW t \in Nat, NEW s \in Nat, NEW u \in Nat,
           t <= u, u < s * SlotTicks
    PROVE  Slot(t) < s
<1>1. SlotTicks \in Nat \ {0}
    BY FeedAssumption
<1>2. Slot(t) \in Nat /\ SlotTicks * Slot(t) <= t
    BY <1>1, DivMod DEF Slot
<1>3. CASE s <= Slot(t)
    <2>1. SlotTicks * s <= SlotTicks * Slot(t)
        BY <1>1, <1>2, <1>3, MultipleMonotone
    <2>2. s * SlotTicks = SlotTicks * s /\ SlotTicks * s \in Nat
          /\ SlotTicks * Slot(t) \in Nat
        BY <1>1, <1>2, Z3
    <2> QED BY <1>2, <2>1, <2>2
<1> QED BY <1>2, <1>3

LEMMA TellsSame ==
    ASSUME NEW tr, NEW q, NEW b, NEW S, Tells(b, tr, S),
           \A i \in S : q[i].price = tr[i].price
    PROVE  Tells(b, q, S)
BY DEF Tells

LEMMA InSlotSame ==
    ASSUME NEW tr \in Seq(Trades), NEW q, SameTrades(q, tr),
           NEW n \in Nat, n <= Len(tr), NEW slot
    PROVE  InSlot(q, n, slot) = InSlot(tr, n, slot)
<1>1. \A i \in 1 .. n : i \in 1 .. Len(tr)
    OBVIOUS
<1> QED BY <1>1 DEF InSlot, SameTrades, SameTimes

\* One trade ...
LEMMA TellsOne ==
    ASSUME NEW tr \in Seq(Trades), NEW i \in 1 .. Len(tr)
    PROVE  Tells(NewBar(tr[i]), tr, {i})
<1>1. tr[i] \in Trades
    OBVIOUS
<1>2. tr[i].price \in Nat
    BY <1>1 DEF Trades
<1>3. Cardinality({i}) = 1
    BY FS_Singleton
<1> QED BY <1>2, <1>3 DEF Tells, NewBar

\* ... and one more.
LEMMA TellsOneMore ==
    ASSUME NEW tr \in Seq(Trades), NEW n \in Nat, n < Len(tr),
           NEW S, S \subseteq 1 .. n,
           NEW b \in Bars, ~StartsBar(b, tr[n + 1]), Tells(b, tr, S)
    PROVE  Tells(BarAfter(b, tr[n + 1]), tr, S \cup {n + 1})
<1> DEFINE t == tr[n + 1]
           e == BarAfter(b, t)
           T == S \cup {n + 1}
<1>1. t \in Trades /\ n + 1 \in 1 .. Len(tr) /\ Len(tr) \in Nat
    OBVIOUS
<1>2. t.price \in Nat
    BY <1>1 DEF Trades
<1>3. /\ e.open = b.open /\ e.close = t.price
      /\ e.volume = b.volume + 1
      /\ e.high \in {b.high, t.price}
      /\ e.high >= b.high /\ e.high >= t.price
      /\ e.low \in {b.low, t.price}
      /\ e.low <= b.low /\ e.low <= t.price
    BY <1>1, BarGrows
<1>4. b.high \in Nat /\ b.low \in Nat
    BY DEF Bars
<1>5. \A i \in S : i \in Nat /\ i <= n /\ tr[i].price \in Nat
    <2> SUFFICES ASSUME NEW i \in S
                 PROVE  i \in Nat /\ i <= n /\ tr[i].price \in Nat
        OBVIOUS
    <2>1. tr[i] \in Trades
        BY <1>1
    <2> QED BY <2>1 DEF Trades
<1>6. tr[n + 1] = t
    OBVIOUS
<1> HIDE DEF t, e
<1>7. \E i \in T : (\A j \in T : i <= j) /\ e.open = tr[i].price
    <2>1. PICK i \in S : (\A j \in S : i <= j) /\ b.open = tr[i].price
        BY DEF Tells
    <2>2. \A j \in T : i <= j
        BY <1>5, <2>1
    <2> QED BY <1>3, <2>1, <2>2
<1>8. \E i \in T : (\A j \in T : j <= i) /\ e.close = tr[i].price
    <2>1. \A j \in T : j <= n + 1
        BY <1>5
    <2> QED BY <1>3, <1>6, <2>1
<1>9. /\ \E i \in T : e.high = tr[i].price
      /\ \E i \in T : e.low = tr[i].price
    <2>1. PICK i \in S : b.high = tr[i].price
        BY DEF Tells
    <2>2. PICK j \in S : b.low = tr[j].price
        BY DEF Tells
    <2> QED BY <1>3, <1>6, <2>1, <2>2
<1>10. \A i \in T : e.low <= tr[i].price /\ tr[i].price <= e.high
    <2> SUFFICES ASSUME NEW i \in T
                 PROVE  e.low <= tr[i].price /\ tr[i].price <= e.high
        OBVIOUS
    <2>1. e.high \in Nat /\ e.low \in Nat
        BY <1>2, <1>3, <1>4
    <2>2. CASE i \in S
        <3>1. b.low <= tr[i].price /\ tr[i].price <= b.high
            BY <2>2 DEF Tells
        <3> QED BY <1>3, <1>4, <1>5, <2>1, <2>2, <3>1
    <2>3. CASE i = n + 1
        BY <1>2, <1>3, <1>6, <2>1, <2>3
    <2> QED BY <2>2, <2>3
<1>11. e.volume = Cardinality(T)
    <2>1. IsFiniteSet(S) /\ n + 1 \notin S
        <3>1. IsFiniteSet(1 .. n)
            BY FS_Interval
        <3> QED BY <1>5, <3>1, FS_Subset
    <2>2. Cardinality(T) = Cardinality(S) + 1
        BY <2>1, FS_AddElement
    <2> QED BY <1>3, <2>2 DEF Tells
<1> QED BY <1>7, <1>8, <1>9, <1>10, <1>11 DEF Tells, e, t

\* A tape that it tells is the candle's open, high, low, close and volume.
LEMMA TellsTape ==
    ASSUME NEW tr \in Seq(Trades), NEW S, S \subseteq 1 .. Len(tr),
           NEW b \in Bars, Tells(b, tr, S)
    PROVE  LET paid == {tr[i].price : i \in S}
           IN  /\ b.open = tr[Min(S)].price
               /\ b.close = tr[Max(S)].price
               /\ b.high = Max(paid)
               /\ b.low = Min(paid)
               /\ b.volume = Cardinality(S)
<1> DEFINE paid == {tr[i].price : i \in S}
<1>1. \A i \in S : i \in Nat /\ tr[i].price \in Nat
    <2> SUFFICES ASSUME NEW i \in S
                 PROVE  i \in Nat /\ tr[i].price \in Nat
        OBVIOUS
    <2>1. tr[i] \in Trades
        OBVIOUS
    <2> QED BY <2>1 DEF Trades
<1>2. ASSUME NEW T, T \subseteq Nat, NEW x \in T, \A y \in T : x <= y
      PROVE  Min(T) = x
    <2>1. Min(T) \in T /\ \A y \in T : Min(T) <= y
        BY <1>2 DEF Min
    <2>2. /\ x \in Nat /\ Min(T) \in Nat
          /\ x <= Min(T) /\ Min(T) <= x
        BY <1>2, <2>1
    <2> QED BY <2>2
<1>3. ASSUME NEW T, T \subseteq Nat, NEW x \in T, \A y \in T : y <= x
      PROVE  Max(T) = x
    <2>1. \A y \in T : x >= y
        BY <1>3
    <2>2. Max(T) \in T /\ \A y \in T : Max(T) >= y
        BY <1>3, <2>1 DEF Max
    <2>3. /\ x \in Nat /\ Max(T) \in Nat
          /\ x <= Max(T) /\ Max(T) <= x
        BY <1>3, <2>1, <2>2
    <2> QED BY <2>3
<1>4. b.open = tr[Min(S)].price
    <2>1. PICK i \in S : (\A j \in S : i <= j) /\ b.open = tr[i].price
        BY DEF Tells
    <2> QED BY <1>1, <1>2, <2>1
<1>5. b.close = tr[Max(S)].price
    <2>1. PICK i \in S : (\A j \in S : j <= i) /\ b.close = tr[i].price
        BY DEF Tells
    <2> QED BY <1>1, <1>3, <2>1
<1>6. paid \subseteq Nat
    BY <1>1
<1>7. /\ b.high \in paid /\ b.low \in paid
      /\ \A x \in paid : b.low <= x /\ x <= b.high
    BY DEF Tells
<1> HIDE DEF paid
<1>8. b.high = Max(paid) /\ b.low = Min(paid)
    BY <1>2, <1>3, <1>6, <1>7
<1> QED BY <1>4, <1>5, <1>8 DEF Tells, paid

\* A tick is ingested, and the candle that it closes published.
LEMMA TapeTick ==
    ASSUME NEW n \in Nat, NEW tr, NEW p, NEW b, NEW c, KeyInv(n, tr, p, b, c),
           NEW ss, NEW bg \in Nat, KeyTape(tr, p, b, c, ss, bg, TRUE),
           p < Len(tr),
           NEW out, \/ out = <<>>
                    \/ /\ Closes(b, tr[p + 1])
                       /\ \E d \in Candles : out = <<d>> /\ d.bar = b
    PROVE  KeyTape(tr, p + 1, BarAfter(b, tr[p + 1]), c \o out, ss, bg, TRUE)
<1> DEFINE t == tr[p + 1]
           b1 == BarAfter(b, t)
           s1 == Slot(t.time)
           c1 == c \o out
<1>1. /\ tr \in Seq(Trades) /\ Len(tr) \in Nat /\ p \in 0 .. Len(tr)
      /\ p + 1 \in 1 .. Len(tr) /\ c \in Seq(Candles)
    BY DEF KeyInv, TradesInv, CandlesInv
<1>2. t \in Trades /\ \A i \in 1 .. Len(tr) : tr[i].time \in Nat
    BY <1>1, TimesAreNat
<1>3. b # NoBar => b \in Bars /\ b.slot \in Nat /\ b.slot <= s1
    BY <1>1 DEF KeyInv, BarInv, Bars
<1>4. s1 \in Nat /\ b1 \in Bars /\ b1.slot = s1 /\ b1 # NoBar
    BY <1>1, <1>2, <1>3, SlotNat, BarAfterTick, FeedAssumption
<1>5. \A i \in 1 .. p + 1 : Slot(tr[i].time) \in Nat /\ Slot(tr[i].time) <= s1
    <2> SUFFICES ASSUME NEW i \in 1 .. p + 1
                 PROVE  Slot(tr[i].time) \in Nat /\ Slot(tr[i].time) <= s1
        OBVIOUS
    <2>1. i \in 1 .. Len(tr) /\ i <= p + 1
        BY <1>1
    <2>2. tr[i].time <= tr[p + 1].time
        BY <1>1, <2>1 DEF KeyInv, TradesInv
    <2> QED BY <1>1, <1>2, <2>1, <2>2, SlotMonotone, SlotNat
<1>6. tr[p + 1] = t
    OBVIOUS
<1>7. \A i \in p + 1 .. Len(tr) : Slot(tr[i].time) \in Nat /\ s1 <= Slot(tr[i].time)
    <2> SUFFICES ASSUME NEW i \in p + 1 .. Len(tr)
                 PROVE  Slot(tr[i].time) \in Nat /\ s1 <= Slot(tr[i].time)
        OBVIOUS
    <2>1. i \in 1 .. Len(tr) /\ p + 1 <= i
        BY <1>1
    <2>2. tr[p + 1].time <= tr[i].time
        BY <1>1, <2>1 DEF KeyInv, TradesInv
    <2> QED BY <1>1, <1>2, <2>1, <2>2, SlotMonotone, SlotNat
<1>8. ASSUME bg < s1 * SlotTicks
      PROVE  Tells(b1, tr, InSlot(tr, p + 1, s1))
    <2>1. CASE StartsBar(b, t)
        <3>1. ASSUME NEW i \in 1 .. p, Slot(tr[i].time) = s1
              PROVE  FALSE
            <4>1. CASE b # NoBar
                <5>1. Slot(tr[i].time) <= b.slot /\ b.slot # s1
                    BY <2>1, <4>1 DEF KeyTape, StartsBar
                <5> QED BY <1>3, <1>4, <3>1, <4>1, <5>1
            <4>2. CASE b = NoBar
                <5>1. tr[i].time <= bg /\ tr[i].time \in Nat
                    BY <1>1, <1>2, <4>2 DEF KeyTape
                <5>2. Slot(tr[i].time) < s1
                    BY <1>4, <1>8, <5>1, BeforeItsSlot
                <5> QED BY <1>4, <3>1, <5>2
            <4> QED BY <4>1, <4>2
        <3>2. InSlot(tr, p + 1, s1) = {p + 1}
            BY <1>1, <1>6, <3>1 DEF InSlot
        <3>3. b1 = NewBar(t)
            BY <1>2, <2>1, BarStarts
        <3> HIDE DEF b1, t, s1
        <3> QED BY <1>1, <1>6, <3>2, <3>3, TellsOne
    <2>2. CASE ~StartsBar(b, t)
        <3>1. b \in Bars /\ b.slot = s1 /\ b # NoBar
            BY <1>3, <2>2 DEF StartsBar
        <3>2. InSlot(tr, p + 1, s1) = InSlot(tr, p, s1) \cup {p + 1}
            BY <1>1, <1>6 DEF InSlot
        <3>3. Tells(b, tr, InSlot(tr, p, s1))
            BY <1>8, <3>1 DEF KeyTape
        <3>4. InSlot(tr, p, s1) \subseteq 1 .. p /\ p \in Nat
            BY <1>1 DEF InSlot
        <3> HIDE DEF s1
        <3>5. Tells(b1, tr, InSlot(tr, p, s1) \cup {p + 1})
            BY <1>1, <2>2, <3>1, <3>3, <3>4, TellsOneMore
        <3> QED BY <3>2, <3>5
    <2> QED BY <2>1, <2>2
<1>9. ASSUME Closes(b, t), bg < b.slot * SlotTicks
      PROVE  Tells(b, tr, InSlot(tr, Len(tr), b.slot))
    <2>1. b # NoBar /\ b.slot < s1 /\ b.slot \in Nat
        BY <1>3, <1>4, <1>9 DEF Closes, StartsBar
    <2>2. InSlot(tr, Len(tr), b.slot) = InSlot(tr, p, b.slot)
        <3>1. \A i \in 1 .. Len(tr) : Slot(tr[i].time) = b.slot => i <= p
            <4> SUFFICES ASSUME NEW i \in 1 .. Len(tr),
                                Slot(tr[i].time) = b.slot, ~(i <= p)
                         PROVE  FALSE
                OBVIOUS
            <4>1. i \in p + 1 .. Len(tr)
                BY <1>1
            <4>2. s1 <= Slot(tr[i].time)
                BY <1>7, <4>1
            <4> QED BY <1>4, <2>1, <4>2
        <3> QED BY <1>1, <3>1 DEF InSlot
    <2> QED BY <1>9, <2>1, <2>2 DEF KeyTape
<1>10. ASSUME NEW i \in 1 .. Len(c1), c1[i].cause = "tick", c1[i].by = ss,
              bg < c1[i].bar.slot * SlotTicks
       PROVE  Tells(c1[i].bar, tr, InSlot(tr, Len(tr), c1[i].bar.slot))
    <2>1. CASE out = <<>>
        <3>1. c1 = c
            BY <1>1, <2>1, PushNothing
        <3> HIDE DEF c1
        <3> QED BY <1>10, <3>1 DEF KeyTape
    <2>2. CASE out # <<>>
        <3>1. PICK d \in Candles : out = <<d>> /\ d.bar = b
            BY <2>2
        <3>2. Closes(b, t)
            BY <2>2
        <3>3. /\ Len(c1) = Len(c) + 1 /\ Len(c) \in Nat
              /\ \A j \in 1 .. Len(c) : c1[j] = c[j]
              /\ c1[Len(c) + 1] = d
            BY <1>1, <3>1
        <3> HIDE DEF c1
        <3>4. CASE i = Len(c) + 1
            BY <1>9, <1>10, <3>1, <3>2, <3>3, <3>4
        <3>5. CASE i # Len(c) + 1
            <4>1. i \in 1 .. Len(c) /\ c1[i] = c[i]
                BY <3>3, <3>5
            <4> QED BY <1>10, <4>1 DEF KeyTape
        <3> QED BY <3>4, <3>5
    <2> QED BY <2>1, <2>2
<1>11. /\ \A i \in 1 .. p + 1 : Slot(tr[i].time) <= b1.slot
       /\ bg < b1.slot * SlotTicks => Tells(b1, tr, InSlot(tr, p + 1, b1.slot))
    BY <1>4, <1>5, <1>8
<1> HIDE DEF b1, s1, c1
<1>12. KeyTape(tr, p + 1, b1, c1, ss, bg, TRUE)
    BY <1>4, <1>10, <1>11 DEF KeyTape
<1> QED BY <1>12 DEF b1, c1

\* Who heard a trade is of no account.
LEMMA TapeSame ==
    ASSUME NEW tr \in Seq(Trades), NEW q, SameTrades(q, tr),
           NEW p \in 0 .. Len(tr), NEW b, NEW c, NEW ss, NEW bg, NEW live,
           KeyTape(tr, p, b, c, ss, bg, live)
    PROVE  KeyTape(q, p, b, c, ss, bg, live)
<1>1. /\ Len(q) = Len(tr) /\ Len(tr) \in Nat
      /\ \A i \in 1 .. Len(tr) : q[i].time = tr[i].time /\ q[i].price = tr[i].price
      /\ \A i \in 1 .. p : i \in 1 .. Len(tr)
    BY DEF SameTrades, SameTimes
<1>2. \A s : /\ InSlot(q, p, s) = InSlot(tr, p, s)
             /\ InSlot(q, Len(q), s) = InSlot(tr, Len(tr), s)
    BY <1>1, InSlotSame
<1>3. \A s : /\ \A i \in InSlot(tr, p, s) : q[i].price = tr[i].price
             /\ \A i \in InSlot(tr, Len(tr), s) : q[i].price = tr[i].price
    BY <1>1 DEF InSlot
<1>4. \A x, s : Tells(x, tr, InSlot(tr, p, s)) => Tells(x, q, InSlot(q, p, s))
    BY <1>2, <1>3, TellsSame
<1>5. \A x, s : Tells(x, tr, InSlot(tr, Len(tr), s))
                   => Tells(x, q, InSlot(q, Len(q), s))
    BY <1>2, <1>3, TellsSame
<1> QED BY <1>1, <1>4, <1>5 DEF KeyTape

\* The exchange trades: the trade is in a later slot than any candle.
LEMMA TapeTrades ==
    ASSUME NEW n \in Nat, NEW tr, NEW p, NEW b, NEW c, KeyInv(n, tr, p, b, c),
           NEW ss, NEW bg \in Nat, NEW live, KeyTape(tr, p, b, c, ss, bg, live),
           IsMarketOpen(n), NEW t \in Trades, t.time = n,
           NEW p1 \in {p, p + 1}, p1 = p \/ (b = NoBar /\ ~live)
    PROVE  KeyTape(Append(tr, t), p1, b, c, ss, bg, live)
<1> DEFINE q == Append(tr, t)
           l == Len(tr)
<1>1. /\ tr \in Seq(Trades) /\ l \in Nat /\ p \in 0 .. l /\ c \in Seq(Candles)
      /\ Len(q) = l + 1
      /\ \A i \in 1 .. l : q[i] = tr[i]
      /\ q[l + 1] = t
    BY DEF KeyInv, TradesInv, CandlesInv
<1> HIDE DEF q, l
<1>2. \A i \in 1 .. p : i \in 1 .. l /\ q[i] = tr[i]
    BY <1>1
<1>3. \A x, s : Tells(x, tr, InSlot(tr, p, s)) => Tells(x, q, InSlot(q, p, s))
    <2>1. \A s : InSlot(q, p, s) = InSlot(tr, p, s)
        BY <1>2 DEF InSlot
    <2>2. \A s : \A i \in InSlot(tr, p, s) : q[i].price = tr[i].price
        BY <1>2 DEF InSlot
    <2> QED BY <2>1, <2>2, TellsSame
<1>4. \A i \in 1 .. Len(c) :
         /\ c[i].bar.slot < Slot(n)
         /\ c[i].bar.slot \in Nat /\ Slot(n) \in Nat
    <2> SUFFICES ASSUME NEW i \in 1 .. Len(c)
                 PROVE  /\ c[i].bar.slot < Slot(n)
                        /\ c[i].bar.slot \in Nat /\ Slot(n) \in Nat
        OBVIOUS
    <2>1. Below(c, Slot(n))
        BY DEF KeyInv, CandlesInv
    <2>2. c[i] \in Candles
        BY <1>1
    <2>3. c[i].bar \in Bars
        BY <2>2 DEF Candles
    <2>4. c[i].bar.slot \in Nat
        BY <2>3 DEF Bars
    <2> QED BY <2>1, <2>4, SlotNat DEF Below
<1>5. ASSUME NEW i \in 1 .. Len(c),
             Tells(c[i].bar, tr, InSlot(tr, l, c[i].bar.slot))
      PROVE  Tells(c[i].bar, q, InSlot(q, Len(q), c[i].bar.slot))
    <2> DEFINE s == c[i].bar.slot
    <2>1. Slot(q[l + 1].time) # s
        BY <1>1, <1>4
    <2> HIDE DEF s
    <2>2. InSlot(q, Len(q), s) = InSlot(tr, l, s)
        BY <1>1, <2>1 DEF InSlot
    <2>3. \A j \in InSlot(tr, l, s) : q[j].price = tr[j].price
        BY <1>1 DEF InSlot
    <2>4. Tells(c[i].bar, tr, InSlot(tr, l, s))
        BY <1>5 DEF s
    <2>5. Tells(c[i].bar, q, InSlot(tr, l, s))
        BY <2>3, <2>4, TellsSame
    <2> QED BY <2>2, <2>5 DEF s
<1>6. b # NoBar => p1 = p
    OBVIOUS
<1>7. live /\ b = NoBar => p1 = p
    OBVIOUS
<1>8. b # NoBar =>
        /\ \A i \in 1 .. p1 : Slot(q[i].time) <= b.slot
        /\ bg < b.slot * SlotTicks => Tells(b, q, InSlot(q, p1, b.slot))
    BY <1>2, <1>3, <1>6 DEF KeyTape
<1>9. live /\ b = NoBar => \A i \in 1 .. p1 : q[i].time <= bg
    BY <1>2, <1>7 DEF KeyTape
<1>10. \A i \in 1 .. Len(c) :
         c[i].cause = "tick" /\ c[i].by = ss /\ bg < c[i].bar.slot * SlotTicks
            => Tells(c[i].bar, q, InSlot(q, Len(q), c[i].bar.slot))
    BY <1>5 DEF KeyTape, l
<1> QED BY <1>8, <1>9, <1>10 DEF KeyTape, q

\* A session ends: what is open is lost ...
LEMMA TapeEnds ==
    ASSUME NEW tr, NEW p, NEW b, NEW c, NEW ss, NEW bg, NEW live,
           KeyTape(tr, p, b, c, ss, bg, live)
    PROVE  KeyTape(tr, Len(tr), NoBar, c, ss, bg, FALSE)
BY DEF KeyTape

\* ... or flushed.
LEMMA TapeFlushes ==
    ASSUME NEW tr, NEW p, NEW b, NEW c \in Seq(Candles), NEW ss, NEW bg, NEW live,
           KeyTape(tr, p, b, c, ss, bg, live),
           NEW d \in Candles, d.cause = "flush"
    PROVE  KeyTape(tr, Len(tr), NoBar, c \o <<d>>, ss, bg, FALSE)
<1> DEFINE c1 == c \o <<d>>
<1>1. /\ Len(c1) = Len(c) + 1 /\ Len(c) \in Nat
      /\ \A i \in 1 .. Len(c) : c1[i] = c[i]
      /\ c1[Len(c) + 1] = d
    OBVIOUS
<1> HIDE DEF c1
<1>2. \A i \in 1 .. Len(c1) :
         c1[i].cause = "tick" => i \in 1 .. Len(c) /\ c1[i] = c[i]
    <2> SUFFICES ASSUME NEW i \in 1 .. Len(c1), c1[i].cause = "tick"
                 PROVE  i \in 1 .. Len(c) /\ c1[i] = c[i]
        OBVIOUS
    <2>1. i # Len(c) + 1
        BY <1>1
    <2> QED BY <1>1, <2>1
<1> QED BY <1>2 DEF KeyTape, c1

\* The next session begins: no candle is its own, and what it missed was
\* traded by now.
LEMMA TapeBegins ==
    ASSUME NEW n \in Nat, NEW tr, NEW p \in 0 .. Len(tr), NEW c,
           KeyInv(n, tr, p, NoBar, c),
           NEW ss \in Nat, \A i \in 1 .. Len(c) : c[i].by \in 1 .. ss
    PROVE  KeyTape(tr, p, NoBar, c, ss + 1, n, TRUE)
<1>1. \A i \in 1 .. p : tr[i].time <= n
    <2>1. tr \in Seq(Trades) /\ \A i \in 1 .. Len(tr) : tr[i].time <= n
        BY DEF KeyInv, TradesInv
    <2> QED BY <2>1
<1>2. \A i \in 1 .. Len(c) : c[i].by # ss + 1
    OBVIOUS
<1> QED BY <1>1, <1>2 DEF KeyTape

-----------------------------------------------------------------------------
(* What the engine heard and when: the second invariant, beside FeedInv.   *)

TokensInv ==
    /\ tokens \in Seq(Nat)
    /\ \A i \in 1 .. Len(tokens) : tokens[i] <= Day(now)
    /\ \A i \in 2 .. Len(tokens) : tokens[i - 1] < tokens[i]

HeardInv ==
    /\ now \in Clock
    /\ streaming \in BOOLEAN
    /\ streaming => session # 0
    /\ began \in Nat /\ began <= now
    /\ dropped \subseteq 1 .. session
    /\ \A k \in Keys :
          /\ KeyHeard(trades[k], past[k], bars[k], candles[k], session, dropped)
          /\ KeyTape(trades[k], past[k], bars[k], candles[k], session, began,
                     streaming)

LEMMA HeardInit == Init => HeardInv
<1> SUFFICES ASSUME Init
             PROVE  HeardInv
    OBVIOUS
<1>1. 0 \in Clock
    BY FeedAssumption DEF Clock
<1>2. ASSUME NEW k \in Keys
      PROVE  /\ trades[k] = <<>> /\ past[k] = 0 /\ bars[k] = NoBar
             /\ candles[k] = <<>>
    BY DEF Init, NoBars
<1>3. KeyHeard(<<>>, 0, NoBar, <<>>, 0, {})
    BY DEF KeyHeard, Books
<1>4. KeyTape(<<>>, 0, NoBar, <<>>, 0, 0, FALSE)
    BY DEF KeyTape
<1>5. /\ now = 0 /\ session = 0 /\ began = 0 /\ streaming = FALSE
      /\ dropped = {}
    BY DEF Init
<1>6. ASSUME NEW k \in Keys
      PROVE  /\ KeyHeard(trades[k], past[k], bars[k], candles[k], session,
                         dropped)
             /\ KeyTape(trades[k], past[k], bars[k], candles[k], session, began,
                        streaming)
    BY <1>2, <1>3, <1>4, <1>5
<1>7. now \in Clock
    BY <1>1, <1>5
<1>8. streaming \in BOOLEAN /\ ~streaming
    BY <1>5
<1>9. began \in Nat /\ began <= now
    BY <1>5
<1>10. dropped \subseteq 1 .. session
    BY <1>5
<1> QED BY <1>6, <1>7, <1>8, <1>9, <1>10 DEF HeardInv

LEMMA TokensInit == Init => TokensInv
BY DEF Init, TokensInv

LEMMA TokensStep == FeedInv /\ TokensInv /\ [Next]_vars => TokensInv'
<1> SUFFICES ASSUME FeedInv, TokensInv, [Next]_vars
             PROVE  TokensInv'
    OBVIOUS
<1>1. now \in Nat /\ DayTicks \in Nat \ {0}
    BY FeedAssumption DEF FeedInv
<1>2. CASE Login
    <2> DEFINE d == Day(now)
    <2>1. d \in Nat /\ now' = now
        BY <1>1, <1>2, DivMod DEF Day, Login
    <2>2. /\ tokens' = Append(tokens, d)
          /\ tokens # <<>> => tokens[Len(tokens)] # d
        BY <1>2 DEF Login
    <2>3. /\ tokens \in Seq(Nat)
          /\ \A i \in 1 .. Len(tokens) : tokens[i] <= d
          /\ \A i \in 2 .. Len(tokens) : tokens[i - 1] < tokens[i]
        BY DEF TokensInv
    <2> HIDE DEF d
    <2>4. tokens # <<>> => Len(tokens) \in 1 .. Len(tokens)
        BY <2>3
    <2>5. tokens # <<>> => tokens[Len(tokens)] \in Nat /\ tokens[Len(tokens)] < d
        BY <2>1, <2>2, <2>3, <2>4
    <2>6. /\ tokens' \in Seq(Nat) /\ Len(tokens') = Len(tokens) + 1
          /\ Len(tokens) \in Nat
          /\ \A i \in 1 .. Len(tokens) : tokens'[i] = tokens[i]
          /\ tokens'[Len(tokens) + 1] = d
        BY <2>1, <2>2, <2>3
    <2>7. \A i \in 1 .. Len(tokens') : tokens'[i] <= d
        <3> SUFFICES ASSUME NEW i \in 1 .. Len(tokens')
                     PROVE  tokens'[i] <= d
            OBVIOUS
        <3>1. CASE i = Len(tokens) + 1
            BY <2>1, <2>6, <3>1
        <3>2. CASE i # Len(tokens) + 1
            <4>1. i \in 1 .. Len(tokens)
                BY <2>6, <3>2
            <4> QED BY <2>3, <2>6, <4>1
        <3> QED BY <3>1, <3>2
    <2>8. \A i \in 2 .. Len(tokens') : tokens'[i - 1] < tokens'[i]
        <3> SUFFICES ASSUME NEW i \in 2 .. Len(tokens')
                     PROVE  tokens'[i - 1] < tokens'[i]
            OBVIOUS
        <3>1. CASE i = Len(tokens) + 1
            <4>1. tokens # <<>> /\ i - 1 = Len(tokens) /\ Len(tokens) \in 1 .. Len(tokens)
                BY <2>3, <2>6, <3>1
            <4> QED BY <2>5, <2>6, <3>1, <4>1
        <3>2. CASE i # Len(tokens) + 1
            <4>1. i \in 2 .. Len(tokens) /\ i - 1 \in 1 .. Len(tokens)
                  /\ i \in 1 .. Len(tokens)
                BY <2>6, <3>2
            <4> QED BY <2>3, <2>6, <4>1
        <3> QED BY <3>1, <3>2
    <2> QED BY <2>1, <2>6, <2>7, <2>8 DEF TokensInv, d, Day
<1>3. CASE Tick
    <2>1. now' = now + 1 /\ tokens' = tokens
        BY <1>3 DEF Tick
    <2>2. Day(now) \in Nat /\ Day(now + 1) \in Nat /\ Day(now) <= Day(now + 1)
        BY <1>1, DivMod, DivMonotone DEF Day
    <2>3. \A i \in 1 .. Len(tokens) : tokens[i] <= Day(now + 1)
        BY <2>2 DEF TokensInv
    <2> QED BY <2>1, <2>3 DEF TokensInv, Day
<1>4. CASE tokens' = tokens /\ now' = now
    BY <1>4 DEF TokensInv, Day
<1>5. Login \/ Tick \/ (tokens' = tokens /\ now' = now)
    BY DEF Next, Trade, StartSession, LiveMessage, PublishFails, FlushFails,
           Drop, Fails, Finished, vars
<1> QED BY <1>2, <1>3, <1>4, <1>5

LEMMA MarkKeepsPrices ==
    ASSUME NEW tr \in Seq(Trades), NEW i \in 1 .. Len(tr), NEW s
    PROVE  \A j \in 1 .. Len(tr) : [tr EXCEPT ![i].by = s][j].price = tr[j].price
<1>1. tr[i] \in Trades
    OBVIOUS
<1> QED BY <1>1 DEF Trades

LEMMA HandledSame ==
    ASSUME FeedInv, NEW told, told \subseteq Waiting, NEW k \in Keys
    PROVE  /\ SameTrades(Handled(told)[k], trades[k])
           /\ k \in told =>
                 /\ past[k] < Len(trades[k])
                 /\ Handled(told)[k] = [trades[k] EXCEPT ![past[k] + 1].by = session]
           /\ k \notin told => Handled(told)[k] = trades[k]
<1>1. /\ trades[k] \in Seq(Trades) /\ past[k] \in Nat /\ Len(trades[k]) \in Nat
    BY DEF FeedInv
<1>2. /\ k \in told =>
            /\ past[k] < Len(trades[k])
            /\ Handled(told)[k] = [trades[k] EXCEPT ![past[k] + 1].by = session]
      /\ k \notin told => Handled(told)[k] = trades[k]
    BY DEF Handled, Waiting
<1>3. SameTimes(Handled(told)[k], trades[k])
    BY HandledKeepsTimes
<1>4. \A i \in 1 .. Len(trades[k]) : Handled(told)[k][i].price = trades[k][i].price
    <2>1. CASE k \in told
        <3>1. past[k] + 1 \in 1 .. Len(trades[k])
            BY <1>1, <1>2, <2>1
        <3>2. \A j \in 1 .. Len(trades[k]) :
                 [trades[k] EXCEPT ![past[k] + 1].by = session][j].price
                    = trades[k][j].price
            BY <1>1, <3>1, MarkKeepsPrices
        <3> QED BY <1>2, <2>1, <3>2
    <2>2. CASE k \notin told
        BY <1>2, <2>2
    <2> QED BY <2>1, <2>2
<1> QED BY <1>2, <1>3, <1>4 DEF SameTrades

\* A message, for one key.
LEMMA MessageHeard ==
    ASSUME FeedInv, HeardInv, streaming,
           NEW told, told \subseteq Waiting, NEW k \in Keys
    PROVE  /\ KeyHeard(Handled(told)[k],
                       past[k] + (IF k \in told THEN 1 ELSE 0),
                       BarsAfter(told)[k], candles[k] \o ClosedByTick(told, k),
                       session, dropped)
           /\ KeyTape(Handled(told)[k],
                      past[k] + (IF k \in told THEN 1 ELSE 0),
                      BarsAfter(told)[k], candles[k] \o ClosedByTick(told, k),
                      session, began, TRUE)
<1> DEFINE out == ClosedByTick(told, k)
           tr == trades[k]
           q == Handled(told)[k]
           p == past[k]
           b == bars[k]
           c == candles[k]
<1>1. /\ KeyInv(now, tr, p, b, c)
      /\ now \in Nat /\ session \in Nat \ {0} /\ p \in Nat /\ began \in Nat
      /\ tr \in Seq(Trades) /\ c \in Seq(Candles) /\ p \in 0 .. Len(tr)
    BY DEF FeedInv, HeardInv, KeyInv, CandlesInv
<1>2. /\ KeyHeard(tr, p, b, c, session, dropped)
      /\ KeyTape(tr, p, b, c, session, began, TRUE)
    <2>1. streaming = TRUE
        BY DEF HeardInv
    <2> QED BY <2>1 DEF HeardInv
<1>3. SameTrades(q, tr)
    BY HandledSame
<1>4. CASE k \in told
    <2>1. /\ p < Len(tr)
          /\ q = [tr EXCEPT ![p + 1].by = session]
        BY <1>4, HandledSame
    <2>2. b # NoBar => b \in Bars
        BY <1>1 DEF KeyInv, BarInv
    <2>3. NextTick(k) = tr[p + 1] /\ BarsAfter(told)[k] = BarAfter(b, tr[p + 1])
        BY <1>4 DEF NextTick, BarsAfter
    <2>4. \/ out = <<>> /\ ~Closes(b, tr[p + 1])
          \/ /\ Closes(b, tr[p + 1])
             /\ \E d \in Candles : out = <<d>> /\ d.bar = b /\ d.by = session
        <3>1. CASE Closes(b, tr[p + 1])
            <4>1. b \in Bars
                BY <2>2, <3>1 DEF Closes
            <4>2. out = <<Candle(b, "tick")>>
                BY <1>4, <2>3, <3>1 DEF ClosedByTick
            <4>3. Candle(b, "tick") \in Candles /\ Candle(b, "tick").bar = b
                BY <1>1, <4>1, CandleOfBar
            <4>4. Candle(b, "tick").by = session
                BY DEF Candle
            <4> QED BY <3>1, <4>2, <4>3, <4>4
        <3>2. CASE ~Closes(b, tr[p + 1])
            BY <2>3, <3>2 DEF ClosedByTick
        <3> QED BY <3>1, <3>2
    <2> HIDE DEF out, tr, q, p, b, c
    <2>5. KeyHeard(q, p + 1, BarAfter(b, tr[p + 1]), c \o out, session, dropped)
        BY <1>1, <1>2, <2>1, <2>4, HeardTick
    <2>6. KeyTape(tr, p + 1, BarAfter(b, tr[p + 1]), c \o out, session, began, TRUE)
        BY <1>1, <1>2, <2>1, <2>4, TapeTick
    <2>7. p + 1 \in 0 .. Len(tr)
        BY <1>1, <2>1
    <2>8. KeyTape(q, p + 1, BarAfter(b, tr[p + 1]), c \o out, session, began, TRUE)
        BY <1>1, <1>3, <2>6, <2>7, TapeSame
    <2> QED BY <1>4, <2>3, <2>5, <2>8 DEF out, tr, q, p, b, c
<1>5. CASE k \notin told
    <2>1. out = <<>> /\ BarsAfter(told)[k] = b /\ q = tr
        BY <1>5, HandledSame DEF ClosedByTick, BarsAfter
    <2>2. c \o <<>> = c
        BY <1>1, PushNothing
    <2>3. p + (IF k \in told THEN 1 ELSE 0) = p
        BY <1>1, <1>5
    <2> HIDE DEF p
    <2>4. /\ KeyHeard(q, p + (IF k \in told THEN 1 ELSE 0), BarsAfter(told)[k],
                      c \o out, session, dropped)
          /\ KeyTape(q, p + (IF k \in told THEN 1 ELSE 0), BarsAfter(told)[k],
                     c \o out, session, began, TRUE)
        <3> HIDE DEF out, tr, q, b, c
        <3> QED BY <1>2, <2>1, <2>2, <2>3
    <2> QED BY <2>4 DEF p
<1> QED BY <1>4, <1>5

\* Its bar is flushed when the session ends with the message.
LEMMA FlushHeard ==
    ASSUME FeedInv, HeardInv, streaming,
           NEW told, told \subseteq Waiting, NEW k \in Keys
    PROVE  LET q == Handled(told)[k]
               c == candles[k] \o ClosedByTick(told, k)
           IN  /\ KeyTape(q, Len(trades[k]), NoBar, candles[k], session, began,
                          FALSE)
               /\ KeyTape(q, Len(trades[k]), NoBar, c, session, began, FALSE)
               /\ KeyTape(q, Len(trades[k]), NoBar, c \o FlushedAfter(told, k),
                          session, began, FALSE)
               /\ KeyHeard(q, Len(trades[k]), NoBar, candles[k], session,
                           dropped \cup {session})
               /\ KeyHeard(q, Len(trades[k]), NoBar, c, session,
                           dropped \cup {session})
               /\ EndsAfter(told) =>
                     KeyHeard(q, Len(trades[k]), NoBar,
                              c \o FlushedAfter(told, k), session, dropped)
               /\ KeyHeard(q, Len(trades[k]), NoBar, c \o FlushedAfter(told, k),
                           session, dropped \cup {session})
<1> DEFINE tr == trades[k]
           q == Handled(told)[k]
           p == past[k]
           p1 == past[k] + (IF k \in told THEN 1 ELSE 0)
           b == bars[k]
           b1 == BarsAfter(told)[k]
           c0 == candles[k]
           c == candles[k] \o ClosedByTick(told, k)
           c1 == c \o FlushedAfter(told, k)
           lost == dropped \cup {session}
<1>1. /\ session \in Nat \ {0} /\ p \in Nat
      /\ tr \in Seq(Trades) /\ c0 \in Seq(Candles) /\ p \in 0 .. Len(tr)
    BY DEF FeedInv, HeardInv, KeyInv, CandlesInv
<1>2. /\ KeyHeard(tr, p, b, c0, session, dropped)
      /\ KeyTape(tr, p, b, c0, session, began, TRUE)
    <2>1. streaming = TRUE
        BY DEF HeardInv
    <2> QED BY <2>1 DEF HeardInv
<1>3. /\ SameTrades(q, tr) /\ q \in Seq(Trades) /\ Len(q) = Len(tr)
      /\ q = tr \/ (p < Len(tr) /\ q = [tr EXCEPT ![p + 1].by = session])
    BY HandledSame DEF SameTrades, SameTimes
<1>4. /\ KeyHeard(q, p1, b1, c, session, dropped)
      /\ KeyTape(q, p1, b1, c, session, began, TRUE)
    BY MessageHeard
<1>5. c \in Seq(Candles) /\ p1 \in Nat /\ (b1 # NoBar => b1 \in Bars)
    <2>1. KeyInv(now, q, p1, b1, c)
        BY MessageTicks
    <2> HIDE DEF q, p1, b1, c
    <2> QED BY <2>1 DEF KeyInv, CandlesInv, BarInv
<1>6. \/ FlushedAfter(told, k) = <<>> /\ ~(EndsAfter(told) /\ b1 # NoBar)
      \/ /\ b1 # NoBar
         /\ \E d \in Candles : /\ FlushedAfter(told, k) = <<d>> /\ d.bar = b1
                               /\ d.by = session /\ d.cause = "flush"
    <2>1. CASE EndsAfter(told) /\ b1 # NoBar
        <3>1. FlushedAfter(told, k) = <<Candle(b1, "flush")>>
            BY <2>1 DEF FlushedAfter
        <3>2. Candle(b1, "flush") \in Candles /\ Candle(b1, "flush").bar = b1
            BY <1>1, <1>5, <2>1, CandleOfBar
        <3>3. Candle(b1, "flush").by = session /\ Candle(b1, "flush").cause = "flush"
            BY DEF Candle
        <3> QED BY <2>1, <3>1, <3>2, <3>3
    <2>2. CASE ~(EndsAfter(told) /\ b1 # NoBar)
        BY <2>2 DEF FlushedAfter
    <2> QED BY <2>1, <2>2
<1> DEFINE out == FlushedAfter(told, k)
<1> HIDE DEF tr, q, p, p1, b, b1, c0, c
<1>7. KeyTape(q, Len(tr), NoBar, c0, session, began, FALSE)
    <2>1. KeyTape(q, p, b, c0, session, began, TRUE)
        BY <1>1, <1>2, <1>3, TapeSame
    <2>2. KeyTape(q, Len(q), NoBar, c0, session, began, FALSE)
        BY <2>1, TapeEnds
    <2> QED BY <1>3, <2>2
<1>8. KeyTape(q, Len(tr), NoBar, c, session, began, FALSE)
    <2>1. KeyTape(q, Len(q), NoBar, c, session, began, FALSE)
        BY <1>4, TapeEnds
    <2> QED BY <1>3, <2>1
<1>9. KeyHeard(q, Len(tr), NoBar, c0, session, lost)
    BY <1>1, <1>2, <1>3, HeardLost
<1>10. KeyHeard(q, Len(tr), NoBar, c, session, lost)
    <2>1. KeyHeard(q, Len(q), NoBar, c, session, lost)
        BY <1>1, <1>3, <1>4, <1>5, HeardLost
    <2> QED BY <1>3, <2>1
<1>11. CASE out = <<>>
    <2>1. c1 = c
        BY <1>5, <1>11, PushNothing
    <2>2. EndsAfter(told) => KeyHeard(q, Len(tr), NoBar, c, session, dropped)
        <3> SUFFICES ASSUME EndsAfter(told)
                     PROVE  KeyHeard(q, Len(tr), NoBar, c, session, dropped)
            OBVIOUS
        <3>1. b1 = NoBar
            BY <1>6, <1>11
        <3>2. KeyHeard(q, p1, NoBar, c, session, dropped)
            BY <1>4, <3>1
        <3>3. KeyHeard(q, Len(q), NoBar, c, session, dropped)
            BY <1>3, <3>2, HeardEnds
        <3> QED BY <1>3, <3>3
    <2> HIDE DEF c1
    <2> QED BY <1>7, <1>8, <1>9, <1>10, <2>1, <2>2 DEF tr, q, c0, c, c1
<1>12. CASE out # <<>>
    <2>1. PICK d \in Candles : /\ out = <<d>> /\ d.bar = b1
                               /\ d.by = session /\ d.cause = "flush"
        BY <1>6, <1>12
    <2>2. b1 # NoBar /\ c1 = c \o <<d>>
        BY <1>6, <1>12, <2>1
    <2> HIDE DEF c1
    <2>3. KeyHeard(q, Len(tr), NoBar, c1, session, dropped)
        <3>1. KeyHeard(q, Len(q), NoBar, c \o <<d>>, session, dropped)
            BY <1>1, <1>3, <1>4, <1>5, <2>1, <2>2, HeardFlushes
        <3> QED BY <1>3, <2>2, <3>1
    <2>4. c1 \in Seq(Candles)
        BY <1>5, <2>2
    <2>5. KeyHeard(q, Len(tr), NoBar, c1, session, lost)
        BY <1>1, <1>3, <2>3, <2>4, HeardForgiven
    <2>6. KeyTape(q, Len(tr), NoBar, c1, session, began, FALSE)
        <3>1. KeyTape(q, Len(q), NoBar, c \o <<d>>, session, began, FALSE)
            BY <1>4, <1>5, <2>1, TapeFlushes
        <3> QED BY <1>3, <2>2, <3>1
    <2> QED BY <1>7, <1>8, <1>9, <1>10, <2>3, <2>5, <2>6 DEF tr, q, c0, c, c1
<1> QED BY <1>11, <1>12

\* A step that ends the session keeps the invariant when it does for each key.
LEMMA EndKeepsHeard ==
    ASSUME FeedInv, HeardInv, streaming, EndSession,
           now' = now, session' = session, began' = began,
           dropped' = dropped \/ dropped' = dropped \cup {session},
           \A k \in Keys : Len(trades'[k]) = Len(trades[k]),
           \A k \in Keys :
              /\ KeyHeard(trades'[k], Len(trades[k]), NoBar, candles'[k],
                          session, dropped')
              /\ KeyTape(trades'[k], Len(trades[k]), NoBar, candles'[k],
                         session, began, FALSE)
    PROVE  HeardInv'
<1>1. /\ streaming' = FALSE
      /\ past' = [k \in Keys |-> Len(trades[k])]
      /\ bars' = [k \in Keys |-> NoBar]
    BY DEF EndSession, NoBars
<1>2. session \in Nat /\ session # 0
    BY DEF FeedInv, HeardInv
<1>3. dropped' \subseteq 1 .. session'
    BY <1>2 DEF HeardInv
<1>4. \A k \in Keys :
        /\ KeyHeard(trades'[k], past'[k], bars'[k], candles'[k], session',
                    dropped')
        /\ KeyTape(trades'[k], past'[k], bars'[k], candles'[k], session', began',
                   streaming')
    BY <1>1
<1>5. now' \in Clock /\ began' \in Nat /\ began' <= now'
    BY DEF HeardInv, Clock
<1>6. streaming' \in BOOLEAN /\ ~streaming'
    BY <1>1
<1> QED BY <1>3, <1>4, <1>5, <1>6 DEF HeardInv

LEMMA HeardStep == FeedInv /\ HeardInv /\ [Next]_vars => HeardInv'
<1> SUFFICES ASSUME FeedInv, HeardInv, [Next]_vars
             PROVE  HeardInv'
    OBVIOUS
<1>1. /\ now \in Nat /\ session \in Nat
      /\ trades \in [Keys -> Seq(Trades)] /\ past \in [Keys -> Nat]
      /\ \A k \in Keys : /\ KeyInv(now, trades[k], past[k], bars[k], candles[k])
                         /\ past[k] \in 0 .. Len(trades[k])
                         /\ candles[k] \in Seq(Candles)
    BY DEF FeedInv, KeyInv, CandlesInv
<1>2. CASE Tick
    <2>1. now' \in Clock /\ began <= now'
        BY <1>1, <1>2 DEF Tick, HeardInv
    <2>2. UNCHANGED <<trades, past, streaming, session, began, bars, candles,
                      dropped>>
        BY <1>2 DEF Tick
    <2> QED BY <2>1, <2>2 DEF HeardInv
<1>3. ASSUME NEW key \in Keys, NEW price \in PricesOf[key], Trade(key, price)
      PROVE  HeardInv'
    <2> DEFINE t == [price |-> price, time |-> now, by |-> 0]
    <2>1. t \in Trades /\ t.time = now /\ t.by = 0
        BY <1>1, FeedAssumption DEF Trades
    <2>2. /\ trades' = [trades EXCEPT ![key] = Append(@, t)]
          /\ past' = IF streaming THEN past ELSE [past EXCEPT ![key] = @ + 1]
          /\ IsMarketOpen(now)
          /\ UNCHANGED <<now, streaming, session, began, bars, candles, dropped>>
        BY <1>3 DEF Trade
    <2> HIDE DEF t
    <2>3. /\ KeyHeard(trades'[key], past'[key], bars[key], candles[key],
                      session, dropped)
          /\ KeyTape(trades'[key], past'[key], bars[key], candles[key],
                     session, began, streaming)
        <3> DEFINE tr == trades[key]
                   p == past[key]
                   p1 == past'[key]
                   b == bars[key]
                   c == candles[key]
        <3>1. /\ trades'[key] = Append(tr, t) /\ tr \in Seq(Trades)
              /\ p \in 0 .. Len(tr)
              /\ KeyInv(now, tr, p, b, c)
              /\ began \in Nat
            BY <1>1, <2>2 DEF HeardInv
        <3>2. /\ p1 \in {p, p + 1}
              /\ p1 = p \/ (b = NoBar /\ ~streaming)
            <4>1. ~streaming => b = NoBar
                BY DEF FeedInv
            <4>2. p1 = IF streaming THEN p ELSE p + 1
                BY <1>1, <2>2
            <4> HIDE DEF p, p1, b
            <4> QED BY <4>1, <4>2
        <3>3. /\ KeyHeard(tr, p, b, c, session, dropped)
              /\ KeyTape(tr, p, b, c, session, began, streaming)
            BY DEF HeardInv
        <3> HIDE DEF tr, p, p1, b, c
        <3>4. KeyHeard(Append(tr, t), p1, b, c, session, dropped)
            BY <1>1, <2>1, <3>1, <3>2, <3>3, HeardTrades
        <3>5. KeyTape(Append(tr, t), p1, b, c, session, began, streaming)
            BY <1>1, <2>1, <2>2, <3>1, <3>2, <3>3, TapeTrades
        <3> QED BY <3>1, <3>4, <3>5 DEF p1, b, c
    <2>4. ASSUME NEW k \in Keys
          PROVE  /\ KeyHeard(trades'[k], past'[k], bars[k], candles[k],
                             session, dropped)
                 /\ KeyTape(trades'[k], past'[k], bars[k], candles[k],
                            session, began, streaming)
        <3>1. CASE k = key
            BY <2>3, <3>1
        <3>2. CASE k # key
            <4>1. trades'[k] = trades[k] /\ past'[k] = past[k]
                BY <1>1, <2>2, <3>2
            <4> QED BY <4>1 DEF HeardInv
        <3> QED BY <3>1, <3>2
    <2> QED BY <2>2, <2>4 DEF HeardInv
<1>4. CASE Login
    BY <1>4 DEF Login, HeardInv
<1>5. ASSUME NEW readable \in BOOLEAN, StartSession(readable)
      PROVE  HeardInv'
    <2>1. /\ ~streaming /\ streaming' = TRUE
          /\ session' = session + 1 /\ began' = now
          /\ UNCHANGED <<now, trades, past, tokens, bars, candles, dropped>>
        BY <1>5 DEF StartSession
    <2>2. session + 1 \notin dropped /\ dropped \subseteq 1 .. session + 1
        BY <1>1 DEF HeardInv
    <2>3. ASSUME NEW k \in Keys
          PROVE  /\ KeyHeard(trades[k], past[k], bars[k], candles[k],
                             session + 1, dropped)
                 /\ KeyTape(trades[k], past[k], bars[k], candles[k],
                            session + 1, now, TRUE)
        <3> DEFINE tr == trades[k]
                   p == past[k]
                   c == candles[k]
        <3>1. bars[k] = NoBar
            BY <2>1 DEF FeedInv
        <3>2. /\ KeyHeard(tr, p, NoBar, c, session, dropped)
              /\ KeyInv(now, tr, p, NoBar, c)
              /\ tr \in Seq(Trades) /\ c \in Seq(Candles) /\ p \in 0 .. Len(tr)
            BY <1>1, <3>1 DEF HeardInv
        <3>3. \A i \in 1 .. Len(c) : c[i].by \in 1 .. session
            BY <3>2 DEF KeyHeard
        <3> HIDE DEF tr, p, c
        <3>4. KeyHeard(tr, p, NoBar, c, session + 1, dropped)
            BY <1>1, <2>2, <3>2, HeardNothingYet
        <3>5. KeyTape(tr, p, NoBar, c, session + 1, now, TRUE)
            BY <1>1, <3>2, <3>3, TapeBegins
        <3> QED BY <3>1, <3>4, <3>5 DEF tr, p, c
    <2>4. now \in Clock /\ now <= now /\ session + 1 # 0
        BY <1>1 DEF HeardInv
    <2>5. \A k \in Keys :
             /\ KeyHeard(trades'[k], past'[k], bars'[k], candles'[k], session',
                         dropped')
             /\ KeyTape(trades'[k], past'[k], bars'[k], candles'[k], session',
                        began', streaming')
        BY <2>1, <2>3
    <2>6. /\ now' \in Clock /\ streaming' \in BOOLEAN
          /\ session' # 0 /\ began' \in Nat /\ began' <= now'
          /\ dropped' \subseteq 1 .. session'
        BY <1>1, <2>1, <2>2, <2>4
    <2> QED BY <2>5, <2>6 DEF HeardInv
<1>6. ASSUME NEW told \in SUBSET Keys, LiveMessage(told)
      PROVE  HeardInv'
    <2>1. /\ told \subseteq Waiting /\ streaming
          /\ trades' = Handled(told)
          /\ candles' = [k \in Keys |-> candles[k] \o ClosedByTick(told, k)
                                                   \o FlushedAfter(told, k)]
          /\ now' = now /\ session' = session /\ began' = began
          /\ dropped' = dropped
        BY <1>6 DEF LiveMessage
    <2>2. \A k \in Keys : Len(trades'[k]) = Len(trades[k])
        BY <2>1, HandledKeepsTimes DEF SameTimes
    <2>3. CASE EndsAfter(told)
        <3>1. EndSession
            BY <1>6, <2>3 DEF LiveMessage
        <3>2. ASSUME NEW k \in Keys
              PROVE  /\ KeyHeard(trades'[k], Len(trades[k]), NoBar, candles'[k],
                                 session, dropped')
                     /\ KeyTape(trades'[k], Len(trades[k]), NoBar, candles'[k],
                                session, began, FALSE)
            <4>1. /\ KeyHeard(Handled(told)[k], Len(trades[k]), NoBar,
                              candles[k] \o ClosedByTick(told, k)
                                         \o FlushedAfter(told, k),
                              session, dropped)
                  /\ KeyTape(Handled(told)[k], Len(trades[k]), NoBar,
                             candles[k] \o ClosedByTick(told, k)
                                        \o FlushedAfter(told, k),
                             session, began, FALSE)
                BY <2>1, <2>3, FlushHeard
            <4> QED BY <2>1, <4>1
        <3> QED BY <2>1, <2>2, <3>1, <3>2, EndKeepsHeard
    <2>4. CASE ~EndsAfter(told)
        <3>1. /\ bars' = BarsAfter(told)
              /\ past' = [k \in Keys |->
                             past[k] + IF k \in told THEN 1 ELSE 0]
              /\ streaming' = streaming
            BY <1>6, <2>4 DEF LiveMessage
        <3>2. streaming = TRUE
            BY <2>1 DEF HeardInv
        <3>3. ASSUME NEW k \in Keys
              PROVE  /\ KeyHeard(trades'[k], past'[k], bars'[k], candles'[k],
                                 session', dropped')
                     /\ KeyTape(trades'[k], past'[k], bars'[k], candles'[k],
                                session', began', streaming')
            <4> DEFINE c == candles[k] \o ClosedByTick(told, k)
            <4>1. /\ KeyHeard(trades'[k], past'[k], bars'[k], c, session, dropped)
                  /\ KeyTape(trades'[k], past'[k], bars'[k], c, session, began,
                             TRUE)
                BY <2>1, <3>1, MessageHeard
            <4>2. c \in Seq(Candles)
                <5>1. KeyInv(now, trades'[k], past'[k], bars'[k], c)
                    BY <2>1, <3>1, MessageTicks
                <5> HIDE DEF c
                <5> QED BY <5>1 DEF KeyInv, CandlesInv
            <4> HIDE DEF c
            <4>3. c \o <<>> = c
                BY <4>2, PushNothing
            <4>4. FlushedAfter(told, k) = <<>>
                BY <2>4 DEF FlushedAfter
            <4>5. candles'[k] = c
                BY <2>1, <4>3, <4>4 DEF c
            <4> QED BY <2>1, <3>1, <3>2, <4>1, <4>5
        <3> QED BY <2>1, <3>1, <3>3 DEF HeardInv
    <2> QED BY <2>3, <2>4
<1>7. ASSUME NEW told \in SUBSET Keys, NEW key \in Keys,
             PublishFails(told, key)
      PROVE  HeardInv'
    <2>1. /\ told \subseteq Waiting /\ streaming
          /\ trades' = Handled(told)
          /\ candles' = [k \in Keys |->
                 IF k = key THEN candles[k]
                 ELSE candles[k] \o ClosedByTick(told, k)]
          /\ now' = now /\ session' = session /\ began' = began
          /\ dropped' = dropped \cup {session} /\ EndSession
        BY <1>7 DEF PublishFails, Fails
    <2>2. \A k \in Keys : Len(trades'[k]) = Len(trades[k])
        BY <2>1, HandledKeepsTimes DEF SameTimes
    <2>3. ASSUME NEW k \in Keys
          PROVE  /\ KeyHeard(trades'[k], Len(trades[k]), NoBar, candles'[k],
                             session, dropped')
                 /\ KeyTape(trades'[k], Len(trades[k]), NoBar, candles'[k],
                            session, began, FALSE)
        <3> DEFINE q == Handled(told)[k]
                   c == candles[k] \o ClosedByTick(told, k)
        <3>1. /\ KeyHeard(q, Len(trades[k]), NoBar, candles[k], session,
                          dropped \cup {session})
              /\ KeyTape(q, Len(trades[k]), NoBar, candles[k], session, began,
                         FALSE)
              /\ KeyHeard(q, Len(trades[k]), NoBar, c, session,
                          dropped \cup {session})
              /\ KeyTape(q, Len(trades[k]), NoBar, c, session, began, FALSE)
            BY <2>1, FlushHeard
        <3>2. candles'[k] = IF k = key THEN candles[k] ELSE c
            BY <2>1
        <3> HIDE DEF c
        <3> QED BY <2>1, <3>1, <3>2
    <2> QED BY <2>1, <2>2, <2>3, EndKeepsHeard
<1>8. ASSUME NEW told \in SUBSET Keys, NEW made \in SUBSET Keys,
             FlushFails(told, made)
      PROVE  HeardInv'
    <2>1. /\ told \subseteq Waiting /\ streaming
          /\ trades' = Handled(told)
          /\ candles' = [k \in Keys |-> candles[k] \o ClosedByTick(told, k)
                 \o IF k \in made THEN FlushedAfter(told, k) ELSE <<>>]
          /\ now' = now /\ session' = session /\ began' = began
          /\ dropped' = dropped \cup {session} /\ EndSession
        BY <1>8 DEF FlushFails, Fails
    <2>2. \A k \in Keys : Len(trades'[k]) = Len(trades[k])
        BY <2>1, HandledKeepsTimes DEF SameTimes
    <2>3. ASSUME NEW k \in Keys
          PROVE  /\ KeyHeard(trades'[k], Len(trades[k]), NoBar, candles'[k],
                             session, dropped')
                 /\ KeyTape(trades'[k], Len(trades[k]), NoBar, candles'[k],
                            session, began, FALSE)
        <3> DEFINE q == Handled(told)[k]
                   c == candles[k] \o ClosedByTick(told, k)
        <3>1. /\ KeyHeard(q, Len(trades[k]), NoBar, c, session,
                          dropped \cup {session})
              /\ KeyTape(q, Len(trades[k]), NoBar, c, session, began, FALSE)
              /\ KeyHeard(q, Len(trades[k]), NoBar, c \o FlushedAfter(told, k),
                          session, dropped \cup {session})
              /\ KeyTape(q, Len(trades[k]), NoBar, c \o FlushedAfter(told, k),
                         session, began, FALSE)
            BY <2>1, FlushHeard
        <3>2. candles'[k] = c \o IF k \in made THEN FlushedAfter(told, k)
                                 ELSE <<>>
            BY <2>1
        <3>3. c \in Seq(Candles)
            <4>1. KeyInv(now, q, Len(trades[k]), NoBar, c)
                BY <2>1, MessageEnds
            <4> HIDE DEF c, q
            <4> QED BY <4>1 DEF KeyInv, CandlesInv
        <3> HIDE DEF c
        <3>4. c \o <<>> = c
            BY <3>3, PushNothing
        <3> QED BY <2>1, <3>1, <3>2, <3>4
    <2> QED BY <2>1, <2>2, <2>3, EndKeepsHeard
<1>9. CASE Drop
    <2>1. /\ trades' = trades /\ candles' = candles /\ streaming
          /\ now' = now /\ session' = session /\ began' = began
          /\ dropped' = dropped \cup {session} /\ EndSession
        BY <1>9 DEF Drop, Fails
    <2>2. ASSUME NEW k \in Keys
          PROVE  /\ KeyHeard(trades'[k], Len(trades[k]), NoBar, candles'[k],
                             session, dropped')
                 /\ KeyTape(trades'[k], Len(trades[k]), NoBar, candles'[k],
                            session, began, FALSE)
        <3> DEFINE tr == trades[k]
                   c == candles[k]
                   p == past[k]
                   b == bars[k]
        <3>1. /\ KeyHeard(tr, p, b, c, session, dropped)
              /\ KeyTape(tr, p, b, c, session, began, streaming)
              /\ tr \in Seq(Trades) /\ c \in Seq(Candles) /\ p \in Nat
              /\ session \in Nat \ {0}
            BY <1>1, <2>1 DEF HeardInv
        <3> HIDE DEF tr, c, p, b
        <3>2. KeyHeard(tr, Len(tr), NoBar, c, session, dropped \cup {session})
            BY <3>1, HeardLost
        <3>3. KeyTape(tr, Len(tr), NoBar, c, session, began, FALSE)
            BY <3>1, TapeEnds
        <3> QED BY <2>1, <3>2, <3>3 DEF tr, c
    <2> QED BY <2>1, <2>2, EndKeepsHeard
<1>10. CASE Finished
    BY <1>10 DEF Finished, vars, HeardInv
<1>11. CASE UNCHANGED vars
    BY <1>11 DEF vars, HeardInv
<1> QED BY <1>2, <1>3, <1>4, <1>5, <1>6, <1>7, <1>8, <1>9, <1>10, <1>11
        DEF Next

\* The second invariant holds with the first.
THEOREM HeardInvariant == Spec => []HeardInv
<1>1. Init => FeedInv /\ HeardInv
    BY FeedInit, HeardInit
<1>2. FeedInv /\ HeardInv /\ [Next]_vars => FeedInv' /\ HeardInv'
    BY FeedStep, HeardStep
<1> QED BY <1>1, <1>2, PTL DEF Spec

\* The feed keeps its types: what waits is unheard, a bar is open in a running
\* session only, bars lie between their low and high, and a login stores a
\* token of a later day than the last.
THEOREM TypesHold == Spec => []TypeOK
<1>1. FeedInv /\ HeardInv /\ TokensInv => TypeOK
    <2> SUFFICES ASSUME FeedInv, HeardInv, TokensInv
                 PROVE  TypeOK
        OBVIOUS
    <2>1. ASSUME NEW k \in Keys
          PROVE  /\ past[k] \in 0 .. Len(trades[k])
                 /\ ~streaming => past[k] = Len(trades[k])
                 /\ \A i \in DOMAIN trades[k] :
                       /\ trades[k][i].by \in 0 .. session
                       /\ i > past[k] => trades[k][i].by = 0
                       /\ IsMarketOpen(trades[k][i].time)
                       /\ trades[k][i].time <= now
                 /\ bars[k] # NoBar => streaming /\ IsBar(bars[k])
                 /\ \A i \in DOMAIN candles[k] :
                       /\ candles[k][i].by \in 1 .. session
                       /\ IsBar(candles[k][i].bar)
        <3>1. /\ KeyInv(now, trades[k], past[k], bars[k], candles[k])
              /\ ~streaming => bars[k] = NoBar /\ past[k] = Len(trades[k])
              /\ KeyHeard(trades[k], past[k], bars[k], candles[k], session,
                          dropped)
            BY DEF FeedInv, HeardInv
        <3>2. /\ TradesInv(now, trades[k]) /\ past[k] \in 0 .. Len(trades[k])
              /\ candles[k] \in Seq(Candles)
            BY <3>1 DEF KeyInv, CandlesInv
        <3>3. /\ DOMAIN trades[k] = 1 .. Len(trades[k])
              /\ DOMAIN candles[k] = 1 .. Len(candles[k])
            BY <3>2 DEF TradesInv
        <3> QED BY <3>1, <3>2, <3>3 DEF TradesInv, KeyHeard
    <2>2. now \in Clock /\ began <= now /\ dropped \subseteq 1 .. session
        BY DEF HeardInv
    <2>3. \A i \in 2 .. Len(tokens) : tokens[i - 1] < tokens[i]
        BY DEF TokensInv
    <2> QED BY <2>1, <2>2, <2>3 DEF TypeOK
<1>2. FeedInv /\ TokensInv /\ [Next]_vars => TokensInv'
    BY TokensStep
<1>3. Spec => []TokensInv
    BY FeedInvariant, TokensInit, <1>2, PTL DEF Spec
<1> QED BY <1>1, <1>3, FeedInvariant, HeardInvariant, PTL

(* A candle that a tick closed, of a slot that began after its session was *)
(* connected, is the open, high, low, close and volume of all that was     *)
(* traded in its slot: no tick is missed, told twice or put in the next    *)
(* slot's candle, and no later trade falls in a slot already published.    *)
THEOREM CandlesTellTheTape == Spec => []CandlesMatchTape
<1>1. FeedInv /\ HeardInv => CandlesMatchTape
    <2> SUFFICES ASSUME FeedInv, HeardInv,
                        NEW k \in Keys, NEW i \in DOMAIN candles[k],
                        candles[k][i].cause = "tick",
                        candles[k][i].by = session,
                        began < candles[k][i].bar.slot * SlotTicks
                 PROVE  LET c == candles[k][i]
                            tape == TapeOf(k, c.bar.slot)
                            paid == {trades[k][j].price : j \in tape}
                        IN  /\ c.bar.open = trades[k][Min(tape)].price
                            /\ c.bar.close = trades[k][Max(tape)].price
                            /\ c.bar.high = Max(paid)
                            /\ c.bar.low = Min(paid)
                            /\ c.bar.volume = Cardinality(tape)
        BY DEF CandlesMatchTape
    <2> DEFINE b == candles[k][i].bar
               tape == TapeOf(k, b.slot)
               tr == trades[k]
    <2>1. /\ tr \in Seq(Trades) /\ candles[k] \in Seq(Candles)
          /\ KeyTape(tr, past[k], bars[k], candles[k], session, began, streaming)
        BY DEF FeedInv, HeardInv, KeyInv, CandlesInv
    <2>2. b \in Bars /\ i \in 1 .. Len(candles[k])
        <3>1. candles[k][i] \in Candles
            BY <2>1
        <3> QED BY <2>1, <3>1 DEF Candles
    <2>3. Tells(b, tr, InSlot(tr, Len(tr), b.slot))
        BY <2>1, <2>2 DEF KeyTape
    <2>4. tape = InSlot(tr, Len(tr), b.slot) /\ tape \subseteq 1 .. Len(tr)
        BY <2>1 DEF TapeOf, InSlot
    <2> HIDE DEF b, tape, tr
    <2>5. LET paid == {tr[j].price : j \in tape}
          IN  /\ b.open = tr[Min(tape)].price
              /\ b.close = tr[Max(tape)].price
              /\ b.high = Max(paid)
              /\ b.low = Min(paid)
              /\ b.volume = Cardinality(tape)
        BY <2>1, <2>2, <2>3, <2>4, TellsTape
    <2> QED BY <2>5 DEF b, tape, tr
<1> QED BY <1>1, FeedInvariant, HeardInvariant, PTL

(* However ticks, slot ends, failed publications and the end of the market *)
(* fall together, every tick that a session handled is in exactly one of   *)
(* its candles or in a bar it has open, unless the session ended before    *)
(* its flush.                                                              *)
THEOREM EveryTickIsAccounted == Spec => []NothingHeardIsLost
<1>1. HeardInv => NothingHeardIsLost
    <2> SUFFICES ASSUME HeardInv, NEW k \in Keys, NEW s \in 1 .. session
                 PROVE  LET out == VolumeOut(k, s) + VolumeOpen(k, s)
                        IN  IF s \in dropped
                            THEN out <= VolumeHeard(k, s)
                            ELSE out = VolumeHeard(k, s)
        BY DEF NothingHeardIsLost
    <2>1. Balanced(Out(candles[k], s) + Open(bars[k], s, session),
                   Cardinality(Heard(trades[k], s)), s \in dropped)
        BY DEF HeardInv, KeyHeard, Books
    <2>2. /\ VolumeOut(k, s) = Out(candles[k], s)
          /\ VolumeOpen(k, s) = Open(bars[k], s, session)
          /\ VolumeHeard(k, s) = Cardinality(Heard(trades[k], s))
        BY DEF VolumeOut, Volumes, Out, CandleVolumes, CandlesOf, VolumeOpen,
               Open, VolumeHeard, Heard
    <2> QED BY <2>1, <2>2 DEF Balanced
<1> QED BY <1>1, HeardInvariant, PTL

=============================================================================
