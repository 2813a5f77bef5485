---------------------------- MODULE MCPaperBroker ----------------------------
(***************************************************************************)
(* Small instances of PaperBroker.                                         *)
(***************************************************************************)
EXTENDS PaperBroker

CONSTANTS TCS, INFY

\* Orders of either direction around the same prices: LONG from 300 to 500
\* with a stop at 200, SHORT from 400 to 200 with a stop at 500.
Order(id, symbol, dir, trigger, born) ==
    [id |-> id, symbol |-> symbol, dir |-> dir, qty |-> 10, born |-> born,
     entry   |-> IF dir = "LONG" THEN 300 ELSE 400,
     stop    |-> IF dir = "LONG" THEN 200 ELSE 500,
     target  |-> IF dir = "LONG" THEN 500 ELSE 200,
     trigger |-> trigger]

\* Every order kind, for one symbol and one session.
EveryKind ==
    { Order("long",  TCS, "LONG",  400, 0),
      Order("short", TCS, "SHORT", 300, 0),
      Order("longNoTrigger",  TCS, "LONG",  NoPrice, 0),
      Order("shortNoTrigger", TCS, "SHORT", NoPrice, 0) }

\* Every candle on six price levels.
SixLevels == {100 * n : n \in 1 .. 6}
EveryShape == Shapes(SixLevels)

\* One LONG on either session of TCS, one on INFY.
TwoSessions ==
    { Order("tcs0", TCS, "LONG", 400, 0),
      Order("tcs1", TCS, "LONG", 400, SlotsPerDay + 1),
      Order("infy0", INFY, "SHORT", 300, 1) }

\* Candles that leave a resting order alone, fill it and hold, stop it, and
\* reach its breakeven trigger and its target.
Shape(o, h, l, c) == [open |-> o, high |-> h, low |-> l, close |-> c]
Tape ==
    { Shape(250, 280, 220, 250), Shape(320, 390, 310, 350),
      Shape(320, 340, 180, 200), Shape(350, 420, 340, 410),
      Shape(410, 520, 405, 510) }

\* The same without the last two: settling does not depend on them.
ShortTape == { Shape(250, 280, 220, 250), Shape(320, 390, 310, 350),
               Shape(320, 340, 180, 200) }

\* One symbol only, for the runs about one symbol's next session.
OneSymbol == {o \in TwoSessions : o.symbol = TCS}

=============================================================================
