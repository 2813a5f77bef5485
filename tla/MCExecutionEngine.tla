-------------------------- MODULE MCExecutionEngine --------------------------
(***************************************************************************)
(* Small instances of ExecutionEngine, with the dashboard on its tables.   *)
(***************************************************************************)
EXTENDS Dashboard

CONSTANTS TCS, INFY, NIFTY

Order(id, symbol, dir, born) ==
    [id |-> id, symbol |-> symbol, dir |-> dir, qty |-> 10, born |-> born,
     entry   |-> IF dir = "LONG" THEN 300 ELSE 400,
     stop    |-> IF dir = "LONG" THEN 200 ELSE 500,
     target  |-> IF dir = "LONG" THEN 500 ELSE 200,
     trigger |-> IF dir = "LONG" THEN 400 ELSE 300]

\* Two symbols, one order each, in one session.
OneSession == { Order("tcs0", TCS, "LONG", 0), Order("infy0", INFY, "SHORT", 0) }

\* One symbol with an order in each of two sessions.
TwoSessions == { Order("tcs0", TCS, "LONG", 0),
                 Order("tcs1", TCS, "LONG", SlotsPerDay) }

Shape(o, h, l, c) == [open |-> o, high |-> h, low |-> l, close |-> c]

\* A candle that triggers neither order, one that fills the LONG and holds,
\* one that fills the SHORT and holds or stops the LONG, one that reaches
\* the LONG's target.
Tape == { Shape(420, 430, 420, 425), Shape(250, 280, 220, 250),
          Shape(320, 390, 310, 350), Shape(410, 520, 405, 510) }

\* Rest, fill and hold, stop.
ShortTape == { Shape(250, 280, 220, 250), Shape(320, 390, 310, 350),
               Shape(320, 340, 180, 200) }

\* Fill and hold, stop.
FillTape == { Shape(320, 390, 310, 350), Shape(320, 340, 180, 200) }

=============================================================================
