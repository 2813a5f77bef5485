---------------------------- MODULE MCRiskEngine ----------------------------
(***************************************************************************)
(* Small instances of RiskEngine.                                          *)
(***************************************************************************)
EXTENDS RiskEngine

CONSTANTS TCS, INFY, SBIN

Signal(id, symbol, day, entry, stop) ==
    [id |-> id, symbol |-> symbol, day |-> day, entry |-> entry, stop |-> stop]

\* A day with two signals for one symbol (strategy-engine restarted), two
\* large ones that the cash cannot both pay for, three small ones that it
\* can, and one with no risk per share; then a second day.
SignalSet ==
    { Signal(1, TCS,  0, 20, 19), Signal(2, TCS,  0, 22, 21),
      Signal(3, INFY, 0, 30, 31), Signal(4, SBIN, 0, 15, 15),
      Signal(5, SBIN, 0, 12, 8),  Signal(6, INFY, 0, 10, 14),
      Signal(7, TCS,  1, 25, 24) }

\* The equity may have been wiped out, shrunk or grown.
EquitySet == {-10, 60, 130}

=============================================================================
