----------------------------- MODULE MCBacktest -----------------------------
(* Small instances of Backtest.                                            *)
EXTENDS Backtest

\* The engine makes its own orders.
NoRequests == {}

OneInstrument == {"A"}

TwoInstruments == {"A", "B"}

=============================================================================
