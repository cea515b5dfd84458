---------------------------- MODULE MCSimBroker ----------------------------
(* Small instances of SimBroker.                                           *)
EXTENDS SimBroker

Ask(instrument, side, type, limit, qty) ==
  [instrument |-> instrument, side |-> side, type |-> type,
   limit_price |-> limit, qty |-> qty, mode |-> "backtest"]

\* Two instruments; sizes that need one or two bars under a cap of two, so that
\* averages are not whole; sells that reduce, close or flip what the buy opened;
\* a limit that some prices cross on either side, a stop order (which never
\* matches), and a request the session's mode refuses.
BookRequests ==
  { Ask("A", "buy", "market", 0, 3), Ask("A", "sell", "market", 0, 4),
    Ask("B", "buy", "market", 0, 1),
    Ask("A", "sell", "limit", 2, 3), Ask("A", "buy", "limit", 1, 1),
    Ask("A", "buy", "stop", 0, 1),
    [Ask("A", "buy", "market", 0, 1) EXCEPT !.mode = "paper"] }

\* Market orders in one and in two executions, and a limit never reached.
ProgressRequests ==
  { Ask("A", "buy", "market", 0, 3), Ask("B", "sell", "market", 0, 1),
    Ask("A", "buy", "limit", 1, 1) }

TwoInstruments == {"A", "B"}

=============================================================================
