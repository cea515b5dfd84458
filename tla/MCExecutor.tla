----------------------------- MODULE MCExecutor -----------------------------
(* Small instances of Executor.                                            *)
EXTENDS Executor

Ask(side, type, limit, qty, mode) ==
  [instrument |-> "A", side |-> side, type |-> type,
   limit_price |-> limit, qty |-> qty, mode |-> mode]

\* Orders that build a position, close it at a loss or a profit, breach a limit
\* of the risk engine, or carry the wrong mode.
DeskRequests ==
  { Ask(side, "market", 0, 2, "backtest") : side \in Sides }
    \cup { Ask("buy", "market", 0, 4, "backtest"),
           Ask("buy", "limit", 3, 2, "backtest"),
           Ask("sell", "market", 0, 1, "paper") }

\* A plan goes short or lets go; at the higher price a short of one part is half a
\* share.
DeskWorths == {-3, 0}

TwoInstruments == {"A", "B"}

=============================================================================
