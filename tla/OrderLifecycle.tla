--------------------------- MODULE OrderLifecycle ---------------------------
(***************************************************************************)
(* What a broker promises about the orders it is given, whatever it does   *)
(* to match them: ARCHITECTURE.md section 6 names the states.  An order    *)
(* is open from the moment it is accepted until it is filled or withdrawn; *)
(* while open it gathers executions, never more than was ordered; closed,  *)
(* it never changes again.                                                 *)
(***************************************************************************)
EXTENDS Integers, Sequences

VARIABLE book   \* the orders accepted: [qty, filled, state], state "open" or "closed"

Accepted ==
  /\ Len(book') = Len(book) + 1
  /\ \A o \in DOMAIN book : book'[o] = book[o]
  /\ book'[Len(book')].filled = 0
  /\ book'[Len(book')].state = "open"

\* One order, open so far, is withdrawn with what it has got.
Withdrawn ==
  \E o \in DOMAIN book :
    /\ book[o].state = "open"
    /\ book' = [book EXCEPT ![o].state = "closed"]

\* `next` is `order` after some further execution; it closes when complete.
Progressed(order, next) ==
  /\ order.state = "open"
  /\ next.qty = order.qty
  /\ order.filled < next.filled /\ next.filled <= order.qty
  /\ next.state = IF next.filled < order.qty THEN "open" ELSE "closed"

\* A bar executes any number of open orders, each in part or in full.
Executions ==
  /\ Len(book') = Len(book)
  /\ \A o \in DOMAIN book : book'[o] = book[o] \/ Progressed(book[o], book'[o])

LifecycleInit == book = << >>

LifecycleNext == Accepted \/ Withdrawn \/ Executions

LifecycleSpec == LifecycleInit /\ [][LifecycleNext]_book

=============================================================================
