------------------------------ MODULE Executor ------------------------------
(***************************************************************************)
(* agents/executor.py: an agent that moves the account toward a plan, next *)
(* to the other clients of the order manager.                              *)
(*                                                                         *)
(* reconcile() computes all its orders from the positions it is passed and *)
(* then submits them one after the other.  With this broker no submit      *)
(* suspends, so nothing else runs until the last one is through.           *)
(*                                                                         *)
(* Quantities count parts of a share, Share of them to the share, so that  *)
(* equity times weight divided by a mark can be a fraction of a share.     *)
(***************************************************************************)
EXTENDS OMS

CONSTANTS
  Worths,       \* equity * target_w, in parts of a share times the price
  Share,        \* how many parts make a share
  MaxChildQty   \* policy.max_child_qty

ASSUME ExecutorAssumption ==
  /\ Worths \subseteq Int
  /\ \A worth \in Worths, mark \in Prices : worth % mark = 0
  /\ Share \in Nat \ {0} /\ MaxChildQty \in Nat \ {0}

VARIABLES
  outbox,   \* the orders of a call not submitted yet
  course    \* what the last call can be held to, per instrument [from, to] (history)

execVars == <<omsVars, outbox, course>>

NoCourse == << >>

ExecInit == OMSInit /\ outbox = << >> /\ course = NoCourse

-----------------------------------------------------------------------------
(* ExecutorAgent.reconcile                                                 *)

TargetQty(worth, mark) == worth \div mark

\* Faulty variant: the last chunk is not cut to what remains.
SplitFull(total, chunk) == [k \in 1..((total + chunk - 1) \div chunk) |-> chunk]

\* Faulty variant: only the first chunk is ordered.
SplitOnce(total, chunk) == <<Least(total, chunk)>>

\* _split: chunks of the largest size, the last one takes the rest.
Split(total, chunk) ==
  [k \in 1..((total + chunk - 1) \div chunk) |-> Least(chunk, total - (k - 1) * chunk)]

SideToward(to, from) == IF to > from THEN "buy" ELSE "sell"

\* Less than a share is let be.
ChildrenFor(i, to, from) ==
  LET delta == Magnitude(to - from)
      Child(qty) == [instrument |-> i, side |-> SideToward(to, from), type |-> "market",
                     limit_price |-> 0, qty |-> qty, mode |-> SessionMode]
      chunks == Split(delta, MaxChildQty)
  IN  IF delta < Share THEN << >> ELSE [k \in DOMAIN chunks |-> Child(chunks[k])]

Settled == pending = << >> /\ streamed = Len(fills)

\* A call with a plan for the instruments `keys` names, in the order of its dict;
\* the host passes the manager's positions.  It can be held to its targets if
\* nothing was in flight.
Reconcile(keys, worth, mark) ==
  LET Move(i)     == [from |-> oms_positions[i].qty, to |-> TargetQty(worth[i], mark[i])]
      Children(i) == ChildrenFor(i, Move(i).to, Move(i).from)
      children    == FlattenSeq([k \in DOMAIN keys |-> Children(keys[k])])
      moved       == { i \in ToSet(keys) : Children(i) # << >> }
  IN  /\ outbox = << >>
      /\ Len(orders) + Len(children) <= MaxOrders
      /\ outbox' = children
      /\ course' = IF Settled THEN [i \in moved |-> Move(i)] ELSE NoCourse
      /\ UNCHANGED omsVars

\* One submit after the other; a refused order is not repeated.
SubmitNext ==
  /\ outbox # << >>
  /\ Submit(Head(outbox))
  /\ outbox' = Tail(outbox)
  /\ course' = IF orders'[Len(orders')].status = "rejected" THEN NoCourse ELSE course

-----------------------------------------------------------------------------
(* The desk with the executor at it                                        *)

\* Other clients' orders and cancels take a course away.
OthersStep ==
  /\ outbox = << >>
  /\ OMSNext
  /\ course' = IF Len(orders') > Len(orders) \/ cancelled' # cancelled
                 THEN NoCourse ELSE course
  /\ UNCHANGED outbox

\* The instruments a plan may name, in any order.
Plans == UNION { SetToSeqs(chosen) : chosen \in (SUBSET Instruments) \ {{}} }

ExecNext ==
  \/ \E keys \in Plans :
       \E worth \in [ToSet(keys) -> Worths], mark \in [ToSet(keys) -> Prices] :
         Reconcile(keys, worth, mark)
  \/ SubmitNext
  \/ OthersStep

ExecSpec == ExecInit /\ [][ExecNext]_execVars

-----------------------------------------------------------------------------
(* Properties                                                              *)

Between(n, a, b) == (a <= n /\ n <= b) \/ (b <= n /\ n <= a)

\* "orders that move toward the target" (executor.py, line 4): after a call that
\* nothing was in flight at, the position lies between where it was and the target
\* at every moment, however the children are executed, and until somebody
\* else trades.
MovesToward ==
  \A i \in DOMAIN course : Between(positions[i].qty, course[i].from, course[i].to)

\* Once every child of such a call is executed and delivered, none of them refused,
\* the manager's position is less than a share away from the target.
ReachesTarget ==
  (outbox = << >> /\ Settled) =>
    \A i \in DOMAIN course : Magnitude(oms_positions[i].qty - course[i].to) < Share

=============================================================================
