---------------------------- MODULE OrderAmounts ----------------------------
(***************************************************************************)
(* What place_limit_order makes of a price and a size, and what becomes of *)
(* the entry it records.  The entry is keyed by the price and size it is   *)
(* called with, in thousandths.  The order that is signed has its price    *)
(* rounded to the tick size and its size cut to whole lots of a hundredth, *)
(* in floating point, and the exchange announces its end at the price and  *)
(* size of that order.                                                     *)
(*                                                                         *)
(* Here an order rests from the call on, and a cancellation reaches the    *)
(* exchange when it is asked for; its answer and the message that tells of *)
(* it come later, in either order.  OpenOrders has what may come in        *)
(* between, but takes the two keys to be the same.                         *)
(***************************************************************************)
EXTENDS Integers, Sequences, FiniteSets

CONSTANTS
  Prices,   \* the prices orders are placed at, in thousandths
  Sizes,    \* and their sizes
  Ticks,    \* the tick sizes, in thousandths: 0.0001 rounds as 0.001 does
  MaxCalls  \* bounds the orders placed

ASSUME OrderAmountsAssumption ==
  /\ Prices \subseteq Nat
  /\ Sizes \subseteq Nat
  /\ Ticks \subseteq {100, 10, 1}
  /\ MaxCalls \in Nat

VARIABLES
  open_orders,  \* the entries: the orders that recorded them
  resting,      \* the orders at the exchange
  announced,    \* the keys at which ends of orders are announced
  deleting,     \* orders whose cancellation has yet to be answered
  calls,        \* the orders placed, by all calls that were not refused
  reused        \* history: the keys an order was placed at while the end of
                \*   an earlier one was on its way there

vars == <<open_orders, resting, announced, deleting, calls, reused>>

Call == [side : {"BUY", "SELL"}, price : Prices, size : Sizes, tick : Ticks]

Init ==
  /\ open_orders = {}
  /\ resting = {}
  /\ announced = <<>>
  /\ deleting = {}
  /\ calls = {}
  /\ reused = {}

-----------------------------------------------------------------------------
(* Double precision.  n/d is stored with 52 bits after its first, as the   *)
(* integer nearest to 2^m * n/d for m == 52 - FloorLog2(n, d).  If that is *)
(* below, the product with s is short of n*s/d by s*r/d units of 2^-m, r   *)
(* being 2^m * n modulo d, and stays short if this is more than half the   *)
(* distance of two numbers next to n*s/d.                                  *)

\* 2^m modulo d.
PowerOf2(m, d) ==
  LET p[i \in 0..m] == IF i = 0 THEN 1 ELSE (2 * p[i - 1]) % d
  IN p[m]

\* The largest e with 2^e <= n/d.
FloorLog2(n, d) ==
  LET AtLeast(e) == IF e >= 0 THEN n \div d >= 2^e
                               ELSE (d + n - 1) \div n <= 2^(-e)
  IN CHOOSE e \in -10..20 : AtLeast(e) /\ ~AtLeast(e + 1)

\* (n / d) * s in floating point is less than n*s/d.
Slips(n, d, s) ==
  LET a == FloorLog2(n, d)
      b == FloorLog2(n * s, d)
      r == (PowerOf2(52 - a, d) * n) % d
  IN 2 * r < d /\ 2 * s * r > d * 2^(b - a)

-----------------------------------------------------------------------------
(* Building the order                                                      *)

\* Slip: the size is rounded to the nearest lot.
round_down_ToNearest(size) == (size + 5) \div 10

\* Whole lots: one less than there are if the product with 100 falls short.
round_down(size) ==
  IF size > 0 /\ size % 10 = 0 /\ Slips(size, 1000, 100)
  THEN size \div 10 - 1 ELSE size \div 10

\* Half a tick is rounded up, unless the product falls short of it.
round_normal(price, tick) ==
  LET r == price % tick IN
    IF 2 * r > tick \/ (2 * r = tick /\ ~Slips(price, 1000, 1000 \div tick))
    THEN price - r + tick ELSE price - r

\* In millionths of a dollar and of a share.  The product of price and size
\* needs fewer decimals than are kept, so rounding only removes the noise.
get_order_amounts(c) ==
  LET lots == round_down(c.size)
      tokens == 10000 * lots
      dollars == 10 * lots * round_normal(c.price, c.tick)
  IN IF c.side = "BUY" THEN [maker |-> dollars, taker |-> tokens]
                       ELSE [maker |-> tokens, taker |-> dollars]

create_order(c) ==
  [side |-> c.side, maker_amount |-> get_order_amounts(c).maker,
   taker_amount |-> get_order_amounts(c).taker]

-----------------------------------------------------------------------------
(* The life of an order                                                    *)

Key(c) == [side |-> c.side, price |-> c.price, size |-> c.size]

remove_order_entry(key) == {o \in open_orders : Key(o.call) # key}

\* The end of an order is on its way to the key.
Pending(key) ==
  \/ \E i \in 1..Len(announced) : announced[i] = key
  \/ \E o \in deleting : Key(o.call) = key

\* The entry is recorded if there is none at its key; it is removed again
\* if an amount is zero, and then nothing is sent.
place_limit_order(c) ==
  /\ Cardinality(calls) < MaxCalls
  /\ \A o \in open_orders : Key(o.call) # Key(c)
  /\ LET order == create_order(c)
         new   == [id |-> Cardinality(calls) + 1, call |-> c, order |-> order]
     IN IF order.maker_amount = 0 \/ order.taker_amount = 0
        THEN UNCHANGED vars
        ELSE /\ open_orders' = open_orders \cup {new}
             /\ resting' = resting \cup {new}
             /\ calls' = calls \cup {new}
             /\ reused' = IF Pending(Key(c)) THEN reused \cup {Key(c)} ELSE reused
             /\ UNCHANGED <<announced, deleting>>

\* The exchange's price of an order and its size, in thousandths, which is
\* what rounding reads back from the decimals of a message.
shares(order) ==
  (IF order.side = "BUY" THEN order.taker_amount ELSE order.maker_amount) \div 1000
price(order) ==
  (IF order.side = "BUY" THEN order.maker_amount ELSE order.taker_amount)
    \div shares(order)

AnnouncedKey(order) ==
  [side |-> order.side, price |-> price(order), size |-> shares(order)]

\* The order ends at the exchange, which announces it.
Ends(o) ==
  /\ resting' = resting \ {o}
  /\ announced' = Append(announced, AnnouncedKey(o.order))

ExchFill(o) == Ends(o) /\ UNCHANGED <<open_orders, deleting, calls, reused>>

\* Slip: only the side and the size of the message are compared.
user_end_of_order_AnyPrice ==
  /\ announced # <<>>
  /\ announced' = Tail(announced)
  /\ open_orders' = {o \in open_orders :
       o.call.side # Head(announced).side \/ o.call.size # Head(announced).size}
  /\ UNCHANGED <<resting, deleting, calls, reused>>

\* Slip: whatever the side, the entry is looked for among the bids.
user_end_of_order_OnlyBids ==
  /\ announced # <<>>
  /\ announced' = Tail(announced)
  /\ open_orders' = remove_order_entry([Head(announced) EXCEPT !.side = "BUY"])
  /\ UNCHANGED <<resting, deleting, calls, reused>>

user_end_of_order ==
  /\ announced # <<>>
  /\ announced' = Tail(announced)
  /\ open_orders' = remove_order_entry(Head(announced))
  /\ UNCHANGED <<resting, deleting, calls, reused>>

\* An order that has its entry is cancelled.  (Of one that is no longer there
\* the exchange refuses it, and the process ends.)
cancel_limit_order(o) ==
  /\ o \in open_orders
  /\ Ends(o)
  /\ deleting' = deleting \cup {o}
  /\ UNCHANGED <<open_orders, calls, reused>>

\* The task that cancels the order holds the key it was called with.
CancelReturns(o) ==
  /\ deleting' = deleting \ {o}
  /\ open_orders' = remove_order_entry(Key(o.call))
  /\ UNCHANGED <<resting, announced, calls, reused>>

Next ==
  \/ \E c \in Call : place_limit_order(c)
  \/ \E o \in resting : ExchFill(o) \/ cancel_limit_order(o)
  \/ \E o \in deleting : CancelReturns(o)
  \/ user_end_of_order

Spec == Init /\ [][Next]_vars

-----------------------------------------------------------------------------
(* Properties                                                              *)

Abs(n) == IF n < 0 THEN -n ELSE n

\* Whatever floating point does to the amounts, the order that is sent is
\* for no more shares than asked for and for less than two lots fewer, and
\* at a price that is within half a tick of the one asked for.
SentAsAsked ==
  \A o \in resting :
    /\ shares(o.order) <= o.call.size
    /\ shares(o.order) > o.call.size - 20
    /\ 2 * Abs(price(o.order) - o.call.price) <= o.call.tick

\* The price is a multiple of the tick, the size is in whole lots and is a
\* number whose product with 100 does not fall short.
Exact(c) ==
  /\ c.price % c.tick = 0
  /\ c.size % 10 = 0
  /\ ~Slips(c.size, 1000, 100)

\* Once the messages are handled, an entry whose order is gone is one whose
\* price or size was not exact.  (Its key cannot be used again, and a
\* strategy that cancels what it finds there ends the process.)
OnlyInexactLeftBehind ==
  announced = <<>> => \A o \in open_orders \ resting : ~Exact(o.call)

\* As long as no order has been placed whose price or size was not exact, the
\* end of one removes no entry of another that rests, except at a key that
\* was used again while the end of its earlier order was on its way.
TrackedUnlessInexact ==
  (\A o \in calls : Exact(o.call)) =>
    \A o \in resting : Key(o.call) \in reused \/ o \in open_orders
=============================================================================
