-------------------------------- MODULE Tob ---------------------------------
(***************************************************************************)
(* TobStrategy on top of the open orders, the rate limiter and the         *)
(* positions.  A change of an asset's book makes it plan an order of       *)
(* TARGET_ORDER_SIZE at the best bid, if the net position is below that    *)
(* size, no order is there yet and the limiter allows it.  It then cancels *)
(* every order of the asset and, if each of these calls succeeded, places  *)
(* the new one.                                                            *)
(*                                                                         *)
(* The handler runs on the thread that also handles user messages, so none *)
(* of those comes between its steps, but the tasks that post and cancel    *)
(* orders, and the exchange, go on.  What fills of an order is announced   *)
(* twice, by an order message (user_events) and by a trade message         *)
(* (trade_after), and a book may change between the two.                   *)
(*                                                                         *)
(* The assets are the two tokens of a market, and a key is a price, all    *)
(* orders being of TARGET_ORDER_SIZE.  That is a number of lots, which an  *)
(* order may be filled by one at a time, or several at once.               *)
(***************************************************************************)
EXTENDS OrderAssets, FiniteSets

\* One lot more than may be filled while an order stays open.
TARGET_ORDER_SIZE == MaxPartial + 1

VARIABLES
  waiting,      \* RateLimit.should_wait
  position,     \* the position in each asset, in lots
  plan,         \* the order the handler is about to place, or NoOrder
  to_cancel,    \* the keys it has yet to cancel
  trade_after,  \* trade messages on their way: the order, what was matched of
                \*   it before the trade and with it, and how many messages
                \*   of user_events come first
  asked,        \* history: the orders a cancellation was sent for
  reused        \* history: an order was placed at the key of another that
                \*   had messages, answers or a cancellation on their way

tob_vars == <<waiting, position, plan, to_cancel, trade_after, asked, reused>>
tob_all_vars == <<vars, tob_vars>>

TobInit ==
  /\ Init
  /\ waiting = FALSE
  /\ position = [a \in Assets |-> 0]
  /\ plan = NoOrder
  /\ to_cancel = {}
  /\ trade_after = <<>>
  /\ asked = {}
  /\ reused = FALSE

-----------------------------------------------------------------------------
(* The strategy                                                            *)

OtherPosition(a) ==
  LET others == Assets \ {a} IN
    IF others = {} THEN 0 ELSE position[CHOOSE b \in others : TRUE]

\* The saturating difference of the positions is less than an order.
BelowTarget(a) == position[a] < OtherPosition(a) + TARGET_ORDER_SIZE

\* The keys of an asset that have an entry, whatever its state.
collect_orders_asset(a) ==
  {k \in Keys : AssetOf[k] = a /\ open_orders[k] # NoOrder}

\* Slip: the position in the asset is not looked at.
plan_order_NoPosition(o) ==
  /\ ~waiting
  /\ open_orders[KeyOf[o]] = NoOrder

\* That the best bid is bigger than MAX_VOLUME is a choice here.
plan_order(o) ==
  /\ BelowTarget(AssetOfOrder(o))
  /\ ~waiting
  /\ open_orders[KeyOf[o]] = NoOrder

\* The handler starts: it plans an order and collects what to cancel.
tob_handle_market_price_change(o) ==
  /\ ~exited
  /\ plan = NoOrder
  /\ post[o] = "none"
  /\ plan_order(o)
  /\ plan' = o
  /\ to_cancel' = collect_orders_asset(AssetOfOrder(o))
  /\ UNCHANGED <<vars, waiting, position, trade_after, asked, reused>>

\* The handler is inside cancel_limit_order.
Cancelling == \E c \in CancelTasks : cancel_pc[c] = "found"

stop_handler == plan' = NoOrder /\ to_cancel' = {}

\* What has been asked to be cancelled, once the tasks are this far.
AskedBy(pc) == asked \cup {cancel_order[c] : c \in {d \in CancelTasks : pc[d] = "sent"}}

\* Slip: a cancellation that fails does not stop the others, or the order.
cancel_orders_GoesOn ==
  /\ plan # NoOrder
  /\ \/ \E k \in to_cancel :
          /\ ~Cancelling
          /\ to_cancel' = to_cancel \ {k}
          /\ \/ \E c \in CancelTasks : CancelLookup(c, k)
             \/ open_orders[k] = NoOrder /\ UNCHANGED vars
          /\ UNCHANGED plan
     \/ \E c \in CancelTasks :
          /\ CancelSend(c) \/ CancelWithoutId(c)
          /\ UNCHANGED <<plan, to_cancel>>
  /\ asked' = AskedBy(cancel_pc')
  /\ UNCHANGED <<waiting, position, trade_after, reused>>

\* One key after the other; the first that has lost its entry since, or
\* whose order has no id, makes cancel_orders fail and the handler return.
cancel_orders ==
  /\ plan # NoOrder
  /\ \/ \E k \in to_cancel :
          /\ ~Cancelling
          /\ \/ /\ \E c \in CancelTasks : CancelLookup(c, k)
                /\ to_cancel' = to_cancel \ {k}
                /\ UNCHANGED plan
             \/ /\ open_orders[k] = NoOrder
                /\ stop_handler
                /\ UNCHANGED vars
     \/ \E c \in CancelTasks :
          \/ CancelSend(c) /\ UNCHANGED <<plan, to_cancel>>
          \/ CancelWithoutId(c) /\ stop_handler
  /\ asked' = AskedBy(cancel_pc')
  /\ UNCHANGED <<waiting, position, trade_after, reused>>

\* The limiter is asked again, and its timestamp taken before the order is
\* recorded: an order refused for its amounts uses the window up as well.
execute_order_plan ==
  /\ plan # NoOrder
  /\ to_cancel = {}
  /\ ~Cancelling
  /\ ~waiting
  /\ waiting' = TRUE
  /\ place_limit_order(plan) \/ place_zero_amount(plan)
  /\ reused' = (reused \/ Unsettled(KeyOf[plan]))
  /\ stop_handler
  /\ UNCHANGED <<position, trade_after, asked>>

-----------------------------------------------------------------------------
(* Everything else                                                         *)

wait_over ==
  /\ waiting
  /\ waiting' = FALSE
  /\ UNCHANGED <<vars, position, plan, to_cancel, trade_after, asked, reused>>

Bought(o, lots) ==
  position' = [position EXCEPT ![AssetOfOrder(o)] = @ + lots]

\* The next message is an order message or a taker's trade, which both the
\* orders and the positions are updated from.
TobUserEvent ==
  /\ plan = NoOrder
  /\ \A i \in DOMAIN trade_after : trade_after[i].after > 0
  /\ HandleUserEvent
  /\ trade_after' = [i \in DOMAIN trade_after |->
                       [trade_after[i] EXCEPT !.after = @ - 1]]
  /\ LET e == Head(user_events) IN
       IF e.type = "TAKER_TRADE" THEN Bought(e.id, TARGET_ORDER_SIZE)
                                 ELSE UNCHANGED position
  /\ UNCHANGED <<waiting, plan, to_cancel, asked, reused>>

\* Or it is the trade message of what filled of a resting order.
HandleTrade ==
  /\ ~exited
  /\ plan = NoOrder
  /\ trade_after # <<>>
  /\ Head(trade_after).after = 0
  /\ LET t == Head(trade_after) IN Bought(t.id, t.has - t.had)
  /\ trade_after' = Tail(trade_after)
  /\ UNCHANGED <<vars, waiting, plan, to_cancel, asked, reused>>

\* The lots of the order that the exchange has matched.
matched(o) == IF exch[o] = "filled" THEN TARGET_ORDER_SIZE ELSE exch_filled[o]

\* The exchange accepts the order, perhaps with a part that matches at once,
\* or fills a lot or the rest of it.  What it matches is announced by the
\* order message and a trade message, one right after the other, in either
\* order.
Fill(o) ==
  /\ ExchAccept(o) \/ ExchPartialFill(o) \/ ExchFill(o)
  /\ IF matched(o)' = matched(o)
     THEN UNCHANGED trade_after
     ELSE \E n \in {Len(user_events), Len(user_events')} :
            trade_after' = Append(trade_after,
              [id |-> o, after |-> n, had |-> matched(o), has |-> matched(o)'])
  /\ UNCHANGED <<waiting, position, plan, to_cancel, asked, reused>>

TobElsewhere ==
  /\ \/ \E o \in Orders :
          \/ PostReturns(o)
          \/ ExchReject(o) \/ ExchTake(o, KeyOf[o]) \/ ExchWithdraw(o)
     \/ \E c \in CancelTasks : CancelAnswer(c) \/ CancelReturns(c)
  /\ UNCHANGED tob_vars

TobNext ==
  \/ \E o \in Orders : tob_handle_market_price_change(o) \/ Fill(o)
  \/ cancel_orders
  \/ execute_order_plan
  \/ wait_over
  \/ TobUserEvent
  \/ HandleTrade
  \/ TobElsewhere

TobSpec == TobInit /\ [][TobNext]_tob_all_vars

-----------------------------------------------------------------------------
(* Properties                                                              *)

BeingCancelled(o) ==
  \E c \in CancelTasks : cancel_pc[c] \in InFlight /\ cancel_order[c] = o

\* One quote per asset: of the orders that can still fill at most one is not
\* being cancelled, although the table the strategy collects its orders from
\* is changed by tasks while it cancels, and one cancellation that fails
\* leaves the others undone.  Only a key used again too early breaks this.
OneQuote ==
  (~exited /\ ~reused) =>
    \A o, p \in Orders :
      (/\ AssetOfOrder(o) = AssetOfOrder(p)
       /\ {exch[o], exch[p]} \subseteq {"inbound", "live"}
       /\ ~BeingCancelled(o) /\ ~BeingCancelled(p)) => o = p

Lots == Orders \X (1..TARGET_ORDER_SIZE)

BoughtLots(a) == {l \in Lots : AssetOfOrder(l[1]) = a /\ l[2] <= matched(l[1])}
OthersBought(a) == UNION {BoughtLots(b) : b \in Assets \ {a}}

\* What an order has bought or still may.
Exposure(o) ==
  IF exch[o] \in {"inbound", "live"} THEN TARGET_ORDER_SIZE ELSE matched(o)

\* The lots of orders that nothing was ever asked to cancel.
Exposed(a) ==
  {l \in Lots :
     AssetOfOrder(l[1]) = a /\ l[1] \notin asked /\ l[2] <= Exposure(l[1])}

\* The strategy places an order of TARGET_ORDER_SIZE as long as the position
\* it knows of is below that size, and an order that fills is out of the
\* table before its trade is in the position.  So, over what was bought of the
\* other token, what its orders have bought or still may comes close to three
\* times what it aims for, but never reaches that.  (What an order buys after
\* its cancellation was asked for comes on top.)
BelowThriceTarget ==
  (~exited /\ ~reused) =>
    \A a \in Assets :
      Cardinality(Exposed(a)) < Cardinality(OthersBought(a)) + 3 * TARGET_ORDER_SIZE

\* As long as no key is used again too early, the table is the exchange's
\* whenever nothing is on its way, the fills it has reported included.
AgreesUnlessReused == ~reused => QuiescentAgreement
=============================================================================
