-------------------------------- MODULE Koen --------------------------------
(***************************************************************************)
(* KoenStrategy on top of the open orders, with time.  A change of an      *)
(* asset's book may make it buy (the conditions on book and positions are  *)
(* a choice here).  It then leaves the asset alone for trade_cooldown and  *)
(* spawns a task that sleeps for cancel_after and cancels the order if     *)
(* there still is an entry at its key.  The entry may be another order's   *)
(* by then: nothing but the durations prevents it.                         *)
(*                                                                         *)
(* A tick is a second or more.  HTTP requests are answered within the      *)
(* timeout of the client, a sleeping task wakes up in time, and a user     *)
(* message that was on its way at a tick is handled before the next one.   *)
(***************************************************************************)
EXTENDS OrderAssets

CONSTANTS trade_cooldown, cancel_after, http_timeout

ASSUME KoenAssumption ==
  /\ trade_cooldown \in Nat
  /\ cancel_after \in Nat
  /\ http_timeout \in Nat

VARIABLES
  last_trade,  \* the last order of each asset, or NoOrder
  age,         \* ticks since each order was placed, up to trade_cooldown
  delayed,     \* the delayed cancellation of each order
  cancel_for,  \* history: the order whose delayed cancellation each task is
  without_id,  \* history: orders that had no id when they were to be cancelled
  late         \* user messages on their way since before the last tick

koen_vars == <<last_trade, age, delayed, cancel_for, without_id, late>>
koen_all_vars == <<vars, koen_vars>>

KoenInit ==
  /\ Init
  /\ last_trade = [a \in Assets |-> NoOrder]
  /\ age = [o \in Orders |-> 0]
  /\ delayed = [o \in Orders |-> "none"]
  /\ cancel_for = [c \in CancelTasks |-> NoOrder]
  /\ without_id = {}
  /\ late = 0

CoolingDown(a) ==
  last_trade[a] # NoOrder /\ age[last_trade[a]] < trade_cooldown

-----------------------------------------------------------------------------
(* The strategy                                                            *)

\* Slip: the time of the trade is not recorded.
trade_NotRecorded(o) ==
  /\ delayed' = [delayed EXCEPT ![o] = "asleep"]
  /\ UNCHANGED last_trade

\* What follows a successful call of place_limit_order.
trade(o) ==
  /\ last_trade' = [last_trade EXCEPT ![AssetOfOrder(o)] = o]
  /\ delayed' = [delayed EXCEPT ![o] = "asleep"]

koen_handle_market_price_change(o) ==
  /\ ~CoolingDown(AssetOfOrder(o))
  /\ \/ place_limit_order(o) /\ trade(o)
     \/ place_zero_amount(o) /\ UNCHANGED <<last_trade, delayed>>
  /\ UNCHANGED <<age, cancel_for, without_id, late>>

order_exists(key) == open_orders[key] # NoOrder

\* Slip: an order that is not confirmed yet is left alone.
WakeUp_OnlyConfirmed(o) ==
  /\ ~exited
  /\ delayed[o] = "asleep"
  /\ age[o] >= cancel_after
  /\ delayed' = [delayed EXCEPT
       ![o] = IF order_exists(KeyOf[o]) /\ id[o] # NoOrder
              THEN "still_open" ELSE "none"]
  /\ UNCHANGED <<vars, last_trade, age, cancel_for, without_id, late>>

\* The task wakes up and looks for an entry at the key.
WakeUp(o) ==
  /\ ~exited
  /\ delayed[o] = "asleep"
  /\ age[o] >= cancel_after
  /\ delayed' = [delayed EXCEPT
       ![o] = IF order_exists(KeyOf[o]) THEN "still_open" ELSE "none"]
  /\ UNCHANGED <<vars, last_trade, age, cancel_for, without_id, late>>

\* It calls cancel_limit_order, which looks for the entry again.
CancelStale(o) ==
  /\ ~exited
  /\ delayed[o] = "still_open"
  /\ delayed' = [delayed EXCEPT ![o] = "none"]
  /\ \/ \E c \in CancelTasks :
          CancelLookup(c, KeyOf[o]) /\ cancel_for' = [cancel_for EXCEPT ![c] = o]
     \/ ~order_exists(KeyOf[o]) /\ UNCHANGED <<vars, cancel_for>>
  /\ UNCHANGED <<last_trade, age, without_id, late>>

-----------------------------------------------------------------------------
(* Everything else, and time                                               *)

KoenUserEvent ==
  /\ HandleUserEvent
  /\ late' = IF late = 0 THEN 0 ELSE late - 1
  /\ UNCHANGED <<last_trade, age, delayed, cancel_for, without_id>>

CancelSteps(c) ==
  /\ \/ /\ CancelWithoutId(c)
        /\ without_id' = without_id \cup {cancel_for[c]}
     \/ /\ CancelSend(c) \/ CancelAnswer(c) \/ CancelReturns(c)
        /\ UNCHANGED without_id
  /\ cancel_for' = IF cancel_pc'[c] = "idle"
                   THEN [cancel_for EXCEPT ![c] = NoOrder] ELSE cancel_for
  /\ UNCHANGED <<last_trade, age, delayed, late>>

KoenElsewhere(o) ==
  /\ PostReturns(o) \/ Exchange(o) \/ PostTimeout(o)
  /\ UNCHANGED koen_vars

Tick ==
  /\ ~exited
  /\ late = 0
  /\ late' = Len(user_events)
  /\ \A o \in Orders :
       /\ post[o] \notin {"none", "done"} => age[o] < http_timeout
       /\ delayed[o] # "none" => age[o] < cancel_after
  /\ \A c \in CancelTasks :
       cancel_pc[c] # "idle" => age[cancel_for[c]] < cancel_after + http_timeout
  /\ age' = [o \in Orders |-> IF post[o] = "none" \/ age[o] = trade_cooldown
                              THEN age[o] ELSE age[o] + 1]
  /\ UNCHANGED <<vars, last_trade, delayed, cancel_for, without_id>>

KoenNext ==
  \/ \E o \in Orders :
       \/ koen_handle_market_price_change(o)
       \/ WakeUp(o) \/ CancelStale(o) \/ KoenElsewhere(o)
  \/ \E c \in CancelTasks : CancelSteps(c)
  \/ KoenUserEvent
  \/ Tick

KoenSpec == KoenInit /\ [][KoenNext]_koen_all_vars

-----------------------------------------------------------------------------
(* Properties                                                              *)

\* A delayed cancellation is of the order it was spawned for, although it
\* finds what to cancel by asset, price and size: the order's entry is not
\* replaced by a later order's before the task has looked it up.
NeverCancelsSuccessor ==
  \A c \in CancelTasks : cancel_pc[c] # "idle" => cancel_order[c] = cancel_for[c]

\* No order is forgotten: one that is live is being posted, has its delayed
\* cancellation still to come or under way, or had no id when that was made.
\* (Such an order is left on the exchange: cancel_limit_order fails and the
\* task ends.)
StaleIsCancelled ==
  \A o \in Orders :
    (~exited /\ exch[o] = "live") =>
      \/ delayed[o] # "none"
      \/ \E c \in CancelTasks : cancel_for[c] = o
      \/ o \in without_id
=============================================================================
