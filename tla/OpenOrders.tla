----------------------------- MODULE OpenOrders -----------------------------
(***************************************************************************)
(* The table of open orders (poly_state.open_orders) and everything that   *)
(* writes it: PolyClient::place_limit_order and cancel_limit_order, called *)
(* by the strategies, the tasks these two spawn to talk to the exchange    *)
(* over HTTP, and UpdateOrderStrategy, which applies the messages of the   *)
(* user channel.  An order's entry is keyed by (asset, side, price, size), *)
(* not by its id, and is removed by key: by the task that posts it, the    *)
(* task that cancels it and by three kinds of user events, each in its own *)
(* time.                                                                   *)
(*                                                                         *)
(* Orders is the set of local order objects (one Arc<Mutex<OpenOrder>> per *)
(* call that records one).  The exchange creates at most one order for     *)
(* each, so the same value stands for its exchange id.  KeyOf gives the    *)
(* key an order is placed at.  The rate limiter in front of                *)
(* place_limit_order only refuses calls; a refused call changes nothing    *)
(* here.  The exchange (actions Exch...) is not part of the repository: it *)
(* is modelled by the answers and messages the code has a case for.        *)
(***************************************************************************)
EXTENDS Naturals, Sequences

CONSTANTS
  Keys,         \* the keys: asset, side, price and size
  Orders,       \* the orders placed in one run of the program
  KeyOf,        \* the key each order is placed at
  NoOrder,      \* no entry at a key; no id in an order
  CancelTasks,  \* bounds the cancellations in flight at the same time
  MaxPartial,   \* bounds the partial fills of an order
  Faults        \* which of the circumstances below may occur

(***************************************************************************)
(* "network": an HTTP request times out or its answer lacks the fields the *)
(*            code looks for, whatever the exchange has done;              *)
(* "loss":    a message of the user channel is lost (reconnection);        *)
(* "price":   a taker trade reports the price and size of another key.     *)
(***************************************************************************)
FaultKinds == {"network", "loss", "price"}

ASSUME OpenOrdersAssumption ==
  /\ KeyOf \in [Orders -> Keys]
  /\ NoOrder \notin Orders
  /\ MaxPartial \in Nat
  /\ Faults \subseteq FaultKinds

VARIABLES
  open_orders,  \* the order object recorded at each key, or NoOrder
  id,           \* OpenOrder.id of each order object
  state,        \* OpenOrder.state
  size_filled,  \* OpenOrder.size_filled, in partial fills
  post,         \* the task that posts each order
  cancel_pc,    \* each cancellation: how far it is,
  cancel_order, \*   the order object it found at its key,
  cancel_id,    \*   and the id it asks the exchange to cancel
  user_events,  \* user channel messages, queued for the event processor
  exch,         \* the exchange's own state of each order
  exch_filled,  \* the partial fills the exchange has made of it,
  exch_taken,   \*   and how many of them it made on accepting it
  exited        \* the process has called exit

local_vars  == <<open_orders, id, state, size_filled>>
cancel_vars == <<cancel_pc, cancel_order, cancel_id>>
exch_vars   == <<exch, exch_filled, exch_taken>>
vars == <<local_vars, post, cancel_vars, user_events, exch_vars, exited>>

OrderState == {"Live", "Unconfirmed", "ToBeCanceled"}
PostState  == {"none", "waiting", "ok", "err", "done"}
CancelPC   == {"idle", "found", "sent", "canceled", "unlisted", "refused"}
ExchState  == {"none", "inbound", "live", "filled", "canceled", "rejected"}
EventType  == {"PLACEMENT", "UPDATE_LIVE", "UPDATE_MATCHED", "CANCELLATION",
               "TAKER_TRADE"}
Event == [type : EventType, id : Orders, key : Keys,
          size_matched : 0..MaxPartial]

\* The events that end an order: each removes the entry at its key.
EndOfOrder == {"UPDATE_MATCHED", "CANCELLATION", "TAKER_TRADE"}
\* A cancellation whose HTTP request has been sent and not been dealt with.
InFlight == {"sent", "canceled", "unlisted", "refused"}

Init ==
  /\ open_orders = [k \in Keys |-> NoOrder]
  /\ id = [o \in Orders |-> NoOrder]
  /\ state = [o \in Orders |-> "Unconfirmed"]
  /\ size_filled = [o \in Orders |-> 0]
  /\ post = [o \in Orders |-> "none"]
  /\ cancel_pc = [c \in CancelTasks |-> "idle"]
  /\ cancel_order = [c \in CancelTasks |-> NoOrder]
  /\ cancel_id = [c \in CancelTasks |-> NoOrder]
  /\ user_events = <<>>
  /\ exch = [o \in Orders |-> "none"]
  /\ exch_filled = [o \in Orders |-> 0]
  /\ exch_taken = [o \in Orders |-> 0]
  /\ exited = FALSE

-----------------------------------------------------------------------------
(* Placing                                                                 *)

remove_order_entry(k) == open_orders' = [open_orders EXCEPT ![k] = NoOrder]

set_id(o, i) ==
  /\ id' = [id EXCEPT ![o] = i]
  /\ state' = [state EXCEPT ![o] = "Live"]

\* Slip: an entry already at the key is replaced.
record_order_Replacing(o) ==
  /\ open_orders' = [open_orders EXCEPT ![KeyOf[o]] = o]
  /\ id' = [id EXCEPT ![o] = NoOrder]
  /\ state' = [state EXCEPT ![o] = "Unconfirmed"]
  /\ size_filled' = [size_filled EXCEPT ![o] = 0]

\* A new object is recorded at a key that has no entry, else the call fails.
record_order(o) ==
  /\ open_orders[KeyOf[o]] = NoOrder
  /\ open_orders' = [open_orders EXCEPT ![KeyOf[o]] = o]
  /\ id' = [id EXCEPT ![o] = NoOrder]
  /\ state' = [state EXCEPT ![o] = "Unconfirmed"]
  /\ size_filled' = [size_filled EXCEPT ![o] = 0]

\* The order is recorded before the task that posts it is spawned.
place_limit_order(o) ==
  /\ ~exited
  /\ post[o] = "none"
  /\ record_order(o)
  /\ post' = [post EXCEPT ![o] = "waiting"]
  /\ exch' = [exch EXCEPT ![o] = "inbound"]
  /\ UNCHANGED <<cancel_vars, user_events, exch_filled, exch_taken, exited>>

\* The amounts round to zero: the entry just recorded is removed again and
\* nothing is sent.  The net effect is that this order is never placed.
place_zero_amount(o) ==
  /\ ~exited
  /\ post[o] = "none"
  /\ open_orders[KeyOf[o]] = NoOrder
  /\ post' = [post EXCEPT ![o] = "done"]
  /\ UNCHANGED <<local_vars, cancel_vars, user_events, exch_vars, exited>>

\* Slip: the entry of an order that could not be posted is left behind.
PostReturns_KeepsEntry(o) ==
  /\ ~exited
  /\ post' = [post EXCEPT ![o] = "done"]
  /\ \/ post[o] = "ok" /\ set_id(o, o)
     \/ post[o] = "err" /\ UNCHANGED <<id, state>>
  /\ UNCHANGED <<open_orders, size_filled, cancel_vars, user_events,
                 exch_vars, exited>>

\* The answer to the POST: an order id is set on the object the task holds,
\* an error (or an answer without an id) removes the entry at the key.
PostReturns(o) ==
  /\ ~exited
  /\ post' = [post EXCEPT ![o] = "done"]
  /\ \/ /\ post[o] = "ok"
        /\ set_id(o, o)
        /\ UNCHANGED open_orders
     \/ /\ post[o] = "err"
        /\ remove_order_entry(KeyOf[o])
        /\ UNCHANGED <<id, state>>
  /\ UNCHANGED <<size_filled, cancel_vars, user_events, exch_vars, exited>>

-----------------------------------------------------------------------------
(* Cancelling.  The entry is looked up first and its object locked later;  *)
(* the caller may be the event processor or a delayed task of a strategy.  *)

\* The call or task is over and its locals are gone.
task_ends(c) ==
  /\ cancel_pc' = [cancel_pc EXCEPT ![c] = "idle"]
  /\ cancel_order' = [cancel_order EXCEPT ![c] = NoOrder]
  /\ cancel_id' = [cancel_id EXCEPT ![c] = NoOrder]

CancelLookup(c, k) ==
  /\ ~exited
  /\ cancel_pc[c] = "idle"
  /\ open_orders[k] # NoOrder
  /\ cancel_pc' = [cancel_pc EXCEPT ![c] = "found"]
  /\ cancel_order' = [cancel_order EXCEPT ![c] = open_orders[k]]
  /\ UNCHANGED <<local_vars, post, cancel_id, user_events, exch_vars, exited>>

\* "order id not set": the call fails.
CancelWithoutId(c) ==
  /\ ~exited
  /\ cancel_pc[c] = "found"
  /\ id[cancel_order[c]] = NoOrder
  /\ task_ends(c)
  /\ UNCHANGED <<local_vars, post, user_events, exch_vars, exited>>

CancelSend(c) ==
  /\ ~exited
  /\ cancel_pc[c] = "found"
  /\ id[cancel_order[c]] # NoOrder
  /\ state' = [state EXCEPT ![cancel_order[c]] = "ToBeCanceled"]
  /\ cancel_id' = [cancel_id EXCEPT ![c] = id[cancel_order[c]]]
  /\ cancel_pc' = [cancel_pc EXCEPT ![c] = "sent"]
  /\ UNCHANGED <<open_orders, id, size_filled, post, cancel_order,
                 user_events, exch_vars, exited>>

\* Slip: an answer that does not list the id leaves the order ToBeCanceled.
CancelReturns_NoReset(c) ==
  /\ ~exited
  /\ \/ /\ cancel_pc[c] = "canceled"
        /\ remove_order_entry(KeyOf[cancel_order[c]])
        /\ UNCHANGED <<state, exited>>
     \/ /\ cancel_pc[c] = "unlisted"
        /\ UNCHANGED <<state, open_orders, exited>>
     \/ /\ cancel_pc[c] = "refused"
        /\ exited' = TRUE
        /\ UNCHANGED <<open_orders, state>>
  /\ task_ends(c)
  /\ UNCHANGED <<id, size_filled, post, user_events, exch_vars>>

\* The answer to the DELETE: a cancelled order's entry is removed by key; an
\* answer that does not list the id makes the order Live again; an id in
\* not_canceled, or an error, ends the process.
CancelReturns(c) ==
  /\ ~exited
  /\ \/ /\ cancel_pc[c] = "canceled"
        /\ remove_order_entry(KeyOf[cancel_order[c]])
        /\ UNCHANGED <<state, exited>>
     \/ /\ cancel_pc[c] = "unlisted"
        /\ state' = [state EXCEPT ![cancel_order[c]] = "Live"]
        /\ UNCHANGED <<open_orders, exited>>
     \/ /\ cancel_pc[c] = "refused"
        /\ exited' = TRUE
        /\ UNCHANGED <<open_orders, state>>
  /\ task_ends(c)
  /\ UNCHANGED <<id, size_filled, post, user_events, exch_vars>>

-----------------------------------------------------------------------------
(* The user channel, applied one message at a time by the event processor. *)

\* Slip: the message is matched with any entry, not with the one at its key.
user_placement_AnyKey(e) ==
  /\ e.type = "PLACEMENT"
  /\ \/ \E k \in Keys :
          open_orders[k] # NoOrder /\ set_id(open_orders[k], e.id)
     \/ UNCHANGED <<id, state>>
  /\ UNCHANGED <<open_orders, size_filled>>

\* PLACEMENT sets the message's id on whatever object is at its key.
user_placement(e) ==
  /\ e.type = "PLACEMENT"
  /\ IF open_orders[e.key] = NoOrder
     THEN UNCHANGED <<id, state>>
     ELSE set_id(open_orders[e.key], e.id)
  /\ UNCHANGED <<open_orders, size_filled>>

\* Slip: size_matched is taken for an increment.
user_update_live_Adds(e) ==
  /\ e.type = "UPDATE_LIVE"
  /\ size_filled' = IF open_orders[e.key] = NoOrder
                    THEN size_filled
                    ELSE [size_filled EXCEPT ![open_orders[e.key]] =
                            @ + e.size_matched]
  /\ UNCHANGED <<open_orders, id, state>>

user_update_live(e) ==
  /\ e.type = "UPDATE_LIVE"
  /\ size_filled' = IF open_orders[e.key] = NoOrder
                    THEN size_filled
                    ELSE [size_filled EXCEPT ![open_orders[e.key]] =
                            e.size_matched]
  /\ UNCHANGED <<open_orders, id, state>>

\* Slip: that the order is fully matched is overlooked.
user_end_of_order_NotMatched(e) ==
  /\ e.type \in EndOfOrder
  /\ IF e.type = "UPDATE_MATCHED" THEN UNCHANGED open_orders
                                  ELSE remove_order_entry(e.key)
  /\ UNCHANGED <<id, state, size_filled>>

user_end_of_order(e) ==
  /\ e.type \in EndOfOrder
  /\ remove_order_entry(e.key)
  /\ UNCHANGED <<id, state, size_filled>>

HandleUserEvent ==
  /\ ~exited
  /\ user_events # <<>>
  /\ user_events' = Tail(user_events)
  /\ LET e == Head(user_events) IN
       user_placement(e) \/ user_update_live(e) \/ user_end_of_order(e)
  /\ UNCHANGED <<post, cancel_vars, exch_vars, exited>>

-----------------------------------------------------------------------------
(* The exchange and the network                                            *)

Message(type, o, k) ==
  [type |-> type, id |-> o, key |-> k, size_matched |-> exch_filled'[o]]

Emit(type, o, k) ==
  \/ user_events' = Append(user_events, Message(type, o, k))
  \/ "loss" \in Faults /\ UNCHANGED user_events

\* The answer reaches the posting task unless it has timed out.
Answer(o, answer) ==
  post' = IF post[o] = "waiting" THEN [post EXCEPT ![o] = answer] ELSE post

\* The order is accepted and rests, once a part of it (or none) has matched.
Rests(o, part) ==
  /\ exch[o] = "inbound"
  /\ exch' = [exch EXCEPT ![o] = "live"]
  /\ exch_filled' = [exch_filled EXCEPT ![o] = part]
  /\ exch_taken' = [exch_taken EXCEPT ![o] = part]
  /\ Answer(o, "ok")
  /\ UNCHANGED <<local_vars, cancel_vars, exited>>

\* The trade message of the part names the size traded, which is not the
\* order's: it finds no entry, and is left out.
ExchAccept(o) ==
  /\ \E part \in 0..MaxPartial : Rests(o, part)
  /\ Emit("PLACEMENT", o, KeyOf[o])

\* Unless there is one: the price and size traded may be another key's.
ExchTakePart(o, k) ==
  /\ "price" \in Faults
  /\ k # KeyOf[o]
  /\ \E part \in 1..MaxPartial : Rests(o, part)
  /\ LET placement == Message("PLACEMENT", o, KeyOf[o])
         trade == Message("TAKER_TRADE", o, k) IN
       \/ \E messages \in {<<placement, trade>>, <<trade, placement>>} :
            user_events' = user_events \o messages
       \/ /\ "loss" \in Faults
          /\ \/ \E e \in {placement, trade} : user_events' = Append(user_events, e)
             \/ UNCHANGED user_events

ExchReject(o) ==
  /\ exch[o] = "inbound"
  /\ exch' = [exch EXCEPT ![o] = "rejected"]
  /\ Answer(o, "err")
  /\ UNCHANGED <<local_vars, cancel_vars, user_events, exch_filled, exch_taken,
                 exited>>

\* All of the order matches at once: a trade message and no placement.
ExchTake(o, k) ==
  /\ exch[o] = "inbound"
  /\ k = KeyOf[o] \/ "price" \in Faults
  /\ exch' = [exch EXCEPT ![o] = "filled"]
  /\ UNCHANGED <<exch_filled, exch_taken>>
  /\ Emit("TAKER_TRADE", o, k)
  /\ Answer(o, "ok")
  /\ UNCHANGED <<local_vars, cancel_vars, exited>>

ExchPartialFill(o) ==
  /\ exch[o] = "live"
  /\ exch_filled[o] < MaxPartial
  /\ exch_filled' = [exch_filled EXCEPT ![o] = @ + 1]
  /\ Emit("UPDATE_LIVE", o, KeyOf[o])
  /\ UNCHANGED <<local_vars, post, cancel_vars, exch, exch_taken, exited>>

ExchFill(o) ==
  /\ exch[o] = "live"
  /\ exch' = [exch EXCEPT ![o] = "filled"]
  /\ UNCHANGED <<exch_filled, exch_taken>>
  /\ Emit("UPDATE_MATCHED", o, KeyOf[o])
  /\ UNCHANGED <<local_vars, post, cancel_vars, exited>>

\* Not asked for by this program: expiry, a closed market, the web page.
ExchWithdraw(o) ==
  /\ exch[o] = "live"
  /\ exch' = [exch EXCEPT ![o] = "canceled"]
  /\ UNCHANGED <<exch_filled, exch_taken>>
  /\ Emit("CANCELLATION", o, KeyOf[o])
  /\ UNCHANGED <<local_vars, post, cancel_vars, exited>>

ExchCancel(c) ==
  /\ cancel_pc[c] = "sent"
  /\ exch[cancel_id[c]] = "live"
  /\ exch' = [exch EXCEPT ![cancel_id[c]] = "canceled"]
  /\ UNCHANGED <<exch_filled, exch_taken>>
  /\ Emit("CANCELLATION", cancel_id[c], KeyOf[cancel_id[c]])
  /\ cancel_pc' = [cancel_pc EXCEPT ![c] = "canceled"]
  /\ UNCHANGED <<local_vars, post, cancel_order, cancel_id, exited>>

\* The order is no longer there: its id is in not_canceled.
ExchRefuseCancel(c) ==
  /\ cancel_pc[c] = "sent"
  /\ exch[cancel_id[c]] # "live"
  /\ cancel_pc' = [cancel_pc EXCEPT ![c] = "refused"]
  /\ UNCHANGED <<local_vars, post, cancel_order, cancel_id, user_events,
                 exch_vars, exited>>

\* The request times out; the exchange may still act on it (ExchAccept).
PostTimeout(o) ==
  /\ "network" \in Faults
  /\ post[o] \in {"waiting", "ok"}
  /\ post' = [post EXCEPT ![o] = "err"]
  /\ UNCHANGED <<local_vars, cancel_vars, user_events, exch_vars, exited>>

\* The answer lists the id nowhere, or none comes in time.
CancelFault(c) ==
  /\ "network" \in Faults
  /\ cancel_pc[c] \in {"sent", "canceled"}
  /\ \E answer \in {"unlisted", "refused"} :
       cancel_pc' = [cancel_pc EXCEPT ![c] = answer]
  /\ UNCHANGED <<local_vars, post, cancel_order, cancel_id, user_events,
                 exch_vars, exited>>

-----------------------------------------------------------------------------
Place(o) == place_limit_order(o) \/ place_zero_amount(o)
Exchange(o) ==
  \/ ExchAccept(o) \/ ExchReject(o)
  \/ \E k \in Keys : ExchTake(o, k) \/ ExchTakePart(o, k)
  \/ ExchPartialFill(o) \/ ExchFill(o) \/ ExchWithdraw(o)
CancelCall(c) ==
  (\E k \in Keys : CancelLookup(c, k)) \/ CancelWithoutId(c) \/ CancelSend(c)
CancelAnswer(c) == ExchCancel(c) \/ ExchRefuseCancel(c) \/ CancelFault(c)

Next ==
  \/ \E o \in Orders :
       Place(o) \/ PostReturns(o) \/ Exchange(o) \/ PostTimeout(o)
  \/ \E c \in CancelTasks :
       CancelCall(c) \/ CancelAnswer(c) \/ CancelReturns(c)
  \/ HandleUserEvent

Spec == Init /\ [][Next]_vars

(***************************************************************************)
(* What the runtime and the HTTP timeout justify: spawned tasks run on,    *)
(* the event processor keeps receiving, and every request is answered or   *)
(* times out after 5 s.  Nothing makes a strategy place or cancel, or the  *)
(* exchange fill.                                                          *)
(***************************************************************************)
PostAnswer(o) ==
  /\ post[o] = "waiting"
  /\ \/ ExchAccept(o) \/ ExchReject(o)
     \/ \E k \in Keys : ExchTake(o, k) \/ ExchTakePart(o, k)
     \/ PostTimeout(o)

Fairness ==
  /\ WF_vars(HandleUserEvent)
  /\ \A o \in Orders : WF_vars(PostReturns(o)) /\ WF_vars(PostAnswer(o))
  /\ \A c \in CancelTasks :
       /\ WF_vars(CancelWithoutId(c) \/ CancelSend(c))
       /\ WF_vars(CancelAnswer(c))
       /\ WF_vars(CancelReturns(c))

FairSpec == Spec /\ Fairness

\* Something about an order at the key is on its way.
Unsettled(k) ==
  \/ \E p \in Orders : KeyOf[p] = k /\ post[p] \notin {"none", "done"}
  \/ \E c \in CancelTasks : cancel_order[c] # NoOrder /\ KeyOf[cancel_order[c]] = k
  \/ \E i \in DOMAIN user_events : user_events[i].key = k

\* A strategy that does not use a key again too early: it places no order
\* while something about an earlier one at the key is on its way.
PatientNext ==
  Next /\ \A o \in Orders : place_limit_order(o) => ~Unsettled(KeyOf[o])
PatientSpec == Init /\ [][PatientNext]_vars
-----------------------------------------------------------------------------
(* Properties                                                              *)

\* Every variable has its type.
TypeOK ==
  /\ open_orders \in [Keys -> Orders \cup {NoOrder}]
  /\ id \in [Orders -> Orders \cup {NoOrder}]
  /\ state \in [Orders -> OrderState]
  /\ size_filled \in [Orders -> 0..MaxPartial]
  /\ post \in [Orders -> PostState]
  /\ cancel_pc \in [CancelTasks -> CancelPC]
  /\ cancel_order \in [CancelTasks -> Orders \cup {NoOrder}]
  /\ cancel_id \in [CancelTasks -> Orders \cup {NoOrder}]
  /\ user_events \in Seq(Event)
  /\ exch \in [Orders -> ExchState]
  /\ exch_filled \in [Orders -> 0..MaxPartial]
  /\ exch_taken \in [Orders -> 0..MaxPartial]
  /\ exited \in BOOLEAN

\* A cancellation names an exchange order of the very asset, side, price and
\* size the strategy asked to cancel, even when the entry has meanwhile been
\* given the id of another order by a message (set_id from PLACEMENT) or has
\* been replaced between the lookup and the lock in cancel_limit_order.
CancelTargetsOwnKey ==
  \A c \in CancelTasks :
    cancel_pc[c] \in InFlight => KeyOf[cancel_id[c]] = KeyOf[cancel_order[c]]

\* An order in the table is ToBeCanceled only while a request to cancel it is
\* in flight: whatever the exchange answers, and however many callers cancel
\* it at once, it is not left in that state.
NoStuckCancel ==
  \A k \in Keys :
    LET o == open_orders[k] IN
      (~exited /\ o # NoOrder /\ state[o] = "ToBeCanceled")
        => \E c \in CancelTasks :
             cancel_pc[c] \in InFlight /\ cancel_order[c] = o

\* "Places a limit order, sends it to the exchange, and records it in
\* open_orders": an order that can still fill is in the table.
LiveIsTracked ==
  \A o \in Orders :
    (~exited /\ exch[o] = "live") => open_orders[KeyOf[o]] = o

\* "Only insert if there is not already an order at that price/size": the
\* exchange never holds two orders of this program at the same key.
OneLivePerKey ==
  \A o, p \in Orders :
    (exch[o] = "live" /\ exch[p] = "live" /\ KeyOf[o] = KeyOf[p]) => o = p

\* Nothing is on its way between the program and the exchange.
Quiet ==
  /\ ~exited
  /\ user_events = <<>>
  /\ \A o \in Orders : post[o] \in {"none", "done"}
  /\ \A c \in CancelTasks : cancel_pc[c] = "idle"

\* What the table can know of an order's fills: a part that matched as the
\* order was accepted is in no UPDATE, and PLACEMENT does not set size_filled
\* (update_orders.rs:129), so it is missing until a later fill is reported,
\* with the total.
Reported(o) == IF exch_filled[o] = exch_taken[o] THEN 0 ELSE exch_filled[o]

\* Once everything on its way has been dealt with, in whatever order answers
\* and messages came, the table is the exchange's: the same orders, each
\* Live, under its own id and with the fills reported of it.
QuiescentAgreement ==
  Quiet =>
    \A o \in Orders :
      /\ exch[o] = "live" <=> open_orders[KeyOf[o]] = o
      /\ exch[o] = "live" => /\ id[o] = o
                             /\ state[o] = "Live"
                             /\ size_filled[o] = Reported(o)

\* The table implements OrderSlots: entries are never overwritten, only
\* confirmed orders are cancelled and none becomes unconfirmed again.
Slots == INSTANCE OrderSlots WITH
  holder <- open_orders,
  phase  <- [k \in Keys |-> IF open_orders[k] = NoOrder
                            THEN "Free" ELSE state[open_orders[k]]]
SlotsSpec == Slots!Spec

\* A recorded order does not stay Unconfirmed: the posting task confirms it
\* or removes its entry, even when the request times out.
UnconfirmedResolves ==
  \A o \in Orders :
    (open_orders[KeyOf[o]] = o /\ state[o] = "Unconfirmed")
      ~> (open_orders[KeyOf[o]] # o \/ state[o] # "Unconfirmed" \/ exited)

\* A requested cancellation is settled: the entry goes, the order is Live
\* again or the process has ended.
CancelResolves ==
  \A o \in Orders :
    (open_orders[KeyOf[o]] = o /\ state[o] = "ToBeCanceled")
      ~> (open_orders[KeyOf[o]] # o \/ state[o] # "ToBeCanceled" \/ exited)

\* The key of an order the exchange has ended becomes free, so that it can be
\* quoted again - unless the message about its end is lost, or is a taker's
\* trade at another price or size than the order's: then the entry stays.
FinishedIsFreed ==
  \A o \in Orders :
    (open_orders[KeyOf[o]] = o /\ exch[o] \in {"filled", "canceled"})
      ~> (open_orders[KeyOf[o]] # o \/ exited)
-----------------------------------------------------------------------------
(* Why CancelTargetsOwnKey, NoStuckCancel and SlotsSpec hold: the          *)
(* relations between the table, the order objects, the tasks and the       *)
(* messages on which removal by key and changes through an object rely.    *)

EntriesAtOwnKey ==
  \A k \in Keys : open_orders[k] # NoOrder => KeyOf[open_orders[k]] = k

IdIffConfirmed == \A o \in Orders : id[o] = NoOrder <=> state[o] = "Unconfirmed"

IdsAtOwnKey ==
  \A o \in Orders : id[o] # NoOrder => KeyOf[id[o]] = KeyOf[o]

EventsAtOwnKey ==
  user_events \in Seq({e \in Event : e.type # "TAKER_TRADE" => e.key = KeyOf[e.id]})

\* An object that has not been posted is nowhere referred to.
UnplacedIsUnknown ==
  \A o \in Orders : post[o] = "none" =>
    /\ \A k \in Keys : open_orders[k] # o
    /\ \A c \in CancelTasks : cancel_order[c] # o

TasksHoldTheirOrder ==
  \A c \in CancelTasks :
    /\ cancel_pc[c] = "idle" <=> cancel_order[c] = NoOrder
    /\ cancel_pc[c] \in InFlight => /\ cancel_id[c] # NoOrder
                                    /\ id[cancel_order[c]] # NoOrder

\* Inductive: it holds at every state and each step keeps it by itself.
IInv ==
  /\ TypeOK
  /\ EntriesAtOwnKey
  /\ IdIffConfirmed
  /\ IdsAtOwnKey
  /\ EventsAtOwnKey
  /\ UnplacedIsUnknown
  /\ TasksHoldTheirOrder
  /\ CancelTargetsOwnKey
  /\ NoStuckCancel
=============================================================================
