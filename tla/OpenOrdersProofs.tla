-------------------------- MODULE OpenOrdersProofs --------------------------
(***************************************************************************)
(* Proofs about OpenOrders, for every set of keys, orders and tasks and    *)
(* with every fault: IInv is inductive, a cancellation only ever names an  *)
(* order at its own key, no order is left ToBeCanceled, and the table      *)
(* implements OrderSlots.                                                  *)
(*                                                                         *)
(* The second half is about strategies that do not use a key again too     *)
(* early (PatientSpec), whose entries therefore are their own: an order    *)
(* that can fill is in the table, and the table is the exchange's whenever *)
(* nothing is on its way.  Both need answers in time, the second also that *)
(* no message is lost.                                                     *)
(***************************************************************************)
EXTENDS OpenOrders, SequenceTheorems, TLAPS

LEMMA InitIInv == Init => IInv
<1> SUFFICES ASSUME Init PROVE IInv
    OBVIOUS
<1> USE OpenOrdersAssumption DEF Init
<1>1. TypeOK
  <2>1. user_events \in Seq(Event)
      OBVIOUS
  <2>2. 0 \in 0..MaxPartial
      OBVIOUS
  <2> HIDE OpenOrdersAssumption
  <2> QED BY <2>1, <2>2 DEF TypeOK, OrderState, PostState, CancelPC, ExchState
<1>2. EntriesAtOwnKey /\ IdIffConfirmed /\ IdsAtOwnKey
    BY DEF EntriesAtOwnKey, IdIffConfirmed, IdsAtOwnKey
<1>3. EventsAtOwnKey
    BY DEF EventsAtOwnKey
<1>4. UnplacedIsUnknown
    BY DEF UnplacedIsUnknown
<1>5. TasksHoldTheirOrder /\ CancelTargetsOwnKey
    BY DEF TasksHoldTheirOrder, CancelTargetsOwnKey, InFlight
<1>6. NoStuckCancel
    BY DEF NoStuckCancel
<1> QED BY <1>1, <1>2, <1>3, <1>4, <1>5, <1>6 DEF IInv

-----------------------------------------------------------------------------
(* Steps that leave the table and its objects alone                        *)

\* A message with the key of its order (or a taker trade) may be queued.
LEMMA EmitKeepsEvents ==
  ASSUME IInv, NEW type \in EventType, NEW o \in Orders, NEW k \in Keys,
         type # "TAKER_TRADE" => k = KeyOf[o],
         exch_filled' \in [Orders -> 0..MaxPartial], Emit(type, o, k)
  PROVE  user_events' \in Seq(Event) /\ EventsAtOwnKey'
<1> DEFINE e == Message(type, o, k)
           Good == {g \in Event : g.type # "TAKER_TRADE" => g.key = KeyOf[g.id]}
<1>1. e \in Event
    BY DEF Event, Message
<1>2. e \in Good
    BY <1>1 DEF Message
<1>3. user_events \in Seq(Event) /\ user_events \in Seq(Good)
    BY DEF IInv, TypeOK, EventsAtOwnKey
<1>4. user_events' = Append(user_events, e) \/ user_events' = user_events
    BY DEF Emit
<1> HIDE DEF e, Good
<1>5. user_events' \in Seq(Event) /\ user_events' \in Seq(Good)
  <2>1. CASE user_events' = Append(user_events, e)
      BY <1>1, <1>2, <1>3, <2>1, AppendProperties
  <2> QED BY <1>3, <1>4, <2>1
<1> QED BY <1>5 DEF Good, EventsAtOwnKey

\* So may the two messages of a part that matched at once.
LEMMA TwoKeepEvents ==
  ASSUME IInv, NEW o \in Orders, NEW k \in Keys,
         exch_filled' \in [Orders -> 0..MaxPartial],
         NEW a, NEW b,
         {a, b} = {Message("PLACEMENT", o, KeyOf[o]), Message("TAKER_TRADE", o, k)},
         \/ user_events' = user_events \o <<a, b>>
         \/ user_events' = Append(user_events, a)
         \/ user_events' = user_events
  PROVE  user_events' \in Seq(Event) /\ EventsAtOwnKey'
<1> DEFINE Good == {g \in Event : g.type # "TAKER_TRADE" => g.key = KeyOf[g.id]}
<1>1. /\ Message("PLACEMENT", o, KeyOf[o]) \in Good
      /\ Message("TAKER_TRADE", o, k) \in Good
    BY OpenOrdersAssumption DEF Event, EventType, Message
<1>2. a \in Good /\ b \in Good
    BY <1>1
<1>3. user_events \in Seq(Good)
    BY DEF IInv, TypeOK, EventsAtOwnKey
<1> HIDE DEF Good
<1>4. <<a, b>> \in Seq(Good)
    BY <1>2
<1>5. user_events' \in Seq(Good)
  <2>1. CASE user_events' = user_events \o <<a, b>>
      BY <1>3, <1>4, <2>1, ConcatProperties
  <2>2. CASE user_events' = Append(user_events, a)
      BY <1>2, <1>3, <2>2, AppendProperties
  <2>3. CASE user_events' = user_events
      BY <1>3, <2>3
  <2> QED BY <2>1, <2>2, <2>3
<1> QED BY <1>5 DEF Good, EventsAtOwnKey

\* What is on its way may change if requests in flight stay in flight and
\* posted orders stay posted.
LEMMA AwayFromTheTable ==
  ASSUME IInv, TypeOK', EventsAtOwnKey',
         UNCHANGED <<local_vars, cancel_order, cancel_id, exited>>,
         \A o \in Orders : post'[o] = "none" => post[o] = "none",
         \A c \in CancelTasks :
           \/ cancel_pc'[c] = cancel_pc[c]
           \/ cancel_pc[c] \in InFlight /\ cancel_pc'[c] \in InFlight
  PROVE  IInv'
<1> USE DEF IInv, local_vars
<1>1. EntriesAtOwnKey' /\ IdIffConfirmed' /\ IdsAtOwnKey'
    BY DEF EntriesAtOwnKey, IdIffConfirmed, IdsAtOwnKey
<1>2. UnplacedIsUnknown'
    BY DEF UnplacedIsUnknown
<1>3. TasksHoldTheirOrder' /\ CancelTargetsOwnKey'
    BY DEF TasksHoldTheirOrder, CancelTargetsOwnKey, InFlight
<1>4. NoStuckCancel'
    BY DEF NoStuckCancel
<1> QED BY <1>1, <1>2, <1>3, <1>4

LEMMA PlaceZeroKeepsIInv ==
  ASSUME IInv, NEW o \in Orders, place_zero_amount(o)
  PROVE  IInv'
<1> USE DEF place_zero_amount, local_vars, cancel_vars, exch_vars
<1>1. TypeOK'
    BY DEF IInv, TypeOK, PostState
<1>2. EventsAtOwnKey'
    BY DEF IInv, EventsAtOwnKey
<1>3. \A p \in Orders : post'[p] = "none" => post[p] = "none"
    BY DEF IInv, TypeOK
<1> QED BY <1>1, <1>2, <1>3, AwayFromTheTable

\* The answer to a request changes nothing but the task's record of it.
LEMMA AnswerKeepsPosted ==
  ASSUME IInv, NEW o \in Orders, NEW answer \in {"ok", "err"},
         Answer(o, answer)
  PROVE  /\ post' \in [Orders -> PostState]
         /\ \A p \in Orders : post'[p] = "none" => post[p] = "none"
BY DEF IInv, TypeOK, PostState, Answer

\* An order that rests is where it was at the table.
LEMMA RestsKeepsIInv ==
  ASSUME IInv, NEW o \in Orders, NEW part \in 0..MaxPartial, Rests(o, part)
  PROVE  /\ exch' \in [Orders -> ExchState]
         /\ exch_filled' \in [Orders -> 0..MaxPartial]
         /\ exch_taken' \in [Orders -> 0..MaxPartial]
         /\ user_events' \in Seq(Event) /\ EventsAtOwnKey' => IInv'
<1>1. /\ exch' \in [Orders -> ExchState]
      /\ exch_filled' \in [Orders -> 0..MaxPartial]
      /\ exch_taken' \in [Orders -> 0..MaxPartial]
    BY DEF Rests, IInv, TypeOK, ExchState
<1>2. /\ post' \in [Orders -> PostState]
      /\ \A p \in Orders : post'[p] = "none" => post[p] = "none"
    BY AnswerKeepsPosted DEF Rests
<1>3. ASSUME user_events' \in Seq(Event), EventsAtOwnKey'
      PROVE  IInv'
  <2>1. TypeOK'
      BY <1>1, <1>2, <1>3 DEF Rests, IInv, TypeOK, local_vars, cancel_vars
  <2> QED BY <1>2, <1>3, <2>1, AwayFromTheTable DEF Rests, local_vars, cancel_vars
<1> QED BY <1>1, <1>3

LEMMA ExchangeKeepsIInv ==
  ASSUME IInv, NEW o \in Orders, Exchange(o)
  PROVE  IInv'
<1> USE OpenOrdersAssumption DEF local_vars, cancel_vars, exch_vars, EventType
<1>1. CASE ExchAccept(o)
  <2> PICK part \in 0..MaxPartial : Rests(o, part)
      BY <1>1 DEF ExchAccept
  <2>1. exch_filled' \in [Orders -> 0..MaxPartial] /\ Emit("PLACEMENT", o, KeyOf[o])
      BY <1>1, RestsKeepsIInv DEF ExchAccept
  <2>2. user_events' \in Seq(Event) /\ EventsAtOwnKey'
      BY <2>1, EmitKeepsEvents
  <2> QED BY <2>2, RestsKeepsIInv
<1>2. CASE ExchReject(o)
  <2>1. exch' \in [Orders -> ExchState]
      BY <1>2 DEF ExchReject, IInv, TypeOK, ExchState
  <2>2. EventsAtOwnKey'
      BY <1>2 DEF ExchReject, IInv, EventsAtOwnKey
  <2>3. /\ post' \in [Orders -> PostState]
        /\ \A p \in Orders : post'[p] = "none" => post[p] = "none"
      BY <1>2, AnswerKeepsPosted DEF ExchReject
  <2>4. TypeOK'
      BY <1>2, <2>1, <2>3 DEF ExchReject, IInv, TypeOK
  <2> QED BY <1>2, <2>2, <2>3, <2>4, AwayFromTheTable DEF ExchReject
<1>3. CASE \E k \in Keys : ExchTake(o, k)
  <2> PICK k \in Keys : ExchTake(o, k)
      BY <1>3
  <2>1. exch' \in [Orders -> ExchState] /\ UNCHANGED exch_filled
      BY DEF ExchTake, IInv, TypeOK, ExchState
  <2>2. user_events' \in Seq(Event) /\ EventsAtOwnKey'
      BY <2>1, EmitKeepsEvents DEF ExchTake, IInv, TypeOK
  <2>3. /\ post' \in [Orders -> PostState]
        /\ \A p \in Orders : post'[p] = "none" => post[p] = "none"
      BY AnswerKeepsPosted DEF ExchTake
  <2>4. TypeOK'
      BY <2>1, <2>2, <2>3 DEF ExchTake, IInv, TypeOK
  <2> QED BY <2>2, <2>3, <2>4, AwayFromTheTable DEF ExchTake
<1>7. CASE \E k \in Keys : ExchTakePart(o, k)
  <2> PICK k \in Keys : ExchTakePart(o, k)
      BY <1>7
  <2> DEFINE placement == Message("PLACEMENT", o, KeyOf[o])
             trade == Message("TAKER_TRADE", o, k)
  <2>1. PICK part \in 0..MaxPartial : Rests(o, part)
      BY DEF ExchTakePart
  <2>2. exch_filled' \in [Orders -> 0..MaxPartial]
      BY <2>1, RestsKeepsIInv
  <2>3. \/ user_events' = user_events \o <<placement, trade>>
        \/ user_events' = user_events \o <<trade, placement>>
        \/ user_events' = Append(user_events, placement)
        \/ user_events' = Append(user_events, trade)
        \/ user_events' = user_events
      BY DEF ExchTakePart
  <2>4. PICK a, b :
          /\ {a, b} = {placement, trade}
          /\ \/ user_events' = user_events \o <<a, b>>
             \/ user_events' = Append(user_events, a)
             \/ user_events' = user_events
    <3>1. {placement, trade} = {trade, placement}
        OBVIOUS
    <3> HIDE DEF placement, trade
    <3> QED BY <2>3, <3>1
  <2>5. user_events' \in Seq(Event) /\ EventsAtOwnKey'
      BY <2>2, <2>4, TwoKeepEvents
  <2> QED BY <2>1, <2>5, RestsKeepsIInv
<1>4. CASE ExchPartialFill(o)
  <2>1. exch_filled' \in [Orders -> 0..MaxPartial]
      BY <1>4 DEF ExchPartialFill, IInv, TypeOK
  <2>2. user_events' \in Seq(Event) /\ EventsAtOwnKey'
      BY <1>4, <2>1, EmitKeepsEvents DEF ExchPartialFill
  <2>3. TypeOK'
      BY <1>4, <2>1, <2>2 DEF ExchPartialFill, IInv, TypeOK
  <2> QED BY <1>4, <2>2, <2>3, AwayFromTheTable DEF ExchPartialFill
<1>5. CASE ExchFill(o)
  <2>1. exch' \in [Orders -> ExchState]
      BY <1>5 DEF ExchFill, IInv, TypeOK, ExchState
  <2>2. user_events' \in Seq(Event) /\ EventsAtOwnKey'
      BY <1>5, EmitKeepsEvents DEF ExchFill, IInv, TypeOK
  <2>3. TypeOK'
      BY <1>5, <2>1, <2>2 DEF ExchFill, IInv, TypeOK
  <2> QED BY <1>5, <2>2, <2>3, AwayFromTheTable DEF ExchFill
<1>6. CASE ExchWithdraw(o)
  <2>1. exch' \in [Orders -> ExchState]
      BY <1>6 DEF ExchWithdraw, IInv, TypeOK, ExchState
  <2>2. user_events' \in Seq(Event) /\ EventsAtOwnKey'
      BY <1>6, EmitKeepsEvents DEF ExchWithdraw, IInv, TypeOK
  <2>3. TypeOK'
      BY <1>6, <2>1, <2>2 DEF ExchWithdraw, IInv, TypeOK
  <2> QED BY <1>6, <2>2, <2>3, AwayFromTheTable DEF ExchWithdraw
<1> QED BY <1>1, <1>2, <1>3, <1>4, <1>5, <1>6, <1>7 DEF Exchange

LEMMA PostTimeoutKeepsIInv ==
  ASSUME IInv, NEW o \in Orders, PostTimeout(o)
  PROVE  IInv'
<1> USE DEF PostTimeout, local_vars, cancel_vars, exch_vars
<1>1. TypeOK'
    BY DEF IInv, TypeOK, PostState
<1>2. EventsAtOwnKey'
    BY DEF IInv, EventsAtOwnKey
<1>3. \A p \in Orders : post'[p] = "none" => post[p] = "none"
    BY DEF IInv, TypeOK
<1> QED BY <1>1, <1>2, <1>3, AwayFromTheTable

LEMMA CancelAnswerKeepsIInv ==
  ASSUME IInv, NEW c \in CancelTasks, CancelAnswer(c)
  PROVE  IInv'
<1> USE OpenOrdersAssumption DEF local_vars, cancel_vars, exch_vars
<1>1. CASE ExchCancel(c)
  <2>1. cancel_id[c] \in Orders
      BY <1>1 DEF ExchCancel, IInv, TypeOK, TasksHoldTheirOrder, InFlight
  <2>2. exch' \in [Orders -> ExchState]
      BY <1>1 DEF ExchCancel, IInv, TypeOK, ExchState
  <2>3. user_events' \in Seq(Event) /\ EventsAtOwnKey'
      BY <1>1, <2>1, EmitKeepsEvents DEF ExchCancel, IInv, TypeOK, EventType
  <2>4. TypeOK'
      BY <1>1, <2>2, <2>3 DEF ExchCancel, IInv, TypeOK, CancelPC
  <2>5. \A d \in CancelTasks :
          \/ cancel_pc'[d] = cancel_pc[d]
          \/ cancel_pc[d] \in InFlight /\ cancel_pc'[d] \in InFlight
      BY <1>1 DEF ExchCancel, IInv, TypeOK, InFlight
  <2> QED BY <1>1, <2>3, <2>4, <2>5, AwayFromTheTable DEF ExchCancel
<1>2. CASE ExchRefuseCancel(c) \/ CancelFault(c)
  <2> USE <1>2 DEF ExchRefuseCancel, CancelFault
  <2>1. TypeOK'
      BY DEF IInv, TypeOK, CancelPC
  <2>2. EventsAtOwnKey'
      BY DEF IInv, EventsAtOwnKey
  <2>3. \A d \in CancelTasks :
          \/ cancel_pc'[d] = cancel_pc[d]
          \/ cancel_pc[d] \in InFlight /\ cancel_pc'[d] \in InFlight
      BY DEF IInv, TypeOK, InFlight
  <2> QED BY <2>1, <2>2, <2>3, AwayFromTheTable
<1> QED BY <1>1, <1>2 DEF CancelAnswer

-----------------------------------------------------------------------------
(* Steps that change the table or its objects                              *)

LEMMA PlaceKeepsIInv ==
  ASSUME IInv, NEW o \in Orders, place_limit_order(o)
  PROVE  IInv'
<1> USE OpenOrdersAssumption
    DEF IInv, place_limit_order, record_order, cancel_vars
<1>1. TypeOK'
  <2>1. size_filled' \in [Orders -> 0..MaxPartial]
      BY DEF TypeOK
  <2>2. open_orders' \in [Keys -> Orders \cup {NoOrder}]
      BY DEF TypeOK
  <2>3. /\ id' \in [Orders -> Orders \cup {NoOrder}]
        /\ state' \in [Orders -> OrderState]
      BY DEF TypeOK, OrderState
  <2>4. post' \in [Orders -> PostState] /\ exch' \in [Orders -> ExchState]
      BY DEF TypeOK, PostState, ExchState
  <2> QED BY <2>1, <2>2, <2>3, <2>4 DEF TypeOK
<1>2. EntriesAtOwnKey'
    BY DEF TypeOK, EntriesAtOwnKey
<1>3. IdIffConfirmed' /\ IdsAtOwnKey'
    BY DEF TypeOK, IdIffConfirmed, IdsAtOwnKey
<1>4. EventsAtOwnKey'
    BY DEF EventsAtOwnKey
<1>5. UnplacedIsUnknown'
    BY DEF TypeOK, UnplacedIsUnknown
<1>6. TasksHoldTheirOrder' /\ CancelTargetsOwnKey'
    BY DEF TypeOK, TasksHoldTheirOrder, CancelTargetsOwnKey,
           UnplacedIsUnknown, InFlight
<1>7. NoStuckCancel'
    BY DEF TypeOK, NoStuckCancel, UnplacedIsUnknown
<1> QED BY <1>1, <1>2, <1>3, <1>4, <1>5, <1>6, <1>7

\* Removing an entry disturbs nothing that the others rely on.
LEMMA RemovalKeepsTable ==
  ASSUME IInv, NEW k \in Keys, remove_order_entry(k), UNCHANGED <<id, state>>
  PROVE  /\ open_orders' \in [Keys -> Orders \cup {NoOrder}]
         /\ EntriesAtOwnKey'
         /\ IdIffConfirmed'
         /\ IdsAtOwnKey'
         /\ \A j \in Keys : open_orders'[j] \in {open_orders[j], NoOrder}
BY DEF IInv, TypeOK, remove_order_entry, EntriesAtOwnKey, IdIffConfirmed,
       IdsAtOwnKey

\* Nor does giving an object an id that belongs at its key.
LEMMA SetIdKeepsTable ==
  ASSUME IInv, NEW o \in Orders, NEW i \in Orders, KeyOf[i] = KeyOf[o],
         set_id(o, i), UNCHANGED open_orders
  PROVE  /\ id' \in [Orders -> Orders \cup {NoOrder}]
         /\ state' \in [Orders -> OrderState]
         /\ EntriesAtOwnKey'
         /\ IdIffConfirmed'
         /\ IdsAtOwnKey'
         /\ \A p \in Orders : id[p] # NoOrder => id'[p] # NoOrder
         /\ \A p \in Orders : state'[p] = "ToBeCanceled" => state[p] = "ToBeCanceled"
<1> USE OpenOrdersAssumption DEF IInv, TypeOK, set_id, OrderState
<1>1. EntriesAtOwnKey'
    BY DEF EntriesAtOwnKey
<1>2. IdIffConfirmed' /\ IdsAtOwnKey'
    BY DEF IdIffConfirmed, IdsAtOwnKey
<1> QED BY <1>1, <1>2

LEMMA PostReturnsKeepsIInv ==
  ASSUME IInv, NEW o \in Orders, PostReturns(o)
  PROVE  IInv'
<1> USE OpenOrdersAssumption DEF PostReturns, cancel_vars, exch_vars
<1>1. post' \in [Orders -> PostState]
    BY DEF IInv, TypeOK, PostState
<1>2. EventsAtOwnKey'
    BY DEF IInv, EventsAtOwnKey
<1>3. CASE post[o] = "ok" /\ set_id(o, o) /\ UNCHANGED open_orders
  <2>1. TypeOK' /\ EntriesAtOwnKey' /\ IdIffConfirmed' /\ IdsAtOwnKey'
      BY <1>1, <1>3, SetIdKeepsTable DEF IInv, TypeOK
  <2>2. UnplacedIsUnknown'
      BY <1>3 DEF IInv, TypeOK, UnplacedIsUnknown
  <2>3. TasksHoldTheirOrder' /\ CancelTargetsOwnKey'
      BY <1>3, SetIdKeepsTable DEF IInv, TypeOK, TasksHoldTheirOrder,
         CancelTargetsOwnKey, InFlight
  <2>4. NoStuckCancel'
      BY <1>3, SetIdKeepsTable DEF IInv, TypeOK, NoStuckCancel
  <2> QED BY <1>2, <2>1, <2>2, <2>3, <2>4 DEF IInv
<1>4. CASE post[o] = "err" /\ remove_order_entry(KeyOf[o]) /\ UNCHANGED <<id, state>>
  <2>1. TypeOK' /\ EntriesAtOwnKey' /\ IdIffConfirmed' /\ IdsAtOwnKey'
      BY <1>1, <1>4, RemovalKeepsTable DEF IInv, TypeOK
  <2>2. UnplacedIsUnknown'
      BY <1>4, RemovalKeepsTable DEF IInv, TypeOK, UnplacedIsUnknown
  <2>3. TasksHoldTheirOrder' /\ CancelTargetsOwnKey'
      BY <1>4 DEF IInv, TasksHoldTheirOrder, CancelTargetsOwnKey
  <2>4. NoStuckCancel'
      BY <1>4, RemovalKeepsTable DEF IInv, NoStuckCancel
  <2> QED BY <1>2, <2>1, <2>2, <2>3, <2>4 DEF IInv
<1> QED BY <1>3, <1>4

LEMMA CancelCallKeepsIInv ==
  ASSUME IInv, NEW c \in CancelTasks, CancelCall(c)
  PROVE  IInv'
<1> USE OpenOrdersAssumption DEF local_vars, exch_vars
<1>1. CASE \E k \in Keys : CancelLookup(c, k)
  <2> PICK k \in Keys : CancelLookup(c, k)
      BY <1>1
  <2> USE DEF CancelLookup, IInv
  <2>1. TypeOK'
      BY DEF TypeOK, CancelPC
  <2>2. EntriesAtOwnKey' /\ IdIffConfirmed' /\ IdsAtOwnKey' /\ EventsAtOwnKey'
      BY DEF EntriesAtOwnKey, IdIffConfirmed, IdsAtOwnKey, EventsAtOwnKey
  <2>3. UnplacedIsUnknown'
      BY DEF TypeOK, UnplacedIsUnknown
  <2>4. TasksHoldTheirOrder' /\ CancelTargetsOwnKey'
      BY DEF TypeOK, TasksHoldTheirOrder, CancelTargetsOwnKey, InFlight
  <2>5. NoStuckCancel'
      BY DEF TypeOK, NoStuckCancel, InFlight
  <2> QED BY <2>1, <2>2, <2>3, <2>4, <2>5
<1>2. CASE CancelWithoutId(c)
  <2> USE <1>2 DEF CancelWithoutId, task_ends, IInv
  <2>1. TypeOK'
      BY DEF TypeOK, CancelPC
  <2>2. EntriesAtOwnKey' /\ IdIffConfirmed' /\ IdsAtOwnKey' /\ EventsAtOwnKey'
      BY DEF EntriesAtOwnKey, IdIffConfirmed, IdsAtOwnKey, EventsAtOwnKey
  <2>3. UnplacedIsUnknown'
      BY DEF TypeOK, UnplacedIsUnknown
  <2>4. TasksHoldTheirOrder' /\ CancelTargetsOwnKey'
      BY DEF TypeOK, TasksHoldTheirOrder, CancelTargetsOwnKey, InFlight
  <2>5. NoStuckCancel'
      BY DEF TypeOK, NoStuckCancel, InFlight
  <2> QED BY <2>1, <2>2, <2>3, <2>4, <2>5
<1>3. CASE CancelSend(c)
  <2> USE <1>3 DEF CancelSend, IInv
  <2>1. cancel_order[c] \in Orders /\ id[cancel_order[c]] \in Orders
      BY DEF TypeOK, TasksHoldTheirOrder
  <2>2. TypeOK'
      BY <2>1 DEF TypeOK, CancelPC, OrderState
  <2>3. EntriesAtOwnKey' /\ IdIffConfirmed' /\ IdsAtOwnKey' /\ EventsAtOwnKey'
      BY <2>1 DEF TypeOK, EntriesAtOwnKey, IdIffConfirmed, IdsAtOwnKey,
         EventsAtOwnKey
  <2>4. UnplacedIsUnknown'
      BY DEF UnplacedIsUnknown
  <2>5. TasksHoldTheirOrder' /\ CancelTargetsOwnKey'
      BY <2>1 DEF TypeOK, TasksHoldTheirOrder, CancelTargetsOwnKey,
         IdsAtOwnKey, InFlight
  <2>6. NoStuckCancel'
      BY <2>1 DEF TypeOK, NoStuckCancel, InFlight
  <2> QED BY <2>2, <2>3, <2>4, <2>5, <2>6
<1> QED BY <1>1, <1>2, <1>3 DEF CancelCall

LEMMA CancelReturnsKeepsIInv ==
  ASSUME IInv, NEW c \in CancelTasks, CancelReturns(c)
  PROVE  IInv'
<1> USE OpenOrdersAssumption DEF IInv
<1>1. cancel_order[c] \in Orders /\ id[cancel_order[c]] # NoOrder
    BY DEF CancelReturns, TypeOK, TasksHoldTheirOrder, InFlight
<1>2. TypeOK'
    BY <1>1 DEF CancelReturns, task_ends, remove_order_entry, TypeOK,
       CancelPC, OrderState, exch_vars
<1>3. EventsAtOwnKey'
    BY DEF CancelReturns, EventsAtOwnKey
<1>4. EntriesAtOwnKey'
    BY DEF CancelReturns, remove_order_entry, TypeOK, EntriesAtOwnKey
<1>5. IdIffConfirmed' /\ IdsAtOwnKey'
    BY <1>1 DEF CancelReturns, TypeOK, IdIffConfirmed, IdsAtOwnKey
<1>6. UnplacedIsUnknown'
    BY DEF CancelReturns, task_ends, remove_order_entry, TypeOK,
       UnplacedIsUnknown
<1>7. TasksHoldTheirOrder' /\ CancelTargetsOwnKey'
    BY DEF CancelReturns, task_ends, TypeOK, TasksHoldTheirOrder,
       CancelTargetsOwnKey, InFlight
\* Its own order leaves the table or is Live again, unless the process ends.
<1>8. NoStuckCancel'
  <2> SUFFICES ASSUME NEW k \in Keys, ~exited', open_orders'[k] # NoOrder,
                      state'[open_orders'[k]] = "ToBeCanceled"
               PROVE  \E d \in CancelTasks : /\ cancel_pc'[d] \in InFlight
                                             /\ cancel_order'[d] = open_orders'[k]
      BY DEF NoStuckCancel
  <2>1. open_orders'[k] = open_orders[k] /\ state[open_orders[k]] = "ToBeCanceled"
      BY <1>1 DEF CancelReturns, remove_order_entry, TypeOK
  <2>2. open_orders[k] # cancel_order[c]
      BY <1>1, <2>1 DEF CancelReturns, remove_order_entry, TypeOK,
         EntriesAtOwnKey
  <2>3. PICK d \in CancelTasks : /\ cancel_pc[d] \in InFlight
                                 /\ cancel_order[d] = open_orders[k]
      BY <2>1 DEF CancelReturns, NoStuckCancel
  <2> QED BY <2>1, <2>2, <2>3 DEF CancelReturns, task_ends, TypeOK
<1> QED BY <1>2, <1>3, <1>4, <1>5, <1>6, <1>7, <1>8

LEMMA HandleUserEventKeepsIInv ==
  ASSUME IInv, HandleUserEvent
  PROVE  IInv'
<1> DEFINE e == Head(user_events)
           Good == {g \in Event : g.type # "TAKER_TRADE" => g.key = KeyOf[g.id]}
<1> USE OpenOrdersAssumption DEF cancel_vars, exch_vars
<1>1. user_events \in Seq(Event) /\ user_events \in Seq(Good)
    BY DEF IInv, TypeOK, EventsAtOwnKey
<1>2. e \in Good /\ user_events' \in Seq(Event) /\ user_events' \in Seq(Good)
  <2> HIDE DEF Good
  <2> QED BY <1>1 DEF HandleUserEvent
<1>3. /\ e.type \in EventType /\ e.id \in Orders /\ e.key \in Keys
      /\ e.size_matched \in 0..MaxPartial
      /\ e.type # "TAKER_TRADE" => e.key = KeyOf[e.id]
    BY <1>2 DEF Event
<1> HIDE DEF e
<1>4. EventsAtOwnKey'
    BY <1>2 DEF EventsAtOwnKey
<1> HIDE DEF Good
<1>5. user_placement(e) \/ user_update_live(e) \/ user_end_of_order(e)
    BY DEF HandleUserEvent, e
<1>6. /\ UNCHANGED <<post, cancel_pc, cancel_order, cancel_id, exch,
                     exch_filled, exch_taken, exited>>
      /\ user_events' \in Seq(Event)
    BY <1>2 DEF HandleUserEvent
<1>7. CASE UNCHANGED <<open_orders, id, state>> /\ size_filled' \in [Orders -> 0..MaxPartial]
  <2>1. TypeOK'
      BY <1>6, <1>7 DEF IInv, TypeOK
  <2>2. EntriesAtOwnKey' /\ IdIffConfirmed' /\ IdsAtOwnKey'
      BY <1>7 DEF IInv, EntriesAtOwnKey, IdIffConfirmed, IdsAtOwnKey
  <2>3. UnplacedIsUnknown' /\ NoStuckCancel'
      BY <1>6, <1>7 DEF IInv, UnplacedIsUnknown, NoStuckCancel
  <2>4. TasksHoldTheirOrder' /\ CancelTargetsOwnKey'
      BY <1>6, <1>7 DEF IInv, TasksHoldTheirOrder, CancelTargetsOwnKey
  <2> QED BY <1>4, <2>1, <2>2, <2>3, <2>4 DEF IInv
<1>8. CASE user_placement(e)
  <2>1. CASE open_orders[e.key] = NoOrder
      BY <1>7, <1>8, <2>1 DEF user_placement, IInv, TypeOK
  <2>2. CASE open_orders[e.key] # NoOrder
    <3> DEFINE o == open_orders[e.key]
    <3>1. o \in Orders /\ KeyOf[o] = e.key /\ KeyOf[e.id] = KeyOf[o]
        BY <1>3, <1>8, <2>2 DEF user_placement, IInv, TypeOK, EntriesAtOwnKey
    <3>2. set_id(o, e.id) /\ UNCHANGED <<open_orders, size_filled>>
        BY <1>8, <2>2 DEF user_placement
    <3> HIDE DEF o
    <3>3. /\ id' \in [Orders -> Orders \cup {NoOrder}]
          /\ state' \in [Orders -> OrderState]
          /\ EntriesAtOwnKey' /\ IdIffConfirmed' /\ IdsAtOwnKey'
          /\ \A p \in Orders : id[p] # NoOrder => id'[p] # NoOrder
          /\ \A p \in Orders :
               state'[p] = "ToBeCanceled" => state[p] = "ToBeCanceled"
        BY <1>3, <3>1, <3>2, SetIdKeepsTable
    <3>4. TypeOK'
        BY <1>6, <3>2, <3>3 DEF IInv, TypeOK
    <3>5. UnplacedIsUnknown'
        BY <1>6, <3>2 DEF IInv, UnplacedIsUnknown
    <3>6. TasksHoldTheirOrder' /\ CancelTargetsOwnKey'
        BY <1>6, <3>3 DEF IInv, TypeOK, TasksHoldTheirOrder,
           CancelTargetsOwnKey, InFlight
    <3>7. NoStuckCancel'
        BY <1>6, <3>2, <3>3 DEF IInv, TypeOK, NoStuckCancel
    <3> QED BY <1>4, <3>3, <3>4, <3>5, <3>6, <3>7 DEF IInv
  <2> QED BY <2>1, <2>2
<1>9. CASE user_update_live(e)
  <2>1. size_filled' \in [Orders -> 0..MaxPartial]
      BY <1>3, <1>9 DEF user_update_live, IInv, TypeOK
  <2> QED BY <1>7, <1>9, <2>1 DEF user_update_live
<1>10. CASE user_end_of_order(e)
  <2>1. remove_order_entry(e.key) /\ UNCHANGED <<id, state, size_filled>>
      BY <1>10 DEF user_end_of_order
  <2>2. TypeOK' /\ EntriesAtOwnKey' /\ IdIffConfirmed' /\ IdsAtOwnKey'
      BY <1>3, <1>6, <2>1, RemovalKeepsTable DEF IInv, TypeOK
  <2>3. UnplacedIsUnknown'
      BY <1>3, <1>6, <2>1, RemovalKeepsTable DEF IInv, TypeOK, UnplacedIsUnknown
  <2>4. TasksHoldTheirOrder' /\ CancelTargetsOwnKey'
      BY <1>6, <2>1 DEF IInv, TasksHoldTheirOrder, CancelTargetsOwnKey
  <2>5. NoStuckCancel'
      BY <1>3, <1>6, <2>1, RemovalKeepsTable DEF IInv, NoStuckCancel
  <2> QED BY <1>4, <2>2, <2>3, <2>4, <2>5 DEF IInv
<1> QED BY <1>5, <1>8, <1>9, <1>10

-----------------------------------------------------------------------------
(* The theorems                                                            *)

LEMMA StepKeepsIInv == IInv /\ [Next]_vars => IInv'
<1> SUFFICES ASSUME IInv, [Next]_vars PROVE IInv'
    OBVIOUS
<1>1. ASSUME NEW o \in Orders, Place(o) PROVE IInv'
    BY <1>1, PlaceKeepsIInv, PlaceZeroKeepsIInv DEF Place
<1>2. ASSUME NEW o \in Orders, PostReturns(o) PROVE IInv'
    BY <1>2, PostReturnsKeepsIInv
<1>3. ASSUME NEW o \in Orders, Exchange(o) PROVE IInv'
    BY <1>3, ExchangeKeepsIInv
<1>4. ASSUME NEW o \in Orders, PostTimeout(o) PROVE IInv'
    BY <1>4, PostTimeoutKeepsIInv
<1>5. ASSUME NEW c \in CancelTasks, CancelCall(c) PROVE IInv'
    BY <1>5, CancelCallKeepsIInv
<1>6. ASSUME NEW c \in CancelTasks, CancelAnswer(c) PROVE IInv'
    BY <1>6, CancelAnswerKeepsIInv
<1>7. ASSUME NEW c \in CancelTasks, CancelReturns(c) PROVE IInv'
    BY <1>7, CancelReturnsKeepsIInv
<1>8. CASE HandleUserEvent
    BY <1>8, HandleUserEventKeepsIInv
<1>9. CASE UNCHANGED vars
  <2>1. TypeOK' /\ EventsAtOwnKey'
      BY <1>9 DEF vars, local_vars, cancel_vars, exch_vars, IInv, TypeOK,
         EventsAtOwnKey
  <2> QED BY <1>9, <2>1, AwayFromTheTable DEF vars, cancel_vars
<1> QED BY <1>1, <1>2, <1>3, <1>4, <1>5, <1>6, <1>7, <1>8, <1>9 DEF Next

\* Every reachable state satisfies the inductive invariant: the variables
\* have their types, and entries, ids, tasks and messages agree on keys.
THEOREM Inductive == Spec => []IInv
BY InitIInv, StepKeepsIInv, PTL DEF Spec

\* Type correctness of the table, the tasks, the messages and the exchange.
THEOREM TypeCorrect == Spec => []TypeOK
<1>1. IInv => TypeOK
    BY DEF IInv
<1> QED BY <1>1, Inductive, PTL

\* Whatever messages and answers arrive late, a cancellation sent to the
\* exchange names an order of the key its caller asked to cancel.
THEOREM CancelsOwnKey == Spec => []CancelTargetsOwnKey
<1>1. IInv => CancelTargetsOwnKey
    BY DEF IInv
<1> QED BY <1>1, Inductive, PTL

\* No order in the table is ToBeCanceled without a request in flight that
\* will settle it, however many callers cancel it at once.
THEOREM CancelNeverStuck == Spec => []NoStuckCancel
<1>1. IInv => NoStuckCancel
    BY DEF IInv
<1> QED BY <1>1, Inductive, PTL

-----------------------------------------------------------------------------
(* The table implements OrderSlots                                         *)

\* The phase of the slot at key k.
Phase == [k \in Keys |-> IF open_orders[k] = NoOrder
                         THEN "Free" ELSE state[open_orders[k]]]

\* Removing an entry retires the order at its key, if there is one.
LEMMA RemovalRetires ==
  ASSUME IInv, NEW k \in Keys, remove_order_entry(k), UNCHANGED state
  PROVE  [Slots!Next]_(Slots!slotVars)
<1>1. CASE open_orders[k] = NoOrder
    BY <1>1 DEF IInv, TypeOK, remove_order_entry, Slots!slotVars
<1>2. CASE open_orders[k] # NoOrder
  <2>1. Phase[k] # "Free"
      BY <1>2 DEF IInv, TypeOK, Phase, OrderState
  <2>2. Phase' = [Phase EXCEPT ![k] = "Free"]
      BY DEF IInv, TypeOK, Phase, remove_order_entry
  <2>3. Slots!Retire(k)
      BY <2>1, <2>2 DEF Slots!Retire, Phase, remove_order_entry
  <2> QED BY <2>3 DEF Slots!Next
<1> QED BY <1>1, <1>2

\* A change of one object's state shows at its key, if it is in the table.
LEMMA StateShowsAtKey ==
  ASSUME IInv, NEW o \in Orders, NEW s \in OrderState, UNCHANGED open_orders,
         state' = [state EXCEPT ![o] = s]
  PROVE  IF open_orders[KeyOf[o]] = o
         THEN Phase' = [Phase EXCEPT ![KeyOf[o]] = s]
         ELSE Phase' = Phase
<1> USE OpenOrdersAssumption DEF IInv, TypeOK, EntriesAtOwnKey
<1>1. \A k \in Keys : open_orders[k] = o => k = KeyOf[o]
    OBVIOUS
<1>2. CASE open_orders[KeyOf[o]] = o
  <2>1. ASSUME NEW k \in Keys
        PROVE  Phase'[k] = [Phase EXCEPT ![KeyOf[o]] = s][k]
    <3>1. CASE k = KeyOf[o]
        BY <1>2, <3>1 DEF Phase
    <3>2. CASE k # KeyOf[o]
        BY <1>1, <3>2 DEF Phase
    <3> QED BY <3>1, <3>2
  <2> QED BY <1>2, <2>1 DEF Phase
<1>3. CASE open_orders[KeyOf[o]] # o
    BY <1>1, <1>3 DEF Phase
<1> QED BY <1>2, <1>3

\* Making an object Live confirms the order at its key, if it is there.
LEMMA LiveConfirms ==
  ASSUME IInv, NEW o \in Orders, UNCHANGED open_orders,
         state' = [state EXCEPT ![o] = "Live"]
  PROVE  [Slots!Next]_(Slots!slotVars)
<1> USE OpenOrdersAssumption
<1>1. CASE open_orders[KeyOf[o]] = o
  <2>1. Phase[KeyOf[o]] # "Free"
      BY <1>1 DEF IInv, TypeOK, Phase, OrderState
  <2>2. Phase' = [Phase EXCEPT ![KeyOf[o]] = "Live"]
      BY <1>1, StateShowsAtKey DEF OrderState
  <2>3. Slots!Confirm(KeyOf[o])
      BY <2>1, <2>2 DEF Slots!Confirm, Phase
  <2> QED BY <2>3 DEF Slots!Next
<1>2. CASE open_orders[KeyOf[o]] # o
    BY <1>2, StateShowsAtKey DEF OrderState, Slots!slotVars, Phase
<1> QED BY <1>1, <1>2

\* Asking for a confirmed object's cancellation shows at its key likewise.
LEMMA CancellingRequests ==
  ASSUME IInv, NEW o \in Orders, UNCHANGED open_orders,
         state[o] \in {"Live", "ToBeCanceled"},
         state' = [state EXCEPT ![o] = "ToBeCanceled"]
  PROVE  [Slots!Next]_(Slots!slotVars)
<1> USE OpenOrdersAssumption
<1>1. CASE open_orders[KeyOf[o]] = o
  <2>1. Phase[KeyOf[o]] \in {"Live", "ToBeCanceled"}
      BY <1>1 DEF Phase
  <2>2. Phase' = [Phase EXCEPT ![KeyOf[o]] = "ToBeCanceled"]
      BY <1>1, StateShowsAtKey DEF OrderState
  <2>3. Slots!RequestCancel(KeyOf[o])
      BY <2>1, <2>2 DEF Slots!RequestCancel, Phase
  <2> QED BY <2>3 DEF Slots!Next
<1>2. CASE open_orders[KeyOf[o]] # o
    BY <1>2, StateShowsAtKey DEF OrderState, Slots!slotVars, Phase
<1> QED BY <1>1, <1>2

\* What does not touch the table or a state is a stuttering step.
LEMMA UntouchedStutters ==
  ASSUME UNCHANGED <<open_orders, state>>
  PROVE  [Slots!Next]_(Slots!slotVars)
BY DEF Slots!slotVars

LEMMA InitImplements == Init => Slots!Init
BY OpenOrdersAssumption DEF Init, Slots!Init

LEMMA StepImplements ==
  ASSUME IInv, [Next]_vars
  PROVE  [Slots!Next]_(Slots!slotVars)
<1> USE OpenOrdersAssumption
<1>1. ASSUME NEW o \in Orders, place_limit_order(o)
      PROVE  [Slots!Next]_(Slots!slotVars)
  <2>1. open_orders[KeyOf[o]] = NoOrder /\ \A k \in Keys : open_orders[k] # o
      BY <1>1 DEF place_limit_order, record_order, IInv, UnplacedIsUnknown
  <2>2. Phase[KeyOf[o]] = "Free"
      BY <2>1 DEF Phase
  <2>3. Phase' = [Phase EXCEPT ![KeyOf[o]] = "Unconfirmed"]
      BY <1>1, <2>1 DEF place_limit_order, record_order, IInv, TypeOK, Phase
  <2>4. Slots!Record(KeyOf[o], o)
      BY <1>1, <2>2, <2>3 DEF place_limit_order, record_order, Slots!Record,
         Phase
  <2> QED BY <2>4 DEF Slots!Next
<1>2. ASSUME NEW o \in Orders, place_zero_amount(o)
      PROVE  [Slots!Next]_(Slots!slotVars)
    BY <1>2, UntouchedStutters DEF place_zero_amount, local_vars
<1>3. ASSUME NEW o \in Orders, PostReturns(o)
      PROVE  [Slots!Next]_(Slots!slotVars)
    BY <1>3, LiveConfirms, RemovalRetires DEF PostReturns, set_id
<1>4. ASSUME NEW o \in Orders, Exchange(o) \/ PostTimeout(o)
      PROVE  [Slots!Next]_(Slots!slotVars)
    BY <1>4, UntouchedStutters DEF Exchange, ExchAccept, ExchTakePart, Rests,
       ExchReject, ExchTake, ExchPartialFill, ExchFill, ExchWithdraw, PostTimeout, local_vars
<1>5. ASSUME NEW c \in CancelTasks, CancelCall(c)
      PROVE  [Slots!Next]_(Slots!slotVars)
  <2>1. CASE (\E k \in Keys : CancelLookup(c, k)) \/ CancelWithoutId(c)
      BY <2>1, UntouchedStutters DEF CancelLookup, CancelWithoutId, local_vars
  <2>2. CASE CancelSend(c)
    <3>1. /\ cancel_order[c] \in Orders
          /\ state[cancel_order[c]] \in {"Live", "ToBeCanceled"}
        BY <2>2 DEF CancelSend, IInv, TypeOK, OrderState, IdIffConfirmed,
           TasksHoldTheirOrder
    <3> QED BY <2>2, <3>1, CancellingRequests DEF CancelSend
  <2> QED BY <1>5, <2>1, <2>2 DEF CancelCall
<1>6. ASSUME NEW c \in CancelTasks, CancelAnswer(c)
      PROVE  [Slots!Next]_(Slots!slotVars)
    BY <1>6, UntouchedStutters DEF CancelAnswer, ExchCancel, ExchRefuseCancel,
       CancelFault, local_vars
<1>7. ASSUME NEW c \in CancelTasks, CancelReturns(c)
      PROVE  [Slots!Next]_(Slots!slotVars)
  <2>1. cancel_order[c] \in Orders
      BY <1>7 DEF CancelReturns, IInv, TypeOK, TasksHoldTheirOrder
  <2>2. CASE remove_order_entry(KeyOf[cancel_order[c]]) /\ UNCHANGED state
      BY <2>1, <2>2, RemovalRetires
  <2>3. CASE /\ state' = [state EXCEPT ![cancel_order[c]] = "Live"]
             /\ UNCHANGED open_orders
      BY <2>1, <2>3, LiveConfirms
  <2>4. CASE UNCHANGED <<open_orders, state>>
      BY <2>4, UntouchedStutters
  <2> QED BY <1>7, <2>2, <2>3, <2>4 DEF CancelReturns
<1>8. ASSUME HandleUserEvent
      PROVE  [Slots!Next]_(Slots!slotVars)
  <2> DEFINE e == Head(user_events)
  <2>1. e \in Event
      BY <1>8 DEF HandleUserEvent, IInv, TypeOK
  <2>2. e.key \in Keys
      BY <2>1 DEF Event
  <2>3. user_placement(e) \/ user_update_live(e) \/ user_end_of_order(e)
      BY <1>8 DEF HandleUserEvent
  <2> HIDE DEF e
  <2>4. CASE user_placement(e)
      BY <2>2, <2>4, LiveConfirms, UntouchedStutters
         DEF user_placement, set_id, IInv, TypeOK
  <2>5. CASE user_update_live(e)
      BY <2>5, UntouchedStutters DEF user_update_live
  <2>6. CASE user_end_of_order(e)
      BY <2>2, <2>6, RemovalRetires DEF user_end_of_order
  <2> QED BY <2>3, <2>4, <2>5, <2>6
<1>9. CASE UNCHANGED vars
    BY <1>9, UntouchedStutters DEF vars, local_vars
<1> QED BY <1>1, <1>2, <1>3, <1>4, <1>5, <1>6, <1>7, <1>8, <1>9 DEF Next, Place

\* The table of open orders implements OrderSlots: no entry is overwritten,
\* only a confirmed order is asked to be cancelled, and no order becomes
\* unconfirmed again, in whatever order answers and messages come.
THEOREM Implements == Spec => SlotsSpec
BY Inductive, InitImplements, StepImplements, PTL
   DEF Spec, SlotsSpec, Slots!Spec

-----------------------------------------------------------------------------
(* Strategies that do not use a key too early: what is at a key            *)

\* Answers come, and trades are reported at their orders' prices.
Answered == "network" \notin Faults /\ "price" \notin Faults

\* Something in the program, or on its way to it, is about the order.
Current(o) ==
  \/ open_orders[KeyOf[o]] = o
  \/ post[o] \notin {"none", "done"}
  \/ \E c \in CancelTasks : cancel_order[c] = o
  \/ \E i \in 1..Len(user_events) : user_events[i].id = o

OneAtAKey ==
  \A o, p \in Orders : (Current(o) /\ Current(p) /\ KeyOf[o] = KeyOf[p]) => o = p

PostsAnswered ==
  \A o \in Orders :
    /\ post[o] = "none" => exch[o] = "none"
    /\ exch[o] = "none" => post[o] \in {"none", "done"} /\ open_orders[KeyOf[o]] # o
    /\ post[o] = "waiting" <=> exch[o] = "inbound"
    /\ post[o] = "ok" => exch[o] \in {"live", "filled", "canceled"}
    /\ post[o] = "err" => exch[o] = "rejected"

EventOk(e, x) ==
  /\ e.key = KeyOf[e.id]
  /\ x[e.id] \in {"live", "filled", "canceled"}
  /\ e.type \in EndOfOrder => x[e.id] \in {"filled", "canceled"}
EventsSound == \A i \in 1..Len(user_events) : EventOk(user_events[i], exch)

\* No message about an order follows the one about its end.
EndIsLast ==
  \A i, j \in 1..Len(user_events) :
    (i < j /\ user_events[i].type \in EndOfOrder) => user_events[j].id # user_events[i].id

OwnIds ==
  /\ \A o \in Orders : id[o] \in {NoOrder, o}
  /\ \A c \in CancelTasks :
       /\ cancel_pc[c] \in InFlight => cancel_id[c] = cancel_order[c]
       /\ cancel_pc[c] = "canceled" => exch[cancel_order[c]] = "canceled"

Tracked ==
  \A o \in Orders : exch[o] \in {"inbound", "live"} => open_orders[KeyOf[o]] = o

SettledInv ==
  OneAtAKey /\ PostsAnswered /\ EventsSound /\ EndIsLast /\ OwnIds /\ Tracked

-----------------------------------------------------------------------------
(* The queue                                                               *)

LEMMA QueueAppended ==
  ASSUME NEW q \in Seq(Event), NEW e \in Event
  PROVE  /\ Len(Append(q, e)) = Len(q) + 1 /\ Len(q) \in Nat
         /\ Append(q, e)[Len(q) + 1] = e
         /\ \A i \in 1..Len(q) : Append(q, e)[i] = q[i] /\ q[i] \in Event
  BY AppendProperties, LenProperties, ElementOfSeq

LEMMA QueueTail ==
  ASSUME NEW q \in Seq(Event), q # <<>>
  PROVE  /\ Len(q) \in Nat \ {0} /\ Len(Tail(q)) = Len(q) - 1
         /\ q[1] = Head(q) /\ Head(q) \in Event
         /\ \A i \in 1..(Len(q) - 1) : Tail(q)[i] = q[i + 1]
         /\ \A i \in 1..Len(q) : q[i] \in Event
  BY HeadTailProperties, LenProperties, ElementOfSeq, EmptySeq

LEMMA EventFields ==
  ASSUME NEW e \in Event
  PROVE  e.type \in EventType /\ e.id \in Orders /\ e.key \in Keys
  BY DEF Event

-----------------------------------------------------------------------------
(* The steps                                                               *)

\* As long as nothing comes up about an order, one order is at each key.
LEMMA CurrentShrinks ==
  ASSUME OneAtAKey, \A o \in Orders : Current(o)' => Current(o)
  PROVE  OneAtAKey'
  BY DEF OneAtAKey

\* The exchange accepts, fills or cancels an order, and may tell.
LEMMA AnnounceKeeps ==
  ASSUME IInv, SettledInv, NEW o \in Orders, NEW s \in {"live", "filled", "canceled"},
         exch[o] \in {"inbound", "live"},
         exch' = [exch EXCEPT ![o] = s],
         NEW e \in Event, e.id = o, e.key = KeyOf[o],
         e.type \in EndOfOrder => s # "live",
         user_events' \in {user_events, Append(user_events, e)},
         UNCHANGED <<open_orders, id, cancel_order, cancel_id>>,
         post' = [post EXCEPT ![o] = IF @ = "waiting" THEN "ok" ELSE @],
         \A c \in CancelTasks :
           \/ cancel_pc'[c] = cancel_pc[c]
           \/ cancel_pc[c] = "sent" /\ cancel_pc'[c] = "canceled"
              /\ cancel_id[c] = o /\ s = "canceled"
  PROVE  SettledInv'
<1> USE OpenOrdersAssumption
<1>1. /\ exch \in [Orders -> ExchState] /\ post \in [Orders -> PostState]
      /\ user_events \in Seq(Event)
      /\ cancel_order \in [CancelTasks -> Orders \cup {NoOrder}]
      /\ cancel_pc \in [CancelTasks -> CancelPC]
  BY DEF IInv, TypeOK
<1>2. /\ exch'[o] = s
      /\ \A p \in Orders : p # o => exch'[p] = exch[p] /\ post'[p] = post[p]
      /\ post'[o] = IF post[o] = "waiting" THEN "ok" ELSE post[o]
  BY <1>1
<1>3. open_orders[KeyOf[o]] = o
  BY DEF SettledInv, Tracked
<1>4. /\ Len(user_events) \in Nat
      /\ \A i \in 1..Len(user_events) : user_events[i] \in Event
      /\ \/ user_events' = user_events
         \/ /\ Len(user_events') = Len(user_events) + 1
            /\ user_events'[Len(user_events) + 1] = e
            /\ \A i \in 1..Len(user_events) : user_events'[i] = user_events[i]
  <2>1. user_events' = user_events \/ user_events' = Append(user_events, e)
    OBVIOUS
  <2> QED
    BY <1>1, <2>1, QueueAppended, LenProperties, ElementOfSeq
<1>5. \A i \in 1..Len(user_events) : user_events[i].id \in Orders
  BY <1>4, EventFields
<1>6. OneAtAKey'
  <2>1. ASSUME NEW p \in Orders, Current(p)' PROVE Current(p)
    <3>1. CASE p = o
      BY <1>3, <3>1 DEF Current
    <3>2. CASE p # o
      <4>1. ASSUME NEW i \in 1..Len(user_events'), user_events'[i].id = p
            PROVE  \E j \in 1..Len(user_events) : user_events[j].id = p
        <5>1. i \in 1..Len(user_events) /\ user_events'[i] = user_events[i]
          BY <1>4, <3>2, <4>1
        <5> QED
          BY <4>1, <5>1
      <4> QED
        BY <1>2, <2>1, <3>2, <4>1 DEF Current
    <3> QED
      BY <3>1, <3>2
  <2> QED
    BY <2>1, CurrentShrinks DEF SettledInv
<1>7. PostsAnswered'
  <2>1. ASSUME NEW p \in Orders, p # o
        PROVE  /\ post'[p] = "none" => exch'[p] = "none"
               /\ exch'[p] = "none" => post'[p] \in {"none", "done"} /\ open_orders'[KeyOf[p]] # p
               /\ post'[p] = "waiting" <=> exch'[p] = "inbound"
               /\ post'[p] = "ok" => exch'[p] \in {"live", "filled", "canceled"}
               /\ post'[p] = "err" => exch'[p] = "rejected"
    BY <1>2, <2>1 DEF SettledInv, PostsAnswered
  <2>2. /\ post'[o] = "none" => exch'[o] = "none"
        /\ exch'[o] = "none" => post'[o] \in {"none", "done"} /\ open_orders'[KeyOf[o]] # o
        /\ post'[o] = "waiting" <=> exch'[o] = "inbound"
        /\ post'[o] = "ok" => exch'[o] \in {"live", "filled", "canceled"}
        /\ post'[o] = "err" => exch'[o] = "rejected"
    BY <1>2 DEF SettledInv, PostsAnswered
  <2> QED
    BY <2>1, <2>2 DEF PostsAnswered
<1>8. EventsSound'
  <2>1. ASSUME NEW i \in 1..Len(user_events)
        PROVE  EventOk(user_events[i], exch')
    <3>1. EventOk(user_events[i], exch) /\ user_events[i].id \in Orders
      BY <1>5 DEF SettledInv, EventsSound
    <3>2. CASE user_events[i].id = o
      BY <1>2, <3>1, <3>2 DEF EventOk
    <3>3. CASE user_events[i].id # o
      BY <1>2, <3>1, <3>3 DEF EventOk
    <3> QED
      BY <3>2, <3>3
  <2>2. EventOk(e, exch')
    BY <1>2 DEF EventOk
  <2>3. ASSUME NEW i \in 1..Len(user_events')
        PROVE  EventOk(user_events'[i], exch')
    <3>1. CASE i \in 1..Len(user_events)
      BY <1>4, <2>1, <3>1
    <3>2. CASE i \notin 1..Len(user_events)
      <4>1. user_events'[i] = e
        BY <1>4, <3>2
      <4> QED
        BY <2>2, <4>1
    <3> QED
      BY <3>1, <3>2
  <2> QED
    BY <2>3 DEF EventsSound
<1>9. EndIsLast'
  <2>1. ASSUME NEW i \in 1..Len(user_events), user_events[i].type \in EndOfOrder
        PROVE  user_events[i].id # o
    <3>1. EventOk(user_events[i], exch)
      BY DEF SettledInv, EventsSound
    <3> QED
      BY <2>1, <3>1 DEF EventOk
  <2>2. ASSUME NEW i \in 1..Len(user_events'), NEW j \in 1..Len(user_events'),
               i < j, user_events'[i].type \in EndOfOrder
        PROVE  user_events'[j].id # user_events'[i].id
    <3>1. i \in 1..Len(user_events) /\ user_events'[i] = user_events[i]
      BY <1>4, <2>2
    <3>2. CASE j \in 1..Len(user_events)
      <4>1. user_events'[j] = user_events[j]
        BY <1>4, <3>2
      <4> QED
        BY <2>2, <3>1, <3>2, <4>1 DEF SettledInv, EndIsLast
    <3>3. CASE j \notin 1..Len(user_events)
      <4>1. user_events'[j] = e
        BY <1>4, <3>3
      <4> QED
        BY <2>1, <2>2, <3>1, <4>1
    <3> QED
      BY <3>2, <3>3
  <2> QED
    BY <2>2 DEF EndIsLast
<1>10. OwnIds'
  <2>1. \A p \in Orders : id'[p] \in {NoOrder, p}
    BY DEF SettledInv, OwnIds
  <2>2. ASSUME NEW c \in CancelTasks
        PROVE  /\ cancel_pc'[c] \in InFlight => cancel_id'[c] = cancel_order'[c]
               /\ cancel_pc'[c] = "canceled" => exch'[cancel_order'[c]] = "canceled"
    <3>1. /\ cancel_pc[c] \in InFlight => cancel_id[c] = cancel_order[c]
          /\ cancel_pc[c] = "canceled" => exch[cancel_order[c]] = "canceled"
      BY DEF SettledInv, OwnIds
    <3>2. cancel_order[c] = NoOrder <=> cancel_pc[c] = "idle"
      BY DEF IInv, TasksHoldTheirOrder
    <3>3. cancel_pc[c] # "idle" => cancel_order[c] \in Orders
      BY <1>1, <3>2
    <3> QED
      BY <1>2, <3>1, <3>3 DEF InFlight
  <2> QED
    BY <2>1, <2>2 DEF OwnIds
<1>11. Tracked'
  BY <1>2, <1>3 DEF SettledInv, Tracked
<1> QED
  BY <1>6, <1>7, <1>8, <1>9, <1>10, <1>11 DEF SettledInv

LEMMA EventsStay ==
  ASSUME IInv, SettledInv, UNCHANGED user_events,
         \A p \in Orders :
           exch[p] \in {"live", "filled", "canceled"} => exch'[p] = exch[p]
  PROVE  EventsSound' /\ EndIsLast'
<1>1. ASSUME NEW i \in 1..Len(user_events)
      PROVE  EventOk(user_events[i], exch')
  <2>1. EventOk(user_events[i], exch)
    BY DEF SettledInv, EventsSound
  <2>2. user_events[i].id \in Orders
    BY ElementOfSeq, EventFields, LenProperties DEF IInv, TypeOK
  <2> QED
    BY <2>1, <2>2 DEF EventOk
<1>2. EventsSound'
  BY <1>1 DEF EventsSound
<1>3. EndIsLast'
  BY DEF SettledInv, EndIsLast
<1> QED
  BY <1>2, <1>3

LEMMA RejectKeeps ==
  ASSUME IInv, SettledInv, NEW o \in Orders, ExchReject(o)
  PROVE  SettledInv'
<1> USE DEF cancel_vars, local_vars
<1>1. /\ exch \in [Orders -> ExchState] /\ post \in [Orders -> PostState]
      /\ cancel_order \in [CancelTasks -> Orders \cup {NoOrder}]
      /\ cancel_pc \in [CancelTasks -> CancelPC]
  BY DEF IInv, TypeOK
<1>2. post[o] = "waiting" /\ exch[o] = "inbound"
  BY DEF SettledInv, PostsAnswered, ExchReject
<1>3. /\ UNCHANGED <<open_orders, id, cancel_pc, cancel_order, cancel_id, user_events>>
      /\ exch' = [exch EXCEPT ![o] = "rejected"]
      /\ post' = [post EXCEPT ![o] = "err"]
  BY <1>2 DEF ExchReject, Answer
<1>4. EventsSound' /\ EndIsLast'
  BY <1>1, <1>2, <1>3, EventsStay
<1>5. OneAtAKey'
  BY <1>1, <1>2, <1>3, CurrentShrinks DEF SettledInv, Current
<1>6. PostsAnswered'
  BY <1>1, <1>3 DEF SettledInv, PostsAnswered
<1>7. OwnIds' /\ Tracked'
  BY <1>1, <1>2, <1>3 DEF SettledInv, OwnIds, Tracked, IInv, TasksHoldTheirOrder, InFlight
<1> QED
  BY <1>4, <1>5, <1>6, <1>7 DEF SettledInv

\* An order is placed at a key with nothing about another on its way.
LEMMA PlaceKeeps ==
  ASSUME IInv, SettledInv, NEW o \in Orders, place_limit_order(o),
         ~Unsettled(KeyOf[o])
  PROVE  SettledInv'
<1> USE OpenOrdersAssumption DEF cancel_vars
<1>1. /\ exch \in [Orders -> ExchState] /\ post \in [Orders -> PostState]
      /\ open_orders \in [Keys -> Orders \cup {NoOrder}]
      /\ id \in [Orders -> Orders \cup {NoOrder}]
      /\ cancel_order \in [CancelTasks -> Orders \cup {NoOrder}]
      /\ cancel_pc \in [CancelTasks -> CancelPC]
  BY DEF IInv, TypeOK
<1>2. /\ post[o] = "none" /\ exch[o] = "none" /\ open_orders[KeyOf[o]] = NoOrder
      /\ UNCHANGED <<cancel_pc, cancel_order, cancel_id, user_events>>
      /\ open_orders' = [open_orders EXCEPT ![KeyOf[o]] = o]
      /\ id' = [id EXCEPT ![o] = NoOrder]
      /\ post' = [post EXCEPT ![o] = "waiting"]
      /\ exch' = [exch EXCEPT ![o] = "inbound"]
  BY DEF place_limit_order, record_order, SettledInv, PostsAnswered
<1>3. EventsSound' /\ EndIsLast'
  BY <1>1, <1>2, EventsStay
<1>4. ASSUME NEW p \in Orders, p # o, KeyOf[p] = KeyOf[o]
      PROVE  ~Current(p)
  <2>1. ASSUME NEW i \in 1..Len(user_events), user_events[i].id = p PROVE FALSE
    <3>1. EventOk(user_events[i], exch)
      BY DEF SettledInv, EventsSound
    <3>2. user_events[i].key = KeyOf[o] /\ i \in DOMAIN user_events
      BY <1>4, <2>1, <3>1, LenProperties DEF EventOk, IInv, TypeOK
    <3> QED
      BY <3>2 DEF Unsettled
  <2> QED
    BY <1>2, <1>4, <2>1 DEF Current, Unsettled
<1>5. ASSUME NEW p \in Orders, p # o, Current(p)'
      PROVE  Current(p)
  <2>1. open_orders'[KeyOf[p]] = p => open_orders[KeyOf[p]] = p
    BY <1>1, <1>2, <1>5
  <2> QED
    BY <1>1, <1>2, <1>5, <2>1 DEF Current
<1>6. OneAtAKey'
  <2>1. ASSUME NEW p \in Orders, NEW q \in Orders, Current(p)', Current(q)',
               KeyOf[p] = KeyOf[q]
        PROVE  p = q
    <3>1. CASE p = o \/ q = o
      BY <1>4, <1>5, <2>1, <3>1
    <3>2. CASE p # o /\ q # o
      BY <1>5, <2>1, <3>2 DEF SettledInv, OneAtAKey
    <3> QED
      BY <3>1, <3>2
  <2> QED
    BY <2>1 DEF OneAtAKey
<1>7. PostsAnswered'
  BY <1>1, <1>2 DEF SettledInv, PostsAnswered
<1>8. OwnIds'
  <2>1. \A p \in Orders : id'[p] \in {NoOrder, p}
    BY <1>1, <1>2 DEF SettledInv, OwnIds
  <2>2. ASSUME NEW c \in CancelTasks, cancel_pc[c] = "canceled"
        PROVE  exch'[cancel_order[c]] = "canceled"
    <3>1. exch[cancel_order[c]] = "canceled" /\ cancel_order[c] \in Orders
      BY <1>1, <2>2 DEF SettledInv, OwnIds, IInv, TasksHoldTheirOrder
    <3> QED
      BY <1>1, <1>2, <3>1
  <2> QED
    BY <1>2, <2>1, <2>2 DEF SettledInv, OwnIds
<1>9. Tracked'
  <2>1. ASSUME NEW p \in Orders, p # o, exch'[p] \in {"inbound", "live"}
        PROVE  open_orders'[KeyOf[p]] = p
    <3>1. open_orders[KeyOf[p]] = p
      BY <1>1, <1>2, <2>1 DEF SettledInv, Tracked
    <3> QED
      BY <1>1, <1>2, <3>1
  <2>2. open_orders'[KeyOf[o]] = o
    BY <1>1, <1>2
  <2> QED
    BY <2>1, <2>2 DEF Tracked
<1> QED
  BY <1>3, <1>6, <1>7, <1>8, <1>9 DEF SettledInv

LEMMA PlaceZeroKeeps ==
  ASSUME IInv, SettledInv, NEW o \in Orders, place_zero_amount(o)
  PROVE  SettledInv'
<1> USE DEF cancel_vars, local_vars, exch_vars
<1>1. post \in [Orders -> PostState]
  BY DEF IInv, TypeOK
<1>2. /\ UNCHANGED <<open_orders, id, cancel_pc, cancel_order, cancel_id, user_events, exch>>
      /\ post[o] = "none" /\ exch[o] = "none" /\ post' = [post EXCEPT ![o] = "done"]
  BY DEF place_zero_amount, SettledInv, PostsAnswered
<1>3. EventsSound' /\ EndIsLast'
  BY <1>2, EventsStay
<1>4. OneAtAKey'
  BY <1>1, <1>2, CurrentShrinks DEF SettledInv, Current
<1>5. PostsAnswered'
  BY <1>1, <1>2 DEF SettledInv, PostsAnswered
<1>6. OwnIds' /\ Tracked'
  BY <1>2 DEF SettledInv, OwnIds, Tracked
<1> QED
  BY <1>3, <1>4, <1>5, <1>6 DEF SettledInv

\* What removes the entry at the key of an order that has ended, or was
\* rejected, removes that order's.
LEMMA RemovesItsOwn ==
  ASSUME IInv, SettledInv, NEW o \in Orders, Current(o),
         exch[o] \in {"filled", "canceled", "rejected"},
         remove_order_entry(KeyOf[o]), UNCHANGED exch
  PROVE  /\ open_orders[KeyOf[o]] \in {NoOrder, o}
         /\ \A p \in Orders : open_orders'[KeyOf[p]] = p => open_orders[KeyOf[p]] = p
         /\ Tracked'
<1> USE OpenOrdersAssumption
<1>1. open_orders \in [Keys -> Orders \cup {NoOrder}]
  BY DEF IInv, TypeOK
<1>2. open_orders[KeyOf[o]] \in {NoOrder, o}
  <2>1. ASSUME open_orders[KeyOf[o]] # NoOrder PROVE open_orders[KeyOf[o]] = o
    <3> DEFINE p == open_orders[KeyOf[o]]
    <3>1. p \in Orders /\ KeyOf[p] = KeyOf[o]
      BY <1>1, <2>1 DEF IInv, EntriesAtOwnKey
    <3>2. Current(p)
      BY <3>1 DEF Current
    <3> QED
      BY <3>1, <3>2 DEF SettledInv, OneAtAKey
  <2> QED
    BY <2>1
<1>3. \A p \in Orders : open_orders'[KeyOf[p]] = p => open_orders[KeyOf[p]] = p
  BY <1>1 DEF remove_order_entry
<1>4. ASSUME NEW p \in Orders, exch'[p] \in {"inbound", "live"}
      PROVE  open_orders'[KeyOf[p]] = p
  <2>1. open_orders[KeyOf[p]] = p /\ p # o
    BY <1>4 DEF SettledInv, Tracked
  <2>2. KeyOf[p] # KeyOf[o]
    BY <1>2, <2>1
  <2> QED
    BY <1>1, <2>1, <2>2 DEF remove_order_entry
<1> QED
  BY <1>2, <1>3, <1>4 DEF Tracked

LEMMA PostReturnsKeeps ==
  ASSUME IInv, SettledInv, NEW o \in Orders, PostReturns(o)
  PROVE  SettledInv'
<1> USE DEF cancel_vars, exch_vars
<1>1. /\ post \in [Orders -> PostState] /\ id \in [Orders -> Orders \cup {NoOrder}]
  BY DEF IInv, TypeOK
<1>2. /\ UNCHANGED <<cancel_pc, cancel_order, cancel_id, user_events, exch>>
      /\ post' = [post EXCEPT ![o] = "done"]
  BY DEF PostReturns
<1>3. EventsSound' /\ EndIsLast'
  BY <1>2, EventsStay
<1>4. /\ \A p \in Orders : open_orders'[KeyOf[p]] = p => open_orders[KeyOf[p]] = p
      /\ Tracked'
      /\ \A p \in Orders : id'[p] \in {NoOrder, p}
      /\ exch[o] \notin {"none", "inbound"}
  <2>1. CASE post[o] = "ok" /\ set_id(o, o) /\ UNCHANGED open_orders
    BY <1>1, <1>2, <2>1 DEF set_id, SettledInv, OwnIds, Tracked, PostsAnswered
  <2>2. CASE post[o] = "err" /\ remove_order_entry(KeyOf[o]) /\ UNCHANGED id
    <3>1. exch[o] = "rejected" /\ Current(o)
      BY <2>2 DEF SettledInv, PostsAnswered, Current
    <3>2. \A p \in Orders : id'[p] \in {NoOrder, p}
      BY <2>2 DEF SettledInv, OwnIds
    <3> QED
      BY <1>2, <2>2, <3>1, <3>2, RemovesItsOwn
  <2> QED
    BY <2>1, <2>2 DEF PostReturns
<1>5. OneAtAKey'
  BY <1>1, <1>2, <1>4, CurrentShrinks DEF SettledInv, Current
<1>6. PostsAnswered'
  BY <1>1, <1>2, <1>4 DEF SettledInv, PostsAnswered
<1>7. OwnIds'
  BY <1>2, <1>4 DEF SettledInv, OwnIds
<1> QED
  BY <1>3, <1>4, <1>5, <1>6, <1>7 DEF SettledInv

LEMMA ExchangeKeeps ==
  ASSUME IInv, SettledInv, Answered, NEW o \in Orders, Exchange(o)
  PROVE  SettledInv'
<1> USE DEF cancel_vars, local_vars
<1>1. /\ exch \in [Orders -> ExchState] /\ post \in [Orders -> PostState]
      /\ exch_filled \in [Orders -> 0..MaxPartial] /\ exch_filled' \in [Orders -> 0..MaxPartial]
      /\ KeyOf \in [Orders -> Keys]
  BY StepKeepsIInv, OpenOrdersAssumption DEF IInv, TypeOK, Next
<1>2. CASE ExchReject(o)
  BY <1>2, RejectKeeps
<1>3. ASSUME NEW type \in EventType, NEW s \in {"live", "filled", "canceled"},
             exch[o] \in {"inbound", "live"}, exch' = [exch EXCEPT ![o] = s],
             type \in EndOfOrder => s # "live",
             Emit(type, o, KeyOf[o]),
             post' = [post EXCEPT ![o] = IF @ = "waiting" THEN "ok" ELSE @],
             UNCHANGED <<open_orders, id, cancel_pc, cancel_order, cancel_id>>
      PROVE  SettledInv'
  <2> DEFINE e == Message(type, o, KeyOf[o])
  <2>2. e \in Event /\ e.id = o /\ e.key = KeyOf[o] /\ e.type = type
    BY <1>1 DEF Event, Message
  <2>3. user_events' \in {user_events, Append(user_events, e)}
    BY <1>3 DEF Emit
  <2> HIDE DEF e
  <2> QED
    BY <1>3, <2>2, <2>3, AnnounceKeeps
<1>4. CASE ExchAccept(o)
  <2>1. post' = [post EXCEPT ![o] = IF @ = "waiting" THEN "ok" ELSE @]
    BY <1>1, <1>4 DEF ExchAccept, Rests, Answer
  <2> QED
    BY <1>3, <1>4, <2>1 DEF ExchAccept, Rests, EventType, EndOfOrder
<1>5. ASSUME NEW k \in Keys, ExchTake(o, k)
      PROVE  SettledInv'
  <2>1. post' = [post EXCEPT ![o] = IF @ = "waiting" THEN "ok" ELSE @]
    BY <1>1, <1>5 DEF ExchTake, Answer
  <2>2. k = KeyOf[o]
    BY <1>5 DEF ExchTake, Answered
  <2> QED
    BY <1>3, <1>5, <2>1, <2>2 DEF ExchTake, EventType, EndOfOrder
<1>6. ASSUME exch[o] = "live"
      PROVE  post = [post EXCEPT ![o] = IF @ = "waiting" THEN "ok" ELSE @]
  BY <1>1, <1>6 DEF SettledInv, PostsAnswered
<1>7. CASE ExchPartialFill(o)
  <2>1. exch' = [exch EXCEPT ![o] = "live"]
    BY <1>1, <1>7 DEF ExchPartialFill
  <2> QED
    BY <1>3, <1>6, <1>7, <2>1 DEF ExchPartialFill, EventType, EndOfOrder
<1>8. CASE ExchFill(o)
  BY <1>3, <1>6, <1>8 DEF ExchFill, EventType, EndOfOrder
<1>9. CASE ExchWithdraw(o)
  BY <1>3, <1>6, <1>9 DEF ExchWithdraw, EventType, EndOfOrder
<1> QED
  BY <1>2, <1>4, <1>5, <1>7, <1>8, <1>9 DEF Exchange, ExchTakePart, Answered

\* A call of cancel_limit_order, up to its request.
LEMMA CancelCallKeeps ==
  ASSUME IInv, SettledInv, NEW c \in CancelTasks, CancelCall(c)
  PROVE  SettledInv'
<1> USE OpenOrdersAssumption DEF exch_vars, local_vars
<1>1. /\ open_orders \in [Keys -> Orders \cup {NoOrder}]
      /\ id \in [Orders -> Orders \cup {NoOrder}]
      /\ cancel_order \in [CancelTasks -> Orders \cup {NoOrder}]
      /\ cancel_id \in [CancelTasks -> Orders \cup {NoOrder}]
      /\ cancel_pc \in [CancelTasks -> CancelPC]
  BY DEF IInv, TypeOK
<1>2. UNCHANGED <<open_orders, id, post, user_events, exch>>
  BY DEF CancelCall, CancelLookup, CancelWithoutId, CancelSend
<1>3. EventsSound' /\ EndIsLast'
  BY <1>2, EventsStay
<1>4. PostsAnswered' /\ Tracked'
  BY <1>2 DEF SettledInv, PostsAnswered, Tracked
<1>5. ASSUME NEW d \in CancelTasks, cancel_order'[d] # cancel_order[d]
      PROVE  \/ cancel_order'[d] = NoOrder
             \/ \E k \in Keys : open_orders[k] # NoOrder /\ cancel_order'[d] = open_orders[k]
  BY <1>1, <1>5 DEF CancelCall, CancelLookup, CancelWithoutId, CancelSend, task_ends
<1>6. OneAtAKey'
  <2>1. ASSUME NEW p \in Orders, Current(p)' PROVE Current(p)
    <3>1. ASSUME NEW d \in CancelTasks, cancel_order'[d] = p PROVE Current(p)
      <4>1. CASE cancel_order'[d] = cancel_order[d]
        BY <3>1, <4>1 DEF Current
      <4>2. ASSUME NEW k \in Keys, open_orders[k] = p PROVE Current(p)
        <5>1. KeyOf[p] = k
          BY <4>2 DEF IInv, EntriesAtOwnKey
        <5> QED
          BY <4>2, <5>1 DEF Current
      <4> QED
        BY <1>5, <3>1, <4>1, <4>2
    <3> QED
      BY <1>2, <2>1, <3>1 DEF Current
  <2> QED
    BY <2>1, CurrentShrinks DEF SettledInv
<1>7. OwnIds'
  <2>1. \A p \in Orders : id'[p] \in {NoOrder, p}
    BY <1>2 DEF SettledInv, OwnIds
  <2>2. ASSUME NEW d \in CancelTasks
        PROVE  /\ cancel_pc'[d] \in InFlight => cancel_id'[d] = cancel_order'[d]
               /\ cancel_pc'[d] = "canceled" => exch'[cancel_order'[d]] = "canceled"
    <3>1. /\ cancel_pc[d] \in InFlight => cancel_id[d] = cancel_order[d]
          /\ cancel_pc[d] = "canceled" => exch[cancel_order[d]] = "canceled"
      BY DEF SettledInv, OwnIds
    <3>2. CASE UNCHANGED <<cancel_pc[d], cancel_order[d], cancel_id[d]>>
      BY <1>2, <3>1, <3>2
    <3>3. CASE cancel_pc'[d] \in {"found", "idle"}
      BY <3>3 DEF InFlight
    <3>4. CASE d = c /\ CancelSend(c)
      <4>1. cancel_order[c] \in Orders /\ cancel_order' = cancel_order
        BY <1>1, <3>4 DEF IInv, TasksHoldTheirOrder, CancelSend
      <4>2. id[cancel_order[c]] = cancel_order[c]
        BY <3>4, <4>1 DEF SettledInv, OwnIds, CancelSend
      <4>3. cancel_pc'[c] = "sent" /\ cancel_id'[c] = id[cancel_order[c]]
        BY <1>1, <3>4 DEF CancelSend
      <4> QED
        BY <3>4, <4>1, <4>2, <4>3
    <3>5. CASE d = c /\ (CancelWithoutId(c) \/ \E k \in Keys : CancelLookup(c, k))
      <4>1. cancel_pc'[c] \in {"found", "idle"}
        BY <1>1, <3>5 DEF CancelWithoutId, CancelLookup, task_ends
      <4> QED
        BY <3>3, <3>5, <4>1
    <3>6. CASE d # c
      BY <1>1, <3>2, <3>6 DEF CancelCall, CancelLookup, CancelWithoutId, CancelSend, task_ends
    <3> QED
      BY <3>4, <3>5, <3>6 DEF CancelCall
  <2> QED
    BY <2>1, <2>2 DEF OwnIds
<1> QED
  BY <1>3, <1>4, <1>6, <1>7 DEF SettledInv

LEMMA CancelAnswerKeeps ==
  ASSUME IInv, SettledInv, Answered, NEW c \in CancelTasks, CancelAnswer(c)
  PROVE  SettledInv'
<1> USE DEF exch_vars, local_vars
<1>1. /\ exch \in [Orders -> ExchState] /\ post \in [Orders -> PostState]
      /\ exch_filled \in [Orders -> 0..MaxPartial]
      /\ cancel_pc \in [CancelTasks -> CancelPC]
      /\ cancel_id \in [CancelTasks -> Orders \cup {NoOrder}]
      /\ KeyOf \in [Orders -> Keys]
  BY OpenOrdersAssumption DEF IInv, TypeOK
<1>2. CASE ExchCancel(c)
  <2>1. PICK o \in Orders : o = cancel_id[c]
    BY <1>1, <1>2 DEF IInv, TasksHoldTheirOrder, InFlight, ExchCancel
  <2> DEFINE e == Message("CANCELLATION", o, KeyOf[o])
  <2>2. e \in Event /\ e.id = o /\ e.key = KeyOf[o] /\ e.type = "CANCELLATION"
    BY <1>1, <1>2 DEF Event, EventType, Message, ExchCancel
  <2>3. user_events' \in {user_events, Append(user_events, e)}
    BY <1>2, <2>1 DEF Emit, ExchCancel
  <2> HIDE DEF e
  <2>4. post' = [post EXCEPT ![o] = IF @ = "waiting" THEN "ok" ELSE @]
    BY <1>1, <1>2, <2>1 DEF ExchCancel, SettledInv, PostsAnswered
  <2>5. /\ exch[o] = "live" /\ exch' = [exch EXCEPT ![o] = "canceled"]
        /\ UNCHANGED <<open_orders, id, cancel_order, cancel_id>>
        /\ cancel_pc[c] = "sent" /\ cancel_pc' = [cancel_pc EXCEPT ![c] = "canceled"]
    BY <1>2, <2>1 DEF ExchCancel
  <2>6. \A d \in CancelTasks :
          \/ cancel_pc'[d] = cancel_pc[d]
          \/ cancel_pc[d] = "sent" /\ cancel_pc'[d] = "canceled" /\ cancel_id[d] = o
    BY ONLY <1>1, <2>1, <2>5
  <2>7. /\ exch[o] \in {"inbound", "live"} /\ "canceled" # "live"
        /\ \A d \in CancelTasks :
             \/ cancel_pc'[d] = cancel_pc[d]
             \/ cancel_pc[d] = "sent" /\ cancel_pc'[d] = "canceled"
                /\ cancel_id[d] = o /\ "canceled" = "canceled"
    BY <2>5, <2>6
  <2> QED
    BY <2>2, <2>3, <2>4, <2>5, <2>7, AnnounceKeeps
<1>3. CASE ExchRefuseCancel(c)
  <2>1. /\ UNCHANGED <<open_orders, id, post, user_events, exch, cancel_order, cancel_id>>
        /\ cancel_pc[c] = "sent" /\ cancel_pc' = [cancel_pc EXCEPT ![c] = "refused"]
    BY <1>3 DEF ExchRefuseCancel
  <2>2. EventsSound' /\ EndIsLast'
    BY <2>1, EventsStay
  <2>3. OneAtAKey' /\ PostsAnswered' /\ Tracked'
    BY <2>1, CurrentShrinks DEF SettledInv, Current, PostsAnswered, Tracked
  <2>4. OwnIds'
    BY <1>1, <2>1 DEF SettledInv, OwnIds, InFlight
  <2> QED
    BY <2>2, <2>3, <2>4 DEF SettledInv
<1> QED
  BY <1>2, <1>3 DEF CancelAnswer, CancelFault, Answered

LEMMA CancelReturnsKeeps ==
  ASSUME IInv, SettledInv, NEW c \in CancelTasks, CancelReturns(c)
  PROVE  SettledInv'
<1> USE DEF exch_vars
<1>1. /\ cancel_order \in [CancelTasks -> Orders \cup {NoOrder}]
      /\ cancel_id \in [CancelTasks -> Orders \cup {NoOrder}]
      /\ cancel_pc \in [CancelTasks -> CancelPC]
  BY DEF IInv, TypeOK
<1>2. /\ UNCHANGED <<id, post, user_events, exch>>
      /\ cancel_pc' = [cancel_pc EXCEPT ![c] = "idle"]
      /\ cancel_order' = [cancel_order EXCEPT ![c] = NoOrder]
      /\ cancel_id' = [cancel_id EXCEPT ![c] = NoOrder]
  BY DEF CancelReturns, task_ends
<1>3. EventsSound' /\ EndIsLast'
  BY <1>2, EventsStay
<1>4. /\ \A p \in Orders : open_orders'[KeyOf[p]] = p => open_orders[KeyOf[p]] = p
      /\ Tracked'
  <2>1. CASE UNCHANGED open_orders
    BY <1>2, <2>1 DEF SettledInv, Tracked
  <2>2. CASE cancel_pc[c] = "canceled" /\ remove_order_entry(KeyOf[cancel_order[c]])
    <3>1. PICK o \in Orders : o = cancel_order[c]
      BY <1>1, <2>2 DEF IInv, TasksHoldTheirOrder
    <3>2. Current(o) /\ exch[o] = "canceled"
      BY <2>2, <3>1 DEF SettledInv, OwnIds, Current
    <3> QED
      BY <1>2, <2>2, <3>1, <3>2, RemovesItsOwn
  <2> QED
    BY <2>1, <2>2 DEF CancelReturns
<1>5. OneAtAKey'
  <2>1. ASSUME NEW p \in Orders, Current(p)' PROVE Current(p)
    <3>1. ASSUME NEW d \in CancelTasks, cancel_order'[d] = p PROVE cancel_order[d] = p
      BY <1>1, <1>2, <3>1, OpenOrdersAssumption
    <3> QED
      BY <1>2, <1>4, <2>1, <3>1 DEF Current
  <2> QED
    BY <2>1, CurrentShrinks DEF SettledInv
<1>6. PostsAnswered'
  BY <1>2, <1>4 DEF SettledInv, PostsAnswered
<1>7. OwnIds'
  BY <1>1, <1>2 DEF SettledInv, OwnIds, InFlight
<1> QED
  BY <1>3, <1>4, <1>5, <1>6, <1>7 DEF SettledInv

LEMMA HandleUserEventKeeps ==
  ASSUME IInv, SettledInv, HandleUserEvent
  PROVE  SettledInv'
<1> USE OpenOrdersAssumption DEF cancel_vars, exch_vars
<1>1. PICK e \in Event : e = Head(user_events)
  BY QueueTail DEF HandleUserEvent, IInv, TypeOK
<1>2. /\ UNCHANGED <<post, cancel_pc, cancel_order, cancel_id, exch>>
      /\ user_placement(e) \/ user_update_live(e) \/ user_end_of_order(e)
  BY <1>1 DEF HandleUserEvent
<1>3. /\ Len(user_events) \in Nat \ {0} /\ Len(user_events') = Len(user_events) - 1
      /\ user_events[1] = e
      /\ \A i \in 1..Len(user_events') :
           user_events'[i] = user_events[i + 1] /\ i + 1 \in 1..Len(user_events)
  BY <1>1, QueueTail DEF HandleUserEvent, IInv, TypeOK
<1>4. e.type \in EventType /\ e.id \in Orders /\ e.key \in Keys
  BY EventFields
<1>5. EventOk(e, exch) /\ Current(e.id)
  BY <1>3, <1>4 DEF SettledInv, EventsSound, Current
<1>6. EventsSound'
  BY <1>2, <1>3 DEF SettledInv, EventsSound
<1>7. EndIsLast'
  <2>1. ASSUME NEW i \in 1..Len(user_events'), NEW j \in 1..Len(user_events'),
               i < j, user_events'[i].type \in EndOfOrder
        PROVE  user_events'[j].id # user_events'[i].id
    <3>1. user_events'[i] = user_events[i + 1] /\ i + 1 \in 1..Len(user_events)
      BY <1>3
    <3>2. user_events'[j] = user_events[j + 1] /\ j + 1 \in 1..Len(user_events)
      BY <1>3
    <3>3. i + 1 < j + 1
      BY <1>3, <2>1
    <3> QED
      BY <2>1, <3>1, <3>2, <3>3 DEF SettledInv, EndIsLast
  <2> QED
    BY <2>1 DEF EndIsLast
<1>8. /\ \A p \in Orders : open_orders'[KeyOf[p]] = p => open_orders[KeyOf[p]] = p
      /\ Tracked'
  <2>1. CASE UNCHANGED open_orders
    BY <1>2, <2>1 DEF SettledInv, Tracked
  <2>2. CASE user_end_of_order(e)
    <3>1. exch[e.id] \in {"filled", "canceled"} /\ remove_order_entry(KeyOf[e.id])
      BY <1>5, <2>2 DEF user_end_of_order, EventOk
    <3> QED
      BY <1>2, <1>4, <1>5, <3>1, RemovesItsOwn
  <2> QED
    BY <1>2, <2>1, <2>2 DEF user_placement, user_update_live
<1>9. OneAtAKey'
  <2>1. ASSUME NEW p \in Orders, Current(p)' PROVE Current(p)
    <3>1. ASSUME NEW i \in 1..Len(user_events'), user_events'[i].id = p
          PROVE  \E j \in 1..Len(user_events) : user_events[j].id = p
      BY <1>3, <3>1
    <3> QED
      BY <1>2, <1>8, <2>1, <3>1 DEF Current
  <2> QED
    BY <2>1, CurrentShrinks DEF SettledInv
<1>10. PostsAnswered'
  BY <1>2, <1>8 DEF SettledInv, PostsAnswered
<1>11. \A p \in Orders : id'[p] \in {NoOrder, p}
  <2>1. CASE UNCHANGED id
    BY <2>1 DEF SettledInv, OwnIds
  <2>2. CASE open_orders[e.key] # NoOrder /\ set_id(open_orders[e.key], e.id)
    <3> DEFINE o == open_orders[e.key]
    <3>1. o \in Orders /\ KeyOf[o] = e.key
      BY <1>4, <2>2 DEF IInv, TypeOK, EntriesAtOwnKey
    <3>2. Current(o) /\ KeyOf[e.id] = KeyOf[o]
      BY <1>5, <3>1 DEF Current, EventOk
    <3>3. o = e.id
      BY <1>4, <1>5, <3>1, <3>2 DEF SettledInv, OneAtAKey
    <3>4. id' = [id EXCEPT ![e.id] = e.id]
      BY <2>2, <3>3 DEF set_id
    <3> QED
      BY <3>4 DEF SettledInv, OwnIds, IInv, TypeOK
  <2> QED
    BY <1>2, <2>1, <2>2 DEF user_placement, user_update_live, user_end_of_order
<1>12. OwnIds'
  BY <1>2, <1>11 DEF SettledInv, OwnIds
<1> QED
  BY <1>6, <1>7, <1>8, <1>9, <1>10, <1>12 DEF SettledInv

LEMMA InitSettled == Init => SettledInv
<1> SUFFICES ASSUME Init PROVE SettledInv
  OBVIOUS
<1>1. Len(user_events) = 0 /\ \A o \in Orders : ~Current(o)
  BY OpenOrdersAssumption DEF Init, Current
<1>2. EventsSound /\ EndIsLast
  BY <1>1 DEF EventsSound, EndIsLast
<1>3. OneAtAKey /\ PostsAnswered /\ OwnIds /\ Tracked
  BY <1>1, OpenOrdersAssumption
     DEF Init, OneAtAKey, PostsAnswered, OwnIds, Tracked, InFlight
<1> QED
  BY <1>2, <1>3 DEF SettledInv

LEMMA StepKeepsSettled ==
  ASSUME Answered, IInv, SettledInv, [PatientNext]_vars
  PROVE  SettledInv'
<1>1. ASSUME NEW o \in Orders, Place(o), PatientNext
      PROVE  SettledInv'
  BY <1>1, PlaceKeeps, PlaceZeroKeeps DEF Place, PatientNext
<1>2. ASSUME NEW o \in Orders, PostReturns(o) \/ Exchange(o)
      PROVE  SettledInv'
  BY <1>2, PostReturnsKeeps, ExchangeKeeps
<1>3. ASSUME NEW c \in CancelTasks, CancelCall(c) \/ CancelAnswer(c) \/ CancelReturns(c)
      PROVE  SettledInv'
  BY <1>3, CancelCallKeeps, CancelAnswerKeeps, CancelReturnsKeeps
<1>4. ASSUME UNCHANGED vars
      PROVE  SettledInv'
  <2>1. UNCHANGED <<open_orders, id, post, cancel_pc, cancel_order, cancel_id,
                    user_events, exch>>
    BY <1>4 DEF vars, local_vars, cancel_vars, exch_vars
  <2> QED
    BY <2>1, EventsStay DEF SettledInv, OneAtAKey, Current, PostsAnswered,
       OwnIds, Tracked
<1> QED
  BY <1>1, <1>2, <1>3, <1>4, HandleUserEventKeeps DEF PatientNext, Next, PostTimeout, Answered

-----------------------------------------------------------------------------
(* What has still to be told                                               *)

\* No message of the user channel is lost.
Told == "loss" \notin Faults

\* An entry whose order has ended is about to be removed.
EndTold ==
  \A o \in Orders : open_orders[KeyOf[o]] = o =>
    \/ exch[o] \in {"inbound", "live"}
    \/ post[o] = "err"
    \/ \E i \in 1..Len(user_events) :
         user_events[i].id = o /\ user_events[i].type \in EndOfOrder

\* A live order has its id, or its post's answer is there.
Confirmed ==
  \A o \in Orders : exch[o] = "live" => post[o] = "ok" \/ id[o] = o

IsFillOf(e, o) == e.type = "UPDATE_LIVE" /\ e.id = o

\* An object with this size will have read that one when all of q is handled.
Reads(q, o, size, size2) ==
  /\ \A i \in 1..Len(q) :
       (IsFillOf(q[i], o) /\ \A j \in (i + 1)..Len(q) : ~IsFillOf(q[j], o))
          => q[i].size_matched = size2
  /\ (\A i \in 1..Len(q) : ~IsFillOf(q[i], o)) => size = size2

FillsTold ==
  \A o \in Orders :
    /\ exch[o] \in {"none", "inbound", "rejected"} => exch_filled[o] = 0 /\ exch_taken[o] = 0
    /\ exch_taken[o] <= exch_filled[o]
    /\ exch[o] \in {"inbound", "live"} =>
         Reads(user_events, o, size_filled[o], Reported(o))

AgreeInv == EndTold /\ Confirmed /\ FillsTold

-----------------------------------------------------------------------------
(* The fills an order has yet to read                                      *)

LEMMA ReadsNoFill ==
  ASSUME NEW q \in Seq(Event), NEW e \in Event, NEW o, NEW s, NEW n,
         Reads(q, o, s, n), ~IsFillOf(e, o)
  PROVE  Reads(Append(q, e), o, s, n)
<1> DEFINE r == Append(q, e)
<1>1. /\ Len(q) \in Nat /\ Len(r) = Len(q) + 1 /\ r[Len(q) + 1] = e
      /\ \A i \in 1..Len(q) : r[i] = q[i]
  BY QueueAppended
<1> HIDE DEF r
<1>2. ASSUME NEW i \in 1..Len(r), IsFillOf(r[i], o),
             \A j \in (i + 1)..Len(r) : ~IsFillOf(r[j], o)
      PROVE  r[i].size_matched = n
  <2>1. i \in 1..Len(q) /\ r[i] = q[i]
    BY <1>1, <1>2
  <2>2. \A j \in (i + 1)..Len(q) : ~IsFillOf(q[j], o)
    <3>1. ASSUME NEW j \in (i + 1)..Len(q) PROVE ~IsFillOf(q[j], o)
      BY <1>1, <1>2, <2>1
    <3> QED
      BY <3>1
  <2> QED
    BY <1>2, <2>1, <2>2 DEF Reads
<1>3. ASSUME \A i \in 1..Len(r) : ~IsFillOf(r[i], o)
      PROVE  s = n
  <2>1. \A i \in 1..Len(q) : ~IsFillOf(q[i], o)
    BY <1>1, <1>3
  <2> QED
    BY <2>1 DEF Reads
<1> QED
  BY <1>2, <1>3 DEF Reads, r

LEMMA ReadsFill ==
  ASSUME NEW q \in Seq(Event), NEW e \in Event, NEW o, NEW s, IsFillOf(e, o)
  PROVE  Reads(Append(q, e), o, s, e.size_matched)
<1> DEFINE r == Append(q, e)
<1>1. /\ Len(q) \in Nat /\ Len(r) = Len(q) + 1 /\ r[Len(q) + 1] = e
      /\ \A i \in 1..Len(q) : r[i] = q[i]
  BY QueueAppended
<1> HIDE DEF r
<1>2. ASSUME NEW i \in 1..Len(r), \A j \in (i + 1)..Len(r) : ~IsFillOf(r[j], o)
      PROVE  i = Len(q) + 1
  BY <1>1, <1>2
<1>3. Len(q) + 1 \in 1..Len(r)
  BY <1>1
<1> QED
  BY <1>1, <1>2, <1>3 DEF Reads, r

LEMMA ReadsTail ==
  ASSUME NEW q \in Seq(Event), q # <<>>, NEW o, NEW s, NEW s2, NEW n, Reads(q, o, s, n),
         IF IsFillOf(Head(q), o) THEN s2 = Head(q).size_matched ELSE s2 = s
  PROVE  Reads(Tail(q), o, s2, n)
<1> DEFINE r == Tail(q)
<1>1. /\ Len(q) \in Nat \ {0} /\ Len(r) = Len(q) - 1 /\ q[1] = Head(q)
      /\ \A i \in 1..Len(r) : r[i] = q[i + 1]
  BY QueueTail
<1> HIDE DEF r
<1>2. ASSUME NEW i \in 1..Len(r), IsFillOf(r[i], o),
             \A j \in (i + 1)..Len(r) : ~IsFillOf(r[j], o)
      PROVE  r[i].size_matched = n
  <2>1. i + 1 \in 1..Len(q) /\ r[i] = q[i + 1]
    BY <1>1
  <2>2. ASSUME NEW j \in ((i + 1) + 1)..Len(q) PROVE ~IsFillOf(q[j], o)
    <3>1. j - 1 \in (i + 1)..Len(r) /\ j - 1 \in 1..Len(r) /\ (j - 1) + 1 = j
      BY <1>1
    <3>2. r[j - 1] = q[j]
      BY <1>1, <3>1
    <3> QED
      BY <1>2, <3>1, <3>2
  <2> QED
    BY <1>2, <2>1, <2>2 DEF Reads
<1>3. ASSUME \A i \in 1..Len(r) : ~IsFillOf(r[i], o)
      PROVE  s2 = n
  <2>1. ASSUME NEW j \in 2..Len(q) PROVE ~IsFillOf(q[j], o)
    <3>1. j - 1 \in 1..Len(r) /\ (j - 1) + 1 = j
      BY <1>1
    <3>2. r[j - 1] = q[j]
      BY <1>1, <3>1
    <3> QED
      BY <1>3, <3>1, <3>2
  <2>2. CASE IsFillOf(q[1], o)
    <3>1. 1 \in 1..Len(q) /\ \A j \in (1 + 1)..Len(q) : ~IsFillOf(q[j], o)
      BY <1>1, <2>1
    <3>2. q[1].size_matched = n
      BY <2>2, <3>1 DEF Reads
    <3> QED
      BY <1>1, <2>2, <3>2
  <2>3. CASE ~IsFillOf(q[1], o)
    <3>1. ASSUME NEW j \in 1..Len(q) PROVE ~IsFillOf(q[j], o)
      <4>1. j = 1 \/ j \in 2..Len(q)
        BY <1>1
      <4> QED
        BY <2>1, <2>3, <4>1
    <3>2. s = n
      BY <3>1 DEF Reads
    <3> QED
      BY <1>1, <2>3, <3>2
  <2> QED
    BY <2>2, <2>3
<1> QED
  BY <1>2, <1>3 DEF Reads, r

-----------------------------------------------------------------------------
(* The steps, again                                                        *)

\* The exchange accepts, fills or cancels an order, and tells.
LEMMA AnnounceTells ==
  ASSUME IInv, SettledInv, AgreeInv, NEW o \in Orders, NEW s \in {"live", "filled", "canceled"},
         exch[o] \in {"inbound", "live"},
         exch' = [exch EXCEPT ![o] = s],
         NEW e \in Event, e.id = o,
         s # "live" => e.type \in EndOfOrder,
         user_events' = Append(user_events, e),
         UNCHANGED <<open_orders, id, size_filled>>,
         post' = [post EXCEPT ![o] = IF @ = "waiting" THEN "ok" ELSE @],
         \A p \in Orders : p # o =>
           exch_filled'[p] = exch_filled[p] /\ exch_taken'[p] = exch_taken[p],
         exch_taken'[o] <= exch_filled'[o],
         Reported(o)' = IF e.type = "UPDATE_LIVE" THEN e.size_matched ELSE Reported(o)
  PROVE  AgreeInv'
<1>1. /\ exch \in [Orders -> ExchState] /\ post \in [Orders -> PostState]
      /\ user_events \in Seq(Event)
  BY DEF IInv, TypeOK
<1>2. /\ exch'[o] = s
      /\ \A p \in Orders : p # o => exch'[p] = exch[p] /\ post'[p] = post[p]
      /\ post'[o] = IF post[o] = "waiting" THEN "ok" ELSE post[o]
  BY <1>1
<1>3. /\ Len(user_events) \in Nat /\ Len(user_events') = Len(user_events) + 1
      /\ user_events'[Len(user_events) + 1] = e
      /\ \A i \in 1..Len(user_events) : user_events'[i] = user_events[i]
  BY <1>1, QueueAppended
<1>4. EndTold'
  <2>1. ASSUME NEW p \in Orders, NEW i \in 1..Len(user_events),
               user_events[i].id = p, user_events[i].type \in EndOfOrder
        PROVE  \E j \in 1..Len(user_events') :
                 user_events'[j].id = p /\ user_events'[j].type \in EndOfOrder
    BY <1>3, <2>1
  <2>2. s # "live" => \E j \in 1..Len(user_events') :
                 user_events'[j].id = o /\ user_events'[j].type \in EndOfOrder
    BY <1>3
  <2>3. ASSUME NEW p \in Orders, p # o, open_orders'[KeyOf[p]] = p
        PROVE  \/ exch'[p] \in {"inbound", "live"}
               \/ post'[p] = "err"
               \/ \E j \in 1..Len(user_events') :
                    user_events'[j].id = p /\ user_events'[j].type \in EndOfOrder
    BY <1>2, <2>1, <2>3 DEF AgreeInv, EndTold
  <2> QED
    BY <1>2, <2>2, <2>3 DEF EndTold
<1>5. Confirmed'
  BY <1>2 DEF AgreeInv, Confirmed, SettledInv, PostsAnswered
<1>6. FillsTold'
  <2>1. ASSUME NEW p \in Orders, exch'[p] \in {"inbound", "live"}
        PROVE  Reads(user_events', p, size_filled'[p], Reported(p)')
    <3>1. Reads(user_events, p, size_filled[p], Reported(p))
      BY <1>2, <2>1 DEF AgreeInv, FillsTold
    <3>2. p # o => Reported(p)' = Reported(p)
      BY DEF Reported
    <3>3. CASE IsFillOf(e, p)
      <4>1. Reported(p)' = e.size_matched
        BY <3>3 DEF IsFillOf
      <4> QED
        BY <1>1, <3>3, <4>1, ReadsFill
    <3>4. CASE ~IsFillOf(e, p)
      <4>1. Reported(p)' = Reported(p)
        BY <3>2, <3>4 DEF IsFillOf
      <4> QED
        BY <1>1, <3>1, <3>4, <4>1, ReadsNoFill
    <3> QED
      BY <3>3, <3>4
  <2>2. ASSUME NEW p \in Orders
        PROVE  /\ exch'[p] \in {"none", "inbound", "rejected"} =>
                    exch_filled'[p] = 0 /\ exch_taken'[p] = 0
               /\ exch_taken'[p] <= exch_filled'[p]
    BY <1>2 DEF AgreeInv, FillsTold
  <2> QED
    BY <2>1, <2>2 DEF FillsTold
<1> QED
  BY <1>4, <1>5, <1>6 DEF AgreeInv

\* A step of the program or the network that is not about the exchange's orders.
LEMMA LocalTells ==
  ASSUME AgreeInv, UNCHANGED <<user_events, exch, exch_filled, exch_taken, size_filled>>,
         \A p \in Orders : open_orders'[KeyOf[p]] = p =>
           open_orders[KeyOf[p]] = p /\ (post[p] = "err" => post'[p] = "err"),
         \A p \in Orders : post[p] = "ok" => post'[p] = "ok" \/ id'[p] = p,
         \A p \in Orders : id[p] = p => id'[p] = p
  PROVE  AgreeInv'
<1>1. EndTold'
  BY DEF AgreeInv, EndTold
<1>2. Confirmed'
  BY DEF AgreeInv, Confirmed
<1>3. FillsTold'
  BY DEF AgreeInv, FillsTold, Reported
<1> QED
  BY <1>1, <1>2, <1>3 DEF AgreeInv

LEMMA ExchangeTells ==
  ASSUME IInv, SettledInv, AgreeInv, Answered, Told, NEW o \in Orders, Exchange(o)
  PROVE  AgreeInv'
<1> USE DEF cancel_vars, local_vars
<1>1. /\ exch \in [Orders -> ExchState] /\ post \in [Orders -> PostState]
      /\ exch_filled \in [Orders -> 0..MaxPartial] /\ exch_filled' \in [Orders -> 0..MaxPartial]
      /\ KeyOf \in [Orders -> Keys]
  BY StepKeepsIInv, OpenOrdersAssumption DEF IInv, TypeOK, Next
<1>2. CASE ExchReject(o)
  <2>1. /\ post[o] = "waiting" /\ exch[o] = "inbound"
        /\ UNCHANGED <<open_orders, id, user_events, exch_filled, exch_taken, size_filled>>
        /\ exch' = [exch EXCEPT ![o] = "rejected"]
        /\ post' = [post EXCEPT ![o] = "err"]
    BY <1>2 DEF ExchReject, Answer, SettledInv, PostsAnswered
  <2>2. EndTold' /\ Confirmed'
    BY <1>1, <2>1 DEF AgreeInv, EndTold, Confirmed
  <2>3. FillsTold'
    BY <1>1, <2>1 DEF AgreeInv, FillsTold, Reported
  <2> QED
    BY <2>2, <2>3 DEF AgreeInv
<1>3. ASSUME NEW type \in EventType, NEW s \in {"live", "filled", "canceled"},
             exch[o] \in {"inbound", "live"}, exch' = [exch EXCEPT ![o] = s],
             s # "live" => type \in EndOfOrder,
             Emit(type, o, KeyOf[o]),
             post' = [post EXCEPT ![o] = IF @ = "waiting" THEN "ok" ELSE @],
             \A p \in Orders : p # o =>
               exch_filled'[p] = exch_filled[p] /\ exch_taken'[p] = exch_taken[p],
             exch_taken'[o] <= exch_filled'[o],
             Reported(o)' = IF type = "UPDATE_LIVE" THEN exch_filled'[o] ELSE Reported(o),
             UNCHANGED <<open_orders, id, size_filled>>
      PROVE  AgreeInv'
  <2> DEFINE e == Message(type, o, KeyOf[o])
  <2>2. e \in Event /\ e.id = o /\ e.type = type /\ e.size_matched = exch_filled'[o]
    BY <1>1 DEF Event, Message
  <2>3. user_events' = Append(user_events, e)
    BY <1>3 DEF Emit, Told
  <2>4. Reported(o)' = IF e.type = "UPDATE_LIVE" THEN e.size_matched ELSE Reported(o)
    BY <1>3, <2>2
  <2> HIDE DEF e
  <2> QED
    BY <1>3, <2>2, <2>3, <2>4, AnnounceTells
<1>10. exch_taken[o] <= exch_filled[o]
       /\ (exch[o] = "inbound" => exch_filled[o] = 0 /\ exch_taken[o] = 0)
  BY DEF AgreeInv, FillsTold
<1>11. UNCHANGED <<exch_filled, exch_taken>> => Reported(o)' = Reported(o)
  BY DEF Reported
<1>4. CASE ExchAccept(o)
  <2>1. post' = [post EXCEPT ![o] = IF @ = "waiting" THEN "ok" ELSE @]
    BY <1>1, <1>4 DEF ExchAccept, Rests, Answer
  <2>2. PICK part \in 0..MaxPartial : Rests(o, part)
    BY <1>4 DEF ExchAccept
  <2>3. exch_taken \in [Orders -> 0..MaxPartial]
    BY DEF IInv, TypeOK
  <2>4. /\ exch_filled'[o] = part /\ exch_taken'[o] = part
        /\ \A p \in Orders : p # o =>
             exch_filled'[p] = exch_filled[p] /\ exch_taken'[p] = exch_taken[p]
    BY <1>1, <2>2, <2>3 DEF Rests
  <2>5. Reported(o)' = 0 /\ Reported(o) = 0
    BY <1>10, <2>2, <2>4 DEF Reported, Rests
  <2>6. exch_taken'[o] <= exch_filled'[o]
    BY <2>4
  <2>7. Emit("PLACEMENT", o, KeyOf[o])
    BY <1>4 DEF ExchAccept
  <2> QED
    BY <1>3, <2>1, <2>2, <2>4, <2>5, <2>6, <2>7 DEF Rests, EventType
<1>5. ASSUME NEW k \in Keys, ExchTake(o, k)
      PROVE  AgreeInv'
  <2>1. post' = [post EXCEPT ![o] = IF @ = "waiting" THEN "ok" ELSE @]
    BY <1>1, <1>5 DEF ExchTake, Answer
  <2>2. k = KeyOf[o]
    BY <1>5 DEF ExchTake, Answered
  <2> QED
    BY <1>1, <1>3, <1>5, <1>10, <1>11, <2>1, <2>2 DEF ExchTake, EventType, EndOfOrder
<1>6. ASSUME exch[o] = "live"
      PROVE  post = [post EXCEPT ![o] = IF @ = "waiting" THEN "ok" ELSE @]
  BY <1>1, <1>6 DEF SettledInv, PostsAnswered
<1>7. CASE ExchPartialFill(o)
  <2>1. exch' = [exch EXCEPT ![o] = "live"]
    BY <1>1, <1>7 DEF ExchPartialFill
  <2>2. /\ exch_filled' = [exch_filled EXCEPT ![o] = exch_filled[o] + 1]
        /\ UNCHANGED exch_taken
    BY <1>7 DEF ExchPartialFill
  <2>3. /\ exch_filled'[o] = exch_filled[o] + 1
        /\ \A p \in Orders : p # o =>
             exch_filled'[p] = exch_filled[p] /\ exch_taken'[p] = exch_taken[p]
    BY <1>1, <2>2
  <2>4. exch_filled[o] \in Int /\ exch_taken[o] \in Int
    BY <1>1 DEF IInv, TypeOK
  <2>5. Reported(o)' = exch_filled'[o] /\ exch_taken'[o] <= exch_filled'[o]
    BY <1>10, <2>2, <2>3, <2>4 DEF Reported
  <2> QED
    BY <1>3, <1>6, <1>7, <2>1, <2>3, <2>5 DEF ExchPartialFill, EventType
<1>8. CASE ExchFill(o)
  BY <1>1, <1>3, <1>6, <1>8, <1>10, <1>11 DEF ExchFill, EventType, EndOfOrder
<1>9. CASE ExchWithdraw(o)
  BY <1>1, <1>3, <1>6, <1>9, <1>10, <1>11 DEF ExchWithdraw, EventType, EndOfOrder
<1> QED
  BY <1>2, <1>4, <1>5, <1>7, <1>8, <1>9 DEF Exchange, ExchTakePart, Answered

LEMMA PlaceTells ==
  ASSUME IInv, SettledInv, AgreeInv, NEW o \in Orders, Place(o)
  PROVE  AgreeInv'
<1> USE OpenOrdersAssumption DEF local_vars, exch_vars
<1>1. /\ exch \in [Orders -> ExchState] /\ post \in [Orders -> PostState]
      /\ open_orders \in [Keys -> Orders \cup {NoOrder}]
      /\ id \in [Orders -> Orders \cup {NoOrder}]
      /\ size_filled \in [Orders -> 0..MaxPartial]
      /\ user_events \in Seq(Event)
  BY DEF IInv, TypeOK
<1>2. CASE place_zero_amount(o)
  <2>1. \A p \in Orders : post[p] \in {"ok", "err"} => post'[p] = post[p]
    BY <1>1, <1>2 DEF place_zero_amount
  <2> QED
    BY <1>2, <2>1, LocalTells DEF place_zero_amount
<1>3. CASE place_limit_order(o)
  <2>1. /\ post[o] = "none" /\ exch[o] = "none" /\ open_orders[KeyOf[o]] = NoOrder
        /\ UNCHANGED <<user_events, exch_filled, exch_taken>>
        /\ open_orders' = [open_orders EXCEPT ![KeyOf[o]] = o]
        /\ id' = [id EXCEPT ![o] = NoOrder]
        /\ size_filled' = [size_filled EXCEPT ![o] = 0]
        /\ post' = [post EXCEPT ![o] = "waiting"]
        /\ exch' = [exch EXCEPT ![o] = "inbound"]
    BY <1>3 DEF place_limit_order, record_order, SettledInv, PostsAnswered
  <2>2. ASSUME NEW p \in Orders, p # o
        PROVE  /\ open_orders'[KeyOf[p]] = p => open_orders[KeyOf[p]] = p
               /\ exch'[p] = exch[p] /\ post'[p] = post[p] /\ id'[p] = id[p]
               /\ size_filled'[p] = size_filled[p]
    BY <1>1, <2>1, <2>2
  <2>3. exch'[o] = "inbound" /\ size_filled'[o] = 0
    BY <1>1, <2>1
  <2>4. EndTold'
    BY <2>1, <2>2, <2>3 DEF AgreeInv, EndTold
  <2>5. Confirmed'
    BY <2>2, <2>3 DEF AgreeInv, Confirmed
  <2>6. Reads(user_events, o, 0, 0)
    <3>1. ASSUME NEW i \in 1..Len(user_events) PROVE ~IsFillOf(user_events[i], o)
      <4>1. EventOk(user_events[i], exch)
        BY DEF SettledInv, EventsSound
      <4> QED
        BY <2>1, <4>1 DEF EventOk, IsFillOf
    <3> QED
      BY <3>1 DEF Reads
  <2>7. exch_filled[o] = 0 /\ exch_taken[o] = 0
    BY <2>1 DEF AgreeInv, FillsTold
  <2>8. FillsTold'
    <3>0. \A p \in Orders : Reported(p)' = Reported(p)
      BY <2>1 DEF Reported
    <3>1. ASSUME NEW p \in Orders, p # o
          PROVE  /\ exch'[p] \in {"none", "inbound", "rejected"} =>
                      exch_filled'[p] = 0 /\ exch_taken'[p] = 0
                 /\ exch_taken'[p] <= exch_filled'[p]
                 /\ exch'[p] \in {"inbound", "live"} =>
                      Reads(user_events', p, size_filled'[p], Reported(p)')
      BY <2>1, <2>2, <3>0, <3>1 DEF AgreeInv, FillsTold
    <3>2. Reported(o)' = 0 /\ exch_filled'[o] = 0 /\ exch_taken'[o] = 0
      BY <2>1, <2>7 DEF Reported
    <3>3. Reads(user_events', o, size_filled'[o], Reported(o)')
      BY <2>1, <2>3, <2>6, <3>2
    <3>4. exch_taken'[o] <= exch_filled'[o]
      BY <3>2
    <3> QED
      BY <3>1, <3>2, <3>3, <3>4 DEF FillsTold
  <2> QED
    BY <2>4, <2>5, <2>8 DEF AgreeInv
<1> QED
  BY <1>2, <1>3 DEF Place

LEMMA PostReturnsTells ==
  ASSUME IInv, SettledInv, AgreeInv, NEW o \in Orders, PostReturns(o)
  PROVE  AgreeInv'
<1> USE OpenOrdersAssumption DEF exch_vars
<1>1. /\ post \in [Orders -> PostState] /\ id \in [Orders -> Orders \cup {NoOrder}]
      /\ open_orders \in [Keys -> Orders \cup {NoOrder}]
  BY DEF IInv, TypeOK
<1>2. /\ UNCHANGED <<user_events, exch, exch_filled, exch_taken, size_filled>>
      /\ post' = [post EXCEPT ![o] = "done"]
  BY DEF PostReturns
<1>3. CASE post[o] = "ok" /\ set_id(o, o) /\ UNCHANGED open_orders
  BY <1>1, <1>2, <1>3, LocalTells DEF set_id
<1>4. CASE post[o] = "err" /\ remove_order_entry(KeyOf[o]) /\ UNCHANGED id
  BY <1>1, <1>2, <1>4, LocalTells DEF remove_order_entry
<1> QED
  BY <1>3, <1>4 DEF PostReturns

LEMMA CancelTells ==
  ASSUME IInv, SettledInv, AgreeInv, Answered, Told, NEW c \in CancelTasks,
         CancelCall(c) \/ CancelAnswer(c) \/ CancelReturns(c)
  PROVE  AgreeInv'
<1> USE OpenOrdersAssumption DEF exch_vars, local_vars
<1>1. /\ exch \in [Orders -> ExchState] /\ post \in [Orders -> PostState]
      /\ exch_filled \in [Orders -> 0..MaxPartial]
      /\ open_orders \in [Keys -> Orders \cup {NoOrder}]
      /\ cancel_pc \in [CancelTasks -> CancelPC]
      /\ cancel_id \in [CancelTasks -> Orders \cup {NoOrder}]
      /\ cancel_order \in [CancelTasks -> Orders \cup {NoOrder}]
      /\ KeyOf \in [Orders -> Keys]
  BY DEF IInv, TypeOK
<1>2. CASE CancelCall(c) \/ ExchRefuseCancel(c)
  <2>1. UNCHANGED <<user_events, exch, exch_filled, exch_taken, size_filled, open_orders,
                    post, id>>
    BY <1>2 DEF CancelCall, CancelLookup, CancelWithoutId, CancelSend, ExchRefuseCancel
  <2> QED
    BY <2>1, LocalTells
<1>3. CASE CancelReturns(c)
  <2>1. UNCHANGED <<user_events, exch, exch_filled, exch_taken, size_filled, post, id>>
    BY <1>3 DEF CancelReturns
  <2>2. UNCHANGED open_orders \/ remove_order_entry(KeyOf[cancel_order[c]])
    BY <1>3 DEF CancelReturns
  <2>3. cancel_order[c] \in Orders
    BY <1>1, <1>3 DEF CancelReturns, IInv, TasksHoldTheirOrder
  <2>4. \A p \in Orders : open_orders'[KeyOf[p]] = p => open_orders[KeyOf[p]] = p
    BY <1>1, <2>2, <2>3 DEF remove_order_entry
  <2> QED
    BY <2>1, <2>4, LocalTells
<1>4. CASE ExchCancel(c)
  <2>1. PICK o \in Orders : o = cancel_id[c]
    BY <1>1, <1>4 DEF IInv, TasksHoldTheirOrder, InFlight, ExchCancel
  <2> DEFINE e == Message("CANCELLATION", o, KeyOf[o])
  <2>2. e \in Event /\ e.id = o /\ e.type = "CANCELLATION"
    BY <1>1, <1>4 DEF Event, EventType, Message, ExchCancel
  <2>3. user_events' = Append(user_events, e)
    BY <1>4, <2>1 DEF Emit, ExchCancel, Told
  <2> HIDE DEF e
  <2>4. post' = [post EXCEPT ![o] = IF @ = "waiting" THEN "ok" ELSE @]
    BY <1>1, <1>4, <2>1 DEF ExchCancel, SettledInv, PostsAnswered
  <2>5. /\ exch[o] = "live" /\ exch' = [exch EXCEPT ![o] = "canceled"]
        /\ UNCHANGED <<open_orders, id, size_filled, exch_filled, exch_taken>>
    BY <1>4, <2>1 DEF ExchCancel
  <2>6. Reported(o)' = Reported(o) /\ exch_taken'[o] <= exch_filled'[o]
    BY <2>5 DEF Reported, AgreeInv, FillsTold
  <2> QED
    BY <2>2, <2>3, <2>4, <2>5, <2>6, AnnounceTells DEF EndOfOrder
<1> QED
  BY <1>2, <1>3, <1>4 DEF CancelAnswer, CancelFault, Answered

LEMMA HandleUserEventTells ==
  ASSUME IInv, SettledInv, AgreeInv, HandleUserEvent
  PROVE  AgreeInv'
<1> USE OpenOrdersAssumption DEF cancel_vars, exch_vars
<1>1. PICK e \in Event : e = Head(user_events)
  BY QueueTail DEF HandleUserEvent, IInv, TypeOK
<1>2. /\ UNCHANGED <<post, exch, exch_filled, exch_taken>>
      /\ user_placement(e) \/ user_update_live(e) \/ user_end_of_order(e)
      /\ user_events # <<>> /\ user_events' = Tail(user_events)
      /\ user_events \in Seq(Event)
  BY <1>1 DEF HandleUserEvent, IInv, TypeOK
<1>3. /\ Len(user_events) \in Nat \ {0} /\ Len(user_events') = Len(user_events) - 1
      /\ user_events[1] = e
      /\ \A i \in 1..Len(user_events') : user_events'[i] = user_events[i + 1]
  BY <1>1, <1>2, QueueTail
<1>4. /\ e.type \in EventType /\ e.id \in Orders /\ e.key \in Keys
      /\ EventOk(e, exch) /\ Current(e.id)
  BY <1>3, EventFields DEF SettledInv, EventsSound, Current
<1>5. ASSUME open_orders[e.key] # NoOrder
      PROVE  open_orders[e.key] = e.id
  <2> DEFINE o == open_orders[e.key]
  <2>1. o \in Orders /\ KeyOf[o] = e.key
    BY <1>4, <1>5 DEF IInv, TypeOK, EntriesAtOwnKey
  <2>2. Current(o) /\ KeyOf[e.id] = KeyOf[o]
    BY <1>4, <2>1 DEF Current, EventOk
  <2> QED
    BY <1>4, <2>1, <2>2 DEF SettledInv, OneAtAKey
<1>6. /\ open_orders \in [Keys -> Orders \cup {NoOrder}]
      /\ id \in [Orders -> Orders \cup {NoOrder}]
      /\ size_filled \in [Orders -> 0..MaxPartial]
  BY DEF IInv, TypeOK
<1>7. EndTold'
  <2>1. ASSUME NEW p \in Orders, open_orders'[KeyOf[p]] = p
        PROVE  /\ open_orders[KeyOf[p]] = p
               /\ e.type \in EndOfOrder => e.id # p
    <3>1. CASE UNCHANGED open_orders /\ e.type \notin EndOfOrder
      BY <2>1, <3>1
    <3>2. CASE user_end_of_order(e)
      <4>1. e.key = KeyOf[e.id] /\ open_orders' = [open_orders EXCEPT ![e.key] = NoOrder]
        BY <1>4, <3>2 DEF EventOk, user_end_of_order, remove_order_entry
      <4> QED
        BY <1>4, <1>6, <2>1, <4>1
    <3> QED
      BY <1>2, <3>1, <3>2 DEF user_placement, user_update_live, EndOfOrder
  <2>2. ASSUME NEW p \in Orders, NEW i \in 1..Len(user_events),
               user_events[i].id = p, user_events[i].type \in EndOfOrder,
               e.type \in EndOfOrder => e.id # p
        PROVE  \E j \in 1..Len(user_events') :
                 user_events'[j].id = p /\ user_events'[j].type \in EndOfOrder
    <3>1. i # 1
      BY <1>3, <2>2
    <3>2. i - 1 \in 1..Len(user_events') /\ (i - 1) + 1 = i
      BY <1>3, <3>1
    <3>3. user_events'[i - 1] = user_events[i]
      BY <1>3, <3>2
    <3> QED
      BY <2>2, <3>2, <3>3
  <2>3. ASSUME NEW p \in Orders, open_orders'[KeyOf[p]] = p
        PROVE  \/ exch'[p] \in {"inbound", "live"}
               \/ post'[p] = "err"
               \/ \E j \in 1..Len(user_events') :
                    user_events'[j].id = p /\ user_events'[j].type \in EndOfOrder
    <3>1. open_orders[KeyOf[p]] = p /\ (e.type \in EndOfOrder => e.id # p)
      BY <2>1, <2>3
    <3>2. \/ exch[p] \in {"inbound", "live"} \/ post[p] = "err"
          \/ \E i \in 1..Len(user_events) :
               user_events[i].id = p /\ user_events[i].type \in EndOfOrder
      BY <3>1 DEF AgreeInv, EndTold
    <3> QED
      BY <1>2, <2>2, <3>1, <3>2
  <2> QED
    BY <2>3 DEF EndTold
<1>8. Confirmed'
  <2>1. ASSUME NEW p \in Orders, id[p] = p PROVE id'[p] = p
    <3>1. CASE UNCHANGED id
      BY <2>1, <3>1
    <3>2. CASE open_orders[e.key] # NoOrder /\ set_id(open_orders[e.key], e.id)
      <4>1. id' = [id EXCEPT ![e.id] = e.id]
        BY <1>5, <3>2 DEF set_id
      <4> QED
        BY <1>4, <1>6, <2>1, <4>1
    <3> QED
      BY <1>2, <3>1, <3>2 DEF user_placement, user_update_live, user_end_of_order
  <2> QED
    BY <1>2, <2>1 DEF AgreeInv, Confirmed
<1>9. FillsTold'
  <2>1. ASSUME NEW p \in Orders, exch[p] \in {"inbound", "live"}
        PROVE  Reads(user_events', p, size_filled'[p], Reported(p))
    <3>1. Reads(user_events, p, size_filled[p], Reported(p))
      BY <2>1 DEF AgreeInv, FillsTold
    <3>2. open_orders[KeyOf[p]] = p
      BY <2>1 DEF SettledInv, Tracked
    <3>3. IF IsFillOf(e, p) THEN size_filled'[p] = e.size_matched
                            ELSE size_filled'[p] = size_filled[p]
      <4>1. CASE IsFillOf(e, p)
        <5>1. e.id = p /\ open_orders[e.key] = p /\ user_update_live(e)
          BY <1>2, <1>4, <3>2, <4>1 DEF IsFillOf, EventOk, user_placement,
             user_update_live, user_end_of_order, EndOfOrder
        <5>2. size_filled' = [size_filled EXCEPT ![p] = e.size_matched]
          BY <5>1 DEF user_update_live
        <5> QED
          BY <1>6, <4>1, <5>2
      <4>2. CASE ~IsFillOf(e, p)
        <5>1. CASE UNCHANGED size_filled
          BY <4>2, <5>1
        <5>2. CASE user_update_live(e) /\ open_orders[e.key] # NoOrder
          <6>1. e.id # p /\ open_orders[e.key] = e.id
            BY <1>5, <4>2, <5>2 DEF user_update_live, IsFillOf
          <6>2. size_filled' = [size_filled EXCEPT ![e.id] = e.size_matched]
            BY <5>2, <6>1 DEF user_update_live
          <6> QED
            BY <1>6, <4>2, <6>1, <6>2
        <5> QED
          BY <1>2, <5>1, <5>2 DEF user_placement, user_update_live, user_end_of_order
      <4> QED
        BY <4>1, <4>2
    <3> QED
      BY <1>1, <1>2, <3>1, <3>3, ReadsTail
  <2>2. \A p \in Orders : Reported(p)' = Reported(p)
    BY <1>2 DEF Reported
  <2> QED
    BY <1>2, <2>1, <2>2 DEF AgreeInv, FillsTold
<1> QED
  BY <1>7, <1>8, <1>9 DEF AgreeInv

LEMMA InitAgrees == Init => AgreeInv
<1> SUFFICES ASSUME Init PROVE AgreeInv
  OBVIOUS
<1>1. EndTold /\ Confirmed
  BY OpenOrdersAssumption DEF Init, EndTold, Confirmed
<1>2. FillsTold
  BY DEF Init, FillsTold
<1> QED
  BY <1>1, <1>2 DEF AgreeInv

LEMMA StepKeepsAgreement ==
  ASSUME Answered, Told, IInv, SettledInv, AgreeInv, [Next]_vars
  PROVE  AgreeInv'
<1>1. ASSUME NEW o \in Orders, Place(o) \/ PostReturns(o) \/ Exchange(o)
      PROVE  AgreeInv'
  BY <1>1, PlaceTells, PostReturnsTells, ExchangeTells
<1>2. ASSUME NEW c \in CancelTasks, CancelCall(c) \/ CancelAnswer(c) \/ CancelReturns(c)
      PROVE  AgreeInv'
  BY <1>2, CancelTells
<1>3. CASE UNCHANGED vars
  <2>1. UNCHANGED <<user_events, exch, exch_filled, exch_taken, size_filled, open_orders,
                    post, id>>
    BY <1>3 DEF vars, local_vars, exch_vars
  <2> QED
    BY <2>1, LocalTells
<1> QED
  BY <1>1, <1>2, <1>3, HandleUserEventTells DEF Next, PostTimeout, Answered

-----------------------------------------------------------------------------
(* The results                                                             *)

LEMMA SettledIsTracked == SettledInv => LiveIsTracked
  BY DEF SettledInv, Tracked, LiveIsTracked

LEMMA QuietAgrees == IInv /\ SettledInv /\ AgreeInv => QuiescentAgreement
<1> SUFFICES ASSUME IInv, SettledInv, AgreeInv, Quiet, NEW o \in Orders
             PROVE  /\ exch[o] = "live" <=> open_orders[KeyOf[o]] = o
                    /\ exch[o] = "live" => /\ id[o] = o
                                           /\ state[o] = "Live"
                                           /\ size_filled[o] = Reported(o)
  BY DEF QuiescentAgreement
<1> USE OpenOrdersAssumption
<1>1. /\ Len(user_events) = 0 /\ post[o] \in {"none", "done"}
      /\ ~exited /\ \A c \in CancelTasks : cancel_pc[c] = "idle"
  BY DEF Quiet
<1>2. exch[o] # "inbound"
  BY <1>1 DEF SettledInv, PostsAnswered
<1>3. open_orders[KeyOf[o]] = o => exch[o] = "live"
  BY <1>1, <1>2 DEF AgreeInv, EndTold
<1>4. ASSUME exch[o] = "live"
      PROVE  /\ open_orders[KeyOf[o]] = o /\ id[o] = o /\ state[o] = "Live"
             /\ size_filled[o] = Reported(o)
  <2>1. open_orders[KeyOf[o]] = o
    BY <1>4 DEF SettledInv, Tracked
  <2>2. id[o] = o
    BY <1>1, <1>4 DEF AgreeInv, Confirmed
  <2>3. state[o] # "ToBeCanceled"
    <3>1. KeyOf[o] \in Keys
      OBVIOUS
    <3> QED
      BY <1>1, <2>1, <3>1 DEF IInv, NoStuckCancel, InFlight
  <2>4. state[o] # "Unconfirmed" /\ state[o] \in OrderState
    BY <2>2 DEF IInv, IdIffConfirmed, TypeOK
  <2>5. Reads(user_events, o, size_filled[o], Reported(o))
    BY <1>4 DEF AgreeInv, FillsTold
  <2> QED
    BY <1>1, <2>1, <2>2, <2>3, <2>4, <2>5 DEF OrderState, Reads
<1> QED
  BY <1>3, <1>4

LEMMA PatientIsASpec == PatientSpec => Spec
BY PTL DEF PatientSpec, Spec, PatientNext

\* Of strategies that do not use a key too early, an order that can fill is
\* in the table, if requests are answered in time and trades are reported at
\* their orders' prices - even if messages of the user channel are lost.
THEOREM LiveTracked ==
  ASSUME Answered
  PROVE  PatientSpec => []LiveIsTracked
BY PatientIsASpec, Inductive, InitSettled, StepKeepsSettled, SettledIsTracked, PTL
   DEF PatientSpec

\* If no message is lost either, the table is the exchange's whenever nothing
\* is on its way.
THEOREM Agreement ==
  ASSUME Answered, Told
  PROVE  PatientSpec => []QuiescentAgreement
<1>1. [PatientNext]_vars => [Next]_vars
  BY DEF PatientNext
<1> QED
  BY <1>1, PatientIsASpec, Inductive, InitSettled, StepKeepsSettled, InitAgrees,
     StepKeepsAgreement, QuietAgrees, PTL DEF PatientSpec

-----------------------------------------------------------------------------
(* Steps that place nothing, for the strategies built on this              *)

\* Orders only get on, and entries only go.
Proceeds ==
  /\ \A p \in Orders :
       /\ post'[p] = "none" => post[p] = "none"
       /\ post'[p] \notin {"none", "done"} => post[p] \notin {"none", "done"}
       /\ exch'[p] = "none" <=> exch[p] = "none"
       /\ exch'[p] \in {"inbound", "live"} => exch[p] \in {"inbound", "live"}
       /\ open_orders'[KeyOf[p]] \in {NoOrder, open_orders[KeyOf[p]]}
  /\ exited => exited'

\* Messages only come, and only about orders in the table.
News ==
  /\ Len(user_events') >= Len(user_events)
  /\ \A i \in 1..Len(user_events') :
       \/ i \in 1..Len(user_events) /\ user_events'[i] = user_events[i]
       \/ open_orders'[KeyOf[user_events'[i].id]] = user_events'[i].id

LEMMA EmitIsNews ==
  ASSUME IInv, SettledInv, NEW type, NEW o \in Orders, exch[o] \in {"inbound", "live"},
         NEW k, Emit(type, o, k), UNCHANGED open_orders
  PROVE  News
<1>1. open_orders[KeyOf[o]] = o
  BY DEF SettledInv, Tracked
<1> DEFINE e == Message(type, o, k)
<1>2. user_events' = user_events \/ user_events' = Append(user_events, e)
  BY DEF Emit
<1>3. e.id = o
  BY DEF Message
<1>4. user_events \in Seq(Event) /\ Len(user_events) \in Nat
  BY LenProperties DEF IInv, TypeOK
<1> HIDE DEF e
<1>5. CASE user_events' = Append(user_events, e)
  <2>1. /\ Len(user_events') = Len(user_events) + 1
        /\ user_events'[Len(user_events) + 1] = e
        /\ \A i \in 1..Len(user_events) : user_events'[i] = user_events[i]
    BY <1>4, <1>5
  <2> QED
    BY <1>1, <1>3, <1>4, <2>1 DEF News
<1> QED
  BY <1>2, <1>4, <1>5 DEF News

LEMMA NoNews ==
  ASSUME IInv, UNCHANGED user_events
  PROVE  News
BY LenProperties DEF News, IInv, TypeOK

LEMMA ElsewhereProceeds ==
  ASSUME IInv, SettledInv, Answered, NEW o \in Orders, PostReturns(o) \/ Exchange(o)
  PROVE  Proceeds /\ News
<1> USE OpenOrdersAssumption DEF local_vars, exch_vars
<1>1. /\ exch \in [Orders -> ExchState] /\ post \in [Orders -> PostState]
      /\ open_orders \in [Keys -> Orders \cup {NoOrder}]
  BY DEF IInv, TypeOK
<1>2. CASE PostReturns(o)
  <2>1. UNCHANGED <<exch, user_events, exited>> /\ post' = [post EXCEPT ![o] = "done"]
    BY <1>2 DEF PostReturns
  <2>2. UNCHANGED open_orders \/ remove_order_entry(KeyOf[o])
    BY <1>2 DEF PostReturns
  <2>3. \A p \in Orders : open_orders'[KeyOf[p]] \in {NoOrder, open_orders[KeyOf[p]]}
    BY <1>1, <2>2 DEF remove_order_entry
  <2> QED
    BY <1>1, <2>1, <2>3, NoNews DEF Proceeds
<1>3. CASE Exchange(o)
  <2>1. /\ UNCHANGED <<open_orders, exited>>
        /\ exch' = [exch EXCEPT ![o] = exch'[o]] /\ exch[o] \in {"inbound", "live"}
        /\ exch'[o] # "none"
        /\ \/ post' = post \/ post' = [post EXCEPT ![o] = "ok"]
           \/ post' = [post EXCEPT ![o] = "err"]
        /\ post'[o] # post[o] => post[o] = "waiting"
    BY <1>1, <1>3 DEF Exchange, ExchAccept, ExchTakePart, Rests, ExchReject, ExchTake,
       ExchPartialFill, ExchFill, ExchWithdraw, Answer
  <2>2. Proceeds
    <3>1. ASSUME NEW p \in Orders, p # o
          PROVE  exch'[p] = exch[p] /\ post'[p] = post[p]
      BY <1>1, <2>1, <3>1
    <3> QED
      BY <1>1, <2>1, <3>1 DEF Proceeds
  <2>3. News
    BY <1>3, <2>1, EmitIsNews, NoNews DEF Exchange, ExchAccept, ExchTakePart, Rests,
       ExchReject, ExchTake, ExchPartialFill, ExchFill, ExchWithdraw, Answered
  <2> QED
    BY <2>2, <2>3
<1> QED
  BY <1>2, <1>3

LEMMA CancellingProceeds ==
  ASSUME IInv, SettledInv, Answered, NEW c \in CancelTasks,
         CancelCall(c) \/ CancelAnswer(c) \/ CancelReturns(c)
  PROVE  Proceeds /\ News
<1> USE OpenOrdersAssumption DEF local_vars, exch_vars
<1>1. /\ exch \in [Orders -> ExchState] /\ post \in [Orders -> PostState]
      /\ open_orders \in [Keys -> Orders \cup {NoOrder}]
      /\ cancel_order \in [CancelTasks -> Orders \cup {NoOrder}]
      /\ cancel_id \in [CancelTasks -> Orders \cup {NoOrder}]
  BY DEF IInv, TypeOK
<1>2. UNCHANGED post
  BY DEF CancelCall, CancelLookup, CancelWithoutId, CancelSend, CancelAnswer,
     ExchCancel, ExchRefuseCancel, CancelFault, CancelReturns
<1>3. CASE ExchCancel(c)
  <2>1. PICK o \in Orders : o = cancel_id[c]
    BY <1>1, <1>3 DEF IInv, TasksHoldTheirOrder, InFlight, ExchCancel
  <2>2. /\ UNCHANGED <<open_orders, exited>> /\ exch[o] = "live"
        /\ exch' = [exch EXCEPT ![o] = "canceled"]
        /\ Emit("CANCELLATION", o, KeyOf[o])
    BY <1>3, <2>1 DEF ExchCancel
  <2> QED
    BY <1>1, <1>2, <2>2, EmitIsNews DEF Proceeds
<1>4. CASE CancelCall(c) \/ ExchRefuseCancel(c) \/ CancelReturns(c)
  <2>1. /\ UNCHANGED <<exch, user_events>>
        /\ exited => exited'
        /\ \/ UNCHANGED open_orders
           \/ cancel_order[c] \in Orders /\ remove_order_entry(KeyOf[cancel_order[c]])
    BY <1>1, <1>4 DEF CancelCall, CancelLookup, CancelWithoutId, CancelSend,
       ExchRefuseCancel, CancelReturns, IInv, TasksHoldTheirOrder
  <2>2. \A p \in Orders : open_orders'[KeyOf[p]] \in {NoOrder, open_orders[KeyOf[p]]}
    BY <1>1, <2>1 DEF remove_order_entry
  <2> QED
    BY <1>2, <2>1, <2>2, NoNews DEF Proceeds
<1> QED
  BY <1>3, <1>4 DEF CancelAnswer, CancelFault, Answered

LEMMA HandlingProceeds ==
  ASSUME IInv, HandleUserEvent
  PROVE  Proceeds
<1> USE OpenOrdersAssumption DEF exch_vars
<1>1. open_orders \in [Keys -> Orders \cup {NoOrder}]
  BY DEF IInv, TypeOK
<1>2. UNCHANGED <<post, exch, exited>>
  BY DEF HandleUserEvent
<1>3. PICK e : e = Head(user_events)
  OBVIOUS
<1>4. UNCHANGED open_orders \/ remove_order_entry(e.key)
  BY <1>3 DEF HandleUserEvent, user_placement, user_update_live, user_end_of_order
<1>5. \A p \in Orders : open_orders'[KeyOf[p]] \in {NoOrder, open_orders[KeyOf[p]]}
  BY <1>1, <1>4 DEF remove_order_entry
<1> QED
  BY <1>2, <1>5 DEF Proceeds

\* Nothing but a placement posts an order.
LEMMA OnlyPlacingPosts ==
  ASSUME IInv, NEW p \in Orders, post'[p] = "waiting", post[p] # "waiting",
         \/ \E o \in Orders : PostReturns(o) \/ Exchange(o) \/ PostTimeout(o)
         \/ \E c \in CancelTasks :
              CancelCall(c) \/ CancelAnswer(c) \/ CancelReturns(c)
         \/ HandleUserEvent
  PROVE  FALSE
<1>1. post \in [Orders -> PostState]
  BY DEF IInv, TypeOK
<1>2. ASSUME NEW o \in Orders, PostReturns(o) \/ Exchange(o) \/ PostTimeout(o)
      PROVE  FALSE
  BY <1>1, <1>2 DEF PostReturns, PostTimeout, Exchange, ExchAccept, ExchTakePart, Rests,
     ExchReject, ExchTake, ExchPartialFill, ExchFill, ExchWithdraw, Answer
<1>3. ASSUME NEW c \in CancelTasks, CancelCall(c) \/ CancelAnswer(c) \/ CancelReturns(c)
      PROVE  FALSE
  BY <1>3 DEF CancelCall, CancelLookup, CancelWithoutId, CancelSend,
     CancelAnswer, ExchCancel, ExchRefuseCancel, CancelFault, CancelReturns
<1> QED
  BY <1>2, <1>3 DEF HandleUserEvent
=============================================================================
