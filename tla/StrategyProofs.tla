--------------------------- MODULE StrategyProofs ---------------------------
(***************************************************************************)
(* Proofs about the two strategies that trade through the open orders,     *)
(* each on its own, for every set of assets, keys and orders.              *)
(*                                                                         *)
(* Koen, for every cool-down that is longer than a delayed cancellation    *)
(* can take: the durations alone make the strategy patient, so that it     *)
(* never uses a key while something about an earlier order there is on its *)
(* way (KoenIsPatient).  What OpenOrdersProofs shows of such strategies    *)
(* then holds of this one, and a delayed cancellation finds its own order. *)
(*                                                                         *)
(* Tob: unless a key is used again too early, at most one order of an      *)
(* asset can fill with nothing asked to cancel it, and what is bought and  *)
(* may be stays below three times the target, over what was bought of the  *)
(* other token.  Both rest on what the handler has established between its *)
(* first step and the placement, while tasks and the exchange go on; the   *)
(* second also on how far the position can be behind the fills.            *)
(***************************************************************************)
EXTENDS Koen, Tob, OpenOrdersProofs, FiniteSetTheorems

-----------------------------------------------------------------------------
(*                                KoenStrategy                             *)
-----------------------------------------------------------------------------

\* In the code 60 s, 1 s and 5 s (and two ticks of a second for a message).
Durations == trade_cooldown >= cancel_after + http_timeout + 2

-----------------------------------------------------------------------------
(* The inductive invariant                                                 *)

KoenTypes ==
  /\ last_trade \in [Assets -> Orders \cup {NoOrder}]
  /\ age \in [Orders -> 0..trade_cooldown]
  /\ delayed \in [Orders -> {"none", "asleep", "still_open"}]
  /\ cancel_for \in [CancelTasks -> Orders \cup {NoOrder}]
  /\ late \in 0..Len(user_events)

\* Tasks are on time.
TasksInTime ==
  /\ \A o \in Orders :
       /\ post[o] = "none" => age[o] = 0
       /\ post[o] \notin {"none", "done"} => age[o] <= http_timeout
       /\ delayed[o] # "none" => age[o] <= cancel_after
  /\ \A c \in CancelTasks :
       /\ cancel_pc[c] = "idle" <=> cancel_for[c] = NoOrder
       /\ cancel_pc[c] # "idle" => age[cancel_for[c]] <= cancel_after + http_timeout

\* So are messages about an order without an entry: the entry was taken by
\* the cancellation of the order, and a message is handled by the next tick
\* but one.
InTime(e, x, i) ==
  open_orders[KeyOf[e.id]] # e.id =>
    age[e.id] <= cancel_after + http_timeout + (IF i <= x THEN 1 ELSE 0)
MessagesInTime == \A i \in 1..Len(user_events) : InTime(user_events[i], late, i)

\* last_trade is the youngest order of its asset.
LastIsLast ==
  /\ \A o \in Orders :
       LET q == last_trade[AssetOfOrder(o)] IN
         exch[o] # "none" => q # NoOrder /\ age[q] <= age[o]
  /\ \A a \in Assets : last_trade[a] # NoOrder => exch[last_trade[a]] # "none"

\* Delayed cancellations are of orders that were placed, and answered.
DelayedArePlaced ==
  /\ \A o \in Orders : exch[o] = "none" => delayed[o] = "none"
  /\ \A c \in CancelTasks :
       /\ cancel_for[c] # NoOrder => exch[cancel_for[c]] # "none"
       /\ cancel_pc[c] # "unlisted"

\* While an order's cancellation is still to come, no other has its key.
DelayedOwn ==
  \A o \in Orders : delayed[o] # "none" => open_orders[KeyOf[o]] \in {NoOrder, o}

\* An order that can fill, or still might, is not forgotten.
NotForgotten ==
  \A o \in Orders :
    (~exited /\ exch[o] \in {"inbound", "live"}) =>
      \/ delayed[o] # "none"
      \/ \E c \in CancelTasks : cancel_for[c] = o
      \/ o \in without_id

KoenInv ==
  /\ KoenTypes /\ TasksInTime /\ MessagesInTime /\ LastIsLast
  /\ DelayedArePlaced /\ DelayedOwn /\ NeverCancelsSuccessor /\ NotForgotten

-----------------------------------------------------------------------------
(* The strategy is patient                                                 *)

\* An order of the asset that is not older than a cancellation and its
\* messages can take keeps the strategy away.
LEMMA YoungCools ==
  ASSUME Durations, KoenInv, NEW o \in Orders, NEW p \in Orders,
         KeyOf[p] = KeyOf[o], exch[p] # "none",
         age[p] <= cancel_after + http_timeout + 1
  PROVE  CoolingDown(AssetOfOrder(o))
<1> USE OpenOrdersAssumption, KoenAssumption, OrderAssetsAssumption
<1>1. PICK q : q = last_trade[AssetOfOrder(p)]
  OBVIOUS
<1>2. q # NoOrder /\ age[q] <= age[p]
  BY <1>1 DEF KoenInv, LastIsLast
<1>3. q \in Orders
  BY <1>1, <1>2 DEF KoenInv, KoenTypes, AssetOfOrder
<1>4. age[q] \in Nat /\ age[p] \in Nat
  BY <1>3 DEF KoenInv, KoenTypes
<1>5. AssetOfOrder(o) = AssetOfOrder(p)
  BY DEF AssetOfOrder
<1> QED
  BY <1>1, <1>2, <1>4, <1>5 DEF CoolingDown, Durations

LEMMA CooledDownIsSettled ==
  ASSUME Durations, IInv, SettledInv, KoenInv, NEW o \in Orders,
         open_orders[KeyOf[o]] = NoOrder, ~CoolingDown(AssetOfOrder(o))
  PROVE  ~Unsettled(KeyOf[o])
<1> USE OpenOrdersAssumption, KoenAssumption, OrderAssetsAssumption
<1>1. ASSUME NEW p \in Orders, KeyOf[p] = KeyOf[o], post[p] \notin {"none", "done"}
      PROVE  FALSE
  <2>1. exch[p] # "none" /\ age[p] <= http_timeout /\ age[p] \in Nat
    BY <1>1 DEF SettledInv, PostsAnswered, KoenInv, TasksInTime, KoenTypes
  <2> QED
    BY <1>1, <2>1, YoungCools
<1>2. ASSUME NEW c \in CancelTasks, cancel_order[c] # NoOrder,
             KeyOf[cancel_order[c]] = KeyOf[o]
      PROVE  FALSE
  <2>1. PICK p \in Orders : p = cancel_order[c]
    BY <1>2 DEF IInv, TypeOK
  <2>2. cancel_pc[c] # "idle" /\ cancel_for[c] = p
    BY <1>2, <2>1 DEF IInv, TasksHoldTheirOrder, KoenInv, NeverCancelsSuccessor
  <2>3. /\ exch[p] # "none" /\ age[p] <= cancel_after + http_timeout
        /\ age[p] \in Nat
    BY <2>1, <2>2 DEF KoenInv, TasksInTime, KoenTypes, DelayedArePlaced
  <2> QED
    BY <1>2, <2>1, <2>3, YoungCools
<1>3. ASSUME NEW i \in DOMAIN user_events, user_events[i].key = KeyOf[o]
      PROVE  FALSE
  <2>1. i \in 1..Len(user_events) /\ user_events[i].id \in Orders
    BY LenProperties, ElementOfSeq, EventFields DEF IInv, TypeOK
  <2>2. PICK p \in Orders : p = user_events[i].id
    BY <2>1
  <2>3. EventOk(user_events[i], exch) /\ InTime(user_events[i], late, i)
    BY <2>1 DEF SettledInv, EventsSound, KoenInv, MessagesInTime
  <2>4. KeyOf[p] = KeyOf[o] /\ exch[p] # "none"
    BY <1>3, <2>2, <2>3 DEF EventOk
  <2>5. open_orders[KeyOf[p]] # p /\ age[p] \in Nat
    BY <2>4 DEF KoenInv, KoenTypes
  <2>6. age[p] <= cancel_after + http_timeout + 1
    BY <2>2, <2>3, <2>5 DEF InTime
  <2> QED
    BY <2>4, <2>6, YoungCools
<1> QED
  BY <1>1, <1>2, <1>3 DEF Unsettled

LEMMA KoenStepIsPatient ==
  ASSUME Durations, IInv, SettledInv, KoenInv, [KoenNext]_koen_all_vars
  PROVE  [PatientNext]_vars
<1>1. ASSUME \/ \E o \in Orders : PostReturns(o) \/ Exchange(o) \/ PostTimeout(o)
             \/ \E c \in CancelTasks :
                  CancelCall(c) \/ CancelAnswer(c) \/ CancelReturns(c)
             \/ HandleUserEvent
      PROVE  PatientNext
  <2>1. Next
    BY <1>1 DEF Next
  <2>2. ASSUME NEW p \in Orders, place_limit_order(p) PROVE FALSE
    <3>1. post'[p] = "waiting" /\ post[p] # "waiting"
      BY <2>2 DEF place_limit_order, IInv, TypeOK
    <3> QED
      BY <1>1, <3>1, OnlyPlacingPosts
  <2> QED
    BY <2>1, <2>2 DEF PatientNext
<1>2. ASSUME NEW o \in Orders, koen_handle_market_price_change(o)
      PROVE  PatientNext
  <2>1. Next
    BY <1>2 DEF koen_handle_market_price_change, Next, Place
  <2>2. ASSUME NEW p \in Orders, place_limit_order(p) PROVE ~Unsettled(KeyOf[p])
    <3>1. /\ post[p] = "none" /\ post'[p] = "waiting"
          /\ open_orders[KeyOf[p]] = NoOrder /\ post \in [Orders -> PostState]
      BY <2>2 DEF place_limit_order, record_order, IInv, TypeOK
    <3>2. p = o
      BY <1>2, <3>1 DEF koen_handle_market_price_change, place_limit_order,
         place_zero_amount
    <3>3. ~CoolingDown(AssetOfOrder(p))
      BY <1>2, <3>2 DEF koen_handle_market_price_change
    <3> QED
      BY <3>1, <3>3, CooledDownIsSettled
  <2> QED
    BY <2>1, <2>2 DEF PatientNext
<1>3. ASSUME NEW o \in Orders, WakeUp(o) \/ CancelStale(o)
      PROVE  [PatientNext]_vars
  <2>1. UNCHANGED vars \/ \E c \in CancelTasks : CancelLookup(c, KeyOf[o])
    BY <1>3 DEF WakeUp, CancelStale
  <2>2. ASSUME NEW c \in CancelTasks, CancelLookup(c, KeyOf[o])
        PROVE  PatientNext
    <3>1. KeyOf[o] \in Keys
      BY OpenOrdersAssumption
    <3> QED
      BY <1>1, <2>2, <3>1 DEF CancelCall
  <2> QED
    BY <2>1, <2>2
<1>4. ASSUME NEW o \in Orders, KoenElsewhere(o)
      PROVE  PatientNext
  BY <1>1, <1>4 DEF KoenElsewhere
<1>5. ASSUME NEW c \in CancelTasks, CancelSteps(c)
      PROVE  PatientNext
  BY <1>1, <1>5 DEF CancelSteps, CancelCall
<1>6. CASE KoenUserEvent
  BY <1>1, <1>6 DEF KoenUserEvent
<1>7. CASE Tick \/ UNCHANGED koen_all_vars
  BY <1>7 DEF Tick, koen_all_vars
<1> QED
  BY <1>2, <1>3, <1>4, <1>5, <1>6, <1>7 DEF KoenNext

-----------------------------------------------------------------------------
(* Steps that place nothing and leave the strategy's variables alone       *)

\* What they keep.
LEMMA ProceedingKeeps ==
  ASSUME KoenInv, Proceeds, UNCHANGED <<last_trade, age, delayed>>
  PROVE  /\ \A o \in Orders :
              /\ post'[o] = "none" => age'[o] = 0
              /\ post'[o] \notin {"none", "done"} => age'[o] <= http_timeout
              /\ delayed'[o] # "none" => age'[o] <= cancel_after
         /\ LastIsLast' /\ DelayedOwn'
         /\ \A o \in Orders : exch'[o] = "none" => delayed'[o] = "none"
<1> USE OpenOrdersAssumption, KoenAssumption, OrderAssetsAssumption
<1>1. LastIsLast'
  <2>1. ASSUME NEW a \in Assets, last_trade'[a] # NoOrder
        PROVE  exch'[last_trade'[a]] # "none"
    BY <2>1 DEF KoenInv, LastIsLast, KoenTypes, Proceeds
  <2> QED
    BY <2>1 DEF KoenInv, LastIsLast, Proceeds
<1>2. DelayedOwn'
  BY DEF KoenInv, DelayedOwn, Proceeds
<1> QED
  BY <1>1, <1>2 DEF KoenInv, TasksInTime, DelayedArePlaced, Proceeds

\* Whose entry goes has no messages, or is not old.
LEMMA MessagesKept ==
  ASSUME KoenInv, IInv', News, UNCHANGED <<age, late>>,
         \A p \in Orders : open_orders[KeyOf[p]] = p =>
           \/ open_orders'[KeyOf[p]] = p
           \/ age[p] <= cancel_after + http_timeout
           \/ \A i \in 1..Len(user_events) : user_events[i].id # p
  PROVE  MessagesInTime'
<1> USE KoenAssumption, OrderAssetsAssumption
<1>1. ASSUME NEW i \in 1..Len(user_events')
      PROVE  InTime(user_events[i], late, i)'
  <2>1. user_events'[i].id \in Orders
    BY LenProperties, ElementOfSeq, EventFields DEF IInv, TypeOK
  <2>2. PICK p \in Orders : p = user_events'[i].id
    BY <2>1
  <2>3. SUFFICES ASSUME open_orders'[KeyOf[p]] # p
                 PROVE  age[p] <= cancel_after + http_timeout + (IF i <= late THEN 1 ELSE 0)
    BY <2>2 DEF InTime
  <2>4. i \in 1..Len(user_events) /\ user_events[i].id = p
    BY <2>2, <2>3 DEF News
  <2>5. CASE open_orders[KeyOf[p]] # p
    BY <2>4, <2>5 DEF KoenInv, MessagesInTime, InTime
  <2>6. CASE open_orders[KeyOf[p]] = p
    <3>1. age[p] <= cancel_after + http_timeout
      BY <2>3, <2>4, <2>6
    <3>2. age[p] \in Nat
      BY DEF KoenInv, KoenTypes
    <3> QED
      BY <3>1, <3>2
  <2> QED
    BY <2>5, <2>6
<1> QED
  BY <1>1 DEF MessagesInTime

-----------------------------------------------------------------------------
(* The steps keep the invariant                                            *)

LEMMA PlacingKeepsKoen ==
  ASSUME Answered, Durations, IInv, SettledInv, IInv', KoenInv,
         NEW o \in Orders, koen_handle_market_price_change(o)
  PROVE  KoenInv'
<1> USE OpenOrdersAssumption, KoenAssumption, OrderAssetsAssumption DEF cancel_vars, local_vars, exch_vars
<1>1. /\ post \in [Orders -> PostState] /\ exch \in [Orders -> ExchState]
      /\ open_orders \in [Keys -> Orders \cup {NoOrder}]
      /\ age \in [Orders -> 0..trade_cooldown] /\ UNCHANGED <<age, cancel_for, late, without_id>>
      /\ last_trade \in [Assets -> Orders \cup {NoOrder}]
      /\ delayed \in [Orders -> {"none", "asleep", "still_open"}]
      /\ cancel_for \in [CancelTasks -> Orders \cup {NoOrder}]
  BY DEF IInv, TypeOK, KoenInv, KoenTypes, koen_handle_market_price_change
<1>2. /\ UNCHANGED <<cancel_pc, cancel_order, user_events, exited>>
      /\ post[o] = "none" /\ age[o] = 0 /\ exch[o] = "none" /\ delayed[o] = "none"
  BY DEF koen_handle_market_price_change, place_limit_order, place_zero_amount,
     KoenInv, TasksInTime, DelayedArePlaced, SettledInv, PostsAnswered
<1>3. NeverCancelsSuccessor'
  BY <1>1, <1>2 DEF KoenInv, NeverCancelsSuccessor
<1>4. CASE place_zero_amount(o) /\ UNCHANGED <<last_trade, delayed>>
  <2>1. UNCHANGED <<open_orders, exch>> /\ post' = [post EXCEPT ![o] = "done"]
    BY <1>4 DEF place_zero_amount
  <2>2. KoenTypes'
    BY <1>1, <1>2, <1>4 DEF KoenInv, KoenTypes
  <2>3. TasksInTime'
    BY <1>1, <1>2, <1>4, <2>1 DEF KoenInv, TasksInTime
  <2>4. News
    BY <1>2, NoNews
  <2>5. MessagesInTime'
    BY <1>1, <2>1, <2>4, MessagesKept
  <2>6. LastIsLast' /\ DelayedArePlaced' /\ DelayedOwn'
    BY <1>1, <1>2, <1>4, <2>1 DEF KoenInv, LastIsLast, DelayedArePlaced, DelayedOwn
  <2>7. NotForgotten'
    BY <1>1, <1>2, <1>4, <2>1 DEF KoenInv, NotForgotten
  <2> QED
    BY <1>3, <2>2, <2>3, <2>5, <2>6, <2>7 DEF KoenInv
<1>5. CASE place_limit_order(o) /\ trade(o)
  <2> DEFINE a == AssetOfOrder(o)
  <2>1. /\ open_orders[KeyOf[o]] = NoOrder
        /\ open_orders' = [open_orders EXCEPT ![KeyOf[o]] = o]
        /\ post' = [post EXCEPT ![o] = "waiting"]
        /\ exch' = [exch EXCEPT ![o] = "inbound"]
        /\ last_trade' = [last_trade EXCEPT ![a] = o]
        /\ delayed' = [delayed EXCEPT ![o] = "asleep"]
    BY <1>5 DEF place_limit_order, record_order, trade
  <2>2. /\ exch'[o] = "inbound" /\ delayed'[o] = "asleep" /\ post'[o] = "waiting"
        /\ \A p \in Orders : p # o => /\ exch'[p] = exch[p] /\ post'[p] = post[p]
                                      /\ delayed'[p] = delayed[p]
        /\ \A b \in Assets : last_trade'[b] = IF b = a THEN o ELSE last_trade[b]
    BY <1>1, <2>1
  <2>3. KoenTypes'
    BY <1>1, <1>2, <2>1 DEF KoenInv, KoenTypes
  <2>4. TasksInTime'
    <3>1. ASSUME NEW p \in Orders
          PROVE  /\ post'[p] = "none" => age'[p] = 0
                 /\ post'[p] \notin {"none", "done"} => age'[p] <= http_timeout
                 /\ delayed'[p] # "none" => age'[p] <= cancel_after
      BY <1>1, <1>2, <2>2 DEF KoenInv, TasksInTime
    <3> QED
      BY <1>1, <1>2, <3>1 DEF KoenInv, TasksInTime
  <2>5. MessagesInTime'
    <3>1. \A p \in Orders : open_orders[KeyOf[p]] = p => open_orders'[KeyOf[p]] = p
      BY <1>1, <2>1
    <3>2. News
      BY <1>2, NoNews
    <3> QED
      BY <1>1, <3>1, <3>2, MessagesKept
  <2>6. LastIsLast'
    <3>1. ASSUME NEW p \in Orders, exch'[p] # "none"
          PROVE  /\ last_trade'[AssetOfOrder(p)] # NoOrder
                 /\ age[last_trade'[AssetOfOrder(p)]] <= age[p]
      <4>1. CASE AssetOfOrder(p) = a
        BY <1>1, <1>2, <2>2, <4>1 DEF AssetOfOrder
      <4>2. CASE AssetOfOrder(p) # a
        BY <1>1, <2>2, <3>1, <4>2 DEF KoenInv, LastIsLast, AssetOfOrder
      <4> QED
        BY <4>1, <4>2
    <3>2. ASSUME NEW b \in Assets, last_trade'[b] # NoOrder
          PROVE  exch'[last_trade'[b]] # "none"
      <4>1. CASE b = a
        BY <2>2, <4>1
      <4>2. CASE b # a
        <5>1. last_trade'[b] = last_trade[b] /\ last_trade[b] \in Orders
          BY <1>1, <2>2, <3>2, <4>2
        <5> QED
          BY <2>2, <3>2, <5>1 DEF KoenInv, LastIsLast
      <4> QED
        BY <4>1, <4>2
    <3> QED
      BY <1>1, <3>1, <3>2 DEF LastIsLast
  <2>7. DelayedArePlaced'
    <3>1. ASSUME NEW c \in CancelTasks, cancel_for[c] # NoOrder
          PROVE  exch'[cancel_for[c]] # "none"
      BY <1>1, <2>2, <3>1 DEF KoenInv, DelayedArePlaced
    <3> QED
      BY <1>1, <1>2, <2>2, <3>1 DEF KoenInv, DelayedArePlaced
  <2>8. DelayedOwn'
    <3>1. ASSUME NEW p \in Orders, delayed[p] # "none", p # o
          PROVE  KeyOf[p] # KeyOf[o]
      <4>1. exch[p] # "none" /\ age[p] <= cancel_after /\ age[p] \in Nat
        BY <1>1, <3>1 DEF KoenInv, DelayedArePlaced, TasksInTime
      <4>2. ~CoolingDown(a)
        BY DEF koen_handle_market_price_change
      <4>3. age[p] <= cancel_after + http_timeout + 1
        BY <4>1
      <4> QED
        BY <4>1, <4>2, <4>3, YoungCools
    <3>2. ASSUME NEW p \in Orders, delayed'[p] # "none"
          PROVE  open_orders'[KeyOf[p]] \in {NoOrder, p}
      <4>1. CASE p = o
        BY <1>1, <2>1, <4>1
      <4>2. CASE p # o
        <5>1. open_orders[KeyOf[p]] \in {NoOrder, p} /\ KeyOf[p] # KeyOf[o]
          BY <2>2, <3>1, <3>2, <4>2 DEF KoenInv, DelayedOwn
        <5> QED
          BY <1>1, <2>1, <5>1
      <4> QED
        BY <4>1, <4>2
    <3> QED
      BY <3>2 DEF DelayedOwn
  <2>9. NotForgotten'
    BY <1>1, <1>2, <2>2 DEF KoenInv, NotForgotten
  <2> QED
    BY <1>3, <2>3, <2>4, <2>5, <2>6, <2>7, <2>8, <2>9 DEF KoenInv
<1> QED
  BY <1>4, <1>5 DEF koen_handle_market_price_change

LEMMA WakeUpKeepsKoen ==
  ASSUME IInv, SettledInv, KoenInv, NEW o \in Orders, WakeUp(o)
  PROVE  KoenInv'
<1> USE OpenOrdersAssumption DEF vars, cancel_vars, local_vars, exch_vars
<1>1. /\ UNCHANGED <<open_orders, post, exch, cancel_pc, cancel_order, user_events, exited>>
      /\ UNCHANGED <<last_trade, age, cancel_for, without_id, late>>
      /\ delayed[o] = "asleep"
      /\ delayed' = [delayed EXCEPT
           ![o] = IF order_exists(KeyOf[o]) THEN "still_open" ELSE "none"]
  BY DEF WakeUp
<1>2. delayed \in [Orders -> {"none", "asleep", "still_open"}]
  BY DEF KoenInv, KoenTypes
<1>3. /\ \A p \in Orders : delayed'[p] # "none" => delayed[p] # "none"
      /\ \A p \in Orders : open_orders[KeyOf[p]] = p /\ delayed[p] # "none"
                             => delayed'[p] # "none"
      /\ delayed' \in [Orders -> {"none", "asleep", "still_open"}]
  BY <1>1, <1>2 DEF order_exists
<1>4. KoenTypes'
  BY <1>1, <1>3 DEF KoenInv, KoenTypes
<1>5. TasksInTime'
  BY <1>1, <1>3 DEF KoenInv, TasksInTime
<1>6. MessagesInTime'
  BY <1>1 DEF KoenInv, MessagesInTime, InTime
<1>7. LastIsLast' /\ NeverCancelsSuccessor'
  BY <1>1 DEF KoenInv, LastIsLast, NeverCancelsSuccessor
<1>8. DelayedArePlaced' /\ DelayedOwn'
  BY <1>1, <1>3 DEF KoenInv, DelayedArePlaced, DelayedOwn
<1>9. NotForgotten'
  BY <1>1, <1>3 DEF KoenInv, NotForgotten, SettledInv, Tracked
<1> QED
  BY <1>4, <1>5, <1>6, <1>7, <1>8, <1>9 DEF KoenInv

\* The delayed cancellation finds its own order, or none.
LEMMA CancelStaleKeepsKoen ==
  ASSUME IInv, SettledInv, IInv', KoenInv, NEW o \in Orders, CancelStale(o)
  PROVE  KoenInv'
<1> USE OpenOrdersAssumption, KoenAssumption, OrderAssetsAssumption DEF vars, cancel_vars, local_vars, exch_vars
<1>1. /\ UNCHANGED <<open_orders, post, exch, user_events, exited>>
      /\ UNCHANGED <<last_trade, age, without_id, late>>
      /\ delayed[o] = "still_open" /\ delayed' = [delayed EXCEPT ![o] = "none"]
  BY DEF CancelStale, CancelLookup
<1>2. /\ delayed \in [Orders -> {"none", "asleep", "still_open"}]
      /\ cancel_for \in [CancelTasks -> Orders \cup {NoOrder}]
      /\ age \in [Orders -> 0..trade_cooldown]
      /\ cancel_pc \in [CancelTasks -> CancelPC]
      /\ cancel_order \in [CancelTasks -> Orders \cup {NoOrder}]
  BY DEF KoenInv, KoenTypes, IInv, TypeOK
<1>3. /\ \A p \in Orders : delayed'[p] # "none" => delayed[p] # "none"
      /\ \A p \in Orders : p # o => delayed'[p] = delayed[p]
      /\ delayed' \in [Orders -> {"none", "asleep", "still_open"}]
  BY <1>1, <1>2
<1>4. MessagesInTime' /\ LastIsLast' /\ DelayedOwn'
  BY <1>1, <1>3 DEF KoenInv, MessagesInTime, InTime, LastIsLast, DelayedOwn
<1>5. /\ age[o] <= cancel_after /\ exch[o] # "none" /\ age[o] \in Nat
      /\ open_orders[KeyOf[o]] \in {NoOrder, o}
  BY <1>1, <1>2 DEF KoenInv, TasksInTime, DelayedArePlaced, DelayedOwn
<1>6. ASSUME NEW c \in CancelTasks, CancelLookup(c, KeyOf[o]),
             cancel_for' = [cancel_for EXCEPT ![c] = o]
      PROVE  KoenInv'
  <2>1. /\ cancel_pc[c] = "idle" /\ open_orders[KeyOf[o]] = o
        /\ cancel_pc' = [cancel_pc EXCEPT ![c] = "found"]
        /\ cancel_order' = [cancel_order EXCEPT ![c] = o]
    BY <1>5, <1>6 DEF CancelLookup
  <2>2. /\ cancel_for'[c] = o /\ cancel_pc'[c] = "found" /\ cancel_order'[c] = o
        /\ \A d \in CancelTasks : d # c =>
             UNCHANGED <<cancel_for[d], cancel_pc[d], cancel_order[d]>>
        /\ cancel_for[c] = NoOrder
    BY <1>2, <1>6, <2>1 DEF KoenInv, TasksInTime
  <2>3. KoenTypes'
    BY <1>1, <1>2, <1>3, <1>6 DEF KoenInv, KoenTypes
  <2>4. TasksInTime'
    <3>1. ASSUME NEW d \in CancelTasks
          PROVE  /\ cancel_pc'[d] = "idle" <=> cancel_for'[d] = NoOrder
                 /\ cancel_pc'[d] # "idle" => age'[cancel_for'[d]] <= cancel_after + http_timeout
      <4>1. CASE d = c
        BY <1>1, <1>5, <2>2, <4>1
      <4>2. CASE d # c
        BY <1>1, <2>2, <4>2 DEF KoenInv, TasksInTime
      <4> QED
        BY <4>1, <4>2
    <3> QED
      BY <1>1, <1>3, <3>1 DEF KoenInv, TasksInTime
  <2>5. DelayedArePlaced'
    BY <1>1, <1>3, <1>5, <2>2 DEF KoenInv, DelayedArePlaced
  <2>6. NeverCancelsSuccessor'
    BY <2>2 DEF KoenInv, NeverCancelsSuccessor
  <2>7. NotForgotten'
    <3>1. ASSUME NEW p \in Orders, ~exited, exch[p] \in {"inbound", "live"}
          PROVE  \/ delayed'[p] # "none"
                 \/ \E d \in CancelTasks : cancel_for'[d] = p
                 \/ p \in without_id
      <4>1. \/ delayed[p] # "none" \/ p \in without_id
            \/ \E d \in CancelTasks : cancel_for[d] = p
        BY <3>1 DEF KoenInv, NotForgotten
      <4>2. ASSUME NEW d \in CancelTasks, cancel_for[d] = p
            PROVE  cancel_for'[d] = p
        BY <2>2, <4>2
      <4> QED
        BY <1>3, <2>2, <4>1, <4>2
    <3> QED
      BY <1>1, <3>1 DEF NotForgotten
  <2> QED
    BY <1>4, <2>3, <2>4, <2>5, <2>6, <2>7 DEF KoenInv
<1>7. ASSUME open_orders[KeyOf[o]] = NoOrder, UNCHANGED <<cancel_pc, cancel_order, cancel_for>>
      PROVE  KoenInv'
  <2>1. KoenTypes' /\ NeverCancelsSuccessor'
    BY <1>1, <1>3, <1>7 DEF KoenInv, KoenTypes, NeverCancelsSuccessor
  <2>2. TasksInTime' /\ DelayedArePlaced'
    BY <1>1, <1>3, <1>7 DEF KoenInv, TasksInTime, DelayedArePlaced
  <2>3. NotForgotten'
    BY <1>1, <1>3, <1>7 DEF KoenInv, NotForgotten, SettledInv, Tracked
  <2> QED
    BY <1>4, <2>1, <2>2, <2>3 DEF KoenInv
<1> QED
  BY <1>6, <1>7 DEF CancelStale, order_exists

LEMMA ElsewhereKeepsKoen ==
  ASSUME Answered, IInv, SettledInv, IInv', KoenInv, NEW o \in Orders, KoenElsewhere(o)
  PROVE  KoenInv'
<1> USE OpenOrdersAssumption DEF koen_vars, cancel_vars
<1>1. PostReturns(o) \/ Exchange(o)
  BY DEF KoenElsewhere, PostTimeout, Answered
<1>2. /\ UNCHANGED <<last_trade, age, delayed, cancel_for, without_id, late>>
      /\ UNCHANGED <<cancel_pc, cancel_order>>
  BY <1>1 DEF KoenElsewhere, PostReturns, Exchange, ExchAccept, ExchTakePart, Rests,
     ExchReject, ExchTake, ExchPartialFill, ExchFill, ExchWithdraw
<1>3. Proceeds /\ News
  BY <1>1, ElsewhereProceeds
<1>4. KoenTypes'
  <2>1. Len(user_events) \in Nat /\ Len(user_events') \in Nat
    BY LenProperties DEF IInv, TypeOK
  <2> QED
    BY <1>2, <1>3, <2>1 DEF KoenInv, KoenTypes, News
<1>5. /\ \A p \in Orders :
           /\ post'[p] = "none" => age'[p] = 0
           /\ post'[p] \notin {"none", "done"} => age'[p] <= http_timeout
           /\ delayed'[p] # "none" => age'[p] <= cancel_after
      /\ LastIsLast' /\ DelayedOwn'
      /\ \A p \in Orders : exch'[p] = "none" => delayed'[p] = "none"
  BY <1>2, <1>3, ProceedingKeeps
<1>6. TasksInTime' /\ NeverCancelsSuccessor'
  BY <1>2, <1>5 DEF KoenInv, TasksInTime, NeverCancelsSuccessor
<1>7. DelayedArePlaced'
  <2>1. ASSUME NEW c \in CancelTasks, cancel_for[c] # NoOrder
        PROVE  exch'[cancel_for[c]] # "none"
    BY <1>3, <2>1 DEF KoenInv, KoenTypes, DelayedArePlaced, Proceeds
  <2> QED
    BY <1>2, <1>5, <2>1 DEF KoenInv, DelayedArePlaced
<1>8. NotForgotten'
  BY <1>2, <1>3 DEF KoenInv, NotForgotten, Proceeds
<1>9. MessagesInTime'
  <2>1. ASSUME NEW p \in Orders, open_orders[KeyOf[p]] = p, open_orders'[KeyOf[p]] # p,
               NEW i \in 1..Len(user_events)
        PROVE  user_events[i].id # p
    <3>1. /\ PostReturns(o) /\ post[o] = "err" /\ remove_order_entry(KeyOf[o])
      BY <1>1, <2>1 DEF PostReturns, Exchange, ExchAccept, ExchTakePart, Rests,
         ExchReject, ExchTake, ExchPartialFill, ExchFill, ExchWithdraw, local_vars
    <3>2. KeyOf[p] = KeyOf[o]
      BY <2>1, <3>1 DEF remove_order_entry, IInv, TypeOK
    <3>3. p = o
      BY <2>1, <3>1, <3>2 DEF SettledInv, OneAtAKey, Current
    <3>4. exch[o] = "rejected"
      BY <3>1 DEF SettledInv, PostsAnswered
    <3>5. EventOk(user_events[i], exch)
      BY DEF SettledInv, EventsSound
    <3> QED
      BY <3>3, <3>4, <3>5 DEF EventOk
  <2> QED
    BY <1>2, <1>3, <2>1, MessagesKept
<1> QED
  BY <1>4, <1>5, <1>6, <1>7, <1>8, <1>9 DEF KoenInv

LEMMA CancelStepsKeepKoen ==
  ASSUME Answered, IInv, SettledInv, IInv', KoenInv,
         NEW c \in CancelTasks, CancelSteps(c)
  PROVE  KoenInv'
<1> USE OpenOrdersAssumption, KoenAssumption, OrderAssetsAssumption
<1>1. /\ UNCHANGED <<last_trade, age, delayed, late>>
      /\ cancel_for' = IF cancel_pc'[c] = "idle"
                       THEN [cancel_for EXCEPT ![c] = NoOrder] ELSE cancel_for
      /\ CancelWithoutId(c) \/ CancelSend(c) \/ CancelAnswer(c) \/ CancelReturns(c)
      /\ without_id \subseteq without_id'
  BY DEF CancelSteps
<1>2. /\ cancel_for \in [CancelTasks -> Orders \cup {NoOrder}]
      /\ age \in [Orders -> 0..trade_cooldown]
      /\ cancel_pc \in [CancelTasks -> CancelPC]
      /\ cancel_order \in [CancelTasks -> Orders \cup {NoOrder}]
      /\ open_orders \in [Keys -> Orders \cup {NoOrder}]
  BY DEF KoenInv, KoenTypes, IInv, TypeOK
<1>3. Proceeds /\ News
  BY <1>1, CancellingProceeds DEF CancelCall
<1>4. /\ \A d \in CancelTasks : d # c => /\ cancel_pc'[d] = cancel_pc[d]
                                         /\ cancel_order'[d] = cancel_order[d]
                                         /\ cancel_for'[d] = cancel_for[d]
      /\ cancel_pc[c] # "idle"
      /\ cancel_pc'[c] # "idle" => /\ cancel_for'[c] = cancel_for[c]
                                   /\ cancel_order'[c] = cancel_order[c]
      /\ cancel_pc'[c] = "idle" => cancel_for'[c] = NoOrder
      /\ cancel_pc'[c] # "unlisted"
  <2>1. \A d \in CancelTasks : d # c => /\ cancel_pc'[d] = cancel_pc[d]
                                        /\ cancel_order'[d] = cancel_order[d]
    BY <1>1, <1>2 DEF CancelWithoutId, CancelSend, CancelAnswer, ExchCancel,
       ExchRefuseCancel, CancelFault, CancelReturns, task_ends, Answered
  <2>2. /\ cancel_pc[c] # "idle" /\ cancel_pc'[c] # "unlisted"
        /\ cancel_pc'[c] # "idle" => cancel_order'[c] = cancel_order[c]
    BY <1>1, <1>2 DEF CancelWithoutId, CancelSend, CancelAnswer, ExchCancel,
       ExchRefuseCancel, CancelFault, CancelReturns, task_ends, Answered
  <2>3. /\ \A d \in CancelTasks : d # c => cancel_for'[d] = cancel_for[d]
        /\ cancel_pc'[c] # "idle" => cancel_for'[c] = cancel_for[c]
        /\ cancel_pc'[c] = "idle" => cancel_for'[c] = NoOrder
    BY <1>1, <1>2
  <2> QED
    BY <2>1, <2>2, <2>3
<1>5. PICK o \in Orders : o = cancel_for[c]
  BY <1>2, <1>4 DEF KoenInv, TasksInTime
<1>6. /\ cancel_order[c] = o /\ age[o] <= cancel_after + http_timeout
      /\ exch[o] # "none"
  BY <1>4, <1>5 DEF KoenInv, NeverCancelsSuccessor, TasksInTime, DelayedArePlaced
<1>7. KoenTypes'
  <2>1. Len(user_events) \in Nat /\ Len(user_events') \in Nat
    BY LenProperties DEF IInv, TypeOK
  <2>2. cancel_for' \in [CancelTasks -> Orders \cup {NoOrder}]
    BY <1>1, <1>2
  <2> QED
    BY <1>1, <1>3, <2>1, <2>2 DEF KoenInv, KoenTypes, News
<1>8. /\ \A p \in Orders :
           /\ post'[p] = "none" => age'[p] = 0
           /\ post'[p] \notin {"none", "done"} => age'[p] <= http_timeout
           /\ delayed'[p] # "none" => age'[p] <= cancel_after
      /\ LastIsLast' /\ DelayedOwn'
      /\ \A p \in Orders : exch'[p] = "none" => delayed'[p] = "none"
  BY <1>1, <1>3, ProceedingKeeps
<1>9. TasksInTime'
  <2>1. ASSUME NEW d \in CancelTasks
        PROVE  /\ cancel_pc'[d] = "idle" <=> cancel_for'[d] = NoOrder
               /\ cancel_pc'[d] # "idle" => age'[cancel_for'[d]] <= cancel_after + http_timeout
    <3>1. CASE d = c
      BY <1>1, <1>4, <1>5, <1>6, <3>1
    <3>2. CASE d # c
      BY <1>1, <1>4, <3>2 DEF KoenInv, TasksInTime
    <3> QED
      BY <3>1, <3>2
  <2> QED
    BY <1>8, <2>1 DEF TasksInTime
<1>10. DelayedArePlaced'
  <2>1. ASSUME NEW d \in CancelTasks
        PROVE  /\ cancel_for'[d] # NoOrder => exch'[cancel_for'[d]] # "none"
               /\ cancel_pc'[d] # "unlisted"
    <3>1. /\ cancel_for'[d] # NoOrder => cancel_for'[d] = cancel_for[d]
          /\ cancel_pc'[d] # "unlisted"
      BY <1>4 DEF KoenInv, DelayedArePlaced
    <3> QED
      BY <1>2, <1>3, <3>1 DEF KoenInv, DelayedArePlaced, Proceeds
  <2> QED
    BY <1>8, <2>1 DEF DelayedArePlaced
<1>11. NeverCancelsSuccessor'
  BY <1>4 DEF KoenInv, NeverCancelsSuccessor
<1>12. NotForgotten'
  <2>1. ASSUME NEW p \in Orders, ~exited', exch'[p] \in {"inbound", "live"}
        PROVE  \/ delayed'[p] # "none"
               \/ \E d \in CancelTasks : cancel_for'[d] = p
               \/ p \in without_id'
    <3>1. ~exited /\ exch[p] \in {"inbound", "live"}
      BY <1>3, <2>1 DEF Proceeds
    <3>2. \/ delayed[p] # "none" \/ p \in without_id
          \/ \E d \in CancelTasks : cancel_for[d] = p
      BY <3>1 DEF KoenInv, NotForgotten
    <3>3. ASSUME cancel_for[c] = p, cancel_pc'[c] = "idle"
          PROVE  p \in without_id'
      <4>1. CASE CancelWithoutId(c) /\ without_id' = without_id \cup {cancel_for[c]}
        BY <3>3, <4>1
      <4>2. CASE CancelReturns(c)
        <5>1. cancel_pc[c] \in {"canceled", "refused"}
          BY <4>2 DEF CancelReturns, KoenInv, DelayedArePlaced
        <5>2. cancel_pc[c] # "refused"
          BY <2>1, <4>2 DEF CancelReturns
        <5>3. exch[p] = "canceled"
          BY <1>5, <1>6, <3>3, <5>1, <5>2 DEF SettledInv, OwnIds
        <5> QED
          BY <3>1, <5>3
      <4>3. CASE CancelSend(c) \/ CancelAnswer(c)
        BY <1>2, <3>3, <4>3 DEF CancelSend, CancelAnswer, ExchCancel,
           ExchRefuseCancel, CancelFault
      <4> QED
        BY <4>1, <4>2, <4>3 DEF CancelSteps
    <3>4. ASSUME NEW d \in CancelTasks, cancel_for[d] = p,
                 d # c \/ cancel_pc'[c] # "idle"
          PROVE  cancel_for'[d] = p
      BY <1>4, <3>4
    <3> QED
      BY <1>1, <3>2, <3>3, <3>4
  <2> QED
    BY <2>1 DEF NotForgotten
<1>13. MessagesInTime'
  <2>1. ASSUME NEW p \in Orders, open_orders[KeyOf[p]] = p, open_orders'[KeyOf[p]] # p
        PROVE  age[p] <= cancel_after + http_timeout
    <3>1. remove_order_entry(KeyOf[cancel_order[c]]) /\ CancelReturns(c)
      BY <1>1, <2>1 DEF CancelWithoutId, CancelSend, CancelAnswer, ExchCancel,
         ExchRefuseCancel, CancelFault, CancelReturns, local_vars
    <3>2. KeyOf[p] = KeyOf[o]
      BY <1>2, <1>6, <2>1, <3>1 DEF remove_order_entry
    <3>3. Current(p) /\ Current(o)
      BY <1>6, <2>1 DEF Current
    <3>4. p = o
      BY <3>2, <3>3 DEF SettledInv, OneAtAKey
    <3> QED
      BY <1>6, <3>4
  <2> QED
    BY <1>1, <1>3, <2>1, MessagesKept
<1> QED
  BY <1>7, <1>8, <1>9, <1>10, <1>11, <1>12, <1>13 DEF KoenInv

LEMMA HandleKeepsKoen ==
  ASSUME IInv, SettledInv, IInv', KoenInv, KoenUserEvent
  PROVE  KoenInv'
<1> USE OpenOrdersAssumption, KoenAssumption, OrderAssetsAssumption DEF cancel_vars
<1>1. /\ UNCHANGED <<last_trade, age, delayed, cancel_for, without_id>>
      /\ UNCHANGED <<cancel_pc, cancel_order>> /\ HandleUserEvent
      /\ late' = IF late = 0 THEN 0 ELSE late - 1
  BY DEF KoenUserEvent, HandleUserEvent
<1>2. Proceeds
  BY <1>1, HandlingProceeds
<1>3. PICK e \in Event : e = Head(user_events)
  BY <1>1, QueueTail DEF HandleUserEvent, IInv, TypeOK
<1>4. /\ Len(user_events) \in Nat \ {0} /\ Len(user_events') = Len(user_events) - 1
      /\ user_events[1] = e
      /\ \A i \in 1..Len(user_events') :
           user_events'[i] = user_events[i + 1] /\ i + 1 \in 1..Len(user_events)
  BY <1>1, <1>3, QueueTail DEF HandleUserEvent, IInv, TypeOK
<1>5. KoenTypes'
  BY <1>1, <1>4 DEF KoenInv, KoenTypes
<1>6. /\ \A p \in Orders :
           /\ post'[p] = "none" => age'[p] = 0
           /\ post'[p] \notin {"none", "done"} => age'[p] <= http_timeout
           /\ delayed'[p] # "none" => age'[p] <= cancel_after
      /\ LastIsLast' /\ DelayedOwn'
      /\ \A p \in Orders : exch'[p] = "none" => delayed'[p] = "none"
  BY <1>1, <1>2, ProceedingKeeps
<1>7. TasksInTime' /\ NeverCancelsSuccessor'
  BY <1>1, <1>6 DEF KoenInv, TasksInTime, NeverCancelsSuccessor
<1>8. DelayedArePlaced'
  <2>1. ASSUME NEW c \in CancelTasks, cancel_for[c] # NoOrder
        PROVE  exch'[cancel_for[c]] # "none"
    BY <1>2, <2>1 DEF KoenInv, KoenTypes, DelayedArePlaced, Proceeds
  <2> QED
    BY <1>1, <1>6, <2>1 DEF KoenInv, DelayedArePlaced
<1>9. NotForgotten'
  BY <1>1, <1>2 DEF KoenInv, NotForgotten, Proceeds
<1>10. MessagesInTime'
  <2>1. ASSUME NEW i \in 1..Len(user_events')
        PROVE  InTime(user_events[i], late, i)'
    <3>1. /\ user_events'[i] = user_events[i + 1] /\ i + 1 \in 1..Len(user_events)
          /\ user_events[i + 1].id \in Orders
      BY <1>4, ElementOfSeq, EventFields, LenProperties DEF IInv, TypeOK
    <3>2. PICK p \in Orders : p = user_events[i + 1].id
      BY <3>1
    <3>3. SUFFICES ASSUME open_orders'[KeyOf[p]] # p
                   PROVE  age[p] <= cancel_after + http_timeout + (IF i <= late' THEN 1 ELSE 0)
      BY <1>1, <3>1, <3>2 DEF InTime
    <3>4. open_orders[KeyOf[p]] # p
      <4>1. SUFFICES ASSUME open_orders[KeyOf[p]] = p PROVE FALSE
        OBVIOUS
      <4>2. user_end_of_order(e)
        BY <1>1, <1>3, <3>3, <4>1 DEF HandleUserEvent, user_placement, user_update_live
      <4>3. e.id # p
        BY <1>4, <3>1, <3>2, <4>2 DEF SettledInv, EndIsLast, user_end_of_order
      <4>4. e.key = KeyOf[e.id] /\ e.id \in Orders /\ Current(e.id)
        BY <1>4, EventFields DEF SettledInv, EventsSound, EventOk, Current
      <4>5. KeyOf[p] # KeyOf[e.id]
        BY <4>1, <4>3, <4>4 DEF SettledInv, OneAtAKey, Current
      <4> QED
        BY <3>3, <4>1, <4>2, <4>4, <4>5 DEF user_end_of_order, remove_order_entry,
           IInv, TypeOK
    <3>5. InTime(user_events[i + 1], late, i + 1)
      BY <3>1 DEF KoenInv, MessagesInTime
    <3>6. age[p] <= cancel_after + http_timeout + (IF i + 1 <= late THEN 1 ELSE 0)
      BY <3>2, <3>4, <3>5 DEF InTime
    <3>7. age[p] \in Nat /\ late \in Nat
      BY <1>4 DEF KoenInv, KoenTypes
    <3> QED
      BY <1>1, <3>6, <3>7
  <2> QED
    BY <2>1 DEF MessagesInTime
<1> QED
  BY <1>5, <1>6, <1>7, <1>8, <1>9, <1>10 DEF KoenInv

LEMMA TickKeepsKoen ==
  ASSUME IInv, SettledInv, KoenInv, Tick
  PROVE  KoenInv'
<1> USE OpenOrdersAssumption, KoenAssumption, OrderAssetsAssumption DEF vars, cancel_vars, local_vars, exch_vars
<1>1. /\ UNCHANGED <<open_orders, post, exch, cancel_pc, cancel_order, user_events, exited>>
      /\ UNCHANGED <<last_trade, delayed, cancel_for, without_id>>
      /\ late = 0 /\ late' = Len(user_events)
      /\ age' = [o \in Orders |-> IF post[o] = "none" \/ age[o] = trade_cooldown
                                  THEN age[o] ELSE age[o] + 1]
      /\ \A o \in Orders :
           /\ post[o] \notin {"none", "done"} => age[o] < http_timeout
           /\ delayed[o] # "none" => age[o] < cancel_after
      /\ \A c \in CancelTasks :
           cancel_pc[c] # "idle" => age[cancel_for[c]] < cancel_after + http_timeout
  BY DEF Tick
<1>2. /\ age \in [Orders -> 0..trade_cooldown] /\ Len(user_events) \in Nat
      /\ last_trade \in [Assets -> Orders \cup {NoOrder}]
      /\ cancel_for \in [CancelTasks -> Orders \cup {NoOrder}]
  BY LenProperties DEF KoenInv, KoenTypes, IInv, TypeOK
<1>3. ASSUME NEW o \in Orders
      PROVE  /\ age[o] \in 0..trade_cooldown /\ age'[o] \in 0..trade_cooldown
             /\ age'[o] <= age[o] + 1
             /\ age'[o] = IF post[o] = "none" \/ age[o] = trade_cooldown
                          THEN age[o] ELSE age[o] + 1
  BY <1>1, <1>2
<1>4. KoenTypes'
  <2>1. age' \in [Orders -> 0..trade_cooldown]
    BY <1>1, <1>3
  <2> QED
    BY <1>1, <1>2, <2>1 DEF KoenInv, KoenTypes
<1>5. TasksInTime'
  <2>1. ASSUME NEW o \in Orders
        PROVE  /\ post'[o] = "none" => age'[o] = 0
               /\ post'[o] \notin {"none", "done"} => age'[o] <= http_timeout
               /\ delayed'[o] # "none" => age'[o] <= cancel_after
    BY <1>1, <1>3 DEF KoenInv, TasksInTime
  <2>2. ASSUME NEW c \in CancelTasks
        PROVE  /\ cancel_pc'[c] = "idle" <=> cancel_for'[c] = NoOrder
               /\ cancel_pc'[c] # "idle" => age'[cancel_for'[c]] <= cancel_after + http_timeout
    <3>1. cancel_pc[c] = "idle" <=> cancel_for[c] = NoOrder
      BY DEF KoenInv, TasksInTime
    <3>2. ASSUME cancel_pc[c] # "idle"
          PROVE  age'[cancel_for[c]] <= cancel_after + http_timeout
      <4>1. cancel_for[c] \in Orders
        BY <1>2, <3>1, <3>2
      <4> QED
        BY <1>1, <1>3, <3>2, <4>1
    <3> QED
      BY <1>1, <3>1, <3>2
  <2> QED
    BY <2>1, <2>2 DEF TasksInTime
<1>6. MessagesInTime'
  <2>1. ASSUME NEW i \in 1..Len(user_events)
        PROVE  InTime(user_events[i], late, i)'
    <3>1. PICK p \in Orders : p = user_events[i].id
      BY ElementOfSeq, EventFields, LenProperties DEF IInv, TypeOK
    <3>2. InTime(user_events[i], late, i)
      BY DEF KoenInv, MessagesInTime
    <3>3. open_orders[KeyOf[p]] # p => age[p] <= cancel_after + http_timeout
      BY <1>1, <1>3, <3>1, <3>2 DEF InTime
    <3>4. open_orders'[KeyOf[p]] # p => age'[p] <= cancel_after + http_timeout + 1
      BY <1>1, <1>3, <3>3
    <3>5. i <= late'
      BY <1>1, <1>2
    <3> QED
      BY <1>1, <3>1, <3>4, <3>5 DEF InTime
  <2> QED
    BY <1>1, <2>1 DEF MessagesInTime
<1>7. LastIsLast'
  <2>1. ASSUME NEW o \in Orders, exch[o] # "none"
        PROVE  /\ last_trade[AssetOfOrder(o)] # NoOrder
               /\ age'[last_trade[AssetOfOrder(o)]] <= age'[o]
    <3>1. PICK q : q = last_trade[AssetOfOrder(o)]
      OBVIOUS
    <3>2. q # NoOrder /\ age[q] <= age[o]
      BY <2>1, <3>1 DEF KoenInv, LastIsLast
    <3>3. q \in Orders
      BY <1>2, <3>1, <3>2 DEF AssetOfOrder
    <3>4. post[o] # "none"
      BY <2>1 DEF SettledInv, PostsAnswered
    <3>5. age'[q] <= age'[o]
      BY <1>3, <3>2, <3>3, <3>4
    <3> QED
      BY <3>1, <3>2, <3>5
  <2> QED
    BY <1>1, <2>1 DEF KoenInv, LastIsLast
<1>8. DelayedArePlaced' /\ DelayedOwn'
  BY <1>1 DEF KoenInv, DelayedArePlaced, DelayedOwn
<1>9. NeverCancelsSuccessor' /\ NotForgotten'
  BY <1>1 DEF KoenInv, NeverCancelsSuccessor, NotForgotten
<1> QED
  BY <1>4, <1>5, <1>6, <1>7, <1>8, <1>9 DEF KoenInv

LEMMA StuttersKeepKoen ==
  ASSUME KoenInv, UNCHANGED koen_all_vars
  PROVE  KoenInv'
<1>1. /\ UNCHANGED <<open_orders, post, exch, cancel_pc, cancel_order, user_events, exited>>
      /\ UNCHANGED <<last_trade, age, delayed, cancel_for, without_id, late>>
  BY DEF koen_all_vars, koen_vars, vars, cancel_vars, local_vars, exch_vars
<1>2. KoenTypes' /\ TasksInTime' /\ MessagesInTime' /\ LastIsLast'
  BY <1>1 DEF KoenInv, KoenTypes, TasksInTime, MessagesInTime, InTime, LastIsLast
<1>3. DelayedArePlaced' /\ DelayedOwn' /\ NeverCancelsSuccessor' /\ NotForgotten'
  BY <1>1 DEF KoenInv, DelayedArePlaced, DelayedOwn, NeverCancelsSuccessor, NotForgotten
<1> QED
  BY <1>2, <1>3 DEF KoenInv

LEMMA InitKoen == KoenInit => KoenInv
<1> SUFFICES ASSUME KoenInit PROVE KoenInv
  OBVIOUS
<1> USE OpenOrdersAssumption, KoenAssumption, OrderAssetsAssumption DEF KoenInit, Init
<1>1. Len(user_events) = 0
  OBVIOUS
<1>2. KoenTypes /\ TasksInTime
  BY <1>1 DEF KoenTypes, TasksInTime
<1>3. MessagesInTime
  BY <1>1 DEF MessagesInTime
<1>4. LastIsLast /\ DelayedArePlaced /\ DelayedOwn
  BY DEF LastIsLast, DelayedArePlaced, DelayedOwn
<1>5. NeverCancelsSuccessor /\ NotForgotten
  BY DEF NeverCancelsSuccessor, NotForgotten
<1> QED
  BY <1>2, <1>3, <1>4, <1>5 DEF KoenInv

LEMMA StepKeepsKoen ==
  ASSUME Answered, Durations, IInv, SettledInv, IInv', KoenInv, [KoenNext]_koen_all_vars
  PROVE  KoenInv'
BY PlacingKeepsKoen, WakeUpKeepsKoen, CancelStaleKeepsKoen, ElsewhereKeepsKoen,
   CancelStepsKeepKoen, HandleKeepsKoen, TickKeepsKoen, StuttersKeepKoen DEF KoenNext

-----------------------------------------------------------------------------
(* The results                                                             *)

LEMMA KoenInvariant ==
  ASSUME Answered, Durations
  PROVE  KoenSpec => [](IInv /\ SettledInv /\ KoenInv)
<1>1. KoenInit => IInv /\ SettledInv /\ KoenInv
  BY InitIInv, InitSettled, InitKoen DEF KoenInit
<1>2. ASSUME IInv /\ SettledInv /\ KoenInv, [KoenNext]_koen_all_vars
      PROVE  (IInv /\ SettledInv /\ KoenInv)'
  <2>1. [PatientNext]_vars
    BY <1>2, KoenStepIsPatient
  <2>2. IInv' /\ SettledInv'
    BY <1>2, <2>1, StepKeepsIInv, StepKeepsSettled DEF PatientNext
  <2> QED
    BY <1>2, <2>2, StepKeepsKoen
<1> QED
  BY <1>1, <1>2, PTL DEF KoenSpec

\* Koen never uses a key while something about an earlier order there is on
\* its way, although it does not look: the cool-down is longer.  Its steps
\* are steps of a patient user of the open orders.
THEOREM KoenIsPatient ==
  ASSUME Answered, Durations
  PROVE  KoenSpec => PatientSpec
<1>1. KoenInit => Init
  BY DEF KoenInit
<1> QED
  BY <1>1, KoenInvariant, KoenStepIsPatient, PTL DEF KoenSpec, PatientSpec

\* A delayed cancellation cancels the order it was spawned for, although it
\* finds it by asset, price and size - whatever messages are lost.
THEOREM NeverASuccessor ==
  ASSUME Answered, Durations
  PROVE  KoenSpec => []NeverCancelsSuccessor
<1>1. KoenInv => NeverCancelsSuccessor
  BY DEF KoenInv
<1> QED
  BY <1>1, KoenInvariant, PTL

\* No live order is forgotten, but one that had no id yet when it was to be
\* cancelled.
THEOREM NoneForgotten ==
  ASSUME Answered, Durations
  PROVE  KoenSpec => []StaleIsCancelled
<1>1. KoenInv => StaleIsCancelled
  BY DEF KoenInv, NotForgotten, StaleIsCancelled
<1> QED
  BY <1>1, KoenInvariant, PTL

\* Of this strategy too, an order that can fill is in the table, and without
\* lost messages the table is the exchange's when nothing is on its way.
THEOREM KoenTracked ==
  ASSUME Answered, Durations
  PROVE  KoenSpec => []LiveIsTracked
BY KoenIsPatient, LiveTracked, PTL

THEOREM KoenAgrees ==
  ASSUME Answered, Told, Durations
  PROVE  KoenSpec => []QuiescentAgreement
BY KoenIsPatient, Agreement, PTL

-----------------------------------------------------------------------------
(*                                TobStrategy                              *)
-----------------------------------------------------------------------------
(* The inductive invariant: one quote                                      *)

CanFill(o) == exch[o] \in {"inbound", "live"}

\* The order can fill, and no cancellation of it is under way.
Works(o) == CanFill(o) /\ ~BeingCancelled(o)

\* Nothing the program does ends the order.
Wanted(o) ==
  exch[o] \in {"inbound", "live", "filled"} \/ (exch[o] = "canceled" /\ o \notin asked)

\* A cancellation has found the order; the handler is about to send it.
Found(o) == \E c \in CancelTasks : cancel_pc[c] = "found" /\ cancel_order[c] = o

\* The handler will come to the order.
Covered(o) ==
  (open_orders[KeyOf[o]] = o /\ KeyOf[o] \in to_cancel) \/ Found(o)

OneWorks ==
  \A o, p \in Orders :
    (AssetOfOrder(o) = AssetOfOrder(p) /\ Works(o) /\ Works(p)) => o = p

AllCovered ==
  plan # NoOrder =>
    \A o \in Orders :
      (AssetOfOrder(o) = AssetOfOrder(plan) /\ Works(o)) => Covered(o)

\* Every answer to a cancellation lists the id.
Listed == \A c \in CancelTasks : cancel_pc[c] # "unlisted"

PlanOk == plan \in Orders \cup {NoOrder} /\ to_cancel \subseteq Keys

\* What is being cancelled is remembered.
AskedInFlight ==
  \A c \in CancelTasks : cancel_pc[c] \in InFlight => cancel_order[c] \in asked

QuoteInv ==
  /\ PlanOk
  /\ AskedInFlight
  /\ ~reused => /\ SettledInv /\ Listed
                /\ ~exited => OneWorks /\ AllCovered

-----------------------------------------------------------------------------
(* The strategy is patient as long as no key has been used too early       *)

LEMMA TobStepIsPatient ==
  ASSUME IInv, PlanOk, [TobNext]_tob_all_vars, ~reused'
  PROVE  [PatientNext]_vars
<1>1. ASSUME \/ \E o \in Orders : PostReturns(o) \/ Exchange(o) \/ PostTimeout(o)
             \/ \E c \in CancelTasks :
                  CancelCall(c) \/ CancelAnswer(c) \/ CancelReturns(c)
             \/ HandleUserEvent
      PROVE  PatientNext
  <2>1. Next
    BY <1>1 DEF Next
  <2>2. ASSUME NEW p \in Orders, place_limit_order(p) PROVE FALSE
    <3>1. post'[p] = "waiting" /\ post[p] # "waiting"
      BY <2>2 DEF place_limit_order, IInv, TypeOK
    <3> QED
      BY <1>1, <3>1, OnlyPlacingPosts
  <2> QED
    BY <2>1, <2>2 DEF PatientNext
<1>2. CASE execute_order_plan
  <2>1. plan \in Orders /\ Next
    BY <1>2 DEF execute_order_plan, Next, Place, PlanOk
  <2>2. ASSUME NEW p \in Orders, place_limit_order(p) PROVE ~Unsettled(KeyOf[p])
    <3>1. /\ post[p] = "none" /\ post'[p] = "waiting" /\ post \in [Orders -> PostState]
      BY <2>2 DEF place_limit_order, IInv, TypeOK
    <3>2. p = plan
      BY <1>2, <2>1, <3>1 DEF execute_order_plan, place_limit_order, place_zero_amount
    <3> QED
      BY <1>2, <3>2 DEF execute_order_plan
  <2> QED
    BY <2>1, <2>2 DEF PatientNext
<1>3. ASSUME NEW o \in Orders, tob_handle_market_price_change(o)
      PROVE  UNCHANGED vars
  BY <1>3 DEF tob_handle_market_price_change
<1>4. CASE cancel_orders
  <2>1. \/ UNCHANGED vars
        \/ \E c \in CancelTasks : CancelSend(c) \/ CancelWithoutId(c)
        \/ \E k \in to_cancel, c \in CancelTasks : CancelLookup(c, k)
    BY <1>4 DEF cancel_orders
  <2> QED
    BY <1>1, <2>1 DEF CancelCall, PlanOk
<1>5. ASSUME NEW o \in Orders, Fill(o)
      PROVE  PatientNext
  BY <1>1, <1>5 DEF Fill, Exchange
<1>6. CASE TobUserEvent
  BY <1>1, <1>6 DEF TobUserEvent
<1>7. CASE wait_over \/ HandleTrade \/ UNCHANGED tob_all_vars
  BY <1>7 DEF wait_over, HandleTrade, tob_all_vars
<1>8. CASE TobElsewhere
  BY <1>1, <1>8, OpenOrdersAssumption DEF TobElsewhere, Exchange
<1> QED
  BY <1>2, <1>3, <1>4, <1>5, <1>6, <1>7, <1>8 DEF TobNext

-----------------------------------------------------------------------------
(* Steps that place nothing                                                *)

Progress ==
  \/ \E o \in Orders : PostReturns(o) \/ Exchange(o)
  \/ \E c \in CancelTasks : CancelAnswer(c) \/ CancelReturns(c)

CalmStep ==
  \/ Progress
  \/ \E c \in CancelTasks : CancelCall(c)
  \/ HandleUserEvent
  \/ UNCHANGED vars

\* What works did so before: a cancellation under way ends with the order.
LEMMA WorkedBefore ==
  ASSUME Answered, IInv, SettledInv, Listed, CalmStep, ~exited',
         NEW p \in Orders, Works(p)'
  PROVE  Works(p)
<1> USE DEF exch_vars, cancel_vars, local_vars
<1>1. /\ exch \in [Orders -> ExchState]
      /\ cancel_pc \in [CancelTasks -> CancelPC]
      /\ cancel_order \in [CancelTasks -> Orders \cup {NoOrder}]
      /\ cancel_id \in [CancelTasks -> Orders \cup {NoOrder}]
  BY DEF IInv, TypeOK
<1>2. exch'[p] \in {"inbound", "live"}
  BY DEF Works, CanFill
<1>3. CASE \E o \in Orders : PostReturns(o) \/ Exchange(o)
  <2>1. PICK o \in Orders : PostReturns(o) \/ Exchange(o)
    BY <1>3
  <2>2. UNCHANGED <<cancel_pc, cancel_order>>
    BY <2>1 DEF PostReturns, Exchange, ExchAccept, ExchTakePart, Rests, ExchReject, ExchTake,
       ExchPartialFill, ExchFill, ExchWithdraw
  <2>3. exch[p] \in {"inbound", "live"}
    BY <1>1, <1>2, <2>1 DEF PostReturns, Exchange, ExchAccept, ExchTakePart, Rests, ExchReject, ExchTake,
       ExchPartialFill, ExchFill, ExchWithdraw
  <2> QED
    BY <2>2, <2>3 DEF Works, CanFill, BeingCancelled
<1>4. ASSUME NEW c \in CancelTasks, CancelCall(c) \/ CancelAnswer(c) \/ CancelReturns(c)
      PROVE  Works(p)
  <2>1. exch[p] \in {"inbound", "live"}
    BY <1>1, <1>2, <1>4 DEF CancelCall, CancelLookup, CancelWithoutId, CancelSend,
       CancelAnswer, ExchCancel, ExchRefuseCancel, CancelFault, CancelReturns
  <2>2. ASSUME NEW d \in CancelTasks, cancel_pc[d] \in InFlight, cancel_order[d] = p
        PROVE  cancel_pc'[d] \in InFlight /\ cancel_order'[d] = p
    <3>1. CASE CancelCall(c)
      BY <1>1, <2>2, <3>1 DEF CancelCall, CancelLookup, CancelWithoutId, CancelSend,
         InFlight, task_ends
    <3>2. CASE CancelAnswer(c)
      BY <1>1, <2>2, <3>2 DEF CancelAnswer, ExchCancel, ExchRefuseCancel, CancelFault,
         InFlight, Answered
    <3>3. CASE CancelReturns(c) /\ c # d
      BY <1>1, <2>2, <3>3 DEF CancelReturns, task_ends
    <3>4. CASE CancelReturns(c) /\ c = d
      <4>1. cancel_pc[c] = "canceled" /\ UNCHANGED exch
        BY <3>4 DEF CancelReturns, Listed
      <4>2. exch[p] = "canceled"
        BY <2>2, <3>4, <4>1 DEF SettledInv, OwnIds
      <4> QED
        BY <1>2, <4>1, <4>2
    <3> QED
      BY <1>4, <3>1, <3>2, <3>3, <3>4
  <2> QED
    BY <2>1, <2>2 DEF Works, CanFill, BeingCancelled
<1>5. CASE HandleUserEvent \/ UNCHANGED vars
  <2>1. UNCHANGED <<exch, cancel_pc, cancel_order>>
    BY <1>5 DEF HandleUserEvent, vars
  <2> QED
    BY <1>2, <2>1 DEF Works, CanFill, BeingCancelled
<1> QED
  BY <1>3, <1>4, <1>5 DEF CalmStep, Progress

\* The tasks remove the entries of orders that were cancelled or rejected.
LEMMA ProgressKeepsEntry ==
  ASSUME IInv, SettledInv, Listed, AskedInFlight, UNCHANGED asked, Progress,
         NEW p \in Orders, Wanted(p)', open_orders[KeyOf[p]] = p
  PROVE  open_orders'[KeyOf[p]] = p
<1> USE OpenOrdersAssumption DEF local_vars, exch_vars
<1>1. open_orders \in [Keys -> Orders \cup {NoOrder}]
  BY DEF IInv, TypeOK
<1>2. ASSUME NEW o \in Orders, Current(o), p # o, remove_order_entry(KeyOf[o])
      PROVE  open_orders'[KeyOf[p]] = p
  <2>1. Current(p)
    BY DEF Current
  <2>2. KeyOf[p] # KeyOf[o]
    BY <1>2, <2>1 DEF SettledInv, OneAtAKey
  <2> QED
    BY <1>1, <1>2, <2>2 DEF remove_order_entry
<1>3. ASSUME NEW o \in Orders, PostReturns(o), ~UNCHANGED open_orders
      PROVE  open_orders'[KeyOf[p]] = p
  <2>1. post[o] = "err" /\ remove_order_entry(KeyOf[o]) /\ UNCHANGED exch
    BY <1>3 DEF PostReturns
  <2>2. Current(o) /\ exch[o] = "rejected"
    BY <2>1 DEF Current, SettledInv, PostsAnswered
  <2>3. p # o
    BY <2>1, <2>2 DEF Wanted
  <2> QED
    BY <1>2, <2>1, <2>2, <2>3
<1>4. ASSUME NEW c \in CancelTasks, CancelReturns(c), ~UNCHANGED open_orders
      PROVE  open_orders'[KeyOf[p]] = p
  <2>1. /\ cancel_pc[c] = "canceled" /\ UNCHANGED exch
        /\ remove_order_entry(KeyOf[cancel_order[c]])
    BY <1>4 DEF CancelReturns
  <2>2. cancel_order[c] \in Orders
    BY <2>1 DEF IInv, TypeOK, TasksHoldTheirOrder
  <2>3. PICK o \in Orders : o = cancel_order[c]
    BY <2>2
  <2>4. Current(o) /\ exch[o] = "canceled" /\ o \in asked
    BY <2>1, <2>3 DEF Current, SettledInv, OwnIds, AskedInFlight, InFlight
  <2>5. p # o
    BY <2>1, <2>4 DEF Wanted
  <2> QED
    BY <1>2, <2>1, <2>3, <2>4, <2>5
<1>5. ASSUME \/ \E o \in Orders : Exchange(o)
             \/ \E c \in CancelTasks : CancelAnswer(c)
      PROVE  UNCHANGED open_orders
  BY <1>5 DEF Exchange, ExchAccept, ExchTakePart, Rests, ExchReject, ExchTake,
     ExchPartialFill, ExchFill, ExchWithdraw, CancelAnswer, ExchCancel, ExchRefuseCancel, CancelFault
<1> QED
  BY <1>3, <1>4, <1>5 DEF Progress

LEMMA ProgressKeepsFound ==
  ASSUME IInv, Progress, NEW p \in Orders, Found(p)
  PROVE  Found(p)'
<1> USE DEF cancel_vars
<1>1. PICK c \in CancelTasks : cancel_pc[c] = "found" /\ cancel_order[c] = p
  BY DEF Found
<1>2. cancel_pc \in [CancelTasks -> CancelPC]
  BY DEF IInv, TypeOK
<1>3. cancel_order \in [CancelTasks -> Orders \cup {NoOrder}]
  BY DEF IInv, TypeOK
<1>4. cancel_pc'[c] = "found" /\ cancel_order'[c] = p
  <2>1. ASSUME NEW o \in Orders, PostReturns(o) \/ Exchange(o)
        PROVE  UNCHANGED <<cancel_pc, cancel_order>>
    BY <2>1 DEF PostReturns, Exchange, ExchAccept, ExchTakePart, Rests, ExchReject, ExchTake,
       ExchPartialFill, ExchFill, ExchWithdraw
  <2>2. ASSUME NEW d \in CancelTasks, CancelAnswer(d) \/ CancelReturns(d)
        PROVE  cancel_pc'[c] = "found" /\ cancel_order'[c] = p
    <3>1. c # d
      BY <1>1, <2>2 DEF CancelAnswer, ExchCancel, ExchRefuseCancel, CancelFault,
         CancelReturns
    <3>2. CASE CancelAnswer(d)
      <4>1. UNCHANGED cancel_order
        BY <3>2 DEF CancelAnswer, ExchCancel, ExchRefuseCancel, CancelFault
      <4>2. cancel_pc'[c] = cancel_pc[c]
        BY <1>2, <3>1, <3>2 DEF CancelAnswer, ExchCancel, ExchRefuseCancel, CancelFault
      <4> QED
        BY <1>1, <4>1, <4>2
    <3>3. CASE CancelReturns(d)
      BY <1>1, <1>2, <1>3, <3>1, <3>3 DEF CancelReturns, task_ends
    <3> QED
      BY <2>2, <3>2, <3>3
  <2> QED
    BY <1>1, <2>1, <2>2 DEF Progress
<1> QED
  BY <1>4 DEF Found

\* What the handler will come to stays so, or is being cancelled.
LEMMA CoveredStays ==
  ASSUME IInv, SettledInv, Listed, AskedInFlight, Progress,
         UNCHANGED <<to_cancel, asked>>, NEW p \in Orders, Wanted(p)', Covered(p)
  PROVE  Covered(p)'
BY ProgressKeepsEntry, ProgressKeepsFound DEF Covered

-----------------------------------------------------------------------------
(* One quote                                                               *)

LEMMA CalmKeepsOneWorks ==
  ASSUME Answered, IInv, SettledInv, Listed, CalmStep, ~exited', OneWorks
  PROVE  OneWorks'
<1> SUFFICES ASSUME NEW o \in Orders, NEW p \in Orders,
                    AssetOfOrder(o) = AssetOfOrder(p),
                    Works(o)', Works(p)'
             PROVE  o = p
  BY DEF OneWorks, AssetOfOrder
<1> QED
  BY WorkedBefore DEF OneWorks

LEMMA ProgressKeepsCovered ==
  ASSUME Answered, IInv, SettledInv, Listed, AskedInFlight, Progress, ~exited',
         AllCovered, PlanOk, UNCHANGED <<plan, to_cancel, asked>>
  PROVE  AllCovered'
<1> SUFFICES ASSUME plan # NoOrder, NEW o \in Orders,
                    AssetOfOrder(o) = AssetOfOrder(plan), Works(o)'
             PROVE  Covered(o)'
  BY DEF AllCovered, AssetOfOrder
<1>1. Works(o)
  BY WorkedBefore DEF CalmStep
<1>2. Covered(o) /\ Wanted(o)'
  BY <1>1 DEF AllCovered, Works, CanFill, Wanted
<1> QED
  BY <1>2, CoveredStays

\* The handler collects what can fill, for all of it is in the table.
LEMMA StartCovers ==
  ASSUME PlanOk, SettledInv, NEW o \in Orders, tob_handle_market_price_change(o)
  PROVE  AllCovered'
<1> USE OpenOrdersAssumption
<1>1. /\ UNCHANGED vars /\ plan' = o
      /\ to_cancel' = collect_orders_asset(AssetOfOrder(o))
  BY DEF tob_handle_market_price_change
<1>2. UNCHANGED <<exch, open_orders, cancel_pc, cancel_order>>
  BY <1>1 DEF vars, exch_vars, local_vars, cancel_vars
<1> SUFFICES ASSUME NEW p \in Orders, AssetOfOrder(p) = AssetOfOrder(o), CanFill(p)'
             PROVE  Covered(p)'
  BY <1>1 DEF AllCovered, AssetOfOrder, Works
<1>3. open_orders[KeyOf[p]] = p
  BY <1>2 DEF SettledInv, Tracked, CanFill
<1>4. KeyOf[p] \in to_cancel'
  BY <1>1, <1>3 DEF collect_orders_asset, AssetOfOrder
<1> QED
  BY <1>2, <1>3, <1>4 DEF Covered

\* Looking an order up, or asking for its cancellation, leaves it covered
\* or being cancelled.
LEMMA CancellingCovers ==
  ASSUME IInv, PlanOk, cancel_orders, plan' # NoOrder, NEW p \in Orders,
         Covered(p), ~BeingCancelled(p)'
  PROVE  Covered(p)' /\ UNCHANGED <<plan, exch>> /\ CalmStep
<1> USE OpenOrdersAssumption DEF exch_vars, cancel_vars, local_vars
<1>1. /\ cancel_pc \in [CancelTasks -> CancelPC]
      /\ cancel_order \in [CancelTasks -> Orders \cup {NoOrder}]
      /\ open_orders \in [Keys -> Orders \cup {NoOrder}]
  BY DEF IInv, TypeOK
<1>2. \/ \E k \in to_cancel, c \in CancelTasks :
           CancelLookup(c, k) /\ to_cancel' = to_cancel \ {k} /\ UNCHANGED plan
      \/ \E c \in CancelTasks : CancelSend(c) /\ UNCHANGED <<plan, to_cancel>>
  BY DEF cancel_orders, stop_handler
<1>3. ASSUME NEW k \in to_cancel, NEW c \in CancelTasks,
             CancelLookup(c, k), to_cancel' = to_cancel \ {k}, UNCHANGED plan
      PROVE  Covered(p)' /\ UNCHANGED <<plan, exch>> /\ CalmStep
  <2>1. /\ UNCHANGED <<open_orders, exch>> /\ cancel_pc[c] = "idle"
        /\ cancel_pc' = [cancel_pc EXCEPT ![c] = "found"]
        /\ cancel_order' = [cancel_order EXCEPT ![c] = open_orders[k]]
    BY <1>3 DEF CancelLookup
  <2>2. CalmStep
    BY <1>3 DEF CalmStep, CancelCall, PlanOk
  <2>3. ASSUME Found(p) PROVE Covered(p)'
    BY <1>1, <2>1, <2>3 DEF Found, Covered
  <2>4. ASSUME open_orders[KeyOf[p]] = p, KeyOf[p] = k
        PROVE  Covered(p)'
    BY <1>1, <2>1, <2>4 DEF Found, Covered
  <2>5. ASSUME open_orders[KeyOf[p]] = p, KeyOf[p] \in to_cancel, KeyOf[p] # k
        PROVE  Covered(p)'
    BY <1>3, <2>1, <2>5 DEF Covered
  <2> QED
    BY <1>3, <2>1, <2>2, <2>3, <2>4, <2>5 DEF Covered
<1>4. ASSUME NEW c \in CancelTasks, CancelSend(c), UNCHANGED <<plan, to_cancel>>
      PROVE  Covered(p)' /\ UNCHANGED <<plan, exch>> /\ CalmStep
  <2>1. /\ UNCHANGED <<open_orders, exch, cancel_order>> /\ cancel_pc[c] = "found"
        /\ cancel_pc' = [cancel_pc EXCEPT ![c] = "sent"]
    BY <1>4 DEF CancelSend
  <2>2. CalmStep
    BY <1>4 DEF CalmStep, CancelCall
  <2>3. cancel_order[c] # p
    BY <1>1, <2>1 DEF BeingCancelled, InFlight
  <2>4. ASSUME Found(p) PROVE Covered(p)'
    <3>1. PICK d \in CancelTasks : cancel_pc[d] = "found" /\ cancel_order[d] = p
      BY <2>4 DEF Found
    <3>2. cancel_pc'[d] = "found" /\ cancel_order'[d] = p
      BY <1>1, <2>1, <2>3, <3>1
    <3> QED
      BY <3>2 DEF Covered, Found
  <2> QED
    BY <1>4, <2>1, <2>2, <2>4 DEF Covered
<1> QED
  BY <1>2, <1>3, <1>4

\* By the time the order is placed, all others are being cancelled.
LEMMA NoneCoveredAtTheEnd ==
  ASSUME to_cancel = {}, ~Cancelling, NEW p
  PROVE  ~Covered(p)
BY DEF Covered, Found, Cancelling

\* Every step but the placement and the handler's first.
LEMMA CalmSteps ==
  ASSUME PlanOk, [TobNext]_tob_all_vars, ~execute_order_plan,
         \A o \in Orders : ~tob_handle_market_price_change(o)
  PROVE  /\ CalmStep /\ PlanOk'
         /\ \/ Progress /\ UNCHANGED <<plan, to_cancel, asked>>
            \/ UNCHANGED vars /\ UNCHANGED <<plan, to_cancel, asked>>
            \/ plan' = NoOrder
            \/ cancel_orders /\ plan' # NoOrder
<1> USE OpenOrdersAssumption
<1>1. ASSUME \/ TobElsewhere \/ \E o \in Orders : Fill(o)
      PROVE  Progress /\ UNCHANGED <<plan, to_cancel, asked>>
  BY <1>1 DEF TobElsewhere, Fill, Progress, Exchange, tob_vars
<1>2. CASE cancel_orders
  <2>1. CalmStep
    BY <1>2 DEF cancel_orders, CalmStep, CancelCall, PlanOk
  <2>2. PlanOk'
    BY <1>2 DEF cancel_orders, PlanOk, stop_handler
  <2> QED
    BY <1>2, <2>1, <2>2
<1>3. CASE TobUserEvent
  BY <1>3 DEF TobUserEvent, CalmStep, PlanOk
<1>4. CASE wait_over \/ HandleTrade \/ UNCHANGED tob_all_vars
  BY <1>4 DEF wait_over, HandleTrade, tob_all_vars, tob_vars, CalmStep, PlanOk
<1> QED
  BY <1>1, <1>2, <1>3, <1>4 DEF TobNext, CalmStep, PlanOk

LEMMA PlacingKeepsOneWorks ==
  ASSUME IInv, PlanOk, SettledInv, OneWorks, AllCovered, execute_order_plan
  PROVE  PlanOk' /\ AllCovered' /\ OneWorks'
<1> USE OpenOrdersAssumption DEF exch_vars, cancel_vars, local_vars
<1>1. /\ plan \in Orders /\ plan' = NoOrder /\ to_cancel' = {}
      /\ to_cancel = {} /\ ~Cancelling
  BY DEF execute_order_plan, stop_handler, PlanOk
<1>2. /\ UNCHANGED <<cancel_pc, cancel_order>>
      /\ exch' = exch \/ exch' = [exch EXCEPT ![plan] = "inbound"]
  BY DEF execute_order_plan, place_limit_order, place_zero_amount
<1>3. \A p \in Orders : p # plan => exch'[p] = exch[p]
  BY <1>1, <1>2 DEF IInv, TypeOK
<1>4. exch[plan] = "none"
  BY <1>1 DEF SettledInv, PostsAnswered, execute_order_plan, place_limit_order,
     place_zero_amount
<1>5. ASSUME NEW p \in Orders, Works(p)', p # plan
      PROVE  Works(p) /\ AssetOfOrder(p) # AssetOfOrder(plan)
  <2>1. Works(p)
    BY <1>2, <1>3, <1>5 DEF Works, CanFill, BeingCancelled
  <2>2. ~Covered(p)
    BY <1>1, NoneCoveredAtTheEnd
  <2> QED
    BY <1>1, <2>1, <2>2 DEF AllCovered
<1>6. OneWorks'
  <2> SUFFICES ASSUME NEW o \in Orders, NEW p \in Orders,
                      AssetOfOrder(o) = AssetOfOrder(p), Works(o)', Works(p)'
               PROVE  o = p
    BY DEF OneWorks, AssetOfOrder
  <2> QED
    BY <1>5 DEF OneWorks
<1> QED
  BY <1>1, <1>6 DEF PlanOk, AllCovered

LEMMA CalmKeepsListed ==
  ASSUME Answered, IInv, Listed, CalmStep
  PROVE  Listed'
<1> USE DEF cancel_vars
<1>1. cancel_pc \in [CancelTasks -> CancelPC]
  BY DEF IInv, TypeOK
<1>2. ASSUME NEW o \in Orders, PostReturns(o) \/ Exchange(o)
      PROVE  UNCHANGED cancel_pc
  BY <1>2 DEF PostReturns, Exchange, ExchAccept, ExchTakePart, Rests, ExchReject,
     ExchTake, ExchPartialFill, ExchFill, ExchWithdraw
<1>3. ASSUME NEW c \in CancelTasks, CancelCall(c) \/ CancelAnswer(c) \/ CancelReturns(c)
      PROVE  \E s \in CancelPC \ {"unlisted"} : cancel_pc' = [cancel_pc EXCEPT ![c] = s]
  BY <1>3 DEF CancelCall, CancelLookup, CancelWithoutId, CancelSend, CancelAnswer,
     ExchCancel, ExchRefuseCancel, CancelFault, CancelReturns, task_ends, CancelPC,
     Answered
<1>4. CASE HandleUserEvent \/ UNCHANGED vars
  BY <1>4 DEF HandleUserEvent, vars, Listed
<1> QED
  BY <1>1, <1>2, <1>3, <1>4 DEF CalmStep, Progress, Listed

LEMMA CalmStaysExited ==
  ASSUME CalmStep, exited
  PROVE  exited'
<1>1. ASSUME NEW o \in Orders, PostReturns(o) \/ Exchange(o)
      PROVE  exited'
  BY <1>1 DEF PostReturns, Exchange, ExchAccept, ExchTakePart, Rests, ExchReject, ExchTake,
     ExchPartialFill, ExchFill, ExchWithdraw
<1>2. ASSUME NEW c \in CancelTasks, CancelCall(c) \/ CancelAnswer(c) \/ CancelReturns(c)
      PROVE  exited'
  BY <1>2 DEF CancelCall, CancelLookup, CancelWithoutId, CancelSend, CancelAnswer,
     ExchCancel, ExchRefuseCancel, CancelFault, CancelReturns
<1> QED
  BY <1>1, <1>2 DEF CalmStep, Progress, HandleUserEvent, vars

LEMMA CalmKeepsQuote ==
  ASSUME Answered, IInv, SettledInv, Listed, AskedInFlight, PlanOk, CalmStep,
         ~exited', OneWorks, AllCovered,
         \/ Progress /\ UNCHANGED <<plan, to_cancel, asked>>
         \/ UNCHANGED vars /\ UNCHANGED <<plan, to_cancel, asked>>
         \/ plan' = NoOrder
         \/ cancel_orders /\ plan' # NoOrder
  PROVE  OneWorks' /\ AllCovered'
<1>1. OneWorks'
  BY CalmKeepsOneWorks
<1> SUFFICES AllCovered'
  BY <1>1
<1>2. CASE Progress /\ UNCHANGED <<plan, to_cancel, asked>>
  BY <1>2, ProgressKeepsCovered
<1>3. CASE UNCHANGED vars /\ UNCHANGED <<plan, to_cancel>>
  BY <1>3 DEF AllCovered, Covered, Found, Works, CanFill, BeingCancelled, AssetOfOrder,
     vars, exch_vars, cancel_vars, local_vars
<1>4. CASE plan' = NoOrder
  BY <1>4 DEF AllCovered
<1>5. CASE cancel_orders /\ plan' # NoOrder
  <2> SUFFICES ASSUME NEW p \in Orders, AssetOfOrder(p) = AssetOfOrder(plan'),
                      Works(p)'
               PROVE  Covered(p)'
    BY DEF AllCovered, AssetOfOrder
  <2>1. plan' = plan /\ plan # NoOrder
    BY <1>5 DEF cancel_orders, stop_handler
  <2>2. Works(p)
    BY WorkedBefore
  <2>3. Covered(p)
    BY <2>1, <2>2 DEF AllCovered
  <2> QED
    BY <1>5, <2>3, CancellingCovers DEF Works
<1> QED
  BY <1>1, <1>2, <1>3, <1>4, <1>5

LEMMA StepKeepsAsked ==
  ASSUME Answered, IInv, AskedInFlight, PlanOk, [TobNext]_tob_all_vars
  PROVE  AskedInFlight' /\ asked \subseteq asked'
<1> USE DEF cancel_vars
<1>1. /\ cancel_pc \in [CancelTasks -> CancelPC]
      /\ cancel_order \in [CancelTasks -> Orders \cup {NoOrder}]
  BY DEF IInv, TypeOK
<1>2. CASE cancel_orders
  <2>1. asked' = asked \cup {cancel_order[c] : c \in {d \in CancelTasks : cancel_pc'[d] = "sent"}}
    BY <1>2 DEF cancel_orders, AskedBy
  <2>2. \/ UNCHANGED vars
        \/ \E c \in CancelTasks : CancelSend(c) \/ CancelWithoutId(c)
        \/ \E k \in to_cancel, c \in CancelTasks : CancelLookup(c, k)
    BY <1>2 DEF cancel_orders
  <2>3. ASSUME NEW c \in CancelTasks, cancel_pc'[c] \in InFlight
        PROVE  /\ cancel_order'[c] = cancel_order[c]
               /\ cancel_pc[c] \in InFlight \/ cancel_pc'[c] = "sent"
    BY <1>1, <2>2, <2>3 DEF vars, CancelSend, CancelWithoutId, CancelLookup, task_ends, InFlight
  <2> QED
    BY <2>1, <2>3 DEF AskedInFlight
<1>3. CASE ~cancel_orders
  <2>1. UNCHANGED asked
    BY <1>3 DEF TobNext, tob_handle_market_price_change, execute_order_plan,
       wait_over, TobUserEvent, HandleTrade, Fill, TobElsewhere, tob_vars, tob_all_vars
  <2>2. \/ UNCHANGED <<cancel_pc, cancel_order>>
        \/ \E c \in CancelTasks : CancelAnswer(c) \/ CancelReturns(c)
    <3>1. ASSUME NEW o \in Orders, PostReturns(o) \/ Exchange(o)
          PROVE  UNCHANGED <<cancel_pc, cancel_order>>
      BY <3>1 DEF PostReturns, Exchange, ExchAccept, ExchTakePart, Rests, ExchReject,
         ExchTake, ExchPartialFill, ExchFill, ExchWithdraw
    <3>2. CASE execute_order_plan
      BY <3>2 DEF execute_order_plan, place_limit_order, place_zero_amount
    <3>3. CASE \E o \in Orders : tob_handle_market_price_change(o) \/ Fill(o)
      BY <3>1, <3>3 DEF tob_handle_market_price_change, Fill, vars, Exchange
    <3>4. CASE wait_over \/ TobUserEvent \/ HandleTrade \/ UNCHANGED tob_all_vars
      BY <3>4 DEF wait_over, TobUserEvent, HandleUserEvent, HandleTrade, vars, tob_all_vars
    <3>5. CASE TobElsewhere
      BY <3>1, <3>5, OpenOrdersAssumption DEF TobElsewhere, Exchange
    <3> QED
      BY <1>3, <3>2, <3>3, <3>4, <3>5 DEF TobNext
  <2>3. ASSUME NEW c \in CancelTasks, cancel_pc'[c] \in InFlight
        PROVE  cancel_order'[c] = cancel_order[c] /\ cancel_pc[c] \in InFlight
    BY <1>1, <2>2, <2>3 DEF CancelAnswer, ExchCancel, ExchRefuseCancel, CancelFault,
       CancelReturns, task_ends, InFlight
  <2> QED
    BY <2>1, <2>3 DEF AskedInFlight
<1> QED
  BY <1>2, <1>3

LEMMA StepKeepsQuote ==
  ASSUME Answered, IInv, QuoteInv, [TobNext]_tob_all_vars
  PROVE  QuoteInv'
<1>1. PlanOk /\ AskedInFlight /\ AskedInFlight'
  BY StepKeepsAsked DEF QuoteInv
<1>2. ~reused' => ~reused
  BY DEF TobNext, tob_handle_market_price_change, cancel_orders, execute_order_plan,
     wait_over, TobUserEvent, HandleTrade, Fill, TobElsewhere, tob_vars, tob_all_vars
<1>3. ASSUME ~reused'
      PROVE  SettledInv /\ Listed /\ SettledInv'
  BY <1>1, <1>2, <1>3, TobStepIsPatient, StepKeepsSettled DEF QuoteInv
<1>4. ~reused /\ ~exited => OneWorks /\ AllCovered
  BY DEF QuoteInv
<1>5. ASSUME NEW o \in Orders, tob_handle_market_price_change(o)
      PROVE  QuoteInv'
  <2>1. UNCHANGED vars /\ UNCHANGED <<reused, exited>>
    BY <1>5 DEF tob_handle_market_price_change, vars
  <2>2. PlanOk'
    BY <1>5 DEF PlanOk, tob_handle_market_price_change, collect_orders_asset
  <2>3. Listed => Listed'
    BY <2>1 DEF Listed, vars, cancel_vars
  <2>4. OneWorks => OneWorks'
    BY <2>1 DEF OneWorks, Works, CanFill, BeingCancelled, AssetOfOrder, vars, cancel_vars, exch_vars
  <2>5. ~reused' => AllCovered'
    BY <1>1, <1>3, <1>5, StartCovers
  <2> QED
    BY <1>1, <1>2, <1>3, <1>4, <2>1, <2>2, <2>3, <2>4, <2>5 DEF QuoteInv
<1>6. CASE execute_order_plan
  <2>1. ~exited /\ UNCHANGED cancel_pc /\ PlanOk'
    BY <1>6, OpenOrdersAssumption DEF execute_order_plan, place_limit_order,
       place_zero_amount, cancel_vars, stop_handler, PlanOk
  <2>2. Listed => Listed'
    BY <2>1 DEF Listed
  <2> QED
    BY <1>1, <1>2, <1>3, <1>4, <1>6, <2>1, <2>2, PlacingKeepsOneWorks DEF QuoteInv
<1>7. CASE ~execute_order_plan /\ \A o \in Orders : ~tob_handle_market_price_change(o)
  <2>1. CalmStep /\ PlanOk'
    BY <1>1, <1>7, CalmSteps
  <2>2. ASSUME ~reused'
        PROVE  SettledInv' /\ Listed'
    BY <1>3, <2>1, <2>2, CalmKeepsListed
  <2>3. ASSUME ~reused', ~exited'
        PROVE  OneWorks' /\ AllCovered'
    <3>1. ~exited /\ ~reused
      BY <1>2, <2>1, <2>3, CalmStaysExited
    <3> QED
      BY <1>1, <1>3, <1>4, <1>7, <2>1, <2>3, <3>1, CalmSteps, CalmKeepsQuote
  <2> QED
    BY <1>1, <2>1, <2>2, <2>3 DEF QuoteInv
<1> QED
  BY <1>5, <1>6, <1>7

LEMMA InitQuote == TobInit => QuoteInv
<1> SUFFICES ASSUME TobInit PROVE QuoteInv
  OBVIOUS
<1>1. SettledInv
  BY InitSettled DEF TobInit
<1>2. PlanOk /\ AskedInFlight /\ Listed
  BY DEF TobInit, Init, PlanOk, AskedInFlight, InFlight, Listed
<1>3. OneWorks /\ AllCovered
  BY DEF TobInit, Init, OneWorks, AllCovered, Works, CanFill
<1> QED
  BY <1>1, <1>2, <1>3 DEF QuoteInv

LEMMA TobStepIsNext ==
  ASSUME PlanOk, [TobNext]_tob_all_vars
  PROVE  [Next]_vars
<1>1. CASE execute_order_plan
  BY <1>1 DEF execute_order_plan, Next, Place, PlanOk
<1>2. ASSUME NEW o \in Orders, tob_handle_market_price_change(o)
      PROVE  UNCHANGED vars
  BY <1>2 DEF tob_handle_market_price_change
<1>3. CalmStep => [Next]_vars
  BY DEF CalmStep, Progress, Next
<1> QED
  BY <1>1, <1>2, <1>3, CalmSteps

LEMMA QuoteInvariant ==
  ASSUME Answered
  PROVE  TobSpec => [](IInv /\ QuoteInv)
<1>1. TobInit => IInv /\ QuoteInv
  BY InitIInv, InitQuote DEF TobInit
<1>2. ASSUME IInv /\ QuoteInv, [TobNext]_tob_all_vars
      PROVE  (IInv /\ QuoteInv)'
  <2>1. IInv'
    BY <1>2, TobStepIsNext, StepKeepsIInv DEF QuoteInv
  <2> QED
    BY <1>2, <2>1, StepKeepsQuote
<1> QED
  BY <1>1, <1>2, PTL DEF TobSpec

\* If requests are answered in time and trades are reported at their orders'
\* prices, and no key is used again too early, at most one order of an asset
\* can fill with nothing asked to cancel it - even if messages are lost.
THEOREM OneQuoteHolds ==
  ASSUME Answered
  PROVE  TobSpec => []OneQuote
<1>1. QuoteInv => OneQuote
  BY DEF QuoteInv, OneQuote, OneWorks, Works, CanFill
<1> QED
  BY <1>1, QuoteInvariant, PTL

\* Until then the table knows of every order that can fill, which is what
\* cancelling all of an asset's entries relies on.
THEOREM TobTracked ==
  ASSUME Answered
  PROVE  TobSpec => [](~reused => LiveIsTracked)
<1>1. QuoteInv => (~reused => LiveIsTracked)
  BY SettledIsTracked DEF QuoteInv
<1> QED
  BY <1>1, QuoteInvariant, PTL

-----------------------------------------------------------------------------
(* The table is the exchange's                                             *)

AgreedInv == ~reused => AgreeInv

LEMMA StepKeepsAgreed ==
  ASSUME Answered, Told, IInv, QuoteInv, AgreedInv, [TobNext]_tob_all_vars
  PROVE  AgreedInv'
<1>1. ~reused' => ~reused
  BY DEF TobNext, tob_handle_market_price_change, cancel_orders, execute_order_plan,
     wait_over, TobUserEvent, HandleTrade, Fill, TobElsewhere, tob_vars, tob_all_vars
<1>2. PlanOk
  BY DEF QuoteInv
<1> QED
  BY <1>1, <1>2, TobStepIsNext, StepKeepsAgreement DEF QuoteInv, AgreedInv

LEMMA AgreedInvariant ==
  ASSUME Answered, Told
  PROVE  TobSpec => [](IInv /\ QuoteInv /\ AgreedInv)
<1>1. TobInit => AgreedInv
  BY InitAgrees DEF TobInit, AgreedInv
<1>2. ASSUME IInv /\ QuoteInv, AgreedInv, [TobNext]_tob_all_vars
      PROVE  AgreedInv'
  BY <1>2, StepKeepsAgreed
<1> QED
  BY <1>1, <1>2, QuoteInvariant, PTL DEF TobSpec

\* If no message is lost either, then until a key is used again too early the
\* table is the exchange's whenever nothing is on its way, for any number of
\* partial fills.
THEOREM TobAgrees ==
  ASSUME Answered, Told
  PROVE  TobSpec => []AgreesUnlessReused
<1>1. IInv /\ QuoteInv /\ AgreedInv => AgreesUnlessReused
  BY QuietAgrees DEF QuoteInv, AgreedInv, AgreesUnlessReused
<1> QED
  BY <1>1, AgreedInvariant, PTL

-----------------------------------------------------------------------------
(* The inductive invariant: the position and what was bought               *)

Trade == [id : Orders, after : Nat, had : Nat, has : Nat]

\* The order message tells of what the trade message does.
Tells(e, t) ==
  /\ e.id = t.id
  /\ t.has = IF e.type = "UPDATE_MATCHED" THEN TARGET_ORDER_SIZE ELSE e.size_matched
TellsAt(q, n, t) == n \in 1..Len(q) /\ Tells(q[n], t)

\* The order message has been handled, the trade message has not.
Loose(q, t) == ~TellsAt(q, t.after, t) /\ ~TellsAt(q, t.after + 1, t)

\* A trade message stands right before or after its order message.
TradesFollow ==
  \A i \in 1..Len(trade_after) :
    /\ trade_after[i].had < trade_after[i].has
    /\ trade_after[i].has <= matched(trade_after[i].id)
    /\ Loose(user_events, trade_after[i]) => trade_after[i].after = 0

\* The trades of an order are of different lots, the earlier of earlier ones.
DistinctTrades ==
  \A i, j \in 1..Len(trade_after) :
    (i < j /\ trade_after[i].id = trade_after[j].id) =>
      trade_after[i].has <= trade_after[j].had

OneLoose ==
  \A i, j \in 1..Len(trade_after) :
    (Loose(user_events, trade_after[i]) /\ Loose(user_events, trade_after[j])) => i = j

\* A taker's trade is of all of an order that filled without a trade message.
TakersFilled ==
  \A j \in 1..Len(user_events) : user_events[j].type = "TAKER_TRADE" =>
    /\ exch[user_events[j].id] = "filled"
    /\ \A i \in 1..Len(trade_after) : trade_after[i].id # user_events[j].id

\* An order not asked to be cancelled has its entry until the message about
\* its end is handled,
EndsTracked ==
  \A i \in 1..Len(user_events) :
    (user_events[i].type \in EndOfOrder /\ user_events[i].id \notin asked) =>
      open_orders[KeyOf[user_events[i].id]] = user_events[i].id

Ended(o) == exch[o] \in {"filled", "canceled"}

\* which comes after all others about it.
EndComes ==
  \A i \in 1..Len(user_events) : Ended(user_events[i].id) =>
    \E j \in i..Len(user_events) :
      user_events[j].id = user_events[i].id /\ user_events[j].type \in EndOfOrder

\* The trade of the lot has not been handled.
Pending(l) ==
  \/ \E i \in 1..Len(trade_after) :
       /\ trade_after[i].id = l[1]
       /\ trade_after[i].had < l[2] /\ l[2] <= trade_after[i].has
  \/ \E i \in 1..Len(user_events) :
       user_events[i].type = "TAKER_TRADE" /\ user_events[i].id = l[1]

Known(a) == {l \in BoughtLots(a) : ~Pending(l)}
Placed == {o \in Orders : exch[o] # "none"}

\* The position is what the handled trades make it.
Counted == \A a \in Assets : position[a] = Cardinality(Known(a))

TradesInv ==
  /\ trade_after \in Seq(Trade)
  /\ position \in [Assets -> Nat]
  /\ IsFiniteSet(Placed)
  /\ TradesFollow
  /\ DistinctTrades
  /\ OneLoose
  /\ TakersFilled
  /\ EndsTracked
  /\ EndComes
  /\ Counted

BoughtInv == ~reused => TradesInv

-----------------------------------------------------------------------------
(* Lots                                                                    *)

LEMMA TargetType == TARGET_ORDER_SIZE \in Nat \ {0} /\ MaxPartial < TARGET_ORDER_SIZE
BY OpenOrdersAssumption DEF TARGET_ORDER_SIZE

LEMMA MatchedType ==
  ASSUME IInv, NEW o \in Orders
  PROVE  matched(o) \in 0..TARGET_ORDER_SIZE
BY OpenOrdersAssumption DEF matched, TARGET_ORDER_SIZE, IInv, TypeOK

\* Lots of an order, the first of them one more than m.
LotsOf(x, m, n) == {x} \X ((m + 1)..n)

LEMMA LotFields ==
  ASSUME NEW l \in Lots
  PROVE  l[1] \in Orders /\ l[2] \in 1..TARGET_ORDER_SIZE /\ l = <<l[1], l[2]>>
BY DEF Lots

LEMMA LotsCounted ==
  ASSUME NEW x \in Orders, NEW m \in Nat, NEW n \in Nat, m <= n, n <= TARGET_ORDER_SIZE
  PROVE  /\ IsFiniteSet(LotsOf(x, m, n)) /\ Cardinality(LotsOf(x, m, n)) = n - m
         /\ LotsOf(x, m, n) = {l \in Lots : l[1] = x /\ m < l[2] /\ l[2] <= n}
<1>1. IsFiniteSet({x}) /\ Cardinality({x}) = 1
  BY FS_Singleton
<1>2. IsFiniteSet((m + 1)..n) /\ Cardinality((m + 1)..n) = n - m
  <2>1. PICK k \in Int : k = m + 1
    OBVIOUS
  <2>2. /\ IsFiniteSet(k..n)
        /\ Cardinality(k..n) = IF k > n THEN 0 ELSE n - k + 1
    BY FS_Interval
  <2> QED
    BY <2>1, <2>2
<1>3. IsFiniteSet(LotsOf(x, m, n)) /\ Cardinality(LotsOf(x, m, n)) = 1 * (n - m)
  <2> DEFINE T == (m + 1)..n
  <2>1. IsFiniteSet(T) /\ Cardinality(T) = n - m
    BY <1>2
  <2>2. LotsOf(x, m, n) = {x} \X T
    BY DEF LotsOf
  <2> HIDE DEF T
  <2>3. /\ IsFiniteSet({x} \X T)
        /\ Cardinality({x} \X T) = Cardinality({x}) * Cardinality(T)
    BY <1>1, <2>1, FS_Product
  <2> QED
    BY <1>1, <2>1, <2>2, <2>3
<1>4. LotsOf(x, m, n) = {l \in Lots : l[1] = x /\ m < l[2] /\ l[2] <= n}
  <2>1. ASSUME NEW l \in LotsOf(x, m, n)
        PROVE  l \in Lots /\ l[1] = x /\ m < l[2] /\ l[2] <= n
    <3>1. l = <<l[1], l[2]>> /\ l[1] = x /\ l[2] \in (m + 1)..n
      BY DEF LotsOf
    <3>2. l[2] \in 1..TARGET_ORDER_SIZE /\ m < l[2] /\ l[2] <= n
      BY <3>1, TargetType
    <3> QED
      BY <3>1, <3>2 DEF Lots
  <2>2. ASSUME NEW l \in Lots, l[1] = x, m < l[2], l[2] <= n
        PROVE  l \in LotsOf(x, m, n)
    <3>1. l = <<x, l[2]>> /\ l[2] \in (m + 1)..n
      BY <2>2, LotFields, TargetType
    <3> QED
      BY <3>1 DEF LotsOf
  <2> QED
    BY <2>1, <2>2
<1> QED
  BY <1>3, <1>4

\* No lots are of orders that have not been placed.
LEMMA LotsPlaced ==
  ASSUME IInv, FillsTold, IsFiniteSet(Placed)
  PROVE  /\ IsFiniteSet(Placed \X (1..TARGET_ORDER_SIZE))
         /\ \A a : BoughtLots(a) \subseteq Placed \X (1..TARGET_ORDER_SIZE)
         /\ \A a : Exposed(a) \subseteq Placed \X (1..TARGET_ORDER_SIZE)
         /\ \A a : OthersBought(a) \subseteq Placed \X (1..TARGET_ORDER_SIZE)
<1>1. IsFiniteSet(1..TARGET_ORDER_SIZE)
  BY TargetType, FS_Interval
<1>2. IsFiniteSet(Placed \X (1..TARGET_ORDER_SIZE))
  BY <1>1, FS_Product
<1>3. ASSUME NEW l \in Lots, exch[l[1]] = "none"
      PROVE  ~(l[2] <= matched(l[1])) /\ ~(l[2] <= Exposure(l[1]))
  <2>1. PICK o \in Orders : o = l[1]
    BY LotFields
  <2>2. exch_filled[o] = 0 /\ l[2] \in Nat \ {0}
    BY <1>3, <2>1, LotFields DEF FillsTold
  <2> QED
    BY <1>3, <2>1, <2>2 DEF matched, Exposure
<1>4. \A l \in Lots : exch[l[1]] # "none" => l \in Placed \X (1..TARGET_ORDER_SIZE)
  BY DEF Lots, Placed
<1>5. \A a : BoughtLots(a) \subseteq Placed \X (1..TARGET_ORDER_SIZE)
  BY <1>3, <1>4 DEF BoughtLots
<1>6. \A a : Exposed(a) \subseteq Placed \X (1..TARGET_ORDER_SIZE)
  BY <1>3, <1>4 DEF Exposed
<1>7. \A a : OthersBought(a) \subseteq Placed \X (1..TARGET_ORDER_SIZE)
  BY <1>5 DEF OthersBought
<1> QED
  BY <1>2, <1>5, <1>6, <1>7

LEMMA EventSize ==
  ASSUME NEW e \in Event
  PROVE  e.size_matched \in Nat
BY OpenOrdersAssumption DEF Event

LEMMA KnownFinite ==
  ASSUME IInv, FillsTold, IsFiniteSet(Placed), NEW a
  PROVE  IsFiniteSet(Known(a)) /\ Cardinality(Known(a)) \in Nat
<1>1. Known(a) \subseteq Placed \X (1..TARGET_ORDER_SIZE)
  BY LotsPlaced DEF Known
<1> QED
  BY <1>1, LotsPlaced, FS_Subset, FS_CardinalityType

-----------------------------------------------------------------------------
(* The two queues                                                          *)

\* What comes later makes nothing loose.
LEMMA LooseInAppended ==
  ASSUME NEW q \in Seq(Event), NEW e \in Event, NEW t, Loose(Append(q, e), t)
  PROVE  Loose(q, t)
<1>1. /\ Len(Append(q, e)) = Len(q) + 1 /\ Len(q) \in Nat
      /\ \A i \in 1..Len(q) : Append(q, e)[i] = q[i]
  BY QueueAppended
<1>2. \A n : TellsAt(q, n, t) => TellsAt(Append(q, e), n, t)
  BY <1>1 DEF TellsAt
<1> QED
  BY <1>2 DEF Loose

LEMMA TellsInTail ==
  ASSUME NEW q \in Seq(Event), q # <<>>, NEW n \in Nat, n # 0, NEW t
  PROVE  TellsAt(Tail(q), n, t) <=> TellsAt(q, n + 1, t)
<1>1. /\ Len(q) \in Nat \ {0} /\ Len(Tail(q)) = Len(q) - 1
      /\ \A i \in 1..(Len(q) - 1) : Tail(q)[i] = q[i + 1]
  BY QueueTail
<1> DEFINE r == Tail(q)
<1> HIDE DEF r
<1>2. CASE n \in 1..(Len(q) - 1)
  <2>1. n + 1 \in 1..Len(q) /\ r[n] = q[n + 1] /\ n \in 1..Len(r)
    BY <1>1, <1>2 DEF r
  <2> QED
    BY <2>1 DEF TellsAt, r
<1>3. CASE n \notin 1..(Len(q) - 1)
  <2>1. n + 1 \notin 1..Len(q) /\ n \notin 1..Len(r)
    BY <1>1, <1>3 DEF r
  <2> QED
    BY <2>1 DEF TellsAt, r
<1> QED
  BY <1>2, <1>3

LEMMA TradeType ==
  ASSUME NEW t \in Trade
  PROVE  t.id \in Orders /\ t.after \in Nat /\ t.had \in Nat /\ t.has \in Nat
BY DEF Trade

LEMMA TradeFields ==
  ASSUME TradesInv
  PROVE  /\ Len(trade_after) \in Nat
         /\ \A i \in 1..Len(trade_after) :
              /\ trade_after[i] \in Trade
              /\ trade_after[i].id \in Orders /\ trade_after[i].after \in Nat
              /\ trade_after[i].had \in Nat /\ trade_after[i].has \in Nat
<1>1. trade_after \in Seq(Trade)
  BY DEF TradesInv
<1> QED
  BY <1>1, TradeType, LenProperties, ElementOfSeq

LEMMA MessageFields ==
  ASSUME IInv
  PROVE  /\ user_events \in Seq(Event) /\ Len(user_events) \in Nat
         /\ \A i \in 1..Len(user_events) :
              user_events[i] \in Event /\ user_events[i].id \in Orders
BY LenProperties, ElementOfSeq, EventFields DEF IInv, TypeOK

-----------------------------------------------------------------------------
(* The steps                                                               *)

\* The table changes, or the exchange, but no message comes or goes and
\* nothing more is bought.
LEMMA QuietKeepsTrades ==
  ASSUME IInv, SettledInv, TradesInv, UNCHANGED <<position, trade_after, user_events>>,
         asked \subseteq asked',
         \A p \in Orders : matched(p)' = matched(p),
         \A p \in Orders : exch[p] = "filled" => exch'[p] = "filled",
         \A p \in Orders : Ended(p)' <=> Ended(p),
         \A p \in Orders : (Ended(p) /\ p \notin asked' /\ open_orders[KeyOf[p]] = p)
                             => open_orders'[KeyOf[p]] = p,
         IsFiniteSet(Placed)'
  PROVE  TradesInv'
<1>1. TradesFollow' /\ DistinctTrades' /\ OneLoose'
  BY TradeFields DEF TradesInv, TradesFollow, DistinctTrades, OneLoose
<1>2. TakersFilled' /\ EndComes'
  BY MessageFields DEF TradesInv, TakersFilled, EndComes
<1>3. EndsTracked'
  <2>1. ASSUME NEW i \in 1..Len(user_events), user_events[i].type \in EndOfOrder,
               user_events[i].id \notin asked'
        PROVE  open_orders'[KeyOf[user_events[i].id]] = user_events[i].id
    <3>1. PICK p \in Orders : p = user_events[i].id
      BY MessageFields
    <3>2. Ended(p)
      BY <2>1, <3>1 DEF SettledInv, EventsSound, EventOk, Ended
    <3>3. open_orders[KeyOf[p]] = p
      BY <2>1, <3>1 DEF TradesInv, EndsTracked
    <3> QED
      BY <2>1, <3>1, <3>2, <3>3
  <2> QED
    BY <2>1 DEF EndsTracked
<1>4. Counted'
  <2>1. ASSUME NEW a \in Assets
        PROVE  Known(a)' = Known(a)
    <3>1. \A l : Pending(l)' <=> Pending(l)
      BY DEF Pending
    <3>2. \A l \in Lots : l[1] \in Orders
      BY LotFields
    <3> QED
      BY <3>1, <3>2 DEF Known, BoughtLots, AssetOfOrder, Lots
  <2> QED
    BY <2>1 DEF TradesInv, Counted
<1> QED
  BY <1>1, <1>2, <1>3, <1>4 DEF TradesInv

\* The ends of orders, when a message about a tracked order comes.
LEMMA MessageKeepsEnds ==
  ASSUME IInv, SettledInv, TradesInv, UNCHANGED <<open_orders, asked>>,
         NEW o \in Orders, exch[o] \in {"inbound", "live"},
         NEW s \in {"live", "filled", "canceled"}, exch' = [exch EXCEPT ![o] = s],
         NEW e \in Event, e.id = o, user_events' = Append(user_events, e),
         s # "live" => e.type \in EndOfOrder
  PROVE  EndsTracked' /\ EndComes'
<1>1. /\ exch \in [Orders -> ExchState] /\ open_orders[KeyOf[o]] = o
  BY DEF IInv, TypeOK, SettledInv, Tracked
<1>2. /\ Len(user_events') = Len(user_events) + 1 /\ Len(user_events) \in Nat
      /\ user_events'[Len(user_events) + 1] = e
      /\ \A i \in 1..Len(user_events) : user_events'[i] = user_events[i]
  BY MessageFields, QueueAppended
<1>3. ASSUME NEW i \in 1..Len(user_events')
      PROVE  \/ i \in 1..Len(user_events) /\ user_events'[i] = user_events[i]
             \/ i = Len(user_events) + 1 /\ user_events'[i] = e
  BY <1>2
<1>4. EndsTracked'
  <2>1. ASSUME NEW i \in 1..Len(user_events'), user_events'[i].type \in EndOfOrder,
               user_events'[i].id \notin asked'
        PROVE  open_orders'[KeyOf[user_events'[i].id]] = user_events'[i].id
    <3>1. CASE i \in 1..Len(user_events) /\ user_events'[i] = user_events[i]
      BY <2>1, <3>1 DEF TradesInv, EndsTracked
    <3>2. CASE user_events'[i] = e
      BY <1>1, <3>2
    <3> QED
      BY <1>3, <3>1, <3>2
  <2> QED
    BY <2>1 DEF EndsTracked
<1>5. EndComes'
  <2>1. ASSUME NEW i \in 1..Len(user_events'),
               exch'[user_events'[i].id] \in {"filled", "canceled"}
        PROVE  \E j \in i..Len(user_events') : /\ user_events'[j].id = user_events'[i].id
                                               /\ user_events'[j].type \in EndOfOrder
    <3>1. CASE user_events'[i].id = o
      <4>1. e.type \in EndOfOrder
        BY <1>1, <2>1, <3>1 DEF Ended
      <4>2. Len(user_events) + 1 \in i..Len(user_events')
        BY <1>2
      <4> QED
        BY <1>2, <3>1, <4>1, <4>2
    <3>2. CASE user_events'[i].id # o
      <4>1. i \in 1..Len(user_events) /\ user_events'[i] = user_events[i]
        BY <1>3, <3>2
      <4>2. PICK p \in Orders : p = user_events[i].id
        BY <4>1, MessageFields
      <4>3. Ended(p)
        BY <1>1, <2>1, <3>2, <4>1, <4>2 DEF Ended
      <4>4. PICK j \in i..Len(user_events) :
              user_events[j].id = user_events[i].id /\ user_events[j].type \in EndOfOrder
        BY <4>1, <4>2, <4>3 DEF TradesInv, EndComes
      <4>5. j \in i..Len(user_events') /\ user_events'[j] = user_events[j]
        BY <1>2, <4>1
      <4> QED
        BY <4>1, <4>4, <4>5
    <3> QED
      BY <3>1, <3>2
  <2> QED
    BY <2>1 DEF EndComes, Ended
<1> QED
  BY <1>4, <1>5

\* A message comes without a trade message: nothing is matched, or all of
\* the order is and the message tells of that itself.
LEMMA MessageKeepsTrades ==
  ASSUME IInv, SettledInv, FillsTold, TradesInv,
         UNCHANGED <<open_orders, position, trade_after, asked, exch_filled>>,
         NEW o \in Orders, exch[o] \in {"inbound", "live"},
         NEW s \in {"live", "filled", "canceled"}, exch' = [exch EXCEPT ![o] = s],
         NEW e \in Event, e.id = o, user_events' = Append(user_events, e),
         s # "live" => e.type \in EndOfOrder,
         e.type = "TAKER_TRADE" <=> s = "filled", s = "filled" => exch[o] = "inbound"
  PROVE  TradesInv'
<1>1. exch \in [Orders -> ExchState]
  BY DEF IInv, TypeOK
<1>2. /\ Len(user_events') = Len(user_events) + 1 /\ Len(user_events) \in Nat
      /\ user_events'[Len(user_events) + 1] = e
      /\ \A i \in 1..Len(user_events) : user_events'[i] = user_events[i]
  BY MessageFields, QueueAppended
<1>3. ASSUME NEW i \in 1..Len(user_events')
      PROVE  \/ i \in 1..Len(user_events) /\ user_events'[i] = user_events[i]
             \/ i = Len(user_events) + 1 /\ user_events'[i] = e
  BY <1>2
<1>4. \A p \in Orders : exch[p] = "filled" => exch'[p] = "filled" /\ p # o
  BY <1>1
<1>5. \A p \in Orders : p # o \/ s # "filled" => matched(p)' = matched(p)
  BY <1>1 DEF matched
<1>6. s = "filled" => matched(o) = 0 /\ matched(o)' = TARGET_ORDER_SIZE
  BY <1>1 DEF matched, FillsTold
\* There is no trade message of an order of which nothing was matched.
<1>7. ASSUME s = "filled", NEW i \in 1..Len(trade_after)
      PROVE  trade_after[i].id # o
  BY <1>6, <1>7, TradeFields DEF TradesInv, TradesFollow
<1>8. TradesFollow' /\ DistinctTrades' /\ OneLoose'
  <2>1. \A i \in 1..Len(trade_after) :
          Loose(user_events', trade_after[i]) => Loose(user_events, trade_after[i])
    BY MessageFields, LooseInAppended
  <2>2. \A i \in 1..Len(trade_after) :
          matched(trade_after[i].id)' = matched(trade_after[i].id)
    BY <1>5, <1>7, TradeFields
  <2>3. TradesFollow'
    BY <2>1, <2>2 DEF TradesInv, TradesFollow
  <2>4. DistinctTrades'
    BY DEF TradesInv, DistinctTrades
  <2>5. OneLoose'
    BY <2>1 DEF TradesInv, OneLoose
  <2> QED
    BY <2>3, <2>4, <2>5
<1>9. TakersFilled'
  <2>1. ASSUME NEW i \in 1..Len(user_events'), user_events'[i].type = "TAKER_TRADE"
        PROVE  /\ exch'[user_events'[i].id] = "filled"
               /\ \A j \in 1..Len(trade_after) : trade_after[j].id # user_events'[i].id
    <3>1. CASE i \in 1..Len(user_events) /\ user_events'[i] = user_events[i]
      BY <1>4, <2>1, <3>1, MessageFields DEF TradesInv, TakersFilled
    <3>2. CASE user_events'[i] = e
      BY <1>1, <1>7, <2>1, <3>2
    <3> QED
      BY <1>3, <3>1, <3>2
  <2> QED
    BY <2>1 DEF TakersFilled
<1>10. EndsTracked' /\ EndComes'
  BY MessageKeepsEnds
<1>11. Counted'
  <2>1. ASSUME NEW l \in Lots, l[1] # o \/ s # "filled" PROVE Pending(l)' <=> Pending(l)
    <3>1. Pending(l)' => Pending(l)
      BY <1>3, <2>1 DEF Pending
    <3>2. Pending(l) => Pending(l)'
      BY <1>2 DEF Pending
    <3> QED
      BY <3>1, <3>2
  <2>2. ASSUME NEW l \in Lots, l[1] = o, s = "filled"
        PROVE  Pending(l)' /\ ~(l[2] <= matched(l[1]))
    <3>1. Pending(l)'
      BY <1>2, <2>2 DEF Pending
    <3> QED
      BY <1>6, <2>2, <3>1, LotFields
  <2>3. ASSUME NEW a \in Assets PROVE Known(a)' = Known(a)
    <3>1. ASSUME NEW l \in Lots
          PROVE  l \in Known(a)' <=> l \in Known(a)
      <4>1. CASE l[1] # o \/ s # "filled"
        BY <1>5, <2>1, <4>1, LotFields DEF Known, BoughtLots, AssetOfOrder, Lots
      <4>2. CASE l[1] = o /\ s = "filled"
        BY <2>2, <4>2 DEF Known, BoughtLots
      <4> QED
        BY <4>1, <4>2
    <3>2. Lots' = Lots
      BY DEF Lots, TARGET_ORDER_SIZE
    <3> QED
      BY <3>1, <3>2 DEF Known, BoughtLots
  <2> QED
    BY <2>3 DEF TradesInv, Counted
<1>12. Placed' = Placed
  BY <1>1 DEF Placed
<1> QED
  BY <1>8, <1>9, <1>10, <1>11, <1>12 DEF TradesInv

\* What the exchange does in a Fill, and the order message says.
LEMMA FillSteps ==
  ASSUME Told, IInv, SettledInv, FillsTold, NEW o \in Orders, Fill(o)
  PROVE  \E s \in {"live", "filled"}, e \in Event :
           /\ exch[o] \in {"inbound", "live"} /\ exch' = [exch EXCEPT ![o] = s]
           /\ UNCHANGED <<open_orders, position, asked>>
           /\ \A p \in Orders : p # o => matched(p)' = matched(p)
           /\ user_events' = Append(user_events, e)
           /\ e.id = o /\ e.type # "TAKER_TRADE"
           /\ s # "live" => e.type \in EndOfOrder
           /\ matched(o)' = IF e.type = "UPDATE_MATCHED" THEN TARGET_ORDER_SIZE
                                                         ELSE e.size_matched
           /\ matched(o) <= matched(o)' /\ matched(o)' <= TARGET_ORDER_SIZE
           /\ s = "live" /\ UNCHANGED matched(o) => UNCHANGED exch_filled
           /\ s # "live" => matched(o)' # matched(o)
<1> USE OpenOrdersAssumption DEF exch_vars, local_vars
<1>1. /\ exch \in [Orders -> ExchState] /\ exch_filled \in [Orders -> 0..MaxPartial]
      /\ exch_filled' \in [Orders -> 0..MaxPartial]
  BY StepKeepsIInv DEF IInv, TypeOK, Next, Fill, Exchange
<1>2. \A p \in Orders : exch_filled[p] \in 0..MaxPartial /\ exch_filled'[p] \in 0..MaxPartial
  BY <1>1
<1> DEFINE e(type) == Message(type, o, KeyOf[o])
<1>3. ASSUME NEW type \in EventType
      PROVE  e(type) \in Event /\ e(type).id = o /\ e(type).type = type
             /\ e(type).size_matched = exch_filled'[o]
  BY <1>1 DEF Event, Message
<1>4. CASE ExchAccept(o)
  <2>1. PICK part \in 0..MaxPartial : Rests(o, part)
    BY <1>4 DEF ExchAccept
  <2>2. /\ exch[o] = "inbound" /\ exch' = [exch EXCEPT ![o] = "live"]
        /\ exch_filled' = [exch_filled EXCEPT ![o] = part]
        /\ UNCHANGED <<open_orders, position, asked>>
    BY <1>4, <2>1 DEF Rests, Fill
  <2>3. user_events' = Append(user_events, e("PLACEMENT"))
    BY <1>4 DEF ExchAccept, Emit, Told
  <2>4. matched(o) = 0 /\ exch_filled[o] = 0 /\ matched(o)' = exch_filled'[o]
    BY <1>1, <2>2 DEF matched, FillsTold
  <2>5. \A p \in Orders : p # o => matched(p)' = matched(p)
    BY <1>1, <2>2 DEF matched
  <2>6. UNCHANGED matched(o) => UNCHANGED exch_filled
    BY <1>1, <2>2, <2>4
  <2>7. PICK x : x = e("PLACEMENT")
    OBVIOUS
  <2>8. /\ x \in Event /\ x.id = o /\ x.type = "PLACEMENT" /\ x.size_matched = exch_filled'[o]
        /\ user_events' = Append(user_events, x)
    BY <1>3, <2>3, <2>7 DEF EventType
  <2>9. matched(o) <= matched(o)' /\ matched(o)' <= TARGET_ORDER_SIZE
    BY <1>2, <2>4, TargetType
  <2> QED
    BY <2>2, <2>4, <2>5, <2>6, <2>8, <2>9
<1>5. CASE ExchPartialFill(o)
  <2>1. /\ exch[o] = "live" /\ UNCHANGED exch
        /\ exch_filled' = [exch_filled EXCEPT ![o] = exch_filled[o] + 1]
        /\ UNCHANGED <<open_orders, position, asked>>
    BY <1>5 DEF ExchPartialFill, Fill
  <2>2. user_events' = Append(user_events, e("UPDATE_LIVE"))
    BY <1>5 DEF ExchPartialFill, Emit, Told
  <2>3. matched(o) = exch_filled[o] /\ matched(o)' = exch_filled'[o]
        /\ exch_filled'[o] = exch_filled[o] + 1 /\ exch' = [exch EXCEPT ![o] = "live"]
    BY <1>1, <2>1 DEF matched
  <2>4. \A p \in Orders : p # o => matched(p)' = matched(p)
    BY <1>1, <2>1 DEF matched
  <2>5. PICK x : x = e("UPDATE_LIVE")
    OBVIOUS
  <2>6. /\ x \in Event /\ x.id = o /\ x.type = "UPDATE_LIVE" /\ x.size_matched = exch_filled'[o]
        /\ user_events' = Append(user_events, x)
    BY <1>3, <2>2, <2>5 DEF EventType
  <2>7. /\ matched(o) <= matched(o)' /\ matched(o)' <= TARGET_ORDER_SIZE
        /\ matched(o)' # matched(o)
    BY <1>2, <2>3, TargetType
  <2> QED
    BY <2>1, <2>3, <2>4, <2>6, <2>7
<1>6. CASE ExchFill(o)
  <2>1. /\ exch[o] = "live" /\ exch' = [exch EXCEPT ![o] = "filled"]
        /\ UNCHANGED <<open_orders, position, asked, exch_filled>>
    BY <1>6 DEF ExchFill, Fill
  <2>2. user_events' = Append(user_events, e("UPDATE_MATCHED"))
    BY <1>6 DEF ExchFill, Emit, Told
  <2>3. matched(o) = exch_filled[o] /\ matched(o)' = TARGET_ORDER_SIZE
    BY <1>1, <2>1 DEF matched
  <2>4. \A p \in Orders : p # o => matched(p)' = matched(p)
    BY <1>1, <2>1 DEF matched
  <2>5. PICK x : x = e("UPDATE_MATCHED")
    OBVIOUS
  <2>6. /\ x \in Event /\ x.id = o /\ x.type = "UPDATE_MATCHED"
        /\ user_events' = Append(user_events, x)
    BY <1>3, <2>2, <2>5 DEF EventType
  <2>7. /\ matched(o) <= matched(o)' /\ matched(o)' <= TARGET_ORDER_SIZE
        /\ matched(o)' # matched(o)
    BY <1>2, <2>3, TargetType
  <2> QED
    BY <2>1, <2>3, <2>4, <2>6, <2>7 DEF EndOfOrder
<1> QED
  BY <1>4, <1>5, <1>6 DEF Fill

\* Something of an order is bought as it rests: its two messages stand side
\* by side.
LEMMA FillKeepsTrades ==
  ASSUME Told, IInv, SettledInv, FillsTold, TradesInv, NEW o \in Orders, Fill(o)
  PROVE  TradesInv'
<1> DEFINE L == Len(user_events)
           K == Len(trade_after)
<1>1. PICK s \in {"live", "filled"}, e \in Event :
           /\ exch[o] \in {"inbound", "live"} /\ exch' = [exch EXCEPT ![o] = s]
           /\ UNCHANGED <<open_orders, position, asked>>
           /\ \A p \in Orders : p # o => matched(p)' = matched(p)
           /\ user_events' = Append(user_events, e)
           /\ e.id = o /\ e.type # "TAKER_TRADE"
           /\ s # "live" => e.type \in EndOfOrder
           /\ matched(o)' = IF e.type = "UPDATE_MATCHED" THEN TARGET_ORDER_SIZE
                                                         ELSE e.size_matched
           /\ matched(o) <= matched(o)' /\ matched(o)' <= TARGET_ORDER_SIZE
           /\ s = "live" /\ UNCHANGED matched(o) => UNCHANGED exch_filled
           /\ s # "live" => matched(o)' # matched(o)
  BY FillSteps
<1>2. CASE UNCHANGED matched(o)
  <2>1. UNCHANGED trade_after
    BY <1>2 DEF Fill
  <2>2. s = "live" /\ UNCHANGED exch_filled
    BY <1>1, <1>2
  <2> QED
    BY <1>1, <2>1, <2>2, MessageKeepsTrades
<1>3. CASE ~UNCHANGED matched(o)
  <2>1. /\ Len(user_events') = L + 1 /\ L \in Nat /\ user_events'[L + 1] = e
        /\ \A i \in 1..L : user_events'[i] = user_events[i]
    BY <1>1, MessageFields, QueueAppended
  <2>2. PICK n \in {L, L + 1} : trade_after' = Append(trade_after,
          [id |-> o, after |-> n, had |-> matched(o), has |-> matched(o)'])
    BY <1>3, <2>1 DEF Fill
  <2> DEFINE t == [id |-> o, after |-> n, had |-> matched(o), has |-> matched(o)']
  <2>3. matched(o) \in Nat /\ matched(o)' \in Nat /\ matched(o) < matched(o)'
    <3>1. PICK m \in 0..TARGET_ORDER_SIZE : m = matched(o)
      BY MatchedType
    <3>2. matched(o)' \in Nat
      BY <1>1, TargetType, EventSize
    <3> QED
      BY <1>1, <1>3, <3>1, <3>2, TargetType
  <2>4. t \in Trade /\ t.id = o /\ t.after = n /\ t.had = matched(o) /\ t.has = matched(o)'
    BY <2>1, <2>2, <2>3 DEF Trade
  <2> HIDE DEF t
  <2>5. /\ Len(trade_after') = K + 1 /\ K \in Nat /\ trade_after'[K + 1] = t
        /\ trade_after' \in Seq(Trade)
        /\ \A i \in 1..K : trade_after'[i] = trade_after[i]
    <3>1. trade_after \in Seq(Trade) /\ trade_after' = Append(trade_after, t)
      BY <2>2 DEF TradesInv, t
    <3> QED
      BY <2>4, <3>1, AppendProperties, LenProperties
  <2>6. ~Loose(user_events', t)
    <3>1. TellsAt(user_events', L + 1, t)
      BY <1>1, <2>1, <2>4 DEF TellsAt, Tells
    <3> QED
      BY <2>1, <2>2, <2>4, <3>1 DEF Loose
  <2> HIDE DEF L, K
  <2>7. \A i \in 1..K : Loose(user_events', trade_after'[i]) =>
                          Loose(user_events, trade_after[i])
    BY <1>1, <2>5, MessageFields, LooseInAppended
  <2>8. ASSUME NEW i \in 1..Len(trade_after')
        PROVE  \/ i \in 1..K /\ trade_after'[i] = trade_after[i]
               \/ i = K + 1 /\ trade_after'[i] = t
    BY <2>5
  <2>9. \A i \in 1..K :
          /\ trade_after[i].id \in Orders /\ trade_after[i].had \in Nat
          /\ trade_after[i].has \in Nat
          /\ trade_after[i].had < trade_after[i].has
          /\ trade_after[i].has <= matched(trade_after[i].id)
    BY TradeFields DEF TradesInv, TradesFollow, K
  <2>10. ASSUME NEW i \in 1..K, NEW p \in Orders, p = trade_after[i].id
         PROVE  trade_after[i].has <= matched(p)'
    <3>1. trade_after[i].has <= matched(p) /\ trade_after[i].has \in Nat
      BY <2>9, <2>10
    <3>2. CASE p = o
      <4>1. PICK m \in Nat : m = matched(o)
        BY <2>3
      <4>2. PICK k \in Nat : k = matched(o)'
        BY <2>3
      <4>3. m < k /\ trade_after[i].has <= m
        BY <2>3, <3>1, <3>2, <4>1, <4>2
      <4>4. trade_after[i].has <= k
        BY <3>1, <4>3
      <4> QED
        BY <3>2, <4>2, <4>4
    <3>3. CASE p # o
      BY <1>1, <3>1, <3>3
    <3> QED
      BY <3>2, <3>3
  <2>11. TradesFollow'
    <3>1. ASSUME NEW i \in 1..Len(trade_after')
          PROVE  \E p \in Orders :
                   /\ p = trade_after'[i].id
                   /\ trade_after'[i].had < trade_after'[i].has
                   /\ trade_after'[i].has <= matched(p)'
                   /\ Loose(user_events', trade_after'[i]) => trade_after'[i].after = 0
      <4>1. CASE i \in 1..K /\ trade_after'[i] = trade_after[i]
        <5>1. PICK p \in Orders : p = trade_after[i].id
          BY <2>9, <4>1
        <5>2. trade_after[i].has <= matched(p)'
          BY <2>10, <4>1, <5>1
        <5> QED
          BY <2>7, <2>9, <4>1, <5>1, <5>2 DEF TradesInv, TradesFollow, K
      <4>2. CASE trade_after'[i] = t
        <5>1. PICK k \in Nat : k = matched(o)'
          BY <2>3
        <5> QED
          BY <2>3, <2>4, <2>6, <4>2, <5>1
      <4> QED
        BY <2>8, <4>1, <4>2
    <3> QED
      BY <3>1 DEF TradesFollow, matched
  <2>12. DistinctTrades'
    <3>1. ASSUME NEW i \in 1..Len(trade_after'), NEW j \in 1..Len(trade_after'), i < j,
                 trade_after'[i].id = trade_after'[j].id
          PROVE  trade_after'[i].has <= trade_after'[j].had
      <4>1. i \in 1..K /\ trade_after'[i] = trade_after[i]
        BY <2>5, <3>1
      <4>2. CASE j \in 1..K
        BY <2>5, <3>1, <4>1, <4>2 DEF TradesInv, DistinctTrades, K
      <4>3. CASE j = K + 1
        BY <2>4, <2>5, <2>9, <3>1, <4>1, <4>3
      <4> QED
        BY <2>5, <4>2, <4>3
    <3> QED
      BY <3>1 DEF DistinctTrades
  <2>13. OneLoose'
    <3>1. ASSUME NEW i \in 1..Len(trade_after'), NEW j \in 1..Len(trade_after'),
                 Loose(user_events', trade_after'[i]), Loose(user_events', trade_after'[j])
          PROVE  i = j
      <4>1. i \in 1..K /\ j \in 1..K
        BY <2>6, <2>8, <3>1
      <4>2. Loose(user_events, trade_after[i]) /\ Loose(user_events, trade_after[j])
        BY <2>7, <3>1, <4>1
      <4> QED
        BY <4>1, <4>2 DEF TradesInv, OneLoose, K
    <3> QED
      BY <3>1 DEF OneLoose
  <2>14. exch \in [Orders -> ExchState]
    BY DEF IInv, TypeOK
  <2>15. TakersFilled'
    <3>1. ASSUME NEW i \in 1..Len(user_events'), user_events'[i].type = "TAKER_TRADE"
          PROVE  /\ exch'[user_events'[i].id] = "filled"
                 /\ \A j \in 1..Len(trade_after') : trade_after'[j].id # user_events'[i].id
      <4>1. i \in 1..L /\ user_events'[i] = user_events[i]
        BY <1>1, <2>1, <3>1
      <4>2. PICK p \in Orders : p = user_events[i].id
        BY <4>1, MessageFields DEF L
      <4>3. exch[p] = "filled" /\ \A j \in 1..K : trade_after[j].id # p
        BY <3>1, <4>1, <4>2 DEF TradesInv, TakersFilled, L, K
      <4>4. p # o /\ exch'[p] = "filled"
        BY <1>1, <2>14, <4>3
      <4>5. ASSUME NEW j \in 1..Len(trade_after') PROVE trade_after'[j].id # p
        BY <2>4, <2>8, <4>3, <4>4
      <4> QED
        BY <4>1, <4>2, <4>4, <4>5
    <3> QED
      BY <3>1 DEF TakersFilled
  <2>16. EndsTracked' /\ EndComes'
    BY <1>1, MessageKeepsEnds
  <2>17. Counted'
    <3>1. ASSUME NEW l \in Lots
          PROVE  Pending(l)' <=> (Pending(l) \/ (l[1] = o /\ matched(o) < l[2]
                                                          /\ l[2] <= matched(o)'))
      <4>1. Pending(l)' => Pending(l) \/ (l[1] = o /\ matched(o) < l[2] /\ l[2] <= matched(o)')
        BY <1>1, <2>1, <2>4, <2>8 DEF Pending, L, K
      <4>2. Pending(l) => Pending(l)'
        BY <2>1, <2>5 DEF Pending, L, K
      <4>3. (l[1] = o /\ matched(o) < l[2] /\ l[2] <= matched(o)') => Pending(l)'
        <5>1. K + 1 \in 1..Len(trade_after')
          BY <2>5
        <5> QED
          BY <2>4, <2>5, <5>1 DEF Pending
      <4> QED
        BY <4>1, <4>2, <4>3
    <3>2. ASSUME NEW a \in Assets PROVE Known(a)' = Known(a)
      <4>1. ASSUME NEW l \in Lots
            PROVE  (l[2] <= matched(l[1])' /\ ~Pending(l)') <=> (l[2] <= matched(l[1]) /\ ~Pending(l))
        <5>1. l[1] \in Orders /\ l[2] \in Nat
          BY LotFields, TargetType
        <5>2. CASE l[1] # o
          <6>1. matched(l[1])' = matched(l[1])
            BY <1>1, <5>1, <5>2
          <6> QED
            BY <3>1, <5>2, <6>1
        <5>3. CASE l[1] = o
          <6>1. PICK m \in Nat : m = matched(o)
            BY <2>3
          <6>2. PICK k \in Nat : k = matched(o)'
            BY <2>3
          <6>3. m < k
            BY <2>3, <6>1, <6>2
          <6> QED
            BY <3>1, <5>1, <5>3, <6>1, <6>2, <6>3
        <5> QED
          BY <5>2, <5>3
      <4>2. Lots' = Lots
        BY DEF Lots, TARGET_ORDER_SIZE
      <4> QED
        BY <4>1, <4>2 DEF Known, BoughtLots, AssetOfOrder
    <3> QED
      BY <1>1, <3>2 DEF TradesInv, Counted
  <2>18. Placed' = Placed
    BY <1>1, <2>14 DEF Placed
  <2>19. position' \in [Assets -> Nat] /\ IsFiniteSet(Placed')
    BY <1>1, <2>18 DEF TradesInv
  <2> QED
    BY <2>5, <2>11, <2>12, <2>13, <2>15, <2>16, <2>17, <2>19 DEF TradesInv
<1> QED
  BY <1>2, <1>3

\* The trade of the lots m + 1 .. n of an order is handled.
LEMMA TradeCounted ==
  ASSUME IInv, FillsTold, TradesInv, NEW x \in Orders, UNCHANGED <<exch, exch_filled>>,
         NEW m \in Nat, NEW n \in Nat, m <= n, n <= matched(x), Bought(x, n - m),
         \A l \in LotsOf(x, m, n) : Pending(l),
         \A l \in Lots : Pending(l)' <=> (Pending(l) /\ l \notin LotsOf(x, m, n))
  PROVE  Counted' /\ position' \in [Assets -> Nat]
<1> USE OpenOrdersAssumption, OrderAssetsAssumption
<1> DEFINE a == AssetOfOrder(x)
           S == LotsOf(x, m, n)
<1>1. a \in Assets /\ position \in [Assets -> Nat]
  BY DEF AssetOfOrder, TradesInv
<1>2. n <= TARGET_ORDER_SIZE
  <2>1. PICK k \in 0..TARGET_ORDER_SIZE : k = matched(x)
    BY MatchedType
  <2> QED
    BY <2>1, TargetType
<1>3. /\ IsFiniteSet(S) /\ Cardinality(S) = n - m
      /\ S = {l \in Lots : l[1] = x /\ m < l[2] /\ l[2] <= n}
  BY <1>2, LotsCounted
<1>4. position' = [position EXCEPT ![a] = position[a] + (n - m)]
  BY DEF Bought
<1>5. ASSUME NEW b PROVE BoughtLots(b)' = BoughtLots(b)
  <2>1. \A o \in Orders : matched(o)' = matched(o)
    BY DEF matched
  <2>2. \A l \in Lots : matched(l[1])' = matched(l[1])
    BY <2>1, LotFields
  <2>3. Lots' = Lots
    BY DEF Lots, TARGET_ORDER_SIZE
  <2> QED
    BY <2>2, <2>3 DEF BoughtLots, AssetOfOrder
<1>6. S \subseteq BoughtLots(a)
  <2>1. ASSUME NEW l \in S PROVE l \in BoughtLots(a)
    <3>1. PICK k \in 0..TARGET_ORDER_SIZE : k = matched(x)
      BY MatchedType
    <3>2. l \in Lots /\ l[1] = x /\ l[2] <= n
      BY <1>3, <2>1
    <3>3. l[2] <= k
      BY <3>1, <3>2, LotFields, TargetType
    <3> QED
      BY <3>1, <3>2, <3>3 DEF BoughtLots
  <2> QED
    BY <2>1
<1>7. BoughtLots(a) \subseteq Lots /\ \A b : BoughtLots(b) \subseteq Lots
  BY DEF BoughtLots
<1>8. Known(a) \cap S = {} /\ Known(a)' = Known(a) \cup S
  BY <1>5, <1>6, <1>7 DEF Known
<1>9. ASSUME NEW b \in Assets, b # a PROVE Known(b)' = Known(b)
  <2>1. \A l \in S : AssetOfOrder(l[1]) = a
    BY <1>3
  <2>2. \A l \in BoughtLots(b) : l \notin S
    BY <1>9, <2>1 DEF BoughtLots
  <2> QED
    BY <1>5, <1>7, <2>2 DEF Known
<1> HIDE DEF a, S
<1>10. Cardinality(Known(a)') = Cardinality(Known(a)) + (n - m)
  <2>1. /\ IsFiniteSet(Known(a)) /\ Cardinality(Known(a)) \in Nat
    BY KnownFinite DEF TradesInv
  <2>2. Cardinality(Known(a) \cup S) =
          Cardinality(Known(a)) + Cardinality(S) - Cardinality(Known(a) \cap S)
    BY <1>3, <2>1, FS_Union
  <2>3. Cardinality(Known(a) \cap S) = 0
    BY <1>8, FS_EmptySet
  <2> QED
    BY <1>3, <1>8, <2>1, <2>2, <2>3
<1>11. \A b \in Assets : position[b] = Cardinality(Known(b))
  BY DEF TradesInv, Counted
<1>12. ASSUME NEW b \in Assets PROVE position'[b] = Cardinality(Known(b)')
  <2>1. CASE b = a
    BY <1>1, <1>4, <1>10, <1>11, <2>1
  <2>2. CASE b # a
    BY <1>1, <1>4, <1>9, <1>11, <2>2
  <2> QED
    BY <2>1, <2>2
<1>13. position' \in [Assets -> Nat]
  BY <1>1, <1>4
<1> QED
  BY <1>12, <1>13 DEF Counted

LEMMA HandleTradeKeepsTrades ==
  ASSUME IInv, FillsTold, TradesInv, HandleTrade
  PROVE  TradesInv'
<1> DEFINE K == Len(trade_after)
           x == trade_after[1].id
           m == trade_after[1].had
           n == trade_after[1].has
<1>1. /\ UNCHANGED <<exch, exch_filled, open_orders, user_events, asked>>
      /\ trade_after \in Seq(Trade) /\ trade_after # <<>>
      /\ trade_after' = Tail(trade_after)
      /\ Bought(Head(trade_after).id, Head(trade_after).has - Head(trade_after).had)
  BY DEF HandleTrade, vars, exch_vars, local_vars, TradesInv
<1>2. /\ K \in Nat \ {0} /\ Len(trade_after') = K - 1
      /\ trade_after' \in Seq(Trade) /\ Head(trade_after) = trade_after[1]
      /\ \A i \in 1..(K - 1) : trade_after'[i] = trade_after[i + 1] /\ i + 1 \in 1..K
  BY <1>1, HeadTailProperties, LenProperties, EmptySeq
<1>3. 1 \in 1..K /\ x \in Orders /\ m \in Nat /\ n \in Nat /\ m < n /\ n <= matched(x)
  BY <1>2, TradeFields DEF TradesInv, TradesFollow
<1>4. Bought(x, n - m)
  BY <1>1, <1>2
<1>5. \A i \in 1..K : /\ trade_after[i].had \in Nat /\ trade_after[i].has \in Nat
                      /\ trade_after[i].had < trade_after[i].has
  BY TradeFields DEF TradesInv, TradesFollow
<1> HIDE DEF K
<1>6. ASSUME NEW i \in 1..(K - 1), trade_after[i + 1].id = x
      PROVE  n <= trade_after[i + 1].had
  <2>1. 1 \in 1..K /\ i + 1 \in 1..K /\ 1 < i + 1
    BY <1>2
  <2> QED
    BY <1>6, <2>1 DEF TradesInv, DistinctTrades, K
<1>7. \A j \in 1..Len(user_events) :
        user_events[j].type = "TAKER_TRADE" => user_events[j].id # x
  BY <1>3 DEF TradesInv, TakersFilled, K
<1> HIDE DEF x, m, n
<1>8. LotsOf(x, m, n) = {l \in Lots : l[1] = x /\ m < l[2] /\ l[2] <= n}
  <2>1. PICK k \in 0..TARGET_ORDER_SIZE : k = matched(x)
    BY <1>3, MatchedType
  <2>2. n <= TARGET_ORDER_SIZE /\ m <= n
    BY <1>3, <2>1, TargetType
  <2> QED
    BY <1>3, <2>2, LotsCounted
<1>9. \A l \in LotsOf(x, m, n) : Pending(l)
  BY <1>3, <1>8 DEF Pending, K, x, m, n
<1>10. ASSUME NEW l \in Lots PROVE Pending(l)' <=> (Pending(l) /\ l \notin LotsOf(x, m, n))
  <2>0. l[2] \in Nat
    BY LotFields, TargetType
  <2>1. ASSUME Pending(l)' PROVE Pending(l) /\ l \notin LotsOf(x, m, n)
    <3>1. ASSUME NEW i \in 1..(K - 1), trade_after[i + 1].id = l[1],
                 trade_after[i + 1].had < l[2], l[2] <= trade_after[i + 1].has
          PROVE  Pending(l) /\ l \notin LotsOf(x, m, n)
      <4>1. i + 1 \in 1..K
        BY <1>2
      <4>2. Pending(l)
        BY <3>1, <4>1 DEF Pending, K
      <4>3. ASSUME l[1] = x PROVE ~(l[2] <= n)
        BY <1>3, <1>5, <1>6, <2>0, <3>1, <4>1, <4>3
      <4> QED
        BY <1>8, <4>2, <4>3
    <3>2. ASSUME NEW j \in 1..Len(user_events),
                 user_events[j].type = "TAKER_TRADE", user_events[j].id = l[1]
          PROVE  Pending(l) /\ l \notin LotsOf(x, m, n)
      BY <1>7, <1>8, <3>2 DEF Pending
    <3>3. \/ \E i \in 1..(K - 1) :
               /\ trade_after[i + 1].id = l[1]
               /\ trade_after[i + 1].had < l[2] /\ l[2] <= trade_after[i + 1].has
          \/ \E j \in 1..Len(user_events) :
               user_events[j].type = "TAKER_TRADE" /\ user_events[j].id = l[1]
      BY <1>1, <1>2, <2>1 DEF Pending
    <3> QED
      BY <3>1, <3>2, <3>3
  <2>2. ASSUME Pending(l), l \notin LotsOf(x, m, n) PROVE Pending(l)'
    <3>1. ASSUME NEW i \in 1..K, trade_after[i].id = l[1],
                 trade_after[i].had < l[2], l[2] <= trade_after[i].has
          PROVE  Pending(l)'
      <4>1. i # 1
        BY <1>8, <2>2, <3>1 DEF x, m, n
      <4>2. i - 1 \in 1..(K - 1) /\ (i - 1) + 1 = i
        BY <1>2, <4>1
      <4>3. trade_after'[i - 1] = trade_after[i] /\ i - 1 \in 1..Len(trade_after')
        BY <1>2, <4>2
      <4> QED
        BY <3>1, <4>3 DEF Pending
    <3>2. ASSUME NEW j \in 1..Len(user_events),
                 user_events[j].type = "TAKER_TRADE", user_events[j].id = l[1]
          PROVE  Pending(l)'
      BY <1>1, <3>2 DEF Pending
    <3> QED
      BY <2>2, <3>1, <3>2 DEF Pending, K
  <2> QED
    BY <2>1, <2>2
<1>11. Counted' /\ position' \in [Assets -> Nat]
  <2>1. m <= n
    BY <1>3
  <2> QED
    BY <1>1, <1>3, <1>4, <1>9, <1>10, <2>1, TradeCounted
<1>12. TradesFollow'
  <2>1. ASSUME NEW i \in 1..Len(trade_after')
        PROVE  \E p \in Orders :
                 /\ p = trade_after'[i].id /\ matched(p)' = matched(p)
                 /\ trade_after'[i].had < trade_after'[i].has
                 /\ trade_after'[i].has <= matched(p)
                 /\ Loose(user_events', trade_after'[i]) => trade_after'[i].after = 0
    <3>1. trade_after'[i] = trade_after[i + 1] /\ i + 1 \in 1..K
      BY <1>2
    <3>2. PICK p \in Orders : p = trade_after[i + 1].id
      BY <3>1, TradeFields DEF K
    <3>3. matched(p)' = matched(p)
      BY <1>1 DEF matched
    <3> QED
      BY <1>1, <3>1, <3>2, <3>3 DEF TradesInv, TradesFollow, K
  <2> QED
    BY <2>1 DEF TradesFollow, matched
<1>13. DistinctTrades'
  <2>1. ASSUME NEW i \in 1..(K - 1), NEW j \in 1..(K - 1), i < j,
               trade_after'[i].id = trade_after'[j].id
        PROVE  trade_after'[i].has <= trade_after'[j].had
    <3>1. i + 1 \in 1..K /\ j + 1 \in 1..K /\ i + 1 < j + 1
      BY <1>2, <2>1
    <3> QED
      BY <1>2, <2>1, <3>1 DEF TradesInv, DistinctTrades, K
  <2>2. Len(trade_after') = K - 1
    BY <1>2
  <2> QED
    BY <2>1, <2>2 DEF DistinctTrades
<1>14. OneLoose'
  <2>1. ASSUME NEW i \in 1..(K - 1), NEW j \in 1..(K - 1),
               Loose(user_events, trade_after[i + 1]), Loose(user_events, trade_after[j + 1])
        PROVE  i = j
    <3>1. i + 1 = j + 1
      BY <1>2, <2>1 DEF TradesInv, OneLoose, K
    <3> QED
      BY <1>2, <3>1
  <2> QED
    BY <1>1, <1>2, <2>1 DEF OneLoose
<1>15. TakersFilled' /\ EndsTracked' /\ EndComes'
  BY <1>1, <1>2 DEF TradesInv, TakersFilled, EndsTracked, EndComes, Ended, K
<1>16. IsFiniteSet(Placed)'
  BY <1>1 DEF TradesInv, Placed
<1> QED
  BY <1>2, <1>11, <1>12, <1>13, <1>14, <1>15, <1>16 DEF TradesInv

\* A message of the user channel is handled, and those of trades move up.
LEMMA HandleKeepsTrades ==
  ASSUME IInv, SettledInv, FillsTold, TradesInv, TobUserEvent
  PROVE  TradesInv'
<1> USE OpenOrdersAssumption
<1> DEFINE L == Len(user_events)
           K == Len(trade_after)
<1>1. /\ UNCHANGED <<exch, exch_filled, asked>> /\ HandleUserEvent
      /\ user_events \in Seq(Event) /\ user_events # <<>>
      /\ user_events' = Tail(user_events)
      /\ trade_after \in Seq(Trade)
      /\ \A i \in DOMAIN trade_after : trade_after[i].after > 0
      /\ trade_after' = [i \in DOMAIN trade_after |->
                           [trade_after[i] EXCEPT !.after = @ - 1]]
  BY MessageFields DEF TobUserEvent, HandleUserEvent, exch_vars, TradesInv
<1>2. /\ L \in Nat \ {0} /\ Len(user_events') = L - 1
      /\ user_events[1] = Head(user_events) /\ Head(user_events) \in Event
      /\ \A i \in 1..(L - 1) : user_events'[i] = user_events[i + 1] /\ i + 1 \in 1..L
  BY <1>1, QueueTail
<1>3. DOMAIN trade_after = 1..K /\ K \in Nat
  BY <1>1, LenProperties
<1>4. ASSUME NEW i \in 1..K
      PROVE  /\ trade_after[i] \in Trade /\ trade_after[i].after \in Nat \ {0}
             /\ trade_after'[i].id = trade_after[i].id
             /\ trade_after'[i].had = trade_after[i].had
             /\ trade_after'[i].has = trade_after[i].has
             /\ trade_after'[i].after = trade_after[i].after - 1
             /\ trade_after'[i] \in Trade
  <2>1. trade_after[i] \in Trade /\ trade_after[i].after > 0
    BY <1>1, <1>3, TradeFields
  <2>2. PICK t \in Trade : t = trade_after[i]
    BY <2>1
  <2>3. trade_after'[i] = [t EXCEPT !.after = t.after - 1]
    BY <1>1, <1>3, <2>2
  <2>4. t.after - 1 \in Nat /\ t.after \in Nat \ {0}
    BY <2>1, <2>2, TradeType
  <2>5. /\ [t EXCEPT !.after = t.after - 1] \in Trade
        /\ [t EXCEPT !.after = t.after - 1].id = t.id
        /\ [t EXCEPT !.after = t.after - 1].had = t.had
        /\ [t EXCEPT !.after = t.after - 1].has = t.has
        /\ [t EXCEPT !.after = t.after - 1].after = t.after - 1
    BY <2>4 DEF Trade
  <2> QED
    BY <2>2, <2>3, <2>4, <2>5
<1>5. trade_after' \in Seq(Trade) /\ Len(trade_after') = K
  <2>1. trade_after' = [i \in 1..K |-> trade_after'[i]]
    BY <1>1, <1>3
  <2>2. \A i \in 1..K : trade_after'[i] \in Trade
    BY <1>4
  <2>3. trade_after' \in [1..K -> Trade]
    BY <2>1, <2>2
  <2>4. trade_after' \in Seq(Trade)
    BY <1>3, <2>3, SeqDef
  <2> QED
    BY <1>3, <2>1, <2>4, LenProperties, <2>3
<1>6. PICK e \in Event : e = Head(user_events)
  BY <1>2
<1>7. e.id \in Orders /\ e = user_events[1]
  BY <1>2, <1>6, EventFields
<1> HIDE DEF L, K
\* What an order message tells of a trade is also told of its image.
<1>8. ASSUME NEW i \in 1..K, NEW q, NEW n
      PROVE  TellsAt(q, n, trade_after'[i]) <=> TellsAt(q, n, trade_after[i])
  BY <1>4 DEF TellsAt, Tells
\* No trade was loose before; what is now was next to the message handled.
<1>9. ASSUME NEW i \in 1..K, Loose(user_events', trade_after'[i])
      PROVE  trade_after'[i].after = 0 /\ Tells(e, trade_after[i])
  <2>1. PICK n \in Nat \ {0} : n = trade_after[i].after
    BY <1>4
  <2>2. PICK t : t = trade_after[i]
    OBVIOUS
  <2>3. ~Loose(user_events, t)
    BY <1>4, <2>2 DEF TradesInv, TradesFollow, K
  <2>4. TellsAt(user_events, n, t) \/ TellsAt(user_events, n + 1, t)
    BY <2>1, <2>2, <2>3 DEF Loose
  <2>5. trade_after'[i].after = n - 1 /\ (n - 1) + 1 = n
    BY <1>4, <2>1
  <2>6. ~TellsAt(user_events', n - 1, trade_after'[i]) /\ ~TellsAt(user_events', n, trade_after'[i])
    BY <1>9, <2>5 DEF Loose
  <2>7. ~TellsAt(user_events', n - 1, t) /\ ~TellsAt(user_events', n, t)
    BY <1>8, <2>2, <2>6
  <2>8. ~TellsAt(user_events, n + 1, t)
    BY <1>1, <2>7, TellsInTail
  <2>9. n = 1
    <3>1. ASSUME n # 1 PROVE FALSE
      <4>1. n - 1 \in Nat /\ n - 1 # 0
        BY <2>1, <3>1
      <4>2. TellsAt(Tail(user_events), n - 1, t) <=> TellsAt(user_events, (n - 1) + 1, t)
        BY <1>1, <4>1, TellsInTail
      <4> QED
        BY <1>1, <2>4, <2>5, <2>7, <2>8, <4>2
    <3> QED
      BY <3>1
  <2>10. Tells(e, t)
    BY <1>7, <2>4, <2>8, <2>9 DEF TellsAt
  <2> QED
    BY <2>2, <2>5, <2>9, <2>10
<1>10. TradesFollow'
  <2>1. ASSUME NEW i \in 1..K
        PROVE  \E p \in Orders :
                 /\ p = trade_after'[i].id /\ matched(p)' = matched(p)
                 /\ trade_after'[i].had < trade_after'[i].has
                 /\ trade_after'[i].has <= matched(p)
                 /\ Loose(user_events', trade_after'[i]) => trade_after'[i].after = 0
    <3>1. PICK p \in Orders : p = trade_after[i].id
      BY TradeFields DEF K
    <3>2. matched(p)' = matched(p)
      BY <1>1 DEF matched
    <3>3. trade_after[i].had < trade_after[i].has /\ trade_after[i].has <= matched(p)
      BY <3>1 DEF TradesInv, TradesFollow, K
    <3> QED
      BY <1>4, <1>9, <3>1, <3>2, <3>3
  <2> QED
    BY <1>5, <2>1 DEF TradesFollow, matched
<1>11. DistinctTrades'
  BY <1>4, <1>5 DEF TradesInv, DistinctTrades, K
<1>12. OneLoose'
  <2>1. ASSUME NEW i \in 1..K, NEW j \in 1..K, i < j,
               Loose(user_events', trade_after'[i]), Loose(user_events', trade_after'[j])
        PROVE  FALSE
    <3>1. Tells(e, trade_after[i]) /\ Tells(e, trade_after[j])
      BY <1>9, <2>1
    <3>2. trade_after[i].id = trade_after[j].id /\ trade_after[i].has = trade_after[j].has
      BY <3>1 DEF Tells
    <3>3. trade_after[i].has <= trade_after[j].had
      BY <2>1, <3>2 DEF TradesInv, DistinctTrades, K
    <3>4. trade_after[j].had < trade_after[j].has
      BY DEF TradesInv, TradesFollow, K
    <3>5. trade_after[j].had \in Nat /\ trade_after[j].has \in Nat
      BY TradeFields DEF K
    <3> QED
      BY <3>2, <3>3, <3>4, <3>5
  <2> QED
    BY <1>3, <1>5, <2>1 DEF OneLoose
<1>13. TakersFilled'
  <2>1. ASSUME NEW j \in 1..(L - 1), user_events'[j].type = "TAKER_TRADE"
        PROVE  /\ exch[user_events'[j].id] = "filled"
               /\ \A i \in 1..K : trade_after'[i].id # user_events'[j].id
    <3>1. j + 1 \in 1..L /\ user_events'[j] = user_events[j + 1]
      BY <1>2
    <3>2. /\ exch[user_events[j + 1].id] = "filled"
          /\ \A i \in 1..K : trade_after[i].id # user_events[j + 1].id
      BY <2>1, <3>1 DEF TradesInv, TakersFilled, L, K
    <3> QED
      BY <1>4, <3>1, <3>2
  <2> QED
    BY <1>1, <1>2, <1>5, <2>1 DEF TakersFilled
<1>14. EndsTracked'
  <2>1. ASSUME NEW j \in 1..(L - 1), user_events'[j].type \in EndOfOrder,
               user_events'[j].id \notin asked
        PROVE  open_orders'[KeyOf[user_events'[j].id]] = user_events'[j].id
    <3>1. PICK i \in 1..L : i = j + 1 /\ user_events'[j] = user_events[i]
      BY <1>2, <2>1
    <3>2. PICK p \in Orders : p = user_events[i].id
      BY <3>1, MessageFields DEF L
    <3>3. open_orders[KeyOf[p]] = p
      BY <2>1, <3>1, <3>2 DEF TradesInv, EndsTracked, L
    <3>4. UNCHANGED open_orders \/ (e.type \in EndOfOrder /\ remove_order_entry(e.key))
      BY <1>1, <1>6 DEF HandleUserEvent, user_placement, user_update_live, user_end_of_order
    <3>5. ASSUME e.type \in EndOfOrder, remove_order_entry(e.key)
          PROVE  open_orders'[KeyOf[p]] = p
      <4>1. e.key = KeyOf[e.id] /\ 1 \in 1..L /\ 1 < i
        BY <1>2, <1>7, <2>1, <3>1 DEF SettledInv, EventsSound, EventOk, L
      <4>2. p # e.id
        BY <1>7, <3>1, <3>2, <3>5, <4>1 DEF SettledInv, EndIsLast, L
      <4>3. Current(p) /\ Current(e.id)
        BY <1>7, <3>3, <4>1 DEF Current, L
      <4>4. KeyOf[p] # e.key
        BY <1>7, <4>1, <4>2, <4>3 DEF SettledInv, OneAtAKey
      <4>5. open_orders \in [Keys -> Orders \cup {NoOrder}]
        BY DEF IInv, TypeOK
      <4> QED
        BY <3>3, <3>5, <4>4, <4>5 DEF remove_order_entry
    <3>6. open_orders'[KeyOf[p]] = p
      BY <3>3, <3>4, <3>5
    <3> QED
      BY <3>1, <3>2, <3>6
  <2> QED
    BY <1>1, <1>2, <2>1 DEF EndsTracked
<1>15. EndComes'
  <2>1. ASSUME NEW i \in 1..(L - 1), exch[user_events'[i].id] \in {"filled", "canceled"}
        PROVE  \E j \in i..(L - 1) : /\ user_events'[j].id = user_events'[i].id
                                     /\ user_events'[j].type \in EndOfOrder
    <3>1. i + 1 \in 1..L /\ user_events'[i] = user_events[i + 1]
      BY <1>2
    <3>2. PICK j \in (i + 1)..L :
            /\ user_events[j].id = user_events[i + 1].id
            /\ user_events[j].type \in EndOfOrder
      BY <2>1, <3>1 DEF TradesInv, EndComes, Ended, L
    <3>3. j - 1 \in i..(L - 1) /\ j - 1 \in 1..(L - 1) /\ (j - 1) + 1 = j
      BY <1>2, <3>1
    <3>4. user_events'[j - 1] = user_events[j]
      BY <1>2, <3>3
    <3> QED
      BY <3>1, <3>2, <3>3, <3>4
  <2> QED
    BY <1>1, <1>2, <2>1 DEF EndComes, Ended
\* Only a taker's trade message ceases to be pending.
<1>16. ASSUME NEW l, Pending(l)' PROVE Pending(l)
  <2>1. ASSUME NEW j \in 1..(L - 1), user_events'[j].type = "TAKER_TRADE",
               user_events'[j].id = l[1]
        PROVE  Pending(l)
    BY <1>2, <2>1 DEF Pending, L
  <2>2. ASSUME NEW i \in 1..K, trade_after'[i].id = l[1],
               trade_after'[i].had < l[2], l[2] <= trade_after'[i].has
        PROVE  Pending(l)
    BY <1>4, <2>2 DEF Pending, K
  <2> QED
    BY <1>2, <1>5, <1>16, <2>1, <2>2 DEF Pending
<1>17. ASSUME NEW l, Pending(l), e.type # "TAKER_TRADE" \/ e.id # l[1]
       PROVE  Pending(l)'
  <2>1. ASSUME NEW i \in 1..K, trade_after[i].id = l[1],
               trade_after[i].had < l[2], l[2] <= trade_after[i].has
        PROVE  Pending(l)'
    BY <1>4, <1>5, <2>1 DEF Pending
  <2>2. ASSUME NEW i \in 1..L, user_events[i].type = "TAKER_TRADE", user_events[i].id = l[1]
        PROVE  Pending(l)'
    <3>1. i # 1 /\ i - 1 \in 1..(L - 1) /\ (i - 1) + 1 = i
      BY <1>2, <1>7, <1>17, <2>2
    <3>2. user_events'[i - 1] = user_events[i]
      BY <1>2, <3>1
    <3>3. \E j \in 1..Len(user_events') :
            user_events'[j].type = "TAKER_TRADE" /\ user_events'[j].id = l[1]
      BY <1>2, <2>2, <3>1, <3>2
    <3> QED
      BY <3>3 DEF Pending
  <2> QED
    BY <1>17, <2>1, <2>2 DEF Pending, L, K
<1>18. Counted' /\ position' \in [Assets -> Nat]
  <2>1. CASE e.type = "TAKER_TRADE"
    <3>1. 1 \in 1..L /\ exch[e.id] = "filled" /\ Bought(e.id, TARGET_ORDER_SIZE)
      BY <1>2, <1>6, <1>7, <2>1 DEF TradesInv, TakersFilled, TobUserEvent, L
    <3>2. matched(e.id) = TARGET_ORDER_SIZE
      BY <3>1 DEF matched
    <3>3. LotsOf(e.id, 0, TARGET_ORDER_SIZE) = {l \in Lots : l[1] = e.id}
      <4>1. LotsOf(e.id, 0, TARGET_ORDER_SIZE) =
              {l \in Lots : l[1] = e.id /\ 0 < l[2] /\ l[2] <= TARGET_ORDER_SIZE}
        BY <1>7, LotsCounted, TargetType
      <4>2. \A l \in Lots : 0 < l[2] /\ l[2] <= TARGET_ORDER_SIZE
        BY LotFields, TargetType
      <4> QED
        BY <4>1, <4>2
    <3>4. \A l \in LotsOf(e.id, 0, TARGET_ORDER_SIZE) : Pending(l)
      BY <1>7, <2>1, <3>1, <3>3 DEF Pending, L
    <3>5. ASSUME NEW l \in Lots, l[1] = e.id PROVE ~Pending(l)'
      <4>1. \A i \in 1..Len(trade_after') : trade_after'[i].id # e.id
        BY <1>4, <1>5, <1>7, <2>1, <3>1 DEF TradesInv, TakersFilled, L, K
      <4>2. \A j \in 1..Len(user_events') : user_events'[j].id # e.id
        <5>1. ASSUME NEW j \in 1..(L - 1) PROVE user_events[j + 1].id # e.id
          <6>1. 1 \in 1..L /\ j + 1 \in 1..L /\ 1 < j + 1
            BY <1>2
          <6>2. user_events[1].type \in EndOfOrder
            BY <1>7, <2>1 DEF EndOfOrder
          <6> QED
            BY <1>7, <6>1, <6>2 DEF SettledInv, EndIsLast, L
        <5> QED
          BY <1>2, <5>1
      <4> QED
        BY <3>5, <4>1, <4>2 DEF Pending
    <3>6. \A l \in Lots : Pending(l)' <=>
            (Pending(l) /\ l \notin LotsOf(e.id, 0, TARGET_ORDER_SIZE))
      BY <1>16, <1>17, <3>3, <3>5
    <3>7. Bought(e.id, TARGET_ORDER_SIZE - 0)
      <4>1. TARGET_ORDER_SIZE - 0 = TARGET_ORDER_SIZE
        BY TargetType
      <4> QED
        BY <3>1, <4>1
    <3>8. /\ 0 \in Nat /\ TARGET_ORDER_SIZE \in Nat /\ 0 <= TARGET_ORDER_SIZE
          /\ TARGET_ORDER_SIZE <= matched(e.id)
      BY <3>2, TargetType
    <3> QED
      BY <1>1, <1>7, <3>4, <3>6, <3>7, <3>8, TradeCounted
  <2>2. CASE e.type # "TAKER_TRADE"
    <3>1. UNCHANGED position
      BY <1>6, <2>2 DEF TobUserEvent
    <3>2. ASSUME NEW a \in Assets PROVE Known(a)' = Known(a)
      <4>1. \A l : Pending(l)' <=> Pending(l)
        BY <1>16, <1>17, <2>2
      <4>2. BoughtLots(a)' = BoughtLots(a)
        BY <1>1 DEF BoughtLots, matched, AssetOfOrder, Lots, TARGET_ORDER_SIZE
      <4> QED
        BY <4>1, <4>2 DEF Known
    <3> QED
      BY <3>1, <3>2 DEF TradesInv, Counted
  <2> QED
    BY <2>1, <2>2
<1>19. IsFiniteSet(Placed)'
  BY <1>1 DEF TradesInv, Placed
<1> QED
  BY <1>5, <1>10, <1>11, <1>12, <1>13, <1>14, <1>15, <1>18, <1>19 DEF TradesInv


\* A step that places nothing, handles no message and fills no resting order.
LEMMA CalmKeepsTrades ==
  ASSUME Answered, Told, IInv, SettledInv, Listed, FillsTold, AskedInFlight, TradesInv,
         UNCHANGED <<position, trade_after>>,
         \/ /\ UNCHANGED asked
            /\ \/ \E o \in Orders :
                    \/ PostReturns(o) \/ ExchReject(o)
                    \/ ExchTake(o, KeyOf[o]) \/ ExchWithdraw(o)
               \/ \E c \in CancelTasks : CancelAnswer(c) \/ CancelReturns(c)
         \/ /\ asked \subseteq asked'
            /\ UNCHANGED vars \/ \E c \in CancelTasks : CancelCall(c)
  PROVE  TradesInv'
<1> USE OpenOrdersAssumption DEF exch_vars, local_vars
<1>1. /\ exch \in [Orders -> ExchState] /\ exch_filled \in [Orders -> 0..MaxPartial]
      /\ cancel_id \in [CancelTasks -> Orders \cup {NoOrder}]
  BY DEF IInv, TypeOK
<1>2. ASSUME NEW o \in Orders, NEW type \in {"TAKER_TRADE", "CANCELLATION"},
             exch[o] \in {"inbound", "live"}, NEW s \in {"filled", "canceled"},
             exch' = [exch EXCEPT ![o] = s], Emit(type, o, KeyOf[o]),
             type = "TAKER_TRADE" <=> s = "filled", s = "filled" => exch[o] = "inbound",
             UNCHANGED <<open_orders, exch_filled, asked>>
      PROVE  TradesInv'
  <2> DEFINE e == Message(type, o, KeyOf[o])
  <2>1. user_events' = Append(user_events, e)
    BY <1>2 DEF Emit, Told
  <2>2. e \in Event /\ e.id = o /\ e.type = type
    BY <1>1, <1>2 DEF Event, Message, EventType
  <2>3. e.type \in EndOfOrder
    BY <1>2, <2>2 DEF EndOfOrder
  <2> HIDE DEF e
  <2> QED
    BY <1>2, <2>1, <2>2, <2>3, MessageKeepsTrades
<1>3. ASSUME NEW o \in Orders, ExchTake(o, KeyOf[o]) \/ ExchWithdraw(o), UNCHANGED asked
      PROVE  TradesInv'
  <2>1. CASE ExchTake(o, KeyOf[o])
    BY <1>2, <1>3, <2>1 DEF ExchTake
  <2>2. CASE ExchWithdraw(o)
    BY <1>2, <1>3, <2>2 DEF ExchWithdraw
  <2> QED
    BY <1>3, <2>1, <2>2
<1>4. ASSUME NEW c \in CancelTasks, ExchCancel(c), UNCHANGED asked
      PROVE  TradesInv'
  <2>1. PICK o \in Orders : o = cancel_id[c]
    BY <1>1, <1>4 DEF IInv, TasksHoldTheirOrder, InFlight, ExchCancel
  <2> QED
    BY <1>2, <1>4, <2>1 DEF ExchCancel
\* The other steps leave the messages, and what is matched, alone.
<1>5. ASSUME UNCHANGED <<user_events, exch_filled>>, asked \subseteq asked',
             \/ UNCHANGED exch
             \/ \E o \in Orders : exch[o] = "inbound" /\ exch' = [exch EXCEPT ![o] = "rejected"],
             \/ UNCHANGED open_orders
             \/ UNCHANGED asked /\ Progress
      PROVE  TradesInv'
  <2>1. \A p \in Orders : /\ exch'[p] = "filled" <=> exch[p] = "filled"
                          /\ exch'[p] = "canceled" <=> exch[p] = "canceled"
                          /\ exch'[p] = "none" <=> exch[p] = "none"
    BY <1>1, <1>5
  <2>2. \A p \in Orders : /\ matched(p)' = matched(p)
                          /\ Ended(p)' <=> Ended(p)
    BY <1>5, <2>1 DEF matched, Ended, TARGET_ORDER_SIZE
  <2>3. ASSUME NEW p \in Orders, Ended(p), p \notin asked', open_orders[KeyOf[p]] = p
        PROVE  open_orders'[KeyOf[p]] = p
    <3>1. CASE UNCHANGED asked /\ Progress
      <4>1. Wanted(p)'
        BY <2>2, <2>3 DEF Wanted, Ended
      <4> QED
        BY <2>3, <3>1, <4>1, ProgressKeepsEntry
    <3> QED
      BY <1>5, <2>3, <3>1
  <2>4. IsFiniteSet(Placed)'
    BY <2>1 DEF Placed, TradesInv
  <2> QED
    BY <1>5, <2>1, <2>2, <2>3, <2>4, QuietKeepsTrades
<1>6. ASSUME NEW o \in Orders, PostReturns(o) \/ ExchReject(o), UNCHANGED asked
      PROVE  TradesInv'
  <2>1. UNCHANGED <<user_events, exch_filled>> /\ Progress
    BY <1>6 DEF PostReturns, ExchReject, Progress, Exchange
  <2>2. \/ UNCHANGED exch
        \/ exch[o] = "inbound" /\ exch' = [exch EXCEPT ![o] = "rejected"]
    BY <1>6 DEF PostReturns, ExchReject
  <2> QED
    BY <1>5, <1>6, <2>1, <2>2
<1>7. ASSUME NEW c \in CancelTasks, CancelCall(c) \/ ExchRefuseCancel(c),
             asked \subseteq asked'
      PROVE  TradesInv'
  <2>1. UNCHANGED <<user_events, exch, exch_filled, open_orders>>
    BY <1>7 DEF CancelCall, CancelLookup, CancelWithoutId, CancelSend, ExchRefuseCancel
  <2> QED
    BY <1>5, <1>7, <2>1
<1>8. ASSUME NEW c \in CancelTasks, CancelReturns(c), UNCHANGED asked
      PROVE  TradesInv'
  <2>1. UNCHANGED <<user_events, exch, exch_filled>> /\ Progress
    BY <1>8 DEF CancelReturns, Progress
  <2> QED
    BY <1>5, <1>8, <2>1
<1>9. CASE UNCHANGED vars /\ asked \subseteq asked'
  <2>1. UNCHANGED <<user_events, exch, exch_filled, open_orders>>
    BY <1>9 DEF vars
  <2> QED
    BY <1>5, <1>9, <2>1
<1> QED
  BY <1>3, <1>4, <1>6, <1>7, <1>8, <1>9 DEF CancelAnswer, CancelFault, Answered

LEMMA PlacingKeepsTrades ==
  ASSUME IInv, SettledInv, FillsTold, PlanOk, TradesInv, execute_order_plan
  PROVE  TradesInv'
<1> USE OpenOrdersAssumption DEF exch_vars, local_vars
<1>1. /\ plan \in Orders /\ UNCHANGED <<position, trade_after, user_events, asked, exch_filled>>
      /\ post[plan] = "none" /\ open_orders[KeyOf[plan]] = NoOrder
  BY DEF execute_order_plan, place_limit_order, place_zero_amount, record_order, PlanOk
<1>2. exch[plan] = "none"
  BY <1>1 DEF SettledInv, PostsAnswered
<1>3. /\ exch' = exch \/ exch' = [exch EXCEPT ![plan] = "inbound"]
      /\ open_orders' = open_orders \/ open_orders' = [open_orders EXCEPT ![KeyOf[plan]] = plan]
  BY <1>1 DEF execute_order_plan, place_limit_order, place_zero_amount, record_order
<1>4. exch \in [Orders -> ExchState] /\ open_orders \in [Keys -> Orders \cup {NoOrder}]
  BY DEF IInv, TypeOK
<1>5. \A p \in Orders : /\ exch'[p] = "filled" <=> exch[p] = "filled"
                        /\ exch'[p] = "canceled" <=> exch[p] = "canceled"
  BY <1>1, <1>2, <1>3, <1>4
<1>6. \A p \in Orders : open_orders[KeyOf[p]] = p => open_orders'[KeyOf[p]] = p
  BY <1>1, <1>3, <1>4
<1>7. IsFiniteSet(Placed)'
  <2>1. Placed' \subseteq Placed \cup {plan}
    BY <1>1, <1>3, <1>4 DEF Placed
  <2>2. IsFiniteSet(Placed \cup {plan})
    BY FS_AddElement DEF TradesInv
  <2> QED
    BY <2>1, <2>2, FS_Subset
<1>8. \A p \in Orders : /\ matched(p)' = matched(p)
                        /\ Ended(p)' <=> Ended(p)
  BY <1>1, <1>5 DEF matched, Ended, TARGET_ORDER_SIZE
<1> QED
  BY <1>1, <1>5, <1>6, <1>7, <1>8, QuietKeepsTrades

LEMMA StepKeepsBought ==
  ASSUME Answered, Told, IInv, QuoteInv, AgreedInv, BoughtInv, [TobNext]_tob_all_vars
  PROVE  BoughtInv'
<1> SUFFICES ASSUME ~reused' PROVE TradesInv'
  BY DEF BoughtInv
<1>1. ~reused
  BY DEF TobNext, tob_handle_market_price_change, cancel_orders, execute_order_plan,
     wait_over, TobUserEvent, HandleTrade, Fill, TobElsewhere, tob_vars, tob_all_vars
<1>2. PlanOk /\ AskedInFlight /\ SettledInv /\ Listed /\ TradesInv /\ FillsTold
  BY <1>1 DEF QuoteInv, BoughtInv, AgreedInv, AgreeInv
<1>3. CASE execute_order_plan
  BY <1>2, <1>3, PlacingKeepsTrades
<1>4. CASE TobUserEvent
  BY <1>2, <1>4, HandleKeepsTrades
<1>5. CASE HandleTrade
  BY <1>2, <1>5, HandleTradeKeepsTrades
<1>6. ASSUME NEW o \in Orders, Fill(o)
      PROVE  TradesInv'
  BY <1>2, <1>6, FillKeepsTrades
<1>7. CASE cancel_orders
  <2>1. /\ UNCHANGED <<position, trade_after>>
        /\ UNCHANGED vars \/ \E c \in CancelTasks : CancelCall(c)
    BY <1>2, <1>7 DEF cancel_orders, CancelCall, PlanOk
  <2>2. asked \subseteq asked'
    BY <1>2, StepKeepsAsked
  <2> QED
    BY <1>2, <2>1, <2>2, CalmKeepsTrades
<1>8. ASSUME \/ wait_over \/ UNCHANGED tob_all_vars
             \/ \E o \in Orders : tob_handle_market_price_change(o)
      PROVE  TradesInv'
  <2>1. UNCHANGED vars /\ UNCHANGED <<position, trade_after, asked>>
    BY <1>8 DEF wait_over, tob_handle_market_price_change, tob_all_vars, tob_vars
  <2> QED
    BY <1>2, <2>1, CalmKeepsTrades
<1>9. CASE TobElsewhere
  <2>1. UNCHANGED <<position, trade_after, asked>>
    BY <1>9 DEF TobElsewhere, tob_vars
  <2> QED
    BY <1>2, <1>9, <2>1, CalmKeepsTrades DEF TobElsewhere
<1> QED
  BY <1>3, <1>4, <1>5, <1>6, <1>7, <1>8, <1>9 DEF TobNext

-----------------------------------------------------------------------------
(* The inductive invariant: less than three times the target               *)

\* What the handler will not come to.
Uncovered(a) == {l \in Exposed(a) : ~Covered(l[1])}

Bounded ==
  \A a \in Assets :
    Cardinality(Exposed(a)) < Cardinality(OthersBought(a)) + 3 * TARGET_ORDER_SIZE

\* The order planned still fits.
RoomForPlan ==
  plan # NoOrder =>
    Cardinality(Uncovered(AssetOfOrder(plan))) <
      Cardinality(OthersBought(AssetOfOrder(plan))) + 2 * TARGET_ORDER_SIZE

BoundInv == (~reused /\ ~exited) => Bounded /\ RoomForPlan

LEMMA BoundsAreFinite ==
  ASSUME IInv, FillsTold, IsFiniteSet(Placed), NEW a
  PROVE  /\ IsFiniteSet(Exposed(a)) /\ IsFiniteSet(Uncovered(a))
         /\ IsFiniteSet(OthersBought(a)) /\ IsFiniteSet(Known(a))
         /\ Cardinality(Exposed(a)) \in Nat /\ Cardinality(Uncovered(a)) \in Nat
         /\ Cardinality(OthersBought(a)) \in Nat /\ Cardinality(Known(a)) \in Nat
<1>1. IsFiniteSet(Exposed(a)) /\ IsFiniteSet(OthersBought(a))
  BY LotsPlaced, FS_Subset
<1>2. IsFiniteSet(Uncovered(a))
  BY <1>1, FS_Subset DEF Uncovered
<1> QED
  BY <1>1, <1>2, KnownFinite, FS_CardinalityType

\* What is matched only grows, and that of an order that has ended is final.
LEMMA CalmMatches ==
  ASSUME IInv, FillsTold, CalmStep, NEW p \in Orders
  PROVE  /\ matched(p) <= matched(p)'
         /\ ~CanFill(p) => matched(p)' = matched(p)
<1> USE OpenOrdersAssumption, TargetType DEF exch_vars
<1>1. exch \in [Orders -> ExchState] /\ exch_filled \in [Orders -> 0..MaxPartial]
  BY DEF IInv, TypeOK
<1>2. exch_filled[p] \in 0..MaxPartial /\ (exch[p] = "inbound" => exch_filled[p] = 0)
  BY <1>1 DEF FillsTold
<1>3. CASE UNCHANGED <<exch, exch_filled>>
  BY <1>2, <1>3 DEF matched
<1>4. ASSUME NEW o \in Orders, exch[o] \in {"inbound", "live"}, UNCHANGED exch_filled,
             NEW s \in {"live", "filled", "canceled", "rejected"},
             exch' = [exch EXCEPT ![o] = s]
      PROVE  /\ matched(p) <= matched(p)'
             /\ ~CanFill(p) => matched(p)' = matched(p)
  BY <1>1, <1>2, <1>4 DEF matched, CanFill
<1>5. ASSUME NEW o \in Orders, NEW part \in 0..MaxPartial, Rests(o, part)
      PROVE  /\ matched(p) <= matched(p)'
             /\ ~CanFill(p) => matched(p)' = matched(p)
  BY <1>1, <1>2, <1>5 DEF matched, CanFill, Rests
<1>6. ASSUME NEW o \in Orders, ExchPartialFill(o)
      PROVE  /\ matched(p) <= matched(p)'
             /\ ~CanFill(p) => matched(p)' = matched(p)
  BY <1>1, <1>2, <1>6 DEF matched, CanFill, ExchPartialFill
<1>7. ASSUME NEW o \in Orders, PostReturns(o) \/ Exchange(o)
      PROVE  /\ matched(p) <= matched(p)'
             /\ ~CanFill(p) => matched(p)' = matched(p)
  <2>1. CASE PostReturns(o)
    BY <1>3, <2>1 DEF PostReturns
  <2>2. CASE ExchReject(o) \/ ExchFill(o) \/ ExchWithdraw(o) \/ \E k \in Keys : ExchTake(o, k)
    <3>1. \E s \in {"live", "filled", "canceled", "rejected"} :
            /\ exch[o] \in {"inbound", "live"} /\ UNCHANGED exch_filled
            /\ exch' = [exch EXCEPT ![o] = s]
      BY <2>2 DEF ExchReject, ExchFill, ExchWithdraw, ExchTake
    <3> QED
      BY <1>4, <3>1
  <2>3. CASE ExchAccept(o) \/ \E k \in Keys : ExchTakePart(o, k)
    <3>1. 1..MaxPartial \subseteq 0..MaxPartial
      OBVIOUS
    <3>2. \E part \in 0..MaxPartial : Rests(o, part)
      BY <2>3, <3>1, Zenon DEF ExchAccept, ExchTakePart
    <3> QED
      BY <1>5, <3>2
  <2> QED
    BY <1>6, <1>7, <2>1, <2>2, <2>3 DEF Exchange
<1>8. ASSUME NEW c \in CancelTasks, ExchCancel(c)
      PROVE  /\ matched(p) <= matched(p)'
             /\ ~CanFill(p) => matched(p)' = matched(p)
  <2>1. cancel_id[c] \in Orders
    BY <1>8 DEF IInv, TasksHoldTheirOrder, InFlight, ExchCancel, TypeOK
  <2>2. /\ exch[cancel_id[c]] = "live" /\ UNCHANGED exch_filled
        /\ exch' = [exch EXCEPT ![cancel_id[c]] = "canceled"]
    BY <1>8 DEF ExchCancel
  <2> QED
    BY <1>4, <2>1, <2>2
<1>9. ASSUME NEW c \in CancelTasks, \/ CancelCall(c) \/ CancelReturns(c)
                                    \/ ExchRefuseCancel(c) \/ CancelFault(c)
      PROVE  UNCHANGED <<exch, exch_filled>>
  BY <1>9 DEF CancelCall, CancelLookup, CancelWithoutId, CancelSend, ExchRefuseCancel,
     CancelFault, CancelReturns
<1>10. ASSUME HandleUserEvent \/ UNCHANGED vars
       PROVE  UNCHANGED <<exch, exch_filled>>
  BY <1>10 DEF HandleUserEvent, vars
<1> QED
  BY <1>3, <1>7, <1>8, <1>9, <1>10 DEF CalmStep, Progress, CancelAnswer

\* What was bought stays bought.
LEMMA BoughtRemains ==
  ASSUME IInv, FillsTold, FillsTold', CalmStep, IsFiniteSet(Placed)', NEW a,
         \A p \in Orders : matched(p)' \in 0..TARGET_ORDER_SIZE
  PROVE  /\ Cardinality(OthersBought(a)) <= Cardinality(OthersBought(a)')
         /\ Cardinality(OthersBought(a)') \in Nat
<1>1. ASSUME NEW l \in Lots, l[2] <= matched(l[1])
      PROVE  l[2] <= matched(l[1])'
  <2>1. PICK p \in Orders : p = l[1]
    BY LotFields
  <2>2. PICK m \in 0..TARGET_ORDER_SIZE : m = matched(p)
    BY MatchedType
  <2>3. PICK n \in 0..TARGET_ORDER_SIZE : n = matched(p)'
    OBVIOUS
  <2>4. m <= n /\ l[2] <= m
    BY <1>1, <2>1, <2>2, <2>3, CalmMatches
  <2>5. l[2] <= n
    BY <2>4, LotFields, TargetType
  <2> QED
    BY <2>1, <2>3, <2>5
<1>2. Lots' = Lots
  BY DEF Lots, TARGET_ORDER_SIZE
<1>3. \A b : BoughtLots(b) \subseteq BoughtLots(b)'
  BY <1>1, <1>2 DEF BoughtLots, AssetOfOrder
<1>4. OthersBought(a) \subseteq OthersBought(a)'
  <2>1. ASSUME NEW l \in OthersBought(a) PROVE l \in OthersBought(a)'
    <3>1. PICK b \in Assets \ {a} : l \in BoughtLots(b)
      BY DEF OthersBought
    <3>2. l \in BoughtLots(b)'
      BY <1>3, <3>1
    <3> QED
      BY <3>1, <3>2 DEF OthersBought
  <2> QED
    BY <2>1
<1>5. IsFiniteSet(OthersBought(a)')
  <2>0. IsFiniteSet(1..TARGET_ORDER_SIZE)
    BY TargetType, FS_Interval
  <2>1. IsFiniteSet(Placed' \X (1..TARGET_ORDER_SIZE))
    BY <2>0, FS_Product
  <2>2. ASSUME NEW l \in Lots, l[2] <= matched(l[1])'
        PROVE  l \in Placed' \X (1..TARGET_ORDER_SIZE)
    <3>1. PICK o \in Orders : o = l[1]
      BY LotFields
    <3>2. exch'[o] # "none"
      <4>1. exch'[o] = "none" => matched(o)' = 0
        BY <3>1 DEF FillsTold, matched
      <4> QED
        BY <2>2, <3>1, <4>1, LotFields, TargetType
    <3> QED
      BY <3>1, <3>2 DEF Lots, Placed
  <2>3. \A b : BoughtLots(b)' \subseteq Placed' \X (1..TARGET_ORDER_SIZE)
    BY <1>2, <2>2 DEF BoughtLots
  <2>4. OthersBought(a)' \subseteq Placed' \X (1..TARGET_ORDER_SIZE)
    BY <2>3 DEF OthersBought
  <2> QED
    BY <2>1, <2>4, FS_Subset
<1> QED
  BY <1>4, <1>5, FS_Subset, FS_CardinalityType

\* A step that places nothing exposes no lot, and nothing ends an order of
\* which something is exposed.
LEMMA CalmExposure ==
  ASSUME Answered, IInv, IInv', SettledInv, Listed, FillsTold, FillsTold', CalmStep,
         ~exited', AskedInFlight', asked \subseteq asked', NEW a, NEW l \in Exposed(a)',
         \A p \in Orders : matched(p)' \in 0..TARGET_ORDER_SIZE
  PROVE  l \in Exposed(a) /\ Wanted(l[1])' /\ ~BeingCancelled(l[1])'
<1>1. /\ l \in Lots /\ AssetOfOrder(l[1]) = a /\ l[1] \notin asked'
      /\ l[2] <= Exposure(l[1])'
  BY DEF Exposed, Lots, TARGET_ORDER_SIZE, AssetOfOrder
<1>2. PICK p \in Orders : p = l[1]
  BY <1>1, LotFields
<1>3. l[2] \in 1..TARGET_ORDER_SIZE
  BY <1>1, LotFields
<1>4. ~BeingCancelled(p)'
  BY <1>1, <1>2 DEF AskedInFlight, BeingCancelled
<1>5. PICK n \in 0..TARGET_ORDER_SIZE : n = matched(p)'
  OBVIOUS
<1>6. l[2] <= Exposure(p)
  <2>1. CASE CanFill(p)
    BY <1>3, <2>1, TargetType DEF Exposure, CanFill
  <2>2. CASE ~CanFill(p)
    <3>1. ~CanFill(p)'
      BY <1>4, <2>2, WorkedBefore DEF Works
    <3>2. Exposure(p)' = matched(p)' /\ Exposure(p) = matched(p)
      BY <2>2, <3>1 DEF Exposure, CanFill
    <3> QED
      BY <1>1, <1>2, <2>2, <3>2, CalmMatches
  <2> QED
    BY <2>1, <2>2
<1>7. l \in Exposed(a)
  BY <1>1, <1>2, <1>6 DEF Exposed
<1>8. Wanted(p)'
  <2>1. exch'[p] \in {"none", "rejected"} => Exposure(p)' = 0
    BY DEF FillsTold, Exposure, matched
  <2>2. exch'[p] \notin {"none", "rejected"}
    BY <1>1, <1>2, <1>3, <2>1
  <2>3. exch'[p] \in ExchState
    BY DEF IInv, TypeOK
  <2> QED
    BY <1>1, <1>2, <2>2, <2>3 DEF Wanted, ExchState
<1> QED
  BY <1>2, <1>4, <1>7, <1>8

LEMMA UnionCounted ==
  ASSUME NEW S, IsFiniteSet(S), NEW N, IsFiniteSet(N)
  PROVE  /\ IsFiniteSet(S \cup N) /\ Cardinality(S \cup N) \in Nat
         /\ Cardinality(S \cup N) <= Cardinality(S) + Cardinality(N)
<1>1. /\ IsFiniteSet(S \cup N)
      /\ Cardinality(S \cup N) = Cardinality(S) + Cardinality(N) - Cardinality(S \cap N)
  BY FS_Union
<1>2. Cardinality(S \cap N) \in Nat /\ Cardinality(S) \in Nat /\ Cardinality(N) \in Nat
  BY FS_Intersection, FS_CardinalityType
<1> QED
  BY <1>1, <1>2, FS_CardinalityType

\* Without a placement less is exposed, and what the handler comes to is at
\* most what ceases to be.
LEMMA CalmKeepsBound ==
  ASSUME Answered, IInv, IInv', SettledInv, Listed, FillsTold, FillsTold', PlanOk,
         CalmStep, ~exited', AskedInFlight, AskedInFlight', asked \subseteq asked',
         Bounded, RoomForPlan, IsFiniteSet(Placed), IsFiniteSet(Placed)',
         \/ Progress /\ UNCHANGED <<plan, to_cancel, asked>>
         \/ UNCHANGED vars /\ UNCHANGED <<plan, to_cancel, asked>>
         \/ plan' = NoOrder
         \/ cancel_orders /\ plan' # NoOrder
  PROVE  Bounded' /\ RoomForPlan'
<1>1. \A p \in Orders : matched(p)' \in 0..TARGET_ORDER_SIZE
  <2>1. /\ exch' \in [Orders -> ExchState] /\ exch_filled' \in [Orders -> 0..MaxPartial]
    BY DEF IInv, TypeOK
  <2>2. \A p \in Orders : exch_filled'[p] \in 0..TARGET_ORDER_SIZE
    BY <2>1, TargetType, OpenOrdersAssumption
  <2> QED
    BY <2>2, TargetType DEF matched
<1>2. ASSUME NEW a
      PROVE  /\ Cardinality(OthersBought(a)) <= Cardinality(OthersBought(a)')
             /\ Cardinality(OthersBought(a)') \in Nat
             /\ Cardinality(OthersBought(a)) \in Nat
  BY <1>1, BoughtRemains, BoundsAreFinite
<1>3. ASSUME NEW a
      PROVE  /\ Cardinality(Exposed(a)') <= Cardinality(Exposed(a))
             /\ Cardinality(Exposed(a)') \in Nat /\ Cardinality(Exposed(a)) \in Nat
  <2>1. Exposed(a)' \subseteq Exposed(a)
    BY <1>1, CalmExposure
  <2> QED
    BY <2>1, BoundsAreFinite, FS_Subset, FS_CardinalityType
<1>4. Bounded'
  <2>1. ASSUME NEW a \in Assets
        PROVE  Cardinality(Exposed(a)') < Cardinality(OthersBought(a)') + 3 * TARGET_ORDER_SIZE
    <3>1. Cardinality(Exposed(a)) < Cardinality(OthersBought(a)) + 3 * TARGET_ORDER_SIZE
      BY DEF Bounded
    <3> QED
      BY <1>2, <1>3, <3>1, TargetType
  <2> QED
    BY <2>1 DEF Bounded, TARGET_ORDER_SIZE
<1>5. ASSUME plan' # NoOrder
      PROVE  plan' = plan /\ plan # NoOrder
  BY <1>5 DEF cancel_orders, stop_handler
<1>6. ASSUME plan' # NoOrder, NEW p \in Orders, Wanted(p)', ~BeingCancelled(p)', Covered(p)
      PROVE  Covered(p)'
  <2>1. CASE Progress /\ UNCHANGED <<to_cancel, asked>>
    BY <1>6, <2>1, CoveredStays
  <2>2. CASE UNCHANGED vars /\ UNCHANGED to_cancel
    BY <1>6, <2>2 DEF Covered, Found, vars, local_vars, cancel_vars
  <2>3. CASE cancel_orders
    BY <1>6, <2>3, CancellingCovers
  <2> QED
    BY <1>6, <2>1, <2>2, <2>3
<1>7. RoomForPlan'
  <2> SUFFICES ASSUME plan' # NoOrder
               PROVE  RoomForPlan'
    BY DEF RoomForPlan
  <2>1. PICK a : a = AssetOfOrder(plan)
    OBVIOUS
  <2>2. /\ AssetOfOrder(plan') = a
        /\ Cardinality(Uncovered(a)) < Cardinality(OthersBought(a)) + 2 * TARGET_ORDER_SIZE
    BY <1>5, <2>1 DEF RoomForPlan
  <2>3. Uncovered(a)' \subseteq Uncovered(a)
    <3>1. ASSUME NEW l \in Uncovered(a)' PROVE l \in Uncovered(a)
      <4>1. l \in Exposed(a)' /\ ~Covered(l[1])'
        BY DEF Uncovered
      <4>2. l \in Exposed(a) /\ Wanted(l[1])' /\ ~BeingCancelled(l[1])'
        BY <1>1, <4>1, CalmExposure
      <4>3. PICK p \in Orders : p = l[1]
        BY <4>2, LotFields DEF Exposed
      <4>4. ~Covered(p)
        BY <1>6, <4>1, <4>2, <4>3
      <4> QED
        BY <4>2, <4>3, <4>4 DEF Uncovered
    <3> QED
      BY <3>1
  <2>4. IsFiniteSet(Uncovered(a)') /\ Cardinality(Uncovered(a)') <= Cardinality(Uncovered(a))
    BY <2>3, BoundsAreFinite, FS_Subset
  <2>5. Cardinality(Uncovered(a)') \in Nat /\ Cardinality(Uncovered(a)) \in Nat
    BY <2>4, BoundsAreFinite, FS_CardinalityType
  <2>6. Cardinality(Uncovered(a)') < Cardinality(OthersBought(a)') + 2 * TARGET_ORDER_SIZE
    BY <1>2, <2>2, <2>4, <2>5, TargetType
  <2> QED
    BY <2>2, <2>6 DEF RoomForPlan, TARGET_ORDER_SIZE
<1> QED
  BY <1>4, <1>7

\* The order planned adds to what the handler has left: all that it came to
\* it has asked to cancel.
LEMMA PlacingKeepsBound ==
  ASSUME IInv, SettledInv, FillsTold, PlanOk, Bounded, RoomForPlan, IsFiniteSet(Placed),
         execute_order_plan
  PROVE  Bounded' /\ RoomForPlan'
<1> USE OpenOrdersAssumption DEF exch_vars, cancel_vars, local_vars
<1>1. /\ plan \in Orders /\ plan' = NoOrder /\ to_cancel = {} /\ ~Cancelling
      /\ post[plan] = "none" /\ UNCHANGED <<asked, exch_filled>>
  BY DEF execute_order_plan, stop_handler, PlanOk, place_limit_order, place_zero_amount
<1>2. exch' = exch \/ exch' = [exch EXCEPT ![plan] = "inbound"]
  BY DEF execute_order_plan, place_limit_order, place_zero_amount
<1>3. exch[plan] = "none" /\ exch \in [Orders -> ExchState]
  BY <1>1 DEF SettledInv, PostsAnswered, IInv, TypeOK
<1>4. \A p \in Orders : p # plan => exch'[p] = exch[p]
  BY <1>1, <1>2, <1>3
<1>5. \A p \in Orders : matched(p)' = matched(p)
  <2>1. \A p \in Orders : exch'[p] = "filled" <=> exch[p] = "filled"
    BY <1>1, <1>2, <1>3
  <2> QED
    BY <1>1, <2>1 DEF matched, TARGET_ORDER_SIZE
<1>6. \A l \in Lots : matched(l[1])' = matched(l[1])
  BY <1>5, LotFields
<1>7. Lots' = Lots
  BY DEF Lots, TARGET_ORDER_SIZE
<1>8. ASSUME NEW a
      PROVE  OthersBought(a)' = OthersBought(a)
  <2>1. \A b : BoughtLots(b)' = BoughtLots(b)
    BY <1>6, <1>7 DEF BoughtLots, AssetOfOrder
  <2> QED
    BY <2>1 DEF OthersBought
<1>9. PICK x \in Orders : x = plan
  BY <1>1
<1>10. ASSUME NEW a, NEW l \in Exposed(a)', l[1] # x
       PROVE  l \in Exposed(a)
  <2>1. /\ l \in Lots /\ AssetOfOrder(l[1]) = a /\ l[1] \notin asked
        /\ l[2] <= Exposure(l[1])'
    BY <1>1, <1>7 DEF Exposed, AssetOfOrder
  <2>2. Exposure(l[1])' = Exposure(l[1])
    BY <1>4, <1>6, <1>9, <1>10, <2>1, LotFields DEF Exposure, TARGET_ORDER_SIZE
  <2> QED
    BY <2>1, <2>2 DEF Exposed
<1>11. ASSUME NEW a, a # AssetOfOrder(x)
       PROVE  Exposed(a)' \subseteq Exposed(a)
  <2>1. \A l \in Exposed(a)' : l[1] # x
    BY <1>11 DEF Exposed, AssetOfOrder
  <2> QED
    BY <1>10, <2>1
<1>12. ASSUME NEW a
       PROVE  Exposed(a)' \subseteq Uncovered(a) \cup LotsOf(x, 0, TARGET_ORDER_SIZE)
  <2>1. ASSUME NEW l \in Exposed(a)', l[1] # x PROVE l \in Uncovered(a)
    <3>1. ~Covered(l[1])
      BY <1>1, NoneCoveredAtTheEnd
    <3> QED
      BY <1>10, <2>1, <3>1 DEF Uncovered
  <2>2. ASSUME NEW l \in Exposed(a)', l[1] = x
        PROVE  l \in LotsOf(x, 0, TARGET_ORDER_SIZE)
    <3>1. l \in Lots
      BY <1>7 DEF Exposed
    <3>2. l[2] \in 1..TARGET_ORDER_SIZE /\ l = <<x, l[2]>>
      BY <2>2, <3>1, LotFields
    <3> QED
      BY <3>2 DEF LotsOf
  <2> QED
    BY <2>1, <2>2
<1>13. ASSUME NEW a \in Assets
       PROVE  Cardinality(Exposed(a)') < Cardinality(OthersBought(a)') + 3 * TARGET_ORDER_SIZE
  <2>0. Cardinality(OthersBought(a)) \in Nat
    BY BoundsAreFinite
  <2>1. CASE a # AssetOfOrder(x)
    <3>1. Exposed(a)' \subseteq Exposed(a)
      BY <1>11, <2>1
    <3>2. /\ IsFiniteSet(Exposed(a)') /\ Cardinality(Exposed(a)') <= Cardinality(Exposed(a))
          /\ Cardinality(Exposed(a)) \in Nat
      BY <3>1, BoundsAreFinite, FS_Subset
    <3>3. Cardinality(Exposed(a)') \in Nat
      BY <3>2, FS_CardinalityType
    <3>4. Cardinality(Exposed(a)) < Cardinality(OthersBought(a)) + 3 * TARGET_ORDER_SIZE
      BY DEF Bounded
    <3> QED
      BY <1>8, <2>0, <3>2, <3>3, <3>4, TargetType
  <2>2. CASE a = AssetOfOrder(x)
    <3> DEFINE N == LotsOf(x, 0, TARGET_ORDER_SIZE)
    <3>1. IsFiniteSet(N) /\ Cardinality(N) = TARGET_ORDER_SIZE
      BY LotsCounted, TargetType
    <3> HIDE DEF N
    <3>2. Exposed(a)' \subseteq Uncovered(a) \cup N
      BY <1>12 DEF N
    <3>3. IsFiniteSet(Uncovered(a)) /\ Cardinality(Uncovered(a)) \in Nat
      BY BoundsAreFinite
    <3>4. /\ IsFiniteSet(Uncovered(a) \cup N)
          /\ Cardinality(Uncovered(a) \cup N) <= Cardinality(Uncovered(a)) + TARGET_ORDER_SIZE
          /\ Cardinality(Uncovered(a) \cup N) \in Nat
      BY <3>1, <3>3, UnionCounted
    <3>5. /\ IsFiniteSet(Exposed(a)')
          /\ Cardinality(Exposed(a)') <= Cardinality(Uncovered(a) \cup N)
      BY <3>2, <3>4, FS_Subset
    <3>6. Cardinality(Exposed(a)') \in Nat
      BY <3>5, FS_CardinalityType
    <3>7. Cardinality(Uncovered(a)) < Cardinality(OthersBought(a)) + 2 * TARGET_ORDER_SIZE
      BY <1>1, <1>9, <2>2, OpenOrdersAssumption DEF RoomForPlan
    <3> QED
      BY <1>8, <2>0, <3>3, <3>4, <3>5, <3>6, <3>7, TargetType
  <2> QED
    BY <2>1, <2>2
<1> QED
  BY <1>1, <1>13 DEF Bounded, RoomForPlan, TARGET_ORDER_SIZE

\* The position the strategy compares with is at most what was bought.
LEMMA OtherPositionBought ==
  ASSUME IInv, FillsTold, TradesInv, NEW a \in Assets
  PROVE  OtherPosition(a) \in Nat /\ OtherPosition(a) <= Cardinality(OthersBought(a))
<1>1. Cardinality(OthersBought(a)) \in Nat /\ IsFiniteSet(OthersBought(a))
  BY BoundsAreFinite DEF TradesInv
<1>2. CASE Assets \ {a} = {}
  BY <1>1, <1>2 DEF OtherPosition
<1>3. CASE Assets \ {a} # {}
  <2>1. PICK b \in Assets \ {a} : OtherPosition(a) = position[b]
    <3>1. (CHOOSE b \in Assets \ {a} : TRUE) \in Assets \ {a}
      BY <1>3
    <3> QED
      BY <1>3, <3>1 DEF OtherPosition
  <2>2. position[b] = Cardinality(Known(b)) /\ position[b] \in Nat
    BY <2>1 DEF TradesInv, Counted
  <2>3. Known(b) \subseteq OthersBought(a)
    BY <2>1 DEF Known, OthersBought
  <2> QED
    BY <1>1, <2>1, <2>2, <2>3, FS_Subset
<1> QED
  BY <1>2, <1>3

\* What is exposed of an order that is not in the table was bought, and is in
\* the position but for one trade.
LEMMA ForgottenIsKnown ==
  ASSUME IInv, SettledInv, FillsTold, TradesInv, NEW a, NEW l \in Exposed(a),
         open_orders[KeyOf[l[1]]] # l[1]
  PROVE  \/ l \in Known(a)
         \/ \E i \in 1..Len(trade_after) :
              /\ Loose(user_events, trade_after[i]) /\ trade_after[i].id = l[1]
              /\ trade_after[i].had < l[2] /\ l[2] <= trade_after[i].has
<1>1. /\ l \in Lots /\ AssetOfOrder(l[1]) = a /\ l[1] \notin asked
      /\ l[2] <= Exposure(l[1])
  BY DEF Exposed
<1>2. PICK p \in Orders : p = l[1]
  BY <1>1, LotFields
<1>3. exch[p] \notin {"inbound", "live"}
  BY <1>2 DEF SettledInv, Tracked
<1>4. l[2] <= matched(p) /\ l[2] \in Nat \ {0}
  BY <1>1, <1>2, <1>3, LotFields, TargetType DEF Exposure
<1>5. Ended(p)
  <2>1. exch[p] \in {"none", "rejected"} => matched(p) = 0
    BY DEF FillsTold, matched
  <2>2. exch[p] \in ExchState
    BY DEF IInv, TypeOK
  <2> QED
    BY <1>3, <1>4, <2>1, <2>2 DEF Ended, ExchState
\* Its end was handled, so no message about it is left.
<1>6. \A i \in 1..Len(user_events) : user_events[i].id # p
  <2>1. ASSUME NEW i \in 1..Len(user_events), user_events[i].id = p PROVE FALSE
    <3>1. PICK j \in i..Len(user_events) :
            user_events[j].id = p /\ user_events[j].type \in EndOfOrder
      BY <1>5, <2>1 DEF TradesInv, EndComes
    <3>2. j \in 1..Len(user_events)
      BY <3>1, MessageFields
    <3> QED
      BY <1>1, <1>2, <3>1, <3>2 DEF TradesInv, EndsTracked
  <2> QED
    BY <2>1
<1>7. \A t, n : t.id = p => ~TellsAt(user_events, n, t)
  BY <1>6 DEF TellsAt, Tells
<1>8. CASE Pending(l)
  <2>1. PICK i \in 1..Len(trade_after) :
          /\ trade_after[i].id = l[1]
          /\ trade_after[i].had < l[2] /\ l[2] <= trade_after[i].has
    BY <1>2, <1>6, <1>8 DEF Pending
  <2>2. Loose(user_events, trade_after[i])
    BY <1>2, <1>7, <2>1 DEF Loose
  <2> QED
    BY <2>1, <2>2
<1> QED
  BY <1>1, <1>2, <1>4, <1>8 DEF Known, BoughtLots

\* So all but one order of what the handler does not collect is in the
\* position it looked at.
LEMMA StartLeavesRoom ==
  ASSUME IInv, SettledInv, FillsTold, TradesInv, NEW o \in Orders,
         tob_handle_market_price_change(o)
  PROVE  RoomForPlan'
<1> USE OpenOrdersAssumption, OrderAssetsAssumption
<1>1. /\ UNCHANGED vars /\ plan' = o /\ BelowTarget(AssetOfOrder(o)) /\ UNCHANGED asked
      /\ to_cancel' = collect_orders_asset(AssetOfOrder(o))
  BY DEF tob_handle_market_price_change, plan_order
<1>2. UNCHANGED <<exch, exch_filled, open_orders, cancel_pc, cancel_order>>
  BY <1>1 DEF vars, exch_vars, local_vars, cancel_vars
<1>3. PICK a \in Assets : a = AssetOfOrder(o)
  BY DEF AssetOfOrder
<1>4. ASSUME NEW p \in Orders, AssetOfOrder(p) = a, open_orders[KeyOf[p]] = p
      PROVE  Covered(p)'
  BY <1>1, <1>2, <1>3, <1>4 DEF Covered, collect_orders_asset, AssetOfOrder
<1>5. \A p \in Orders : matched(p)' = matched(p) /\ Exposure(p)' = Exposure(p)
  BY <1>2 DEF matched, Exposure, TARGET_ORDER_SIZE
<1>6. Lots' = Lots /\ \A l \in Lots : l[1] \in Orders
  BY LotFields DEF Lots, TARGET_ORDER_SIZE
<1>7. Exposed(a)' = Exposed(a)
  BY <1>1, <1>5, <1>6 DEF Exposed, AssetOfOrder
<1>8. OthersBought(a)' = OthersBought(a)
  <2>1. \A b : BoughtLots(b)' = BoughtLots(b)
    BY <1>5, <1>6 DEF BoughtLots, AssetOfOrder
  <2> QED
    BY <2>1 DEF OthersBought
<1>9. ASSUME NEW l \in Uncovered(a)'
      PROVE  \/ l \in Known(a)
             \/ \E i \in 1..Len(trade_after) :
                  /\ Loose(user_events, trade_after[i]) /\ l \in Lots
                  /\ trade_after[i].id = l[1]
                  /\ trade_after[i].had < l[2] /\ l[2] <= trade_after[i].has
  <2>1. l \in Exposed(a) /\ ~Covered(l[1])'
    BY <1>7 DEF Uncovered
  <2>2. l \in Lots /\ AssetOfOrder(l[1]) = a /\ l[1] \in Orders
    BY <1>6, <2>1 DEF Exposed
  <2>3. open_orders[KeyOf[l[1]]] # l[1]
    BY <1>4, <2>1, <2>2
  <2> QED
    BY <2>1, <2>2, <2>3, ForgottenIsKnown
<1>10. \E N : /\ IsFiniteSet(N) /\ Cardinality(N) \in Nat /\ Cardinality(N) <= TARGET_ORDER_SIZE
              /\ Uncovered(a)' \subseteq Known(a) \cup N
  <2>1. CASE \E i \in 1..Len(trade_after) : Loose(user_events, trade_after[i])
    <3>1. PICK i \in 1..Len(trade_after) : Loose(user_events, trade_after[i])
      BY <2>1
    <3>2. \A j \in 1..Len(trade_after) : Loose(user_events, trade_after[j]) => i = j
      BY <3>1 DEF TradesInv, OneLoose
    <3>3. PICK x \in Orders : x = trade_after[i].id
      BY TradeFields
    <3>4. PICK m \in Nat : m = trade_after[i].had
      BY TradeFields
    <3>5. PICK n \in Nat : n = trade_after[i].has
      BY TradeFields
    <3>6. m < n /\ n <= matched(x)
      BY <3>3, <3>4, <3>5 DEF TradesInv, TradesFollow
    <3>7. PICK k \in 0..TARGET_ORDER_SIZE : k = matched(x)
      BY MatchedType
    <3>8. m <= n /\ n <= TARGET_ORDER_SIZE /\ n - m \in Nat /\ n - m <= TARGET_ORDER_SIZE
      BY <3>6, <3>7, TargetType
    <3>9. /\ IsFiniteSet(LotsOf(x, m, n)) /\ Cardinality(LotsOf(x, m, n)) = n - m
          /\ LotsOf(x, m, n) = {l \in Lots : l[1] = x /\ m < l[2] /\ l[2] <= n}
      BY <3>8, LotsCounted
    <3>10. Uncovered(a)' \subseteq Known(a) \cup LotsOf(x, m, n)
      BY <1>9, <3>2, <3>3, <3>4, <3>5, <3>9
    <3> QED
      BY <3>8, <3>9, <3>10
  <2>2. CASE ~\E i \in 1..Len(trade_after) : Loose(user_events, trade_after[i])
    <3>1. Uncovered(a)' \subseteq Known(a) \cup {}
      BY <1>9, <2>2
    <3>2. IsFiniteSet({}) /\ Cardinality({}) = 0
      BY FS_EmptySet
    <3> QED
      BY <3>1, <3>2, TargetType
  <2> QED
    BY <2>1, <2>2
<1>11. PICK N : /\ IsFiniteSet(N) /\ Cardinality(N) \in Nat
                /\ Cardinality(N) <= TARGET_ORDER_SIZE
                /\ Uncovered(a)' \subseteq Known(a) \cup N
  BY <1>10
<1>12. IsFiniteSet(Known(a)) /\ Cardinality(Known(a)) \in Nat
  BY KnownFinite DEF TradesInv
<1>13. /\ IsFiniteSet(Known(a) \cup N) /\ Cardinality(Known(a) \cup N) \in Nat
       /\ Cardinality(Known(a) \cup N) <= Cardinality(Known(a)) + Cardinality(N)
  BY <1>11, <1>12, UnionCounted
<1>14. /\ Cardinality(Uncovered(a)') <= Cardinality(Known(a) \cup N)
       /\ Cardinality(Uncovered(a)') \in Nat
  BY <1>11, <1>13, FS_Subset, FS_CardinalityType
<1>15. /\ Cardinality(Known(a)) = position[a]
       /\ position[a] < OtherPosition(a) + TARGET_ORDER_SIZE
  BY <1>1, <1>3 DEF TradesInv, Counted, BelowTarget
<1>16. /\ Cardinality(OthersBought(a)) \in Nat /\ OtherPosition(a) \in Nat
       /\ OtherPosition(a) <= Cardinality(OthersBought(a))
  BY BoundsAreFinite, OtherPositionBought DEF TradesInv
<1>17. Cardinality(Uncovered(a)') < Cardinality(OthersBought(a)') + 2 * TARGET_ORDER_SIZE
  BY <1>8, <1>11, <1>12, <1>13, <1>14, <1>15, <1>16, TargetType
<1>18. AssetOfOrder(plan') = a
  BY <1>1, <1>3 DEF AssetOfOrder
<1> QED
  BY <1>17, <1>18 DEF RoomForPlan, TARGET_ORDER_SIZE

LEMMA StepKeepsBound ==
  ASSUME Answered, IInv, IInv', QuoteInv, QuoteInv', AgreedInv, AgreedInv',
         BoughtInv, BoughtInv', BoundInv, [TobNext]_tob_all_vars
  PROVE  BoundInv'
<1> SUFFICES ASSUME ~reused', ~exited' PROVE Bounded' /\ RoomForPlan'
  BY DEF BoundInv
<1>1. ~reused
  BY DEF TobNext, tob_handle_market_price_change, cancel_orders, execute_order_plan,
     wait_over, TobUserEvent, HandleTrade, Fill, TobElsewhere, tob_vars, tob_all_vars
<1>2. /\ PlanOk /\ SettledInv /\ Listed /\ TradesInv /\ FillsTold /\ FillsTold'
      /\ AskedInFlight /\ AskedInFlight'
      /\ IsFiniteSet(Placed) /\ IsFiniteSet(Placed)'
  BY <1>1 DEF QuoteInv, BoughtInv, TradesInv, AgreedInv, AgreeInv
<1>3. ASSUME NEW o \in Orders, tob_handle_market_price_change(o)
      PROVE  Bounded' /\ RoomForPlan'
  <2>1. UNCHANGED <<exch, exch_filled, asked, exited>>
    BY <1>3 DEF tob_handle_market_price_change, vars, exch_vars
  <2>2. \A p \in Orders : matched(p)' = matched(p) /\ Exposure(p)' = Exposure(p)
    BY <2>1 DEF matched, Exposure, TARGET_ORDER_SIZE
  <2>3. Lots' = Lots /\ \A l \in Lots : l[1] \in Orders
    BY LotFields DEF Lots, TARGET_ORDER_SIZE
  <2>4. \A b : BoughtLots(b)' = BoughtLots(b) /\ Exposed(b)' = Exposed(b)
    BY <2>1, <2>2, <2>3 DEF BoughtLots, Exposed, AssetOfOrder
  <2>5. \A a : OthersBought(a)' = OthersBought(a)
    BY <2>4 DEF OthersBought
  <2>6. Bounded
    BY <1>1, <2>1 DEF BoundInv
  <2>7. Bounded'
    BY <2>4, <2>5, <2>6 DEF Bounded, TARGET_ORDER_SIZE
  <2> QED
    BY <1>2, <1>3, <2>7, StartLeavesRoom
<1>4. CASE execute_order_plan
  <2>1. ~exited
    BY <1>4 DEF execute_order_plan, place_limit_order, place_zero_amount
  <2> QED
    BY <1>1, <1>2, <1>4, <2>1, PlacingKeepsBound DEF BoundInv
<1>5. CASE ~execute_order_plan /\ \A o \in Orders : ~tob_handle_market_price_change(o)
  <2>1. CalmStep
    BY <1>2, <1>5, CalmSteps
  <2>2. Bounded /\ RoomForPlan
    BY <1>1, <2>1, CalmStaysExited DEF BoundInv
  <2>3. asked \subseteq asked'
    BY <1>2, StepKeepsAsked
  <2> QED
    BY <1>2, <1>5, <2>1, <2>2, <2>3, CalmSteps, CalmKeepsBound
<1> QED
  BY <1>3, <1>4, <1>5

LEMMA InitBought == TobInit => BoughtInv /\ BoundInv
<1> SUFFICES ASSUME TobInit PROVE BoughtInv /\ BoundInv
  OBVIOUS
<1>1. Len(user_events) = 0 /\ trade_after = <<>> /\ Len(trade_after) = 0
  BY DEF TobInit, Init
<1>2. \A o \in Orders : exch[o] = "none" /\ exch_filled[o] = 0
  BY DEF TobInit, Init
<1>3. IsFiniteSet({}) /\ Cardinality({}) = 0
  BY FS_EmptySet
<1>4. Placed = {}
  BY <1>2 DEF Placed
<1>5. ASSUME NEW l \in Lots
      PROVE  ~(l[2] <= matched(l[1])) /\ ~(l[2] <= Exposure(l[1]))
  <2>1. PICK p \in Orders : p = l[1]
    BY LotFields
  <2>2. matched(p) = 0 /\ Exposure(p) = 0
    BY <1>2 DEF matched, Exposure
  <2> QED
    BY <2>1, <2>2, LotFields, TargetType
<1>6. \A a : BoughtLots(a) = {} /\ Exposed(a) = {}
  BY <1>5 DEF BoughtLots, Exposed
<1>7. \A a : Known(a) = {} /\ OthersBought(a) = {}
  BY <1>6 DEF Known, OthersBought
<1>8. position \in [Assets -> Nat] /\ Counted
  BY <1>3, <1>7 DEF TobInit, Counted
<1>9. TradesFollow /\ DistinctTrades /\ OneLoose /\ TakersFilled /\ EndsTracked /\ EndComes
  BY <1>1 DEF TradesFollow, DistinctTrades, OneLoose, TakersFilled, EndsTracked, EndComes
<1>10. Bounded /\ RoomForPlan
  <2>1. plan = NoOrder
    BY DEF TobInit
  <2>2. 0 < 0 + 3 * TARGET_ORDER_SIZE
    BY TargetType
  <2> QED
    BY <1>3, <1>6, <1>7, <2>1, <2>2 DEF Bounded, RoomForPlan
<1> QED
  BY <1>1, <1>3, <1>4, <1>8, <1>9, <1>10 DEF BoughtInv, TradesInv, BoundInv

LEMMA BoundInvariant ==
  ASSUME Answered, Told
  PROVE  TobSpec => [](BoughtInv /\ BoundInv)
<1>1. TobInit => BoughtInv /\ BoundInv
  BY InitBought
<1>2. ASSUME IInv /\ QuoteInv /\ AgreedInv, (IInv /\ QuoteInv /\ AgreedInv)',
             BoughtInv /\ BoundInv, [TobNext]_tob_all_vars
      PROVE  (BoughtInv /\ BoundInv)'
  BY <1>2, StepKeepsBought, StepKeepsBound
<1> QED
  BY <1>1, <1>2, AgreedInvariant, PTL DEF TobSpec

\* If no message is lost either, then, over what was bought of the other
\* token, what the orders that nothing was asked to cancel have bought or
\* still may stays below three times what the strategy aims for, whatever part
\* of them the exchange matches at a time, and although the strategy learns of
\* a fill after it has forgotten the order.
THEOREM BelowThrice ==
  ASSUME Answered, Told
  PROVE  TobSpec => []BelowThriceTarget
<1>1. BoundInv => BelowThriceTarget
  BY DEF BoundInv, Bounded, BelowThriceTarget
<1> QED
  BY <1>1, BoundInvariant, PTL
=============================================================================
