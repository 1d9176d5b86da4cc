------------------------ MODULE EventPipelineProofs ------------------------
(***************************************************************************)
(* Proofs about EventPipeline, for any number of listeners and events, and *)
(* with or without panics: the pending counter accounts for every event    *)
(* and so never wraps, and each listener's events are handled in order.    *)
(***************************************************************************)
EXTENDS EventPipeline, FiniteSetTheorems, TLAPS

-----------------------------------------------------------------------------
(* The counter                                                             *)

\* TypeOK without the claim that the counter does not go below zero.
Types ==
  /\ pending \in Int
  /\ queue \in Seq(Event)
  /\ sender \in [Listeners -> SenderState]
  /\ sent \in [Listeners -> Nat]
  /\ processor \in ProcessorState
  /\ current \in Event \cup {<<>>}
  /\ handled \in [Listeners -> Nat]
  /\ dropped \in Nat

AccountInv ==
  /\ Types
  /\ PendingAccountsForAll
  /\ processor \in {"handling", "handled"} => current \in Event
  /\ processor = "dead" => queue = <<>>
  /\ processor # "dead" => dropped = 0

LEMMA CountedFinite == IsFiniteSet(Counted) /\ Cardinality(Counted) \in Nat
<1>1. Counted \in SUBSET Listeners
    BY DEF Counted
<1>2. IsFiniteSet(Counted)
    BY <1>1, EventPipelineAssumption, FS_Subset
<1> QED BY <1>2, FS_CardinalityType

LEMMA InHandNat == InHand \in {0, 1}
BY DEF InHand

\* The steps of the sending side move one listener in or out of Counted.
LEMMA CountedGrows ==
  ASSUME Types, NEW l \in Listeners, sender[l] \notin {"counted", "failed"},
         sender' = [sender EXCEPT ![l] = "counted"]
  PROVE  Cardinality(Counted') = Cardinality(Counted) + 1
<1>1. l \notin Counted /\ Counted' = Counted \cup {l}
    BY DEF Types, Counted
<1> QED BY <1>1, CountedFinite, FS_AddElement

LEMMA CountedShrinks ==
  ASSUME Types, NEW l \in Listeners, sender[l] \in {"counted", "failed"},
         NEW s \in {"reading", "stopped"}, sender' = [sender EXCEPT ![l] = s]
  PROVE  Cardinality(Counted') = Cardinality(Counted) - 1
<1>1. l \in Counted /\ Counted' = Counted \ {l}
    BY DEF Types, Counted
<1> QED BY <1>1, CountedFinite, FS_RemoveElement

LEMMA InitAccount == Init => AccountInv
<1> SUFFICES ASSUME Init PROVE AccountInv
    OBVIOUS
<1>1. Types
    BY DEF Init, Types, SenderState, ProcessorState
<1>2. Counted = {}
    BY DEF Init, Counted
<1>3. PendingAccountsForAll
    BY <1>2, FS_EmptySet DEF Init, PendingAccountsForAll, InHand
<1> QED BY <1>1, <1>3 DEF Init, AccountInv

LEMMA StepAccount == AccountInv /\ [Next]_vars => AccountInv'
<1> SUFFICES ASSUME AccountInv, [Next]_vars PROVE AccountInv'
    OBVIOUS
<1> USE DEF AccountInv
<1>0. Cardinality(Counted) \in Nat /\ Len(queue) \in Nat
    BY CountedFinite DEF Types
<1>1. ASSUME NEW l \in Listeners, Count(l) PROVE AccountInv'
  <2>1. Types'
      BY <1>1 DEF Count, Types, SenderState
  <2>2. Cardinality(Counted') = Cardinality(Counted) + 1
      BY <1>1, CountedGrows DEF Count
  <2>3. pending' = pending + 1 /\ UNCHANGED <<queue, dropped>> /\ InHand' = InHand
      BY <1>1 DEF Count, InHand
  <2>4. PendingAccountsForAll'
      BY <1>0, <2>2, <2>3, InHandNat DEF Types, PendingAccountsForAll
  <2> QED BY <1>1, <2>1, <2>4 DEF Count
<1>2. ASSUME NEW l \in Listeners, Push(l) PROVE AccountInv'
  <2>1. sent' \in [Listeners -> Nat] /\ <<l, sent'[l]>> \in Event
      BY <1>2 DEF Push, Types, Event
  <2>2. CASE processor # "dead"
    <3>1. queue' \in Seq(Event) /\ Len(queue') = Len(queue) + 1
      <4> DEFINE e == <<l, sent'[l]>>
      <4>1. queue' = Append(queue, e) /\ queue \in Seq(Event) /\ e \in Event
          BY <1>2, <2>1, <2>2 DEF Push, Types
      <4> HIDE DEF e
      <4> QED BY <4>1
    <3>2. Types'
        BY <1>2, <2>1, <2>2, <3>1 DEF Push, Types, SenderState
    <3>3. Cardinality(Counted') = Cardinality(Counted) - 1
        BY <1>2, <2>2, CountedShrinks DEF Push
    <3>4. PendingAccountsForAll'
        BY <1>0, <1>2, <3>1, <3>3 DEF Push, Types, PendingAccountsForAll, InHand
    <3> QED BY <1>2, <2>2, <3>2, <3>4 DEF Push
  <2>3. CASE processor = "dead"
    <3>1. Types'
        BY <1>2, <2>1, <2>3 DEF Push, Types, SenderState
    <3>2. Counted' = Counted
        BY <1>2, <2>3 DEF Push, Types, Counted
    <3>3. PendingAccountsForAll'
        BY <1>2, <2>3, <3>2 DEF Push, PendingAccountsForAll, InHand
    <3> QED BY <1>2, <2>3, <3>1, <3>3 DEF Push
  <2> QED BY <2>2, <2>3
<1>3. ASSUME NEW l \in Listeners, Uncount(l) PROVE AccountInv'
  <2>1. Types'
      BY <1>3 DEF Uncount, Types, SenderState
  <2>2. Cardinality(Counted') = Cardinality(Counted) - 1
      BY <1>3, CountedShrinks DEF Uncount
  <2>3. pending' = pending - 1 /\ UNCHANGED <<queue, dropped>> /\ InHand' = InHand
      BY <1>3 DEF Uncount, InHand
  <2>4. PendingAccountsForAll'
      BY <1>0, <2>2, <2>3, InHandNat DEF Types, PendingAccountsForAll
  <2> QED BY <1>3, <2>1, <2>4 DEF Uncount
<1>4. CASE Receive
  <2>1. /\ queue' \in Seq(Event) /\ Len(queue') = Len(queue) - 1
        /\ current' \in Event
      BY <1>4 DEF Receive, Types
  <2>2. Types'
      BY <1>4, <2>1 DEF Receive, Types, ProcessorState
  <2>3. Counted' = Counted
      BY <1>4 DEF Receive, Counted
  <2>4. PendingAccountsForAll'
      BY <1>0, <1>4, <2>1, <2>3 DEF Receive, Types, PendingAccountsForAll, InHand
  <2> QED BY <1>4, <2>1, <2>2, <2>4 DEF Receive
<1>5. CASE handle_event
  <2>1. current[1] \in Listeners /\ current[2] \in Nat
      BY <1>5 DEF handle_event, Event
  <2>2. Types'
      BY <1>5, <2>1 DEF handle_event, Types, ProcessorState
  <2>3. PendingAccountsForAll'
      BY <1>5 DEF handle_event, PendingAccountsForAll, InHand, Counted
  <2> QED BY <1>5, <2>2, <2>3 DEF handle_event
<1>6. CASE Finish
  <2>1. Types'
      BY <1>6 DEF Finish, Types, ProcessorState
  <2>2. Counted' = Counted
      BY <1>6 DEF Finish, Counted
  <2>3. PendingAccountsForAll'
      BY <1>0, <1>6, <2>2 DEF Finish, Types, PendingAccountsForAll, InHand
  <2> QED BY <1>6, <2>1, <2>3 DEF Finish
<1>7. CASE Panic
  <2>1. dropped' = 1 + Len(queue) /\ queue' = <<>> /\ dropped' \in Nat
      BY <1>0, <1>7 DEF Panic
  <2>2. Types'
      BY <1>7, <2>1 DEF Panic, Types, ProcessorState
  <2>3. Counted' = Counted
      BY <1>7 DEF Panic, Counted
  <2>4. PendingAccountsForAll'
      BY <1>0, <1>7, <2>1, <2>3 DEF Panic, Types, PendingAccountsForAll, InHand
  <2> QED BY <1>7, <2>1, <2>2, <2>4 DEF Panic
<1>8. CASE UNCHANGED vars
    BY <1>8 DEF vars, Types, PendingAccountsForAll, Counted, InHand
<1> QED BY <1>1, <1>2, <1>3, <1>4, <1>5, <1>6, <1>7, <1>8
        DEF Next, Listener, Processor

\* At every moment between the steps of the sending threads and of the
\* receiving task the counter is the number of events on their way, queued,
\* being handled or lost in a panic.
THEOREM PendingAccounts == Spec => []PendingAccountsForAll
<1>1. AccountInv => PendingAccountsForAll
    BY DEF AccountInv
<1> QED BY <1>1, InitAccount, StepAccount, PTL DEF Spec

\* The types hold and the unsigned counter never goes below zero.
THEOREM PipelineTypeCorrect == Spec => []TypeOK
<1>1. AccountInv => TypeOK
    BY CountedFinite DEF AccountInv, Types, TypeOK, PendingAccountsForAll, InHand
<1> QED BY <1>1, InitAccount, StepAccount, PTL DEF Spec

-----------------------------------------------------------------------------
(* The order of the events of one listener                                 *)

\* The number of the last event of listener l taken off the queue.
Received(l) ==
  IF processor = "handling" /\ current[1] = l THEN current[2] ELSE handled[l]

\* Events in the queue have been pushed and not yet been received,
Fresh ==
  \A i \in 1..Len(queue) : \A l \in Listeners :
    queue[i][1] = l => Received(l) < queue[i][2] /\ queue[i][2] <= sent[l]
\* they are in ascending order,
Ascending ==
  \A i, j \in 1..Len(queue) :
    i < j /\ queue[i][1] = queue[j][1] => queue[i][2] < queue[j][2]
\* and none is missing unless a panic has closed the channel.
Complete ==
  processor # "dead" =>
    \A l \in Listeners : \A n \in Nat :
      Received(l) < n /\ n <= sent[l] =>
        \E i \in 1..Len(queue) : queue[i] = <<l, n>>

OrderInv ==
  /\ AccountInv
  /\ processor = "handling" => current[2] = handled[current[1]] + 1
  /\ \A l \in Listeners : Received(l) <= sent[l]
  /\ Fresh
  /\ Ascending
  /\ Complete

\* What the types say of the events in the queue and of those received.
LEMMA EventTypes ==
  ASSUME AccountInv
  PROVE  /\ Len(queue) \in Nat
         /\ \A i \in 1..Len(queue) :
              /\ queue[i] \in Event
              /\ queue[i][1] \in Listeners /\ queue[i][2] \in Nat
              /\ queue[i] = <<queue[i][1], queue[i][2]>>
         /\ \A l \in Listeners :
              Received(l) \in Nat /\ sent[l] \in Nat /\ handled[l] \in Nat
         /\ processor = "handling" =>
              current[1] \in Listeners /\ current[2] \in Nat
<1> USE DEF AccountInv, Types, Event
<1>1. \A i \in 1..Len(queue) : queue[i] \in Event
    OBVIOUS
<1>2. \A i \in 1..Len(queue) :
        /\ queue[i][1] \in Listeners /\ queue[i][2] \in Nat
        /\ queue[i] = <<queue[i][1], queue[i][2]>>
    BY <1>1
<1>3. \A l \in Listeners : Received(l) \in Nat /\ sent[l] \in Nat /\ handled[l] \in Nat
    BY DEF Received
<1>4. /\ Len(queue) \in Nat
      /\ processor = "handling" => current[1] \in Listeners /\ current[2] \in Nat
    OBVIOUS
<1> QED BY ONLY <1>1, <1>2, <1>3, <1>4

LEMMA InitOrder == Init => OrderInv
<1> SUFFICES ASSUME Init PROVE OrderInv
    OBVIOUS
<1>1. AccountInv
    BY InitAccount
<1>2. Len(queue) = 0
    BY DEF Init
<1> QED BY <1>1, <1>2 DEF Init, OrderInv, Received, Fresh, Ascending, Complete

\* A step that leaves the queue, the numbers sent and those received alone.
LEMMA QueueUntouched ==
  ASSUME OrderInv, AccountInv',
         UNCHANGED <<queue, sent>>,
         \A l \in Listeners : Received(l)' = Received(l),
         processor' = "handling" =>
           processor = "handling" /\ UNCHANGED <<current, handled>>,
         processor = "dead" => processor' = "dead"
  PROVE  OrderInv'
<1> USE EventTypes DEF OrderInv
<1>1. Fresh'
    BY DEF Fresh
<1>2. Ascending'
    BY DEF Ascending
<1>3. Complete'
    BY DEF Complete
<1> QED BY <1>1, <1>2, <1>3

LEMMA PushKeepsOrder ==
  ASSUME OrderInv, AccountInv', NEW l \in Listeners, Push(l)
  PROVE  OrderInv'
<1>1. /\ sent \in [Listeners -> Nat] /\ sent' = [sent EXCEPT ![l] = @ + 1]
      /\ UNCHANGED <<processor, current, handled>>
    BY DEF Push, OrderInv, AccountInv, Types
<1>2. \A m \in Listeners : Received(m)' = Received(m)
    BY <1>1 DEF Received
<1>3. \A m \in Listeners : Received(m)' <= sent'[m]
    BY <1>1, <1>2, EventTypes DEF OrderInv
<1>4. CASE processor = "dead"
  <2>1. Len(queue') = 0
      BY <1>1, <1>4 DEF OrderInv, AccountInv
  <2> QED BY <1>1, <1>3, <1>4, <2>1 DEF OrderInv, Fresh, Ascending, Complete
<1>5. CASE processor # "dead"
  <2> DEFINE e == <<l, sent[l] + 1>>
             last == Len(queue) + 1
  <2>1. e \in Event /\ e[1] = l /\ e[2] = sent[l] + 1
      BY <1>1 DEF Event
  <2>2. queue' = Append(queue, e) /\ queue \in Seq(Event)
      BY <1>1, <1>5 DEF Push, OrderInv, AccountInv, Types
  <2> HIDE DEF e
  <2>3. /\ Len(queue') = last /\ last \in Nat
        /\ \A i \in 1..Len(queue) : queue'[i] = queue[i]
        /\ queue'[last] = e
        /\ \A i \in 1..last : i \in 1..Len(queue) \/ i = last
      BY <2>1, <2>2
  <2> HIDE DEF last
  <2>4. Fresh'
    <3> SUFFICES ASSUME NEW i \in 1..last, NEW m \in Listeners,
                        queue'[i][1] = m
                 PROVE  Received(m)' < queue'[i][2] /\ queue'[i][2] <= sent'[m]
        BY <2>3 DEF Fresh
    <3>1. CASE i \in 1..Len(queue)
        BY <1>1, <1>2, <2>3, <3>1, EventTypes DEF OrderInv, Fresh
    <3>2. CASE i = last
        BY <1>1, <1>2, <2>1, <2>3, <3>2, EventTypes DEF OrderInv
    <3> QED BY <2>3, <3>1, <3>2
  <2>5. Ascending'
    <3> SUFFICES ASSUME NEW i \in 1..last, NEW j \in 1..last, i < j,
                        queue'[i][1] = queue'[j][1]
                 PROVE  queue'[i][2] < queue'[j][2]
        BY <2>3 DEF Ascending
    <3>1. i \in 1..Len(queue)
        BY <2>3, EventTypes DEF OrderInv, last
    <3>2. CASE j \in 1..Len(queue)
        BY <2>3, <3>1, <3>2 DEF OrderInv, Ascending
    <3>3. CASE j = last
      <4>1. /\ queue[i] = queue'[i] /\ queue'[j] = e
            /\ queue[i][1] \in Listeners /\ queue[i][2] \in Nat
            /\ sent[l] \in Nat
          BY <2>3, <3>1, <3>3, EventTypes DEF OrderInv
      <4>2. queue[i][1] = l
          BY <2>1, <4>1
      <4>3. queue[i][2] <= sent[l]
          BY <3>1, <4>2 DEF OrderInv, Fresh
      <4> QED BY <2>1, <4>1, <4>3
    <3> QED BY <2>3, <3>2, <3>3
  <2>6. Complete'
    <3> SUFFICES ASSUME NEW m \in Listeners, NEW n \in Nat,
                        Received(m)' < n, n <= sent'[m]
                 PROVE  \E i \in 1..last : queue'[i] = <<m, n>>
        BY <2>3 DEF Complete
    <3>1. CASE n <= sent[m]
      <4>1. PICK i \in 1..Len(queue) : queue[i] = <<m, n>>
          BY <1>2, <1>5, <3>1 DEF OrderInv, Complete
      <4>2. i \in 1..last
          BY EventTypes DEF OrderInv, last
      <4> QED BY <2>3, <4>1, <4>2
    <3>2. CASE ~(n <= sent[m])
      <4>1. m = l /\ n = sent[l] + 1
          BY <1>1, <3>2, EventTypes DEF OrderInv
      <4>2. last \in 1..last
          BY <2>3, EventTypes DEF OrderInv, last
      <4> QED BY <2>3, <4>1, <4>2 DEF e
    <3> QED BY <3>1, <3>2
  <2> QED BY <1>1, <1>3, <2>4, <2>5, <2>6 DEF OrderInv
<1> QED BY <1>4, <1>5

LEMMA ReceiveKeepsOrder ==
  ASSUME OrderInv, AccountInv', Receive
  PROVE  OrderInv'
<1> DEFINE e == Head(queue)
<1>1. /\ e = queue[1] /\ 1 \in 1..Len(queue)
      /\ Len(queue') = Len(queue) - 1
      /\ \A i \in 1..Len(queue') : queue'[i] = queue[i + 1] /\ i + 1 \in 1..Len(queue)
    BY DEF Receive, OrderInv, AccountInv, Types
<1>2. /\ processor = "receiving" /\ processor' = "handling" /\ current' = e
      /\ UNCHANGED <<sent, handled>>
    BY DEF Receive
<1> HIDE DEF e
<1>3. e[1] \in Listeners /\ e[2] \in Nat /\ e = <<e[1], e[2]>>
    BY <1>1, EventTypes DEF OrderInv
<1>4. /\ \A l \in Listeners : Received(l) = handled[l]
      /\ \A l \in Listeners : Received(l)' = IF l = e[1] THEN e[2] ELSE handled[l]
    BY <1>2 DEF Received
\* The head is the next event of its listener: that one is in the queue, and
\* nothing of the same listener is before it.
<1>5. e[2] = handled[e[1]] + 1
  <2>1. handled[e[1]] < e[2] /\ e[2] <= sent[e[1]]
      BY <1>1, <1>3, <1>4 DEF OrderInv, Fresh
  <2>2. PICK i \in 1..Len(queue) : queue[i] = <<e[1], handled[e[1]] + 1>>
    <3> DEFINE n == handled[e[1]] + 1
    <3>1. n \in Nat /\ Received(e[1]) < n /\ n <= sent[e[1]]
        BY <1>3, <1>4, <2>1, EventTypes DEF OrderInv
    <3> HIDE DEF n
    <3>2. \E i \in 1..Len(queue) : queue[i] = <<e[1], n>>
        BY <1>2, <1>3, <3>1 DEF OrderInv, Complete
    <3> QED BY <3>2 DEF n
  <2>3. queue[i][1] = e[1] /\ queue[i][2] = handled[e[1]] + 1
      BY <2>2
  <2>4. CASE i = 1
      BY <1>1, <2>3, <2>4
  <2>5. CASE i # 1
    <3>1. e[2] < handled[e[1]] + 1
        BY <1>1, <2>3, <2>5, EventTypes DEF OrderInv, Ascending
    <3> QED BY <1>3, <2>1, <3>1, EventTypes DEF OrderInv
  <2> QED BY <2>4, <2>5
<1>6. \A l \in Listeners : Received(l)' <= sent'[l]
    BY <1>1, <1>2, <1>3, <1>4 DEF OrderInv, Fresh
<1>7. Fresh'
  <2> SUFFICES ASSUME NEW i \in 1..Len(queue'), NEW l \in Listeners,
                      queue'[i][1] = l
               PROVE  Received(l)' < queue'[i][2] /\ queue'[i][2] <= sent'[l]
      BY DEF Fresh
  <2>1. queue'[i] = queue[i + 1] /\ i + 1 \in 1..Len(queue) /\ 1 < i + 1
      BY <1>1, EventTypes DEF OrderInv
  <2>2. Received(l) < queue[i + 1][2] /\ queue[i + 1][2] <= sent[l]
      BY <2>1 DEF OrderInv, Fresh
  <2>3. CASE l = e[1]
    <3>1. e[2] < queue[i + 1][2]
        BY <1>1, <2>1, <2>3 DEF OrderInv, Ascending
    <3> QED BY <1>2, <1>4, <2>1, <2>2, <2>3, <3>1
  <2>4. CASE l # e[1]
      BY <1>2, <1>4, <2>1, <2>2, <2>4
  <2> QED BY <2>3, <2>4
<1>8. Ascending'
  <2> SUFFICES ASSUME NEW i \in 1..Len(queue'), NEW j \in 1..Len(queue'),
                      i < j, queue'[i][1] = queue'[j][1]
               PROVE  queue'[i][2] < queue'[j][2]
      BY DEF Ascending
  <2>1. i + 1 < j + 1
      BY <1>1, EventTypes DEF OrderInv
  <2> QED BY <1>1, <2>1 DEF OrderInv, Ascending
<1>9. Complete'
  <2> SUFFICES ASSUME NEW l \in Listeners, NEW n \in Nat,
                      Received(l)' < n, n <= sent'[l]
               PROVE  \E i \in 1..Len(queue') : queue'[i] = <<l, n>>
      BY DEF Complete
  <2>1. Received(l) < n /\ n <= sent[l]
      BY <1>2, <1>3, <1>4, <1>5, EventTypes DEF OrderInv
  <2>2. PICK i \in 1..Len(queue) : queue[i] = <<l, n>>
      BY <1>2, <2>1 DEF OrderInv, Complete
  <2>3. i # 1
      BY <1>1, <1>3, <1>4, <2>2
  <2>4. i - 1 \in 1..Len(queue') /\ queue'[i - 1] = queue[i]
      BY <1>1, <2>3, EventTypes DEF OrderInv
  <2> QED BY <2>2, <2>4
<1> QED BY <1>2, <1>5, <1>6, <1>7, <1>8, <1>9 DEF OrderInv

LEMMA StepOrder == OrderInv /\ [Next]_vars => OrderInv'
<1> SUFFICES ASSUME OrderInv, [Next]_vars PROVE OrderInv'
    OBVIOUS
<1>1. AccountInv'
    BY StepAccount DEF OrderInv
<1>2. ASSUME NEW l \in Listeners, Count(l) \/ Uncount(l) PROVE OrderInv'
    BY <1>1, <1>2, QueueUntouched DEF Count, Uncount, Received
<1>3. ASSUME NEW l \in Listeners, Push(l) PROVE OrderInv'
    BY <1>1, <1>3, PushKeepsOrder
<1>4. CASE Receive
    BY <1>1, <1>4, ReceiveKeepsOrder
<1>5. CASE handle_event
  <2>1. handled \in [Listeners -> Nat] /\ current[1] \in Listeners
      BY <1>5, EventTypes DEF handle_event, OrderInv, AccountInv, Types
  <2>2. \A l \in Listeners : Received(l)' = Received(l)
      BY <1>5, <2>1 DEF handle_event, Received
  <2> QED BY <1>1, <1>5, <2>2, QueueUntouched DEF handle_event
<1>6. CASE Finish
    BY <1>1, <1>6, QueueUntouched DEF Finish, Received
<1>7. CASE Panic
  <2>1. Len(queue') = 0 /\ processor' = "dead" /\ UNCHANGED <<sent, handled>>
      BY <1>7 DEF Panic
  <2>2. \A l \in Listeners : Received(l)' <= sent'[l]
      BY <1>7, <2>1, EventTypes DEF Panic, OrderInv, Received
  <2> QED BY <1>1, <2>1, <2>2 DEF OrderInv, Fresh, Ascending, Complete
<1>8. CASE UNCHANGED vars
    BY <1>1, <1>8, QueueUntouched DEF vars, Received
<1> QED BY <1>2, <1>3, <1>4, <1>5, <1>6, <1>7, <1>8
        DEF Next, Listener, Processor

\* Each listener's events are handled in the order it read them, none twice
\* and none skipped, however the listeners' sends interleave.
THEOREM InOrder == Spec => HandledInOrder
<1>1. OrderInv /\ [Next]_vars =>
        [\A l \in Listeners : handled'[l] \in {handled[l], handled[l] + 1}]_vars
  <2> SUFFICES ASSUME OrderInv, [Next]_vars, NEW l \in Listeners
               PROVE  handled'[l] \in {handled[l], handled[l] + 1}
      OBVIOUS
  <2>1. CASE handle_event
      BY <2>1, EventTypes DEF handle_event, OrderInv, AccountInv, Types
  <2>2. CASE UNCHANGED handled
      BY <2>2
  <2> QED BY <2>1, <2>2 DEF Next, Listener, Processor, Count, Push, Uncount,
          Receive, Finish, Panic, vars
<1> QED BY <1>1, InitOrder, StepOrder, PTL DEF Spec, HandledInOrder
=============================================================================
