--------------------------- MODULE EventPipeline ---------------------------
(***************************************************************************)
(* The one queue through which every socket event reaches the strategies:  *)
(* listener tasks call CountingSender::send, one task receives the events  *)
(* and runs every strategy on each of them.  A shared atomic counter,      *)
(* pending, is incremented before an event is pushed and decremented after *)
(* it has been handled; the three are separate steps of separate threads.  *)
(* A panic in a handler (the code has several unwraps) ends the receiving  *)
(* task: the channel closes and what it holds is dropped.                  *)
(***************************************************************************)
EXTENDS Integers, Sequences, FiniteSets

CONSTANTS
  Listeners,  \* the listener tasks
  MaxSends    \* bounds the events each listener reads from its socket

ASSUME EventPipelineAssumption ==
  /\ IsFiniteSet(Listeners)
  /\ MaxSends \in Nat

VARIABLES
  pending,    \* the counter (usize in the code: below 0 it would wrap)
  queue,      \* the channel: events <<listener, number>>
  sender,     \* where each listener is in CountingSender::send
  sent,       \* events each listener has pushed or failed to push
  processor,  \* where the receiving task is
  current,    \* the event it has received last
  handled,    \* number of the last event of each listener it has handled
  dropped     \* events lost in the panic

vars == <<pending, queue, sender, sent, processor, current, handled, dropped>>

SenderState == {"reading", "counted", "failed", "stopped"}
ProcessorState == {"receiving", "handling", "handled", "dead"}
Event == Listeners \X Nat

Init ==
  /\ pending = 0
  /\ queue = <<>>
  /\ sender = [l \in Listeners |-> "reading"]
  /\ sent = [l \in Listeners |-> 0]
  /\ processor = "receiving"
  /\ current = <<>>
  /\ handled = [l \in Listeners |-> 0]
  /\ dropped = 0

-----------------------------------------------------------------------------
(* CountingSender::send                                                    *)

\* Slip: the event is not counted before it is pushed.
Count_NotBefore(l) ==
  /\ sender[l] = "reading"
  /\ sent[l] < MaxSends
  /\ sender' = [sender EXCEPT ![l] = "counted"]
  /\ UNCHANGED <<pending, queue, sent, processor, current, handled, dropped>>

Count(l) ==
  /\ sender[l] = "reading"
  /\ sent[l] < MaxSends
  /\ pending' = pending + 1
  /\ sender' = [sender EXCEPT ![l] = "counted"]
  /\ UNCHANGED <<queue, sent, processor, current, handled, dropped>>

\* Slip: an event is not queued while another one is being handled.
Push_Busy(l) ==
  /\ sender[l] = "counted"
  /\ sent' = [sent EXCEPT ![l] = @ + 1]
  /\ sender' = [sender EXCEPT ![l] = "reading"]
  /\ queue' = IF processor = "receiving" THEN Append(queue, <<l, sent'[l]>>)
                                         ELSE queue
  /\ UNCHANGED <<pending, processor, current, handled, dropped>>

Push(l) ==
  /\ sender[l] = "counted"
  /\ sent' = [sent EXCEPT ![l] = @ + 1]
  /\ IF processor # "dead"
     THEN /\ queue' = Append(queue, <<l, sent'[l]>>)
          /\ sender' = [sender EXCEPT ![l] = "reading"]
     ELSE /\ UNCHANGED queue
          /\ sender' = [sender EXCEPT ![l] = "failed"]
  /\ UNCHANGED <<pending, processor, current, handled, dropped>>

\* Slip: the count of an event that could not be pushed is not taken back.
Uncount_Forgotten(l) ==
  /\ sender[l] = "failed"
  /\ \E s \in {"reading", "stopped"} : sender' = [sender EXCEPT ![l] = s]
  /\ UNCHANGED <<pending, queue, sent, processor, current, handled, dropped>>

\* The count is taken back; the Polymarket listeners log the error and read
\* on, the crypto listeners return.
Uncount(l) ==
  /\ sender[l] = "failed"
  /\ pending' = pending - 1
  /\ \E s \in {"reading", "stopped"} : sender' = [sender EXCEPT ![l] = s]
  /\ UNCHANGED <<queue, sent, processor, current, handled, dropped>>

-----------------------------------------------------------------------------
(* The receiving task                                                      *)

\* Slip: the latest event is received first.
Receive_Latest ==
  /\ processor = "receiving"
  /\ queue # <<>>
  /\ current' = queue[Len(queue)]
  /\ queue' = SubSeq(queue, 1, Len(queue) - 1)
  /\ processor' = "handling"
  /\ UNCHANGED <<pending, sender, sent, handled, dropped>>

Receive ==
  /\ processor = "receiving"
  /\ queue # <<>>
  /\ current' = Head(queue)
  /\ queue' = Tail(queue)
  /\ processor' = "handling"
  /\ UNCHANGED <<pending, sender, sent, handled, dropped>>

handle_event ==
  /\ processor = "handling"
  /\ handled' = [handled EXCEPT ![current[1]] = current[2]]
  /\ processor' = "handled"
  /\ UNCHANGED <<pending, queue, sender, sent, current, dropped>>

Finish ==
  /\ processor = "handled"
  /\ pending' = pending - 1
  /\ processor' = "receiving"
  /\ UNCHANGED <<queue, sender, sent, current, handled, dropped>>

Panic ==
  /\ processor = "handling"
  /\ processor' = "dead"
  /\ dropped' = 1 + Len(queue)
  /\ queue' = <<>>
  /\ UNCHANGED <<pending, sender, sent, current, handled>>

Listener(l) == Count(l) \/ Push(l) \/ Uncount(l)
Processor == Receive \/ handle_event \/ Finish \/ Panic

Next == (\E l \in Listeners : Listener(l)) \/ Processor

Spec == Init /\ [][Next]_vars

\* Tasks that can run do run; nothing makes a socket deliver events.
Fairness ==
  /\ WF_vars(Receive \/ handle_event \/ Finish)
  /\ \A l \in Listeners : WF_vars(Push(l) \/ Uncount(l))

FairSpec == Spec /\ Fairness

-----------------------------------------------------------------------------
(* Properties                                                              *)

\* Every variable has its type; the counter is unsigned and never wraps.
TypeOK ==
  /\ pending \in Nat
  /\ queue \in Seq(Event)
  /\ sender \in [Listeners -> SenderState]
  /\ sent \in [Listeners -> Nat]
  /\ processor \in ProcessorState
  /\ current \in Event \cup {<<>>}
  /\ handled \in [Listeners -> Nat]
  /\ dropped \in Nat

\* Listeners between counting an event and pushing it or taking it back.
Counted == {l \in Listeners : sender[l] \in {"counted", "failed"}}
InHand == IF processor \in {"handling", "handled"} THEN 1 ELSE 0

\* The counter accounts for every event, at every moment between the steps
\* of the threads that change it: those on their way into the queue, those
\* in it, the one being handled, and for ever those a panic has dropped.
PendingAccountsForAll ==
  pending = Cardinality(Counted) + Len(queue) + InHand + dropped

\* Each listener's events are handled in the order it read them, none twice
\* and none skipped.
HandledInOrder ==
  [][\A l \in Listeners : handled'[l] \in {handled[l], handled[l] + 1}]_vars

\* Unless a handler panics, every event pushed into the channel is handled.
EveryEventHandled ==
  \A l \in Listeners : \A n \in 1..MaxSends :
    (sent[l] >= n) ~> (handled[l] >= n \/ processor = "dead")
=============================================================================
