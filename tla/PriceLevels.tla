---------------------------- MODULE PriceLevels ----------------------------
(***************************************************************************)
(* What the local order book of an asset promises: two maps price -> size  *)
(* and nothing derived from them, brought up to date by the messages of a  *)
(* queue, one at a time and in order.  A book message sets both maps.  A   *)
(* change sets one level of one side and takes away, on the other side,    *)
(* exactly the levels it crosses: asks at or below a changed bid, bids at  *)
(* or above a changed ask.  Nothing else changes a level.                  *)
(***************************************************************************)
EXTENDS Naturals, SequencesExt

CONSTANTS MaxPrice, MaxSize

VARIABLES present, bids, asks, feed

levels == <<present, bids, asks>>
level_vars == <<levels, feed>>

Prices == 1..MaxPrice
Empty  == [p \in Prices |-> 0]

Init ==
  /\ present = FALSE
  /\ bids = Empty
  /\ asks = Empty
  /\ feed = <<>>

\* A book without a level says nothing.
Book(b, a) ==
  IF b = Empty /\ a = Empty THEN UNCHANGED levels
  ELSE present' = TRUE /\ bids' = b /\ asks' = a

ChangeBid(p, s) ==
  /\ bids' = [bids EXCEPT ![p] = s]
  /\ asks' = [q \in Prices |-> IF q <= p THEN 0 ELSE asks[q]]

ChangeAsk(p, s) ==
  /\ asks' = [asks EXCEPT ![p] = s]
  /\ bids' = [q \in Prices |-> IF q >= p THEN 0 ELSE bids[q]]

\* Changes to a book that was never sent are ignored.
Change(side, p, s) ==
  IF present
  THEN /\ IF side = "BUY" THEN ChangeBid(p, s) ELSE ChangeAsk(p, s)
       /\ UNCHANGED present
  ELSE UNCHANGED levels

Apply(m) ==
  \/ m.type = "book" /\ Book(m.bids, m.asks)
  \/ m.type = "price_change" /\ Change(m.side, m.price, m.size)
  \/ m.type = "tick_size_change" /\ UNCHANGED levels

Handle ==
  /\ feed # <<>>
  /\ feed' = Tail(feed)
  /\ Apply(Head(feed))

\* Messages come at the end of the queue, and are lost from its end.
Channel ==
  /\ IsPrefix(feed, feed') \/ IsPrefix(feed', feed)
  /\ UNCHANGED levels

Next == Handle \/ Channel

Spec == Init /\ [][Next]_level_vars
=============================================================================
