----------------------------- MODULE MarketFeed -----------------------------
(***************************************************************************)
(* The local order book of one asset together with the market channel that *)
(* feeds it.  The exchange keeps its own book and writes every change of   *)
(* it to the websocket; the listener pushes what it reads into the event   *)
(* queue and UpdateOrderbookStrategy applies it in order.  feed is both:   *)
(* the messages not yet applied.                                           *)
(*                                                                         *)
(* When the connection is lost the listener sleeps and subscribes again.   *)
(* What had not been read is lost, what is in the queue is still applied,  *)
(* and nothing tells the strategies: the last book stays in use.  The      *)
(* first message of a new subscription is the full book, which             *)
(* handle_book_legacy drops when it is empty.                              *)
(*                                                                         *)
(* The exchange is not part of the repository.  Its book is never crossed; *)
(* an order that matches removes the levels it takes and may leave a       *)
(* rest.  The changes of such an order may be announced in either order.   *)
(***************************************************************************)
EXTENDS PolyOrderbook, SequencesExt

CONSTANT
  MaxFeed      \* bounds the messages on their way

ASSUME MarketFeedAssumption == MaxFeed \in Nat

VARIABLES
  xbids, xasks,  \* the exchange's own book
  xtick,         \* its tick size of the asset
  feed,          \* messages written by it and not yet applied
  connected,     \* whether the subscription stands
  \* history of the connection that stands:
  synced,        \* the last full book was applied, not dropped
  ordered,       \* it announced no rest of an order before what that took
  tick_told      \* it announced the tick size after the last full book, or the
                 \*   tick size was the market's first one when that was sent

xlevels == <<xbids, xasks>>
exchange_vars == <<xlevels, xtick>>
history_vars == <<synced, ordered, tick_told>>
feed_vars == <<book_vars, exchange_vars, feed, connected, history_vars>>

BookMessage(b, a) == [type |-> "book", bids |-> b, asks |-> a]
Change(side, p, s) ==
  [type |-> "price_change", side |-> side, price |-> p, size |-> s]
TickSizeChange(t) == [type |-> "tick_size_change", new_tick_size |-> t]

FeedInit ==
  /\ Init
  /\ xbids = Empty
  /\ xasks = Empty
  /\ xtick = MarketTick
  /\ feed = <<>>
  /\ connected = FALSE
  /\ synced = FALSE
  /\ ordered = TRUE
  /\ tick_told = TRUE

-----------------------------------------------------------------------------
(* The event processor                                                     *)

HandleMarketEvent ==
  /\ feed # <<>>
  /\ feed' = Tail(feed)
  /\ LET m == Head(feed) IN
       \/ /\ m.type = "book"
          /\ handle_book(m.bids, m.asks)
          /\ synced' = (connected /\ (m.bids # Empty \/ m.asks # Empty))
       \/ /\ m.type = "price_change"
          /\ price_change(m.side, m.price, m.size)
          /\ UNCHANGED synced
       \/ /\ m.type = "tick_size_change"
          /\ tick_size_change(m.new_tick_size)
          /\ UNCHANGED synced
  /\ UNCHANGED <<exchange_vars, connected, ordered, tick_told>>

\* A strategy reads the best prices between two messages.
ReadBest ==
  /\ best_bid \/ best_ask
  /\ UNCHANGED <<exchange_vars, feed, connected, history_vars>>

-----------------------------------------------------------------------------
(* The exchange and the connection                                         *)

\* The messages ms reach the listener if it is connected.
Announce(ms) ==
  /\ IF connected
     THEN Len(feed) + Len(ms) <= MaxFeed /\ feed' = feed \o ms
     ELSE UNCHANGED feed
  /\ UNCHANGED <<book_vars, connected, synced>>

\* A resting order comes, changes or goes, and nothing is matched.
ExchQuote(side, p, s) ==
  /\ IF side = "BUY" THEN xbids' = [xbids EXCEPT ![p] = s] /\ UNCHANGED xasks
                     ELSE xasks' = [xasks EXCEPT ![p] = s] /\ UNCHANGED xbids
  /\ xlevels' # xlevels
  /\ Uncrossed(xbids', xasks')
  /\ Announce(<<Change(side, p, s)>>)
  /\ UNCHANGED <<xtick, ordered, tick_told>>

\* An order took the levels at `taken' and may have left a rest of size s.
AnnounceOrder(side, p, s, taken) ==
  LET other == IF side = "BUY" THEN "SELL" ELSE "BUY"
      rest  == IF s = 0 THEN <<>> ELSE <<Change(side, p, s)>>
  IN \E order \in Bijection(1..Cardinality(taken), taken) :
       LET gone == [i \in DOMAIN order |-> Change(other, order[i], 0)] IN
         \/ Announce(gone \o rest) /\ UNCHANGED ordered
         \/ Announce(rest \o gone) /\ ordered' = (ordered /\ (~connected \/ s = 0))

\* A buy order at p takes every ask up to p; a sell order, every bid from p.
ExchBuy(p, s) ==
  LET taken == {q \in 1..p : xasks[q] # 0} IN
    /\ taken # {}
    /\ xasks' = [q \in Prices |-> IF q \in taken THEN 0 ELSE xasks[q]]
    /\ xbids' = IF s = 0 THEN xbids ELSE [xbids EXCEPT ![p] = s]
    /\ AnnounceOrder("BUY", p, s, taken)
    /\ UNCHANGED <<xtick, tick_told>>

ExchSell(p, s) ==
  LET taken == {q \in p..MaxPrice : xbids[q] # 0} IN
    /\ taken # {}
    /\ xbids' = [q \in Prices |-> IF q \in taken THEN 0 ELSE xbids[q]]
    /\ xasks' = IF s = 0 THEN xasks ELSE [xasks EXCEPT ![p] = s]
    /\ AnnounceOrder("SELL", p, s, taken)
    /\ UNCHANGED <<xtick, tick_told>>

\* The tick size changes, once at most.
ExchTick ==
  /\ xtick = MarketTick
  /\ xtick' \in TickSizes \ {MarketTick}
  /\ Announce(<<TickSizeChange(xtick')>>)
  /\ tick_told' = TRUE
  /\ UNCHANGED <<xlevels, ordered>>

\* The full book may be sent again.
ExchBook ==
  /\ connected
  /\ Announce(<<BookMessage(xbids, xasks)>>)
  /\ ordered' = TRUE
  /\ tick_told' = (xtick = MarketTick)
  /\ UNCHANGED exchange_vars

Connect ==
  /\ ~connected
  /\ Len(feed) < MaxFeed
  /\ connected' = TRUE
  /\ feed' = Append(feed, BookMessage(xbids, xasks))
  /\ ordered' = TRUE
  /\ tick_told' = (xtick = MarketTick)
  /\ UNCHANGED <<book_vars, exchange_vars, synced>>

\* Of what is on its way, only what the listener has read remains.
Disconnect ==
  /\ connected
  /\ connected' = FALSE
  /\ \E n \in 0..Len(feed) : feed' = SubSeq(feed, 1, n)
  /\ synced' = FALSE
  /\ ordered' = TRUE
  /\ tick_told' = TRUE
  /\ UNCHANGED <<book_vars, exchange_vars>>

FeedNext ==
  \/ HandleMarketEvent
  \/ ReadBest
  \/ \E side \in {"BUY", "SELL"}, p \in Prices, s \in 0..MaxSize :
       ExchQuote(side, p, s)
  \/ \E p \in Prices, s \in 0..MaxSize : ExchBuy(p, s) \/ ExchSell(p, s)
  \/ ExchTick
  \/ ExchBook
  \/ Connect
  \/ Disconnect

FeedSpec == FeedInit /\ [][FeedNext]_feed_vars

-----------------------------------------------------------------------------
(* Properties                                                              *)

\* Nothing is on its way and the subscription's full book was applied.
UpToDate == connected /\ synced /\ feed = <<>>

\* A strategy never quotes against liquidity that is not there: once the
\* queue is drained, every level of the local book is on the exchange with
\* that size, whatever was missed in earlier connections and however the
\* exchange orders the changes of a matching order.
NoPhantomLevels ==
  UpToDate => \A p \in Prices : bids[p] \in {0, xbids[p]} /\ asks[p] \in {0, xasks[p]}

\* If the connection announced each order took before its rest, crossing in
\* apply_price_change never takes off a level the exchange still has: once
\* the queue is drained the local book is the exchange's.
Mirror == (UpToDate /\ ordered) => bids = xbids /\ asks = xasks

\* Orders are signed for the tick size of the local book.  It is the
\* exchange's once the queue is drained, unless the tick had changed before
\* the last full book: agg_orderbook then goes back to the one the market
\* started with, and nothing corrects it.
TickMirror == (UpToDate /\ tick_told) => tick_size = xtick

\* The maps and lazily rebuilt heaps implement PriceLevels: although levels
\* are taken off a heap and the map is only then brought into line with it,
\* a change removes exactly the levels it crosses and no other, a dropped
\* book and the reading of best prices change none, and no message is
\* skipped or applied out of order.
Plain == INSTANCE PriceLevels
PlainSpec == Plain!Spec
=============================================================================
