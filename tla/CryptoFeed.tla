----------------------------- MODULE CryptoFeed -----------------------------
(***************************************************************************)
(* A CryptoBook together with the listener that feeds it.  The exchange    *)
(* sends a full book when the listener subscribes and every change after   *)
(* that; the listener pushes what it can parse into the event queue.  feed *)
(* is what has been sent and not been handled.                             *)
(*                                                                         *)
(* When the connection is lost, or cannot be made, the listener pushes a   *)
(* ClearPrice event, sleeps for 5 s and connects again.  What it had read  *)
(* before is still in the queue and is handled before the ClearPrice.      *)
(*                                                                         *)
(* The exchange is not part of the repository.  Its book has both sides    *)
(* and is never crossed.                                                   *)
(***************************************************************************)
EXTENDS CryptoBook

CONSTANTS
  MaxFeed,     \* bounds the messages on their way
  Unreadable   \* may the listener fail to parse a message?

ASSUME CryptoFeedAssumption ==
  /\ MaxFeed \in Nat
  /\ Unreadable \in BOOLEAN

VARIABLES
  xbids, xasks,  \* the exchange's book
  feed,          \* what has been sent and not been handled
  connected,     \* whether the listener is connected
  read           \* history: the messages the listener has parsed

\* Of this connection, "all" and "again": all of them ("again" if some of an
\* earlier one were not); "part": the full book; "none": not even that.

exchange_vars == <<xbids, xasks>>
feed_vars == <<book_vars, exchange_vars, feed, connected, read>>

Uncrossed(b, a) == \A p \in Held(b), q \in Held(a) : p < q
ExchangeBook(b, a) == Uncrossed(b, a) /\ TwoSided(b, a)

\* The best level of each side, as the L1 feeds send it.
TopBid(b) == [p \in Prices |-> IF p = best_bid(b) THEN b[p] ELSE 0]
TopAsk(a) == [p \in Prices |-> IF p = best_ask(a) THEN a[p] ELSE 0]

Message(type, b, a) == [type |-> type, bids |-> b, asks |-> a]
ClearPrice == Message("ClearPrice", Empty, Empty)
TopOfBook(b, a) == Message("Price", TopBid(b), TopAsk(a))

\* The first message of a subscription, and one that announces a change.
FullBook(b, a) ==
  IF feed_kind = "L1" THEN TopOfBook(b, a) ELSE Message("L2Snapshot", b, a)
Changed(old, new) == [p \in {q \in Prices : old[q] # new[q]} |-> new[p]]
Update(b, a) ==
  IF feed_kind = "L1" THEN TopOfBook(b, a)
  ELSE Message("L2Update", Changed(xbids, b), Changed(xasks, a))

FeedInit ==
  /\ Init
  /\ xbids \in Levels
  /\ xasks \in Levels
  /\ ExchangeBook(xbids, xasks)
  /\ feed = <<>>
  /\ connected = FALSE
  /\ read = "all"

-----------------------------------------------------------------------------
(* The event processor                                                     *)

handle_event ==
  /\ feed # <<>>
  /\ feed' = Tail(feed)
  /\ LET m == Head(feed) IN
       \/ m.type = "Price" /\ crypto_handle_price_update(m.bids, m.asks)
       \/ m.type = "L2Snapshot" /\ crypto_handle_l2_snapshot(m.bids, m.asks)
       \/ m.type = "L2Update" /\ crypto_handle_l2_update(m.bids, m.asks)
       \/ m.type = "ClearPrice" /\ handle_price_clear
  /\ UNCHANGED <<exchange_vars, connected, read>>

-----------------------------------------------------------------------------
(* The listener and the exchange                                           *)

\* The listener pushes the event, or cannot parse the message.
Deliver(m, if_parsed, if_not) ==
  \/ /\ Len(feed) < MaxFeed
     /\ feed' = Append(feed, m)
     /\ read' = if_parsed
  \/ /\ Unreadable
     /\ feed' = feed
     /\ read' = if_not

Connect ==
  /\ ~connected
  /\ connected' = TRUE
  /\ Deliver(FullBook(xbids, xasks),
             IF read = "all" THEN "all" ELSE "again", "none")
  /\ UNCHANGED <<book_vars, exchange_vars>>

\* Slip: nothing is pushed when the connection is lost.
Disconnect_Silent ==
  /\ connected
  /\ connected' = FALSE
  /\ \E n \in 0..Len(feed) : feed' = SubSeq(feed, 1, n)
  /\ UNCHANGED <<book_vars, exchange_vars, read>>

\* Of what is on its way, only what the listener has read remains.
Disconnect ==
  /\ connected
  /\ connected' = FALSE
  /\ \E n \in 0..Len(feed) :
       n < MaxFeed /\ feed' = Append(SubSeq(feed, 1, n), ClearPrice)
  /\ UNCHANGED <<book_vars, exchange_vars, read>>

ConnectFails ==
  /\ ~connected
  /\ Len(feed) < MaxFeed
  /\ feed' = Append(feed, ClearPrice)
  /\ UNCHANGED <<book_vars, exchange_vars, connected, read>>

\* The exchange's book changes.  A message of an L1 feed is a full one.
ExchangeChange(b, a) ==
  /\ <<b, a>> # exchange_vars
  /\ ExchangeBook(b, a)
  /\ Cardinality({p \in Prices : b[p] # xbids[p]})
       + Cardinality({p \in Prices : a[p] # xasks[p]}) <= MaxChanges
  /\ xbids' = b
  /\ xasks' = a
  /\ IF connected
     THEN Deliver(Update(b, a),
                  IF feed_kind = "L1" /\ read # "all" THEN "again" ELSE read,
                  IF read = "none" THEN "none" ELSE "part")
     ELSE UNCHANGED <<feed, read>>
  /\ UNCHANGED <<book_vars, connected>>

\* A panic closes the channel; the listener returns when it sends again.
FeedNext ==
  /\ ~dead
  /\ \/ handle_event
     \/ Connect
     \/ Disconnect
     \/ ConnectFails
     \/ \E b, a \in Levels : ExchangeChange(b, a)

FeedSpec == FeedInit /\ [][FeedNext]_feed_vars

-----------------------------------------------------------------------------
(* Properties                                                              *)

\* Nothing is on its way.
Drained == feed = <<>> /\ ~dead

\* If every message of a connection is parsed then, once the queue is drained,
\* the local book is the exchange's and the price is the one of that book,
\* whatever was not understood in earlier connections; and no handler panics
\* unless some message was not understood.
Mirror ==
  /\ read = "all" => ~dead
  /\ (connected /\ Drained /\ read \in {"all", "again"}) =>
       /\ present
       /\ bids = IF feed_kind = "L1" THEN TopBid(xbids) ELSE xbids
       /\ asks = IF feed_kind = "L1" THEN TopAsk(xasks) ELSE xasks
       /\ prices = {PriceFrom(bids, asks, CacheOf(bids, asks))}

\* No book outlives its connection: there is none while the feed is down and,
\* if the next full book cannot be parsed, the updates that follow are applied
\* to no book at all and not to levels of an earlier connection.
NoOldLevels == (Drained /\ (~connected \/ read = "none")) => ~present

\* "Listener DOWN. Clearing price": nor does a price.
NoPriceWhileDown == (~connected /\ Drained) => prices = {}
=============================================================================
