-------------------------- MODULE MarketFeedProofs --------------------------
(***************************************************************************)
(* Proofs about the local book, for every number of prices and sizes and   *)
(* any length of the queue.  First about PolyOrderbook, whatever messages  *)
(* come: the heaps agree with the maps, the book is never crossed, and a   *)
(* change does to the maps what PriceLevels says.  Then about the messages *)
(* the market channel sends: every step of MarketFeed is a step of         *)
(* PolyOrderbook, so what is proved of any sequence holds of these;        *)
(* MarketFeed implements PriceLevels; and once the queue is drained the    *)
(* local book agrees with the exchange's as far as NoPhantomLevels, Mirror *)
(* and TickMirror say.                                                     *)
(***************************************************************************)
EXTENDS MarketFeed, FiniteSetTheorems, SequenceTheorems, TLAPS

-----------------------------------------------------------------------------
(* Any sequence of messages: the local book by itself                      *)

BookInv == TypeOK /\ HeapsCoherent /\ NeverCrossed

\* A rebuilt heap and an untouched one are the same when nothing is dirty.
LEMMA HeapBeforePop ==
  ASSUME HeapsCoherent
  PROVE  /\ (IF asks_dirty THEN convert_to_heap(asks) ELSE ask_heap)
              = convert_to_heap(asks)
         /\ (IF bids_dirty THEN convert_to_heap(bids) ELSE bid_heap)
              = convert_to_heap(bids)
BY DEF HeapsCoherent

\* A level is in the heap of a map exactly if the map has its price and size.
LEMMA HeapLevels ==
  ASSUME NEW map \in Levels
  PROVE  /\ convert_to_heap(map) \subseteq Prices \X (1..MaxSize)
         /\ \A q \in Prices : map[q] # 0 => <<q, map[q]>> \in convert_to_heap(map)
         /\ \A level \in convert_to_heap(map) :
              level[1] \in Prices /\ map[level[1]] # 0
              /\ level = <<level[1], map[level[1]]>>
BY PolyOrderbookAssumption DEF Levels, Prices, convert_to_heap

\* Popping the levels up to p takes exactly those levels off the map, and
\* what is left of the heap is the heap of what is left of the map.
LEMMA PopUpTo ==
  ASSUME NEW map \in Levels, NEW p \in Prices, NEW popped,
         popped = {level \in convert_to_heap(map) : level[1] <= p}
  PROVE  /\ Without(map, popped) = [q \in Prices |-> IF q <= p THEN 0 ELSE map[q]]
         /\ Without(map, popped) \in Levels
         /\ convert_to_heap(map) \ popped = convert_to_heap(Without(map, popped))
<1> DEFINE left == [q \in Prices |-> IF q <= p THEN 0 ELSE map[q]]
<1>1. Without(map, popped) = left
  <2> SUFFICES ASSUME NEW q \in Prices
               PROVE (IF \E level \in popped : level[1] = q THEN 0 ELSE map[q])
                       = (IF q <= p THEN 0 ELSE map[q])
      BY DEF Without
  <2>1. CASE q <= p /\ map[q] # 0
    <3>1. <<q, map[q]>> \in popped
        BY <2>1, HeapLevels
    <3> QED BY <2>1, <3>1
  <2>2. CASE map[q] = 0
      BY <2>2
  <2>3. CASE ~(q <= p)
      BY <2>3
  <2> QED BY <2>1, <2>2, <2>3
<1>2. left \in Levels
    BY PolyOrderbookAssumption DEF Levels
<1>3. convert_to_heap(map) \ popped = convert_to_heap(left)
  <2> SUFFICES ASSUME NEW level \in Prices \X (1..MaxSize)
               PROVE  level \in convert_to_heap(map) \ popped
                        <=> level \in convert_to_heap(left)
      BY DEF convert_to_heap
  <2>1. level[1] \in Prices /\ level[2] # 0
      BY PolyOrderbookAssumption
  <2>2. level \in convert_to_heap(left) <=> left[level[1]] = level[2]
      BY DEF convert_to_heap
  <2>3. level \in convert_to_heap(map) \ popped
          <=> map[level[1]] = level[2] /\ ~(level[1] <= p)
      BY DEF convert_to_heap
  <2> QED BY <2>1, <2>2, <2>3
<1> QED BY <1>1, <1>2, <1>3

LEMMA PopDownTo ==
  ASSUME NEW map \in Levels, NEW p \in Prices, NEW popped,
         popped = {level \in convert_to_heap(map) : level[1] >= p}
  PROVE  /\ Without(map, popped) = [q \in Prices |-> IF q >= p THEN 0 ELSE map[q]]
         /\ Without(map, popped) \in Levels
         /\ convert_to_heap(map) \ popped = convert_to_heap(Without(map, popped))
<1> DEFINE left == [q \in Prices |-> IF q >= p THEN 0 ELSE map[q]]
<1>1. Without(map, popped) = left
  <2> SUFFICES ASSUME NEW q \in Prices
               PROVE (IF \E level \in popped : level[1] = q THEN 0 ELSE map[q])
                       = (IF q >= p THEN 0 ELSE map[q])
      BY DEF Without
  <2>1. CASE q >= p /\ map[q] # 0
    <3>1. <<q, map[q]>> \in popped
        BY <2>1, HeapLevels
    <3> QED BY <2>1, <3>1
  <2>2. CASE map[q] = 0
      BY <2>2
  <2>3. CASE ~(q >= p)
      BY <2>3
  <2> QED BY <2>1, <2>2, <2>3
<1>2. left \in Levels
    BY PolyOrderbookAssumption DEF Levels
<1>3. convert_to_heap(map) \ popped = convert_to_heap(left)
  <2> SUFFICES ASSUME NEW level \in Prices \X (1..MaxSize)
               PROVE  level \in convert_to_heap(map) \ popped
                        <=> level \in convert_to_heap(left)
      BY DEF convert_to_heap
  <2>1. level[1] \in Prices /\ level[2] # 0
      BY PolyOrderbookAssumption
  <2>2. level \in convert_to_heap(left) <=> left[level[1]] = level[2]
      BY DEF convert_to_heap
  <2>3. level \in convert_to_heap(map) \ popped
          <=> map[level[1]] = level[2] /\ ~(level[1] >= p)
      BY DEF convert_to_heap
  <2> QED BY <2>1, <2>2, <2>3
<1> QED BY <1>1, <1>2, <1>3

\* What a change to a bid does to the maps, and that the heaps follow.
LEMMA ChangeBid ==
  ASSUME BookInv, NEW p \in Prices, NEW s \in 0..MaxSize, change_bid(p, s)
  PROVE  /\ bids' = [bids EXCEPT ![p] = s]
         /\ asks' = [q \in Prices |-> IF q <= p THEN 0 ELSE asks[q]]
         /\ bids' \in Levels /\ asks' \in Levels
         /\ bid_heap' \subseteq Prices \X (1..MaxSize)
         /\ ask_heap' \subseteq Prices \X (1..MaxSize)
         /\ bids_dirty' \in BOOLEAN /\ asks_dirty' \in BOOLEAN
         /\ HeapsCoherent' /\ NeverCrossed'
<1> DEFINE popped == {level \in convert_to_heap(asks) : level[1] <= p}
<1> USE DEF BookInv
<1>1. /\ bids' = [bids EXCEPT ![p] = s]
      /\ ask_heap' = convert_to_heap(asks) \ popped
      /\ asks' = Without(asks, popped)
      /\ bids_dirty' = TRUE /\ asks_dirty' = FALSE /\ bid_heap' = bid_heap
    BY HeapBeforePop DEF change_bid
<1>2. bids \in Levels /\ asks \in Levels
    BY DEF TypeOK
<1> HIDE DEF popped
<1>3. /\ asks' = [q \in Prices |-> IF q <= p THEN 0 ELSE asks[q]]
      /\ asks' \in Levels
      /\ ask_heap' = convert_to_heap(asks')
    BY <1>1, <1>2, PopUpTo DEF popped
<1>4. bids' \in Levels
    BY <1>1, <1>2 DEF Levels
<1>5. /\ bid_heap' \subseteq Prices \X (1..MaxSize)
      /\ ask_heap' \subseteq Prices \X (1..MaxSize)
    BY <1>1, <1>3, HeapLevels DEF TypeOK
<1>6. HeapsCoherent'
    BY <1>1, <1>3 DEF HeapsCoherent
<1>7. NeverCrossed'
    BY <1>1, <1>2, <1>3 DEF NeverCrossed, Uncrossed, Levels, Prices
<1> QED BY <1>1, <1>3, <1>4, <1>5, <1>6, <1>7

LEMMA ChangeAsk ==
  ASSUME BookInv, NEW p \in Prices, NEW s \in 0..MaxSize, change_ask(p, s)
  PROVE  /\ asks' = [asks EXCEPT ![p] = s]
         /\ bids' = [q \in Prices |-> IF q >= p THEN 0 ELSE bids[q]]
         /\ bids' \in Levels /\ asks' \in Levels
         /\ bid_heap' \subseteq Prices \X (1..MaxSize)
         /\ ask_heap' \subseteq Prices \X (1..MaxSize)
         /\ bids_dirty' \in BOOLEAN /\ asks_dirty' \in BOOLEAN
         /\ HeapsCoherent' /\ NeverCrossed'
<1> DEFINE popped == {level \in convert_to_heap(bids) : level[1] >= p}
<1> USE DEF BookInv
<1>1. /\ asks' = [asks EXCEPT ![p] = s]
      /\ bid_heap' = convert_to_heap(bids) \ popped
      /\ bids' = Without(bids, popped)
      /\ asks_dirty' = TRUE /\ bids_dirty' = FALSE /\ ask_heap' = ask_heap
    BY HeapBeforePop DEF change_ask
<1>2. bids \in Levels /\ asks \in Levels
    BY DEF TypeOK
<1> HIDE DEF popped
<1>3. /\ bids' = [q \in Prices |-> IF q >= p THEN 0 ELSE bids[q]]
      /\ bids' \in Levels
      /\ bid_heap' = convert_to_heap(bids')
    BY <1>1, <1>2, PopDownTo DEF popped
<1>4. asks' \in Levels
    BY <1>1, <1>2 DEF Levels
<1>5. /\ bid_heap' \subseteq Prices \X (1..MaxSize)
      /\ ask_heap' \subseteq Prices \X (1..MaxSize)
    BY <1>1, <1>3, HeapLevels DEF TypeOK
<1>6. HeapsCoherent'
    BY <1>1, <1>3 DEF HeapsCoherent
<1>7. NeverCrossed'
    BY <1>1, <1>2, <1>3 DEF NeverCrossed, Uncrossed, Levels, Prices
<1> QED BY <1>1, <1>3, <1>4, <1>5, <1>6, <1>7

\* A full book replaces maps and heaps.
LEMMA FullBook ==
  ASSUME BookInv, NEW b \in Levels, NEW a \in Levels, Uncrossed(b, a),
         agg_orderbook(b, a)
  PROVE  BookInv'
<1> USE PolyOrderbookAssumption DEF agg_orderbook
<1>1. prev' \subseteq [bids : Levels, asks : Levels, tick_size : TickSizes]
    BY DEF BookInv, TypeOK, snapshot
<1>2. TypeOK'
    BY <1>1, HeapLevels DEF TypeOK
<1>3. HeapsCoherent' /\ NeverCrossed'
    BY DEF HeapsCoherent, NeverCrossed
<1> QED BY <1>2, <1>3 DEF BookInv

\* Reading a best price rebuilds a heap at most.
LEMMA ReadBestPrice ==
  ASSUME BookInv, best_bid \/ best_ask
  PROVE  BookInv' /\ UNCHANGED <<bids, asks>>
<1> USE DEF best_bid, best_ask,
       rebuild_bid_heap_if_dirty, rebuild_ask_heap_if_dirty, BookInv
<1>1. TypeOK'
    BY HeapLevels DEF TypeOK
<1>2. HeapsCoherent'
    BY DEF HeapsCoherent
<1>3. NeverCrossed'
    BY DEF NeverCrossed, Uncrossed
<1> QED BY <1>1, <1>2, <1>3

LEMMA InitBook == Init => BookInv
<1> SUFFICES ASSUME Init PROVE BookInv
    OBVIOUS
<1> USE PolyOrderbookAssumption DEF Init
<1>1. Empty \in Levels
    BY DEF Empty, Levels
<1>2. TypeOK
    BY <1>1 DEF TypeOK
<1>3. HeapsCoherent
    BY DEF HeapsCoherent, convert_to_heap, Empty, Prices
<1>4. NeverCrossed
    BY DEF NeverCrossed, Uncrossed, Empty
<1> QED BY <1>2, <1>3, <1>4 DEF BookInv

LEMMA StepBook ==
  ASSUME BookInv, [Next]_book_vars
  PROVE  BookInv'
<1> USE PolyOrderbookAssumption
<1>1. ASSUME UNCHANGED book_vars PROVE BookInv'
    BY <1>1 DEF book_vars, BookInv, TypeOK, HeapsCoherent, NeverCrossed,
       Uncrossed, convert_to_heap
<1>2. ASSUME NEW b \in Levels, NEW a \in Levels, Uncrossed(b, a),
             handle_book(b, a)
      PROVE  BookInv'
    BY <1>1, <1>2, FullBook DEF handle_book
<1>3. ASSUME NEW side \in {"BUY", "SELL"}, NEW p \in Prices,
             NEW s \in 0..MaxSize, price_change(side, p, s)
      PROVE  BookInv'
  <2>1. CASE ~present
      BY <1>1, <1>3, <2>1 DEF price_change
  <2>2. CASE present
    <3>1. /\ present' = present /\ tick_size' = tick_size
          /\ prev' \subseteq [bids : Levels, asks : Levels, tick_size : TickSizes]
        BY <1>3, <2>2 DEF price_change, BookInv, TypeOK, snapshot
    <3>2. CASE change_bid(p, s)
        BY <3>1, <3>2, ChangeBid DEF BookInv, TypeOK
    <3>3. CASE change_ask(p, s)
        BY <3>1, <3>3, ChangeAsk DEF BookInv, TypeOK
    <3> QED BY <1>3, <2>2, <3>2, <3>3 DEF price_change
  <2> QED BY <2>1, <2>2
<1>4. ASSUME NEW t \in TickSizes, tick_size_change(t)
      PROVE  BookInv'
  <2>1. CASE ~present
      BY <1>1, <1>4, <2>1 DEF tick_size_change
  <2>2. CASE present
    <3>1. /\ UNCHANGED <<present, bids, asks, bid_heap, ask_heap, bids_dirty,
                         asks_dirty>>
          /\ tick_size' \in TickSizes
          /\ prev' \subseteq [bids : Levels, asks : Levels, tick_size : TickSizes]
        BY <1>4, <2>2 DEF tick_size_change, BookInv, TypeOK, snapshot
    <3> QED BY <3>1 DEF BookInv, TypeOK, HeapsCoherent, NeverCrossed,
        Uncrossed, convert_to_heap
  <2> QED BY <2>1, <2>2
<1>5. ASSUME best_bid \/ best_ask PROVE BookInv'
    BY <1>5, ReadBestPrice
<1> QED BY <1>1, <1>2, <1>3, <1>4, <1>5 DEF Next

\* The types of the maps, the heaps, their flags and the snapshot kept.
THEOREM BookTypeCorrect == Spec => []TypeOK
<1>1. BookInv => TypeOK
    BY DEF BookInv
<1> QED BY <1>1, InitBook, StepBook, PTL DEF Spec

\* The best prices a strategy reads are those of levels the book has now.
THEOREM HeapsAgree == Spec => []HeapsCoherent
<1>1. BookInv => HeapsCoherent
    BY DEF BookInv
<1> QED BY <1>1, InitBook, StepBook, PTL DEF Spec

\* No change or book message ever leaves a bid at or above an ask, so the
\* unsigned subtraction in get_spread cannot wrap.
THEOREM BookNeverCrossed == Spec => []NeverCrossed
<1>1. BookInv => NeverCrossed
    BY DEF BookInv
<1> QED BY <1>1, InitBook, StepBook, PTL DEF Spec

-----------------------------------------------------------------------------
(* The messages the exchange sends                                         *)

BookMessages   == {m \in [type : {"book"}, bids : Levels, asks : Levels] :
                     Uncrossed(m.bids, m.asks)}
ChangeMessages == [type : {"price_change"}, side : {"BUY", "SELL"},
                   price : Prices, size : 0..MaxSize]
TickMessages   == [type : {"tick_size_change"}, new_tick_size : TickSizes]
Messages       == BookMessages \cup ChangeMessages \cup TickMessages

\* The exchange's book is not crossed, and neither is any book on its way.
FeedInv ==
  /\ xbids \in Levels
  /\ xasks \in Levels
  /\ Uncrossed(xbids, xasks)
  /\ xtick \in TickSizes
  /\ feed \in Seq(Messages)

\* What the channel does to the queue: it grows or shrinks at its end.
ChannelStep ==
  /\ feed' \in Seq(Messages)
  /\ IsPrefix(feed, feed') \/ IsPrefix(feed', feed)
  /\ UNCHANGED book_vars

LEMMA Grows ==
  ASSUME NEW s \in Seq(Messages), NEW t \in Seq(Messages)
  PROVE  s \o t \in Seq(Messages) /\ IsPrefix(s, s \o t)
<1>1. s \o t \in Seq(Messages) /\ Len(s \o t) = Len(s) + Len(t)
    BY ConcatProperties
<1>2. SubSeq(s, 1, Len(s)) = SubSeq(s \o t, 1, Len(s))
    BY <1>1
<1> QED BY <1>1, <1>2 DEF IsPrefix

LEMMA Shrinks ==
  ASSUME NEW s \in Seq(Messages), NEW n \in 0..Len(s)
  PROVE  SubSeq(s, 1, n) \in Seq(Messages) /\ IsPrefix(SubSeq(s, 1, n), s)
<1>1. SubSeq(s, 1, n) \in Seq(Messages) /\ Len(SubSeq(s, 1, n)) = n
    OBVIOUS
<1>2. SubSeq(SubSeq(s, 1, n), 1, n) = SubSeq(s, 1, n)
    BY <1>1
<1> QED BY <1>1, <1>2 DEF IsPrefix

LEMMA AnnounceKeeps ==
  ASSUME FeedInv, NEW ms \in Seq(Messages), Announce(ms)
  PROVE  ChannelStep
<1>1. CASE connected
    BY <1>1, Grows DEF FeedInv, Announce, ChannelStep
<1>2. CASE ~connected
  <2>1. IsPrefix(feed, feed)
      BY DEF IsPrefix
  <2> QED BY <1>2, <2>1 DEF FeedInv, Announce, ChannelStep
<1> QED BY <1>1, <1>2

\* The changes that announce a matching order are messages.
LEMMA AnnounceOrderKeeps ==
  ASSUME FeedInv, NEW side \in {"BUY", "SELL"}, NEW p \in Prices,
         NEW s \in 0..MaxSize, NEW taken \in SUBSET Prices,
         AnnounceOrder(side, p, s, taken)
  PROVE  ChannelStep
<1> DEFINE other == IF side = "BUY" THEN "SELL" ELSE "BUY"
           rest  == IF s = 0 THEN <<>> ELSE <<Change(side, p, s)>>
           gone(order) == [i \in DOMAIN order |-> Change(other, order[i], 0)]
<1>1. PICK order \in Bijection(1..Cardinality(taken), taken) :
        Announce(gone(order) \o rest) \/ Announce(rest \o gone(order))
    BY DEF AnnounceOrder
<1>2. Cardinality(taken) \in Nat
  <2>1. IsFiniteSet(1..MaxPrice)
      BY FS_Interval, PolyOrderbookAssumption
  <2>2. IsFiniteSet(taken)
      BY <2>1, FS_Subset, Zenon DEF Prices
  <2> QED BY <2>2, FS_CardinalityType
<1>3. order \in [1..Cardinality(taken) -> taken]
    BY DEF Bijection, Injection
<1>4. \A i \in 1..Cardinality(taken) : Change(other, order[i], 0) \in Messages
    BY <1>3, PolyOrderbookAssumption DEF Change, Messages, ChangeMessages
<1>5. gone(order) \in Seq(Messages)
    BY <1>2, <1>3, <1>4
<1>6. rest \in Seq(Messages)
  <2>1. Change(side, p, s) \in Messages
      BY DEF Change, Messages, ChangeMessages
  <2> QED BY <2>1
<1> HIDE DEF gone, rest
<1>7. gone(order) \o rest \in Seq(Messages) /\ rest \o gone(order) \in Seq(Messages)
    BY <1>5, <1>6
<1> QED BY <1>1, <1>7, AnnounceKeeps

LEMMA FeedInitial == FeedInit => BookInv /\ FeedInv
<1> SUFFICES ASSUME FeedInit PROVE FeedInv /\ Init
    BY InitBook
<1>1. Empty \in Levels /\ Uncrossed(Empty, Empty)
    BY PolyOrderbookAssumption DEF Empty, Levels, Uncrossed
<1> QED BY <1>1, PolyOrderbookAssumption DEF FeedInit, FeedInv

\* A step of the exchange or of the connection.
ExchangeStep == FeedInv' /\ ChannelStep

LEMMA QuoteStep ==
  ASSUME FeedInv, NEW side \in {"BUY", "SELL"}, NEW p \in Prices,
         NEW s \in 0..MaxSize, ExchQuote(side, p, s)
  PROVE  ExchangeStep
<1>1. <<Change(side, p, s)>> \in Seq(Messages)
    BY DEF Change, Messages, ChangeMessages
<1>2. ChannelStep
    BY <1>1, AnnounceKeeps DEF ExchQuote
<1>3. xbids' \in Levels /\ xasks' \in Levels
    BY DEF ExchQuote, FeedInv, Levels
<1> QED BY <1>2, <1>3 DEF ExchQuote, ExchangeStep, ChannelStep, FeedInv

\* Matching takes off every level the rest of the order would cross.
LEMMA BuyStep ==
  ASSUME FeedInv, NEW p \in Prices, NEW s \in 0..MaxSize, ExchBuy(p, s)
  PROVE  ExchangeStep
<1> DEFINE taken == {q \in 1..p : xasks[q] # 0}
<1> USE PolyOrderbookAssumption
<1>1. taken \in SUBSET Prices
    BY DEF Prices
<1>2. /\ xasks' = [q \in Prices |-> IF q \in taken THEN 0 ELSE xasks[q]]
      /\ xbids' = IF s = 0 THEN xbids ELSE [xbids EXCEPT ![p] = s]
      /\ xtick' = xtick
      /\ AnnounceOrder("BUY", p, s, taken)
    BY DEF ExchBuy
<1>3. \A q \in Prices : q \in taken <=> q <= p /\ xasks[q] # 0
    BY DEF Prices
<1> HIDE DEF taken
<1>4. xbids' \in Levels /\ xasks' \in Levels
    BY <1>2 DEF FeedInv, Levels
<1>5. Uncrossed(xbids', xasks')
    BY <1>2, <1>3 DEF FeedInv, Uncrossed, Levels, Prices
<1>6. ChannelStep
    BY <1>1, <1>2, AnnounceOrderKeeps
<1> QED BY <1>2, <1>4, <1>5, <1>6 DEF ExchangeStep, ChannelStep, FeedInv

LEMMA SellStep ==
  ASSUME FeedInv, NEW p \in Prices, NEW s \in 0..MaxSize, ExchSell(p, s)
  PROVE  ExchangeStep
<1> DEFINE taken == {q \in p..MaxPrice : xbids[q] # 0}
<1> USE PolyOrderbookAssumption
<1>1. taken \in SUBSET Prices
    BY DEF Prices
<1>2. /\ xbids' = [q \in Prices |-> IF q \in taken THEN 0 ELSE xbids[q]]
      /\ xasks' = IF s = 0 THEN xasks ELSE [xasks EXCEPT ![p] = s]
      /\ xtick' = xtick
      /\ AnnounceOrder("SELL", p, s, taken)
    BY DEF ExchSell
<1>3. \A q \in Prices : q \in taken <=> q >= p /\ xbids[q] # 0
    BY DEF Prices
<1> HIDE DEF taken
<1>4. xbids' \in Levels /\ xasks' \in Levels
    BY <1>2 DEF FeedInv, Levels
<1>5. Uncrossed(xbids', xasks')
    BY <1>2, <1>3 DEF FeedInv, Uncrossed, Levels, Prices
<1>6. ChannelStep
    BY <1>1, <1>2, AnnounceOrderKeeps
<1> QED BY <1>2, <1>4, <1>5, <1>6 DEF ExchangeStep, ChannelStep, FeedInv

LEMMA BookIsMessage ==
  ASSUME FeedInv
  PROVE  <<BookMessage(xbids, xasks)>> \in Seq(Messages)
BY DEF FeedInv, BookMessage, Messages, BookMessages

LEMMA ConnectionStep ==
  ASSUME FeedInv, ExchTick \/ ExchBook \/ Connect \/ Disconnect
  PROVE  ExchangeStep
<1>1. CASE ExchTick
  <2>1. <<TickSizeChange(xtick')>> \in Seq(Messages)
      BY <1>1 DEF ExchTick, TickSizeChange, Messages, TickMessages
  <2>2. ChannelStep
      BY <1>1, <2>1, AnnounceKeeps DEF ExchTick
  <2> QED BY <1>1, <2>2 DEF ExchTick, ExchangeStep, ChannelStep, FeedInv,
      xlevels, Uncrossed
<1>2. CASE ExchBook
  <2>1. ChannelStep
      BY <1>2, BookIsMessage, AnnounceKeeps DEF ExchBook
  <2> QED BY <1>2, <2>1 DEF ExchBook, ExchangeStep, ChannelStep, FeedInv,
      exchange_vars, xlevels, Uncrossed
<1>3. CASE Connect
  <2>1. feed' = feed \o <<BookMessage(xbids, xasks)>>
      BY <1>3 DEF Connect, FeedInv
  <2>2. ChannelStep
      BY <1>3, <2>1, BookIsMessage, Grows DEF Connect, ChannelStep, FeedInv
  <2> QED BY <1>3, <2>2 DEF Connect, ExchangeStep, ChannelStep, FeedInv,
      exchange_vars, xlevels, Uncrossed
<1>4. CASE Disconnect
  <2>1. ChannelStep
      BY <1>4, Shrinks DEF Disconnect, ChannelStep, FeedInv
  <2> QED BY <1>4, <2>1 DEF Disconnect, ExchangeStep, ChannelStep, FeedInv,
      exchange_vars, xlevels, Uncrossed
<1> QED BY <1>1, <1>2, <1>3, <1>4

\* What is left of the queue, and what is taken from it, are messages.
LEMMA QueueTail ==
  ASSUME FeedInv, feed # <<>>
  PROVE  Head(feed) \in Messages /\ Tail(feed) \in Seq(Messages)
BY DEF FeedInv

\* Handling a message does to the maps what PriceLevels says, and is a step
\* of PolyOrderbook.
LEMMA HandleStep ==
  ASSUME BookInv, FeedInv, HandleMarketEvent
  PROVE  FeedInv' /\ [Next]_book_vars /\ Plain!Next
<1> DEFINE m == Head(feed)
<1>1. m \in Messages /\ feed' = Tail(feed) /\ feed' \in Seq(Messages)
    BY QueueTail DEF HandleMarketEvent
<1>2. FeedInv'
    BY <1>1 DEF HandleMarketEvent, FeedInv, exchange_vars, xlevels, Uncrossed
<1>3. Empty = Plain!Empty
    BY DEF Empty, Plain!Empty, Prices, Plain!Prices
<1> SUFFICES [Next]_book_vars /\ Plain!Apply(m)
    BY <1>1, <1>2 DEF Plain!Next, Plain!Handle, HandleMarketEvent
<1>4. CASE m.type = "book"
  <2>1. m.bids \in Levels /\ m.asks \in Levels /\ Uncrossed(m.bids, m.asks)
      BY <1>1, <1>4 DEF Messages, BookMessages, ChangeMessages, TickMessages
  <2>2. handle_book(m.bids, m.asks)
      BY <1>4 DEF HandleMarketEvent
  <2>3. Plain!Book(m.bids, m.asks)
      BY <1>3, <2>2 DEF handle_book, agg_orderbook, book_vars, Plain!Book, Plain!levels
  <2> QED BY <1>4, <2>1, <2>2, <2>3 DEF Next, Plain!Apply
<1>5. CASE m.type = "price_change"
  <2>1. m.side \in {"BUY", "SELL"} /\ m.price \in Prices /\ m.size \in 0..MaxSize
      BY <1>1, <1>5 DEF Messages, BookMessages, ChangeMessages, TickMessages
  <2>2. price_change(m.side, m.price, m.size)
      BY <1>5 DEF HandleMarketEvent
  <2>3. Plain!Change(m.side, m.price, m.size)
    <3>1. CASE ~present
        BY <2>2, <3>1 DEF price_change, book_vars, Plain!Change, Plain!levels
    <3>2. CASE present /\ m.side = "BUY"
      <4>1. change_bid(m.price, m.size) /\ present' = present
          BY <2>2, <3>2 DEF price_change
      <4>2. Plain!ChangeBid(m.price, m.size)
          BY <2>1, <4>1, ChangeBid DEF Plain!ChangeBid, Plain!Prices, Prices
      <4> QED BY <3>2, <4>1, <4>2 DEF Plain!Change
    <3>3. CASE present /\ m.side # "BUY"
      <4>1. change_ask(m.price, m.size) /\ present' = present
          BY <2>2, <3>3 DEF price_change
      <4>2. Plain!ChangeAsk(m.price, m.size)
          BY <2>1, <4>1, ChangeAsk DEF Plain!ChangeAsk, Plain!Prices, Prices
      <4> QED BY <3>3, <4>1, <4>2 DEF Plain!Change
    <3> QED BY <3>1, <3>2, <3>3
  <2> QED BY <1>5, <2>1, <2>2, <2>3 DEF Next, Plain!Apply
<1>6. CASE m.type = "tick_size_change"
  <2>1. m.new_tick_size \in TickSizes
      BY <1>1, <1>6 DEF Messages, BookMessages, ChangeMessages, TickMessages
  <2>2. tick_size_change(m.new_tick_size)
      BY <1>6 DEF HandleMarketEvent
  <2>3. UNCHANGED Plain!levels
      BY <2>2 DEF tick_size_change, book_vars, Plain!levels
  <2> QED BY <1>6, <2>1, <2>2, <2>3 DEF Next, Plain!Apply
<1> QED BY <1>4, <1>5, <1>6 DEF HandleMarketEvent

LEMMA ChannelIsPlain ==
  ASSUME ChannelStep
  PROVE  [Next]_book_vars /\ Plain!Next
BY DEF ChannelStep, book_vars, IsPrefix, Plain!IsPrefix, Plain!Next,
   Plain!Channel, Plain!levels

LEMMA StepFeed ==
  ASSUME BookInv, FeedInv, [FeedNext]_feed_vars
  PROVE  FeedInv' /\ [Next]_book_vars /\ [Plain!Next]_(Plain!level_vars)
<1>1. CASE UNCHANGED feed_vars
    BY <1>1 DEF feed_vars, book_vars, exchange_vars, xlevels, FeedInv, Uncrossed,
       Plain!level_vars, Plain!levels
<1>2. CASE HandleMarketEvent
    BY <1>2, HandleStep
<1>3. CASE ReadBest
  <2>1. UNCHANGED <<present, bids, asks, feed, xbids, xasks, xtick>>
      BY <1>3, ReadBestPrice DEF ReadBest, best_bid, best_ask,
       rebuild_bid_heap_if_dirty, rebuild_ask_heap_if_dirty, exchange_vars, xlevels
  <2> QED BY <1>3, <2>1 DEF ReadBest, Next, FeedInv, Uncrossed,
      Plain!level_vars, Plain!levels
<1>4. CASE \E side \in {"BUY", "SELL"}, p \in Prices, s \in 0..MaxSize :
             ExchQuote(side, p, s)
    BY <1>4, QuoteStep, ChannelIsPlain DEF ExchangeStep
<1>5. CASE \E p \in Prices, s \in 0..MaxSize : ExchBuy(p, s) \/ ExchSell(p, s)
    BY <1>5, BuyStep, SellStep, ChannelIsPlain DEF ExchangeStep
<1>6. CASE ExchTick \/ ExchBook \/ Connect \/ Disconnect
    BY <1>6, ConnectionStep, ChannelIsPlain DEF ExchangeStep
<1> QED BY <1>1, <1>2, <1>3, <1>4, <1>5, <1>6 DEF FeedNext

LEMMA StepAll ==
  ASSUME BookInv /\ FeedInv, [FeedNext]_feed_vars
  PROVE  (BookInv /\ FeedInv)'
BY StepFeed, StepBook

\* Whatever the exchange and the connection do, the local book only makes
\* steps of PolyOrderbook: BookTypeCorrect, HeapsAgree and BookNeverCrossed
\* hold of the book the market channel feeds.
THEOREM FeedImplementsBook == FeedSpec => Spec
<1>1. FeedInit => Init
    BY DEF FeedInit
<1> QED BY <1>1, FeedInitial, StepAll, StepFeed, PTL DEF FeedSpec, Spec

\* The maps with their lazily rebuilt heaps implement PriceLevels: messages
\* are applied in order and none is skipped, and a change takes off the other
\* side exactly what it crosses.
THEOREM ImplementsPriceLevels == FeedSpec => PlainSpec
<1>1. FeedInit => Plain!Init
    BY DEF FeedInit, Init, Empty, Prices, Plain!Init, Plain!Empty, Plain!Prices
<1> QED BY <1>1, FeedInitial, StepAll, StepFeed, PTL
    DEF FeedSpec, PlainSpec, Plain!Spec
-----------------------------------------------------------------------------
(* What the mirror properties rest on: for every place of the book, a      *)
(* level or the tick size, the last message in the queue that is about it  *)
(* says what the exchange has, and if there is none the local book has it. *)

TickPlace == <<"TICK", 0>>
Levelled  == {"BUY", "SELL"} \X Prices
Places    == Levelled \cup {TickPlace}

Value(b, a, t, place) ==
  IF place = TickPlace THEN t
  ELSE IF place[1] = "BUY" THEN b[place[2]] ELSE a[place[2]]

Local(place)  == Value(bids, asks, tick_size, place)
Theirs(place) == Value(xbids, xasks, xtick, place)

Touches(m, place) ==
  \/ m.type = "book"
  \/ m.type = "price_change" /\ place = <<m.side, m.price>>
  \/ m.type = "tick_size_change" /\ place = TickPlace

Says(m, place) ==
  IF m.type = "book" THEN Value(m.bids, m.asks, MarketTick, place)
  ELSE IF m.type = "price_change" THEN m.size
  ELSE m.new_tick_size

\* A change takes the levels it crosses off the local book.
Crosses(m, place) ==
  /\ m.type = "price_change"
  /\ \/ m.side = "BUY" /\ place[1] = "SELL" /\ place[2] <= m.price
     \/ m.side = "SELL" /\ place[1] = "BUY" /\ place[2] >= m.price

\* No message before the i-th of q is about the place.
Untouched(q, i, place) == \A j \in 1..(i - 1) : ~Touches(q[j], place)

\* The last one that is says v of it.
LastSays(q, i, place, v) ==
  \A j \in 1..(i - 1) :
    (/\ Touches(q[j], place)
     /\ \A k \in (j + 1)..(i - 1) : ~Touches(q[k], place)) => Says(q[j], place) = v

NoBookFrom(q, i) == \A j \in i..Len(q) : q[j].type # "book"

TheLastIsRight ==
  \A place \in Places : (place = TickPlace => tick_told) =>
    LastSays(feed, Len(feed) + 1, place, Theirs(place))

\* Without the promised order a level may be missing, but not differ.
TheRestIsThere ==
  synced =>
    \A place \in Places : Untouched(feed, Len(feed) + 1, place) =>
      /\ (IF place = TickPlace THEN tick_told ELSE ordered) =>
           Local(place) = Theirs(place)
      /\ place \in Levelled => Local(place) \in {0, Theirs(place)}

\* In that order no change finds a level to cross when it is applied.
NothingToCross ==
  ordered =>
    \A i \in 1..Len(feed) : NoBookFrom(feed, i) =>
      \A place \in Levelled : Crosses(feed[i], place) =>
        /\ LastSays(feed, i, place, 0)
        /\ (synced /\ Untouched(feed, i, place)) => Local(place) = 0

MirrorInv ==
  /\ synced => connected /\ present
  /\ connected => TheLastIsRight /\ TheRestIsThere /\ NothingToCross

\* A message is taken off the queue.
LEMMA TailLast ==
  ASSUME NEW q \in Seq(Messages), q # <<>>, NEW i \in 1..Len(q),
         NEW place, NEW v, LastSays(q, i + 1, place, v)
  PROVE  LastSays(Tail(q), i, place, v)
<1>1. \A j \in 1..(i - 1) : Tail(q)[j] = q[j + 1]
  OBVIOUS
<1> DEFINE t == Tail(q)
<1>2. Len(q) \in Nat
  OBVIOUS
<1> HIDE DEF t
<1>3. \A j \in 1..(i - 1) : t[j] = q[j + 1] /\ j + 1 \in 1..((i + 1) - 1)
  BY <1>1, <1>2 DEF t
<1> SUFFICES ASSUME NEW j \in 1..(i - 1), Touches(t[j], place),
                    \A k \in (j + 1)..(i - 1) : ~Touches(t[k], place)
             PROVE  Says(t[j], place) = v
  BY DEF LastSays, t
<1>4. \A k \in ((j + 1) + 1)..((i + 1) - 1) : ~Touches(q[k], place)
  <2> TAKE k \in ((j + 1) + 1)..((i + 1) - 1)
  <2>1. k - 1 \in (j + 1)..(i - 1) /\ k - 1 \in 1..(i - 1) /\ (k - 1) + 1 = k
    BY <1>2
  <2> QED
    BY <1>3, <2>1
<1> QED
  BY <1>3, <1>4 DEF LastSays

LEMMA TailUntouched ==
  ASSUME NEW q \in Seq(Messages), q # <<>>, NEW i \in 1..Len(q),
         NEW place, NEW v, LastSays(q, i + 1, place, v),
         Untouched(Tail(q), i, place)
  PROVE  \/ Touches(Head(q), place) /\ Says(Head(q), place) = v
         \/ ~Touches(Head(q), place) /\ Untouched(q, i + 1, place)
<1>1. Head(q) = q[1] /\ Len(q) \in Nat
  OBVIOUS
<1>2. \A k \in 2..i : ~Touches(q[k], place)
  <2> TAKE k \in 2..i
  <2>1. k - 1 \in 1..(i - 1) /\ Tail(q)[k - 1] = q[k]
    OBVIOUS
  <2> QED
    BY <2>1 DEF Untouched
<1>3. 1 \in 1..((i + 1) - 1) /\ (1 + 1)..((i + 1) - 1) = 2..i
      /\ \A k \in 1..((i + 1) - 1) : k = 1 \/ k \in 2..i
  BY <1>1
<1>4. CASE Touches(q[1], place)
  BY <1>1, <1>2, <1>3, <1>4 DEF LastSays
<1>5. CASE ~Touches(q[1], place)
  BY <1>1, <1>2, <1>3, <1>5 DEF Untouched
<1> QED
  BY <1>4, <1>5

\* Messages are appended: nothing changes for the ones before them.
LEMMA AppendBefore ==
  ASSUME NEW q \in Seq(Messages), NEW ms \in Seq(Messages),
         NEW i \in 1..Len(q), NEW place, NEW v
  PROVE  /\ (q \o ms)[i] = q[i]
         /\ LastSays(q, i, place, v) => LastSays(q \o ms, i, place, v)
         /\ Untouched(q \o ms, i, place) => Untouched(q, i, place)
         /\ NoBookFrom(q \o ms, i) => NoBookFrom(q, i) /\ NoBookFrom(ms, 1)
<1> DEFINE r == q \o ms
<1>1. /\ Len(q) \in Nat /\ Len(ms) \in Nat /\ Len(r) = Len(q) + Len(ms)
      /\ \A j \in 1..Len(q) : r[j] = q[j]
      /\ \A j \in 1..Len(ms) : r[Len(q) + j] = ms[j]
  OBVIOUS
<1> HIDE DEF r
<1>2. \A j \in 1..(i - 1) : r[j] = q[j]
  BY <1>1
<1>3. \A j \in 1..(i - 1) : \A k \in (j + 1)..(i - 1) : r[k] = q[k]
  BY <1>1
<1>4. LastSays(q, i, place, v) => LastSays(r, i, place, v)
  BY <1>2, <1>3 DEF LastSays
<1>5. Untouched(r, i, place) => Untouched(q, i, place)
  BY <1>2 DEF Untouched
<1>6. NoBookFrom(r, i) => NoBookFrom(q, i) /\ NoBookFrom(ms, 1)
  <2>1. \A j \in i..Len(q) : j \in i..Len(r) /\ r[j] = q[j]
    BY <1>1
  <2>2. \A j \in 1..Len(ms) : Len(q) + j \in i..Len(r) /\ r[Len(q) + j] = ms[j]
    BY <1>1
  <2> QED
    BY <2>1, <2>2 DEF NoBookFrom
<1> QED
  BY <1>1, <1>4, <1>5, <1>6 DEF r

\* Before the k-th of the new ones, w is what those before it say, or what
\* the last message said already.
LEMMA AppendAfter ==
  ASSUME NEW q \in Seq(Messages), NEW ms \in Seq(Messages),
         NEW k \in 1..(Len(ms) + 1), NEW place, NEW w,
         \A j \in 1..(k - 1) : Touches(ms[j], place) => Says(ms[j], place) = w,
         Untouched(ms, k, place) => LastSays(q, Len(q) + 1, place, w)
  PROVE  LastSays(q \o ms, Len(q) + k, place, w)
<1> DEFINE r == q \o ms
           n == Len(q)
<1>1. /\ n \in Nat /\ Len(ms) \in Nat
      /\ \A j \in 1..n : r[j] = q[j]
      /\ \A j \in 1..Len(ms) : r[n + j] = ms[j]
  OBVIOUS
<1> HIDE DEF r, n
<1> SUFFICES ASSUME NEW j \in 1..((n + k) - 1), Touches(r[j], place),
                    \A l \in (j + 1)..((n + k) - 1) : ~Touches(r[l], place)
             PROVE  Says(r[j], place) = w
  BY DEF LastSays, r, n
<1>2. CASE j > n
  <2>1. j - n \in 1..(k - 1) /\ r[j] = ms[j - n]
    <3>1. j - n \in 1..(k - 1) /\ j - n \in 1..Len(ms) /\ n + (j - n) = j
      BY <1>1, <1>2
    <3> QED
      BY <1>1, <3>1
  <2> QED
    BY <2>1
<1>3. CASE j <= n
  <2>1. Untouched(ms, k, place)
    <3> SUFFICES ASSUME NEW l \in 1..(k - 1) PROVE ~Touches(ms[l], place)
      BY DEF Untouched
    <3>1. n + l \in (j + 1)..((n + k) - 1) /\ l \in 1..Len(ms)
      BY <1>1, <1>3
    <3> QED
      BY <1>1, <3>1
  <2>2. LastSays(q, n + 1, place, w)
    BY <2>1 DEF n
  <2>3. j \in 1..((n + 1) - 1) /\ r[j] = q[j]
    BY <1>1, <1>3
  <2>4. \A l \in (j + 1)..((n + 1) - 1) : ~Touches(q[l], place)
    <3> TAKE l \in (j + 1)..((n + 1) - 1)
    <3>1. l \in (j + 1)..((n + k) - 1) /\ l \in 1..n
      BY <1>1, <1>3
    <3> QED
      BY <1>1, <3>1
  <2> QED
    BY <2>2, <2>3, <2>4 DEF LastSays
<1> QED
  BY <1>1, <1>2, <1>3

LEMMA AppendUntouched ==
  ASSUME NEW q \in Seq(Messages), NEW ms \in Seq(Messages),
         NEW k \in 1..(Len(ms) + 1), NEW place,
         Untouched(q \o ms, Len(q) + k, place)
  PROVE  Untouched(q, Len(q) + 1, place) /\ Untouched(ms, k, place)
<1> DEFINE r == q \o ms
           n == Len(q)
<1>1. /\ n \in Nat /\ Len(ms) \in Nat
      /\ \A j \in 1..n : r[j] = q[j]
      /\ \A j \in 1..Len(ms) : r[n + j] = ms[j]
  OBVIOUS
<1>2. \A j \in 1..((n + k) - 1) : ~Touches(r[j], place)
  BY DEF Untouched
<1> HIDE DEF r, n
<1>3. \A j \in 1..((n + 1) - 1) : ~Touches(q[j], place)
  <2> TAKE j \in 1..((n + 1) - 1)
  <2>1. j \in 1..n /\ j \in 1..((n + k) - 1)
    BY <1>1
  <2> QED
    BY <1>1, <1>2, <2>1
<1>4. \A j \in 1..(k - 1) : ~Touches(ms[j], place)
  <2> TAKE j \in 1..(k - 1)
  <2>1. j \in 1..Len(ms) /\ n + j \in 1..((n + k) - 1)
    BY <1>1
  <2> QED
    BY <1>1, <1>2, <2>1
<1> QED
  BY <1>3, <1>4 DEF Untouched, n

\* What the handled message says is what the local book then has; of the rest
\* it has lost what the message crosses.
LEMMA Handled ==
  ASSUME BookInv, FeedInv, MirrorInv, HandleMarketEvent, synced',
         NEW place \in Places
  PROVE  /\ connected' /\ present'
         /\ Touches(Head(feed), place) => Local(place)' = Says(Head(feed), place)
         /\ ~Touches(Head(feed), place) =>
              /\ synced
              /\ Local(place)' = IF Crosses(Head(feed), place) THEN 0 ELSE Local(place)
<1> DEFINE m == Head(feed)
<1>1. /\ m \in Messages
      /\ feed # <<>>
      /\ \/ /\ m.type = "book"
            /\ handle_book(m.bids, m.asks)
            /\ synced' = (connected /\ (m.bids # Empty \/ m.asks # Empty))
         \/ /\ m.type = "price_change"
            /\ price_change(m.side, m.price, m.size)
            /\ UNCHANGED synced
         \/ /\ m.type = "tick_size_change"
            /\ tick_size_change(m.new_tick_size)
            /\ UNCHANGED synced
      /\ UNCHANGED connected
  BY QueueTail DEF HandleMarketEvent
<1>2. place = TickPlace \/ (place \in Levelled /\ place # TickPlace)
  BY DEF Places, Levelled, TickPlace
<1>3. ASSUME place \in Levelled
      PROVE  /\ place = <<place[1], place[2]>> /\ place[2] \in Prices
             /\ place[1] = "BUY" \/ (place[1] = "SELL" /\ place[1] # "BUY")
  BY <1>3 DEF Levelled
<1> HIDE DEF m
<1>4. CASE m.type = "book"
  <2>1. connected /\ present' /\ bids' = m.bids /\ asks' = m.asks /\ tick_size' = MarketTick
    BY <1>1, <1>4 DEF handle_book, agg_orderbook
  <2>2. Touches(m, place)
    BY <1>4 DEF Touches
  <2>3. Local(place)' = Value(m.bids, m.asks, MarketTick, place)
    BY <2>1 DEF Local, Value
  <2> QED
    BY <1>1, <1>4, <2>1, <2>2, <2>3 DEF Says, m
<1>5. CASE m.type = "price_change"
  <2>1. synced /\ connected /\ present
    BY <1>1, <1>5 DEF MirrorInv
  <2>2. m.side \in {"BUY", "SELL"} /\ m.price \in Prices /\ m.size \in 0..MaxSize
    BY <1>1, <1>5 DEF Messages, BookMessages, ChangeMessages, TickMessages
  <2>3. /\ price_change(m.side, m.price, m.size)
        /\ present' /\ tick_size' = tick_size
        /\ IF m.side = "BUY" THEN change_bid(m.price, m.size)
                             ELSE change_ask(m.price, m.size)
    BY <1>1, <1>5, <2>1 DEF price_change
  <2>4. Says(m, place) = m.size
    BY <1>5 DEF Says
  <2>5. CASE place = TickPlace
    <3>1. m.side # "TICK" /\ ~Crosses(m, place) /\ ~Touches(m, place)
      BY <1>5, <2>2, <2>5 DEF Crosses, Touches, TickPlace
    <3> QED
      BY <1>1, <2>1, <2>3, <2>5, <3>1 DEF Local, Value, m
  <2>6. CASE place \in Levelled /\ place # TickPlace
    <3>1. /\ Local(place) = IF place[1] = "BUY" THEN bids[place[2]] ELSE asks[place[2]]
          /\ Local(place)' = IF place[1] = "BUY" THEN bids'[place[2]] ELSE asks'[place[2]]
      BY <2>6 DEF Local, Value
    <3>2. Touches(m, place) <=> place[1] = m.side /\ place[2] = m.price
      BY <1>3, <1>5, <2>6 DEF Touches
    <3>3. CASE m.side = "BUY"
      <4>1. Plain!ChangeBid(m.price, m.size)
        BY <2>2, <2>3, <3>3, ChangeBid DEF Plain!ChangeBid, Plain!Prices, Prices
      <4>2. /\ bids' = [bids EXCEPT ![m.price] = m.size]
            /\ asks' = [q \in Prices |-> IF q <= m.price THEN 0 ELSE asks[q]]
            /\ bids \in Levels
        BY <4>1 DEF Plain!ChangeBid, Plain!Prices, Prices, BookInv, TypeOK
      <4>3. Crosses(m, place) <=> place[1] = "SELL" /\ place[2] <= m.price
        BY <1>5, <3>3 DEF Crosses
      <4>4. CASE place[1] = "BUY"
        BY <1>1, <1>3, <2>1, <2>2, <2>3, <2>4, <2>6, <3>1, <3>2, <3>3, <4>2, <4>3, <4>4
           DEF Levels, m
      <4>5. CASE place[1] = "SELL"
        BY <1>1, <1>3, <2>1, <2>3, <2>6, <3>1, <3>2, <3>3, <4>2, <4>3, <4>5 DEF m
      <4> QED
        BY <1>3, <2>6, <4>4, <4>5
    <3>4. CASE m.side = "SELL"
      <4>1. Plain!ChangeAsk(m.price, m.size)
        BY <2>2, <2>3, <3>4, ChangeAsk DEF Plain!ChangeAsk, Plain!Prices, Prices
      <4>2. /\ asks' = [asks EXCEPT ![m.price] = m.size]
            /\ bids' = [q \in Prices |-> IF q >= m.price THEN 0 ELSE bids[q]]
            /\ asks \in Levels
        BY <4>1 DEF Plain!ChangeAsk, Plain!Prices, Prices, BookInv, TypeOK
      <4>3. Crosses(m, place) <=> place[1] = "BUY" /\ place[2] >= m.price
        BY <1>5, <3>4 DEF Crosses
      <4>4. CASE place[1] = "SELL"
        BY <1>1, <1>3, <2>1, <2>2, <2>3, <2>4, <2>6, <3>1, <3>2, <3>4, <4>2, <4>3, <4>4
           DEF Levels, m
      <4>5. CASE place[1] = "BUY"
        BY <1>1, <1>3, <2>1, <2>3, <2>6, <3>1, <3>2, <3>4, <4>2, <4>3, <4>5 DEF m
      <4> QED
        BY <1>3, <2>6, <4>4, <4>5
    <3> QED
      BY <2>2, <3>3, <3>4
  <2> QED
    BY <1>2, <2>5, <2>6
<1>6. CASE m.type = "tick_size_change"
  <2>1. synced /\ connected /\ present
    BY <1>1, <1>6 DEF MirrorInv
  <2>2. present' /\ tick_size' = m.new_tick_size /\ bids' = bids /\ asks' = asks
    BY <1>1, <1>6, <2>1 DEF tick_size_change
  <2>3. Says(m, place) = m.new_tick_size /\ ~Crosses(m, place)
        /\ (Touches(m, place) <=> place = TickPlace)
    BY <1>6 DEF Says, Crosses, Touches
  <2> QED
    BY <1>1, <2>1, <2>2, <2>3 DEF Local, Value, m
<1> QED
  BY <1>1, <1>4, <1>5, <1>6

LEMMA MirrorHandle ==
  ASSUME BookInv, FeedInv, MirrorInv, HandleMarketEvent
  PROVE  MirrorInv'
<1> DEFINE m == Head(feed)
           n == Len(feed)
<1>1. /\ feed \in Seq(Messages) /\ feed # <<>> /\ feed' = Tail(feed)
      /\ UNCHANGED <<xbids, xasks, xtick, connected, ordered, tick_told>>
  BY DEF HandleMarketEvent, FeedInv, exchange_vars, xlevels
<1>2. /\ n \in Nat /\ n \in 1..Len(feed) /\ Len(feed') = n - 1
      /\ Len(feed') + 1 = n
      /\ \A i \in 1..(n - 1) : feed'[i] = feed[i + 1] /\ i \in 1..n /\ i + 1 \in 1..n
  BY <1>1
<1>3. \A place \in Places : Theirs(place)' = Theirs(place)
  BY <1>1 DEF Theirs, Value
<1>4. TickPlace \in Places /\ \A place \in Levelled : place \in Places /\ place # TickPlace
  BY DEF Places, Levelled, TickPlace
<1>5. synced' => connected' /\ present'
  BY <1>4, Handled
<1> SUFFICES ASSUME connected
             PROVE  (TheLastIsRight /\ TheRestIsThere /\ NothingToCross)'
  BY <1>1, <1>5 DEF MirrorInv
<1>6. TheLastIsRight /\ TheRestIsThere /\ NothingToCross
  BY DEF MirrorInv
<1>7. TheLastIsRight'
  <2> SUFFICES ASSUME NEW place \in Places, place = TickPlace => tick_told
               PROVE  LastSays(feed', Len(feed') + 1, place, Theirs(place)')
    BY <1>1 DEF TheLastIsRight
  <2>1. LastSays(feed, n + 1, place, Theirs(place))
    BY <1>6 DEF TheLastIsRight
  <2> HIDE DEF n
  <2>2. LastSays(Tail(feed), n, place, Theirs(place))
    BY <1>1, <1>2, <2>1, TailLast
  <2> QED
    BY <1>1, <1>2, <1>3, <2>2
<1>8. TheRestIsThere'
  <2> SUFFICES ASSUME synced', NEW place \in Places,
                      Untouched(feed', Len(feed') + 1, place)
               PROVE  /\ (IF place = TickPlace THEN tick_told ELSE ordered) =>
                           Local(place)' = Theirs(place)
                      /\ place \in Levelled => Local(place)' \in {0, Theirs(place)}
    BY <1>1, <1>3 DEF TheRestIsThere
  <2>1. Untouched(Tail(feed), n, place)
    BY <1>1, <1>2
  <2> SUFFICES ASSUME place = TickPlace => tick_told
               PROVE  /\ (IF place = TickPlace THEN tick_told ELSE ordered) =>
                           Local(place)' = Theirs(place)
                      /\ place \in Levelled => Local(place)' \in {0, Theirs(place)}
    BY <1>4
  <2>2. LastSays(feed, n + 1, place, Theirs(place))
    BY <1>6 DEF TheLastIsRight
  <2>3. \/ Touches(m, place) /\ Says(m, place) = Theirs(place)
        \/ ~Touches(m, place) /\ Untouched(feed, n + 1, place)
    <3> HIDE DEF n
    <3> QED
      BY <1>1, <1>2, <2>1, <2>2, TailUntouched
  <2>4. CASE Touches(m, place) /\ Says(m, place) = Theirs(place)
    <3>1. Local(place)' = Theirs(place)
      BY <2>4, Handled
    <3> QED
      BY <3>1
  <2>5. CASE ~Touches(m, place) /\ Untouched(feed, n + 1, place)
    <3>1. synced /\ Local(place)' = IF Crosses(m, place) THEN 0 ELSE Local(place)
      BY <2>5, Handled
    <3>2. /\ (IF place = TickPlace THEN tick_told ELSE ordered) =>
               Local(place) = Theirs(place)
          /\ place \in Levelled => Local(place) \in {0, Theirs(place)}
      BY <1>6, <2>5, <3>1 DEF TheRestIsThere
    <3>3. CASE ~Crosses(m, place)
      BY <3>1, <3>2, <3>3
    <3>4. CASE Crosses(m, place)
      <4>1. place \in Levelled /\ place # TickPlace /\ m = feed[1]
        BY <1>1, <3>4 DEF Crosses, Places, TickPlace, Levelled
      <4>2. NoBookFrom(feed, 1) /\ Untouched(feed, 1, place)
        <5>1. \A j \in 1..n : feed[j].type # "book"
          BY <1>2, <2>5 DEF Untouched, Touches
        <5> QED
          BY <5>1 DEF NoBookFrom, Untouched
      <4>3. ordered => Local(place) = 0
        BY <1>2, <1>6, <3>1, <3>4, <4>1, <4>2 DEF NothingToCross
      <4> QED
        BY <3>1, <3>2, <3>4, <4>1, <4>3
    <3> QED
      BY <3>3, <3>4
  <2> QED
    BY <2>3, <2>4, <2>5
<1>9. NothingToCross'
  <2> SUFFICES ASSUME ordered, NEW i \in 1..Len(feed'), NoBookFrom(feed', i),
                      NEW place \in Levelled, Crosses(feed'[i], place)
               PROVE  /\ LastSays(feed', i, place, 0)
                      /\ (synced' /\ Untouched(feed', i, place)) => Local(place)' = 0
    BY <1>1 DEF NothingToCross
  <2>1. i \in 1..(n - 1) /\ i \in 1..n /\ i + 1 \in 1..n /\ i \in Nat
    BY <1>2
  <2>2. NoBookFrom(feed, i + 1)
    <3> SUFFICES ASSUME NEW j \in (i + 1)..n PROVE feed[j].type # "book"
      BY DEF NoBookFrom
    <3>1. j - 1 \in i..Len(feed') /\ j - 1 \in 1..(n - 1) /\ (j - 1) + 1 = j
      BY <1>2, <2>1
    <3> HIDE DEF n
    <3>2. feed'[j - 1] = feed[(j - 1) + 1]
      BY <1>2, <3>1
    <3> QED
      BY <3>1, <3>2 DEF NoBookFrom
  <2>3. /\ LastSays(feed, i + 1, place, 0)
        /\ (synced /\ Untouched(feed, i + 1, place)) => Local(place) = 0
    BY <1>2, <1>6, <2>1, <2>2 DEF NothingToCross
  <2>4. LastSays(Tail(feed), i, place, 0)
    BY <1>1, <2>1, <2>3, TailLast
  <2>5. ASSUME synced', Untouched(feed', i, place)
        PROVE  Local(place)' = 0
    <3>1. \/ Touches(m, place) /\ Says(m, place) = 0
          \/ ~Touches(m, place) /\ Untouched(feed, i + 1, place)
      BY <1>1, <2>1, <2>3, <2>5, TailUntouched
    <3>2. /\ Touches(m, place) => Local(place)' = Says(m, place)
          /\ ~Touches(m, place) =>
               synced /\ Local(place)' = IF Crosses(m, place) THEN 0 ELSE Local(place)
      BY <1>4, <2>5, Handled
    <3> QED
      BY <2>3, <3>1, <3>2
  <2> QED
    BY <1>1, <2>4, <2>5
<1> QED
  BY <1>7, <1>8, <1>9

\* What an announcement has to tell of the exchange's new book.
TellsAll(ms) ==
  \A place \in Places :
    /\ \A j \in 1..Len(ms) : Touches(ms[j], place) =>
         ((place = TickPlace => tick_told') => Says(ms[j], place) = Theirs(place)')
    /\ Untouched(ms, Len(ms) + 1, place) =>
         /\ Theirs(place)' = Theirs(place)
         /\ place = TickPlace => (tick_told' => tick_told)

\* A change in the promised order crosses nothing the exchange still has.
KeepsOrder(ms) ==
  ordered' =>
    /\ NoBookFrom(ms, 1) => ordered
    /\ \A k \in 1..Len(ms), place \in Levelled : Crosses(ms[k], place) =>
         /\ \A j \in 1..(k - 1) : Touches(ms[j], place) => Says(ms[j], place) = 0
         /\ Untouched(ms, k, place) => Theirs(place) = 0

LEMMA MirrorAnnounce ==
  ASSUME FeedInv, MirrorInv, NEW ms \in Seq(Messages), Announce(ms),
         connected => TellsAll(ms) /\ KeepsOrder(ms)
  PROVE  MirrorInv'
<1>1. UNCHANGED <<bids, asks, tick_size, present, connected, synced>>
  BY DEF Announce, book_vars
<1> SUFFICES ASSUME connected
             PROVE  (TheLastIsRight /\ TheRestIsThere /\ NothingToCross)'
  BY <1>1 DEF MirrorInv
<1> DEFINE n == Len(feed)
           l == Len(ms)
<1>2. feed' = feed \o ms /\ feed \in Seq(Messages)
  BY DEF Announce, FeedInv
<1>3. /\ n \in Nat /\ l \in Nat /\ Len(feed') = n + l
      /\ Len(feed') + 1 = Len(feed) + (l + 1)
      /\ l + 1 \in 1..(Len(ms) + 1) /\ (l + 1) - 1 = Len(ms)
      /\ \A k \in 1..l : feed'[n + k] = ms[k]
  BY <1>2
<1>4. TickPlace \in Places /\ \A place \in Levelled : place \in Places /\ place # TickPlace
  BY DEF Places, Levelled, TickPlace
<1>5. \A place : Local(place)' = Local(place)
  BY <1>1 DEF Local, Value
<1>6. TheLastIsRight /\ TheRestIsThere /\ NothingToCross
  BY DEF MirrorInv
<1>7. TheLastIsRight'
  <2> SUFFICES ASSUME NEW place \in Places, place = TickPlace => tick_told'
               PROVE  LastSays(feed', Len(feed') + 1, place, Theirs(place)')
    BY DEF TheLastIsRight
  <2>1. \A j \in 1..((l + 1) - 1) :
          Touches(ms[j], place) => Says(ms[j], place) = Theirs(place)'
    BY <1>3 DEF TellsAll
  <2>2. Untouched(ms, l + 1, place) => LastSays(feed, Len(feed) + 1, place, Theirs(place)')
    BY <1>6 DEF TellsAll, TheLastIsRight
  <2> HIDE DEF l
  <2>3. LastSays(feed \o ms, Len(feed) + (l + 1), place, Theirs(place)')
    BY <1>2, <1>3, <2>1, <2>2, AppendAfter
  <2> QED
    BY <1>2, <1>3, <2>3
<1>8. TheRestIsThere'
  <2> SUFFICES ASSUME synced, NEW place \in Places,
                      Untouched(feed', Len(feed') + 1, place)
               PROVE  /\ (IF place = TickPlace THEN tick_told' ELSE ordered') =>
                           Local(place) = Theirs(place)'
                      /\ place \in Levelled => Local(place) \in {0, Theirs(place)'}
    BY <1>1, <1>5 DEF TheRestIsThere
  <2>1. Untouched(feed, Len(feed) + 1, place) /\ Untouched(ms, l + 1, place)
    <3>1. Untouched(feed \o ms, Len(feed) + (l + 1), place)
      BY <1>2, <1>3
    <3> HIDE DEF l
    <3> QED
      BY <1>2, <1>3, <3>1, AppendUntouched
  <2>2. Theirs(place)' = Theirs(place) /\ (place = TickPlace => (tick_told' => tick_told))
    BY <2>1 DEF TellsAll
  <2>3. ordered' => ordered
    <3>1. NoBookFrom(ms, 1)
      BY <1>3, <2>1 DEF NoBookFrom, Untouched, Touches
    <3> QED
      BY <3>1 DEF KeepsOrder
  <2> QED
    BY <1>6, <2>1, <2>2, <2>3 DEF TheRestIsThere
<1>9. NothingToCross'
  <2> SUFFICES ASSUME ordered', NEW i \in 1..Len(feed'), NoBookFrom(feed', i),
                      NEW place \in Levelled, Crosses(feed'[i], place)
               PROVE  /\ LastSays(feed', i, place, 0)
                      /\ (synced /\ Untouched(feed', i, place)) => Local(place) = 0
    BY <1>1, <1>5 DEF NothingToCross
  <2>1. CASE i \in 1..n
    <3>1. /\ feed'[i] = feed[i]
          /\ LastSays(feed, i, place, 0) => LastSays(feed', i, place, 0)
          /\ Untouched(feed', i, place) => Untouched(feed, i, place)
          /\ NoBookFrom(feed, i) /\ NoBookFrom(ms, 1)
      BY <1>2, <2>1, AppendBefore
    <3>2. ordered
      BY <3>1 DEF KeepsOrder
    <3> QED
      BY <1>6, <2>1, <3>1, <3>2 DEF NothingToCross
  <2>2. CASE i \notin 1..n
    <3> DEFINE k == i - n
    <3>1. k \in 1..l /\ i = n + k /\ k \in 1..(l + 1) /\ n + k = Len(feed) + k
      BY <1>3, <2>2
    <3>2. Crosses(ms[k], place)
      <4> HIDE DEF k
      <4> QED
        BY <1>3, <3>1
    <3>3. /\ \A j \in 1..(k - 1) : Touches(ms[j], place) => Says(ms[j], place) = 0
          /\ Untouched(ms, k, place) => Theirs(place) = 0
      <4> HIDE DEF k
      <4> QED
        BY <3>1, <3>2 DEF KeepsOrder
    <3>4. ASSUME Untouched(ms, k, place)
          PROVE  ordered
      <4> SUFFICES NoBookFrom(ms, 1)
        BY DEF KeepsOrder
      <4>1. ASSUME NEW j \in 1..l PROVE ms[j].type # "book"
        <5>1. CASE j \in 1..(k - 1)
          BY <3>4, <5>1 DEF Untouched, Touches
        <5>2. CASE j \notin 1..(k - 1)
          <6>1. n + j \in i..Len(feed') /\ feed'[n + j] = ms[j]
            BY <1>3, <3>1, <5>2
          <6> QED
            BY <6>1 DEF NoBookFrom
        <5> QED
          BY <5>1, <5>2
      <4> QED
        BY <4>1 DEF NoBookFrom
    <3>5. LastSays(feed', i, place, 0)
      <4>1. Untouched(ms, k, place) => LastSays(feed, Len(feed) + 1, place, 0)
        BY <1>4, <1>6, <3>3 DEF TheLastIsRight
      <4> HIDE DEF k
      <4>2. LastSays(feed \o ms, Len(feed) + k, place, 0)
        BY <1>2, <3>1, <3>3, <4>1, AppendAfter
      <4> QED
        BY <1>2, <3>1, <4>2
    <3>6. ASSUME synced, Untouched(feed', i, place)
          PROVE  Local(place) = 0
      <4>1. Untouched(feed, Len(feed) + 1, place) /\ Untouched(ms, k, place)
        <5>1. Untouched(feed \o ms, Len(feed) + k, place)
          BY <1>2, <3>1, <3>6
        <5> HIDE DEF k
        <5> QED
          BY <1>2, <3>1, <5>1, AppendUntouched
      <4> QED
        BY <1>4, <1>6, <3>3, <3>4, <3>6, <4>1 DEF TheRestIsThere
    <3> QED
      BY <3>5, <3>6
  <2> QED
    BY <2>1, <2>2
<1> QED
  BY <1>7, <1>8, <1>9

\* A change is about one level of the exchange's book.
LEMMA OneLevel ==
  ASSUME NEW side \in {"BUY", "SELL"}, NEW p \in Prices, NEW s, NEW place \in Places
  PROVE  /\ Touches(Change(side, p, s), place) <=> place = <<side, p>>
         /\ Says(Change(side, p, s), place) = s
         /\ Change(side, p, s).type # "book"
         /\ <<side, p>> \in Levelled
BY DEF Touches, Says, Change, Levelled

LEMMA MirrorQuote ==
  ASSUME FeedInv, MirrorInv, NEW side \in {"BUY", "SELL"}, NEW p \in Prices,
         NEW s \in 0..MaxSize, ExchQuote(side, p, s)
  PROVE  MirrorInv'
<1> DEFINE c == Change(side, p, s)
           ms == <<c>>
<1>1. ms \in Seq(Messages) /\ Len(ms) = 1 /\ ms[1] = c
  BY DEF Change, Messages, ChangeMessages
<1>2. Announce(ms) /\ UNCHANGED <<xtick, ordered, tick_told>>
  BY DEF ExchQuote
<1>3. /\ IF side = "BUY" THEN xbids' = [xbids EXCEPT ![p] = s] /\ xasks' = xasks
                         ELSE xasks' = [xasks EXCEPT ![p] = s] /\ xbids' = xbids
      /\ Uncrossed(xbids', xasks') /\ Uncrossed(xbids, xasks)
      /\ xbids \in Levels /\ xasks \in Levels
      /\ <<xbids', xasks'>> # <<xbids, xasks>>
  BY DEF ExchQuote, xlevels, FeedInv
<1>4. ASSUME NEW place \in Places
      PROVE  Theirs(place)' = IF place = <<side, p>> THEN s ELSE Theirs(place)
  <2>1. CASE place = TickPlace
    <3>1. place # <<side, p>>
      BY <2>1 DEF TickPlace
    <3> QED
      BY <1>2, <2>1, <3>1 DEF Theirs, Value
  <2>2. CASE place \in Levelled /\ place # TickPlace
    <3>1. place = <<place[1], place[2]>> /\ place[1] \in {"BUY", "SELL"} /\ place[2] \in Prices
      BY <2>2 DEF Levelled
    <3>2. /\ Theirs(place)' = IF place[1] = "BUY" THEN xbids'[place[2]] ELSE xasks'[place[2]]
          /\ Theirs(place) = IF place[1] = "BUY" THEN xbids[place[2]] ELSE xasks[place[2]]
      BY <2>2 DEF Theirs, Value
    <3> QED
      BY <1>3, <3>1, <3>2 DEF Levels
  <2> QED
    BY <2>1, <2>2 DEF Places, Levelled, TickPlace
<1> HIDE DEF c
<1>5. TellsAll(ms)
  <2> SUFFICES ASSUME NEW place \in Places
               PROVE  /\ \A j \in 1..1 : Touches(c, place) => Says(c, place) = Theirs(place)'
                      /\ Untouched(ms, 2, place) => Theirs(place)' = Theirs(place)
    BY <1>1, <1>2 DEF TellsAll
  <2>1. Touches(c, place) <=> place = <<side, p>>
    BY OneLevel DEF c
  <2>2. Says(c, place) = s
    BY OneLevel DEF c
  <2>3. Untouched(ms, 2, place) => ~Touches(c, place)
    BY <1>1 DEF Untouched
  <2> QED
    BY <1>4, <2>1, <2>2, <2>3
<1>6. KeepsOrder(ms)
  <2> SUFFICES ASSUME NEW place \in Levelled, Crosses(c, place)
               PROVE  Theirs(place) = 0
    BY <1>1, <1>2 DEF KeepsOrder
  <2>1. /\ place[1] \in {"BUY", "SELL"} /\ place[2] \in Prices /\ place # TickPlace
        /\ place[2] \in Nat /\ p \in Nat
    BY DEF Levelled, TickPlace, Prices
  <2>2. Theirs(place) = IF place[1] = "BUY" THEN xbids[place[2]] ELSE xasks[place[2]]
    BY <2>1 DEF Theirs, Value
  <2>3. CASE side = "BUY"
    <3>1. place[1] = "SELL" /\ place[2] <= p
      BY <2>3 DEF Crosses, Change, c
    <3>2. xbids' = [xbids EXCEPT ![p] = s] /\ xasks' = xasks
      BY <1>3, <2>3
    <3>3. xbids[p] # 0 \/ xbids'[p] # 0
      BY <1>3, <3>2 DEF Levels
    <3>4. ~(p < place[2])
      BY <2>1, <3>1
    <3>5. xasks[place[2]] = 0
      BY <1>3, <2>1, <3>2, <3>3, <3>4 DEF Uncrossed
    <3> QED
      BY <2>2, <3>1, <3>5
  <2>4. CASE side = "SELL"
    <3>1. place[1] = "BUY" /\ place[2] >= p
      BY <2>4 DEF Crosses, Change, c
    <3>2. xasks' = [xasks EXCEPT ![p] = s] /\ xbids' = xbids
      BY <1>3, <2>4
    <3>3. xasks[p] # 0 \/ xasks'[p] # 0
      BY <1>3, <3>2 DEF Levels
    <3>4. ~(place[2] < p)
      BY <2>1, <3>1
    <3>5. xbids[place[2]] = 0
      BY <1>3, <2>1, <3>2, <3>3, <3>4 DEF Uncrossed
    <3> QED
      BY <2>2, <3>1, <3>5
  <2> QED
    BY <2>3, <2>4
<1> QED
  BY <1>1, <1>2, <1>5, <1>6, MirrorAnnounce

LEMMA MirrorTick ==
  ASSUME FeedInv, MirrorInv, ExchTick
  PROVE  MirrorInv'
<1> DEFINE c == TickSizeChange(xtick')
           ms == <<c>>
<1>1. ms \in Seq(Messages) /\ Len(ms) = 1 /\ ms[1] = c
  BY DEF ExchTick, TickSizeChange, Messages, TickMessages
<1>2. Announce(ms) /\ xbids' = xbids /\ xasks' = xasks /\ ordered' = ordered
  BY DEF ExchTick, xlevels
<1>3. /\ c.type # "book" /\ \A place : ~Crosses(c, place)
      /\ \A place : Touches(c, place) <=> place = TickPlace
      /\ \A place : Says(c, place) = xtick'
  BY DEF TickSizeChange, Crosses, Touches, Says
<1> HIDE DEF c
<1>4. TellsAll(ms)
  <2> SUFFICES ASSUME NEW place \in Places
               PROVE  /\ Touches(c, place) => Says(c, place) = Theirs(place)'
                      /\ Untouched(ms, 2, place) =>
                           place # TickPlace /\ Theirs(place)' = Theirs(place)
    BY <1>1 DEF TellsAll
  <2>1. Untouched(ms, 2, place) => ~Touches(c, place)
    BY <1>1 DEF Untouched
  <2> QED
    BY <1>2, <1>3, <2>1 DEF Theirs, Value
<1>5. KeepsOrder(ms)
  BY <1>1, <1>2, <1>3 DEF KeepsOrder
<1> QED
  BY <1>1, <1>2, <1>4, <1>5, MirrorAnnounce

LEMMA BookTellsAll ==
  ASSUME UNCHANGED <<xbids, xasks, xtick>>, tick_told' = (xtick = MarketTick)
  PROVE  TellsAll(<<BookMessage(xbids, xasks)>>)
<1> DEFINE c == BookMessage(xbids, xasks)
           ms == <<c>>
<1>1. Len(ms) = 1 /\ ms[1] = c
  OBVIOUS
<1>2. \A place : Touches(c, place) /\ Says(c, place) = Value(xbids, xasks, MarketTick, place)
  BY DEF BookMessage, Touches, Says
<1>3. TellsAll(ms) => TellsAll(<<BookMessage(xbids, xasks)>>)
  OBVIOUS
<1> HIDE DEF c
<1> SUFFICES ASSUME NEW place \in Places
             PROVE  /\ (place = TickPlace => tick_told') =>
                          Says(c, place) = Theirs(place)'
                    /\ ~Untouched(ms, 2, place)
  BY <1>1, <1>3 DEF TellsAll
<1>4. ~Untouched(ms, 2, place)
  BY <1>1, <1>2 DEF Untouched
<1> QED
  BY <1>2, <1>4 DEF Theirs, Value

LEMMA MirrorBook ==
  ASSUME FeedInv, MirrorInv, ExchBook
  PROVE  MirrorInv'
<1> DEFINE c == BookMessage(xbids, xasks)
           ms == <<c>>
<1>1. ms \in Seq(Messages) /\ Len(ms) = 1 /\ ms[1] = c
  BY BookIsMessage
<1>2. Announce(ms) /\ TellsAll(ms)
  BY BookTellsAll DEF ExchBook, exchange_vars, xlevels
<1>3. c.type = "book" /\ \A place : ~Crosses(c, place)
  BY DEF BookMessage, Crosses
<1> HIDE DEF c
<1>4. KeepsOrder(ms)
  BY <1>1, <1>3 DEF KeepsOrder, NoBookFrom
<1> QED
  BY <1>1, <1>2, <1>4, MirrorAnnounce

\* A new subscription: whatever is still in the queue, its book comes after.
LEMMA MirrorConnect ==
  ASSUME FeedInv, MirrorInv, Connect
  PROVE  MirrorInv'
<1> DEFINE c == BookMessage(xbids, xasks)
           ms == <<c>>
<1>1. ms \in Seq(Messages) /\ Len(ms) = 1 /\ ms[1] = c /\ feed \in Seq(Messages)
  BY BookIsMessage DEF FeedInv
<1>2. /\ feed' = feed \o ms /\ TellsAll(ms)
      /\ ~synced' /\ connected' /\ present' = present
  BY <1>1, BookTellsAll DEF Connect, exchange_vars, xlevels, book_vars, MirrorInv
<1>3. c.type = "book"
  BY DEF BookMessage
<1> HIDE DEF c
<1>4. /\ Len(feed) \in Nat /\ Len(feed') = Len(feed) + 1 /\ feed'[Len(feed) + 1] = c
      /\ Len(feed') + 1 = Len(feed) + 2 /\ 2 \in 1..(Len(ms) + 1)
  BY <1>1, <1>2
<1>5. TheLastIsRight'
  <2> SUFFICES ASSUME NEW place \in Places, place = TickPlace => tick_told'
               PROVE  LastSays(feed', Len(feed') + 1, place, Theirs(place)')
    BY DEF TheLastIsRight
  <2>1. \A j \in 1..(2 - 1) : Touches(ms[j], place) => Says(ms[j], place) = Theirs(place)'
    BY <1>1, <1>2 DEF TellsAll
  <2>2. ~Untouched(ms, 2, place)
    BY <1>1, <1>3 DEF Untouched, Touches
  <2>3. LastSays(feed \o ms, Len(feed) + 2, place, Theirs(place)')
    BY <1>1, <1>4, <2>1, <2>2, AppendAfter
  <2> QED
    BY <1>2, <1>4, <2>3
<1>6. TheRestIsThere'
  BY <1>2 DEF TheRestIsThere
<1>7. NothingToCross'
  <2>1. ASSUME NEW i \in 1..Len(feed') PROVE ~NoBookFrom(feed', i)
    <3>1. Len(feed') \in i..Len(feed')
      BY <1>4
    <3> QED
      BY <1>3, <1>4, <3>1 DEF NoBookFrom
  <2> QED
    BY <2>1 DEF NothingToCross
<1> QED
  BY <1>2, <1>5, <1>6, <1>7 DEF MirrorInv

\* The levels that are taken are gone, what is left of the order is there,
\* and nothing else has changed; nothing the changes cross was left.
Matches(side, other, p, s, taken) ==
  /\ \A place \in Places :
       Theirs(place)' = IF place[1] = other /\ place[2] \in taken THEN 0
                        ELSE IF place = <<side, p>> /\ s # 0 THEN s
                        ELSE Theirs(place)
  /\ \A t \in taken, place \in Levelled :
       Crosses(Change(other, t, 0), place) => Theirs(place) = 0
  /\ \A place \in Levelled : Crosses(Change(side, p, s), place) =>
       place[1] = other /\ (place[2] \in taken \/ Theirs(place) = 0)

\* Each level taken is reported in a change of its own, and the rest.
Reports(ms, side, other, p, s, taken) ==
  /\ \A j \in 1..Len(ms) :
       \/ \E t \in taken : ms[j] = Change(other, t, 0)
       \/ s # 0 /\ ms[j] = Change(side, p, s)
  /\ \A t \in taken : \E j \in 1..Len(ms) : ms[j] = Change(other, t, 0)
  /\ s # 0 => \E j \in 1..Len(ms) : ms[j] = Change(side, p, s)

LEMMA FiniteTaken ==
  ASSUME NEW taken \in SUBSET Prices
  PROVE  Cardinality(taken) \in Nat
<1>1. IsFiniteSet(1..MaxPrice)
  BY FS_Interval, PolyOrderbookAssumption
<1>2. IsFiniteSet(taken)
  BY <1>1, FS_Subset, Zenon DEF Prices
<1> QED
  BY <1>2, FS_CardinalityType

\* It tells of everything that changed.
LEMMA MatchTells ==
  ASSUME NEW side \in {"BUY", "SELL"}, NEW other \in {"BUY", "SELL"}, side # other,
         NEW p \in Prices, NEW s \in 0..MaxSize, NEW taken \in SUBSET Prices,
         Matches(side, other, p, s, taken), tick_told' = tick_told,
         NEW ms \in Seq(Messages), Reports(ms, side, other, p, s, taken)
  PROVE  TellsAll(ms)
<1> SUFFICES ASSUME NEW place \in Places
             PROVE  /\ \A j \in 1..Len(ms) : Touches(ms[j], place) =>
                          Says(ms[j], place) = Theirs(place)'
                    /\ Untouched(ms, Len(ms) + 1, place) =>
                          Theirs(place)' = Theirs(place)
  BY DEF TellsAll
<1>1. ASSUME NEW j \in 1..Len(ms), Touches(ms[j], place)
      PROVE  Says(ms[j], place) = Theirs(place)'
  <2>1. CASE \E t \in taken : ms[j] = Change(other, t, 0)
    <3>1. PICK t \in taken : ms[j] = Change(other, t, 0)
      BY <2>1
    <3>2. t \in Prices
      OBVIOUS
    <3>3. place = <<other, t>> /\ Says(ms[j], place) = 0
      <4>1. Touches(Change(other, t, 0), place)
        BY <1>1, <3>1
      <4>2. place = <<other, t>> /\ Says(Change(other, t, 0), place) = 0
        BY <3>2, <4>1, OneLevel
      <4> QED
        BY <3>1, <4>2
    <3>4. place[1] = other /\ place[2] \in taken
      BY <3>3
    <3> QED
      BY <3>3, <3>4 DEF Matches
  <2>2. CASE s # 0 /\ ms[j] = Change(side, p, s)
    <3>1. place = <<side, p>> /\ Says(ms[j], place) = s
      <4>1. Touches(Change(side, p, s), place)
        BY <1>1, <2>2
      <4>2. place = <<side, p>> /\ Says(Change(side, p, s), place) = s
        BY <4>1, OneLevel
      <4> QED
        BY <2>2, <4>2
    <3>2. place[1] # other
      BY <3>1
    <3> QED
      BY <2>2, <3>1, <3>2 DEF Matches
  <2> QED
    BY <2>1, <2>2 DEF Reports
<1>2. ASSUME Untouched(ms, Len(ms) + 1, place)
      PROVE  Theirs(place)' = Theirs(place)
  <2>0. \A j \in 1..Len(ms) : ~Touches(ms[j], place)
    BY <1>2 DEF Untouched
  <2>1. ~(place[1] = other /\ place[2] \in taken)
    <3> SUFFICES ASSUME place[1] = other, place[2] \in taken PROVE FALSE
      OBVIOUS
    <3>1. PICK j \in 1..Len(ms) : ms[j] = Change(other, place[2], 0)
      BY DEF Reports
    <3>2. place = <<other, place[2]>>
      BY DEF Places, Levelled, TickPlace
    <3> QED
      BY <2>0, <3>1, <3>2, OneLevel
  <2>2. ~(place = <<side, p>> /\ s # 0)
    <3> SUFFICES ASSUME place = <<side, p>>, s # 0 PROVE FALSE
      OBVIOUS
    <3>1. PICK j \in 1..Len(ms) : ms[j] = Change(side, p, s)
      BY DEF Reports
    <3> QED
      BY <2>0, <3>1, OneLevel
  <2> QED
    BY <2>1, <2>2 DEF Matches
<1> QED
  BY <1>1, <1>2

LEMMA ConcatOne ==
  ASSUME NEW q \in Seq(Messages), NEW m \in Messages
  PROVE  /\ q \o <<>> = q /\ <<>> \o q = q
         /\ q \o <<m>> \in Seq(Messages) /\ Len(q \o <<m>>) = Len(q) + 1
         /\ (q \o <<m>>)[Len(q) + 1] = m
         /\ \A i \in 1..Len(q) : (q \o <<m>>)[i] = q[i]
         /\ <<m>> \o q \in Seq(Messages) /\ Len(<<m>> \o q) = Len(q) + 1
         /\ (<<m>> \o q)[1] = m
         /\ \A i \in 1..Len(q) : (<<m>> \o q)[i + 1] = q[i]
OBVIOUS

\* What is announced of an order that matches: the levels it took, each in a
\* change of its own, and what is left of it.
LEMMA MirrorOrder ==
  ASSUME FeedInv, MirrorInv, NEW side \in {"BUY", "SELL"}, NEW other \in {"BUY", "SELL"},
         other = IF side = "BUY" THEN "SELL" ELSE "BUY",
         NEW p \in Prices, NEW s \in 0..MaxSize, NEW taken \in SUBSET Prices,
         AnnounceOrder(side, p, s, taken), tick_told' = tick_told,
         Matches(side, other, p, s, taken)
  PROVE  MirrorInv'
<1> DEFINE c == Cardinality(taken)
           rest == IF s = 0 THEN <<>> ELSE <<Change(side, p, s)>>
           gone(order) == [i \in DOMAIN order |-> Change(other, order[i], 0)]
<1>1. PICK order \in Bijection(1..c, taken) :
        \/ Announce(gone(order) \o rest) /\ UNCHANGED ordered
        \/ Announce(rest \o gone(order)) /\ ordered' = (ordered /\ (~connected \/ s = 0))
  BY DEF AnnounceOrder
<1> DEFINE g == gone(order)
<1>2. c \in Nat
  BY FiniteTaken
<1>3. order \in [1..c -> taken] /\ \A t \in taken : \E i \in 1..c : order[i] = t
  BY DEF Bijection, Injection, Surjection
<1>4. \A t \in taken : Change(other, t, 0) \in Messages
  BY PolyOrderbookAssumption DEF Change, Messages, ChangeMessages
<1>5. /\ g \in Seq(Messages) /\ Len(g) = c
      /\ \A i \in 1..c : g[i] = Change(other, order[i], 0) /\ order[i] \in taken
  BY <1>2, <1>3, <1>4
<1>6. /\ Change(side, p, s) \in Messages
      /\ s = 0 => rest = <<>>
      /\ s # 0 => rest = <<Change(side, p, s)>>
  BY DEF Change, Messages, ChangeMessages
<1> HIDE DEF c, g, rest
\* First what was taken, then the rest.
<1>9. ASSUME Announce(g \o rest), ordered' => ordered
      PROVE  MirrorInv'
  <2> DEFINE ms == g \o rest
             l == IF s = 0 THEN c ELSE c + 1
  <2>1. /\ ms \in Seq(Messages) /\ Len(ms) = l
        /\ \A j \in 1..c : j \in 1..l /\ ms[j] = Change(other, order[j], 0)
        /\ s # 0 => ms[c + 1] = Change(side, p, s) /\ c + 1 \in 1..l
        /\ \A j \in 1..l : j \in 1..c \/ (s # 0 /\ j = c + 1)
    <3>1. CASE s = 0
      <4>1. ms = g
        BY <1>5, <1>6, <3>1, ConcatOne
      <4> HIDE DEF ms
      <4> QED
        BY <1>2, <1>5, <3>1, <4>1
    <3>2. CASE s # 0
      <4> DEFINE m == Change(side, p, s)
      <4>0. m \in Messages /\ ms = g \o <<m>>
        BY <1>6, <3>2
      <4> HIDE DEF m, ms
      <4>1. /\ ms \in Seq(Messages) /\ Len(ms) = Len(g) + 1
            /\ ms[Len(g) + 1] = m
            /\ \A i \in 1..Len(g) : ms[i] = g[i]
        BY <1>5, <4>0, ConcatOne
      <4> HIDE DEF ms
      <4> QED
        BY <1>2, <1>5, <3>2, <4>1 DEF m
    <3> QED
      BY <3>1, <3>2
  <2> HIDE DEF ms, l
  <2>2. \A j \in 1..Len(ms) :
          \/ \E t \in taken : ms[j] = Change(other, t, 0)
          \/ s # 0 /\ ms[j] = Change(side, p, s)
    BY <1>5, <2>1
  <2>3. /\ \A t \in taken : \E j \in 1..Len(ms) : ms[j] = Change(other, t, 0)
        /\ s # 0 => \E j \in 1..Len(ms) : ms[j] = Change(side, p, s)
    BY <1>3, <2>1
  <2>4. TellsAll(ms)
    BY <2>1, <2>2, <2>3, MatchTells, SMTT(30) DEF Reports
  <2>5. KeepsOrder(ms)
    <3> SUFFICES ASSUME NEW k \in 1..Len(ms), NEW place \in Levelled,
                        Crosses(ms[k], place)
                 PROVE  /\ \A j \in 1..(k - 1) : Touches(ms[j], place) =>
                             Says(ms[j], place) = 0
                        /\ Untouched(ms, k, place) => Theirs(place) = 0
      BY <1>9 DEF KeepsOrder
    <3>0. place \in Places /\ place = <<place[1], place[2]>>
      BY DEF Places, Levelled
    <3>1. \A j \in 1..(k - 1) : j \in 1..c /\ j \in 1..Len(ms)
      BY <1>2, <2>1
    <3>2. ASSUME NEW j \in 1..(k - 1)
          PROVE  Says(ms[j], place) = 0
      <4>1. ms[j] = Change(other, order[j], 0) /\ order[j] \in taken
        BY <1>5, <2>1, <3>1
      <4>2. order[j] \in Prices
        BY <4>1
      <4>3. Says(Change(other, order[j], 0), place) = 0
        BY <3>0, <4>2, OneLevel
      <4> QED
        BY <4>1, <4>3
    <3>3. ASSUME Untouched(ms, k, place)
          PROVE  Theirs(place) = 0
      <4>1. CASE k \in 1..c
        <5>1. ms[k] = Change(other, order[k], 0) /\ order[k] \in taken
          BY <1>5, <2>1, <4>1
        <5> QED
          BY <5>1 DEF Matches
      <4>2. CASE s # 0 /\ k = c + 1
        <5>1. place[1] = other /\ (place[2] \in taken \/ Theirs(place) = 0)
          BY <2>1, <4>2 DEF Matches
        <5>2. place[2] \notin taken
          <6> SUFFICES ASSUME place[2] \in taken PROVE FALSE
            OBVIOUS
          <6>1. PICK i \in 1..c : order[i] = place[2]
            BY <1>3
          <6>2. i \in 1..(k - 1) /\ ms[i] = Change(other, place[2], 0)
            BY <1>2, <2>1, <4>2, <6>1
          <6>3. place = <<other, place[2]>>
            BY <3>0, <5>1
          <6>4. Touches(ms[i], place)
            BY <3>0, <6>2, <6>3, OneLevel
          <6> QED
            BY <3>3, <6>2, <6>4 DEF Untouched
        <5> QED
          BY <5>1, <5>2
      <4> QED
        BY <2>1, <4>1, <4>2
    <3> QED
      BY <3>2, <3>3
  <2> QED
    BY <1>9, <2>1, <2>4, <2>5, MirrorAnnounce DEF ms
<1>10. ASSUME Announce(rest \o g), ordered' = (ordered /\ (~connected \/ s = 0))
       PROVE  MirrorInv'
  <2>1. CASE s = 0
    <3>1. rest \o g = g /\ g \o rest = g
      BY <1>5, <1>6, <2>1, ConcatOne
    <3>2. ordered' => ordered
      BY <1>10
    <3> QED
      BY <1>9, <1>10, <3>1, <3>2
  <2>2. CASE s # 0
    <3> DEFINE ms == rest \o g
    <3>1. /\ ms \in Seq(Messages) /\ Len(ms) = c + 1
          /\ ms[1] = Change(side, p, s) /\ 1 \in 1..(c + 1)
          /\ \A i \in 1..c : ms[i + 1] = g[i] /\ i + 1 \in 1..(c + 1)
          /\ \A j \in 1..(c + 1) : j = 1 \/ (j - 1 \in 1..c /\ ms[j] = g[j - 1])
      <4> DEFINE m == Change(side, p, s)
      <4>0. m \in Messages /\ ms = <<m>> \o g
        BY <1>6, <2>2
      <4> HIDE DEF m, ms
      <4>1. /\ ms \in Seq(Messages) /\ Len(ms) = Len(g) + 1
            /\ ms[1] = m
            /\ \A i \in 1..Len(g) : ms[i + 1] = g[i]
        BY <1>5, <4>0, ConcatOne
      <4> HIDE DEF ms
      <4>2. \A j \in 1..(c + 1) : j = 1 \/ (j - 1 \in 1..c /\ (j - 1) + 1 = j)
        BY <1>2
      <4>3. \A j \in 1..(c + 1) : j = 1 \/ (j - 1 \in 1..c /\ ms[j] = g[j - 1])
        BY <1>5, <4>1, <4>2
      <4> QED
        BY <1>2, <1>5, <4>1, <4>3 DEF m
    <3> HIDE DEF ms
    <3>2. \A j \in 1..Len(ms) :
            \/ \E t \in taken : ms[j] = Change(other, t, 0)
            \/ s # 0 /\ ms[j] = Change(side, p, s)
      <4>1. ASSUME NEW j \in 1..(c + 1), j # 1
            PROVE  \E t \in taken : ms[j] = Change(other, t, 0)
        <5>1. j - 1 \in 1..c /\ ms[j] = g[j - 1]
          BY <3>1, <4>1
        <5>2. g[j - 1] = Change(other, order[j - 1], 0) /\ order[j - 1] \in taken
          BY <1>5, <5>1
        <5> QED
          BY <5>1, <5>2
      <4> QED
        BY <2>2, <3>1, <4>1
    <3>3. /\ \A t \in taken : \E j \in 1..Len(ms) : ms[j] = Change(other, t, 0)
          /\ s # 0 => \E j \in 1..Len(ms) : ms[j] = Change(side, p, s)
      <4>1. ASSUME NEW t \in taken
            PROVE  \E j \in 1..Len(ms) : ms[j] = Change(other, t, 0)
        <5>1. PICK i \in 1..c : order[i] = t
          BY <1>3
        <5>2. ms[i + 1] = Change(other, t, 0) /\ i + 1 \in 1..Len(ms)
          BY <1>5, <3>1, <5>1
        <5> QED
          BY <5>2
      <4> QED
        BY <3>1, <4>1
    <3>4. TellsAll(ms)
      BY <3>1, <3>2, <3>3, MatchTells DEF Reports
    <3>5. connected => KeepsOrder(ms)
      BY <1>10, <2>2 DEF KeepsOrder
    <3> QED
      BY <1>10, <3>1, <3>4, <3>5, MirrorAnnounce DEF ms
  <2> QED
    BY <2>1, <2>2
<1> QED
  BY <1>1, <1>9, <1>10 DEF g

LEMMA MirrorBuy ==
  ASSUME FeedInv, MirrorInv, NEW p \in Prices, NEW s \in 0..MaxSize, ExchBuy(p, s)
  PROVE  MirrorInv'
<1> DEFINE taken == {q \in 1..p : xasks[q] # 0}
<1>1. /\ xasks' = [q \in Prices |-> IF q \in taken THEN 0 ELSE xasks[q]]
      /\ xbids' = IF s = 0 THEN xbids ELSE [xbids EXCEPT ![p] = s]
      /\ AnnounceOrder("BUY", p, s, taken)
      /\ xtick' = xtick /\ tick_told' = tick_told
  BY DEF ExchBuy
<1>2. /\ taken \in SUBSET Prices
      /\ \A q \in Prices : q \in taken <=> q <= p /\ xasks[q] # 0
  BY PolyOrderbookAssumption DEF Prices
<1>3. /\ xbids \in Levels /\ xasks \in Levels /\ Uncrossed(xbids, xasks)
      /\ \A q \in Prices : q \in Nat
  BY DEF FeedInv, Prices
<1> HIDE DEF taken
<1>4. ASSUME NEW place \in Levelled
      PROVE  /\ place \in Places /\ place # TickPlace
             /\ place = <<place[1], place[2]>> /\ place[2] \in Prices
             /\ place[1] = "BUY" \/ (place[1] = "SELL" /\ place[1] # "BUY")
             /\ Theirs(place) = IF place[1] = "BUY" THEN xbids[place[2]]
                                                    ELSE xasks[place[2]]
             /\ Theirs(place)' = IF place[1] = "BUY" THEN xbids'[place[2]]
                                                     ELSE xasks'[place[2]]
  BY DEF Levelled, Places, TickPlace, Theirs, Value
<1>5. ASSUME NEW place \in Places
      PROVE  Theirs(place)' = IF place[1] = "SELL" /\ place[2] \in taken THEN 0
                              ELSE IF place = <<"BUY", p>> /\ s # 0 THEN s
                              ELSE Theirs(place)
  <2>1. CASE place = TickPlace
    BY <1>1, <2>1 DEF Theirs, Value, TickPlace
  <2>2. CASE place \in Levelled /\ place[1] = "BUY"
    <3>1. place = <<"BUY", p>> <=> place[2] = p
      BY <1>4, <2>2
    <3> QED
      BY <1>1, <1>3, <1>4, <2>2, <3>1 DEF Levels
  <2>3. CASE place \in Levelled /\ place[1] = "SELL"
    <3>1. place # <<"BUY", p>>
      BY <2>3
    <3> QED
      BY <1>1, <1>4, <2>3, <3>1
  <2> QED
    BY <1>4, <2>1, <2>2, <2>3 DEF Places
<1>6. ASSUME NEW t \in taken, NEW place \in Levelled,
             Crosses(Change("SELL", t, 0), place)
      PROVE  Theirs(place) = 0
  <2>1. place[1] = "BUY" /\ place[2] >= t
    BY <1>6 DEF Crosses, Change
  <2>2. t \in Prices /\ xasks[t] # 0 /\ place[2] \in Prices
    BY <1>2, <1>4
  <2>3. ~(place[2] < t)
    BY <1>3, <2>1, <2>2
  <2> QED
    BY <1>3, <1>4, <2>1, <2>2, <2>3 DEF Uncrossed
<1>7. ASSUME NEW place \in Levelled, Crosses(Change("BUY", p, s), place)
      PROVE  place[1] = "SELL" /\ (place[2] \in taken \/ Theirs(place) = 0)
  <2>1. place[1] = "SELL" /\ place[2] <= p
    BY <1>7 DEF Crosses, Change
  <2> QED
    BY <1>2, <1>4, <2>1
<1>8. Matches("BUY", "SELL", p, s, taken)
  BY <1>5, <1>6, <1>7 DEF Matches
<1> QED
  BY <1>1, <1>2, <1>8, MirrorOrder

LEMMA MirrorSell ==
  ASSUME FeedInv, MirrorInv, NEW p \in Prices, NEW s \in 0..MaxSize, ExchSell(p, s)
  PROVE  MirrorInv'
<1> DEFINE taken == {q \in p..MaxPrice : xbids[q] # 0}
<1>1. /\ xbids' = [q \in Prices |-> IF q \in taken THEN 0 ELSE xbids[q]]
      /\ xasks' = IF s = 0 THEN xasks ELSE [xasks EXCEPT ![p] = s]
      /\ AnnounceOrder("SELL", p, s, taken)
      /\ xtick' = xtick /\ tick_told' = tick_told
  BY DEF ExchSell
<1>2. /\ taken \in SUBSET Prices
      /\ \A q \in Prices : q \in taken <=> q >= p /\ xbids[q] # 0
  BY PolyOrderbookAssumption DEF Prices
<1>3. /\ xbids \in Levels /\ xasks \in Levels /\ Uncrossed(xbids, xasks)
      /\ \A q \in Prices : q \in Nat
  BY DEF FeedInv, Prices
<1> HIDE DEF taken
<1>4. ASSUME NEW place \in Levelled
      PROVE  /\ place \in Places /\ place # TickPlace
             /\ place = <<place[1], place[2]>> /\ place[2] \in Prices
             /\ place[1] = "BUY" \/ (place[1] = "SELL" /\ place[1] # "BUY")
             /\ Theirs(place) = IF place[1] = "BUY" THEN xbids[place[2]]
                                                    ELSE xasks[place[2]]
             /\ Theirs(place)' = IF place[1] = "BUY" THEN xbids'[place[2]]
                                                     ELSE xasks'[place[2]]
  BY DEF Levelled, Places, TickPlace, Theirs, Value
<1>5. ASSUME NEW place \in Places
      PROVE  Theirs(place)' = IF place[1] = "BUY" /\ place[2] \in taken THEN 0
                              ELSE IF place = <<"SELL", p>> /\ s # 0 THEN s
                              ELSE Theirs(place)
  <2>1. CASE place = TickPlace
    BY <1>1, <2>1 DEF Theirs, Value, TickPlace
  <2>2. CASE place \in Levelled /\ place[1] = "SELL"
    <3>1. place = <<"SELL", p>> <=> place[2] = p
      BY <1>4, <2>2
    <3> QED
      BY <1>1, <1>3, <1>4, <2>2, <3>1 DEF Levels
  <2>3. CASE place \in Levelled /\ place[1] = "BUY"
    <3>1. place # <<"SELL", p>>
      BY <2>3
    <3> QED
      BY <1>1, <1>4, <2>3, <3>1
  <2> QED
    BY <1>4, <2>1, <2>2, <2>3 DEF Places
<1>6. ASSUME NEW t \in taken, NEW place \in Levelled,
             Crosses(Change("BUY", t, 0), place)
      PROVE  Theirs(place) = 0
  <2>1. place[1] = "SELL" /\ place[2] <= t
    BY <1>6 DEF Crosses, Change
  <2>2. t \in Prices /\ xbids[t] # 0 /\ place[2] \in Prices
    BY <1>2, <1>4
  <2>3. ~(t < place[2])
    BY <1>3, <2>1, <2>2
  <2> QED
    BY <1>3, <1>4, <2>1, <2>2, <2>3 DEF Uncrossed
<1>7. ASSUME NEW place \in Levelled, Crosses(Change("SELL", p, s), place)
      PROVE  place[1] = "BUY" /\ (place[2] \in taken \/ Theirs(place) = 0)
  <2>1. place[1] = "BUY" /\ place[2] >= p
    BY <1>7 DEF Crosses, Change
  <2> QED
    BY <1>2, <1>4, <2>1
<1>8. Matches("SELL", "BUY", p, s, taken)
  BY <1>5, <1>6, <1>7 DEF Matches
<1> QED
  BY <1>1, <1>2, <1>8, MirrorOrder

LEMMA MirrorStep ==
  ASSUME BookInv, FeedInv, MirrorInv, [FeedNext]_feed_vars
  PROVE  MirrorInv'
<1>1. CASE UNCHANGED feed_vars
  BY <1>1 DEF feed_vars, book_vars, exchange_vars, xlevels, history_vars, MirrorInv,
     TheLastIsRight, TheRestIsThere, NothingToCross, Local, Theirs, Value
<1>2. CASE ReadBest
  <2>1. /\ UNCHANGED <<present, bids, asks, tick_size>>
        /\ UNCHANGED <<xbids, xasks, xtick, feed, connected, synced, ordered, tick_told>>
    BY <1>2, ReadBestPrice
       DEF ReadBest, best_bid, best_ask,
       rebuild_bid_heap_if_dirty, rebuild_ask_heap_if_dirty, exchange_vars, xlevels, history_vars
  <2> QED
    BY <2>1 DEF MirrorInv, TheLastIsRight, TheRestIsThere, NothingToCross, Local,
       Theirs, Value
<1>3. CASE Disconnect
  BY <1>3 DEF Disconnect, MirrorInv
<1>4. CASE \E side \in {"BUY", "SELL"}, p \in Prices, s \in 0..MaxSize :
             ExchQuote(side, p, s)
  BY <1>4, MirrorQuote
<1>5. CASE \E p \in Prices, s \in 0..MaxSize : ExchBuy(p, s) \/ ExchSell(p, s)
  BY <1>5, MirrorBuy, MirrorSell
<1> QED
  BY <1>1, <1>2, <1>3, <1>4, <1>5, MirrorHandle, MirrorTick, MirrorBook,
     MirrorConnect DEF FeedNext

LEMMA MirrorInvariance == FeedSpec => [](BookInv /\ FeedInv /\ MirrorInv)
<1>1. FeedInit => BookInv /\ FeedInv /\ MirrorInv
  BY FeedInitial DEF FeedInit, MirrorInv
<1>2. (BookInv /\ FeedInv /\ MirrorInv) /\ [FeedNext]_feed_vars
        => (BookInv /\ FeedInv /\ MirrorInv)'
  BY StepAll, MirrorStep
<1> QED
  BY <1>1, <1>2, PTL DEF FeedSpec

\* With nothing on its way, no place is waiting for a message.
LEMMA Drained ==
  ASSUME MirrorInv, UpToDate, NEW place \in Places
  PROVE  /\ (IF place = TickPlace THEN tick_told ELSE ordered) =>
              Local(place) = Theirs(place)
         /\ place \in Levelled => Local(place) \in {0, Theirs(place)}
<1>1. Untouched(feed, Len(feed) + 1, place)
  BY DEF UpToDate, Untouched
<1> QED
  BY <1>1 DEF MirrorInv, UpToDate, TheRestIsThere

LEMMA LevelPlaces ==
  ASSUME NEW p \in Prices
  PROVE  /\ {<<"BUY", p>>, <<"SELL", p>>} \subseteq Levelled
         /\ {<<"BUY", p>>, <<"SELL", p>>} \subseteq Places
         /\ Local(<<"BUY", p>>) = bids[p] /\ Theirs(<<"BUY", p>>) = xbids[p]
         /\ Local(<<"SELL", p>>) = asks[p] /\ Theirs(<<"SELL", p>>) = xasks[p]
         /\ TickPlace \notin {<<"BUY", p>>, <<"SELL", p>>}
BY DEF Levelled, Places, Local, Theirs, Value, TickPlace

\* Once the queue is drained no strategy sees a level that is not on the
\* exchange with that size, whatever was missed and in whatever order the
\* changes of a matching order came.
THEOREM OnlyRealLevels == FeedSpec => []NoPhantomLevels
<1>1. MirrorInv => NoPhantomLevels
  BY Drained, LevelPlaces DEF NoPhantomLevels
<1> QED
  BY <1>1, MirrorInvariance, PTL

\* If the exchange announced what an order took before its rest, the local
\* book is then the exchange's: crossing never took off a level it still has.
THEOREM MirrorsExchange == FeedSpec => []Mirror
<1>1. BookInv /\ FeedInv /\ MirrorInv => Mirror
  <2> SUFFICES ASSUME BookInv, FeedInv, MirrorInv, UpToDate, ordered
               PROVE  bids = xbids /\ asks = xasks
    BY DEF Mirror
  <2>1. \A p \in Prices : bids[p] = xbids[p] /\ asks[p] = xasks[p]
    BY Drained, LevelPlaces
  <2>2. bids \in Levels /\ asks \in Levels /\ xbids \in Levels /\ xasks \in Levels
    BY DEF BookInv, TypeOK, FeedInv
  <2> QED
    BY <2>1, <2>2 DEF Levels
<1> QED
  BY <1>1, MirrorInvariance, PTL

\* The local tick size is then the exchange's, unless a full book was sent
\* after the tick size had changed.
THEOREM MirrorsTick == FeedSpec => []TickMirror
<1>1. MirrorInv => TickMirror
  BY Drained DEF TickMirror, Places, Local, Theirs, Value
<1> QED
  BY <1>1, MirrorInvariance, PTL
=============================================================================
