--------------------------- MODULE PolyOrderbook ---------------------------
(***************************************************************************)
(* The local copy of one asset's order book: the entry of                  *)
(* poly_state.orderbooks that UpdateOrderbookStrategy writes and the other *)
(* strategies read.  The two maps price -> size are authoritative; the two *)
(* heaps the best prices are read from are derived and rebuilt lazily,     *)
(* under a dirty flag each.  Applying a change to one side also takes off  *)
(* the other side every level it crosses, from the heap and from the map.  *)
(*                                                                         *)
(* Prices are whole ticks and sizes whole lots; size 0 is an absent level. *)
(* A heap is the set of the levels in it: a map has one size per price.    *)
(* All of this runs on the event processor's task, one message at a time.  *)
(***************************************************************************)
EXTENDS Naturals

CONSTANTS
  MaxPrice,   \* prices are 1 .. MaxPrice
  MaxSize,    \* sizes are 0 .. MaxSize
  TickSizes,  \* the tick sizes a market can have
  MarketTick  \* orderPriceMinTickSize of the market, fetched at start

ASSUME PolyOrderbookAssumption ==
  /\ MaxPrice \in Nat
  /\ MaxSize \in Nat
  /\ MarketTick \in TickSizes

VARIABLES
  present,     \* whether orderbooks has an entry for the asset
  bids, asks,  \* the maps
  bid_heap, ask_heap,
  bids_dirty, asks_dirty,
  tick_size,
  prev         \* prev_orderbooks: at most one snapshot

book_vars == <<present, bids, asks, bid_heap, ask_heap, bids_dirty,
               asks_dirty, tick_size, prev>>

Prices == 1..MaxPrice
Levels == [Prices -> 0..MaxSize]
Empty  == [p \in Prices |-> 0]

\* The levels of a map, as convert_to_bid_heap and ..._ask_heap collect them.
convert_to_heap(map) ==
  {level \in Prices \X (1..MaxSize) : map[level[1]] = level[2]}

snapshot == [bids |-> bids, asks |-> asks, tick_size |-> tick_size]

Uncrossed(b, a) ==
  \A p, q \in Prices : (b[p] # 0 /\ a[q] # 0) => p < q

Init ==
  /\ present = FALSE
  /\ bids = Empty
  /\ asks = Empty
  /\ bid_heap = {}
  /\ ask_heap = {}
  /\ bids_dirty = FALSE
  /\ asks_dirty = FALSE
  /\ tick_size = MarketTick
  /\ prev = {}

-----------------------------------------------------------------------------
(* Messages of the market channel                                          *)

\* Slip: the levels of a full book are added to those already held.
agg_orderbook_Adds(b, a) ==
  /\ present' = TRUE
  /\ bids' = [p \in Prices |-> bids[p] + b[p]]
  /\ asks' = [p \in Prices |-> asks[p] + a[p]]
  /\ bids_dirty' = TRUE
  /\ asks_dirty' = TRUE
  /\ tick_size' = MarketTick
  /\ prev' = IF present THEN {snapshot} ELSE {}
  /\ UNCHANGED <<bid_heap, ask_heap>>

\* A full book replaces the entry, with the market's original tick size.
agg_orderbook(b, a) ==
  /\ present' = TRUE
  /\ bids' = b
  /\ asks' = a
  /\ bid_heap' = convert_to_heap(b)
  /\ ask_heap' = convert_to_heap(a)
  /\ bids_dirty' = FALSE
  /\ asks_dirty' = FALSE
  /\ tick_size' = MarketTick
  /\ prev' = IF present THEN {snapshot} ELSE {}

\* handle_book_legacy drops a book that has no level on either side.
handle_book(b, a) ==
  IF b = Empty /\ a = Empty THEN UNCHANGED book_vars ELSE agg_orderbook(b, a)

\* A map without the levels taken off its heap.
Without(map, popped) ==
  [p \in Prices |-> IF \E level \in popped : level[1] = p THEN 0 ELSE map[p]]

\* Slips: the changed side is not marked dirty; the opposite heap is not
\* rebuilt before it is popped; a level at the very price is not crossed.
change_bid_NotDirty(p, s) ==
  LET heap   == IF asks_dirty THEN convert_to_heap(asks) ELSE ask_heap
      popped == {level \in heap : level[1] <= p}
  IN /\ bids' = [bids EXCEPT ![p] = s]
     /\ ask_heap' = heap \ popped
     /\ asks_dirty' = FALSE
     /\ asks' = Without(asks, popped)
     /\ UNCHANGED <<bid_heap, bids_dirty>>
change_bid_StaleHeap(p, s) ==
  LET popped == {level \in ask_heap : level[1] <= p}
  IN /\ bids' = [bids EXCEPT ![p] = s]
     /\ bids_dirty' = TRUE
     /\ ask_heap' = ask_heap \ popped
     /\ asks' = Without(asks, popped)
     /\ UNCHANGED <<bid_heap, asks_dirty>>
change_bid_NotAtPrice(p, s) ==
  LET heap   == IF asks_dirty THEN convert_to_heap(asks) ELSE ask_heap
      popped == {level \in heap : level[1] < p}
  IN /\ bids' = [bids EXCEPT ![p] = s]
     /\ bids_dirty' = TRUE
     /\ ask_heap' = heap \ popped
     /\ asks_dirty' = FALSE
     /\ asks' = Without(asks, popped)
     /\ UNCHANGED bid_heap

change_bid(p, s) ==
  LET heap   == IF asks_dirty THEN convert_to_heap(asks) ELSE ask_heap
      popped == {level \in heap : level[1] <= p}
  IN /\ bids' = [bids EXCEPT ![p] = s]
     /\ bids_dirty' = TRUE
     /\ ask_heap' = heap \ popped
     /\ asks_dirty' = FALSE
     /\ asks' = Without(asks, popped)
     /\ UNCHANGED bid_heap

\* Slip: a bid one tick below the changed ask is crossed too.
change_ask_OneTickMore(p, s) ==
  LET heap   == IF bids_dirty THEN convert_to_heap(bids) ELSE bid_heap
      popped == {level \in heap : level[1] + 1 >= p}
  IN /\ asks' = [asks EXCEPT ![p] = s]
     /\ asks_dirty' = TRUE
     /\ bid_heap' = heap \ popped
     /\ bids_dirty' = FALSE
     /\ bids' = Without(bids, popped)
     /\ UNCHANGED ask_heap

change_ask(p, s) ==
  LET heap   == IF bids_dirty THEN convert_to_heap(bids) ELSE bid_heap
      popped == {level \in heap : level[1] >= p}
  IN /\ asks' = [asks EXCEPT ![p] = s]
     /\ asks_dirty' = TRUE
     /\ bid_heap' = heap \ popped
     /\ bids_dirty' = FALSE
     /\ bids' = Without(bids, popped)
     /\ UNCHANGED ask_heap

\* A change for an asset without a book is ignored.
price_change(side, p, s) ==
  IF present
  THEN /\ prev' = {snapshot}
       /\ IF side = "BUY" THEN change_bid(p, s) ELSE change_ask(p, s)
       /\ UNCHANGED <<present, tick_size>>
  ELSE UNCHANGED book_vars

\* Slip: the message's old tick size is taken for the new one.
tick_size_change_Old(t) ==
  IF present
  THEN /\ prev' = {snapshot}
       /\ tick_size' = MarketTick
       /\ UNCHANGED <<present, bids, asks, bid_heap, ask_heap, bids_dirty,
                      asks_dirty>>
  ELSE UNCHANGED book_vars

tick_size_change(t) ==
  IF present
  THEN /\ prev' = {snapshot}
       /\ tick_size' = t
       /\ UNCHANGED <<present, bids, asks, bid_heap, ask_heap, bids_dirty,
                      asks_dirty>>
  ELSE UNCHANGED book_vars

-----------------------------------------------------------------------------
(* What the strategies read                                                *)

rebuild_bid_heap_if_dirty ==
  /\ bid_heap' = IF bids_dirty THEN convert_to_heap(bids) ELSE bid_heap
  /\ bids_dirty' = FALSE

rebuild_ask_heap_if_dirty ==
  /\ ask_heap' = IF asks_dirty THEN convert_to_heap(asks) ELSE ask_heap
  /\ asks_dirty' = FALSE

\* Reading the best level, and what is built on it, rebuilds a dirty heap.
best_bid ==
  /\ present
  /\ rebuild_bid_heap_if_dirty
  /\ UNCHANGED <<present, bids, asks, ask_heap, asks_dirty, tick_size, prev>>

best_ask ==
  /\ present
  /\ rebuild_ask_heap_if_dirty
  /\ UNCHANGED <<present, bids, asks, bid_heap, bids_dirty, tick_size, prev>>

\* The exchange's books are never crossed; its changes may be anything.
Next ==
  \/ \E b, a \in Levels : Uncrossed(b, a) /\ handle_book(b, a)
  \/ \E side \in {"BUY", "SELL"}, p \in Prices, s \in 0..MaxSize :
       price_change(side, p, s)
  \/ \E t \in TickSizes : tick_size_change(t)
  \/ best_bid
  \/ best_ask

Spec == Init /\ [][Next]_book_vars

-----------------------------------------------------------------------------
(* Properties                                                              *)

TypeOK ==
  /\ present \in BOOLEAN
  /\ bids \in Levels
  /\ asks \in Levels
  /\ bid_heap \subseteq Prices \X (1..MaxSize)
  /\ ask_heap \subseteq Prices \X (1..MaxSize)
  /\ bids_dirty \in BOOLEAN
  /\ asks_dirty \in BOOLEAN
  /\ tick_size \in TickSizes
  /\ prev \subseteq [bids : Levels, asks : Levels, tick_size : TickSizes]

\* A heap that is not dirty holds exactly the levels of its map, with their
\* current sizes: the best prices the strategies trade on are never those of
\* a level that is gone or has changed, although a change to one side pops
\* the other side's heap in place.
HeapsCoherent ==
  /\ ~bids_dirty => bid_heap = convert_to_heap(bids)
  /\ ~asks_dirty => ask_heap = convert_to_heap(asks)

\* Whatever changes arrive, in whatever order, no bid is at or above an ask:
\* get_spread (an unsigned ask - bid) never wraps.
NeverCrossed == Uncrossed(bids, asks)
=============================================================================
