------------------------------ MODULE NegRisk ------------------------------
(***************************************************************************)
(* NegRiskNoMakerStrategy on one asset of an event, with at most one bid.  *)
(* When the asset's book changes the strategy decides, from the books of   *)
(* all assets of the event, what a bid may cost: it counts on n assets     *)
(* that are offered to pay n - 1 in the end, so that whoever's bid is      *)
(* filled can buy the other shares at the asks.  Exactly one market of an  *)
(* event is won, so n NO shares do pay as much; but the assets of an event *)
(* are both tokens of its markets, and the code does not ask which it has. *)
(* An ask is feasible if enough volume is offered up to its price, not too *)
(* far from the best.                                                      *)
(*                                                                         *)
(* A token that nobody ever offers has no part in any decision; Others may *)
(* leave it out.                                                           *)
(*                                                                         *)
(* A change of another asset's book does not make the strategy look at     *)
(* this asset's bid again, nor does a full book or a change of tick size.  *)
(* All books are taken to have arrived; until they have, the code acts as  *)
(* if those missing offered nothing.                                       *)
(* What becomes of the bid at the exchange is module OpenOrders; here it   *)
(* is confirmed, cancelled or filled at any time.                          *)
(*                                                                         *)
(* Prices are in the finest tick, so the tick sizes "0.001" and "0.01" are *)
(* 1 and Cent.  Sizes are whole lots; size 0 is an absent level.           *)
(***************************************************************************)
EXTENDS Integers, SequencesExt

CONSTANTS
  asset, Others,      \* the asset, and the other assets of the event
  Markets, MarketOf,  \* the event's markets, and that of each asset
  NoShares,           \* the assets that pay if their market is not won; the
                      \*   others, YES shares, pay if it is
  Share,              \* what a share of the winning side pays (1000)
  Cent,               \* the coarse tick (10), the market's own
  MaxSize,            \* sizes are 0 .. MaxSize
  AskPrices,          \* bounds the prices at which each asset is offered
  ALPHA, MARKET_LIMIT, MAX_VOLUME, MIN_AUTO_BUY_VOLUME,
  SizeTolerance,      \* a bid may exceed the justified size by so much
  IGNORING_VOLUME, SEARCH_DEPTH  \* of poly_orderbook.rs

Assets == Others \cup {asset}
Prices == 1..(Share - 1)
Held(book) == {p \in Prices : book[p] # 0}
\* The asks of one asset.
Levels == {book \in [Prices -> 0..MaxSize] :
             \E a \in Assets : Held(book) \subseteq AskPrices[a]}

ASSUME NegRiskAssumption ==
  /\ asset \notin Others
  /\ IsFiniteSet(Others)
  /\ MarketOf \in [Assets -> Markets]
  /\ NoShares \subseteq Assets
  /\ \A a, b \in NoShares : MarketOf[a] = MarketOf[b] => a = b
  /\ Share \in Nat /\ Cent \in 1..Share /\ Share % Cent = 0
  /\ AskPrices \in [Assets -> SUBSET Prices]
  /\ {MaxSize, ALPHA, MARKET_LIMIT, MAX_VOLUME, MIN_AUTO_BUY_VOLUME,
      SizeTolerance, IGNORING_VOLUME, SEARCH_DEPTH} \subseteq Nat

VARIABLES
  lowest_volume,  \* should_apply_lowest_volume(slug); never changes
  event_assets,   \* event_asset_cache: the others, in an order that stays
  asks,           \* the asks in the local book of each asset
  best_bid,       \* the best bid in the local book of the asset, or 0
  tick_size,      \* the tick size in that book,
  grid,           \*   and the one the exchange uses
  own,            \* the bid in open_orders
  kept            \* history: the last decision, made with the asks and tick
                  \*   size that are still there, placed the bid or kept it

event_vars == <<lowest_volume, event_assets>>
vars == <<event_vars, grid, asks, best_bid, tick_size, own, kept>>

NoLevel == [price |-> Share, size |-> 0]
NoBid == [status |-> "none", price |-> 0, size |-> 0]

Init ==
  /\ lowest_volume \in BOOLEAN
  /\ event_assets \in SetToSeqs(Others)
  /\ asks = [a \in Assets |-> [p \in Prices |-> 0]]
  /\ best_bid = 0
  /\ tick_size = Cent
  /\ grid = Cent
  /\ own = NoBid
  /\ kept = FALSE

-----------------------------------------------------------------------------
(* What the strategy reads                                                 *)

LevelAt(book, prices) ==
  IF prices = {} THEN NoLevel
  ELSE [price |-> Min(prices), size |-> book[Min(prices)]]

best_ask == [book \in Levels |-> LevelAt(book, Held(book))]

\* The level with which the volume offered reaches IGNORING_VOLUME.
best_feasible_ask ==
  [book \in Levels |->
     LET offered(p) == SumFunctionOnSet(book, {q \in Held(book) : q <= p})
         ask == LevelAt(book, {p \in Held(book) : offered(p) >= IGNORING_VOLUME})
     IN IF ask.price <= best_ask[book].price + SEARCH_DEPTH THEN ask ELSE NoLevel]

\* The volume of a best ask is taken off every best ask: that of the first
\* asset that has one, not the lowest.
apply_lowest_volume(books) ==
  LET offered == {i \in DOMAIN event_assets : Held(books[event_assets[i]]) # {}}
  IN [a \in Assets |->
        LET top == best_ask[books[a]]
            ask == best_feasible_ask[books[a]]
            lowest == best_ask[books[event_assets[Min(offered)]]].size
        IN IF a = asset \/ offered = {} \/ ask.price # top.price THEN ask
           ELSE IF top.size <= lowest THEN NoLevel
           ELSE [ask EXCEPT !.size = top.size - lowest]]

\* The feasible asks the decision is made from.
relevant_books(books) ==
  IF lowest_volume THEN apply_lowest_volume(books)
  ELSE [a \in Assets |-> best_feasible_ask[books[a]]]

-----------------------------------------------------------------------------
(* The decision                                                            *)

Priced(asks_of) == {a \in Assets : asks_of[a].price < Share}

\* Slip: what the other shares offer is not looked at.
auto_buy_volume_MaxOnly(books, relevant) ==
  LET k1 == Cardinality({a \in Assets :
                best_feasible_ask[books[a]].price < Share}) - 1
  IN MAX_VOLUME \div k1

\* No more than the scarcest of the other shares.
auto_buy_volume(books, relevant) ==
  LET k1 == Cardinality({a \in Assets :
                best_feasible_ask[books[a]].price < Share}) - 1
  IN Min({relevant[a].size : a \in Priced(relevant) \ {asset}}
           \cup {MAX_VOLUME \div k1})

\* What remains of the payout when the other shares are bought.
auto_buy_at_ask_threshold(relevant) ==
  (Cardinality(Priced(relevant)) - 1) * Share
    - SumFunctionOnSet([a \in Assets |-> relevant[a].price], Priced(relevant) \ {asset})

\* Slip: the best bid is outbid by a cent whatever the tick size.
price_to_buy_ByACent(relevant, bid, tick) ==
  LET offset == IF bid = own.price THEN 0 ELSE Cent
      price  == Min({auto_buy_at_ask_threshold(relevant) - ALPHA,
                     bid + offset, Share - tick, relevant[asset].price - tick})
  IN (price \div tick) * tick

\* A tick over the best bid unless that is the strategy's own, as far as it
\* pays, under the feasible ask and rounded down to the tick size.
price_to_buy(relevant, bid, tick) ==
  LET offset == IF bid = own.price THEN 0 ELSE tick
      price  == Min({auto_buy_at_ask_threshold(relevant) - ALPHA,
                     bid + offset, Share - tick, relevant[asset].price - tick})
  IN (price \div tick) * tick

Signal(type, price, size) == [type |-> type, price |-> price, size |-> size]

determine_signal(books, relevant, bid, tick) ==
  LET k1_no_empty == Cardinality(Priced(relevant)) - 1
      threshold == auto_buy_at_ask_threshold(relevant)
      price == price_to_buy(relevant, bid, tick)
      size == auto_buy_volume(books, relevant)
  IN CASE k1_no_empty <= 0 -> Signal("CancelBids", 0, 0)
       [] k1_no_empty > MARKET_LIMIT -> Signal("NoAction", 0, 0)
       [] OTHER ->
            IF /\ asset \in Priced(relevant)
               /\ size > 0
               /\ threshold - ALPHA >= 1 /\ threshold < Share
               /\ tick \in {1, Cent}
               /\ price >= tick
            THEN Signal("Place", price, size)
            ELSE Signal("CancelBids", 0, 0)

\* Slip: cancels whatever there is, even if there is nothing.
cancel_bid_orders_Unchecked ==
  /\ own' = [own EXCEPT !.status = "cancelling"]
  /\ kept' = FALSE

\* A bid without an id cannot be cancelled yet: cancel_limit_order fails.
cancel_bid_orders ==
  /\ own' = IF own.status \in {"none", "unconfirmed"} THEN own
            ELSE [own EXCEPT !.status = "cancelling"]
  /\ kept' = FALSE

\* Slips: any other price than the one computed now is cancelled; the price
\* of the bid is not compared.
cancel_conditions_AnyOther(signal) ==
  own.price # signal.price \/ own.size > signal.size + SizeTolerance
cancel_conditions_SizeOnly(signal) ==
  own.size > signal.size + SizeTolerance

cancel_conditions(signal) ==
  own.price > signal.price \/ own.size > signal.size + SizeTolerance

\* The placement may be refused, by either rate limit or for its amounts.
process_place_signal(signal) ==
  \/ /\ own = NoBid
     /\ \/ /\ own' = [status |-> "unconfirmed",
                      price |-> signal.price, size |-> signal.size]
           /\ kept' = TRUE
        \/ own' = own /\ kept' = FALSE
  \/ own # NoBid /\ cancel_conditions(signal) /\ cancel_bid_orders
  \/ own # NoBid /\ ~cancel_conditions(signal) /\ own' = own /\ kept' = TRUE

\* The strategy runs on the books as they are after the change.
handle_price_change ==
  \E books \in {asks'} : \E relevant \in {relevant_books(books)} :
  \E signal \in {determine_signal(books, relevant, best_bid', tick_size)} :
      \/ signal.type = "NoAction" /\ own' = own /\ kept' = FALSE
      \/ signal.type = "CancelBids" /\ cancel_bid_orders
      \/ /\ signal.type = "Place"
         /\ IF signal.size < MIN_AUTO_BUY_VOLUME
            THEN cancel_bid_orders
            ELSE process_place_signal(signal)

-----------------------------------------------------------------------------
(* The messages of the market channel, applied by UpdateOrderbookStrategy  *)

\* A changed ask takes the bids it crosses off the book.
change_ask(p, s) ==
  /\ asks' = [asks EXCEPT ![asset][p] = s]
  /\ best_bid' \in IF best_bid < p THEN {best_bid} ELSE 0..(p - 1)

\* A changed bid takes asks off; the best bid may be new, the old or gone.
change_bid(p) ==
  /\ asks' = [asks EXCEPT ![asset] = [q \in Prices |-> IF q <= p THEN 0 ELSE @[q]]]
  /\ best_bid' \in {p, best_bid} \cup (IF p = best_bid THEN 0..p ELSE {})
  /\ best_bid' >= best_bid \/ p = best_bid

apply_price_change(p) ==
  /\ p % grid = 0
  /\ \/ change_bid(p)
     \/ p \in AskPrices[asset] /\ \E s \in 0..MaxSize : change_ask(p, s)
  /\ best_bid' % grid = 0

\* UpdateOrderbookStrategy comes first, then this strategy.
price_change(p) ==
  /\ apply_price_change(p)
  /\ handle_price_change
  /\ UNCHANGED <<event_vars, grid, tick_size>>

\* A full book has the market's tick size, from when the program started.
\* (One that differs in several levels is several of these.)
agg_orderbook(p) ==
  /\ apply_price_change(p)
  /\ tick_size' = Cent
  /\ kept' = FALSE
  /\ UNCHANGED <<event_vars, grid, own>>

tick_size_change ==
  /\ grid = Cent
  /\ grid' = 1
  /\ tick_size' = 1
  /\ kept' = FALSE
  /\ UNCHANGED <<event_vars, asks, best_bid, own>>

other_price_change(a, p, s) ==
  /\ asks' = [asks EXCEPT ![a][p] = s]
  /\ kept' = FALSE
  /\ UNCHANGED <<event_vars, grid, best_bid, tick_size, own>>

-----------------------------------------------------------------------------
(* The bid                                                                 *)

Confirmed ==
  /\ own.status = "unconfirmed"
  /\ own' = [own EXCEPT !.status = "live"]
  /\ UNCHANGED <<event_vars, grid, asks, best_bid, tick_size, kept>>

NotCancelled ==
  /\ own.status = "cancelling"
  /\ own' = [own EXCEPT !.status = "live"]
  /\ UNCHANGED <<event_vars, grid, asks, best_bid, tick_size, kept>>

Ended ==
  /\ own # NoBid
  /\ own' = NoBid
  /\ kept' = FALSE
  /\ UNCHANGED <<event_vars, grid, asks, best_bid, tick_size>>

Next ==
  \/ \E p \in Prices : price_change(p) \/ agg_orderbook(p)
  \/ tick_size_change
  \/ \E a \in Others : \E p \in AskPrices[a], s \in 0..MaxSize :
       other_price_change(a, p, s)
  \/ Confirmed \/ NotCancelled \/ Ended

Spec == Init /\ [][Next]_vars

-----------------------------------------------------------------------------
(* Properties                                                              *)

TypeOK ==
  /\ lowest_volume \in BOOLEAN
  /\ event_assets \in SetToSeqs(Others)
  /\ asks \in [Assets -> Levels]
  /\ \A a \in Assets : Held(asks[a]) \subseteq AskPrices[a]
  /\ best_bid \in 0..(Share - 1)
  /\ tick_size \in {1, Cent} /\ grid \in {1, Cent}
  /\ \/ own = NoBid
     \/ own \in [status : {"unconfirmed", "live", "cancelling"},
                 price : Prices, size : 1..MaxSize]
  /\ kept \in BOOLEAN
  /\ \A p \in Held(asks[asset]) : best_bid < p

\* What n shares can cost, bought from the asks of a book.
Costs(book, n) ==
  LET fills == {f \in [Held(book) -> 0..n] :
                  /\ \A p \in Held(book) : f[p] <= book[p]
                  /\ SumFunction(f) = n}
  IN {SumFunction([p \in Held(book) |-> p * f[p]]) : f \in fills}

\* What one share of each of the assets pays whichever market is won.
Payout(shares) ==
  Share * Min({Cardinality({a \in shares : (MarketOf[a] = won) # (a \in NoShares)}) :
                 won \in Markets})

\* The YES shares among the assets a decision on these books counts.
YesCounted(books) == Cardinality(Priced(relevant_books(books)) \ NoShares)

\* If n shares of a bid at the given price are filled, there are others that
\* can be bought as often from the asks, at what is at least ALPHA a share less
\* than all of them are sure to pay, on top of the bid; but for what one share
\* pays for each YES share that was counted.
Hedged(books, price, n) ==
  \E others \in (SUBSET Others) \ {{}} :
    /\ \A a \in others : Costs(books[a], n) # {}
    /\ n * price + SumFunction([a \in others |-> Min(Costs(books[a], n))])
         <= n * (Payout(others \cup {asset}) + YesCounted(books) * Share - ALPHA)

\* Every bid that is placed is hedged by the books it is placed on, level by
\* level: in full if only NO shares are offered, and with one payout too little
\* for each YES share at most.  The strategy looks at one ask of each book only,
\* not at the levels in front of it, leaves some assets out altogether and does
\* not know what the shares pay.
PlacedIsHedged ==
  [][(own = NoBid /\ own' # NoBid) => Hedged(asks', own'.price, own'.size)]_vars

\* The bid the last decision kept is hedged in the same way by the books of
\* that decision, whenever it was placed, for all of its size but the
\* tolerance.
KeptIsHedged ==
  kept => \A n \in 1..own.size :
            n + SizeTolerance <= own.size => Hedged(asks, own.price, n)

\* A bid that is in the book does not bring about its own cancellation, nor
\* does any other bid: as long as no ask and no tick size has changed since the
\* last decision, the next one does not cancel it.  (With a tick size that is
\* not the exchange's it does: the price is rounded to below the bid.)
NoChurn ==
  [][(/\ kept /\ own.status = "live"
      /\ asks' = asks /\ tick_size' = tick_size /\ tick_size = grid
      /\ best_bid' >= own.price)
       => own'.status # "cancelling"]_vars

\* No bid is placed above the best ask, although the ask that is looked at may
\* be a worse one, unless a full book has reset the tick size to an outdated
\* one.  (A bid at the best ask, which is filled at once, can be placed: the
\* tick that is left free is under the feasible ask, not under the best.)
NeverAboveBestAsk ==
  [][(/\ own = NoBid /\ own' # NoBid
      /\ tick_size = grid)
       => own'.price <= best_ask[asks'[asset]].price]_vars
=============================================================================
