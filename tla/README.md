# A specification of the Polymarket trading framework

TLA+ modules, TLC configurations and TLAPS proofs for the Rust program under
`src/` (a bot that quotes on Polymarket prediction markets). Paths below are
relative to the repository; `exchange_listeners/` and the like are under
`src/`.

    tlc -workers 2 -config OpenOrdersAny.cfg MCOpenOrders.tla
    tlapm OpenOrdersProofs.tla

## 1. The system

The program is one process. Listener tasks read websockets and push what they
read into one unbounded queue. One task receives the events and calls every
strategy, in a fixed order, on each of them. The strategies update shared maps
(`PolyMarketState`, `AppState`) and place or cancel orders. Placing and
cancelling spawn tasks that talk to the exchange over HTTP and write the same
maps when they get an answer.

| component | state | operations | what makes it hard |
|---|---|---|---|
| open orders (`poly_client.rs`, `update_orders.rs`, `poly_models.rs`) | `open_orders`: asset, side, (price, size) -> order object with id, state, filled size | place, post task, cancel, cancel task, PLACEMENT / UPDATE / CANCELLATION / taker trade | five writers in their own time, removal by key and not by id, timeouts, lost messages, process exit |
| event pipeline (`event_processor.rs`) | queue, atomic `pending` counter | `CountingSender::send`, receive, handle, decrement | counter and queue change in separate steps of separate threads; a panic ends the receiver |
| Polymarket books (`poly_orderbook.rs`, `update_orderbooks.rs`) | two maps, two lazily rebuilt heaps with dirty flags, tick size | full book, price change, tick change, best prices | the heaps are derived; crossing changes a heap and a map in place |
| Polymarket listeners (`poly_listeners.rs`) | connection | subscribe, forward, reconnect after 5 s | messages are lost, nothing tells the strategies |
| crypto feeds (`crypto_listeners.rs`, `crypto_orderbook.rs`, `update_crypto_orderbooks.rs`) | a book and a price per exchange, instrument and depth; cached VWAP state | L1 price, L2 snapshot, L2 update, clear | updates across reconnections, derived prices, panics on one-sided books |
| positions (`update_positions.rs`, `poly_models.rs`, `trade_logging.rs`) | `positions`: asset -> size; the file of trades | initial fetch, taker trade, maker trade | a gap before the subscription, repeated and failed trades, saturating arithmetic, two writers with sums of their own |
| rate limiter (`poly_models.rs`) | time of the last placement | refuse or record | asked twice; used up by calls that fail afterwards |
| order building (`clob_client/builder.rs`) | none | price and size to integer amounts | floating point: what is signed and announced is not always what was asked |
| HTTP client (`clob_client/`) | none | post, cancel, sign | answers missing, late or without the expected fields; cancel failure exits the process |
| Koen, NegRisk, Tob (`strategies/custom/`) | last trade per asset | decide on each book change; cancel, place, cancel later | act on state another task changes; cancel and place in one handler |
| market discovery, allowances, other logging, relay scripts | constant tables, files | run once or write only | the relay script converts shares behind the program's back |

Properties that make each correct:

- open orders: a cancellation names an order of the key it was asked for; no
  entry stays Unconfirmed or ToBeCanceled for ever; every live order is tracked
  and at most one is live per key; once nothing is on its way the table is the
  exchange's.
- pipeline: each listener's events are handled once and in order; the counter
  accounts for every event at every moment and returns to zero.
- books: clean heaps equal their maps; the book is never crossed; a change
  removes exactly what it crosses; after a drained queue the book is the
  exchange's.
- crypto feeds: the price is that of the current book; no book outlives its
  connection.
- NegRisk: a bid that is placed or kept costs less than what the other shares of
  the event leave, level by level, as far as the strategy knows what they pay; it
  is not cancelled because of itself; it is never above the best ask.
- Tob: one quote per asset; what its orders of a token have bought or still may
  stays below three times the target over what was bought of the other.
- order building: what is signed is never more than was asked and within half a
  tick of its price, and the entry recorded for an order goes when the order
  does, if the order was exact.
- positions: the size differs from the account's by exactly what could not be
  read at the start and what no message could tell; the file of trades agrees
  with it; what the program cannot know never makes it believe in more YES shares
  than there are.

Of the strategies, `main.rs` starts those that update orders, positions and
Polymarket books, three logs and Koen. It does not start NegRisk and Tob, and it
comments out `UpdateCryptoOrderbookStrategy` (line 117), the one that keeps crypto
books and prices: the crypto listeners run and their events are handled, but no
book or price is kept. What is said of these three is about code that is there and
not enabled.

## 2. The modules

| module | models | checked by | proofs |
|---|---|---|---|
| `OrderSlots` | abstract: one slot per key, Free / Unconfirmed / Live / ToBeCanceled | `SlotsSpec` of OpenOrders | `OpenOrdersProofs` |
| `OpenOrders` | table, order objects, post and cancel tasks, user channel, exchange | `MCOpenOrders`, `MCKoen`, `MCTob` | `OpenOrdersProofs` |
| `EventPipeline` | senders, queue, receiver, counter | `MCEventPipeline` | `EventPipelineProofs` |
| `PriceLevels` | abstract: two maps price -> size and a tick size | `PlainSpec` of MarketFeed | `MarketFeedProofs` |
| `PolyOrderbook` | maps, heaps, dirty flags, tick size | `MCMarketFeed` | `MarketFeedProofs` |
| `MarketFeed` | PolyOrderbook with the exchange's book, the channel and reconnection | `MCMarketFeed` | `MarketFeedProofs` |
| `OrderAssets` | OpenOrders with the asset of each key | `MCKoen`, `MCTob` | |
| `Koen` | OrderAssets with KoenStrategy and time | `MCKoen` | `StrategyProofs` |
| `Tob` | OrderAssets with TobStrategy, the rate limiter and its positions | `MCTob` | `StrategyProofs` |
| `OrderAmounts` | amounts and keys of an order, in floating point | itself | `OrderAmountsProofs` |
| `Vwap` | prices and VWAP state of a crypto book (no variables) | `CryptoFeed` | `CryptoFeedProofs` |
| `CryptoBook` | book, price and VWAP state of one instrument on one crypto exchange | `CryptoFeed` | `CryptoFeedProofs` |
| `CryptoFeed` | CryptoBook with the exchange's book, the listener and reconnection | itself | `CryptoFeedProofs` |
| `NegRisk` | NegRiskNoMakerStrategy on one asset, with the books it reads | `MCNegRisk` | `NegRiskProofs` |
| `Positions` | positions map, file of trades, account, user trades, the relay script's conversions | `MCPositions` | `PositionsProofs` |

Where two modules compose, the larger EXTENDS the smaller one and its actions
use the smaller one's: `MarketFeed` / `PolyOrderbook`, `CryptoFeed` /
`CryptoBook` / `Vwap`, `Koen` and `Tob` / `OrderAssets` / `OpenOrders`.
Definitions whose name has a suffix and whose comment says "Slip" are
deliberately wrong variants of the definition after them; `PROJECT.json` says
which property finds each.

### OpenOrders

One action per call, handler or step of a task:

- `place_limit_order`, `place_zero_amount`, `PostReturns`: recording, the
  refusal of an order whose amounts round to zero, and the spawned task that
  deals with the answer. Recording and spawning happen in one call without an
  await; the entry is visible to other threads before the POST is sent, which is
  why the exchange's part (`ExchAccept` ...) is a separate step.
- `CancelLookup`, then `CancelWithoutId` or `CancelSend`, then `CancelReturns`:
  `cancel_limit_order` clones the object out of the map, releases the map and
  locks the object afterwards. Other tasks run in between.
- `HandleUserEvent`: the user channel is handled one message at a time by the
  event processor. `TAKER_TRADE` is `poly_handle_user_trade`.
- `Exch...`: the exchange, from what the code has cases for. It answers each
  request once. Messages reach the queue in the order the exchange sends them.

An order object is an element of `Orders`, and stands for its exchange id as
well: the exchange makes at most one order of each. `KeyOf` is its (asset,
side, price, size). A partial fill is a step of 1 of `size_filled`.

An order may match as it is accepted. If all of it does, the exchange sends a
trade message and no PLACEMENT (`ExchTake`). If a part of it does, the rest stays:
PLACEMENT confirms it, and the trade message names the size traded, which is not
the order's, so that it finds no entry (`ExchAccept` with a part) - or that of
another key (`ExchTakePart`, fault `price`). PLACEMENT does not set `size_filled`
(`update_orders.rs:129`), so the table misses that part until a later fill is
reported with the total. `Reported` is what the table can know of an order's
fills; `QuiescentAgreement` is stated with it.

`Faults` selects which circumstances may occur: `network` (timeout, or an answer
without the fields the code looks for), `loss` (user messages), `price` (a taker
trade at another price or size). The strongest properties need them absent, and
the runs say so. Whether a key is used again early is up to the strategy: any
strategy in `OpenOrders`, KoenStrategy in `Koen`. `PatientSpec` is what the
proofs ask of a strategy: it places no order at a key where something about an
earlier one is still on its way (`Unsettled`). The code has no such test; Koen's
durations amount to it, and Tob has `reused` for it.

### Koen

`Koen` restricts who places and cancels, and adds time. A book change
(`koen_handle_market_price_change`) may be a signal (the conditions on the book
and the predicted price are a choice); the order is placed unless the asset
cools down, and a task is spawned that sleeps (`WakeUp`) and then looks for the
key twice, in `order_exists` and in `cancel_limit_order` (`CancelStale`). `Tick`
is the passing of time: it cannot happen while something is due. HTTP requests
end within `http_timeout`, a task wakes up in time, and a user message on its
way at one tick is handled before the next. `age` counts ticks since an order
was placed; `last_trade` names the order whose age the cooldown compares.

### EventPipeline

`Count`, `Push`, `Uncount` are the three steps of `CountingSender::send`;
`Receive`, `handle_event`, `Finish` those of the loop in
`spawn_event_processor`. `Panic` ends the task: the channel is closed, what it
held is dropped, later pushes fail. The main loop only reads the counter.

### Tob

The strategy's handler is `tob_handle_market_price_change` (plan an order,
collect the asset's keys), `cancel_orders` (one key after the other; the first
that fails ends the handler) and `execute_order_plan`. It runs on the
processor's thread: `TobUserEvent` and `HandleTrade`, the user messages, wait
until `plan` is empty again, while `TobElsewhere`, the tasks and the exchange,
does not.
`waiting` is the limiter: asked when the order is planned and when it is
placed, it is set before the order is recorded, so that an order refused for its
amounts uses the window up too; the window ends at any time (`wait_over`).

`TARGET_ORDER_SIZE` is a number of lots, and an order is filled by one or more
at a time, when it is accepted or while it rests (`Fill`). What is matched is
announced by an order message and a trade message, one right after the other in
either order: `trade_after` holds the trade messages, each with what was matched
of its order before the trade and with it, and how many of `user_events` come
before it. The two tokens of a market are `Assets`; `BelowTarget` compares their
positions, in lots.

`asked` records the orders a cancellation was sent for. They may fill all the
same until the exchange has it; `BelowThriceTarget` is about the others. Why
three times the target and not two: a position of all but a lot of the target
lets a whole order be placed, and when that fills, a book change between its
order message, which takes it out of the table, and its trade message, which adds
it to the position, lets another be placed.

`reused` records that an order was placed at a key whose earlier order was not
settled, which leads to what `orders_reuse` shows. Unlike Koen, whose cooldown
rules it out, Tob has nothing that does: the limiter's 200 ms are shorter than
an answer may take, so its properties are about behaviours without it, and the
run stops at states with `reused` or `exited` (the constraint `WithinScope` of
`MCTob`), of which they say nothing. Also,
Tob cancels every order of the asset at each new plan. Cancelling one that is
already being cancelled is answered with `not_canceled`, which ends the process
(`exited`).

### OrderAmounts

An order's key holds the price and size of the call, in thousandths. The signed
order has its price rounded to the tick size and its size cut to lots of 0.01,
and the exchange announces its end at the rounded values, so that
`remove_order_entry` may miss the entry. `OpenOrders` takes the two keys to be
the same; this module is about when they are. A cancellation reaches the exchange
when it is asked for (`cancel_limit_order`); its answer (`CancelReturns`) and the
message about it (`user_end_of_order`) come later, in either order, and each
removes whatever is at the key. `reused` has the keys at which an order was
placed before both had come: there, as `orders_reuse` shows, an exact order can
lose its entry too.

Cutting and rounding is done in floating point, and 0.29 * 100 is
28.999999999999996. `Slips` decides from the binary expansion when a product in
double precision falls below the exact one. For every price, and every size up to
3 000 shares, the operators were compared with IEEE doubles and agree.

### PolyOrderbook and MarketFeed

Prices are ticks, size 0 is an absent level; a heap is the set of its levels,
because a map holds one size per price. Every handler runs on the processor's
task, so each is one action; the best prices are read between messages.
`MarketFeed` adds the exchange's book and tick size, the messages on their way
(network and queue together) and connections that break. An order that takes
several levels announces them in any order, and its rest before or after them.

Three history variables select the states the properties speak of: `synced`, the
first book of the subscription was applied and not dropped for being empty;
`ordered`, the subscription has not announced the rest of an order before what
the order took; `tick_told`, the tick size was announced since the last full
book, which resets it to the one in the market's metadata, or never changed.
Without `ordered`, `Mirror` fails: a crossing change takes off levels whose own
messages follow. Without `tick_told`, `TickMirror` fails.

### Vwap, CryptoBook and CryptoFeed

`feed_kind` says whose book it is: Deribit (full books and updates, a price from
the VWAP state), Kraken (full books and updates, the midpoint) or one of the
exchanges that send best levels only. `Vwap` is exact: a price is a fraction;
the code uses floating point. A state is there if more than `EnoughParts` of
`OfParts` parts of the search volume are found, more than 999 of 1000 in the
code (`update_crypto_orderbooks.rs:72`); for the small volumes of the run they
are coarser, so that it matters. The code decides whether a "full recalculation"
of the state is required, but both branches compute it anew, so the model has
one. The levels of the side that fills are taken one after the other (`Take`),
best first (`search_side`). `get_midpoint` unwraps both best levels: on a book
without a side a full book panics, and an update panics unless it is Deribit's,
for which the last price stays. `dead` is that panic; the channel then closes
and the listener returns, so `CryptoFeed` stops.

`Connect`, `Disconnect` and `ConnectFails` are the loop of `websocket_handler`:
whenever a connection ends or cannot be made a `ClearPrice` event is pushed.
Messages the listener cannot parse are skipped. The history variable `read`
says how much of the current connection was understood.

### NegRisk

One asset of an event with its bid, and the asks of every asset. `price_change`
is a message about the asset: the book is updated, then the strategy runs
(`handle_price_change`). It works out the feasible asks (`relevant_books`), what
it may pay (`determine_signal`), and places, keeps or cancels the bid
(`process_place_signal`). `other_price_change`, `agg_orderbook` and
`tick_size_change` change what it reads without running it. `Confirmed`, `Ended`
and `NotCancelled` stand for everything that happens to the bid elsewhere.

Two history variables select what the properties speak of: `kept`, the last
decision placed or kept the bid and no ask and no tick size has changed since;
`grid`, the tick size of the exchange. `tick_size` differs from it after a full
book, which resets it to that of the market's metadata: without `tick_size =
grid` both `NoChurn` and `NeverAboveBestAsk` fail. A bid at the best ask can be
placed, and is filled at once: the tick that is left free is under the feasible
ask, which may be a worse one. `apply_lowest_volume` takes off the volume of the
first asset in the order of a hash set, not the lowest; the order is a choice in
`Init`, and the bids it places are hedged all the same.

The assets of an event are what the market map has: both tokens of every market
(`poly_market_struct.rs:193`). The strategy counts on n assets that are offered
to pay n - 1 together, which is so of NO shares of different markets: exactly one
market of an event is won. `Payout` is what shares are sure to pay, from
`MarketOf` and `NoShares`. For every YES share that is offered (`YesCounted`) the
code counts on one payout more than it can be sure of, and its bid may be too high
by as much: `Hedged` allows exactly that. With NO shares only a bid is hedged in
full; with YES shares offered the program does place bids that are not.

### Positions

`poly_handle_user_trade` applies a trade message; a trade has one slice as taker
and several, of this and other accounts, as maker. The same message goes to
`TradeLoggingStrategy`, which has its own sums (`log_trade_event`); `logged` is
what its lines add up to. `Match` is the exchange: it changes the account and
announces the trade as MATCHED; `Settle` announces it again and `Fail` announces
it as FAILED, which no strategy handles, and takes it back. `main` reads the
account before it subscribes: until `subscribe`, trades are announced to nobody.
`get_positions` gives up when a request fails, or its answer is not understood,
and `main` goes on with the part it has: in `Init` any part of the account has
been read. `untold` adds up what was not read and what no message could tell;
`all_told` says there was nothing of the kind.

`convert_tokens_negrisk` is the loop of `automerger_relay.py`, a separate
process that exchanges NO shares of several markets for YES shares of the rest;
the user channel is silent about it. Two markets or more are converted, as many
shares as the account holds of each.

## 3. The runs

| run | bounds | distinct states, time | shows |
|---|---|---|---|
| `orders_any` | 2 orders at one key, 2 cancel tasks, 1 partial fill (also as taker), all faults | 5.1 M, 85 s | TypeOK, NoStuckCancel and the refinement of OrderSlots whatever happens |
| `orders_live` | 2 orders at one key, network | 28 000, 5 s | every wait ends |
| `orders_reuse` | 3 orders at one key, no faults | 3 000, 1 s | violated: two live orders at one key |
| `koen` | 2 orders at one key of an asset and 1 of another asset, 2 cancel tasks, no partial fills, lost messages; cooldown 5 ticks, cancel after 1, timeout 2 | 9.1 M, 120 s | NeverCancelsSuccessor, StaleIsCancelled, LiveIsTracked, CancelTargetsOwnKey |
| `tob` | 3 orders of two lots at two prices of one token of two, 2 cancel tasks, no faults | 3.5 M, 95 s | one quote per asset; less than three targets of a token over what was bought of the other; the table agrees with the exchange, fills included |
| `amounts` | 5 prices, 6 sizes, 3 tick sizes, 2 orders | 774 000, 20 s | never more than asked for, within half a tick; only inexact orders leave an entry behind; exact ones are tracked unless their key is used too early |
| `pipeline` | 3 listeners, 2 events each | 14 000, 3 s | counter, order, liveness unless a handler panics |
| `feed` | 2 prices, sizes 0..1, 2 tick sizes, 3 messages on their way | 3.0 M, 117 s | heaps, crossing, refinement of PriceLevels; no phantom levels; mirror of book and tick size |
| `crypto_feed` | each kind of feed, 3 prices, sizes 0..1 (0..3 for the VWAP state), 2 changes a message, 3 messages on their way | 1.1 M, 47 s | price and VWAP state are current and the best there is; mirror; no book of an earlier connection |
| `crypto_down` | Kraken and the others, 2 messages on their way | 195, 1 s | violated: a price while the feed is down |
| `negrisk` | 4 assets: the NO shares of 3 markets and one YES share, 1 or 2 ask prices each, sizes 0..2, share 6, tick sizes 1 and 2 | 384 000, 120 s | bids hedged when placed and kept but for a payout per YES share, no churn, none above the best ask |
| `positions` | 3 markets, 3 traded assets, all, one or none of the account's assets read, 2 trades of 1 share, largest u32 2 | 1.1 M, 120 s | off by exactly what was not read or untold, the file agrees, never overstated after conversions |

Why these bounds are enough. What goes wrong in the table needs two orders at
one key (removal by key cannot tell them apart), a third to see the second live
one, a second key to see a wrong key, and two cancellations to race. The
durations of `koen` (60 s, 1 s and 5 s in the code) are the tightest that work:
delay, timeout and two ticks for a message are just within the cooldown, and
with a cooldown of 4 `LiveIsTracked` fails, with 1 also `NeverCancelsSuccessor`.
In the pipeline two listeners interleave and a third adds no new relation. For
`feed`, two prices put one level on each side or two on one, enough for an order
to cross more than one level; the book alone was also explored with 3 prices and
sizes up to 2, and the feed with 3 prices and 2 messages. The VWAP state needs a
second level on the side that fills and sizes that differ. For the crypto feed,
three messages are an old update, a `ClearPrice` and the new full book. For the
positions, two trades let a sell meet a converted share or one that was never
read or told of, and a trade be announced again, or fail, after the next one; a
small largest u32 makes the wrap of a subtraction visible. For `negrisk`, two
levels of each asset and a volume of 2 make an ask feasible at the first level,
at the second or not at all; three other assets make the scarcest, the first and
an empty one differ, one of them is a YES share of a market whose NO share is
offered too, and a share of 6 leaves prices on both sides of the asks. The view
of `MCNegRisk` merges states that differ only in the order of the event's assets
where nothing reads it. `SizeTolerance` of 1 is smaller than the largest bid.
`BelowThriceTarget` needs a third order to be violated, and orders of two lots:
at most five of their six lots are exposed, and TLC finds a state with five. (Of
orders filled only as a whole there would be two.) What was bought of the other
token counts every fill of it, as `BelowTarget` compares positions: an order of
the other token that fills while its cancellation is in flight raises the target
too. Koen's run has no partial fills, since none of its properties is about
them; those of the table are in `orders_any` and `tob`. The constraints of
`MCKoen` and `MCTob` stop where the process has ended or, for Tob, a key was
used again too early, and the view of `MCTob` leaves out of the states what
nothing reads again; the one of `MCPositions` bounds what was read of the
account. One of Tob's orders is at another price, so that cancelling and placing
meet different keys. The prices and sizes of `amounts` include sizes whose
product with 100 falls short (0.29, 0.57), one on half a lot, one of less than a
lot, and prices on half a tick whose product falls short (0.045 at 0.1, 0.575 at
0.01) and does not (0.05 at 0.1); two orders let one end at the other's key.
`CHECK_DEADLOCK FALSE` is used where the bounds end the behaviours (no orders or
events left) or the process has exited.

### Fairness

`OpenOrders`: the spawned tasks run on (`PostReturns`, the steps of a
cancellation), the processor handles queued messages, and each request is
answered or times out: `GLOBAL_CLIENT` has a timeout of 5 s, so `network` is
among the faults of the liveness run. Nothing is assumed of strategies or of
the exchange's matching. `EventPipeline`: the runtime runs every task that can
run; no assumption on sockets.

### Findings

1. `orders_reuse`. `record_order` promises in a comment to insert only if no
   order is at the key, but entries are removed by key. A fill or cancellation
   of an old order, handled late, removes the entry of the next order at that
   key; it is live and no longer tracked, and a third is placed on top of it.
2. `crypto_down`, a latent one. When a listener goes down it logs "Clearing
   price", but `handle_price_clear` removes the book only and no strategy
   implements `crypto_handle_price_clear`: an entry of the prices map would stay.
   As the program is, there is none: `UpdateCryptoOrderbookStrategy`, which writes
   the map, is commented out at `main.rs:117`, and so is its one reader
   (`CryptoLoggingStrategy`, line 121), which reads it right after an update. Koen
   does not read it. With the writer enabled, whatever comes to read the map could
   not tell that the feed is down.

`LiveIsTracked` is checked without the fault `network`: a POST that times out
removes its entry although the exchange may have accepted the order, so that
with it one order is enough to violate the property. No document of the
repository promises otherwise.

## 4. The proofs

Each theorem holds for every value of the constants allowed by the named
assumptions of its module and the modules it extends (`OpenOrdersAssumption`,
`OrderAssetsAssumption`, `KoenAssumption`, `EventPipelineAssumption`,
`PolyOrderbookAssumption`, `MarketFeedAssumption`, `VwapAssumption`,
`CryptoBookAssumption`, `CryptoFeedAssumption`, `NegRiskAssumption`,
`PositionsAssumption`, `OrderAmountsAssumption`). They only say that bounds are
natural numbers, that functions have the right domains, that the largest u32 is
not 0, that the assets of an event are finitely many and that its coarse tick
divides what a share pays.

Some theorems about orders have hypotheses, which are written out in them:

- `Answered`: neither a request times out nor is a taker's trade reported at
  another price or size (`Faults` has neither `network` nor `price`);
- `Told`: no message of the user channel is lost (`Faults` has no `loss`);
- `Durations`: `trade_cooldown >= cancel_after + http_timeout + 2`. In the code
  60 s, 1 s (`koen_strategy.rs:40-41`) and 5 s (`http_helpers.rs:28`).

`NeverCancelsSuccessor`, `StaleIsCancelled`, `LiveIsTracked` and `OneQuote`
survive lost messages: the theorems about them need `Answered` only.

**OpenOrdersProofs, any strategy.** `TypeOK`, `NoStuckCancel` and
`CancelTargetsOwnKey` are not inductive. `IInv` adds the relations they rest on:
an entry is at its object's own key (`EntriesAtOwnKey`); an object has an id
exactly when it is not Unconfirmed (`IdIffConfirmed`); an id on an object is one
of the same key (`IdsAtOwnKey`), because messages other than taker trades carry
their order's key (`EventsAtOwnKey`); an object that was never posted is referred
to nowhere (`UnplacedIsUnknown`); and a cancellation holds the object it found
(`TasksHoldTheirOrder`). The last is what makes `NoStuckCancel` survive a
retried cancellation; `UnplacedIsUnknown` is needed since recording resets an
object. One lemma per group of actions shows that it preserves `IInv`;
`Inductive` puts them together, and the other theorems follow. `Implements`
shows that every step is a step of `OrderSlots` or a stutter.

**OpenOrdersProofs, patient strategies.** `LiveTracked` and `Agreement` are
about `PatientSpec`. Entries are removed by key, so what has to be shown is that
whatever removes an entry is about the order that is there: `OneAtAKey` says
that at a key only one order has an entry, a post, a cancellation or a message.
`SettledInv` adds how the post's answer and the exchange's state go together
(`PostsAnswered`), that a message about an end is about an order that ended
(`EventsSound`) and is the last about it (`EndIsLast`), and that ids are
everyone's own (`OwnIds`). For `QuiescentAgreement`, `AgreeInv` adds what has
still to be told: the end of an entry whose order ended (`EndTold`), the id of a
live order (`Confirmed`), and in `FillsTold` that the last message about a
partial fill in the queue has the exchange's size or, if there is none, the
object has what was reported - nothing, as long as all that is filled of the order
matched when it was accepted.

**StrategyProofs, Koen.** A delayed cancellation looks for a key, not for an
order; that it never cancels a successor is a matter of time. `KoenInv` bounds
the age of an order by what is on its way about it: a task is on time
(`TasksInTime`), a message about an order without an entry came from its
cancellation (`MessagesInTime`), and the order whose age the cooldown compares
is the youngest of its asset (`LastIsLast`). `KoenIsPatient` then shows that
every step of KoenStrategy is one of `PatientSpec`, which carries `LiveTracked`
and `Agreement` over. `NotForgotten` is `StaleIsCancelled` without its time
limit.

**StrategyProofs, Tob.** `OneQuote` says of a moment what the handler brings
about in several steps, while tasks and the exchange go on. `QuoteInv` says how
far it is: once an order is planned, every other order of the asset that can
fill is being cancelled, has just been found by a cancellation, or has an entry
at one of the keys that the handler has yet to come to (`AllCovered`). That
entries are complete is `LiveTracked` again, as long as no key is used too early
(`TobTracked`). `TobAgrees` adds what `Agreement` rests on (`AgreedInv`).

`BelowThriceTarget` also needs to know how far the position is behind the fills,
lot by lot. `TradesInv`: the position counts the lots whose trade message has been
handled (`Counted`); a trade message stands right beside its order message
(`TradesFollow`); the trades on their way are of different lots
(`DistinctTrades`), and of at most one has the order message been handled and the
trade not (`OneLoose`); the order message of an order that is filled takes it out
of the table, and is on its way as long as the order is there (`EndsTracked`,
`EndComes`). So of the orders that nothing was asked to cancel and that the table
has lost, all lots but those of one are in the position (`ForgottenIsKnown`).
`BoundInv` is the bound (`Bounded`) and, while an order is planned, that what the
handler will not come to stays below two targets (`RoomForPlan`): at the start of
the handler the position is below one target, and one order at most is loose
(`StartLeavesRoom`); the order that is placed adds a third.

**EventPipelineProofs.** The counter equation is inductive together with the
type invariant; the sender steps need a lemma on the cardinality of the set of
listeners between counting and pushing. `InOrder` uses an invariant that the
events of one listener in the queue are numbered consecutively from the last
handled one to the last sent one.

**MarketFeedProofs.** First the book alone: type, heap coherence and the
uncrossed book are one inductive invariant; the refinement of `PriceLevels` uses
heap coherence to show that what is popped off a heap is what the abstract
change removes. `FeedImplementsBook` shows that every step of the feed is a step
of `PolyOrderbook` or leaves the book alone, given that the messages on their
way are well-formed, so the book's theorems hold in the feed;
`ImplementsPriceLevels` composes the two refinements. `NoPhantomLevels`,
`Mirror` and `TickMirror` need an invariant over the queue, one place (a price on
a side, or the tick size) at a time: the last message about the place says what
the exchange has (`TheLastIsRight`); if there is none, the local book has it
already (`TheRestIsThere`); and a change finds no level to cross, if changes
come in the exchange's order (`NothingToCross`).

**CryptoFeedProofs.** `PriceIsCurrent`, with the fact that a removed book has no
levels, is inductive: every handler that leaves a two-sided book computes state
and price from it, and no other does. What is computed is opaque to the proof.
For `Mirror` and `NoOldLevels` the local book is related to the exchange's by a
path: one local book for each message in the queue, each made from the one
before, and the last is the exchange's, or none when the connection is down.
Sending a message makes the path longer, handling one makes it shorter.

**CryptoFeedProofs, the VWAP state.** `VwapTakesBest` is about what is computed.
`StateTakesBest` shows it of every book with both sides, by the argument for a
greedy choice. After each level, compare what the code has taken with what any
other fill takes of the levels so far: the code has taken at least as much
(`Ahead`), and what the two are worth differs by no more than `Ahead` shares at
the price of that level, in the code's favour. After the last level both have
taken as much, so `Ahead` is 0 and the code's fill is no worse. What the code
used of each level is itself a fill of what it found, so it finds as much of the
volume as any fill has; the tolerance then decides whether that is enough, and
is not looked into: the theorem holds for any. The induction over the levels is
`UpTo`, which rests on the least number that is not among those the claim holds
of; `Recursion` shows that the functions by which the state and the totals are
computed exist. The state that is kept belongs to a book with both sides
(`CachedWithBook`).

**NegRiskProofs.** The theorems rest on one inductive invariant. `OnGrid`: bids
and asks are multiples of the exchange's tick size, and the local tick size is
no finer than it. `KeptPays`: while `kept` holds, the bid is one that a decision
on the books as they are could place, or cheaper. For `NoChurn` one shows that
the next decision, on the same asks, finds the same price or a higher one: the
best bid has not gone below the own one, and rounding a multiple of the tick
down gives it back. For `NeverAboveBestAsk` the bid is at most the best bid and
a tick, rounded, which on the grid is at most the best ask. For `PlacedIsHedged`
and `KeptIsHedged` (`PaysIsHedged`) the others to buy are those whose ask the
decision priced. Each can be bought in the bid's size at that ask, since no more
than the scarcest level is bid for, so the cheapest way to buy it costs no more
(`CostAtOneLevel`), and neither does the sum. What they pay is `PayoutAtLeast`:
of NO shares of different markets at most one pays nothing, whichever market is
won, and YES shares may all pay nothing. With `apply_lowest_volume` that is also
so, as it only makes levels smaller or absent. Sums over a finite set are
defined by a recursion that picks elements; `SumRec` and `SumOne` show that the
order does not matter, by induction on the size of the set (`FiniteSetsAllIn`).

**PositionsProofs.** The invariants relate the positions map to the account
in the same way: a path of accounts, from the map through the queued trades to
what the account holds, less what is untold; it starts with whatever part of the
account was read. If all was told and nothing converted the path is exact.
A conversion makes it an inequality, which only goes one way for YES and the
other for NO, and that gives `NetNeverOverstated`. A subtraction that would
wrap ends what can be said (`clipped`). That the two folds over the slices of a
trade agree is shown for the trades that occur, of one slice or two.

**OrderAmountsProofs.** `AmountsAsAsked` proves `SentAsAsked`: the inductive
invariant says that whatever rests was built from its own call and has no zero
amount. `Slips` is opaque: the bounds hold whatever slips, for any prices and
sizes; what slips is TLC's and the comparison's part. `EntryInv` is about the
entries: the end of an exact order that no longer rests is on its way
(`EndsAreTold`), which gives `OnlyInexactLeftBehind`; and if all are exact, no
end, be it an answer or a message, is on its way to the key of an order that
rests, unless that key was used too early (`Tracked`), which gives
`TrackedUnlessInexact`.

### Left to TLC

- Liveness (`UnconfirmedResolves`, `CancelResolves`, `FinishedIsFreed`,
  `EveryEventHandled`) is outside the prover's reach.
- That `Slips` describes double precision, and how often it does: the theorem
  about amounts takes it as it is.

Every other property of the runs that are expected to pass is a theorem. Where a
proof needs induction over numbers or finite sets, it is carried out on a set
(the numbers, or subsets, of which the claim holds), by the least element of its
complement, as the library's induction theorems cannot be instantiated with an
operator.

`CancelTargetsOwnKey` is checked for KoenStrategy and proved for any strategy
and all faults. `QuiescentAgreement` is checked as a part of
`AgreesUnlessReused` with Tob, and proved for Tob, Koen and any patient
strategy. The strengthened invariants (`IInv`, `SettledInv`, `KoenInv`,
`TradesInv`, `KeptPays` and so on) are only used by proofs; no run checks them.

## 5. Not modelled

- Formatting, parsing and signing; a message that does not parse is skipped by
  the code and absent from the models, except in `CryptoFeed`.
- Poisoned locks: a handler that panics while it holds one ends the processor
  (`Panic`), after which nothing reads the state.
- Restart: the program keeps nothing and recovers nothing; `open_orders` starts
  empty while orders of an earlier run may be live, and the fail-safe exit
  cancels nothing. There is no recovery to state a property of.
- The clock: `should_wait` subtracts an earlier reading of the system clock from
  a later one as unsigned numbers. If the clock is set back in between a release
  build waits for nothing and a debug build panics; `Tob` only knows that a
  window is open or over. Koen's time is the order of its own delays.
- Hashing, signing and encoding of orders: pure functions of the amounts.
- User messages lost in a reconnection during trading: in `OpenOrders` (fault
  `loss`) but not in `Positions`, where such a trade is as untold as one before
  the subscription.
- Market discovery, allowances, most logging, the rest of the relay scripts and
  the unused order manager: see the notes in `PROJECT.json`. They run once, only
  write files, or are never called.

## 6. Plan

The modules of the plan are written, and what their runs check is proved except
for liveness. What would come next: the same for parts that are abstract here -
the clock of the rate limiter, and the conditions under which Koen and Tob take a
book change for a signal.
