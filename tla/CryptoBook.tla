----------------------------- MODULE CryptoBook -----------------------------
(***************************************************************************)
(* The book and the price the program keeps of one instrument on one       *)
(* crypto exchange: an entry of a crypto orderbook map and the entry of    *)
(* the prices map at the same key, both written by                         *)
(* UpdateCryptoOrderbookStrategy.  (main.rs does not start that strategy   *)
(* at present, so the program keeps no such book or price.)  Deribit and   *)
(* Kraken send full books and updates of them (depth L2); the others send  *)
(* their best levels (depth L1).  The price of a Deribit book is halfway   *)
(* between its larger best level and the average price at which the other  *)
(* side would fill that level; of any other book it is the midpoint.       *)
(*                                                                         *)
(* get_midpoint unwraps both best levels: on a book without one of them it *)
(* panics, which ends the event processor.                                 *)
(*                                                                         *)
(* Prices are whole ticks and sizes whole lots; size 0 is an absent level. *)
(* A price is a fraction <<numerator, denominator>>.                       *)
(***************************************************************************)
EXTENDS Vwap

CONSTANT
  MaxChanges  \* bounds the levels changed in one message

ASSUME CryptoBookAssumption == MaxChanges \in Nat

VARIABLES
  feed_kind,   \* whose book it is: "Deribit", "Kraken" or "L1"; never changes
  present,     \* whether the orderbook map has an entry
  bids, asks,  \* the two sides of the entry
  vwap_cache,  \* CryptoOrderbook.vwap_cache: at most one VwapState
  prices,      \* the entry of the prices map: at most one CryptoPrice
  dead         \* a handler has panicked

book_vars == <<feed_kind, present, bids, asks, vwap_cache, prices, dead>>

\* The levels of one side named by an update.
Changes == UNION {[ps -> 0..MaxSize] : ps \in SUBSET Prices}

Init ==
  /\ feed_kind \in {"Deribit", "Kraken", "L1"}
  /\ present = FALSE
  /\ bids = Empty
  /\ asks = Empty
  /\ vwap_cache = {}
  /\ prices = {}
  /\ dead = FALSE

-----------------------------------------------------------------------------
(* The price                                                               *)

CacheOf(b, a) ==
  IF feed_kind = "Deribit" THEN calculate_full_vwap_and_state(b, a) ELSE {}

PriceFrom(b, a, cache) ==
  [midpoint |-> get_midpoint(b, a),
   price |-> IF cache = {} THEN get_midpoint(b, a)
             ELSE LET state == CHOOSE st \in cache : TRUE
                      dominant == IF state.dominant_side_is_bid
                                  THEN best_bid(b) ELSE best_ask(a)
                  IN <<dominant * state.total_volume + state.total_value,
                       2 * state.total_volume>>]

-----------------------------------------------------------------------------
(* The handlers                                                            *)

SetBook(b, a) ==
  present' = TRUE /\ bids' = b /\ asks' = a /\ UNCHANGED feed_kind

\* The price follows a book with both sides.
Reprice(b, a) ==
  /\ vwap_cache' = CacheOf(b, a)
  /\ prices' = {PriceFrom(b, a, CacheOf(b, a))}
  /\ UNCHANGED dead

Panic ==
  /\ dead' = TRUE
  /\ vwap_cache' = {}
  /\ UNCHANGED prices

\* Slip: the level of the last message is not cleared.
crypto_handle_price_update_Adds(b, a) ==
  /\ ~dead
  /\ SetBook([p \in Prices |-> IF b[p] # 0 THEN b[p] ELSE bids[p]],
             [p \in Prices |-> IF a[p] # 0 THEN a[p] ELSE asks[p]])
  /\ Reprice(bids', asks')

\* A message of an L1 feed: one level on each side.
crypto_handle_price_update(b, a) ==
  /\ ~dead
  /\ SetBook(b, a)
  /\ Reprice(b, a)

crypto_handle_l2_snapshot(b, a) ==
  /\ ~dead
  /\ SetBook(b, a)
  /\ IF TwoSided(b, a) THEN Reprice(b, a) ELSE Panic

\* Slip: deletions are overlooked.
apply_l2_updates_KeepsDeleted(side, changes) ==
  [p \in Prices |-> IF p \in DOMAIN changes /\ changes[p] # 0
                    THEN changes[p] ELSE side[p]]

apply_l2_updates(side, changes) ==
  [p \in Prices |-> IF p \in DOMAIN changes THEN changes[p] ELSE side[p]]

\* Slip: the cached state is kept while the dominant best level stays.
crypto_handle_l2_update_Cached(bid_changes, ask_changes) ==
  /\ ~dead
  /\ IF ~present THEN UNCHANGED book_vars
     ELSE LET b == apply_l2_updates(bids, bid_changes)
              a == apply_l2_updates(asks, ask_changes)
              kept == TwoSided(bids, asks) /\ TwoSided(b, a) /\ vwap_cache # {}
                      /\ dominant_side_is_bid(b, a) = dominant_side_is_bid(bids, asks)
                      /\ IF dominant_side_is_bid(b, a)
                         THEN best_bid(b) = best_bid(bids)
                         ELSE best_ask(a) = best_ask(asks)
          IN /\ SetBook(b, a)
             /\ \/ /\ kept
                   /\ prices' = {PriceFrom(b, a, vwap_cache)}
                   /\ UNCHANGED <<vwap_cache, dead>>
                \/ ~kept /\ TwoSided(b, a) /\ Reprice(b, a)
                \/ /\ ~TwoSided(b, a)
                   /\ feed_kind = "Deribit"
                   /\ vwap_cache' = {}
                   /\ UNCHANGED <<prices, dead>>

\* An update without a book is ignored.  The state is computed anew whether or
\* not the code finds that a full recalculation is required.  A Deribit book
\* without one of its sides keeps its last price; a Kraken book panics.
crypto_handle_l2_update(bid_changes, ask_changes) ==
  /\ ~dead
  /\ IF ~present THEN UNCHANGED book_vars
     ELSE LET b == apply_l2_updates(bids, bid_changes)
              a == apply_l2_updates(asks, ask_changes)
          IN /\ SetBook(b, a)
             /\ \/ TwoSided(b, a) /\ Reprice(b, a)
                \/ /\ ~TwoSided(b, a)
                   /\ feed_kind = "Deribit"
                   /\ vwap_cache' = {}
                   /\ UNCHANGED <<prices, dead>>
                \/ ~TwoSided(b, a) /\ feed_kind = "Kraken" /\ Panic

\* Slip: only the L1 entry is removed.
handle_price_clear_OnlyL1 ==
  /\ ~dead
  /\ IF feed_kind = "L1"
     THEN present' = FALSE /\ bids' = Empty /\ asks' = Empty
     ELSE UNCHANGED <<present, bids, asks>>
  /\ UNCHANGED <<feed_kind, vwap_cache, prices, dead>>

\* The listener has lost its connection: the book is removed, and no strategy
\* handles crypto_handle_price_clear.
handle_price_clear ==
  /\ ~dead
  /\ present' = FALSE
  /\ bids' = Empty
  /\ asks' = Empty
  /\ vwap_cache' = {}
  /\ UNCHANGED <<feed_kind, prices, dead>>

L1Next ==
  \E b, a \in Levels :
    /\ \E p, q \in Prices : Held(b) = {p} /\ Held(a) = {q}
    /\ crypto_handle_price_update(b, a)

L2Next ==
  \/ \E b, a \in Levels : crypto_handle_l2_snapshot(b, a)
  \/ \E cb, ca \in Changes :
       /\ Cardinality(DOMAIN cb) + Cardinality(DOMAIN ca) <= MaxChanges
       /\ crypto_handle_l2_update(cb, ca)

\* The messages may be anything a feed of this kind could send.
Next == (feed_kind = "L1" /\ L1Next) \/ (feed_kind # "L1" /\ L2Next) \/ handle_price_clear

Spec == Init /\ [][Next]_book_vars

-----------------------------------------------------------------------------
(* Properties                                                              *)

\* Every variable has its type; a book that has been removed has no levels
\* and no cached state.
TypeOK ==
  /\ feed_kind \in {"Deribit", "Kraken", "L1"}
  /\ present \in BOOLEAN
  /\ bids \in Levels
  /\ asks \in Levels
  /\ dead \in BOOLEAN
  /\ ~present => bids = Empty /\ asks = Empty /\ vwap_cache = {}

\* Whatever was cached and whichever side was dominant before, the price the
\* strategies read and the cached state are those of the book as it is, for
\* every book that has both sides.
PriceIsCurrent ==
  (~dead /\ TwoSided(bids, asks)) =>
    /\ vwap_cache = CacheOf(bids, asks)
    /\ prices = {PriceFrom(bids, asks, vwap_cache)}

\* The cached state is the best fill there is of the book it is kept with,
\* and of any book with sizes in VwapSizes it would be.
VwapTakesBest == AllTakeBest /\ (vwap_cache # {} => TakesBest(bids, asks))
=============================================================================
