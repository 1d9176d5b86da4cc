---------------------------- MODULE MCMarketFeed ----------------------------
(***************************************************************************)
(* An instance of MarketFeed for TLC.  prev_orderbooks is written but      *)
(* never read, so states are told apart without it.                        *)
(***************************************************************************)
EXTENDS MarketFeed

View == <<present, bids, asks, bid_heap, ask_heap, bids_dirty, asks_dirty,
          tick_size, exchange_vars, feed, connected, history_vars>>
=============================================================================
