------------------------------ MODULE Positions -----------------------------
(***************************************************************************)
(* The positions map (asset -> size) and the file of trades next to the    *)
(* account they stand for.  get_positions reads the account once at the    *)
(* start, before the user channel is subscribed, and goes on with what it  *)
(* has when a request fails or its answer is not understood; after that    *)
(* UpdatePositionStrategy applies the trades of the channel, with          *)
(* saturating unsigned arithmetic, and TradeLoggingStrategy writes them    *)
(* down.  A trade is announced when it matches and again at each later     *)
(* step of its settlement, which may fail; as a maker the account sees all *)
(* maker orders of a match, its own and those of others.                   *)
(*                                                                         *)
(* Beside the program runs automerger_relay.py, which converts NO shares   *)
(* of several markets of one event into YES shares of its other markets.   *)
(* The user channel says nothing of that.                                  *)
(*                                                                         *)
(* Exchange, account and conversion contract are not in the repository.    *)
(***************************************************************************)
EXTENDS Integers, SequencesExt

CONSTANTS
  Markets,     \* the markets of one event
  Traded,      \* the assets traded: a subset of Assets
  Amounts,     \* the sizes of trades and conversions
  MaxU32,      \* the largest size a u32 holds
  MaxTrades    \* bounds the trades

Assets == Markets \X {"YES", "NO"}

ASSUME PositionsAssumption ==
  /\ Traded \subseteq Assets
  /\ Amounts \subseteq Nat \ {0}
  /\ MaxU32 \in Nat \ {0}
  /\ MaxTrades \in Nat

VARIABLES
  positions,   \* size of each asset; absent entries are read as 0
  logged,      \* trades.ndjson: bought less sold of each asset, from what
               \*   the map held at the start
  subscribed,  \* the user channel is
  account,     \* what the account holds
  user_trades, \* trade messages on their way
  settling,    \* trades that will be announced again
  trades,      \* how many there have been
  converted,   \* history: the relay script has converted shares
  untold,      \* history: of each asset, what get_positions could not
               \*   read or was traded before the subscription, less what
               \*   was announced and failed
  all_told,    \* history: there was nothing of that kind
  clipped      \* history: a size has saturated

program == <<positions, logged, clipped>>
history == <<untold, all_told>>
vars == <<program, subscribed, account, user_trades, settling, trades,
          converted, history>>

Slice == [ours : BOOLEAN, asset : Assets, side : {"BUY", "SELL"},
          amount : Amounts]

\* An empty account, or one share of each asset that is traded, of which
\* get_positions has read some, all or none.
Init ==
  /\ \E n \in {0, 1} :
       account = [a \in Assets |-> IF a \in Traded THEN n ELSE 0]
  /\ \E read \in SUBSET Assets :
       positions = [a \in Assets |-> IF a \in read THEN account[a] ELSE 0]
  /\ logged = positions
  /\ subscribed = FALSE
  /\ user_trades = <<>>
  /\ settling = {}
  /\ trades = 0
  /\ converted = FALSE
  /\ untold = [a \in Assets |-> account[a] - positions[a]]
  /\ all_told = (positions = account)
  /\ clipped = FALSE

-----------------------------------------------------------------------------
(* UpdatePositionStrategy                                                  *)

saturating_add(x, y) == Min({x + y, MaxU32})

\* Slip: an unsigned subtraction that wraps.
saturating_sub_Wraps(x, y) == (x - y) % (MaxU32 + 1)

\* Slip: a signed subtraction.
saturating_sub_Signed(x, y) == x - y

saturating_sub(x, y) == Max({x - y, 0})

\* Slip: the maker orders of other accounts are counted too.
own_amount_OfAll(slices, asset, side) ==
  FoldLeft(LAMBDA sum, s :
             IF s.asset = asset /\ s.side = side
             THEN saturating_add(sum, s.amount) ELSE sum,
           0, slices)

own_amount(slices, asset, side) ==
  FoldLeft(LAMBDA sum, s :
             IF s.ours /\ s.asset = asset /\ s.side = side
             THEN saturating_add(sum, s.amount) ELSE sum,
           0, slices)

\* All buys of an asset are applied, and then all its sells.
apply_position_delta(size, slices, asset) ==
  saturating_sub(saturating_add(size, own_amount(slices, asset, "BUY")),
                 own_amount(slices, asset, "SELL"))

-----------------------------------------------------------------------------
(* TradeLoggingStrategy                                                    *)

\* Slip: an asset both bought and sold in a trade gets one line.
log_trade_event_OneLine(slices, asset) ==
  LET bought == own_amount(slices, asset, "BUY") IN
    IF bought > 0 THEN bought ELSE -own_amount(slices, asset, "SELL")

\* What the lines about an asset say: one for what was bought of it and one
\* for what was sold.
log_trade_event(slices, asset) ==
  own_amount(slices, asset, "BUY") - own_amount(slices, asset, "SELL")

-----------------------------------------------------------------------------
(* A message of the user channel goes to both strategies, one after the    *)
(* other.                                                                  *)

Saturates(size, slices, asset) ==
  LET bought == size + own_amount(slices, asset, "BUY") IN
    bought > MaxU32 \/ bought < own_amount(slices, asset, "SELL")

apply_trade(slices) ==
  /\ positions' = [a \in Assets |-> apply_position_delta(positions[a], slices, a)]
  /\ logged' = [a \in Assets |-> logged[a] + log_trade_event(slices, a)]
  /\ clipped' = (clipped \/ \E a \in Assets : Saturates(positions[a], slices, a))

\* Slip: each announcement of a trade is applied.
poly_handle_user_trade_EachStatus ==
  /\ user_trades # <<>>
  /\ user_trades' = Tail(user_trades)
  /\ apply_trade(Head(user_trades).slices)
  /\ UNCHANGED <<subscribed, account, settling, trades, converted, history>>

\* Only the first announcement counts; MINED and FAILED are ignored.
poly_handle_user_trade ==
  /\ user_trades # <<>>
  /\ user_trades' = Tail(user_trades)
  /\ IF Head(user_trades).status = "MATCHED"
     THEN apply_trade(Head(user_trades).slices)
     ELSE UNCHANGED program
  /\ UNCHANGED <<subscribed, account, settling, trades, converted, history>>

-----------------------------------------------------------------------------
(* The exchange and the relay                                              *)

Owned(slices, asset, side) ==
  FoldLeft(LAMBDA sum, s : IF s.ours /\ s.asset = asset /\ s.side = side
                           THEN sum + s.amount ELSE sum, 0, slices)

Gain(slices, asset) == Owned(slices, asset, "BUY") - Owned(slices, asset, "SELL")

\* The main task starts the user listener some time after get_positions.
subscribe ==
  /\ ~subscribed
  /\ subscribed' = TRUE
  /\ UNCHANGED <<program, account, user_trades, settling, trades, converted, history>>

\* Orders of the account match; it can sell no more than it holds.
Match(slices) ==
  /\ trades < MaxTrades
  /\ trades' = trades + 1
  /\ \A a \in Assets :
       /\ Owned(slices, a, "SELL") <= account[a]
       /\ account[a] + Owned(slices, a, "BUY") <= MaxU32
  /\ account' = [a \in Assets |-> account[a] + Gain(slices, a)]
  /\ settling' = settling \cup {slices}
  /\ IF subscribed
     THEN /\ user_trades' = Append(user_trades,
                              [status |-> "MATCHED", slices |-> slices])
          /\ UNCHANGED history
     ELSE /\ untold' = [a \in Assets |-> untold[a] + Gain(slices, a)]
          /\ all_told' = FALSE
          /\ UNCHANGED user_trades
  /\ UNCHANGED <<program, subscribed, converted>>

TakerTrade ==
  \E a \in Traded, side \in {"BUY", "SELL"}, n \in Amounts :
    Match(<<[ours |-> TRUE, asset |-> a, side |-> side, amount |-> n]>>)

\* One maker order of the account and one of anybody.
MakerTrade ==
  \E s, t \in Slice :
    /\ s.asset \in Traded /\ t.asset \in Traded
    /\ s.ours
    /\ Match(<<s, t>>)

Announce(status, slices) ==
  /\ settling' = settling \ {slices}
  /\ user_trades' = IF subscribed
       THEN Append(user_trades, [status |-> status, slices |-> slices])
       ELSE user_trades

Settle ==
  \E slices \in settling :
    /\ Announce("MINED", slices)
    /\ UNCHANGED <<program, subscribed, account, trades, converted, history>>

\* Nothing changes hands after all.
Fail ==
  \E slices \in settling :
    /\ Announce("FAILED", slices)
    /\ account' = [a \in Assets |-> account[a] - Gain(slices, a)]
    /\ \A a \in Assets : account'[a] \in 0..MaxU32
    /\ untold' = [a \in Assets |-> untold[a] - Gain(slices, a)]
    /\ all_told' = FALSE
    /\ UNCHANGED <<program, subscribed, trades, converted>>

\* The script converts as many NO shares of two or more markets as it holds
\* of each, and receives as many YES shares of each other market.
convert_tokens_negrisk ==
  /\ converted' = TRUE
  /\ \E ms \in SUBSET Markets :
       LET amount == Min({account[<<m, "NO">>] : m \in ms}) IN
         /\ \E m, n \in ms : m # n
         /\ amount > 0
         /\ \A m \in Markets \ ms : account[<<m, "YES">>] + amount <= MaxU32
         /\ account' = [a \in Assets |->
              IF a[2] = "NO" /\ a[1] \in ms THEN account[a] - amount
              ELSE IF a[2] = "YES" /\ a[1] \notin ms THEN account[a] + amount
              ELSE account[a]]
  /\ UNCHANGED <<program, subscribed, user_trades, settling, trades, history>>

Next == poly_handle_user_trade \/ subscribe \/ TakerTrade \/ MakerTrade
          \/ Settle \/ Fail \/ convert_tokens_negrisk

Spec == Init /\ [][Next]_vars

-----------------------------------------------------------------------------
(* Properties                                                              *)

TypeOK ==
  /\ positions \in [Assets -> 0..MaxU32]
  /\ logged \in [Assets -> Int]
  /\ account \in [Assets -> 0..MaxU32]
  /\ \A i \in DOMAIN user_trades :
       user_trades[i].status \in {"MATCHED", "MINED", "FAILED"}
  /\ trades \in 0..MaxTrades
  /\ untold \in [Assets -> Int]
  /\ {subscribed, converted, all_told, clipped} \subseteq BOOLEAN

Drained == user_trades = <<>>

\* Until shares are converted, the sizes differ from the account's, once
\* every message has been handled, by exactly what no message could tell:
\* what get_positions failed to read, what was traded between it and the
\* subscription, and what was announced and then failed.  Every other trade
\* counts once, in full and only with what is the account's own; and if there
\* was nothing of that kind no size saturates: trades are handled in the order
\* they were made, and no share is sold that was not there.
OffByUntold ==
  ~converted =>
    /\ all_told => ~clipped
    /\ (Drained /\ ~clipped) => \A a \in Assets : account[a] = positions[a] + untold[a]

\* The file and the map are written by two strategies, each with its own
\* sums; they agree as long as no size has saturated.
LogAgrees == ~clipped => logged = positions

\* Even while the script converts shares without the program's knowledge, the
\* net position (YES - NO) of a market, on which Koen decides whether it is
\* hedging, is never overstated: sells of converted YES shares saturate at
\* zero instead of wrapping, and NO shares that are gone still count.  Only
\* NO shares that get_positions failed to read, trades that no message tells
\* of, and trades that fail can break this.
net_position_yes(sizes, m) == sizes[<<m, "YES">>] - sizes[<<m, "NO">>]
NetNeverOverstated ==
  (Drained /\ all_told) =>
    \A m \in Markets : net_position_yes(positions, m) <= net_position_yes(account, m)
=============================================================================
