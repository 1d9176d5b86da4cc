-------------------------------- MODULE Vwap --------------------------------
(***************************************************************************)
(* The prices derived from a crypto order book: its midpoint, and the      *)
(* state from which the price of a Deribit book is computed.  That state   *)
(* fills the larger of the two best levels from the other side, best price *)
(* first.  A side maps prices to sizes; size 0 is an absent level.         *)
(***************************************************************************)
EXTENDS Integers, SequencesExt

CONSTANTS
  MaxPrice,   \* prices are 1 .. MaxPrice
  MaxSize,    \* sizes are 0 .. MaxSize
  EnoughParts,\* how much of a volume must be found: more than EnoughParts of
  OfParts,    \* OfParts parts, in the code more than 999 of 1000
  VwapSizes   \* the sizes of the books AllTakeBest is about

ASSUME VwapAssumption ==
  /\ MaxPrice \in Nat
  /\ MaxSize \in Nat
  /\ EnoughParts \in Nat
  /\ OfParts \in Nat
  /\ VwapSizes \subseteq Nat

Prices == 1..MaxPrice
Levels == [Prices -> 0..MaxSize]
Empty  == [p \in Prices |-> 0]

Held(side) == {p \in Prices : side[p] # 0}
TwoSided(b, a) == Held(b) # {} /\ Held(a) # {}
best_bid(b) == Max(Held(b))
best_ask(a) == Min(Held(a))

get_midpoint(b, a) == <<best_bid(b) + best_ask(a), 2>>

\* The larger best level is to be filled from the other side.
dominant_side_is_bid(b, a) == b[best_bid(b)] > a[best_ask(a)]
search_volume(b, a) ==
  IF dominant_side_is_bid(b, a) THEN b[best_bid(b)] ELSE a[best_ask(a)]

\* Slip: the bids are not searched in reverse order.
search_side_Ascending(b, a) == [n \in Prices |-> n]

\* The prices of the other side, best first.
search_side(b, a) ==
  [n \in Prices |-> IF dominant_side_is_bid(b, a) THEN n ELSE MaxPrice + 1 - n]

\* One level of the other side is taken, up to what the volume still lacks.
\* (Nothing is taken at a price without a level.)
Take(state, other, p) ==
  LET used == Min({other[p], state.search_volume - state.total_volume}) IN
    IF used = 0 THEN state
    ELSE [state EXCEPT !.total_value = @ + p * used,
                       !.total_volume = @ + used,
                       !.cutoff_price_key = p,
                       !.cutoff_volume_used = used]

\* What filling the volume from the levels of the other side takes.
VwapStateOf(b, a) ==
  LET by_bid == dominant_side_is_bid(b, a)
      side   == search_side(b, a)
      after[n \in 0..MaxPrice] ==
        IF n = 0
        THEN [dominant_side_is_bid |-> by_bid, search_volume |-> search_volume(b, a),
              total_value |-> 0, total_volume |-> 0,
              cutoff_price_key |-> 0, cutoff_volume_used |-> 0]
        ELSE Take(after[n - 1], IF by_bid THEN a ELSE b, side[n])
  IN after[MaxPrice]

\* Is this much of the volume enough to price the book by?
Enough(found, volume) == found > 0 /\ OfParts * found > EnoughParts * volume

\* There is no such state unless the other side is deep enough.
calculate_full_vwap_and_state(b, a) ==
  {state \in {VwapStateOf(b, a)} : Enough(state.total_volume, state.search_volume)}

-----------------------------------------------------------------------------
(* The reference it is checked against                                     *)

\* What the values of f at all prices add up to.
Total(f) ==
  LET upto[p \in 0..MaxPrice] == IF p = 0 THEN 0 ELSE upto[p - 1] + f[p]
  IN upto[MaxPrice]

\* All ways to take the given volume from the levels of a side.
Fills(side, volume) ==
  {f \in [Prices -> 0..volume] :
     /\ \A p \in Prices : f[p] <= side[p]
     /\ Total(f) = volume}
Value(f) == Total([p \in Prices |-> p * f[p]])

\* There is a state exactly if the other side can fill enough of the larger
\* best level.  The state takes as much of that level as any fill does, and
\* it is the best the other side offers: nobody could buy its volume for less,
\* or sell it for more.
TakesBest(b, a) ==
  LET states   == calculate_full_vwap_and_state(b, a)
      volume   == search_volume(b, a)
      fills(n) == Fills(IF dominant_side_is_bid(b, a) THEN a ELSE b, n)
  IN /\ states = {} <=> \A n \in 0..volume : Enough(n, volume) => fills(n) = {}
     /\ \A state \in states :
          /\ \A n \in 0..volume : n > state.total_volume => fills(n) = {}
          /\ \A f \in fills(state.total_volume) :
               IF state.dominant_side_is_bid THEN state.total_value <= Value(f)
                                             ELSE state.total_value >= Value(f)

AllTakeBest ==
  \A b, a \in [Prices -> VwapSizes] : TwoSided(b, a) => TakesBest(b, a)
=============================================================================
