----------------------------- MODULE MCNegRisk ------------------------------
(***************************************************************************)
(* Instances of NegRisk for TLC: an event of three markets, of which the   *)
(* NO shares are offered and one of the YES shares.                        *)
(***************************************************************************)
EXTENDS NegRisk, TLC

CONSTANTS n1, n2, n3, y2

FewPrices == n1 :> {2, 4} @@ n2 :> {3, 5} @@ n3 :> {3} @@ y2 :> {3}
OneTwoThree == n1 :> 1 @@ n2 :> 2 @@ n3 :> 3 @@ y2 :> 2

\* The order of the others is read only where lowest_volume is set.
View == <<lowest_volume, IF lowest_volume THEN event_assets ELSE <<>>,
          asks, best_bid, tick_size, grid, own, kept>>
=============================================================================
