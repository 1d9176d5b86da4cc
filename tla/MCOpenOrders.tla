---------------------------- MODULE MCOpenOrders ----------------------------
(***************************************************************************)
(* Instances of OpenOrders for TLC: the keys the orders are placed at.     *)
(***************************************************************************)
EXTENDS OpenOrders, TLC

CONSTANTS k1, k2, o1, o2, o3, c1, c2

\* Two orders at the same key, one after the other.
Two == o1 :> k1 @@ o2 :> k1
\* Three orders at the same key.
Three == o1 :> k1 @@ o2 :> k1 @@ o3 :> k1

\* Orders at the same key are interchangeable, and so are cancel tasks.
Symmetry == Permutations({o1, o2}) \cup Permutations(CancelTasks)
Symmetry3 == Permutations({o1, o2, o3}) \cup Permutations(CancelTasks)
=============================================================================
