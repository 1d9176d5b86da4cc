------------------------------- MODULE MCKoen -------------------------------
(***************************************************************************)
(* Instances of Koen for TLC: keys k1 and k2 of two assets.                *)
(***************************************************************************)
EXTENDS Koen, TLC

CONSTANTS k1, k2, o1, o2, o3, c1, c2, a1, a2

\* Two orders at the same key and one at another.
TwoAndOne == o1 :> k1 @@ o2 :> k1 @@ o3 :> k2
TwoAssets == k1 :> a1 @@ k2 :> a2

\* Once the process has ended nothing of what the properties speak of changes.
Running == ~exited
Symmetry == Permutations({o1, o2}) \cup Permutations(CancelTasks)
=============================================================================
