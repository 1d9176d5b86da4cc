---------------------------- MODULE MCPositions -----------------------------
(***************************************************************************)
(* Instances of Positions for TLC: an event of three markets.  The NO      *)
(* shares of two of them can be converted into YES shares of the third.    *)
(***************************************************************************)
EXTENDS Positions

CONSTANTS m1, m2, m3

\* The two markets whose NO shares are traded may be exchanged.
Symmetry == Permutations({m1, m2})

NosAndYes == {<<m1, "NO">>, <<m2, "NO">>, <<m3, "YES">>}

\* Of the parts that get_positions may have read: nothing, one asset or all.
\* (Until there is a trade the map is what was read.)
FewParts ==
  trades = 0 =>
    {a \in Assets : positions[a] > 0}
      \in {{}, {<<m1, "NO">>}, {<<m2, "NO">>}, NosAndYes}
=============================================================================
