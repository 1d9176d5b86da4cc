------------------------------- MODULE MCTob --------------------------------
(***************************************************************************)
(* Instances of Tob for TLC: two prices of one token.                      *)
(***************************************************************************)
EXTENDS Tob, TLC

CONSTANTS k1, k2, o1, o2, o3, c1, c2, a1, a2

\* Two orders at the same price and one at another, all of one token.
TwoAndOne == o1 :> k1 @@ o2 :> k1 @@ o3 :> k2
OneToken == k1 :> a1 @@ k2 :> a1

\* What nothing reads again: the object of an order that has neither an entry
\* nor a task and cannot fill, and how an order that does not rest was filled.
Forgotten(o) ==
  /\ open_orders[KeyOf[o]] # o
  /\ post[o] = "done"
  /\ exch[o] \notin {"inbound", "live"}
  /\ \A c \in CancelTasks : cancel_order[c] # o

View ==
  <<[o \in Orders |-> IF Forgotten(o) THEN <<>>
                      ELSE <<id[o], state[o], size_filled[o]>>],
    [o \in Orders |-> IF exch[o] = "live" THEN <<exch_filled[o], exch_taken[o]>>
                      ELSE <<exch[o], matched(o)>>],
    open_orders, post, cancel_vars, user_events, exited, tob_vars>>

\* Beyond these states the properties say nothing.
WithinScope == ~exited /\ ~reused
Symmetry == Permutations({o1, o2}) \cup Permutations(CancelTasks)
=============================================================================
