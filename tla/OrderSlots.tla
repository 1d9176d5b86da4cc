----------------------------- MODULE OrderSlots -----------------------------
(***************************************************************************)
(* What the table of open orders promises to the strategies that read it,  *)
(* whatever the exchange, the network and the user channel do.  Each key   *)
(* (asset, side, price, size) has a slot.  A slot is Free or holds one     *)
(* order, which is Unconfirmed until an exchange id is known, then Live,   *)
(* and ToBeCanceled while its cancellation is requested.                   *)
(*                                                                         *)
(* Three promises are in the shape of Next:                                *)
(*   - an order is only recorded into a Free slot (never over another);    *)
(*   - an order is only asked to be cancelled once it has been confirmed;  *)
(*   - an order never becomes unconfirmed again.                           *)
(***************************************************************************)
CONSTANTS Keys, Orders, NoOrder

VARIABLES
  holder,   \* the order recorded at each key, or NoOrder
  phase     \* the state of the order recorded at each key, or "Free"

slotVars == <<holder, phase>>

Init ==
  /\ holder = [k \in Keys |-> NoOrder]
  /\ phase = [k \in Keys |-> "Free"]

Record(k, o) ==
  /\ phase[k] = "Free"
  /\ holder' = [holder EXCEPT ![k] = o]
  /\ phase' = [phase EXCEPT ![k] = "Unconfirmed"]

Confirm(k) ==
  /\ phase[k] # "Free"
  /\ phase' = [phase EXCEPT ![k] = "Live"]
  /\ UNCHANGED holder

RequestCancel(k) ==
  /\ phase[k] \in {"Live", "ToBeCanceled"}
  /\ phase' = [phase EXCEPT ![k] = "ToBeCanceled"]
  /\ UNCHANGED holder

Retire(k) ==
  /\ phase[k] # "Free"
  /\ holder' = [holder EXCEPT ![k] = NoOrder]
  /\ phase' = [phase EXCEPT ![k] = "Free"]

Next ==
  \E k \in Keys :
    \/ \E o \in Orders : Record(k, o)
    \/ Confirm(k)
    \/ RequestCancel(k)
    \/ Retire(k)

Spec == Init /\ [][Next]_slotVars
=============================================================================
