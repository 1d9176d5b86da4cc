------------------------- MODULE OrderAmountsProofs -------------------------
(***************************************************************************)
(* For all prices and sizes: an order is for no more shares than it was    *)
(* asked for, for less than two lots fewer, and at a price within half a   *)
(* tick of the one asked for.  Whether a product falls short (Slips) is    *)
(* not looked into: the bounds hold either way.  And for any number of     *)
(* calls in any order: only an order that was not exact leaves its entry   *)
(* behind, and only such an order, or one whose end was on its way when    *)
(* its key was used again, takes away the entry of another one.            *)
(***************************************************************************)
EXTENDS OrderAmounts, TLAPS

\* An order was built for its call, and sent with no amount of zero.
Sent(o) ==
  /\ o.call \in Call
  /\ o.order = create_order(o.call)
  /\ o.order.maker_amount # 0 /\ o.order.taker_amount # 0

IInv == \A o \in resting : Sent(o)

LEMMA Initial == Init => IInv
BY DEF Init, IInv

LEMMA Preserved == IInv /\ [Next]_vars => IInv'
<1> SUFFICES ASSUME IInv, [Next]_vars PROVE IInv'
  OBVIOUS
<1>1. ASSUME NEW c \in Call, place_limit_order(c) PROVE IInv'
  BY <1>1 DEF IInv, Sent, place_limit_order, vars
<1>2. ASSUME NEW o \in resting, ExchFill(o) \/ cancel_limit_order(o) PROVE IInv'
  BY <1>2 DEF IInv, ExchFill, cancel_limit_order, Ends
<1>3. ASSUME NEW o \in deleting, CancelReturns(o) PROVE IInv'
  BY <1>3 DEF IInv, CancelReturns
<1>4. CASE user_end_of_order \/ UNCHANGED vars
  BY <1>4 DEF IInv, user_end_of_order, vars
<1>5. QED
  BY <1>1, <1>2, <1>3, <1>4 DEF Next

-----------------------------------------------------------------------------
\* round_down gives whole lots: what there are, or one less.
LEMMA LotsBounds ==
  ASSUME NEW size \in Nat
  PROVE  /\ round_down(size) \in Nat
         /\ 10 * round_down(size) <= size
         /\ 10 * round_down(size) > size - 20
<1>1. /\ size \div 10 \in Nat
      /\ 10 * (size \div 10) <= size
      /\ 10 * (size \div 10) > size - 10
  OBVIOUS
<1>2. size % 10 = 0 /\ size > 0 => size \div 10 >= 1
  OBVIOUS
<1>3. CASE round_down(size) = size \div 10
  BY <1>1, <1>3
<1>4. CASE size > 0 /\ size % 10 = 0 /\ round_down(size) = size \div 10 - 1
  BY <1>1, <1>2, <1>4
<1>5. QED
  BY <1>3, <1>4 DEF round_down

\* round_normal gives a number at most half a tick away.
LEMMA TickBounds ==
  ASSUME NEW p \in Nat, NEW tick \in {100, 10, 1}
  PROVE  /\ round_normal(p, tick) \in Nat
         /\ 2 * Abs(round_normal(p, tick) - p) <= tick
<1> DEFINE r == p % tick
<1>1. r \in Nat /\ r < tick /\ r <= p
  <2>1. CASE tick = 100
    BY <2>1
  <2>2. CASE tick = 10
    BY <2>2
  <2>3. CASE tick = 1
    BY <2>3
  <2>4. QED
    BY <2>1, <2>2, <2>3
<1> HIDE DEF r
<1>2. CASE 2 * r > tick \/ (2 * r = tick /\ ~Slips(p, 1000, 1000 \div tick))
  <2>1. round_normal(p, tick) = p - r + tick
    BY <1>2 DEF round_normal, r
  <2>2. 2 * r >= tick
    BY <1>1, <1>2
  <2>3. QED
    BY <1>1, <2>1, <2>2 DEF Abs
<1>3. CASE ~(2 * r > tick \/ (2 * r = tick /\ ~Slips(p, 1000, 1000 \div tick)))
  <2>1. round_normal(p, tick) = p - r
    BY <1>3 DEF round_normal, r
  <2>2. 2 * r <= tick
    BY <1>1, <1>3
  <2>3. QED
    BY <1>1, <2>1, <2>2 DEF Abs
<1>4. QED
  BY <1>2, <1>3

\* The exchange's size and price of an order are its lots and its rounded
\* price, whichever amount is which.
LEMMA ExchangeReadsBack ==
  ASSUME NEW c \in Call,
         create_order(c).maker_amount # 0, create_order(c).taker_amount # 0
  PROVE  /\ shares(create_order(c)) = 10 * round_down(c.size)
         /\ price(create_order(c)) = round_normal(c.price, c.tick)
<1> DEFINE lots == round_down(c.size)
           rounded == round_normal(c.price, c.tick)
<1>1. /\ c.side \in {"BUY", "SELL"} /\ c.price \in Nat /\ c.size \in Nat
      /\ c.tick \in {100, 10, 1}
  BY OrderAmountsAssumption DEF Call
<1>2. lots \in Nat /\ rounded \in Nat
  BY <1>1, LotsBounds, TickBounds
<1> HIDE DEF lots, rounded
<1>3. create_order(c) =
        [side |-> c.side,
         maker_amount |-> IF c.side = "BUY" THEN 10 * lots * rounded ELSE 10000 * lots,
         taker_amount |-> IF c.side = "BUY" THEN 10000 * lots ELSE 10 * lots * rounded]
  BY <1>1 DEF create_order, get_order_amounts, lots, rounded
<1>4. lots # 0
  BY <1>1, <1>2, <1>3
<1>5. shares(create_order(c)) = (10000 * lots) \div 1000
  BY <1>1, <1>3 DEF shares
<1>6. (10000 * lots) \div 1000 = 10 * lots
  BY <1>2
<1>7. price(create_order(c)) = (10 * lots * rounded) \div (10 * lots)
  BY <1>1, <1>3, <1>5, <1>6 DEF price
<1>8. (10 * lots * rounded) \div (10 * lots) = rounded
  <2>1. \A n \in Nat \ {0}, q \in Nat : (n * q) \div n = q
    OBVIOUS
  <2>2. 10 * lots \in Nat \ {0}
    BY <1>2, <1>4
  <2>3. QED
    BY <1>2, <2>1, <2>2
<1>9. QED
  BY <1>5, <1>6, <1>7, <1>8 DEF lots, rounded

LEMMA Implies == IInv => SentAsAsked
<1> SUFFICES ASSUME IInv, NEW o \in resting
             PROVE  /\ shares(o.order) <= o.call.size
                    /\ shares(o.order) > o.call.size - 20
                    /\ 2 * Abs(price(o.order) - o.call.price) <= o.call.tick
  BY DEF SentAsAsked
<1>1. o.call.price \in Nat /\ o.call.size \in Nat /\ o.call.tick \in {100, 10, 1}
  BY OrderAmountsAssumption DEF IInv, Sent, Call
<1>2. /\ shares(o.order) = 10 * round_down(o.call.size)
      /\ price(o.order) = round_normal(o.call.price, o.call.tick)
  BY ExchangeReadsBack DEF IInv, Sent
<1>3. QED
  BY <1>1, <1>2, LotsBounds, TickBounds

\* place_limit_order never sends more than it was asked for, at whatever
\* price, size and tick size it is called.
THEOREM AmountsAsAsked == Spec => []SentAsAsked
BY Initial, Preserved, Implies, PTL DEF Spec
-----------------------------------------------------------------------------
(* What becomes of the entries                                             *)

\* An order whose price and size are exact ends at the key of its entry.
LEMMA ExactKey ==
  ASSUME NEW c \in Call, Exact(c),
         create_order(c).maker_amount # 0, create_order(c).taker_amount # 0
  PROVE  AnnouncedKey(create_order(c)) = Key(c)
<1>1. c.price \in Nat /\ c.size \in Nat /\ c.tick \in {100, 10, 1}
  BY OrderAmountsAssumption DEF Call
<1>2. c.price % c.tick = 0 /\ c.size % 10 = 0 /\ ~Slips(c.size, 1000, 100)
  BY DEF Exact
<1>3. 10 * round_down(c.size) = c.size
  <2>1. round_down(c.size) = c.size \div 10
    BY <1>2 DEF round_down
  <2>2. 10 * (c.size \div 10) = c.size
    BY <1>1, <1>2
  <2> QED
    BY <2>1, <2>2
<1>4. round_normal(c.price, c.tick) = c.price
  <2> DEFINE r == c.price % c.tick
  <2>1. r = 0
    BY <1>2
  <2> HIDE DEF r
  <2>2. ~(2 * r > c.tick) /\ 2 * r # c.tick
    BY <1>1, <2>1
  <2>3. round_normal(c.price, c.tick) = c.price - r
    BY <2>2 DEF round_normal, r
  <2> QED
    BY <1>1, <2>1, <2>3
<1>5. create_order(c).side = c.side
  BY DEF create_order
<1> QED
  BY <1>3, <1>4, <1>5, ExchangeReadsBack DEF AnnouncedKey, Key

Keys == [side : {"BUY", "SELL"}, price : Int, size : Int]

LEMMA AnnouncesKeys ==
  ASSUME NEW c \in Call,
         create_order(c).maker_amount # 0, create_order(c).taker_amount # 0
  PROVE  AnnouncedKey(create_order(c)) \in Keys
<1>1. c.side \in {"BUY", "SELL"} /\ c.price \in Nat /\ c.size \in Nat
      /\ c.tick \in {100, 10, 1}
  BY OrderAmountsAssumption DEF Call
<1>2. 10 * round_down(c.size) \in Int /\ round_normal(c.price, c.tick) \in Int
  <2>1. round_down(c.size) \in Nat /\ round_normal(c.price, c.tick) \in Nat
    BY <1>1, LotsBounds, TickBounds
  <2> QED
    BY <2>1
<1>3. create_order(c).side = c.side
  BY DEF create_order
<1> QED
  BY <1>1, <1>2, <1>3, ExchangeReadsBack DEF AnnouncedKey, Keys

Among(key, q) == \E i \in 1..Len(q) : q[i] = key

LEMMA AmongAppended ==
  ASSUME NEW q \in Seq(Keys), NEW k \in Keys
  PROVE  /\ Append(q, k) \in Seq(Keys)
         /\ \A key : Among(key, Append(q, k)) <=> Among(key, q) \/ key = k
<1> DEFINE p == Append(q, k)
<1>1. /\ p \in Seq(Keys) /\ Len(p) = Len(q) + 1 /\ Len(q) \in Nat
      /\ \A i \in 1..Len(q) : p[i] = q[i]
      /\ p[Len(q) + 1] = k
  OBVIOUS
<1> HIDE DEF p
<1>2. ASSUME NEW key PROVE Among(key, p) <=> Among(key, q) \/ key = k
  <2>1. \A i \in 1..Len(p) : i \in 1..Len(q) \/ i = Len(q) + 1
    BY <1>1
  <2>2. \A i \in 1..Len(q) : i \in 1..Len(p)
    BY <1>1
  <2>3. Len(q) + 1 \in 1..Len(p)
    BY <1>1
  <2> QED
    BY <1>1, <2>1, <2>2, <2>3 DEF Among
<1> QED
  BY <1>1, <1>2 DEF p

LEMMA AmongTail ==
  ASSUME NEW q \in Seq(Keys), q # <<>>
  PROVE  /\ Tail(q) \in Seq(Keys)
         /\ Among(Head(q), q)
         /\ \A key : Among(key, Tail(q)) => Among(key, q)
         /\ \A key : Among(key, q) => key = Head(q) \/ Among(key, Tail(q))
<1> DEFINE t == Tail(q)
<1>1. /\ t \in Seq(Keys) /\ Len(t) = Len(q) - 1 /\ Len(q) \in Nat \ {0}
      /\ \A i \in 1..Len(t) : t[i] = q[i + 1]
      /\ Head(q) = q[1]
  OBVIOUS
<1> HIDE DEF t
<1>2. \A i \in 1..Len(t) : i + 1 \in 1..Len(q)
  BY <1>1
<1>3. \A i \in 1..Len(q) : i = 1 \/ (i - 1 \in 1..Len(t) /\ (i - 1) + 1 = i)
  BY <1>1
<1>4. \A i \in 1..Len(q) : i = 1 \/ (i - 1 \in 1..Len(t) /\ t[i - 1] = q[i])
  BY <1>1, <1>3
<1>5. \A key : Among(key, t) => Among(key, q)
  BY <1>1, <1>2 DEF Among
<1>6. \A key : Among(key, q) => key = Head(q) \/ Among(key, t)
  BY <1>1, <1>4 DEF Among
<1>7. 1 \in 1..Len(q)
  BY <1>1
<1> QED
  BY <1>1, <1>5, <1>6, <1>7 DEF t, Among

AllExact == \A o \in calls : Exact(o.call)

\* If the order of an exact entry is gone, its end is on its way.
EndsAreTold ==
  \A o \in open_orders :
    /\ Sent(o)
    /\ Exact(o.call) => Among(Key(o.call), announced) \/ o \in resting

OneEntryPerKey ==
  \A o, p \in open_orders : Key(o.call) = Key(p.call) => o = p

\* An order that rests has its entry, and no end is on its way to its key,
\* unless that key was used again too early.
Tracked ==
  \A o \in resting :
    Key(o.call) \notin reused =>
      /\ o \in open_orders
      /\ ~Among(Key(o.call), announced)
      /\ \A d \in deleting : Key(d.call) # Key(o.call)

EntryInv ==
  /\ IInv
  /\ announced \in Seq(Keys)
  /\ resting \subseteq calls
  /\ EndsAreTold
  /\ OneEntryPerKey
  /\ AllExact => Tracked

LEMMA PlaceKeeps ==
  ASSUME EntryInv, NEW c \in Call, place_limit_order(c)
  PROVE  EntryInv'
<1> DEFINE new == [id |-> Cardinality(calls) + 1, call |-> c, order |-> create_order(c)]
<1>1. CASE UNCHANGED vars
  BY <1>1 DEF EntryInv, IInv, EndsAreTold, OneEntryPerKey, AllExact, Tracked, vars
<1>2. CASE /\ open_orders' = open_orders \cup {new}
           /\ resting' = resting \cup {new}
           /\ calls' = calls \cup {new}
           /\ reused' = IF Pending(Key(c)) THEN reused \cup {Key(c)} ELSE reused
           /\ announced' = announced /\ deleting' = deleting
           /\ Sent(new)
  <2>1. new.call = c
    OBVIOUS
  <2> HIDE DEF new
  <2>2. \A o \in open_orders : Key(o.call) # Key(c)
    BY DEF place_limit_order
  <2>3. IInv' /\ resting' \subseteq calls'
    BY <1>2 DEF EntryInv, IInv
  <2>4. EndsAreTold'
    BY <1>2 DEF EntryInv, EndsAreTold
  <2>5. OneEntryPerKey'
    BY <1>2, <2>1, <2>2 DEF EntryInv, OneEntryPerKey
  <2>6. ASSUME AllExact' PROVE Tracked'
    <3> SUFFICES ASSUME NEW o \in resting', Key(o.call) \notin reused'
                 PROVE  /\ o \in open_orders'
                        /\ ~Among(Key(o.call), announced')
                        /\ \A d \in deleting' : Key(d.call) # Key(o.call)
      BY DEF Tracked
    <3>1. Tracked
      BY <1>2, <2>6 DEF EntryInv, AllExact
    <3>2. CASE o \in resting
      BY <1>2, <3>1, <3>2 DEF Tracked
    <3>3. CASE o = new
      <4>1. ~Pending(Key(c))
        BY <1>2, <2>1, <3>3
      <4> QED
        BY <1>2, <2>1, <3>3, <4>1 DEF Pending, Among
    <3> QED
      BY <1>2, <3>2, <3>3
  <2> QED
    BY <1>2, <2>3, <2>4, <2>5, <2>6 DEF EntryInv
<1> QED
  BY <1>1, <1>2 DEF place_limit_order, Sent

\* No other order whose end is not on its way rests at the key of one.
LEMMA AloneAtKey ==
  ASSUME EntryInv, Tracked, NEW f \in resting, NEW o \in resting, o # f,
         Key(o.call) \notin reused
  PROVE  Key(o.call) # Key(f.call)
BY DEF EntryInv, Tracked, OneEntryPerKey

\* The end of an order, whether it fills or is cancelled.
LEMMA EndsKeeps ==
  ASSUME EntryInv, NEW f \in resting, Ends(f),
         deleting' \in {deleting, deleting \cup {f}},
         UNCHANGED <<open_orders, calls, reused>>
  PROVE  EntryInv'
<1> DEFINE k == AnnouncedKey(f.order)
<1>1. resting' = resting \ {f} /\ announced' = Append(announced, k)
  BY DEF Ends
<1>2. Sent(f) /\ f \in calls
  BY DEF EntryInv, IInv
<1>3. k \in Keys /\ (Exact(f.call) => k = Key(f.call))
  BY <1>2, AnnouncesKeys, ExactKey DEF Sent
<1> HIDE DEF k
<1>4. /\ announced' \in Seq(Keys)
      /\ \A key : Among(key, announced') <=> Among(key, announced) \/ key = k
  BY <1>1, <1>3, AmongAppended DEF EntryInv
<1>5. IInv' /\ resting' \subseteq calls'
  BY <1>1 DEF EntryInv, IInv
<1>6. EndsAreTold'
  <2> SUFFICES ASSUME NEW o \in open_orders
               PROVE  /\ Sent(o)
                      /\ Exact(o.call) =>
                           Among(Key(o.call), announced') \/ o \in resting'
    BY DEF EndsAreTold
  <2> QED
    BY <1>1, <1>3, <1>4 DEF EntryInv, EndsAreTold
<1>7. OneEntryPerKey'
  BY DEF EntryInv, OneEntryPerKey
<1>8. ASSUME AllExact' PROVE Tracked'
  <2>1. Tracked /\ k = Key(f.call)
    BY <1>2, <1>3, <1>8 DEF EntryInv, AllExact
  <2> SUFFICES ASSUME NEW o \in resting', Key(o.call) \notin reused
               PROVE  /\ o \in open_orders
                      /\ ~Among(Key(o.call), announced')
                      /\ \A d \in deleting' : Key(d.call) # Key(o.call)
    BY DEF Tracked
  <2>2. o \in resting /\ Key(o.call) # Key(f.call)
    BY <1>1, <2>1, AloneAtKey
  <2> QED
    BY <1>4, <2>1, <2>2 DEF Tracked
<1> QED
  BY <1>4, <1>5, <1>6, <1>7, <1>8 DEF EntryInv

LEMMA FillKeeps ==
  ASSUME EntryInv, NEW f \in resting, ExchFill(f)
  PROVE  EntryInv'
BY EndsKeeps DEF ExchFill

LEMMA CancelKeeps ==
  ASSUME EntryInv, NEW f \in resting, cancel_limit_order(f)
  PROVE  EntryInv'
BY EndsKeeps DEF cancel_limit_order

\* Entries are removed at a key at which an end was on its way.
LEMMA RemovalKeeps ==
  ASSUME EntryInv, NEW k,
         Among(k, announced) \/ \E d \in deleting : Key(d.call) = k,
         open_orders' = {o \in open_orders : Key(o.call) # k},
         announced' \in Seq(Keys),
         \A key : Among(key, announced') => Among(key, announced),
         \A key : Among(key, announced) => key = k \/ Among(key, announced'),
         deleting' \subseteq deleting,
         UNCHANGED <<resting, calls, reused>>
  PROVE  EntryInv'
<1>1. IInv' /\ resting' \subseteq calls'
  BY DEF EntryInv, IInv
<1>2. EndsAreTold'
  BY DEF EntryInv, EndsAreTold
<1>3. OneEntryPerKey'
  BY DEF EntryInv, OneEntryPerKey
<1>4. ASSUME AllExact' PROVE Tracked'
  <2>1. Tracked
    BY <1>4 DEF EntryInv, AllExact
  <2> QED
    BY <2>1 DEF Tracked
<1> QED
  BY <1>1, <1>2, <1>3, <1>4 DEF EntryInv

LEMMA EndKeeps ==
  ASSUME EntryInv, user_end_of_order
  PROVE  EntryInv'
<1>1. /\ announced # <<>> /\ announced' = Tail(announced)
      /\ open_orders' = {o \in open_orders : Key(o.call) # Head(announced)}
      /\ UNCHANGED <<resting, deleting, calls, reused>>
  BY DEF user_end_of_order, remove_order_entry
<1>2. /\ announced' \in Seq(Keys)
      /\ Among(Head(announced), announced)
      /\ \A key : Among(key, announced') => Among(key, announced)
      /\ \A key : Among(key, announced) => key = Head(announced) \/ Among(key, announced')
  BY <1>1, AmongTail DEF EntryInv
<1> QED
  BY <1>1, <1>2, RemovalKeeps

LEMMA ReturnKeeps ==
  ASSUME EntryInv, NEW f \in deleting, CancelReturns(f)
  PROVE  EntryInv'
<1>1. /\ deleting' = deleting \ {f}
      /\ open_orders' = {o \in open_orders : Key(o.call) # Key(f.call)}
      /\ UNCHANGED <<resting, announced, calls, reused>>
  BY DEF CancelReturns, remove_order_entry
<1>2. announced' \in Seq(Keys)
  BY <1>1 DEF EntryInv
<1> QED
  BY <1>1, <1>2, RemovalKeeps

LEMMA EntryInvariance == Spec => []EntryInv
<1>1. Init => EntryInv
  BY DEF Init, EntryInv, IInv, EndsAreTold, OneEntryPerKey, AllExact, Tracked
<1>2. EntryInv /\ [Next]_vars => EntryInv'
  <2>1. CASE UNCHANGED vars
    BY <2>1 DEF EntryInv, IInv, EndsAreTold, OneEntryPerKey, AllExact, Tracked, vars
  <2> QED
    BY <2>1, PlaceKeeps, FillKeeps, EndKeeps, CancelKeeps, ReturnKeeps DEF Next
<1> QED
  BY <1>1, <1>2, PTL DEF Spec

\* Whatever is placed, filled and cancelled: once the messages are handled,
\* an entry without its order is one whose price or size was not exact.
THEOREM LeftBehind == Spec => []OnlyInexactLeftBehind
<1>1. EntryInv => OnlyInexactLeftBehind
  BY DEF EntryInv, EndsAreTold, OnlyInexactLeftBehind, Among
<1> QED
  BY <1>1, EntryInvariance, PTL

\* As long as every price and size was exact, an order that rests has its
\* entry, or its key was used again while the end of an earlier order was on
\* its way there.
THEOREM ExactIsTracked == Spec => []TrackedUnlessInexact
<1>1. EntryInv => TrackedUnlessInexact
  BY DEF EntryInv, Tracked, AllExact, TrackedUnlessInexact
<1> QED
  BY <1>1, EntryInvariance, PTL
=============================================================================
