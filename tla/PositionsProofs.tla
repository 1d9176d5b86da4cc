--------------------------- MODULE PositionsProofs --------------------------
(***************************************************************************)
(* Proofs about Positions, for any markets, sizes and number of trades and *)
(* whatever the queue of the user channel holds.  The positions map and    *)
(* the account are related through the messages still queued: the          *)
(* invariant says that there is a path, one account per message, that      *)
(* leads from the map through the queued trades to what the account holds  *)
(* (less what was untold).  The path is a witness, not a sum, so a message *)
(* appended or taken off prolongs it or cuts it.                           *)
(***************************************************************************)
EXTENDS Positions, SequenceTheorems, WellFoundedInduction, TLAPS

-----------------------------------------------------------------------------
(* What the two folds add up for the trades that occur: one slice or two.  *)

\* A slice added to a saturating sum, and to an exact one.
Take(sum, s, asset, side) ==
  IF s.ours /\ s.asset = asset /\ s.side = side
  THEN saturating_add(sum, s.amount) ELSE sum
Count(sum, s, asset, side) ==
  IF s.ours /\ s.asset = asset /\ s.side = side THEN sum + s.amount ELSE sum

LEMMA MaxOfOneTwo ==
  /\ Max({1}) = 1
  /\ Max({2}) = 2
  /\ Max({1, 2}) = 2
<1>1. \A y \in {1, 2} : 2 >= y
  OBVIOUS
<1>2. Max({1}) = 1 /\ Max({2}) = 2
  BY DEF Max
<1>3. ~(1 >= 2)
  OBVIOUS
<1>4. Max({1, 2}) = 2
  BY <1>1, <1>3 DEF Max
<1> QED
  BY <1>2, <1>4

LEMMA SubsetsOfOneTwo ==
  /\ SUBSET {1} = {{}, {1}}
  /\ SUBSET {1, 2} = {{}, {1}, {2}, {1, 2}}
  BY ZenonT(60)

LEMMA OwnAmountOne ==
  ASSUME NEW s, NEW asset, NEW side
  PROVE  own_amount(<<s>>, asset, side) = Take(0, s, asset, side)
<1> DEFINE slices == <<s>>
           Eq(f) == f = [t \in SUBSET (DOMAIN slices) |->
                      IF t = {} THEN 0
                      ELSE LET x == Max(t) IN Take(f[t \ {x}], slices[x], asset, side)]
           g == [t \in SUBSET {1} |->
                   IF t = {} THEN 0 ELSE Take(0, s, asset, side)]
           it == CHOOSE f : Eq(f)
<1>1. DOMAIN slices = {1} /\ slices[1] = s
  OBVIOUS
<1>2. own_amount(slices, asset, side) = it[DOMAIN slices]
  BY DEF own_amount, FoldLeft, MapThenFoldSet, Take
<1>3. {1} \ {1} = {}
  OBVIOUS
<1>4. Eq(g)
  <2>1. g[{}] = 0 /\ g[{1}] = Take(0, s, asset, side)
    BY SubsetsOfOneTwo
  <2>2. ASSUME NEW t \in SUBSET {1}
        PROVE  g[t] = IF t = {} THEN 0
                      ELSE Take(g[t \ {Max(t)}], slices[Max(t)], asset, side)
    <3> HIDE DEF g, slices
    <3>1. CASE t = {}
      BY <2>1, <3>1
    <3>2. CASE t = {1}
      BY <1>1, <1>3, <2>1, <3>2, MaxOfOneTwo
    <3> QED
      BY <3>1, <3>2, SubsetsOfOneTwo
  <2> HIDE DEF slices
  <2> QED
    BY <1>1, <2>2
<1>5. Eq(it)
  BY <1>4
<1> HIDE DEF it, slices
<1>6. \A t \in SUBSET {1} :
        it[t] = IF t = {} THEN 0
                ELSE Take(it[t \ {Max(t)}], slices[Max(t)], asset, side)
  BY <1>1, <1>5
<1>7. it[{}] = 0
  BY <1>6
<1>8. it[{1}] = Take(it[{1} \ {Max({1})}], slices[Max({1})], asset, side)
  BY <1>6
<1> QED
  BY <1>1, <1>2, <1>3, <1>7, <1>8, MaxOfOneTwo DEF slices

LEMMA OwnAmountTwo ==
  ASSUME NEW s, NEW r, NEW asset, NEW side
  PROVE  own_amount(<<s, r>>, asset, side)
           = Take(Take(0, s, asset, side), r, asset, side)
<1> DEFINE slices == <<s, r>>
           Eq(f) == f = [t \in SUBSET (DOMAIN slices) |->
                      IF t = {} THEN 0
                      ELSE LET x == Max(t) IN Take(f[t \ {x}], slices[x], asset, side)]
           first == Take(0, s, asset, side)
           g == [t \in SUBSET {1, 2} |->
                   IF t = {} THEN 0
                   ELSE IF t = {1} THEN first
                   ELSE IF t = {2} THEN Take(0, r, asset, side)
                   ELSE Take(first, r, asset, side)]
           it == CHOOSE f : Eq(f)
<1>1. DOMAIN slices = {1, 2} /\ slices[1] = s /\ slices[2] = r
  OBVIOUS
<1>2. own_amount(slices, asset, side) = it[DOMAIN slices]
  BY DEF own_amount, FoldLeft, MapThenFoldSet, Take
<1>3. /\ {1} \ {1} = {} /\ {2} \ {2} = {}
      /\ {1, 2} \ {2} = {1}
  OBVIOUS
<1>4. Eq(g)
  <2>1. /\ g[{}] = 0
        /\ g[{1}] = first
        /\ g[{2}] = Take(0, r, asset, side)
        /\ g[{1, 2}] = Take(first, r, asset, side)
    BY SubsetsOfOneTwo
  <2>2. ASSUME NEW t \in SUBSET {1, 2}
        PROVE  g[t] = IF t = {} THEN 0
                      ELSE Take(g[t \ {Max(t)}], slices[Max(t)], asset, side)
    <3> HIDE DEF g, slices
    <3>1. CASE t = {}
      BY <2>1, <3>1
    <3>2. CASE t = {1}
      BY <1>1, <1>3, <2>1, <3>2, MaxOfOneTwo
    <3>3. CASE t = {2}
      BY <1>1, <1>3, <2>1, <3>3, MaxOfOneTwo
    <3>4. CASE t = {1, 2}
      BY <1>1, <1>3, <2>1, <3>4, MaxOfOneTwo
    <3> QED
      BY <3>1, <3>2, <3>3, <3>4, SubsetsOfOneTwo
  <2> HIDE DEF slices
  <2> QED
    BY <1>1, <2>2
<1>5. Eq(it)
  BY <1>4
<1> HIDE DEF it, slices
<1>6. \A t \in SUBSET {1, 2} :
        it[t] = IF t = {} THEN 0
                ELSE Take(it[t \ {Max(t)}], slices[Max(t)], asset, side)
  BY <1>1, <1>5
<1>7. it[{}] = 0
  BY <1>6
<1>8. it[{1}] = Take(it[{1} \ {Max({1})}], slices[Max({1})], asset, side)
  BY <1>6
<1>9. it[{1, 2}] = Take(it[{1, 2} \ {Max({1, 2})}], slices[Max({1, 2})], asset, side)
  BY <1>6
<1> QED
  BY <1>1, <1>2, <1>3, <1>7, <1>8, <1>9, MaxOfOneTwo DEF slices

LEMMA OwnedOne ==
  ASSUME NEW s, NEW asset, NEW side
  PROVE  Owned(<<s>>, asset, side) = Count(0, s, asset, side)
<1> DEFINE slices == <<s>>
           Eq(f) == f = [t \in SUBSET (DOMAIN slices) |->
                      IF t = {} THEN 0
                      ELSE LET x == Max(t) IN Count(f[t \ {x}], slices[x], asset, side)]
           g == [t \in SUBSET {1} |->
                   IF t = {} THEN 0 ELSE Count(0, s, asset, side)]
           it == CHOOSE f : Eq(f)
<1>1. DOMAIN slices = {1} /\ slices[1] = s
  OBVIOUS
<1>2. Owned(slices, asset, side) = it[DOMAIN slices]
  BY DEF Owned, FoldLeft, MapThenFoldSet, Count
<1>3. {1} \ {1} = {}
  OBVIOUS
<1>4. Eq(g)
  <2>1. g[{}] = 0 /\ g[{1}] = Count(0, s, asset, side)
    BY SubsetsOfOneTwo
  <2>2. ASSUME NEW t \in SUBSET {1}
        PROVE  g[t] = IF t = {} THEN 0
                      ELSE Count(g[t \ {Max(t)}], slices[Max(t)], asset, side)
    <3> HIDE DEF g, slices
    <3>1. CASE t = {}
      BY <2>1, <3>1
    <3>2. CASE t = {1}
      BY <1>1, <1>3, <2>1, <3>2, MaxOfOneTwo
    <3> QED
      BY <3>1, <3>2, SubsetsOfOneTwo
  <2> HIDE DEF slices
  <2> QED
    BY <1>1, <2>2
<1>5. Eq(it)
  BY <1>4
<1> HIDE DEF it, slices
<1>6. \A t \in SUBSET {1} :
        it[t] = IF t = {} THEN 0
                ELSE Count(it[t \ {Max(t)}], slices[Max(t)], asset, side)
  BY <1>1, <1>5
<1>7. it[{}] = 0
  BY <1>6
<1>8. it[{1}] = Count(it[{1} \ {Max({1})}], slices[Max({1})], asset, side)
  BY <1>6
<1> QED
  BY <1>1, <1>2, <1>3, <1>7, <1>8, MaxOfOneTwo DEF slices

LEMMA OwnedTwo ==
  ASSUME NEW s, NEW r, NEW asset, NEW side
  PROVE  Owned(<<s, r>>, asset, side)
           = Count(Count(0, s, asset, side), r, asset, side)
<1> DEFINE slices == <<s, r>>
           Eq(f) == f = [t \in SUBSET (DOMAIN slices) |->
                      IF t = {} THEN 0
                      ELSE LET x == Max(t) IN Count(f[t \ {x}], slices[x], asset, side)]
           first == Count(0, s, asset, side)
           g == [t \in SUBSET {1, 2} |->
                   IF t = {} THEN 0
                   ELSE IF t = {1} THEN first
                   ELSE IF t = {2} THEN Count(0, r, asset, side)
                   ELSE Count(first, r, asset, side)]
           it == CHOOSE f : Eq(f)
<1>1. DOMAIN slices = {1, 2} /\ slices[1] = s /\ slices[2] = r
  OBVIOUS
<1>2. Owned(slices, asset, side) = it[DOMAIN slices]
  BY DEF Owned, FoldLeft, MapThenFoldSet, Count
<1>3. /\ {1} \ {1} = {} /\ {2} \ {2} = {}
      /\ {1, 2} \ {2} = {1}
  OBVIOUS
<1>4. Eq(g)
  <2>1. /\ g[{}] = 0
        /\ g[{1}] = first
        /\ g[{2}] = Count(0, r, asset, side)
        /\ g[{1, 2}] = Count(first, r, asset, side)
    BY SubsetsOfOneTwo
  <2>2. ASSUME NEW t \in SUBSET {1, 2}
        PROVE  g[t] = IF t = {} THEN 0
                      ELSE Count(g[t \ {Max(t)}], slices[Max(t)], asset, side)
    <3> HIDE DEF g, slices
    <3>1. CASE t = {}
      BY <2>1, <3>1
    <3>2. CASE t = {1}
      BY <1>1, <1>3, <2>1, <3>2, MaxOfOneTwo
    <3>3. CASE t = {2}
      BY <1>1, <1>3, <2>1, <3>3, MaxOfOneTwo
    <3>4. CASE t = {1, 2}
      BY <1>1, <1>3, <2>1, <3>4, MaxOfOneTwo
    <3> QED
      BY <3>1, <3>2, <3>3, <3>4, SubsetsOfOneTwo
  <2> HIDE DEF slices
  <2> QED
    BY <1>1, <2>2
<1>5. Eq(it)
  BY <1>4
<1> HIDE DEF it, slices
<1>6. \A t \in SUBSET {1, 2} :
        it[t] = IF t = {} THEN 0
                ELSE Count(it[t \ {Max(t)}], slices[Max(t)], asset, side)
  BY <1>1, <1>5
<1>7. it[{}] = 0
  BY <1>6
<1>8. it[{1}] = Count(it[{1} \ {Max({1})}], slices[Max({1})], asset, side)
  BY <1>6
<1>9. it[{1, 2}] = Count(it[{1, 2} \ {Max({1, 2})}], slices[Max({1, 2})], asset, side)
  BY <1>6
<1> QED
  BY <1>1, <1>2, <1>3, <1>7, <1>8, <1>9, MaxOfOneTwo DEF slices

LEMMA MinOfTwo ==
  ASSUME NEW x \in Int, NEW y \in Int
  PROVE  Min({x, y}) = IF x <= y THEN x ELSE y
<1>1. CASE x <= y
  <2>1. \A z \in {x, y} : x <= z
    BY <1>1
  <2> QED
    BY <1>1, <2>1 DEF Min
<1>2. CASE y < x
  <2>1. (\A z \in {x, y} : y <= z) /\ ~(x <= y)
    BY <1>2
  <2> QED
    BY <1>2, <2>1 DEF Min
<1> QED
  BY <1>1, <1>2

LEMMA MaxOfTwo ==
  ASSUME NEW x \in Int, NEW y \in Int
  PROVE  Max({x, y}) = IF x >= y THEN x ELSE y
<1>1. CASE x >= y
  <2>1. \A z \in {x, y} : x >= z
    BY <1>1
  <2> QED
    BY <1>1, <2>1 DEF Max
<1>2. CASE y > x
  <2>1. (\A z \in {x, y} : y >= z) /\ ~(x >= y)
    BY <1>2
  <2> QED
    BY <1>2, <2>1 DEF Max
<1> QED
  BY <1>1, <1>2

LEMMA Saturating ==
  ASSUME NEW x \in Int, NEW y \in Int
  PROVE  /\ saturating_add(x, y) = IF x + y <= MaxU32 THEN x + y ELSE MaxU32
         /\ saturating_sub(x, y) = IF x >= y THEN x - y ELSE 0
  BY MinOfTwo, MaxOfTwo, PositionsAssumption DEF saturating_add, saturating_sub

-----------------------------------------------------------------------------
(* Trades and messages                                                     *)

\* What the exchange reports, for sizes it deals in.
Slices == {<<s>> : s \in Slice} \cup {<<s, r>> : s, r \in Slice}
Trades ==
  {t \in Slices :
     \A a \in Assets, side \in {"BUY", "SELL"} : Owned(t, a, side) <= MaxU32}
Messages == [status : {"MATCHED", "MINED", "FAILED"}, slices : Trades]

LEMMA SliceAmount ==
  ASSUME NEW s \in Slice
  PROVE  s.amount \in Nat
  BY PositionsAssumption DEF Slice

\* Own slices add up to a number, in both sums.
LEMMA Numbers ==
  ASSUME NEW t \in Slices, NEW a, NEW side
  PROVE  /\ Owned(t, a, side) \in Nat
         /\ own_amount(t, a, side) \in Nat
         /\ Owned(t, a, side) <= MaxU32 => own_amount(t, a, side) = Owned(t, a, side)
<1>1. ASSUME NEW s \in Slice, t = <<s>>
      PROVE  /\ Owned(t, a, side) \in Nat
             /\ own_amount(t, a, side) \in Nat
             /\ Owned(t, a, side) <= MaxU32 =>
                  own_amount(t, a, side) = Owned(t, a, side)
  <2>0. s.amount \in Nat /\ 0 \in Int /\ s.amount \in Int
    BY SliceAmount
  <2>1. saturating_add(0, s.amount) = IF s.amount <= MaxU32 THEN s.amount ELSE MaxU32
    <3>1. saturating_add(0, s.amount) = IF 0 + s.amount <= MaxU32 THEN 0 + s.amount ELSE MaxU32
      BY <2>0, Saturating
    <3> QED
      BY <2>0, <3>1
  <2> QED
    BY <1>1, <2>1, SliceAmount, OwnAmountOne, OwnedOne, PositionsAssumption
       DEF Take, Count
<1>2. ASSUME NEW s \in Slice, NEW r \in Slice, t = <<s, r>>
      PROVE  /\ Owned(t, a, side) \in Nat
             /\ own_amount(t, a, side) \in Nat
             /\ Owned(t, a, side) <= MaxU32 =>
                  own_amount(t, a, side) = Owned(t, a, side)
  <2> DEFINE x == Take(0, s, a, side)
             y == Count(0, s, a, side)
  <2>0. s.amount \in Nat /\ 0 \in Int /\ s.amount \in Int
    BY SliceAmount
  <2>1. saturating_add(0, s.amount) = IF s.amount <= MaxU32 THEN s.amount ELSE MaxU32
    <3>1. saturating_add(0, s.amount) = IF 0 + s.amount <= MaxU32 THEN 0 + s.amount ELSE MaxU32
      BY <2>0, Saturating
    <3> QED
      BY <2>0, <3>1
  <2>2. x \in Nat /\ y \in Nat /\ (y <= MaxU32 => x = y)
    BY <2>1, SliceAmount, PositionsAssumption DEF Take, Count
  <2>3. own_amount(t, a, side) = Take(x, r, a, side)
    BY <1>2, OwnAmountTwo
  <2>4. Owned(t, a, side) = Count(y, r, a, side)
    BY <1>2, OwnedTwo
  <2> HIDE DEF x, y
  <2>5. saturating_add(x, r.amount)
          = IF x + r.amount <= MaxU32 THEN x + r.amount ELSE MaxU32
    <3>1. x \in Int /\ r.amount \in Int
      BY <2>2, SliceAmount
    <3> QED
      BY <3>1, Saturating
  <2> QED
    BY <2>2, <2>3, <2>4, <2>5, SliceAmount, PositionsAssumption DEF Take, Count
<1> QED
  BY <1>1, <1>2 DEF Slices

\* For a trade both are the same, and fit a u32.
LEMMA TradeNumbers ==
  ASSUME NEW t \in Trades, NEW a \in Assets, NEW side \in {"BUY", "SELL"}
  PROVE  /\ Owned(t, a, side) \in 0..MaxU32
         /\ own_amount(t, a, side) = Owned(t, a, side)
  BY Numbers, PositionsAssumption DEF Trades

-----------------------------------------------------------------------------
(* The invariant                                                           *)

\* What handling a message adds to the size of an asset.
Gains(m, a) == IF m.status = "MATCHED" THEN Gain(m.slices, a) ELSE 0

\* The account had n of a when the trade was made.
Fits(m, a, n) ==
  m.status = "MATCHED" =>
    Owned(m.slices, a, "SELL") <= n /\ n + Owned(m.slices, a, "BUY") <= MaxU32

\* How what the messages say leads from x to y: exactly or, if shares may have
\* been converted, to no less of YES and no more of NO.
Leads(exact, a, x, y) ==
  IF exact THEN x = y ELSE IF a[2] = "YES" THEN x <= y ELSE x >= y

\* From sizes, the messages in the queue lead to what is held, through h; if
\* they fit, each trade was possible where it stands in the queue.
Path(h, q, sizes, held, exact, fit) ==
  /\ h \in [0..Len(q) -> [Assets -> Int]]
  /\ h[Len(q)] = held
  /\ \A a \in Assets : Leads(exact, a, sizes[a], h[0][a])
  /\ \A i \in 1..Len(q), a \in Assets :
       /\ Leads(exact, a, h[i - 1][a] + Gains(q[i], a), h[i][a])
       /\ fit => Fits(q[i], a, h[i - 1][a])

TypeInv ==
  /\ TypeOK
  /\ user_trades \in Seq(Messages)
  /\ settling \subseteq Trades

\* What the messages lead to is the account, less what was untold.
ToldInv ==
  (~clipped /\ ~converted) =>
    \E h : Path(h, user_trades, positions,
                [a \in Assets |-> account[a] - untold[a]], TRUE, FALSE)

\* If everything is told they lead to the account itself, if only in one
\* direction once shares have been converted.
AheadInv ==
  all_told =>
    /\ \E h : Path(h, user_trades, positions, account, ~converted, TRUE)
    /\ ~converted => ~clipped

Inv == TypeInv /\ ToldInv /\ AheadInv /\ LogAgrees

LEMMA GainsInt ==
  ASSUME NEW m \in Messages, NEW a \in Assets
  PROVE  Gains(m, a) \in Int
<1>1. m.slices \in Trades
  BY DEF Messages
<1>2. Owned(m.slices, a, "BUY") \in Int /\ Owned(m.slices, a, "SELL") \in Int
  BY <1>1, TradeNumbers, PositionsAssumption
<1> QED
  BY <1>2 DEF Gains, Gain

\* A path is prolonged by a message.
LEMMA PathAppend ==
  ASSUME NEW q \in Seq(Messages), NEW m \in Messages,
         NEW sizes, NEW held \in [Assets -> Int], NEW held2 \in [Assets -> Int],
         NEW exact \in BOOLEAN, NEW fit \in BOOLEAN,
         \E h : Path(h, q, sizes, held, exact, fit),
         \A a \in Assets : /\ Leads(exact, a, held[a] + Gains(m, a), held2[a])
                           /\ fit => Fits(m, a, held[a])
  PROVE  \E h : Path(h, Append(q, m), sizes, held2, exact, fit)
<1>1. PICK h : Path(h, q, sizes, held, exact, fit)
  OBVIOUS
<1> DEFINE p == Append(q, m)
           n == Len(q)
           g == [i \in 0..(n + 1) |-> IF i <= n THEN h[i] ELSE held2]
<1>2. /\ n \in Nat /\ Len(p) = n + 1
      /\ \A i \in 1..n : p[i] = q[i]
      /\ p[n + 1] = m
  BY AppendProperties, LenProperties
<1>3. /\ h \in [0..n -> [Assets -> Int]]
      /\ h[n] = held
      /\ \A a \in Assets : Leads(exact, a, sizes[a], h[0][a])
      /\ \A i \in 1..n, a \in Assets :
           /\ Leads(exact, a, h[i - 1][a] + Gains(q[i], a), h[i][a])
           /\ fit => Fits(q[i], a, h[i - 1][a])
  BY <1>1 DEF Path
<1> HIDE DEF n, p
<1>4. /\ g \in [0..Len(p) -> [Assets -> Int]]
      /\ g[Len(p)] = held2
      /\ \A i \in 0..n : g[i] = h[i]
  BY <1>2, <1>3
<1>5. ASSUME NEW i \in 1..Len(p), NEW a \in Assets
      PROVE  /\ Leads(exact, a, g[i - 1][a] + Gains(p[i], a), g[i][a])
             /\ fit => Fits(p[i], a, g[i - 1][a])
  <2> HIDE DEF g
  <2>1. CASE i = n + 1
    <3>1. g[i - 1] = held /\ g[i] = held2 /\ p[i] = m
      BY <1>2, <1>3, <1>4, <2>1
    <3> QED
      BY <3>1
  <2>2. CASE i # n + 1
    <3>1. i \in 1..n /\ i - 1 \in 0..n /\ i \in 0..n
      BY <1>2, <2>2
    <3>2. g[i - 1] = h[i - 1] /\ g[i] = h[i] /\ p[i] = q[i]
      BY <1>2, <1>4, <3>1
    <3> QED
      BY <1>3, <3>1, <3>2
  <2> QED
    BY <2>1, <2>2
<1>6. \A a \in Assets : Leads(exact, a, sizes[a], g[0][a])
  BY <1>2, <1>3, <1>4
<1> HIDE DEF g
<1>7. Path(g, p, sizes, held2, exact, fit)
  BY <1>4, <1>5, <1>6 DEF Path
<1> QED
  BY <1>7 DEF p

\* It loses its first message, once the sizes are where that leads.
LEMMA PathTail ==
  ASSUME NEW q \in Seq(Messages), q # <<>>,
         NEW h, NEW sizes, NEW sizes2, NEW held,
         NEW exact \in BOOLEAN, NEW fit \in BOOLEAN,
         Path(h, q, sizes, held, exact, fit),
         \A a \in Assets : Leads(exact, a, sizes2[a], h[1][a])
  PROVE  \E g : Path(g, Tail(q), sizes2, held, exact, fit)
<1> DEFINE p == Tail(q)
           n == Len(q)
           g == [i \in 0..(n - 1) |-> h[i + 1]]
<1>1. /\ n \in Nat \ {0} /\ Len(p) = n - 1
      /\ \A i \in 1..(n - 1) : p[i] = q[i + 1]
  BY HeadTailProperties, LenProperties, EmptySeq
<1>2. /\ h \in [0..n -> [Assets -> Int]]
      /\ h[n] = held
      /\ \A i \in 1..n, a \in Assets :
           /\ Leads(exact, a, h[i - 1][a] + Gains(q[i], a), h[i][a])
           /\ fit => Fits(q[i], a, h[i - 1][a])
  BY DEF Path
<1> HIDE DEF n, p
<1>3. /\ g \in [0..Len(p) -> [Assets -> Int]]
      /\ g[Len(p)] = held
      /\ g[0] = h[1]
      /\ \A i \in 0..(n - 1) : g[i] = h[i + 1]
  BY <1>1, <1>2
<1> HIDE DEF g
<1>4. ASSUME NEW i \in 1..Len(p), NEW a \in Assets
      PROVE  /\ Leads(exact, a, g[i - 1][a] + Gains(p[i], a), g[i][a])
             /\ fit => Fits(p[i], a, g[i - 1][a])
  <2>1. i + 1 \in 1..n /\ i - 1 \in 0..(n - 1) /\ i \in 0..(n - 1)
    BY <1>1
  <2>2. g[i - 1] = h[(i + 1) - 1] /\ g[i] = h[i + 1] /\ p[i] = q[i + 1]
    BY <1>1, <1>3, <2>1
  <2> QED
    BY <1>2, <2>1, <2>2
<1>5. Path(g, p, sizes2, held, exact, fit)
  BY <1>3, <1>4 DEF Path
<1> QED
  BY <1>5 DEF p

\* It becomes one-sided when shares are converted.
LEMMA PathConvert ==
  ASSUME NEW q \in Seq(Messages), NEW sizes \in [Assets -> Int],
         NEW held \in [Assets -> Int], NEW held2 \in [Assets -> Int],
         NEW exact \in BOOLEAN,
         \E h : Path(h, q, sizes, held, exact, TRUE),
         \A a \in Assets : Leads(FALSE, a, held[a], held2[a])
  PROVE  \E h : Path(h, q, sizes, held2, FALSE, TRUE)
<1>1. PICK h : Path(h, q, sizes, held, exact, TRUE)
  OBVIOUS
<1> DEFINE n == Len(q)
           g == [i \in 0..n |-> IF i = n THEN held2 ELSE h[i]]
<1>2. n \in Nat
  BY LenProperties
<1>3. /\ h \in [0..n -> [Assets -> Int]]
      /\ h[n] = held
      /\ \A a \in Assets : Leads(exact, a, sizes[a], h[0][a])
      /\ \A i \in 1..n, a \in Assets :
           /\ Leads(exact, a, h[i - 1][a] + Gains(q[i], a), h[i][a])
           /\ Fits(q[i], a, h[i - 1][a])
  BY <1>1 DEF Path
<1> HIDE DEF n
<1>4. g \in [0..n -> [Assets -> Int]] /\ g[n] = held2
  BY <1>2, <1>3
<1>5. \A i \in 0..n, a \in Assets :
        g[i][a] \in Int /\ h[i][a] \in Int /\ Leads(FALSE, a, h[i][a], g[i][a])
  BY <1>2, <1>3 DEF Leads
<1>6. \A i \in 1..n : i - 1 \in 0..n /\ i \in 0..n /\ g[i - 1] = h[i - 1]
  BY <1>2
<1> HIDE DEF g
<1>7. ASSUME NEW i \in 1..n, NEW a \in Assets
      PROVE  /\ Leads(FALSE, a, g[i - 1][a] + Gains(q[i], a), g[i][a])
             /\ Fits(q[i], a, g[i - 1][a])
  <2>1. q[i] \in Messages
    BY ElementOfSeq DEF n
  <2>2. Gains(q[i], a) \in Int
    BY <2>1, GainsInt
  <2>3. h[i - 1][a] + Gains(q[i], a) \in Int /\ g[i][a] \in Int /\ h[i][a] \in Int
    <3>1. i - 1 \in 0..n /\ i \in 0..n
      BY <1>6
    <3>2. h[i - 1][a] \in Int /\ g[i][a] \in Int /\ h[i][a] \in Int
      BY <1>5, <3>1
    <3> QED
      BY <2>2, <3>2
  <2>4. Leads(FALSE, a, h[i - 1][a] + Gains(q[i], a), h[i][a])
    BY <1>3, <2>3 DEF Leads
  <2>5. Leads(FALSE, a, h[i][a], g[i][a])
    BY <1>5, <1>6
  <2>6. Leads(FALSE, a, h[i - 1][a] + Gains(q[i], a), g[i][a])
    BY <2>3, <2>4, <2>5 DEF Leads
  <2> QED
    BY <1>3, <1>6, <2>6
<1>8. ASSUME NEW a \in Assets
      PROVE  Leads(FALSE, a, sizes[a], g[0][a])
  <2>1. 0 \in 0..n /\ sizes[a] \in Int
    BY <1>2
  <2>2. g[0][a] \in Int /\ h[0][a] \in Int /\ Leads(FALSE, a, h[0][a], g[0][a])
    BY <1>5, <2>1
  <2> QED
    BY <1>3, <2>1, <2>2 DEF Leads
<1>9. Path(g, q, sizes, held2, FALSE, TRUE)
  BY <1>4, <1>7, <1>8 DEF Path, n
<1> QED
  BY <1>9


-----------------------------------------------------------------------------
(* The steps                                                               *)

LEMMA QueueTypes ==
  ASSUME NEW q \in Seq(Messages)
  PROVE  \A i \in DOMAIN q : q[i].status \in {"MATCHED", "MINED", "FAILED"}
<1>1. \A i \in DOMAIN q : q[i] \in Messages
  BY LenProperties, ElementOfSeq
<1> QED
  BY <1>1 DEF Messages

LEMMA Initial == Init => Inv
<1> SUFFICES ASSUME Init PROVE Inv
  OBVIOUS
<1>1. PICK n \in {0, 1} : account = [a \in Assets |-> IF a \in Traded THEN n ELSE 0]
  BY DEF Init
<1>2. account \in [Assets -> 0..MaxU32]
  BY <1>1, PositionsAssumption
<1>0. PICK read \in SUBSET Assets :
        positions = [a \in Assets |-> IF a \in read THEN account[a] ELSE 0]
  BY DEF Init
<1>11. positions \in [Assets -> 0..MaxU32]
  BY <1>0, <1>2, PositionsAssumption
<1>3. TypeInv
  <2>1. user_trades \in Seq(Messages) /\ settling \subseteq Trades
    BY EmptySeq DEF Init
  <2>2. positions \in [Assets -> 0..MaxU32] /\ logged \in [Assets -> Int]
    BY <1>11 DEF Init
  <2>3. /\ trades \in 0..MaxTrades
        /\ untold \in [Assets -> Int]
        /\ {subscribed, converted, all_told, clipped} \subseteq BOOLEAN
    <3>1. trades \in 0..MaxTrades /\ untold \in [Assets -> Int]
      BY <1>2, <1>11, PositionsAssumption DEF Init
    <3>2. {subscribed, converted, all_told, clipped} \subseteq BOOLEAN
      BY DEF Init
    <3> QED
      BY <3>1, <3>2
  <2> QED
    BY <1>2, <2>1, <2>2, <2>3, QueueTypes DEF TypeInv, TypeOK
<1> DEFINE h == [i \in 0..0 |-> positions]
<1>4. /\ h \in [0..0 -> [Assets -> Int]]
      /\ h[0] = positions
      /\ user_trades = <<>> /\ Len(user_trades) = 0 /\ 1..0 = {}
  BY <1>11, EmptySeq DEF Init
<1>5. \A a \in Assets, exact \in BOOLEAN : Leads(exact, a, positions[a], h[0][a])
  BY <1>4, <1>11 DEF Leads
<1>6. [a \in Assets |-> account[a] - untold[a]] = positions
  BY <1>2, <1>11 DEF Init
<1> HIDE DEF h
<1>7. \A exact, fit \in BOOLEAN :
        Path(h, user_trades, positions, positions, exact, fit)
  BY <1>4, <1>5 DEF Path
<1>8. ToldInv
  BY <1>6, <1>7 DEF ToldInv
<1>9. AheadInv
  BY <1>7 DEF AheadInv, Init
<1>10. LogAgrees
  BY DEF Init, LogAgrees
<1> QED
  BY <1>3, <1>8, <1>9, <1>10 DEF Inv

\* How the sizes change with a trade.
LEMMA Applied ==
  ASSUME TypeInv, NEW t \in Trades, apply_trade(t)
  PROVE  /\ positions' \in [Assets -> 0..MaxU32]
         /\ logged' \in [Assets -> Int]
         /\ clipped' \in BOOLEAN
         /\ ~clipped' =>
              /\ ~clipped
              /\ \A a \in Assets :
                   /\ positions'[a] = positions[a] + Gain(t, a)
                   /\ logged'[a] = logged[a] + Gain(t, a)
         /\ \A a \in Assets :
              positions'[a] = saturating_sub(
                saturating_add(positions[a], Owned(t, a, "BUY")), Owned(t, a, "SELL"))
<1>1. /\ positions \in [Assets -> 0..MaxU32]
      /\ logged \in [Assets -> Int]
      /\ clipped \in BOOLEAN /\ MaxU32 \in Nat
  BY PositionsAssumption DEF TypeInv, TypeOK
<1>2. ASSUME NEW a \in Assets
      PROVE  /\ positions'[a] = saturating_sub(
                  saturating_add(positions[a], Owned(t, a, "BUY")), Owned(t, a, "SELL"))
             /\ positions'[a] \in 0..MaxU32
             /\ logged'[a] = logged[a] + Gain(t, a)
             /\ Gain(t, a) \in Int
             /\ ~Saturates(positions[a], t, a) => positions'[a] = positions[a] + Gain(t, a)
  <2> DEFINE B == Owned(t, a, "BUY")
             S == Owned(t, a, "SELL")
             x == saturating_add(positions[a], B)
  <2>1. /\ B \in Nat /\ S \in Nat /\ positions[a] \in 0..MaxU32 /\ logged[a] \in Int
        /\ own_amount(t, a, "BUY") = B /\ own_amount(t, a, "SELL") = S
    BY <1>1, TradeNumbers
  <2>2. positions'[a] = saturating_sub(x, S)
    BY <2>1 DEF apply_trade, apply_position_delta
  <2>3. logged'[a] = logged[a] + (B - S) /\ Gain(t, a) = B - S
    BY <2>1 DEF apply_trade, log_trade_event, Gain
  <2>4. Saturates(positions[a], t, a)
          <=> (positions[a] + B > MaxU32 \/ positions[a] + B < S)
    BY <2>1 DEF Saturates
  <2> HIDE DEF B, S
  <2>5. x = IF positions[a] + B <= MaxU32 THEN positions[a] + B ELSE MaxU32
    BY <1>1, <2>1, Saturating
  <2> HIDE DEF x
  <2>6. x \in 0..MaxU32
    BY <1>1, <2>1, <2>5
  <2>7. saturating_sub(x, S) = IF x >= S THEN x - S ELSE 0
    BY <1>1, <2>1, <2>6, Saturating
  <2> QED
    BY <1>1, <2>1, <2>2, <2>3, <2>4, <2>5, <2>6, <2>7 DEF x, B, S
<1>3. /\ positions' = [a \in Assets |-> positions'[a]]
      /\ logged' = [a \in Assets |-> logged'[a]]
  BY DEF apply_trade
<1>4. \A a \in Assets : logged'[a] \in Int
  BY <1>1, <1>2
<1>5. positions' \in [Assets -> 0..MaxU32] /\ logged' \in [Assets -> Int]
  BY <1>2, <1>3, <1>4
<1>6. clipped' = (clipped \/ \E a \in Assets : Saturates(positions[a], t, a))
  BY DEF apply_trade
<1>7. clipped' \in BOOLEAN
  BY <1>1, <1>6
<1> QED
  BY <1>1, <1>2, <1>5, <1>6, <1>7

\* A trade that fits the sizes the path starts from is applied.
LEMMA AppliedLeads ==
  ASSUME TypeInv, NEW t \in Trades, apply_trade(t), NEW a \in Assets,
         NEW exact \in BOOLEAN, NEW x \in Int, NEW y \in Int,
         Leads(exact, a, positions[a], x),
         Owned(t, a, "SELL") <= x, x + Owned(t, a, "BUY") <= MaxU32,
         Leads(exact, a, x + Gain(t, a), y)
  PROVE  /\ Leads(exact, a, positions'[a], y)
         /\ exact => ~Saturates(positions[a], t, a)
<1> DEFINE B == Owned(t, a, "BUY")
           S == Owned(t, a, "SELL")
           p == positions[a]
           z == saturating_add(p, B)
<1>1. /\ B \in Nat /\ S \in Nat /\ p \in 0..MaxU32 /\ MaxU32 \in Nat
      /\ own_amount(t, a, "BUY") = B /\ own_amount(t, a, "SELL") = S
  BY TradeNumbers, PositionsAssumption DEF TypeInv, TypeOK
<1>2. positions'[a] = saturating_sub(z, S)
  BY Applied
<1>3. Gain(t, a) = B - S
  BY DEF Gain
<1>4. Saturates(p, t, a) <=> (p + B > MaxU32 \/ p + B < S)
  BY <1>1 DEF Saturates
<1>5. /\ Leads(exact, a, p, x) /\ Leads(exact, a, x + (B - S), y)
      /\ S <= x /\ x + B <= MaxU32
  BY <1>3
<1> HIDE DEF B, S, p
<1>6. z = IF p + B <= MaxU32 THEN p + B ELSE MaxU32
  BY <1>1, Saturating
<1> HIDE DEF z
<1>7. z \in 0..MaxU32
  BY <1>1, <1>6
<1>8. saturating_sub(z, S) = IF z >= S THEN z - S ELSE 0
  BY <1>1, <1>7, Saturating
<1>9. CASE exact
  BY <1>1, <1>2, <1>4, <1>5, <1>6, <1>7, <1>8, <1>9 DEF Leads, p
<1>10. CASE ~exact /\ a[2] = "YES"
  <2>1. p <= x /\ x + (B - S) <= y
    BY <1>5, <1>10 DEF Leads
  <2>2. saturating_sub(z, S) <= y
    BY <1>1, <1>5, <1>6, <1>7, <1>8, <2>1
  <2> QED
    BY <1>2, <1>10, <2>2 DEF Leads
<1>11. CASE ~exact /\ a[2] # "YES"
  <2>1. p >= x /\ x + (B - S) >= y
    BY <1>5, <1>11 DEF Leads
  <2>2. saturating_sub(z, S) >= y
    BY <1>1, <1>5, <1>6, <1>7, <1>8, <2>1
  <2> QED
    BY <1>2, <1>11, <2>2 DEF Leads
<1> QED
  BY <1>9, <1>10, <1>11

LEMMA HandleKeeps ==
  ASSUME Inv, poly_handle_user_trade
  PROVE  Inv'
<1> DEFINE m == Head(user_trades)
           t == m.slices
           q == user_trades
<1>1. /\ q \in Seq(Messages) /\ q # <<>> /\ m \in Messages
      /\ q' = Tail(q) /\ q' \in Seq(Messages) /\ q[1] = m
      /\ Len(q) \in Nat /\ Len(q) >= 1
  BY HeadTailProperties, EmptySeq, LenProperties
     DEF Inv, TypeInv, poly_handle_user_trade
<1>2. t \in Trades
  BY <1>1 DEF Messages
<1>3. CASE m.status = "MATCHED"
  <2>1. apply_trade(t)
    BY <1>3 DEF poly_handle_user_trade
  <2>2. UNCHANGED <<subscribed, account, settling, trades, converted, untold, all_told>>
    BY DEF poly_handle_user_trade, history
  <2>3. TypeInv'
    BY <1>1, <1>2, <2>1, <2>2, Applied, QueueTypes DEF Inv, TypeInv, TypeOK
  <2>4. \A a \in Assets : Gains(q[1], a) = Gain(t, a)
    BY <1>1, <1>3 DEF Gains
  <2>5. ToldInv'
    <3> SUFFICES ASSUME ~clipped', ~converted'
                 PROVE  \E h : Path(h, q', positions',
                          [a \in Assets |-> account[a] - untold[a]], TRUE, FALSE)
      BY <2>2 DEF ToldInv
    <3> DEFINE held == [a \in Assets |-> account[a] - untold[a]]
    <3>1. ~clipped /\ ~converted
      BY <1>2, <2>1, <2>2, Applied DEF Inv
    <3>2. PICK h : Path(h, q, positions, held, TRUE, FALSE)
      BY <3>1 DEF Inv, ToldInv
    <3> HIDE DEF held
    <3>3. ASSUME NEW a \in Assets PROVE Leads(TRUE, a, positions'[a], h[1][a])
      <4>1. /\ positions[a] = h[0][a]
            /\ h[1 - 1][a] + Gains(q[1], a) = h[1][a]
        BY <1>1, <3>2 DEF Path, Leads
      <4>2. positions'[a] = positions[a] + Gain(t, a)
        BY <1>2, <2>1, Applied DEF Inv
      <4> QED
        BY <2>4, <4>1, <4>2 DEF Leads
    <3> QED
      BY <1>1, <3>2, <3>3, PathTail DEF held
  <2>6. AheadInv'
    <3> SUFFICES ASSUME all_told
                 PROVE  /\ \E h : Path(h, q', positions', account, ~converted, TRUE)
                        /\ ~converted => ~clipped'
      BY <2>2 DEF AheadInv
    <3>1. PICK h : Path(h, q, positions, account, ~converted, TRUE)
      BY DEF Inv, AheadInv
    <3>2. ASSUME NEW a \in Assets
          PROVE  /\ Leads(~converted, a, positions'[a], h[1][a])
                 /\ ~converted => ~Saturates(positions[a], t, a)
      <4>1. h[0][a] \in Int /\ h[1][a] \in Int
        <5>1. h \in [0..Len(q) -> [Assets -> Int]] /\ 0 \in 0..Len(q) /\ 1 \in 0..Len(q)
          BY <1>1, <3>1 DEF Path
        <5>2. h[0] \in [Assets -> Int] /\ h[1] \in [Assets -> Int]
          BY ONLY <5>1
        <5> QED
          BY <5>2
      <4>2. /\ Leads(~converted, a, positions[a], h[0][a])
            /\ Leads(~converted, a, h[1 - 1][a] + Gains(q[1], a), h[1][a])
            /\ Fits(q[1], a, h[1 - 1][a])
        BY <1>1, <3>1 DEF Path
      <4>3. /\ Owned(t, a, "SELL") <= h[0][a]
            /\ h[0][a] + Owned(t, a, "BUY") <= MaxU32
        BY <1>1, <1>3, <4>2 DEF Fits
      <4>4. Leads(~converted, a, h[0][a] + Gain(t, a), h[1][a])
        BY <2>4, <4>2
      <4>5. (~converted) \in BOOLEAN
        OBVIOUS
      <4> QED
        BY <1>2, <2>1, <4>1, <4>2, <4>3, <4>4, <4>5, AppliedLeads DEF Inv
    <3>3. \E g : Path(g, q', positions', account, ~converted, TRUE)
      BY <1>1, <3>1, <3>2, PathTail
    <3>4. ~converted => ~clipped'
      BY <2>1, <3>2 DEF apply_trade, Inv, AheadInv
    <3> QED
      BY <3>3, <3>4
  <2>7. LogAgrees'
    <3> SUFFICES ASSUME ~clipped' PROVE logged' = positions'
      BY DEF LogAgrees
    <3>1. logged = positions
      BY <1>2, <2>1, Applied DEF Inv, LogAgrees
    <3>2. \A a \in Assets : logged'[a] = positions'[a]
      BY <1>2, <2>1, <3>1, Applied DEF Inv
    <3> QED
      BY <1>2, <2>1, <3>2, Applied DEF Inv
  <2> QED
    BY <2>3, <2>5, <2>6, <2>7 DEF Inv
<1>4. CASE m.status # "MATCHED"
  <2>1. UNCHANGED <<positions, logged, clipped, subscribed, account, settling, trades,
                    converted, untold, all_told>>
    BY <1>4 DEF poly_handle_user_trade, history, program
  <2>2. TypeInv'
    BY <1>1, <2>1, QueueTypes DEF Inv, TypeInv, TypeOK
  <2>3. ASSUME NEW held, NEW exact \in BOOLEAN, NEW fit \in BOOLEAN,
               \E h : Path(h, q, positions, held, exact, fit)
        PROVE  \E h : Path(h, q', positions, held, exact, fit)
    <3>1. PICK h : Path(h, q, positions, held, exact, fit)
      BY <2>3
    <3>2. ASSUME NEW a \in Assets PROVE Leads(exact, a, positions[a], h[1][a])
      <4>1. h[0][a] \in Int /\ h[1][a] \in Int /\ positions[a] \in Int
        <5>1. h[0][a] \in Int /\ h[1][a] \in Int
          <6>1. h \in [0..Len(q) -> [Assets -> Int]] /\ 0 \in 0..Len(q) /\ 1 \in 0..Len(q)
            BY <1>1, <3>1 DEF Path
          <6>2. h[0] \in [Assets -> Int] /\ h[1] \in [Assets -> Int]
            BY ONLY <6>1
          <6> QED
            BY ONLY <6>2, a \in Assets
        <5>2. positions[a] \in Int
          BY PositionsAssumption DEF Inv, TypeInv, TypeOK
        <5> QED
          BY <5>1, <5>2
      <4>2. Gains(q[1], a) = 0
        BY <1>1, <1>4 DEF Gains
      <4>3. /\ Leads(exact, a, positions[a], h[0][a])
            /\ Leads(exact, a, h[1 - 1][a] + Gains(q[1], a), h[1][a])
        BY <1>1, <3>1 DEF Path
      <4>4. Leads(exact, a, h[0][a], h[1][a])
        BY <4>1, <4>2, <4>3
      <4> QED
        BY <4>1, <4>3, <4>4 DEF Leads
    <3> QED
      BY <1>1, <3>1, <3>2, PathTail
  <2>4. ToldInv'
    BY <2>1, <2>3 DEF Inv, ToldInv
  <2>5. AheadInv'
    <3>1. (~converted) \in BOOLEAN
      OBVIOUS
    <3> QED
      BY <2>1, <2>3, <3>1 DEF Inv, AheadInv
  <2>6. LogAgrees'
    BY <2>1 DEF Inv, LogAgrees
  <2> QED
    BY <2>2, <2>4, <2>5, <2>6 DEF Inv
<1> QED
  BY <1>3, <1>4

\* A message after which nothing is held that was not before.
LEMMA AnnounceKeeps ==
  ASSUME Inv, NEW slices \in settling, NEW status \in {"MINED", "FAILED"},
         Announce(status, slices), NEW held \in [Assets -> Int],
         NEW exact \in BOOLEAN, NEW fit \in BOOLEAN,
         \E h : Path(h, user_trades, positions, held, exact, fit)
  PROVE  \E h : Path(h, user_trades', positions, held, exact, fit)
<1> DEFINE m == [status |-> status, slices |-> slices]
<1>1. m \in Messages /\ user_trades \in Seq(Messages)
  BY DEF Inv, TypeInv, Messages
<1>2. CASE subscribed
  <2>1. user_trades' = Append(user_trades, m)
    BY <1>2 DEF Announce
  <2>2. ASSUME NEW a \in Assets
        PROVE  /\ Leads(exact, a, held[a] + Gains(m, a), held[a])
               /\ fit => Fits(m, a, held[a])
    <3>1. held[a] \in Int /\ Gains(m, a) = 0 /\ Fits(m, a, held[a])
      BY DEF Gains, Fits
    <3> QED
      BY <3>1 DEF Leads
  <2> HIDE DEF m
  <2> QED
    BY <1>1, <2>1, <2>2, PathAppend
<1>3. CASE ~subscribed
  BY <1>3 DEF Announce
<1> QED
  BY <1>2, <1>3

LEMMA AnnounceTypes ==
  ASSUME TypeInv, NEW slices \in settling, NEW status \in {"MINED", "FAILED"},
         Announce(status, slices)
  PROVE  /\ user_trades' \in Seq(Messages) /\ settling' \subseteq Trades
<1> DEFINE m == [status |-> status, slices |-> slices]
<1>1. m \in Messages /\ user_trades \in Seq(Messages)
  BY DEF TypeInv, Messages
<1> QED
  BY <1>1, AppendProperties DEF Announce, TypeInv

LEMMA Helds ==
  ASSUME TypeInv
  PROVE  /\ account \in [Assets -> Int]
         /\ [a \in Assets |-> account[a] - untold[a]] \in [Assets -> Int]
  BY PositionsAssumption DEF TypeInv, TypeOK

LEMMA SettleKeeps ==
  ASSUME Inv, Settle
  PROVE  Inv'
<1>1. PICK slices \in settling : Announce("MINED", slices)
  BY DEF Settle
<1>2. UNCHANGED <<positions, logged, clipped, subscribed, account, trades,
                  converted, untold, all_told>>
  BY DEF Settle, program, history
<1>3. TypeInv'
  BY <1>1, <1>2, AnnounceTypes, QueueTypes DEF Inv, TypeInv, TypeOK
<1>4. ToldInv'
  BY <1>1, <1>2, AnnounceKeeps, Helds DEF Inv, ToldInv
<1>5. AheadInv'
  <2>1. (~converted) \in BOOLEAN
    OBVIOUS
  <2> QED
    BY <1>1, <1>2, <2>1, AnnounceKeeps, Helds DEF Inv, AheadInv
<1>6. LogAgrees'
  BY <1>2 DEF Inv, LogAgrees
<1> QED
  BY <1>3, <1>4, <1>5, <1>6 DEF Inv

LEMMA FailKeeps ==
  ASSUME Inv, Fail
  PROVE  Inv'
<1>1. PICK slices \in settling :
        /\ Announce("FAILED", slices)
        /\ account' = [a \in Assets |-> account[a] - Gain(slices, a)]
        /\ \A a \in Assets : account'[a] \in 0..MaxU32
        /\ untold' = [a \in Assets |-> untold[a] - Gain(slices, a)]
        /\ all_told' = FALSE
  BY DEF Fail
<1>2. UNCHANGED <<positions, logged, clipped, subscribed, trades, converted>>
  BY DEF Fail, program
<1>3. \A a \in Assets : /\ Gain(slices, a) \in Int
                        /\ account[a] \in Int /\ untold[a] \in Int
  <2>1. slices \in Trades
    BY DEF Inv, TypeInv
  <2> QED
    BY <2>1, TradeNumbers, PositionsAssumption DEF Gain, Inv, TypeInv, TypeOK
<1>4. account' \in [Assets -> 0..MaxU32] /\ untold' \in [Assets -> Int]
  BY <1>1, <1>3
<1>5. TypeInv'
  <2>1. TypeInv
    BY DEF Inv
  <2>2. user_trades' \in Seq(Messages) /\ settling' \subseteq Trades
    BY <1>1, <2>1, AnnounceTypes
  <2> QED
    BY <1>1, <1>2, <1>4, <2>1, <2>2, QueueTypes DEF TypeInv, TypeOK
<1>6. [a \in Assets |-> account'[a] - untold'[a]]
        = [a \in Assets |-> account[a] - untold[a]]
  <2>1. \A a \in Assets : account'[a] - untold'[a] = account[a] - untold[a]
    BY <1>1, <1>3
  <2> QED
    BY <2>1
<1>7. ToldInv'
  <2> DEFINE held == [a \in Assets |-> account[a] - untold[a]]
  <2>1. held' = held
    BY <1>6
  <2>2. held \in [Assets -> Int]
    BY Helds DEF Inv
  <2> SUFFICES ASSUME ~clipped, ~converted
               PROVE  \E h : Path(h, user_trades', positions, held, TRUE, FALSE)
    BY <1>2, <2>1 DEF ToldInv
  <2>3. \E h : Path(h, user_trades, positions, held, TRUE, FALSE)
    BY DEF Inv, ToldInv
  <2> HIDE DEF held
  <2> QED
    BY <1>1, <2>2, <2>3, AnnounceKeeps
<1>8. AheadInv'
  BY <1>1 DEF AheadInv
<1>9. LogAgrees'
  BY <1>2 DEF Inv, LogAgrees
<1> QED
  BY <1>5, <1>7, <1>8, <1>9 DEF Inv

LEMMA MatchKeeps ==
  ASSUME Inv, NEW slices \in Slices, Match(slices)
  PROVE  Inv'
<1> DEFINE m == [status |-> "MATCHED", slices |-> slices]
           q == user_trades
<1>1. \A a \in Assets :
        /\ Owned(slices, a, "SELL") <= account[a]
        /\ account[a] + Owned(slices, a, "BUY") <= MaxU32
        /\ account[a] \in 0..MaxU32 /\ untold[a] \in Int
  BY DEF Match, Inv, TypeInv, TypeOK
<1>2. \A a \in Assets, side \in {"BUY", "SELL"} :
        Owned(slices, a, side) \in Nat /\ Owned(slices, a, side) <= MaxU32
  BY <1>1, Numbers, PositionsAssumption
<1>3. slices \in Trades /\ m \in Messages /\ q \in Seq(Messages)
  BY <1>2 DEF Trades, Messages, Inv, TypeInv
<1>4. \A a \in Assets : /\ Gain(slices, a) \in Int /\ Gains(m, a) = Gain(slices, a)
                        /\ account[a] + Gain(slices, a) \in 0..MaxU32
  BY <1>1, <1>2, PositionsAssumption DEF Gain, Gains
<1>5. /\ account' = [a \in Assets |-> account[a] + Gain(slices, a)]
      /\ settling' = settling \cup {slices}
      /\ UNCHANGED <<positions, logged, clipped, subscribed, converted>>
      /\ trades < MaxTrades /\ trades' = trades + 1
  BY DEF Match, program
<1>6. account' \in [Assets -> 0..MaxU32] /\ account' \in [Assets -> Int]
  BY <1>4, <1>5
<1>7. /\ positions \in [Assets -> 0..MaxU32] /\ logged \in [Assets -> Int]
      /\ trades' \in 0..MaxTrades
      /\ settling' \subseteq Trades
      /\ {subscribed, converted, clipped} \subseteq BOOLEAN
  BY <1>3, <1>5, PositionsAssumption DEF Inv, TypeInv, TypeOK
<1>8. LogAgrees'
  BY <1>5 DEF Inv, LogAgrees
<1>9. CASE subscribed
  <2>1. q' = Append(q, m) /\ UNCHANGED <<untold, all_told>>
    BY <1>9 DEF Match, history
  <2>2. q' \in Seq(Messages)
    BY <1>3, <2>1, AppendProperties
  <2>3. TypeInv'
    BY <1>5, <1>6, <1>7, <2>1, <2>2, QueueTypes DEF Inv, TypeInv, TypeOK
  <2>4. ToldInv'
    <3> DEFINE held == [a \in Assets |-> account[a] - untold[a]]
    <3> SUFFICES ASSUME ~clipped, ~converted
                 PROVE  \E h : Path(h, q', positions, held', TRUE, FALSE)
      BY <1>5 DEF ToldInv
    <3>1. \E h : Path(h, q, positions, held, TRUE, FALSE)
      BY DEF Inv, ToldInv
    <3>2. held \in [Assets -> Int] /\ held' \in [Assets -> Int]
      BY <1>6, <2>1, <2>3, Helds DEF Inv, TypeInv, TypeOK
    <3>3. \A a \in Assets : held'[a] = held[a] + Gains(m, a)
      BY <1>1, <1>4, <1>5, <2>1
    <3>4. ASSUME NEW a \in Assets
          PROVE  Leads(TRUE, a, held[a] + Gains(m, a), held'[a])
      BY <3>3 DEF Leads
    <3> HIDE DEF held, m
    <3> QED
      BY <1>3, <2>1, <3>1, <3>2, <3>4, PathAppend
  <2>5. AheadInv'
    <3> SUFFICES ASSUME all_told
                 PROVE  /\ \E h : Path(h, q', positions, account', ~converted, TRUE)
                        /\ ~converted => ~clipped
      BY <1>5, <2>1 DEF AheadInv
    <3>1. /\ \E h : Path(h, q, positions, account, ~converted, TRUE)
          /\ ~converted => ~clipped
      BY DEF Inv, AheadInv
    <3>2. ASSUME NEW a \in Assets
          PROVE  /\ Leads(~converted, a, account[a] + Gains(m, a), account'[a])
                 /\ Fits(m, a, account[a])
      <4>1. account'[a] = account[a] + Gains(m, a) /\ account'[a] \in Int
        BY <1>4, <1>5, <1>6
      <4> QED
        BY <1>1, <4>1 DEF Leads, Fits
    <3>3. (~converted) \in BOOLEAN /\ account \in [Assets -> Int]
      BY Helds DEF Inv
    <3> HIDE DEF m
    <3> QED
      BY <1>3, <1>6, <2>1, <3>1, <3>2, <3>3, PathAppend
  <2> QED
    BY <1>8, <2>3, <2>4, <2>5 DEF Inv
<1>10. CASE ~subscribed
  <2>1. /\ untold' = [a \in Assets |-> untold[a] + Gain(slices, a)]
        /\ all_told' = FALSE /\ q' = q
    BY <1>10 DEF Match
  <2>2. untold' \in [Assets -> Int]
    BY <1>1, <1>4, <2>1
  <2>3. TypeInv'
    BY <1>3, <1>5, <1>6, <1>7, <2>1, <2>2, QueueTypes DEF Inv, TypeInv, TypeOK
  <2>4. ToldInv'
    <3>1. \A a \in Assets : account'[a] - untold'[a] = account[a] - untold[a]
      BY <1>1, <1>4, <1>5, <2>1
    <3>2. [a \in Assets |-> account'[a] - untold'[a]]
            = [a \in Assets |-> account[a] - untold[a]]
      BY <3>1
    <3> QED
      BY <1>5, <2>1, <3>2 DEF Inv, ToldInv
  <2>5. AheadInv'
    BY <2>1 DEF AheadInv
  <2> QED
    BY <1>8, <2>3, <2>4, <2>5 DEF Inv
<1> QED
  BY <1>9, <1>10

LEMMA LeastOfSet ==
  ASSUME NEW T \in SUBSET Nat, T # {}
  PROVE  Min(T) \in T /\ \A y \in T : Min(T) <= y
<1>1. PICK x \in T : \A y \in T : ~(<<y, x>> \in OpToRel(<, Nat))
  BY WFMin, NatLessThanWellFounded
<1>2. ASSUME NEW y \in T PROVE x <= y
  <2>1. x \in Nat /\ y \in Nat
    OBVIOUS
  <2>2. ~(<<y, x>> \in OpToRel(<, Nat))
    BY <1>1
  <2>3. ~(y < x)
    <3> SUFFICES ASSUME y < x PROVE <<y, x>> \in OpToRel(<, Nat)
      BY <2>2
    <3> DEFINE pair == <<y, x>>
    <3>1. pair \in Nat \X Nat /\ pair[1] < pair[2]
      BY <2>1
    <3> HIDE DEF pair
    <3>2. pair \in OpToRel(<, Nat)
      BY <3>1 DEF OpToRel
    <3> QED
      BY <3>2 DEF pair
  <2> QED
    BY <2>1, <2>3
<1> QED
  BY <1>2 DEF Min

LEMMA ConvertKeeps ==
  ASSUME Inv, convert_tokens_negrisk
  PROVE  Inv'
<1> DEFINE Amount(ms) == Min({account[<<m, "NO">>] : m \in ms})
<1>1. PICK ms \in SUBSET Markets :
        /\ \E m, n \in ms : m # n
        /\ Amount(ms) > 0
        /\ \A m \in Markets \ ms : account[<<m, "YES">>] + Amount(ms) <= MaxU32
        /\ account' = [a \in Assets |->
             IF a[2] = "NO" /\ a[1] \in ms THEN account[a] - Amount(ms)
             ELSE IF a[2] = "YES" /\ a[1] \notin ms THEN account[a] + Amount(ms)
             ELSE account[a]]
  BY DEF convert_tokens_negrisk
<1> DEFINE amount == Amount(ms)
<1>2. /\ account \in [Assets -> 0..MaxU32] /\ MaxU32 \in Nat
      /\ \A m \in Markets : <<m, "NO">> \in Assets /\ <<m, "YES">> \in Assets
  BY PositionsAssumption DEF Assets, Inv, TypeInv, TypeOK
<1>3. \A a \in Assets : a = <<a[1], a[2]>> /\ a[1] \in Markets
  BY DEF Assets
<1>4. amount \in Nat /\ \A m \in ms : amount <= account[<<m, "NO">>]
  <2> DEFINE T == {account[<<m, "NO">>] : m \in ms}
  <2>1. T \in SUBSET Nat /\ T # {}
    <3>1. \A m \in ms : account[<<m, "NO">>] \in Nat
      <4> TAKE m \in ms
      <4>1. account[<<m, "NO">>] \in 0..MaxU32
        BY <1>2
      <4> QED
        BY <4>1, <1>2
    <3>2. PICK m \in ms : TRUE
      BY <1>1
    <3>3. account[<<m, "NO">>] \in T
      BY <3>2
    <3> QED
      BY <3>1, <3>3
  <2>2. Min(T) \in T /\ \A y \in T : Min(T) <= y
    BY <2>1, LeastOfSet
  <2> QED
    BY <2>1, <2>2
<1>5. UNCHANGED <<positions, logged, clipped, subscribed, user_trades, settling,
                  trades, untold, all_told>> /\ converted' = TRUE
  BY DEF convert_tokens_negrisk, program, history
<1> HIDE DEF amount
<1>6. account' = [a \in Assets |->
        IF a[2] = "NO" /\ a[1] \in ms THEN account[a] - amount
        ELSE IF a[2] = "YES" /\ a[1] \notin ms THEN account[a] + amount
        ELSE account[a]]
      /\ \A m \in Markets \ ms : account[<<m, "YES">>] + amount <= MaxU32
  BY <1>1 DEF amount
<1>7. ASSUME NEW a \in Assets
      PROVE  account'[a] \in 0..MaxU32 /\ Leads(FALSE, a, account[a], account'[a])
  <2>1. account[a] \in 0..MaxU32
    BY <1>2
  <2>2. CASE a[2] = "NO" /\ a[1] \in ms
    <3>1. amount <= account[a]
      BY <1>3, <1>4, <2>2
    <3>2. account'[a] = account[a] - amount
      BY <1>6, <2>2
    <3> QED
      BY <1>2, <1>4, <2>1, <2>2, <3>1, <3>2 DEF Leads
  <2>3. CASE a[2] = "YES" /\ a[1] \notin ms
    <3>1. account[a] + amount <= MaxU32
      BY <1>3, <1>6, <2>3
    <3>2. account'[a] = account[a] + amount
      BY <1>6, <2>3
    <3> QED
      BY <1>2, <1>4, <2>1, <2>3, <3>1, <3>2 DEF Leads
  <2>4. CASE ~(a[2] = "NO" /\ a[1] \in ms) /\ ~(a[2] = "YES" /\ a[1] \notin ms)
    <3>1. account'[a] = account[a]
      BY <1>6, <2>4
    <3> QED
      BY <1>2, <2>1, <3>1 DEF Leads
  <2> QED
    BY <2>2, <2>3, <2>4
<1>8. account' \in [Assets -> 0..MaxU32] /\ account' \in [Assets -> Int]
  <2>1. account' = [a \in Assets |-> account'[a]]
    BY <1>6
  <2>2. \A a \in Assets : account'[a] \in 0..MaxU32
    BY <1>7
  <2>3. \A a \in Assets : account'[a] \in Int
    BY <1>2, <2>2
  <2> QED
    BY <2>1, <2>2, <2>3
<1>9. TypeInv'
  BY <1>5, <1>8 DEF Inv, TypeInv, TypeOK
<1>10. ToldInv'
  BY <1>5 DEF ToldInv
<1>11. AheadInv'
  <2> SUFFICES ASSUME all_told
               PROVE  \E h : Path(h, user_trades, positions, account', FALSE, TRUE)
    BY <1>5 DEF AheadInv
  <2>1. \E h : Path(h, user_trades, positions, account, ~converted, TRUE)
    BY DEF Inv, AheadInv
  <2>2. /\ (~converted) \in BOOLEAN
        /\ account \in [Assets -> Int] /\ positions \in [Assets -> Int]
        /\ user_trades \in Seq(Messages)
    BY <1>2 DEF Inv, TypeInv, TypeOK
  <2> QED
    BY <1>7, <1>8, <2>1, <2>2, PathConvert
<1>12. LogAgrees'
  BY <1>5 DEF Inv, LogAgrees
<1> QED
  BY <1>9, <1>10, <1>11, <1>12 DEF Inv

LEMMA SubscribeKeeps ==
  ASSUME Inv, subscribe
  PROVE  Inv'
<1>1. UNCHANGED <<positions, logged, clipped, account, user_trades, settling,
                  trades, converted, untold, all_told>> /\ subscribed' = TRUE
  BY DEF subscribe, program, history
<1>2. TypeInv'
  BY <1>1 DEF Inv, TypeInv, TypeOK
<1> QED
  BY <1>1, <1>2 DEF Inv, ToldInv, AheadInv, LogAgrees

LEMMA Next_Keeps ==
  ASSUME Inv, [Next]_vars
  PROVE  Inv'
<1>1. CASE TakerTrade
  <2>1. PICK a \in Traded, side \in {"BUY", "SELL"}, n \in Amounts :
          Match(<<[ours |-> TRUE, asset |-> a, side |-> side, amount |-> n]>>)
    BY <1>1 DEF TakerTrade
  <2> DEFINE s == [ours |-> TRUE, asset |-> a, side |-> side, amount |-> n]
  <2>2. s \in Slice
    BY PositionsAssumption DEF Slice
  <2> HIDE DEF s
  <2>3. <<s>> \in Slices
    BY <2>2 DEF Slices
  <2> QED
    BY <2>1, <2>3, MatchKeeps DEF s
<1>2. CASE MakerTrade
  <2>1. PICK s \in Slice, t \in Slice : Match(<<s, t>>)
    BY <1>2 DEF MakerTrade
  <2>2. <<s, t>> \in Slices
    BY DEF Slices
  <2> QED
    BY <2>1, <2>2, MatchKeeps
<1>3. CASE UNCHANGED vars
  <2>1. UNCHANGED <<positions, logged, clipped, subscribed, account, user_trades,
                    settling, trades, converted, untold, all_told>>
    BY <1>3 DEF vars, program, history
  <2> QED
    BY <2>1 DEF Inv, TypeInv, TypeOK, ToldInv, AheadInv, LogAgrees
<1> QED
  BY <1>1, <1>2, <1>3, HandleKeeps, SubscribeKeeps, SettleKeeps, FailKeeps,
     ConvertKeeps DEF Next

LEMMA Invariance == Spec => []Inv
<1>1. Inv /\ [Next]_vars => Inv'
  BY Next_Keeps
<1> QED
  BY <1>1, Initial, PTL DEF Spec

\* A path through an empty queue leads from the sizes straight to what is held.
LEMMA EmptyPath ==
  ASSUME NEW sizes, NEW held, NEW exact, NEW fit,
         \E h : Path(h, <<>>, sizes, held, exact, fit), NEW a \in Assets
  PROVE  Leads(exact, a, sizes[a], held[a])
<1>1. Len(<<>>) = 0
  OBVIOUS
<1> QED
  BY <1>1 DEF Path

-----------------------------------------------------------------------------
(* The theorems                                                            *)

\* Every variable has its type: sizes stay within a u32, whatever is traded,
\* untold or converted.
THEOREM PositionsTypeCorrect == Spec => []TypeOK
<1>1. Inv => TypeOK
  BY DEF Inv, TypeInv
<1> QED
  BY <1>1, Invariance, PTL

\* The file of trades and the positions map agree as long as nothing saturates.
THEOREM LogAgreement == Spec => []LogAgrees
<1>1. Inv => LogAgrees
  BY DEF Inv
<1> QED
  BY <1>1, Invariance, PTL

\* Until shares are converted, what the map says differs from the account by
\* exactly what get_positions did not read and no message told of, and nothing
\* saturates if that is nothing.
THEOREM ExactlyUntold == Spec => []OffByUntold
<1>1. Inv => OffByUntold
  <2> SUFFICES ASSUME Inv, ~converted
               PROVE  /\ all_told => ~clipped
                      /\ (Drained /\ ~clipped) =>
                           \A a \in Assets : account[a] = positions[a] + untold[a]
    BY DEF OffByUntold
  <2>1. all_told => ~clipped
    BY DEF Inv, AheadInv
  <2>2. ASSUME Drained, ~clipped, NEW a \in Assets
        PROVE  account[a] = positions[a] + untold[a]
    <3> DEFINE held == [b \in Assets |-> account[b] - untold[b]]
    <3>1. \E h : Path(h, <<>>, positions, held, TRUE, FALSE)
      BY <2>2 DEF Inv, ToldInv, Drained
    <3> HIDE DEF held
    <3>2. positions[a] = held[a]
      BY <3>1, EmptyPath DEF Leads
    <3>3. account[a] \in Int /\ untold[a] \in Int
      BY PositionsAssumption DEF Inv, TypeInv, TypeOK
    <3> QED
      BY <3>2, <3>3 DEF held
  <2> QED
    BY <2>1, <2>2
<1> QED
  BY <1>1, Invariance, PTL

\* Conversions the program does not know of never make it believe in a larger
\* net position than there is: it has no more YES and no fewer NO shares than
\* the map says.
THEOREM NeverOverstated == Spec => []NetNeverOverstated
<1>1. Inv => NetNeverOverstated
  <2> SUFFICES ASSUME Inv, Drained, all_told, NEW m \in Markets
               PROVE  net_position_yes(positions, m) <= net_position_yes(account, m)
    BY DEF NetNeverOverstated
  <2>1. \E h : Path(h, <<>>, positions, account, ~converted, TRUE)
    BY DEF Inv, AheadInv, Drained
  <2>2. \A a \in Assets : Leads(~converted, a, positions[a], account[a])
    BY <2>1, EmptyPath
  <2> DEFINE y == <<m, "YES">>
             n == <<m, "NO">>
  <2>3. y \in Assets /\ n \in Assets /\ y[2] = "YES" /\ n[2] = "NO"
    BY DEF Assets
  <2>4. /\ positions[y] \in Int /\ positions[n] \in Int
        /\ account[y] \in Int /\ account[n] \in Int
    BY <2>3, PositionsAssumption DEF Inv, TypeInv, TypeOK
  <2> HIDE DEF y, n
  <2>5. positions[y] <= account[y] /\ positions[n] >= account[n]
    BY <2>2, <2>3, <2>4 DEF Leads
  <2> QED
    BY <2>4, <2>5 DEF net_position_yes, y, n
<1> QED
  BY <1>1, Invariance, PTL
=============================================================================
