-------------------------- MODULE CryptoFeedProofs --------------------------
(***************************************************************************)
(* Proofs about CryptoBook and CryptoFeed, for any prices, sizes and       *)
(* bounds.  They are of two kinds.                                         *)
(*                                                                         *)
(* When a price is computed: there what is computed from a book            *)
(* (PriceFrom, CacheOf) is opaque.  The local book and the exchange's are  *)
(* related through the messages still queued: the invariant says that      *)
(* there is a path, one local book per message, from the book as it is to  *)
(* the one the last message will leave, which is the exchange's or none.   *)
(*                                                                         *)
(* What is computed (from "Recursion over the prices" on): the state of a  *)
(* Deribit book takes the best fill there is.  After each level at least   *)
(* as much has been taken as any fill takes of the levels so far, and what *)
(* has been taken beyond it is not worse than that level.                  *)
(***************************************************************************)
EXTENDS CryptoFeed, SequenceTheorems, WellFoundedInduction, TLAPS

\* A book that has been removed has no levels, so it needs no price.
Inv == PriceIsCurrent /\ (~present => bids = Empty /\ asks = Empty)

\* An empty book is not two-sided.
LEMMA EmptyNotTwoSided == ~TwoSided(Empty, Empty)
  BY DEF TwoSided, Held, Empty

\* A handler that sets the book and prices it anew establishes the invariant.
LEMMA Repriced ==
  ASSUME NEW b, NEW a, SetBook(b, a), Reprice(b, a)
  PROVE  Inv'
  BY DEF SetBook, Reprice, CacheOf, Inv, PriceIsCurrent

\* So does one that panics, and one that leaves a book with a side missing.
LEMMA NotPriced ==
  ASSUME NEW b, NEW a, SetBook(b, a), dead' = TRUE \/ ~TwoSided(b, a)
  PROVE  Inv'
  BY DEF SetBook, Inv, PriceIsCurrent

LEMMA SnapshotKeeps ==
  ASSUME NEW b, NEW a, crypto_handle_l2_snapshot(b, a)
  PROVE  Inv'
<1>1. CASE TwoSided(b, a)
  BY <1>1, Repriced DEF crypto_handle_l2_snapshot
<1>2. CASE ~TwoSided(b, a)
  BY <1>2, NotPriced DEF crypto_handle_l2_snapshot
<1> QED
  BY <1>1, <1>2

LEMMA UpdateKeeps ==
  ASSUME Inv, NEW cb, NEW ca, crypto_handle_l2_update(cb, ca)
  PROVE  Inv'
<1> DEFINE b == apply_l2_updates(bids, cb)
           a == apply_l2_updates(asks, ca)
<1>1. CASE ~present
  BY <1>1 DEF crypto_handle_l2_update, book_vars, CacheOf, Inv, PriceIsCurrent
<1>2. CASE present
  <2>1. SetBook(b, a)
    BY <1>2 DEF crypto_handle_l2_update
  <2>2. CASE TwoSided(b, a)
    <3>1. Reprice(b, a)
      BY <1>2, <2>2 DEF crypto_handle_l2_update
    <3> QED
      BY <2>1, <3>1, Repriced
  <2>3. CASE ~TwoSided(b, a)
    BY <2>1, <2>3, NotPriced
  <2> QED
    BY <2>2, <2>3
<1> QED
  BY <1>1, <1>2

LEMMA ClearKeeps ==
  ASSUME handle_price_clear
  PROVE  Inv'
  BY EmptyNotTwoSided DEF handle_price_clear, Inv, PriceIsCurrent

LEMMA InvNext ==
  ASSUME Inv, [Next]_book_vars
  PROVE  Inv'
<1>1. CASE L1Next
  <2>1. PICK b, a \in Levels : crypto_handle_price_update(b, a)
    BY <1>1 DEF L1Next
  <2> QED
    BY <2>1, Repriced DEF crypto_handle_price_update
<1>2. CASE L2Next
  <2>1. CASE \E b, a \in Levels : crypto_handle_l2_snapshot(b, a)
    BY <2>1, SnapshotKeeps
  <2>2. CASE \E cb, ca \in Changes : crypto_handle_l2_update(cb, ca)
    BY <2>2, UpdateKeeps
  <2> QED
    BY <1>2, <2>1, <2>2 DEF L2Next
<1>3. CASE handle_price_clear
  BY <1>3, ClearKeeps
<1>4. CASE UNCHANGED book_vars
  BY <1>4 DEF book_vars, CacheOf, Inv, PriceIsCurrent
<1> QED
  BY <1>1, <1>2, <1>3, <1>4 DEF Next

\* The price and the cached state the strategies read are those of the book
\* as it is, whenever it has both sides and no handler has panicked: no
\* handler leaves the price of an earlier book next to a new one.
THEOREM PriceCurrent == Spec => []PriceIsCurrent
<1>1. Init => Inv
  BY EmptyNotTwoSided DEF Init, Inv, PriceIsCurrent
<1>2. Inv /\ [Next]_book_vars => Inv'
  BY InvNext
<1>3. Inv => PriceIsCurrent
  BY DEF Inv
<1> QED
  BY <1>1, <1>2, <1>3, PTL DEF Spec

-----------------------------------------------------------------------------
(* Types                                                                   *)

LEMMA EmptyIsASide == Empty \in Levels
<1>1. 0 \in 0..MaxSize
  BY VwapAssumption
<1> QED
  BY <1>1 DEF Empty, Levels

LEMMA UpdatedSide ==
  ASSUME NEW side \in Levels, NEW changes \in Changes
  PROVE  apply_l2_updates(side, changes) \in Levels
<1>1. PICK ps \in SUBSET Prices : changes \in [ps -> 0..MaxSize]
  BY DEF Changes
<1> QED
  BY <1>1 DEF apply_l2_updates, Levels

\* A handler that sets a book of the right type keeps the types.
LEMMA SetKeepsTypes ==
  ASSUME TypeOK, NEW b \in Levels, NEW a \in Levels, SetBook(b, a),
         dead' \in BOOLEAN
  PROVE  TypeOK'
  BY DEF SetBook, TypeOK

LEMMA TypeNext ==
  ASSUME TypeOK, [Next]_book_vars
  PROVE  TypeOK'
<1>1. CASE L1Next
  <2>1. PICK b, a \in Levels : crypto_handle_price_update(b, a)
    BY <1>1 DEF L1Next
  <2> QED
    BY <2>1, SetKeepsTypes DEF crypto_handle_price_update, Reprice, TypeOK
<1>2. ASSUME NEW b \in Levels, NEW a \in Levels, crypto_handle_l2_snapshot(b, a)
      PROVE  TypeOK'
  BY <1>2, SetKeepsTypes DEF crypto_handle_l2_snapshot, Reprice, Panic, TypeOK
<1>3. ASSUME NEW cb \in Changes, NEW ca \in Changes, crypto_handle_l2_update(cb, ca)
      PROVE  TypeOK'
  <2> DEFINE b == apply_l2_updates(bids, cb)
             a == apply_l2_updates(asks, ca)
  <2>1. b \in Levels /\ a \in Levels
    BY UpdatedSide DEF TypeOK
  <2>2. CASE ~present
    BY <1>3, <2>2 DEF crypto_handle_l2_update, book_vars, TypeOK
  <2>3. CASE present
    <3>1. SetBook(b, a) /\ dead' \in BOOLEAN
      BY <1>3, <2>3 DEF crypto_handle_l2_update, Reprice, Panic, TypeOK
    <3> HIDE DEF b, a
    <3> QED
      BY <2>1, <3>1, SetKeepsTypes
  <2> QED
    BY <2>2, <2>3
<1>4. CASE handle_price_clear
  BY <1>4, EmptyIsASide DEF handle_price_clear, TypeOK
<1>5. CASE UNCHANGED book_vars
  BY <1>5 DEF book_vars, TypeOK
<1> QED
  BY <1>1, <1>2, <1>3, <1>4, <1>5 DEF Next, L2Next

\* Every variable keeps its type whatever the feed sends, and a book that
\* was removed keeps no level and no cached state for the next one.
THEOREM CryptoTypeCorrect == Spec => []TypeOK
<1>1. Init => TypeOK
  BY EmptyIsASide DEF Init, TypeOK
<1>2. TypeOK /\ [Next]_book_vars => TypeOK'
  BY TypeNext
<1> QED
  BY <1>1, <1>2, PTL DEF Spec
-----------------------------------------------------------------------------
(* What a feed sends is what CryptoBook handles                            *)

OneLevel(side) == \E p \in Prices : Held(side) = {p}

FullMessages(kind) ==
  {m \in [type : {IF kind = "L1" THEN "Price" ELSE "L2Snapshot"},
          bids : Levels, asks : Levels] :
     kind = "L1" => OneLevel(m.bids) /\ OneLevel(m.asks)}
UpdateMessages ==
  {m \in [type : {"L2Update"}, bids : Changes, asks : Changes] :
     Cardinality(DOMAIN m.bids) + Cardinality(DOMAIN m.asks) <= MaxChanges}
Sendable(kind) ==
  FullMessages(kind) \cup {ClearPrice} \cup (IF kind = "L1" THEN {} ELSE UpdateMessages)

FeedTypes ==
  /\ TypeOK
  /\ xbids \in Levels
  /\ xasks \in Levels
  /\ ExchangeBook(xbids, xasks)
  /\ feed \in Seq(Sendable(feed_kind))

LEMMA LeastNumber ==
  ASSUME NEW T \in SUBSET Nat, T # {}
  PROVE  \E x \in T : \A y \in T : x <= y
<1>1. PICK x \in T : \A y \in T : ~(<<y, x>> \in OpToRel(<, Nat))
  BY WFMin, NatLessThanWellFounded
<1>2. ASSUME NEW y \in T PROVE x <= y
  <2>1. x \in Nat /\ y \in Nat
    OBVIOUS
  <2>2. ASSUME y < x PROVE <<y, x>> \in OpToRel(<, Nat)
    <3> DEFINE pair == <<y, x>>
    <3>1. pair \in Nat \X Nat /\ pair[1] < pair[2]
      BY <2>1, <2>2
    <3> HIDE DEF pair
    <3>2. pair \in OpToRel(<, Nat)
      BY <3>1 DEF OpToRel
    <3> QED
      BY <3>2 DEF pair
  <2>3. ~(<<y, x>> \in OpToRel(<, Nat))
    BY <1>1
  <2>4. ~(y < x)
    BY <2>2, <2>3
  <2> QED
    BY <2>1, <2>4
<1> QED
  BY <1>2

\* The best level of a side that has one is one of its levels.
LEMMA BestIsHeld ==
  ASSUME NEW side, Held(side) # {}
  PROVE  best_bid(side) \in Held(side) /\ best_ask(side) \in Held(side)
<1> DEFINE S == Held(side)
<1>1. S \in SUBSET Nat /\ S # {} /\ MaxPrice \in Nat /\ \A x \in S : x <= MaxPrice
  BY VwapAssumption DEF Held, Prices
<1> HIDE DEF S
<1>2. \E x \in S : \A y \in S : x <= y
  BY <1>1, LeastNumber
<1>3. \E x \in S : \A y \in S : x >= y
  <2> DEFINE T == {MaxPrice - x : x \in S}
  <2>1. T \in SUBSET Nat /\ T # {}
    <3>1. ASSUME NEW x \in S PROVE MaxPrice - x \in Nat
      BY <1>1
    <3>2. T \in SUBSET Nat
      BY <3>1
    <3>3. PICK x \in S : TRUE
      BY <1>1
    <3> QED
      BY <3>2, <3>3
  <2> HIDE DEF T
  <2>2. PICK t \in T : \A y \in T : t <= y
    BY <2>1, LeastNumber
  <2>3. PICK x \in S : t = MaxPrice - x
    BY DEF T
  <2>4. ASSUME NEW y \in S PROVE x >= y
    <3>1. MaxPrice - y \in T
      BY DEF T
    <3>2. MaxPrice - x <= MaxPrice - y
      BY <2>2, <2>3, <3>1
    <3>3. x \in Nat /\ y \in Nat
      BY <1>1
    <3> QED
      BY <1>1, <3>2, <3>3
  <2> QED
    BY <2>4
<1>4. Min(S) \in S
  BY <1>2 DEF Min
<1>5. Max(S) \in S
  BY <1>3 DEF Max
<1> QED
  BY <1>4, <1>5 DEF S, best_bid, best_ask

\* The best level alone is a side.
LEMMA TopOfSide ==
  ASSUME NEW side \in Levels, Held(side) # {}, NEW p \in Held(side),
         NEW top, top = [q \in Prices |-> IF q = p THEN side[q] ELSE 0]
  PROVE  top \in Levels /\ Held(top) = {p} /\ p \in Prices
<1>1. p \in Prices /\ side[p] # 0
  BY DEF Held
<1>2. 0 \in 0..MaxSize
  BY VwapAssumption
<1>3. top \in Levels
  BY <1>2 DEF Levels
<1>4. \A q \in Prices : top[q] # 0 <=> q = p
  BY <1>1
<1> QED
  BY <1>1, <1>3, <1>4 DEF Held

LEMMA Tops ==
  ASSUME NEW b \in Levels, NEW a \in Levels, TwoSided(b, a)
  PROVE  /\ TopBid(b) \in Levels /\ TopAsk(a) \in Levels
         /\ OneLevel(TopBid(b)) /\ OneLevel(TopAsk(a))
         /\ TwoSided(TopBid(b), TopAsk(a))
<1>1. Held(b) # {} /\ Held(a) # {}
  BY DEF TwoSided
<1>2. best_bid(b) \in Held(b) /\ best_ask(a) \in Held(a)
  BY <1>1, BestIsHeld
<1>3. TopBid(b) \in Levels /\ Held(TopBid(b)) = {best_bid(b)} /\ best_bid(b) \in Prices
  BY <1>1, <1>2, TopOfSide DEF TopBid
<1>4. TopAsk(a) \in Levels /\ Held(TopAsk(a)) = {best_ask(a)} /\ best_ask(a) \in Prices
  BY <1>1, <1>2, TopOfSide DEF TopAsk
<1> QED
  BY <1>3, <1>4 DEF OneLevel, TwoSided

LEMMA FullBookSent ==
  ASSUME NEW b \in Levels, NEW a \in Levels, ExchangeBook(b, a)
  PROVE  FullBook(b, a) \in Sendable(feed_kind)
<1>1. TwoSided(b, a)
  BY DEF ExchangeBook
<1>2. CASE feed_kind = "L1"
  <2>1. FullBook(b, a) = [type |-> "Price", bids |-> TopBid(b), asks |-> TopAsk(a)]
    BY <1>2 DEF FullBook, TopOfBook, Message
  <2> QED
    BY <1>1, <1>2, <2>1, Tops DEF Sendable, FullMessages
<1>3. CASE feed_kind # "L1"
  <2>1. FullBook(b, a) = [type |-> "L2Snapshot", bids |-> b, asks |-> a]
    BY <1>3 DEF FullBook, Message
  <2> QED
    BY <1>3, <2>1 DEF Sendable, FullMessages
<1> QED
  BY <1>2, <1>3

LEMMA ChangedIsChanges ==
  ASSUME NEW old \in Levels, NEW new \in Levels
  PROVE  /\ Changed(old, new) \in Changes
         /\ DOMAIN Changed(old, new) = {p \in Prices : new[p] # old[p]}
         /\ apply_l2_updates(old, Changed(old, new)) = new
<1> DEFINE ps == {p \in Prices : old[p] # new[p]}
           c == Changed(old, new)
<1>1. c = [p \in ps |-> new[p]] /\ ps \in SUBSET Prices
  BY DEF Changed
<1>2. \A p \in Prices : new[p] \in 0..MaxSize
  BY DEF Levels
<1>3. c \in [ps -> 0..MaxSize] /\ DOMAIN c = ps
  BY <1>1, <1>2
<1>4. c \in Changes
  BY <1>1, <1>3 DEF Changes
<1>5. \A p \in Prices : (IF p \in ps THEN c[p] ELSE old[p]) = new[p]
  BY <1>1
<1>6. apply_l2_updates(old, c) = new
  <2>1. apply_l2_updates(old, c) = [p \in Prices |-> IF p \in ps THEN c[p] ELSE old[p]]
    BY <1>3 DEF apply_l2_updates
  <2>2. new = [p \in Prices |-> new[p]]
    BY DEF Levels
  <2> HIDE DEF c, ps
  <2> QED
    BY <1>5, <2>1, <2>2
<1>7. ps = {p \in Prices : new[p] # old[p]}
  OBVIOUS
<1> QED
  BY <1>3, <1>4, <1>6, <1>7

LEMMA UpdateSent ==
  ASSUME xbids \in Levels, xasks \in Levels,
         NEW b \in Levels, NEW a \in Levels, ExchangeBook(b, a),
         Cardinality({p \in Prices : b[p] # xbids[p]})
           + Cardinality({p \in Prices : a[p] # xasks[p]}) <= MaxChanges
  PROVE  Update(b, a) \in Sendable(feed_kind)
<1>1. CASE feed_kind = "L1"
  <2>1. Update(b, a) = FullBook(b, a)
    BY <1>1 DEF Update, FullBook
  <2> QED
    BY <2>1, FullBookSent
<1>2. CASE feed_kind # "L1"
  <2> DEFINE m == Update(b, a)
  <2>1. m = [type |-> "L2Update", bids |-> Changed(xbids, b), asks |-> Changed(xasks, a)]
    BY <1>2 DEF Update, Message
  <2>2. /\ m.bids \in Changes /\ m.asks \in Changes
        /\ Cardinality(DOMAIN m.bids) + Cardinality(DOMAIN m.asks) <= MaxChanges
    <3>1. m.bids = Changed(xbids, b) /\ m.asks = Changed(xasks, a)
      BY <2>1
    <3> HIDE DEF m
    <3>2. /\ Changed(xbids, b) \in Changes
          /\ DOMAIN Changed(xbids, b) = {p \in Prices : b[p] # xbids[p]}
      BY ChangedIsChanges
    <3>3. /\ Changed(xasks, a) \in Changes
          /\ DOMAIN Changed(xasks, a) = {p \in Prices : a[p] # xasks[p]}
      BY ChangedIsChanges
    <3> QED
      BY <3>1, <3>2, <3>3
  <2>3. m \in [type : {"L2Update"}, bids : Changes, asks : Changes]
    BY <2>1, <2>2
  <2> HIDE DEF m
  <2>4. m \in UpdateMessages
    BY <2>2, <2>3 DEF UpdateMessages
  <2> QED
    BY <1>2, <2>4 DEF m, Sendable
<1> QED
  BY <1>1, <1>2

LEMMA ClearPriceTypes ==
  /\ ClearPrice.type = "ClearPrice"
  /\ ClearPrice \in Sendable(feed_kind)
  BY DEF ClearPrice, Message, Sendable

\* What the event processor takes from the queue of a feed of this kind.
LEMMA Received ==
  ASSUME NEW kind \in {"Deribit", "Kraken", "L1"}, NEW m \in Sendable(kind)
  PROVE  \/ /\ m.type = "Price" /\ kind = "L1"
            /\ m.bids \in Levels /\ m.asks \in Levels
            /\ OneLevel(m.bids) /\ OneLevel(m.asks)
         \/ /\ m.type = "L2Snapshot" /\ kind # "L1"
            /\ m.bids \in Levels /\ m.asks \in Levels
         \/ /\ m.type = "L2Update" /\ kind # "L1"
            /\ m.bids \in Changes /\ m.asks \in Changes
            /\ Cardinality(DOMAIN m.bids) + Cardinality(DOMAIN m.asks) <= MaxChanges
         \/ m.type = "ClearPrice"
<1>1. CASE m \in FullMessages(kind)
  <2>1. /\ m.type = IF kind = "L1" THEN "Price" ELSE "L2Snapshot"
        /\ m.bids \in Levels /\ m.asks \in Levels
        /\ kind = "L1" => OneLevel(m.bids) /\ OneLevel(m.asks)
    BY <1>1 DEF FullMessages
  <2> QED
    BY <2>1
<1>2. CASE m = ClearPrice
  BY <1>2, ClearPriceTypes
<1>3. CASE m \in UpdateMessages /\ kind # "L1"
  BY <1>3 DEF UpdateMessages
<1> QED
  BY <1>1, <1>2, <1>3 DEF Sendable

-----------------------------------------------------------------------------
(* The invariant                                                           *)

None == <<FALSE, Empty, Empty>>
LocalBook == <<present, bids, asks>>

\* The local book as it is when the listener has told everything.
ExchangeSide ==
  IF feed_kind = "L1" THEN <<TRUE, TopBid(xbids), TopAsk(xasks)>>
  ELSE <<TRUE, xbids, xasks>>

\* What a message makes of a local book, and a book no handler panics on.
After(m, book) ==
  IF m.type = "ClearPrice" THEN None
  ELSE IF m.type # "L2Update" THEN <<TRUE, m.bids, m.asks>>
  ELSE IF book[1]
       THEN <<TRUE, apply_l2_updates(book[2], m.bids), apply_l2_updates(book[3], m.asks)>>
       ELSE book
Whole(book) == book[1] => TwoSided(book[2], book[3])

\* h: the local books that the messages of q will make of this one.
Path(h, q, book, all_whole) ==
  /\ DOMAIN h = 0..Len(q)
  /\ h[0] = book
  /\ \A i \in 1..Len(q) : h[i] = After(q[i], h[i - 1])
  /\ all_whole => \A i \in 0..Len(q) : Whole(h[i])

\* The book that is left when the queue is drained.
Ends(book) ==
  /\ (connected /\ read \in {"all", "again"}) => book = ExchangeSide
  /\ (~connected \/ read = "none") => book = None

FeedInv ==
  /\ FeedTypes
  /\ connected \in BOOLEAN
  /\ read \in {"all", "again", "part", "none"}
  /\ read = "all" => ~dead
  /\ ~dead => \E h : Path(h, feed, LocalBook, read = "all") /\ Ends(h[Len(feed)])

\* A message that is appended prolongs the path by the book it makes.
LEMMA PathAppend ==
  ASSUME NEW M, NEW q \in Seq(M), NEW m \in M, NEW h, NEW book,
         NEW whole \in BOOLEAN, NEW whole2 \in BOOLEAN,
         Path(h, q, book, whole),
         whole2 => whole /\ Whole(After(m, h[Len(q)]))
  PROVE  \E g : /\ Path(g, Append(q, m), book, whole2)
                /\ g[Len(Append(q, m))] = After(m, h[Len(q)])
<1> DEFINE p == Append(q, m)
           n == Len(q)
           new == After(m, h[n])
           g == [i \in 0..(n + 1) |-> IF i <= n THEN h[i] ELSE new]
<1>1. /\ n \in Nat /\ Len(p) = n + 1
      /\ \A i \in 1..n : p[i] = q[i]
      /\ p[n + 1] = m
  BY AppendProperties, LenProperties
<1>2. /\ h[0] = book
      /\ \A i \in 1..n : h[i] = After(q[i], h[i - 1])
      /\ whole => \A i \in 0..n : Whole(h[i])
      /\ whole2 => whole /\ Whole(new)
  BY DEF Path
<1> HIDE DEF n, p, new
<1>3. /\ DOMAIN g = 0..Len(p)
      /\ g[n + 1] = new
      /\ \A i \in 0..n : g[i] = h[i]
  BY <1>1
<1> HIDE DEF g
<1>4. g[0] = book
  BY <1>1, <1>2, <1>3
<1>5. ASSUME NEW i \in 1..Len(p)
      PROVE  g[i] = After(p[i], g[i - 1])
  <2>1. CASE i = n + 1
    <3>1. i - 1 = n /\ n \in 0..n
      BY <1>1, <2>1
    <3> QED
      BY <1>1, <1>3, <2>1, <3>1 DEF new
  <2>2. CASE i # n + 1
    <3>1. i \in 1..n /\ i - 1 \in 0..n /\ i \in 0..n
      BY <1>1, <2>2
    <3> QED
      BY <1>1, <1>2, <1>3, <3>1
  <2> QED
    BY <2>1, <2>2
<1>6. ASSUME whole2, NEW i \in 0..Len(p)
      PROVE  Whole(g[i])
  <2>1. CASE i = n + 1
    BY <1>2, <1>3, <1>6, <2>1
  <2>2. CASE i # n + 1
    <3>1. i \in 0..n
      BY <1>1, <2>2
    <3> QED
      BY <1>2, <1>3, <1>6, <3>1
  <2> QED
    BY <2>1, <2>2
<1>7. Path(g, p, book, whole2)
  BY <1>3, <1>4, <1>5, <1>6 DEF Path
<1>8. g[Len(p)] = new
  BY <1>1, <1>3
<1> QED
  BY <1>7, <1>8 DEF p, n, new

\* What is lost on its way cuts it.
LEMMA PathCut ==
  ASSUME NEW M, NEW q \in Seq(M), NEW n \in 0..Len(q), NEW h, NEW book,
         NEW whole \in BOOLEAN, Path(h, q, book, whole)
  PROVE  /\ SubSeq(q, 1, n) \in Seq(M)
         /\ \E g : Path(g, SubSeq(q, 1, n), book, whole)
<1> DEFINE p == SubSeq(q, 1, n)
           g == [i \in 0..n |-> h[i]]
<1>1. /\ n \in Nat /\ Len(q) \in Nat /\ n <= Len(q)
      /\ \A i \in 1..n : i \in 1..Len(q)
  BY LenProperties
<1>2. /\ p \in Seq(M)
      /\ Len(p) = n
      /\ \A i \in 1..n : p[i] = q[i]
  <2>1. \A i \in 1..n : q[i] \in M
    BY <1>1, ElementOfSeq
  <2> QED
    BY <1>1, <2>1, SubSeqProperties
<1>3. /\ h[0] = book
      /\ \A i \in 1..Len(q) : h[i] = After(q[i], h[i - 1])
      /\ whole => \A i \in 0..Len(q) : Whole(h[i])
  BY DEF Path
<1> HIDE DEF p
<1>4. DOMAIN g = 0..Len(p) /\ \A i \in 0..n : g[i] = h[i]
  BY <1>2
<1> HIDE DEF g
<1>5. g[0] = book
  BY <1>1, <1>3, <1>4
<1>6. ASSUME NEW i \in 1..n PROVE g[i] = After(p[i], g[i - 1])
  <2>1. i \in 1..Len(q) /\ i - 1 \in 0..n /\ i \in 0..n
    BY <1>1
  <2> QED
    BY <1>2, <1>3, <1>4, <2>1
<1>7. ASSUME whole, NEW i \in 0..n PROVE Whole(g[i])
  <2>1. i \in 0..Len(q)
    BY <1>1
  <2> QED
    BY <1>3, <1>4, <1>7, <2>1
<1>8. Path(g, p, book, whole)
  BY <1>2, <1>4, <1>5, <1>6, <1>7 DEF Path
<1> QED
  BY <1>2, <1>8 DEF p

\* It loses its first book with the first message.
LEMMA PathTail ==
  ASSUME NEW M, NEW q \in Seq(M), q # <<>>, NEW h, NEW book,
         NEW whole \in BOOLEAN, Path(h, q, book, whole)
  PROVE  /\ whole => Whole(After(Head(q), book))
         /\ \E g : /\ Path(g, Tail(q), After(Head(q), book), whole)
                   /\ g[Len(Tail(q))] = h[Len(q)]
<1> DEFINE p == Tail(q)
           n == Len(q)
           g == [i \in 0..(n - 1) |-> h[i + 1]]
<1>1. /\ n \in Nat \ {0} /\ Len(p) = n - 1
      /\ \A i \in 1..(n - 1) : p[i] = q[i + 1]
      /\ Head(q) = q[1]
  BY HeadTailProperties, LenProperties, EmptySeq
<1>2. /\ h[0] = book
      /\ \A i \in 1..n : h[i] = After(q[i], h[i - 1])
      /\ whole => \A i \in 0..n : Whole(h[i])
  BY DEF Path
<1> HIDE DEF n, p
<1>3. /\ DOMAIN g = 0..Len(p)
      /\ \A i \in 0..(n - 1) : g[i] = h[i + 1]
  BY <1>1
<1> HIDE DEF g
<1>4. h[1] = After(Head(q), book)
  <2>1. 1 \in 1..n /\ 1 - 1 = 0
    BY <1>1
  <2> QED
    BY <1>1, <1>2, <2>1
<1>5. g[0] = After(Head(q), book) /\ g[n - 1] = h[n]
  <2>1. 0 \in 0..(n - 1) /\ n - 1 \in 0..(n - 1) /\ 0 + 1 = 1 /\ (n - 1) + 1 = n
    BY <1>1
  <2> QED
    BY <1>3, <1>4, <2>1
<1>6. ASSUME NEW i \in 1..(n - 1) PROVE g[i] = After(p[i], g[i - 1])
  <2>1. /\ i + 1 \in 1..n /\ i - 1 \in 0..(n - 1) /\ i \in 0..(n - 1)
        /\ (i - 1) + 1 = i /\ (i + 1) - 1 = i
    BY <1>1
  <2>2. g[i] = h[i + 1] /\ g[i - 1] = h[i] /\ p[i] = q[i + 1]
    BY <1>1, <1>3, <2>1
  <2>3. h[i + 1] = After(q[i + 1], h[(i + 1) - 1])
    BY <1>2, <2>1
  <2> QED
    BY <2>1, <2>2, <2>3
<1>7. ASSUME whole, NEW i \in 0..(n - 1) PROVE Whole(g[i])
  <2>1. i + 1 \in 0..n
    BY <1>1
  <2> QED
    BY <1>2, <1>3, <1>7, <2>1
<1>8. Path(g, p, After(Head(q), book), whole)
  BY <1>1, <1>3, <1>5, <1>6, <1>7 DEF Path
<1>9. whole => Whole(After(Head(q), book))
  <2>1. 1 \in 0..n
    BY <1>1
  <2> QED
    BY <1>2, <1>4, <2>1
<1> QED
  BY <1>1, <1>5, <1>8, <1>9 DEF p, n

-----------------------------------------------------------------------------
(* The steps                                                               *)

LEMMA OneLevelIsASide ==
  ASSUME NEW b, NEW a, OneLevel(b), OneLevel(a)
  PROVE  TwoSided(b, a)
  BY DEF OneLevel, TwoSided

\* Each message is handled by a step of CryptoBook, which makes of the local
\* book what After says; it panics only on a book without one of its sides.
LEMMA Handled ==
  ASSUME FeedTypes, ~dead, handle_event
  PROVE  /\ Next
         /\ LocalBook' = After(Head(feed), LocalBook)
         /\ dead' => ~Whole(LocalBook')
<1> DEFINE m == Head(feed)
<1>1. m \in Sendable(feed_kind) /\ feed_kind \in {"Deribit", "Kraken", "L1"}
  BY HeadTailProperties DEF FeedTypes, TypeOK, handle_event
<1>2. \/ m.type = "Price" /\ crypto_handle_price_update(m.bids, m.asks)
      \/ m.type = "L2Snapshot" /\ crypto_handle_l2_snapshot(m.bids, m.asks)
      \/ m.type = "L2Update" /\ crypto_handle_l2_update(m.bids, m.asks)
      \/ m.type = "ClearPrice" /\ handle_price_clear
  BY DEF handle_event
<1> HIDE DEF m
<1>3. CASE m.type = "Price"
  <2>1. /\ feed_kind = "L1" /\ m.bids \in Levels /\ m.asks \in Levels
        /\ OneLevel(m.bids) /\ OneLevel(m.asks)
    BY <1>1, <1>3, Received
  <2>2. crypto_handle_price_update(m.bids, m.asks)
    BY <1>2, <1>3
  <2>3. \E p, q \in Prices : Held(m.bids) = {p} /\ Held(m.asks) = {q}
    BY <2>1 DEF OneLevel
  <2>4. L1Next
    BY <2>1, <2>2, <2>3 DEF L1Next
  <2>5. LocalBook' = After(m, LocalBook) /\ ~dead'
    BY <1>3, <2>2 DEF LocalBook, After, crypto_handle_price_update, SetBook, Reprice
  <2> QED
    BY <2>1, <2>4, <2>5 DEF m, Next
<1>4. CASE m.type = "L2Snapshot"
  <2>1. feed_kind # "L1" /\ m.bids \in Levels /\ m.asks \in Levels
    BY <1>1, <1>4, Received
  <2>2. crypto_handle_l2_snapshot(m.bids, m.asks)
    BY <1>2, <1>4
  <2>3. L2Next
    BY <2>1, <2>2 DEF L2Next
  <2>4. LocalBook' = After(m, LocalBook) /\ LocalBook' = <<TRUE, m.bids, m.asks>>
    BY <1>4, <2>2 DEF LocalBook, After, crypto_handle_l2_snapshot, SetBook
  <2>5. dead' => ~TwoSided(m.bids, m.asks)
    BY <2>2 DEF crypto_handle_l2_snapshot, Reprice
  <2> QED
    <3>1. Next
      BY <2>1, <2>3 DEF Next
    <3>2. ~TwoSided(m.bids, m.asks) => ~Whole(<<TRUE, m.bids, m.asks>>)
      BY DEF Whole
    <3>3. dead' => ~Whole(LocalBook')
      BY <2>4, <2>5, <3>2
    <3> QED
      BY <2>4, <3>1, <3>3 DEF m
<1>5. CASE m.type = "L2Update"
  <2>1. /\ feed_kind # "L1" /\ m.bids \in Changes /\ m.asks \in Changes
        /\ Cardinality(DOMAIN m.bids) + Cardinality(DOMAIN m.asks) <= MaxChanges
    BY <1>1, <1>5, Received
  <2>2. crypto_handle_l2_update(m.bids, m.asks)
    BY <1>2, <1>5
  <2>3. L2Next
    BY <2>1, <2>2 DEF L2Next
  <2>4. CASE ~present
    <3>1. UNCHANGED book_vars
      BY <2>2, <2>4 DEF crypto_handle_l2_update
    <3>2. LocalBook' = LocalBook /\ ~dead'
      BY <3>1 DEF book_vars, LocalBook
    <3>3. After(m, LocalBook) = LocalBook
      BY <1>5, <2>4 DEF After, LocalBook
    <3> QED
      BY <2>1, <2>3, <3>2, <3>3 DEF m, Next
  <2>5. CASE present
    <3> DEFINE b == apply_l2_updates(bids, m.bids)
               a == apply_l2_updates(asks, m.asks)
    <3>1. SetBook(b, a)
      BY <2>2, <2>5 DEF crypto_handle_l2_update
    <3>2. TwoSided(b, a) => ~dead'
      BY <2>2, <2>5 DEF crypto_handle_l2_update, Reprice
    <3> HIDE DEF b, a
    <3>3. LocalBook' = <<TRUE, b, a>>
      BY <3>1 DEF LocalBook, SetBook
    <3>4. After(m, LocalBook) = <<TRUE, b, a>>
      BY <1>5, <2>5 DEF After, LocalBook, b, a
    <3> QED
      BY <2>1, <2>3, <3>2, <3>3, <3>4 DEF m, Next, Whole
  <2> QED
    BY <2>4, <2>5
<1>6. CASE m.type = "ClearPrice"
  <2>1. handle_price_clear
    BY <1>2, <1>6
  <2>2. LocalBook' = After(m, LocalBook) /\ ~dead'
    BY <1>6, <2>1 DEF LocalBook, After, None, handle_price_clear
  <2> QED
    BY <2>1, <2>2 DEF m, Next
<1> QED
  BY <1>2, <1>3, <1>4, <1>5, <1>6

LEMMA KindNeverChanges ==
  ASSUME Next
  PROVE  feed_kind' = feed_kind
<1>1. CASE L1Next
  BY <1>1 DEF L1Next, crypto_handle_price_update, SetBook
<1>2. CASE \E b, a \in Levels : crypto_handle_l2_snapshot(b, a)
  BY <1>2 DEF crypto_handle_l2_snapshot, SetBook
<1>3. CASE \E cb, ca \in Changes : crypto_handle_l2_update(cb, ca)
  BY <1>3 DEF crypto_handle_l2_update, SetBook, book_vars
<1>4. CASE handle_price_clear
  BY <1>4 DEF handle_price_clear
<1> QED
  BY <1>1, <1>2, <1>3, <1>4 DEF Next, L2Next

LEMMA HandleKeeps ==
  ASSUME FeedInv, ~dead, handle_event
  PROVE  FeedInv'
<1>1. /\ Next
      /\ LocalBook' = After(Head(feed), LocalBook)
      /\ dead' => ~Whole(LocalBook')
  BY Handled DEF FeedInv
<1>2. feed_kind' = feed_kind /\ TypeOK'
  BY <1>1, KindNeverChanges, TypeNext DEF FeedInv, FeedTypes
<1>3. /\ feed \in Seq(Sendable(feed_kind)) /\ feed # <<>>
      /\ feed' = Tail(feed) /\ UNCHANGED <<xbids, xasks, connected, read>>
  BY DEF FeedInv, FeedTypes, handle_event, exchange_vars
<1>4. feed' \in Seq(Sendable(feed_kind'))
  BY <1>2, <1>3, HeadTailProperties
<1>5. FeedTypes'
  BY <1>2, <1>3, <1>4 DEF FeedInv, FeedTypes
<1>6. PICK h : Path(h, feed, LocalBook, read = "all") /\ Ends(h[Len(feed)])
  BY DEF FeedInv
<1> DEFINE whole == read = "all"
<1>7. whole \in BOOLEAN
  OBVIOUS
<1>8. Path(h, feed, LocalBook, whole)
  BY <1>6
<1> HIDE DEF whole
<1>9. /\ whole => Whole(After(Head(feed), LocalBook))
      /\ \E g : /\ Path(g, Tail(feed), After(Head(feed), LocalBook), whole)
                /\ g[Len(Tail(feed))] = h[Len(feed)]
  BY <1>3, <1>7, <1>8, PathTail
<1>10. PICK g : /\ Path(g, feed', LocalBook', whole)
                /\ g[Len(feed')] = h[Len(feed)]
  BY <1>1, <1>3, <1>9
<1>11. Ends(g[Len(feed)])'
  <2>1. Ends(h[Len(feed)])
    BY <1>6
  <2>2. ExchangeSide' = ExchangeSide
    BY <1>2, <1>3 DEF ExchangeSide
  <2> QED
    BY <1>3, <1>10, <2>1, <2>2 DEF Ends
<1>12. whole => ~dead'
  BY <1>1, <1>9
<1> QED
  BY <1>3, <1>5, <1>10, <1>11, <1>12 DEF FeedInv, whole

\* A message that is pushed, when the listener knows what read becomes and
\* the book it makes is the one that is to be left.
LEMMA DeliverKeeps ==
  ASSUME FeedInv, ~dead, NEW m \in Sendable(feed_kind), UNCHANGED book_vars,
         feed' = Append(feed, m),
         xbids' \in Levels, xasks' \in Levels, ExchangeBook(xbids, xasks)',
         connected' \in BOOLEAN,
         read' \in {"all", "again", "part", "none"},
         read' = "all" =>
           read = "all" /\ \A book : Ends(book) => Whole(After(m, book)),
         \A book : Ends(book) => Ends(After(m, book))'
  PROVE  FeedInv'
<1>1. /\ feed \in Seq(Sendable(feed_kind)) /\ feed_kind' = feed_kind /\ ~dead'
      /\ LocalBook' = LocalBook
  BY DEF FeedInv, FeedTypes, book_vars, LocalBook
<1>2. feed' \in Seq(Sendable(feed_kind'))
  BY <1>1, AppendProperties
<1>3. TypeOK'
  BY TypeNext DEF FeedInv, FeedTypes
<1>4. FeedTypes'
  BY <1>2, <1>3 DEF FeedTypes
<1>5. PICK h : Path(h, feed, LocalBook, read = "all") /\ Ends(h[Len(feed)])
  BY DEF FeedInv
<1> DEFINE whole == read = "all"
           whole2 == read' = "all"
<1>6. /\ whole \in BOOLEAN /\ whole2 \in BOOLEAN
      /\ whole2 => whole /\ Whole(After(m, h[Len(feed)]))
      /\ Path(h, feed, LocalBook, whole)
  BY <1>5
<1> HIDE DEF whole, whole2
<1>7. \E g : /\ Path(g, Append(feed, m), LocalBook, whole2)
             /\ g[Len(Append(feed, m))] = After(m, h[Len(feed)])
  BY <1>1, <1>6, PathAppend
<1>8. PICK g : /\ Path(g, feed', LocalBook', whole2)
               /\ g[Len(feed')] = After(m, h[Len(feed)])
  BY <1>1, <1>7
<1>9. Ends(g[Len(feed)])'
  <2>1. PICK last : last = h[Len(feed)]
    OBVIOUS
  <2>2. Ends(last)
    BY <1>5, <2>1
  <2>3. Ends(After(m, last))'
    BY <2>2
  <2>4. g[Len(feed')] = After(m, last)
    BY <1>8, <2>1
  <2> QED
    BY <2>3, <2>4 DEF Ends
<1> QED
  BY <1>1, <1>4, <1>8, <1>9 DEF FeedInv, whole2

\* A message that is not pushed leaves the path as it is.
LEMMA SilenceKeeps ==
  ASSUME FeedInv, ~dead, UNCHANGED <<book_vars, feed>>,
         xbids' \in Levels, xasks' \in Levels, ExchangeBook(xbids, xasks)',
         connected' \in BOOLEAN,
         read' \in {"all", "again", "part", "none"},
         read' = "all" => read = "all",
         \A book : Ends(book) => Ends(book)'
  PROVE  FeedInv'
<1>1. /\ feed' = feed /\ feed_kind' = feed_kind /\ ~dead'
      /\ LocalBook' = LocalBook
  BY DEF book_vars, LocalBook
<1>2. TypeOK'
  BY TypeNext DEF FeedInv, FeedTypes
<1>3. FeedTypes'
  BY <1>1, <1>2 DEF FeedInv, FeedTypes
<1>4. PICK h : Path(h, feed, LocalBook, read = "all") /\ Ends(h[Len(feed)])
  BY DEF FeedInv
<1>5. Path(h, feed', LocalBook', read' = "all")
  BY <1>1, <1>4 DEF Path
<1>6. Ends(h[Len(feed)])'
  <2>1. Ends(h[Len(feed)]) => Ends(h[Len(feed)])'
    BY <1>1 DEF Ends
  <2> QED
    BY <1>4, <2>1
<1> QED
  BY <1>1, <1>3, <1>5, <1>6 DEF FeedInv

LEMMA FullMakes ==
  ASSUME NEW type \in {"Price", "L2Snapshot"}, NEW b, NEW a, NEW book
  PROVE  After([type |-> type, bids |-> b, asks |-> a], book) = <<TRUE, b, a>>
<1> DEFINE m == [type |-> type, bids |-> b, asks |-> a]
<1>1. m.type # "ClearPrice" /\ m.type # "L2Update" /\ m.bids = b /\ m.asks = a
  OBVIOUS
<1> HIDE DEF m
<1>2. After(m, book) = <<TRUE, b, a>>
  BY <1>1 DEF After
<1> QED
  BY <1>2 DEF m

\* The full book makes the book it is taken from of any book.
LEMMA FullBookMakes ==
  ASSUME FeedTypes, NEW book
  PROVE  /\ After(FullBook(xbids, xasks), book) = ExchangeSide
         /\ Whole(ExchangeSide)
<1>1. /\ xbids \in Levels /\ xasks \in Levels /\ TwoSided(xbids, xasks)
  BY DEF FeedTypes, ExchangeBook
<1>2. TwoSided(TopBid(xbids), TopAsk(xasks))
  BY <1>1, Tops
<1>3. CASE feed_kind = "L1"
  <2>1. FullBook(xbids, xasks)
          = [type |-> "Price", bids |-> TopBid(xbids), asks |-> TopAsk(xasks)]
    BY <1>3 DEF FullBook, TopOfBook, Message
  <2>2. ExchangeSide = <<TRUE, TopBid(xbids), TopAsk(xasks)>>
    BY <1>3 DEF ExchangeSide
  <2>3. After(FullBook(xbids, xasks), book) = <<TRUE, TopBid(xbids), TopAsk(xasks)>>
    <3>1. After([type |-> "Price", bids |-> TopBid(xbids), asks |-> TopAsk(xasks)], book)
            = <<TRUE, TopBid(xbids), TopAsk(xasks)>>
      BY FullMakes
    <3> QED
      BY ONLY <2>1, <3>1
  <2> QED
    BY <1>2, <2>2, <2>3 DEF Whole
<1>4. CASE feed_kind # "L1"
  <2>1. FullBook(xbids, xasks) = [type |-> "L2Snapshot", bids |-> xbids, asks |-> xasks]
    BY <1>4 DEF FullBook, Message
  <2>2. ExchangeSide = <<TRUE, xbids, xasks>>
    BY <1>4 DEF ExchangeSide
  <2>3. After(FullBook(xbids, xasks), book) = <<TRUE, xbids, xasks>>
    BY <2>1, FullMakes
  <2> QED
    BY <1>1, <2>2, <2>3 DEF Whole
<1> QED
  BY <1>3, <1>4

LEMMA ConnectKeeps ==
  ASSUME FeedInv, ~dead, Connect
  PROVE  FeedInv'
<1>1. /\ ~connected /\ connected' = TRUE /\ UNCHANGED <<book_vars, xbids, xasks>>
      /\ feed_kind' = feed_kind
  BY DEF Connect, exchange_vars, book_vars
<1>2. PICK m : m = FullBook(xbids, xasks)
  OBVIOUS
<1>3. PICK side : side = ExchangeSide
  OBVIOUS
<1>4. /\ xbids' \in Levels /\ xasks' \in Levels /\ ExchangeBook(xbids, xasks)'
      /\ m \in Sendable(feed_kind) /\ ExchangeSide' = side
  BY <1>1, <1>2, <1>3, FullBookSent
     DEF FeedInv, FeedTypes, ExchangeBook, Uncrossed, ExchangeSide
<1>5. \A book : After(m, book) = side /\ Whole(After(m, book))
  BY <1>2, <1>3, FullBookMakes DEF FeedInv
<1>6. CASE feed' = Append(feed, m) /\ read' = IF read = "all" THEN "all" ELSE "again"
  <2>1. Ends(side)'
    BY <1>1, <1>4, <1>6 DEF Ends
  <2>2. \A book : Ends(After(m, book))'
    BY <1>5, <2>1
  <2> QED
    BY <1>1, <1>4, <1>5, <1>6, <2>2, DeliverKeeps
<1>7. CASE feed' = feed /\ read' = "none"
  <2>1. \A book : Ends(book) => Ends(book)'
    BY <1>1, <1>7 DEF Ends
  <2> QED
    BY <1>1, <1>4, <1>7, <2>1, SilenceKeeps
<1> QED
  BY <1>2, <1>6, <1>7 DEF Connect, Deliver

\* What ends a connection leaves no book.
LEMMA ClearMakes ==
  ASSUME NEW book
  PROVE  After(ClearPrice, book) = None /\ Whole(None)
  BY ClearPriceTypes DEF After, Whole, None

LEMMA ConnectFailsKeeps ==
  ASSUME FeedInv, ~dead, ConnectFails
  PROVE  FeedInv'
<1>1. /\ ~connected /\ UNCHANGED <<book_vars, xbids, xasks, connected, read>>
      /\ feed' = Append(feed, ClearPrice)
  BY DEF ConnectFails, exchange_vars
<1>2. PICK m : m = ClearPrice
  OBVIOUS
<1>3. /\ xbids' \in Levels /\ xasks' \in Levels /\ ExchangeBook(xbids, xasks)'
      /\ m \in Sendable(feed_kind)
  BY <1>1, <1>2, ClearPriceTypes
     DEF FeedInv, FeedTypes, ExchangeBook, Uncrossed
<1>4. \A book : After(m, book) = None /\ Whole(After(m, book))
  BY <1>2, ClearMakes
<1>5. \A book : Ends(After(m, book))'
  <2>1. PICK none : none = None
    OBVIOUS
  <2>2. Ends(none)'
    BY <1>1, <2>1 DEF Ends, None, Empty
  <2> QED
    BY <1>4, <2>1, <2>2
<1>6. feed' = Append(feed, m) /\ connected' \in BOOLEAN
      /\ read' \in {"all", "again", "part", "none"}
  BY <1>1, <1>2 DEF FeedInv
<1> QED
  BY <1>1, <1>3, <1>4, <1>5, <1>6, DeliverKeeps

LEMMA DisconnectKeeps ==
  ASSUME FeedInv, ~dead, Disconnect
  PROVE  FeedInv'
<1>1. /\ connected' = FALSE /\ UNCHANGED <<book_vars, xbids, xasks, read>>
      /\ feed_kind' = feed_kind /\ ~dead' /\ LocalBook' = LocalBook
  BY DEF Disconnect, exchange_vars, book_vars, LocalBook
<1>2. PICK n \in 0..Len(feed) : feed' = Append(SubSeq(feed, 1, n), ClearPrice)
  BY DEF Disconnect
<1> DEFINE M == Sendable(feed_kind)
           q == SubSeq(feed, 1, n)
           whole == read = "all"
<1>3. PICK h : Path(h, feed, LocalBook, whole)
  BY DEF FeedInv
<1>4. feed \in Seq(M) /\ whole \in BOOLEAN /\ ClearPrice \in M
  BY ClearPriceTypes DEF FeedInv, FeedTypes
<1> HIDE DEF M, whole
<1>5. q \in Seq(M) /\ \E g : Path(g, q, LocalBook, whole)
  BY <1>3, <1>4, PathCut
<1> HIDE DEF q
<1>6. PICK g : Path(g, q, LocalBook, whole)
  BY <1>5
<1>7. \E f : /\ Path(f, Append(q, ClearPrice), LocalBook, whole)
             /\ f[Len(Append(q, ClearPrice))] = After(ClearPrice, g[Len(q)])
  BY <1>4, <1>5, <1>6, ClearMakes, PathAppend
<1>8. PICK f : Path(f, feed', LocalBook', whole) /\ f[Len(feed')] = None
  BY <1>1, <1>2, <1>7, ClearMakes DEF q
<1>9. Ends(f[Len(feed)])'
  <2>1. PICK none : none = None
    OBVIOUS
  <2>2. None' = None
    BY DEF None, Empty
  <2> QED
    BY <1>1, <1>8, <2>2 DEF Ends
<1>10. FeedTypes'
  <2>1. feed' \in Seq(M)
    BY <1>2, <1>4, <1>5, AppendProperties DEF q
  <2>2. TypeOK'
    BY <1>1, TypeNext DEF FeedInv, FeedTypes
  <2>3. ExchangeBook(xbids, xasks)' /\ xbids' \in Levels /\ xasks' \in Levels
    BY <1>1 DEF FeedInv, FeedTypes, ExchangeBook, Uncrossed
  <2> QED
    BY <1>1, <2>1, <2>2, <2>3 DEF FeedTypes, M
<1>11. whole => ~dead'
  BY <1>1
<1> QED
  BY <1>1, <1>8, <1>9, <1>10, <1>11 DEF FeedInv, whole

\* An update makes of the book the exchange had the one it has.
LEMMA UpdateMakes ==
  ASSUME FeedTypes, NEW b \in Levels, NEW a \in Levels, ExchangeBook(b, a),
         xbids' = b, xasks' = a, UNCHANGED feed_kind, NEW book
  PROVE  /\ feed_kind = "L1" =>
              After(Update(b, a), book) = ExchangeSide' /\ Whole(ExchangeSide')
         /\ feed_kind # "L1" /\ book = ExchangeSide =>
              After(Update(b, a), book) = ExchangeSide'
         /\ feed_kind # "L1" /\ book = None => After(Update(b, a), book) = None
         /\ Whole(ExchangeSide')
<1>1. TwoSided(b, a) /\ TwoSided(TopBid(b), TopAsk(a))
  BY Tops DEF ExchangeBook
<1>2. CASE feed_kind = "L1"
  <2>1. Update(b, a) = [type |-> "Price", bids |-> TopBid(b), asks |-> TopAsk(a)]
    BY <1>2 DEF Update, TopOfBook, Message
  <2>2. ExchangeSide' = <<TRUE, TopBid(b), TopAsk(a)>>
    BY <1>2 DEF ExchangeSide, TopBid, TopAsk, best_bid, best_ask, Held
  <2>3. After(Update(b, a), book) = <<TRUE, TopBid(b), TopAsk(a)>>
    <3>1. After([type |-> "Price", bids |-> TopBid(b), asks |-> TopAsk(a)], book)
            = <<TRUE, TopBid(b), TopAsk(a)>>
      BY FullMakes
    <3> QED
      BY ONLY <2>1, <3>1
  <2> QED
    BY <1>1, <1>2, <2>2, <2>3 DEF Whole
<1>3. CASE feed_kind # "L1"
  <2> DEFINE m == Update(b, a)
  <2>1. m = [type |-> "L2Update", bids |-> Changed(xbids, b), asks |-> Changed(xasks, a)]
    BY <1>3 DEF Update, Message
  <2>2. /\ m.type = "L2Update"
        /\ m.bids = Changed(xbids, b) /\ m.asks = Changed(xasks, a)
    BY <2>1
  <2>3. ExchangeSide' = <<TRUE, b, a>> /\ ExchangeSide = <<TRUE, xbids, xasks>>
    BY <1>3 DEF ExchangeSide
  <2> HIDE DEF m
  <2>4. /\ apply_l2_updates(xbids, m.bids) = b
        /\ apply_l2_updates(xasks, m.asks) = a
    <3>1. xbids \in Levels /\ xasks \in Levels
      BY DEF FeedTypes
    <3>2. apply_l2_updates(xbids, Changed(xbids, b)) = b
      BY <3>1, ChangedIsChanges
    <3>3. apply_l2_updates(xasks, Changed(xasks, a)) = a
      BY <3>1, ChangedIsChanges
    <3> QED
      BY <2>2, <3>2, <3>3
  <2>5. ASSUME book = <<TRUE, xbids, xasks>>
        PROVE  After(m, book) = <<TRUE, b, a>>
    <3>1. book[1] /\ book[2] = xbids /\ book[3] = xasks
      BY <2>5
    <3> QED
      BY <2>2, <2>4, <3>1 DEF After
  <2>6. ASSUME book = None
        PROVE  After(m, book) = None
    <3>1. ~book[1]
      BY <2>6 DEF None
    <3> QED
      BY <2>2, <2>6, <3>1 DEF After
  <2> QED
    BY <1>1, <1>3, <2>3, <2>5, <2>6 DEF m, Whole
<1> QED
  BY <1>2, <1>3

LEMMA ExchangeKeeps ==
  ASSUME FeedInv, ~dead, NEW b \in Levels, NEW a \in Levels, ExchangeChange(b, a)
  PROVE  FeedInv'
<1>1. /\ UNCHANGED <<book_vars, connected>> /\ xbids' = b /\ xasks' = a
      /\ ExchangeBook(b, a) /\ feed_kind' = feed_kind
      /\ connected' \in BOOLEAN /\ read \in {"all", "again", "part", "none"}
      /\ xbids \in Levels /\ xasks \in Levels
  BY DEF ExchangeChange, book_vars, FeedInv, FeedTypes
<1>2. ExchangeBook(xbids, xasks)'
  BY <1>1 DEF ExchangeBook, Uncrossed
<1>3. PICK m : m = Update(b, a)
  OBVIOUS
<1>4. PICK side2 : side2 = ExchangeSide'
  OBVIOUS
<1>5. m \in Sendable(feed_kind)
  BY <1>1, <1>3, UpdateSent DEF ExchangeChange
<1>6. /\ feed_kind = "L1" => \A book : After(m, book) = side2
      /\ feed_kind # "L1" =>
           /\ \A book : book = ExchangeSide => After(m, book) = side2
           /\ \A book : book = None => After(m, book) = None
      /\ Whole(side2)
  <2>1. ASSUME NEW book
        PROVE  /\ feed_kind = "L1" => After(m, book) = side2
               /\ feed_kind # "L1" /\ book = ExchangeSide => After(m, book) = side2
               /\ feed_kind # "L1" /\ book = None => After(m, book) = None
               /\ Whole(side2)
    BY <1>1, <1>3, <1>4, UpdateMakes DEF FeedInv
  <2> QED
    BY <2>1
<1>7. CASE /\ connected
           /\ feed' = Append(feed, m)
           /\ read' = IF feed_kind = "L1" /\ read # "all" THEN "again" ELSE read
  <2>1. PICK none : none = None
    OBVIOUS
  <2>2. None' = none
    BY <2>1 DEF None, Empty
  <2>3. ASSUME NEW book, Ends(book)
        PROVE  Ends(After(m, book))'
    <3>1. CASE feed_kind = "L1"
      <4>1. After(m, book) = side2
        BY <1>6, <3>1
      <4>2. Ends(side2)'
        BY <1>1, <1>4, <1>7, <3>1 DEF Ends
      <4> QED
        BY <4>1, <4>2
    <3>2. CASE feed_kind # "L1"
      <4>1. read' = read /\ connected' = connected
        BY <1>1, <1>7, <3>2
      <4>2. read \in {"all", "again"} => After(m, book) = ExchangeSide'
        BY <1>4, <1>6, <1>7, <2>3, <3>2 DEF Ends
      <4>3. read = "none" => After(m, book) = None'
        BY <1>6, <1>7, <2>1, <2>2, <2>3, <3>2 DEF Ends
      <4> QED
        BY <1>7, <4>1, <4>2, <4>3 DEF Ends
    <3> QED
      BY <3>1, <3>2
  <2>4. ASSUME read' = "all"
        PROVE  read = "all" /\ \A book : Ends(book) => Whole(After(m, book))
    <3>1. read = "all"
      BY <1>7, <2>4
    <3>2. ASSUME NEW book, Ends(book) PROVE Whole(After(m, book))
      BY <1>6, <1>7, <3>1, <3>2 DEF Ends
    <3> QED
      BY <3>1, <3>2
  <2>5. read' \in {"all", "again", "part", "none"} /\ feed' = Append(feed, m)
    BY <1>1, <1>7
  <2> QED
    BY <1>1, <1>2, <1>5, <2>3, <2>4, <2>5, DeliverKeeps
<1>8. CASE /\ connected
           /\ feed' = feed
           /\ read' = IF read = "none" THEN "none" ELSE "part"
  <2>1. PICK none : none = None
    OBVIOUS
  <2>2. None' = none
    BY <2>1 DEF None, Empty
  <2>3. ASSUME NEW book, Ends(book) PROVE Ends(book)'
    BY <1>1, <1>8, <2>1, <2>2, <2>3 DEF Ends
  <2> QED
    BY <1>1, <1>2, <1>8, <2>3, SilenceKeeps
<1>9. CASE ~connected /\ UNCHANGED <<feed, read>>
  <2>1. PICK none : none = None
    OBVIOUS
  <2>2. None' = none
    BY <2>1 DEF None, Empty
  <2>3. ASSUME NEW book, Ends(book) PROVE Ends(book)'
    BY <1>1, <1>9, <2>1, <2>2, <2>3 DEF Ends
  <2> QED
    BY <1>1, <1>2, <1>9, <2>3, SilenceKeeps
<1> QED
  BY <1>3, <1>7, <1>8, <1>9 DEF ExchangeChange, Deliver

LEMMA FeedInitial == FeedInit => FeedInv
<1> SUFFICES ASSUME FeedInit PROVE FeedInv
  OBVIOUS
<1>1. TypeOK
  BY EmptyIsASide DEF FeedInit, Init, TypeOK
<1>2. FeedTypes
  BY <1>1, EmptySeq DEF FeedInit, FeedTypes
<1> DEFINE h == [i \in 0..0 |-> LocalBook]
<1>3. /\ LocalBook = None /\ feed = <<>> /\ Len(feed) = 0
      /\ connected = FALSE /\ read = "all" /\ ~dead
  BY EmptySeq DEF FeedInit, Init, LocalBook, None
<1>4. Whole(None)
  BY ClearMakes
<1>5. DOMAIN h = 0..0 /\ h[0] = None
  BY <1>3
<1> HIDE DEF h
<1>6. (\A i \in 0..0 : i = 0) /\ 1..0 = {}
  OBVIOUS
<1>7. Path(h, feed, LocalBook, TRUE)
  BY <1>3, <1>4, <1>5, <1>6 DEF Path
<1>8. Ends(h[Len(feed)])
  BY <1>3, <1>5 DEF Ends
<1> QED
  BY <1>2, <1>3, <1>7, <1>8 DEF FeedInv

LEMMA FeedKeeps ==
  ASSUME FeedInv, [FeedNext]_feed_vars
  PROVE  FeedInv' /\ [Next]_book_vars
<1>1. CASE FeedNext
  <2>1. ~dead
    BY <1>1 DEF FeedNext
  <2>2. CASE handle_event
    BY <2>1, <2>2, HandleKeeps, Handled DEF FeedInv
  <2>3. CASE Connect
    BY <2>1, <2>3, ConnectKeeps DEF Connect
  <2>4. CASE Disconnect
    BY <2>1, <2>4, DisconnectKeeps DEF Disconnect
  <2>5. CASE ConnectFails
    BY <2>1, <2>5, ConnectFailsKeeps DEF ConnectFails
  <2>6. CASE \E b, a \in Levels : ExchangeChange(b, a)
    BY <2>1, <2>6, ExchangeKeeps DEF ExchangeChange
  <2> QED
    BY <1>1, <2>2, <2>3, <2>4, <2>5, <2>6 DEF FeedNext
<1>2. CASE UNCHANGED feed_vars
  <2>1. UNCHANGED <<book_vars, xbids, xasks, feed, connected, read>>
    BY <1>2 DEF feed_vars, exchange_vars
  <2>2. CASE ~dead
    <3>1. \A book : Ends(book) => Ends(book)'
      <4> SUFFICES ASSUME NEW book, Ends(book) PROVE Ends(book)'
        OBVIOUS
      <4>1. feed_kind' = feed_kind
        BY <2>1 DEF book_vars
      <4> QED
        BY <2>1, <4>1 DEF Ends, ExchangeSide, TopBid, TopAsk, None, Empty
    <3>2. /\ xbids' \in Levels /\ xasks' \in Levels /\ ExchangeBook(xbids, xasks)'
          /\ connected' \in BOOLEAN /\ read' \in {"all", "again", "part", "none"}
      BY <2>1 DEF FeedInv, FeedTypes, ExchangeBook, Uncrossed
    <3> QED
      BY <2>1, <2>2, <3>1, <3>2, SilenceKeeps
  <2>3. CASE dead
    <3>1. TypeOK'
      BY <2>1, TypeNext DEF FeedInv, FeedTypes
    <3>2. dead' /\ feed_kind' = feed_kind
      BY <2>1, <2>3 DEF book_vars
    <3>3. FeedTypes'
      BY <2>1, <3>1, <3>2 DEF FeedInv, FeedTypes, ExchangeBook, Uncrossed
    <3> QED
      BY <2>1, <2>3, <3>2, <3>3 DEF FeedInv
  <2> QED
    BY <2>1, <2>2, <2>3
<1> QED
  BY <1>1, <1>2

-----------------------------------------------------------------------------
(* The theorems                                                            *)

LEMMA PathOfNothing ==
  ASSUME FeedInv, feed = <<>>, ~dead
  PROVE  Ends(LocalBook)
<1>1. PICK h : Path(h, feed, LocalBook, read = "all") /\ Ends(h[Len(feed)])
  BY DEF FeedInv
<1>2. Len(feed) = 0
  BY EmptySeq
<1> QED
  BY <1>1, <1>2 DEF Path

\* The feed and its listener send only what CryptoBook says a feed may send:
\* what is shown of the book by itself holds when it is fed.
THEOREM FeedImplementsBook == FeedSpec => Spec
<1>1. FeedInit => Init
  BY DEF FeedInit
<1>2. FeedInv /\ [FeedNext]_feed_vars => [Next]_book_vars /\ FeedInv'
  BY FeedKeeps
<1> QED
  BY <1>1, <1>2, FeedInitial, PTL DEF FeedSpec, Spec

\* The price the strategies read is that of the book as it is, whatever the
\* listener could not parse and however often the connection is lost.
THEOREM FedPriceCurrent == FeedSpec => []PriceIsCurrent
  BY FeedImplementsBook, PriceCurrent, PTL

LEMMA MirrorHolds ==
  ASSUME FeedInv, PriceIsCurrent
  PROVE  Mirror
<1>1. read = "all" => ~dead
  BY DEF FeedInv
<1>2. ASSUME connected, Drained, read \in {"all", "again"}
      PROVE  /\ present
             /\ bids = IF feed_kind = "L1" THEN TopBid(xbids) ELSE xbids
             /\ asks = IF feed_kind = "L1" THEN TopAsk(xasks) ELSE xasks
             /\ prices = {PriceFrom(bids, asks, CacheOf(bids, asks))}
  <2>1. LocalBook = ExchangeSide /\ ~dead
    BY <1>2, PathOfNothing DEF Drained, Ends
  <2>2. /\ present
        /\ bids = IF feed_kind = "L1" THEN TopBid(xbids) ELSE xbids
        /\ asks = IF feed_kind = "L1" THEN TopAsk(xasks) ELSE xasks
    BY <2>1 DEF LocalBook, ExchangeSide
  <2>3. TwoSided(xbids, xasks) /\ TwoSided(TopBid(xbids), TopAsk(xasks))
    BY Tops DEF FeedInv, FeedTypes, ExchangeBook
  <2>4. TwoSided(bids, asks)
    BY <2>2, <2>3
  <2> QED
    BY <2>1, <2>2, <2>4 DEF PriceIsCurrent
<1> QED
  BY <1>1, <1>2 DEF Mirror

\* If every message of a connection is parsed then, once the queue is drained,
\* the local book and its price are the exchange's, and no handler panics
\* unless some message was not understood: for every book the exchange may
\* have and every number of connections and of messages on their way.
THEOREM MirrorsCryptoExchange == FeedSpec => []Mirror
<1>1. FeedInv /\ [FeedNext]_feed_vars => FeedInv'
  BY FeedKeeps
<1> QED
  BY <1>1, FeedInitial, MirrorHolds, FedPriceCurrent, PTL DEF FeedSpec

\* No book outlives its connection.
THEOREM NoBookOutlives == FeedSpec => []NoOldLevels
<1>1. FeedInv /\ [FeedNext]_feed_vars => FeedInv'
  BY FeedKeeps
<1>2. FeedInv => NoOldLevels
  BY PathOfNothing DEF NoOldLevels, Drained, Ends, LocalBook, None
<1> QED
  BY <1>1, <1>2, FeedInitial, PTL DEF FeedSpec

-----------------------------------------------------------------------------
(* Recursion over the prices                                               *)

\* What holds of 0, and of every number up to N whose predecessor it holds of,
\* holds of them all: G is the numbers it holds of.
LEMMA UpTo ==
  ASSUME NEW N \in Nat, NEW G, 0 \in G, \A n \in 1..N : n - 1 \in G => n \in G
  PROVE  0..N \subseteq G
<1> SUFFICES ASSUME NEW m \in 0..N, m \notin G PROVE FALSE
  OBVIOUS
<1>1. (0..N) \ G \in SUBSET Nat /\ (0..N) \ G # {}
  OBVIOUS
<1>2. PICK n \in (0..N) \ G : \A y \in (0..N) \ G : n <= y
  BY <1>1, LeastNumber
<1>3. n \in 1..N /\ n - 1 \in 0..N
  BY <1>2
<1>4. n - 1 \in G
  BY <1>2, <1>3
<1> QED
  BY <1>2, <1>3, <1>4

\* A first value, and each from the one before: what defines a function on
\* 0 .. N, and that g is that function.
IsRecursion(N, S, s0, step) ==
  N \in Nat /\ s0 \in S /\ step \in [(1..N) \X S -> S]
IsRecursive(g, N, S, s0, step) ==
  /\ g \in [0..N -> S] /\ g[0] = s0
  /\ \A n \in 1..N : g[n] = step[<<n, g[n - 1]>>]

\* There is one.
LEMMA Recursion ==
  ASSUME NEW N, NEW S, NEW s0, NEW step, IsRecursion(N, S, s0, step)
  PROVE  \E g : IsRecursive(g, N, S, s0, step)
<1> N \in Nat /\ s0 \in S /\ step \in [(1..N) \X S -> S]
  BY DEF IsRecursion
<1> DEFINE Upto(g, n) == IsRecursive(g, n, S, s0, step)
           G == {n \in 0..N : \E g : Upto(g, n)}
<1> USE DEF IsRecursive
<1>1. 0 \in G
  <2> DEFINE g == [i \in 0..0 |-> s0]
  <2>1. Upto(g, 0)
    OBVIOUS
  <2> HIDE DEF IsRecursive
  <2> QED
    BY <2>1
<1>2. ASSUME NEW n \in 1..N, n - 1 \in G PROVE n \in G
  <2>1. PICK g : Upto(g, n - 1)
    BY <1>2
  <2> DEFINE last == step[<<n, g[n - 1]>>]
             h == [i \in 0..n |-> IF i = n THEN last ELSE g[i]]
  <2>2. n \in Nat /\ n - 1 \in 0..(n - 1) /\ g[n - 1] \in S
    BY <2>1
  <2>3. last \in S
    <3>1. <<n, g[n - 1]>> \in (1..N) \X S
      BY <2>2
    <3> QED
      BY <3>1
  <2>4. \A i \in 0..(n - 1) : h[i] = g[i] /\ g[i] \in S
    BY <2>1, <2>2
  <2>5. h[n] = last
    BY <2>2
  <2> HIDE DEF last
  <2>6. h \in [0..n -> S]
    BY <2>1, <2>2, <2>3
  <2> HIDE DEF h
  <2>7. h[0] = s0
    BY <2>1, <2>2, <2>4
  <2>8. ASSUME NEW i \in 1..n PROVE h[i] = step[<<i, h[i - 1]>>]
    <3>1. h[i - 1] = g[i - 1]
      BY <2>2, <2>4
    <3>2. CASE i = n
      BY <2>5, <3>1, <3>2 DEF last
    <3>3. CASE i # n
      BY <2>1, <2>2, <2>4, <3>1, <3>3
    <3> QED
      BY <3>2, <3>3
  <2>9. Upto(h, n)
    BY <2>6, <2>7, <2>8
  <2> HIDE DEF IsRecursive
  <2> QED
    BY <2>9
<1>3. N \in G
  <2> HIDE DEF G
  <2> QED
    BY <1>1, <1>2, UpTo
<1>4. PICK g : Upto(g, N)
  BY <1>3
<1> QED
  BY <1>4

-----------------------------------------------------------------------------
(* What values add up to                                                   *)

\* The prices of a side from the n-th best on are those up to it in order, or
\* in reverse.
InOrder(s) ==
  \/ s = [n \in Prices |-> n]
  \/ s = [n \in Prices |-> MaxPrice + 1 - n]

\* F adds up g in the order s.
AddsUp(F, g, s) ==
  /\ F \in [0..MaxPrice -> Int] /\ F[0] = 0
  /\ \A n \in 1..MaxPrice : F[n] = F[n - 1] + g[s[n]]

LEMMA TotalInOrder ==
  ASSUME NEW g, \A p \in Prices : g[p] \in Int
  PROVE  \E F : AddsUp(F, g, [n \in Prices |-> n]) /\ F[MaxPrice] = Total(g)
<1> DEFINE Is(u) == u = [p \in 0..MaxPrice |-> IF p = 0 THEN 0 ELSE u[p - 1] + g[p]]
           upto == CHOOSE u : Is(u)
<1>1. MaxPrice \in Nat
  BY VwapAssumption
<1>2. PICK step : step = [pair \in (1..MaxPrice) \X Int |-> pair[2] + g[pair[1]]]
  OBVIOUS
<1>3. PICK v \in [0..MaxPrice -> Int] :
        v[0] = 0 /\ \A n \in 1..MaxPrice : v[n] = step[<<n, v[n - 1]>>]
  <2>1. IsRecursion(MaxPrice, Int, 0, step)
    BY <1>1, <1>2 DEF Prices, IsRecursion
  <2>2. \E v : IsRecursive(v, MaxPrice, Int, 0, step)
    BY <2>1, Recursion
  <2> QED
    BY <2>2 DEF IsRecursive
<1>4. \A n \in 1..MaxPrice : v[n] = v[n - 1] + g[n]
  <2> SUFFICES ASSUME NEW n \in 1..MaxPrice
               PROVE  v[n] = v[n - 1] + g[n]
    OBVIOUS
  <2>1. n - 1 \in 0..MaxPrice
    BY <1>1
  <2>2. v[n - 1] \in Int
    BY <1>3, <2>1
  <2>3. <<n, v[n - 1]>> \in (1..MaxPrice) \X Int
    BY <2>2
  <2>4. step[<<n, v[n - 1]>>] = v[n - 1] + g[n]
    BY <1>2, <2>3
  <2> QED
    BY <1>3, <2>4
<1>5. Is(v)
  <2>1. \A n \in 0..MaxPrice : v[n] = IF n = 0 THEN 0 ELSE v[n - 1] + g[n]
    <3>1. \A n \in 0..MaxPrice : n = 0 \/ n \in 1..MaxPrice
      BY <1>1
    <3> QED
      BY <1>3, <1>4, <3>1
  <2>2. v = [n \in 0..MaxPrice |-> v[n]]
    OBVIOUS
  <2> QED
    BY <2>1, <2>2
<1>6. Is(upto)
  <2> HIDE DEF Is
  <2> QED
    BY <1>5
<1>7. Total(g) = upto[MaxPrice]
  BY Zenon DEF Total
<1>8. \A n \in 0..MaxPrice : upto[n] = IF n = 0 THEN 0 ELSE upto[n - 1] + g[n]
  <2> HIDE DEF upto
  <2> QED
    BY Zenon, <1>6
<1>9. upto = [n \in 0..MaxPrice |-> upto[n]]
  <2> HIDE DEF upto
  <2>1. DOMAIN upto = 0..MaxPrice
    BY <1>6
  <2> QED
    BY <1>6, <2>1
<1> HIDE DEF upto, Is
<1>10. \A n \in 0..MaxPrice : upto[n] \in Int
  <2> DEFINE G == {n \in 0..MaxPrice : upto[n] \in Int}
  <2>1. 0 \in G
    BY <1>1, <1>8
  <2>2. \A n \in 1..MaxPrice : n - 1 \in G => n \in G
    BY <1>1, <1>8 DEF Prices
  <2>3. 0..MaxPrice \subseteq G
    <3> HIDE DEF G
    <3> QED
      BY <1>1, <2>1, <2>2, UpTo
  <2> QED
    BY <2>3
<1>11. AddsUp(upto, g, [n \in Prices |-> n])
  <2>1. upto \in [0..MaxPrice -> Int]
    BY <1>9, <1>10
  <2>2. upto[0] = 0 /\ \A n \in 1..MaxPrice : upto[n] = upto[n - 1] + g[n]
    BY <1>1, <1>8
  <2> QED
    BY <2>1, <2>2 DEF AddsUp, Prices
<1> QED
  BY <1>7, <1>11

\* The order does not matter.
LEMMA TotalInAnyOrder ==
  ASSUME NEW g, \A p \in Prices : g[p] \in Int, NEW s, InOrder(s)
  PROVE  \E F : AddsUp(F, g, s) /\ F[MaxPrice] = Total(g)
<1>1. PICK u : AddsUp(u, g, [n \in Prices |-> n]) /\ u[MaxPrice] = Total(g)
  BY TotalInOrder
<1>2. CASE s = [n \in Prices |-> n]
  BY <1>1, <1>2
<1>3. CASE s = [n \in Prices |-> MaxPrice + 1 - n]
  <2> DEFINE N == MaxPrice
             F == [n \in 0..N |-> u[N] - u[N - n]]
  <2>1. N \in Nat /\ u \in [0..N -> Int] /\ u[0] = 0
        /\ \A n \in 1..N : u[n] = u[n - 1] + g[n]
    BY <1>1, VwapAssumption DEF AddsUp, Prices
  <2>2. \A n \in 0..N : N - n \in 0..N /\ u[N - n] \in Int /\ u[N] \in Int
    BY <2>1
  <2>3. F \in [0..N -> Int]
    BY <2>2
  <2>4. F[0] = 0 /\ F[N] = Total(g)
    <3>1. 0 \in 0..N /\ N \in 0..N /\ N - 0 = N /\ N - N = 0
      BY <2>1
    <3>2. F[0] = u[N] - u[N] /\ F[N] = u[N] - u[0]
      BY <3>1
    <3> QED
      BY <1>1, <2>1, <2>2, <3>1, <3>2
  <2>5. ASSUME NEW n \in 1..N PROVE F[n] = F[n - 1] + g[s[n]]
    <3>1. n - 1 \in 0..N /\ n \in 0..N /\ N + 1 - n \in 1..N
          /\ N - (n - 1) = N + 1 - n /\ (N + 1 - n) - 1 = N - n
      BY <2>1
    <3>2. F[n] = u[N] - u[N - n] /\ F[n - 1] = u[N] - u[N + 1 - n]
      BY <3>1
    <3>3. u[N + 1 - n] = u[N - n] + g[N + 1 - n]
      BY <2>1, <3>1
    <3>4. s[n] = N + 1 - n
      BY <1>3 DEF Prices
    <3>5. g[N + 1 - n] \in Int /\ u[N] \in Int /\ u[N - n] \in Int
      BY <2>2, <3>1 DEF Prices
    <3> QED
      BY <3>2, <3>3, <3>4, <3>5
  <2> HIDE DEF F
  <2>6. AddsUp(F, g, s)
    BY <2>3, <2>4, <2>5 DEF AddsUp
  <2> QED
    BY <2>4, <2>6
<1> QED
  BY <1>2, <1>3 DEF InOrder

-----------------------------------------------------------------------------
(* The state of the computation, level by level                            *)

LEMMA LesserOfTwo ==
  ASSUME NEW x \in Nat, NEW y \in Nat
  PROVE  /\ Min({x, y}) \in Nat
         /\ Min({x, y}) <= x /\ Min({x, y}) <= y
         /\ Min({x, y}) = x \/ Min({x, y}) = y
<1>1. \E z \in {x, y} : \A w \in {x, y} : z <= w
  <2>1. CASE x <= y
    BY <2>1
  <2>2. CASE y <= x
    BY <2>2
  <2> QED
    BY <2>1, <2>2
<1> QED
  BY <1>1 DEF Min

\* A state of the computation: no more than the volume is filled.
Filling ==
  {st \in [dominant_side_is_bid : BOOLEAN, search_volume : Nat,
           total_value : Nat, total_volume : Nat,
           cutoff_price_key : Nat, cutoff_volume_used : Nat] :
     st.total_volume <= st.search_volume}

\* One state follows another with a level o at price p: as much of it is used
\* as there is or as is lacking, whichever is less.
Follows(new, st, o, p) ==
  /\ new.dominant_side_is_bid = st.dominant_side_is_bid
  /\ new.search_volume = st.search_volume
  /\ \E used \in Nat :
       /\ used <= o /\ used <= st.search_volume - st.total_volume
       /\ used = o \/ used = st.search_volume - st.total_volume
       /\ new.total_volume = st.total_volume + used
       /\ new.total_value = st.total_value + p * used

LEMMA TakeFollows ==
  ASSUME NEW st \in Filling, NEW other \in [Prices -> Nat], NEW p \in Prices
  PROVE  Take(st, other, p) \in Filling /\ Follows(Take(st, other, p), st, other[p], p)
<1> DEFINE used == Min({other[p], st.search_volume - st.total_volume})
           new == [st EXCEPT !.total_value = @ + p * used,
                             !.total_volume = @ + used,
                             !.cutoff_price_key = p,
                             !.cutoff_volume_used = used]
<1>1. /\ st.search_volume \in Nat /\ st.total_volume \in Nat /\ st.total_value \in Nat
      /\ st.total_volume <= st.search_volume
      /\ other[p] \in Nat /\ p \in Nat
  BY VwapAssumption DEF Filling, Prices
<1>2. /\ used \in Nat
      /\ used <= other[p] /\ used <= st.search_volume - st.total_volume
      /\ used = other[p] \/ used = st.search_volume - st.total_volume
  <2>1. st.search_volume - st.total_volume \in Nat
    BY <1>1
  <2> QED
    BY <1>1, <2>1, LesserOfTwo
<1>3. Take(st, other, p) = IF used = 0 THEN st ELSE new
  BY DEF Take
<1> HIDE DEF used
<1>4. CASE used = 0
  <2>1. /\ st.total_volume = st.total_volume + used
        /\ st.total_value = st.total_value + p * used
    BY <1>1, <1>4
  <2> QED
    BY <1>2, <1>3, <1>4, <2>1 DEF Follows
<1>5. CASE used # 0
  <2>0. p * used \in Nat
    BY <1>1, <1>2
  <2>1. /\ new.dominant_side_is_bid = st.dominant_side_is_bid
        /\ new.search_volume = st.search_volume
        /\ new.total_volume = st.total_volume + used
        /\ new.total_value = st.total_value + p * used
    BY DEF Filling
  <2>2. st.total_volume + used \in Nat /\ st.total_value + p * used \in Nat
        /\ st.total_volume + used <= st.search_volume
    BY <1>1, <1>2, <2>0
  <2>3. new \in Filling
    BY <1>1, <1>2, <2>2 DEF Filling
  <2> HIDE DEF new
  <2> QED
    BY <1>2, <1>3, <1>5, <2>1, <2>3 DEF Follows
<1> QED
  BY <1>4, <1>5

OtherSide(b, a) == IF dominant_side_is_bid(b, a) THEN a ELSE b

LEMMA SearchedInOrder ==
  ASSUME NEW b, NEW a
  PROVE  /\ InOrder(search_side(b, a))
         /\ search_side(b, a) = IF dominant_side_is_bid(b, a)
                                THEN [n \in Prices |-> n]
                                ELSE [n \in Prices |-> MaxPrice + 1 - n]
<1>1. CASE dominant_side_is_bid(b, a)
  BY <1>1 DEF search_side, InOrder
<1>2. CASE ~dominant_side_is_bid(b, a)
  BY <1>2 DEF search_side, InOrder
<1> QED
  BY <1>1, <1>2

LEMMA OrderIsPrices ==
  ASSUME NEW s, InOrder(s)
  PROVE  /\ \A n \in Prices : s[n] \in Prices /\ s[s[n]] = n
         /\ \/ \A n \in Prices : s[n] = n
            \/ \A n \in Prices : s[n] = MaxPrice + 1 - n
BY VwapAssumption DEF InOrder, Prices

\* The states of the computation, one for each level, the last the result.
Computes(st, b, a) ==
  /\ st \in [0..MaxPrice -> Filling]
  /\ st[0].dominant_side_is_bid = dominant_side_is_bid(b, a)
  /\ st[0].search_volume = search_volume(b, a)
  /\ st[0].total_value = 0 /\ st[0].total_volume = 0
  /\ \A n \in 1..MaxPrice :
       Follows(st[n], st[n - 1], OtherSide(b, a)[search_side(b, a)[n]], search_side(b, a)[n])
  /\ VwapStateOf(b, a) = st[MaxPrice]

LEMMA Computed ==
  ASSUME NEW b \in [Prices -> Nat], NEW a \in [Prices -> Nat],
         search_volume(b, a) \in Nat
  PROVE  \E st : Computes(st, b, a)
<1> DEFINE by_bid == dominant_side_is_bid(b, a)
           start == [dominant_side_is_bid |-> by_bid, search_volume |-> search_volume(b, a),
                     total_value |-> 0, total_volume |-> 0,
                     cutoff_price_key |-> 0, cutoff_volume_used |-> 0]
           other == OtherSide(b, a)
           side == search_side(b, a)
           Is(u) == u = [n \in 0..MaxPrice |->
                           IF n = 0 THEN start ELSE Take(u[n - 1], other, side[n])]
           after == CHOOSE u : Is(u)
<1>1. MaxPrice \in Nat /\ Prices = 1..MaxPrice
  BY VwapAssumption DEF Prices
<1>2. start \in Filling
  <2>1. by_bid \in BOOLEAN
    BY DEF dominant_side_is_bid
  <2> HIDE DEF by_bid
  <2> QED
    BY <2>1 DEF Filling
<1>3. other \in [Prices -> Nat]
  BY DEF OtherSide
<1>4. \A n \in Prices : side[n] \in Prices
  BY SearchedInOrder, OrderIsPrices
<1>5. VwapStateOf(b, a) = after[MaxPrice]
  BY Zenon DEF VwapStateOf, OtherSide
<1>6. /\ start.dominant_side_is_bid = by_bid
      /\ start.search_volume = search_volume(b, a)
      /\ start.total_value = 0 /\ start.total_volume = 0
  OBVIOUS
<1> HIDE DEF by_bid, start, other, side
<1>7. PICK step : step = [pair \in (1..MaxPrice) \X Filling |->
                            Take(pair[2], other, side[pair[1]])]
  OBVIOUS
<1>8. step \in [(1..MaxPrice) \X Filling -> Filling]
  <2>1. ASSUME NEW pair \in (1..MaxPrice) \X Filling
        PROVE  Take(pair[2], other, side[pair[1]]) \in Filling
    BY <1>1, <1>3, <1>4, TakeFollows
  <2> QED
    BY <1>7, <2>1
<1>9. PICK v : IsRecursive(v, MaxPrice, Filling, start, step)
  BY <1>1, <1>2, <1>8, Recursion DEF IsRecursion
<1>10. \A n \in 1..MaxPrice : v[n] = Take(v[n - 1], other, side[n])
  <2> SUFFICES ASSUME NEW n \in 1..MaxPrice
               PROVE  v[n] = Take(v[n - 1], other, side[n])
    OBVIOUS
  <2>1. n - 1 \in 0..MaxPrice
    BY <1>1
  <2>2. <<n, v[n - 1]>> \in (1..MaxPrice) \X Filling
    BY <1>9, <2>1 DEF IsRecursive
  <2> QED
    BY <1>7, <1>9, <2>2 DEF IsRecursive
<1>11. Is(v)
  <2>1. \A n \in 0..MaxPrice : n = 0 \/ n \in 1..MaxPrice
    BY <1>1
  <2>2. \A n \in 0..MaxPrice :
          v[n] = IF n = 0 THEN start ELSE Take(v[n - 1], other, side[n])
    BY <1>9, <1>10, <2>1 DEF IsRecursive
  <2>3. v = [n \in 0..MaxPrice |-> v[n]]
    BY <1>9 DEF IsRecursive
  <2> QED
    BY <2>2, <2>3
<1>12. Is(after)
  <2> HIDE DEF Is
  <2> QED
    BY <1>11
<1> HIDE DEF after
<1>13. \A n \in 0..MaxPrice :
         after[n] = IF n = 0 THEN start ELSE Take(after[n - 1], other, side[n])
  BY Zenon, <1>12
<1> HIDE DEF Is
<1>14. after[0] = start
  <2>1. 0 \in 0..MaxPrice
    BY <1>1
  <2> QED
    BY Zenon, <1>13, <2>1
<1>15. \A n \in 1..MaxPrice : after[n] = Take(after[n - 1], other, side[n])
  <2>1. \A n \in 1..MaxPrice : n \in 0..MaxPrice /\ n # 0
    BY <1>1
  <2> QED
    BY Zenon, <1>13, <2>1
<1>16. \A n \in 0..MaxPrice : after[n] \in Filling
  <2> DEFINE G == {n \in 0..MaxPrice : after[n] \in Filling}
  <2>1. 0 \in G
    BY <1>1, <1>2, <1>14
  <2>2. ASSUME NEW n \in 1..MaxPrice, n - 1 \in G PROVE n \in G
    <3>1. after[n - 1] \in Filling /\ n \in 0..MaxPrice /\ side[n] \in Prices
      BY <1>1, <1>4, <2>2
    <3> QED
      BY <1>3, <1>15, <3>1, TakeFollows
  <2>3. 0..MaxPrice \subseteq G
    <3> HIDE DEF G
    <3> QED
      BY <1>1, <2>1, <2>2, UpTo
  <2> QED
    BY <2>3
<1>17. ASSUME NEW n \in 1..MaxPrice
       PROVE  Follows(after[n], after[n - 1], other[side[n]], side[n])
  <2>1. n - 1 \in 0..MaxPrice /\ side[n] \in Prices
    BY <1>1, <1>4
  <2> QED
    BY <1>3, <1>15, <1>16, <2>1, TakeFollows
<1>18. after \in [0..MaxPrice -> Filling]
  <2>1. after = [n \in 0..MaxPrice |-> after[n]]
    <3>1. DOMAIN after = 0..MaxPrice
      BY <1>12 DEF Is
    <3> QED
      BY <1>12, <3>1 DEF Is
  <2> QED
    BY <1>16, <2>1
<1> QED
  BY <1>5, <1>6, <1>14, <1>17, <1>18 DEF Computes, by_bid, other, side

-----------------------------------------------------------------------------
(* No fill is better                                                       *)

\* What has been taken of a volume up to a price, less what a fill takes of it
\* up to there, is worth at most (bids) or at least (asks) as much as if it all
\* had that price.
LEMMA Ascending ==
  ASSUME NEW n \in Int, NEW d \in Int, NEW w \in Int, NEW u \in Int, NEW x \in Int,
         d >= 0, w <= (n - 1) * d
  PROVE  w + n * u - n * x <= n * (d + u - x)
<1>1. (n - 1) * d = n * d - d /\ n * (d + u - x) = n * d + n * u - n * x
  OBVIOUS
<1>2. n * d \in Int /\ n * u \in Int /\ n * x \in Int
  OBVIOUS
<1> QED
  BY <1>1, <1>2

LEMMA Descending ==
  ASSUME NEW n \in Int, NEW d \in Int, NEW w \in Int, NEW u \in Int, NEW x \in Int,
         d >= 0, w >= (n + 1) * d
  PROVE  w + n * u - n * x >= n * (d + u - x)
<1>1. (n + 1) * d = n * d + d /\ n * (d + u - x) = n * d + n * u - n * x
  OBVIOUS
<1>2. n * d \in Int /\ n * u \in Int /\ n * x \in Int
  OBVIOUS
<1> QED
  BY <1>1, <1>2

LEMMA ComputesKeep ==
  ASSUME NEW b, NEW a, NEW st, Computes(st, b, a)
  PROVE  \A n \in 0..MaxPrice :
           /\ st[n].dominant_side_is_bid = dominant_side_is_bid(b, a)
           /\ st[n].search_volume = search_volume(b, a)
<1> DEFINE G == {n \in 0..MaxPrice :
                   /\ st[n].dominant_side_is_bid = dominant_side_is_bid(b, a)
                   /\ st[n].search_volume = search_volume(b, a)}
<1>0. MaxPrice \in Nat
  BY VwapAssumption
<1>1. 0 \in G
  BY <1>0 DEF Computes
<1>2. ASSUME NEW n \in 1..MaxPrice, n - 1 \in G PROVE n \in G
  <2>1. n \in 0..MaxPrice
    BY <1>0
  <2>2. /\ st[n].dominant_side_is_bid = st[n - 1].dominant_side_is_bid
        /\ st[n].search_volume = st[n - 1].search_volume
    BY Zenon DEF Computes, Follows
  <2> QED
    BY <1>2, <2>1, <2>2
<1>3. 0..MaxPrice \subseteq G
  <2> HIDE DEF G
  <2> QED
    BY <1>0, <1>1, <1>2, UpTo
<1> QED
  BY <1>3

\* What has been taken of the volume after each level.
Taken(tv, val, o, s, V) ==
  /\ tv \in [0..MaxPrice -> Nat] /\ val \in [0..MaxPrice -> Nat]
  /\ tv[0] = 0 /\ val[0] = 0
  /\ \A n \in 0..MaxPrice : tv[n] <= V
  /\ \A n \in 1..MaxPrice :
       \E used \in Nat :
         /\ used <= o[s[n]] /\ used <= V - tv[n - 1]
         /\ used = o[s[n]] \/ used = V - tv[n - 1]
         /\ tv[n] = tv[n - 1] + used
         /\ val[n] = val[n - 1] + s[n] * used

LEMMA ComputesTaken ==
  ASSUME NEW b, NEW a, NEW st, Computes(st, b, a)
  PROVE  Taken([n \in 0..MaxPrice |-> st[n].total_volume],
               [n \in 0..MaxPrice |-> st[n].total_value],
               OtherSide(b, a), search_side(b, a), search_volume(b, a))
<1> DEFINE tv == [n \in 0..MaxPrice |-> st[n].total_volume]
           val == [n \in 0..MaxPrice |-> st[n].total_value]
           o == OtherSide(b, a)
           s == search_side(b, a)
           V == search_volume(b, a)
<1>1. MaxPrice \in Nat
  BY VwapAssumption
<1>2. \A n \in 0..MaxPrice : st[n] \in Filling /\ st[n].search_volume = V
  BY ComputesKeep DEF Computes
<1>3. \A n \in 0..MaxPrice :
        st[n].total_volume \in Nat /\ st[n].total_value \in Nat /\ st[n].total_volume <= V
  BY <1>2 DEF Filling
<1>4. tv \in [0..MaxPrice -> Nat] /\ val \in [0..MaxPrice -> Nat]
      /\ \A n \in 0..MaxPrice : tv[n] <= V
  BY <1>3
<1>5. tv[0] = 0 /\ val[0] = 0
  BY <1>1 DEF Computes
<1>6. ASSUME NEW n \in 1..MaxPrice
      PROVE  \E used \in Nat :
               /\ used <= o[s[n]] /\ used <= V - tv[n - 1]
               /\ used = o[s[n]] \/ used = V - tv[n - 1]
               /\ tv[n] = tv[n - 1] + used
               /\ val[n] = val[n - 1] + s[n] * used
  <2>1. n - 1 \in 0..MaxPrice /\ n \in 0..MaxPrice
    BY <1>1
  <2>2. Follows(st[n], st[n - 1], o[s[n]], s[n])
    BY DEF Computes
  <2>3. /\ tv[n] = st[n].total_volume /\ tv[n - 1] = st[n - 1].total_volume
        /\ val[n] = st[n].total_value /\ val[n - 1] = st[n - 1].total_value
        /\ st[n - 1].search_volume = V
    BY <1>2, <2>1
  <2> HIDE DEF tv, val, o, s, V
  <2> QED
    BY <2>2, <2>3 DEF Follows
<1> HIDE DEF tv, val, o, s, V
<1>7. Taken(tv, val, o, s, V)
  BY <1>4, <1>5, <1>6 DEF Taken
<1> QED
  BY <1>7 DEF tv, val, o, s, V

\* After each level at least as much has been taken as any fill takes of the
\* levels so far, and what more has been taken is not worse than that level.
LEMMA NoFillBetter ==
  ASSUME NEW tv, NEW val, NEW o \in [Prices -> Nat], NEW s, NEW V \in Nat,
         InOrder(s), Taken(tv, val, o, s, V),
         NEW M \in 0..V, NEW f \in Fills(o, M)
  PROVE  /\ tv[MaxPrice] >= M
         /\ tv[MaxPrice] = M =>
              /\ s = [n \in Prices |-> n] => val[MaxPrice] <= Value(f)
              /\ s = [n \in Prices |-> MaxPrice + 1 - n] => val[MaxPrice] >= Value(f)
<1> DEFINE N == MaxPrice
           worth == [p \in Prices |-> p * f[p]]
<1>1. N \in Nat /\ Prices = 1..N
  BY VwapAssumption DEF Prices
<1>2. f \in [Prices -> 0..M] /\ (\A p \in Prices : f[p] <= o[p]) /\ Total(f) = M
  BY DEF Fills
<1>3. \A p \in Prices : p \in Nat /\ f[p] \in Nat /\ p * f[p] \in Nat
  BY <1>1, <1>2
<1>4. \A n \in Prices : s[n] \in Prices
  BY OrderIsPrices
<1>5. PICK F : AddsUp(F, f, s) /\ F[N] = M
  <2>1. \A p \in Prices : f[p] \in Int
    BY <1>3
  <2> QED
    BY <1>2, <2>1, TotalInAnyOrder
<1>6. PICK FV : AddsUp(FV, worth, s) /\ FV[N] = Value(f)
  <2>1. \A p \in Prices : worth[p] \in Int
    BY <1>3
  <2> HIDE DEF worth
  <2>2. \E FV : AddsUp(FV, worth, s) /\ FV[N] = Total(worth)
    BY <2>1, TotalInAnyOrder
  <2> QED
    BY <2>2 DEF Value, worth
<1>7. \A n \in 0..N : F[n] \in Int /\ FV[n] \in Int /\ tv[n] \in Nat /\ val[n] \in Nat
                      /\ tv[n] <= V
  BY <1>5, <1>6 DEF AddsUp, Taken
<1>8. ASSUME NEW n \in 1..N
      PROVE  /\ n \in 0..N /\ n - 1 \in 0..N /\ s[n] \in Prices /\ f[s[n]] \in Nat
             /\ F[n] = F[n - 1] + f[s[n]]
             /\ FV[n] = FV[n - 1] + s[n] * f[s[n]]
             /\ f[s[n]] <= o[s[n]]
  <2>1. n \in 0..N /\ n - 1 \in 0..N /\ s[n] \in Prices
    BY <1>1, <1>4
  <2>2. worth[s[n]] = s[n] * f[s[n]]
    BY <2>1
  <2> HIDE DEF worth
  <2> QED
    BY <1>2, <1>3, <1>5, <1>6, <2>1, <2>2 DEF AddsUp
<1> HIDE DEF worth
<1>9. \A n \in 0..N : F[n] <= V
  <2> DEFINE G == {n \in 0..N : F[N - n] <= V}
  <2>1. 0 \in G
    BY <1>1, <1>5
  <2>2. ASSUME NEW n \in 1..N, n - 1 \in G PROVE n \in G
    <3>1. N - (n - 1) \in 1..N /\ (N - (n - 1)) - 1 = N - n /\ N - n \in 0..N /\ n \in 0..N
      BY <1>1
    <3>2. F[N - (n - 1)] = F[N - n] + f[s[N - (n - 1)]] /\ f[s[N - (n - 1)]] \in Nat
      BY <1>8, <3>1
    <3>3. F[N - (n - 1)] <= V /\ F[N - n] \in Int
      BY <1>7, <2>2, <3>1
    <3> QED
      BY <3>1, <3>2, <3>3
  <2>3. 0..N \subseteq G
    <3> HIDE DEF G
    <3> QED
      BY <1>1, <2>1, <2>2, UpTo
  <2>4. ASSUME NEW n \in 0..N PROVE F[n] <= V
    <3>1. N - n \in G /\ N - (N - n) = n
      BY <1>1, <2>3
    <3> QED
      BY <3>1
  <2> QED
    BY <2>4
<1> DEFINE Ahead(n) == tv[n] - F[n]
           Best(n) ==
             /\ Ahead(n) >= 0
             /\ (\A i \in Prices : s[i] = i) => val[n] - FV[n] <= n * Ahead(n)
             /\ (\A i \in Prices : s[i] = N + 1 - i)
                  => val[n] - FV[n] >= (N + 1 - n) * Ahead(n)
           G == {n \in 0..N : Best(n)}
<1>10. 0 \in G
  <2>1. tv[0] = 0 /\ val[0] = 0 /\ F[0] = 0 /\ FV[0] = 0
    BY <1>5, <1>6 DEF Taken, AddsUp
  <2>2. (N + 1 - 0) * 0 = 0 /\ 0 * 0 = 0
    BY <1>1
  <2> QED
    BY <1>1, <2>1, <2>2
<1>11. ASSUME NEW n \in 1..N, n - 1 \in G PROVE n \in G
  <2>1. PICK used \in Nat :
          /\ used <= o[s[n]] /\ used <= V - tv[n - 1]
          /\ used = o[s[n]] \/ used = V - tv[n - 1]
          /\ tv[n] = tv[n - 1] + used
          /\ val[n] = val[n - 1] + s[n] * used
    BY DEF Taken
  <2> DEFINE d == Ahead(n - 1)
             w == val[n - 1] - FV[n - 1]
             x == f[s[n]]
  <2>2. /\ n \in 0..N /\ n - 1 \in 0..N /\ s[n] \in Nat /\ x \in Nat
        /\ F[n] = F[n - 1] + x /\ FV[n] = FV[n - 1] + s[n] * x /\ x <= o[s[n]]
    BY <1>1, <1>8
  <2>3. /\ F[n] \in Int /\ F[n - 1] \in Int /\ FV[n] \in Int /\ FV[n - 1] \in Int
        /\ tv[n] \in Nat /\ tv[n - 1] \in Nat /\ val[n] \in Nat /\ val[n - 1] \in Nat
        /\ F[n] <= V /\ o[s[n]] \in Nat
    BY <1>4, <1>7, <1>8, <1>9, <2>2
  <2>4. d \in Int /\ d >= 0 /\ w \in Int
    BY <1>11, <2>3
  <2>5. s[n] * used \in Nat /\ s[n] * x \in Nat
    BY <2>1, <2>2
  <2>6. Ahead(n) = d + used - x /\ val[n] - FV[n] = w + s[n] * used - s[n] * x
    <3>1. Ahead(n) = d + used - x
      BY <2>1, <2>2, <2>3
    <3> DEFINE su == s[n] * used
               sx == s[n] * x
    <3>2. su \in Nat /\ sx \in Nat /\ val[n] = val[n - 1] + su /\ FV[n] = FV[n - 1] + sx
      BY <2>1, <2>2, <2>5
    <3> HIDE DEF su, sx
    <3>3. val[n] - FV[n] = w + su - sx
      BY <2>3, <3>2
    <3> QED
      BY <3>1, <3>3 DEF su, sx
  <2>7. Ahead(n) >= 0
    <3>1. CASE used = o[s[n]]
      BY <2>1, <2>2, <2>3, <2>4, <2>6, <3>1
    <3>2. CASE used = V - tv[n - 1]
      BY <2>1, <2>3, <3>2
    <3> QED
      BY <2>1, <3>1, <3>2
  <2>8. ASSUME \A i \in Prices : s[i] = i
        PROVE  val[n] - FV[n] <= n * Ahead(n)
    <3>1. s[n] = n
      BY <1>1, <2>8
    <3>2. w <= (n - 1) * d
      BY <1>11, <2>8
    <3> HIDE DEF d, w, x, Ahead
    <3>3. w + n * used - n * x <= n * (d + used - x)
      BY <2>2, <2>4, <3>2, Ascending
    <3> QED
      BY <2>6, <3>1, <3>3
  <2>9. ASSUME \A i \in Prices : s[i] = N + 1 - i
        PROVE  val[n] - FV[n] >= (N + 1 - n) * Ahead(n)
    <3>1. s[n] = N + 1 - n
      BY <1>1, <2>9
    <3>2. w >= (N + 1 - (n - 1)) * d
      BY <1>11, <2>9
    <3> HIDE DEF d, w, x, Ahead
    <3>3. N + 1 - n \in Int /\ N + 1 - (n - 1) = (N + 1 - n) + 1
      BY <1>1
    <3> DEFINE k == N + 1 - n
    <3>4. k \in Int /\ w >= (k + 1) * d /\ s[n] = k
      BY <3>1, <3>2, <3>3
    <3> HIDE DEF k
    <3>5. w + k * used - k * x >= k * (d + used - x)
      BY <2>2, <2>4, <3>4, Descending
    <3>6. val[n] - FV[n] >= k * Ahead(n)
      BY <2>6, <3>4, <3>5
    <3> QED
      BY <3>6 DEF k
  <2> QED
    BY <2>2, <2>7, <2>8, <2>9
<1>12. Best(N)
  <2>1. 0..N \subseteq G
    <3> HIDE DEF G
    <3> QED
      BY <1>1, <1>10, <1>11, UpTo
  <2> QED
    BY <1>1, <2>1
<1>13. tv[N] >= M /\ (tv[N] = M => Ahead(N) = 0)
  BY <1>1, <1>5, <1>7, <1>12
<1>14. N * 0 = 0 /\ (N + 1 - N) * 0 = 0 /\ N \in 0..N
  BY <1>1
<1>15. ASSUME tv[N] = M, s = [n \in Prices |-> n] PROVE val[N] <= Value(f)
  <2>1. \A i \in Prices : s[i] = i
    BY <1>15
  <2>2. val[N] - FV[N] <= 0
    BY <1>12, <1>13, <1>14, <1>15, <2>1
  <2> QED
    BY <1>6, <1>7, <1>14, <2>2
<1>16. ASSUME tv[N] = M, s = [n \in Prices |-> N + 1 - n] PROVE val[N] >= Value(f)
  <2>1. \A i \in Prices : s[i] = N + 1 - i
    BY <1>16
  <2>2. val[N] - FV[N] >= 0
    BY <1>12, <1>13, <1>14, <1>16, <2>1
  <2> QED
    BY <1>6, <1>7, <1>14, <2>2
<1> QED
  BY <1>13, <1>15, <1>16

\* What was used of each level is a fill of what was found.
LEMMA TakenIsFill ==
  ASSUME NEW tv, NEW val, NEW o \in [Prices -> Nat], NEW s, NEW V \in Nat,
         InOrder(s), Taken(tv, val, o, s, V)
  PROVE  Fills(o, tv[MaxPrice]) # {}
<1> DEFINE N == MaxPrice
           f == [p \in Prices |-> tv[s[p]] - tv[s[p] - 1]]
<1>1. N \in Nat /\ Prices = 1..N
  BY VwapAssumption DEF Prices
<1>2. \A n \in Prices : s[n] \in Prices /\ s[s[n]] = n
  BY OrderIsPrices
<1>3. \A n \in 0..N : tv[n] \in Nat /\ tv[n] <= V
  BY DEF Taken
<1>9. \A n \in 0..N : tv[n] <= tv[N]
  <2> DEFINE G == {n \in 0..N : tv[N - n] <= tv[N]}
  <2>1. 0 \in G
    <3>1. N - 0 = N /\ N \in 0..N /\ 0 \in 0..N
      BY <1>1
    <3> QED
      BY <1>3, <3>1
  <2>2. ASSUME NEW n \in 1..N, n - 1 \in G PROVE n \in G
    <3>1. N - (n - 1) \in 1..N /\ (N - (n - 1)) - 1 = N - n /\ N - n \in 0..N
          /\ n \in 0..N /\ N - (n - 1) \in 0..N /\ N \in 0..N
      BY <1>1
    <3>2. tv[N - (n - 1)] >= tv[N - n]
      <4>1. \E used \in Nat : tv[N - (n - 1)] = tv[N - n] + used
        BY <3>1 DEF Taken
      <4> QED
        BY <1>3, <3>1, <4>1
    <3>3. tv[N - (n - 1)] <= tv[N]
      BY <2>2
    <3> QED
      BY <1>3, <3>1, <3>2, <3>3
  <2>3. 0..N \subseteq G
    <3> HIDE DEF G
    <3> QED
      BY <1>1, <2>1, <2>2, UpTo
  <2>4. ASSUME NEW n \in 0..N PROVE tv[n] <= tv[N]
    <3>1. N - n \in 0..N /\ N - (N - n) = n
      BY <1>1
    <3>2. N - n \in G
      BY <2>3, <3>1
    <3> QED
      BY <3>1, <3>2
  <2> QED
    BY <2>4
<1>4. ASSUME NEW p \in Prices PROVE f[p] \in 0..tv[N] /\ f[p] <= o[p]
  <2>1. s[p] \in 1..N /\ s[p] - 1 \in 0..N /\ s[p] \in 0..N /\ s[s[p]] = p
    BY <1>1, <1>2
  <2>2. \E used \in Nat : used <= o[p] /\ tv[s[p]] = tv[s[p] - 1] + used
    BY <2>1 DEF Taken
  <2>3. /\ tv[s[p]] \in Nat /\ tv[s[p] - 1] \in Nat /\ o[p] \in Nat
        /\ tv[s[p]] <= tv[N] /\ tv[N] \in Nat
    BY <1>1, <1>3, <1>9, <2>1
  <2>4. f[p] = tv[s[p]] - tv[s[p] - 1]
    OBVIOUS
  <2> HIDE DEF f
  <2> QED
    BY <2>2, <2>3, <2>4
<1>5. PICK F : AddsUp(F, f, s) /\ F[N] = Total(f)
  <2>1. \A p \in Prices : f[p] \in Int
    BY <1>4
  <2> HIDE DEF f
  <2> QED
    BY <2>1, TotalInAnyOrder
<1>6. ASSUME NEW n \in 1..N PROVE F[n] = F[n - 1] + (tv[n] - tv[n - 1])
  <2>1. s[n] \in Prices /\ s[s[n]] = n
    BY <1>1, <1>2
  <2>2. f[s[n]] = tv[n] - tv[n - 1]
    BY <2>1
  <2> HIDE DEF f
  <2> QED
    BY <1>5, <2>2 DEF AddsUp
<1>7. Total(f) = tv[N]
  <2> DEFINE G == {n \in 0..N : F[n] = tv[n]}
  <2>1. 0 \in G
    BY <1>1, <1>5 DEF AddsUp, Taken
  <2>2. ASSUME NEW n \in 1..N, n - 1 \in G PROVE n \in G
    <3>1. n \in 0..N /\ n - 1 \in 0..N
      BY <1>1
    <3>2. tv[n] \in Nat /\ tv[n - 1] \in Nat
      BY <1>3, <3>1
    <3> QED
      BY <1>6, <2>2, <3>1, <3>2
  <2>3. 0..N \subseteq G
    <3> HIDE DEF G
    <3> QED
      BY <1>1, <2>1, <2>2, UpTo
  <2> HIDE DEF f
  <2> QED
    BY <1>1, <1>5, <2>3
<1>8. f \in Fills(o, tv[N])
  <2>1. f \in [Prices -> 0..tv[N]]
    BY <1>4
  <2> HIDE DEF f
  <2> QED
    BY <1>4, <1>7, <2>1 DEF Fills
<1> QED
  BY <1>8

\* There is a state exactly if the other side fills enough, and no fill is
\* better, for any book with both sides.
LEMMA StateTakesBest ==
  ASSUME NEW b \in [Prices -> Nat], NEW a \in [Prices -> Nat], TwoSided(b, a)
  PROVE  TakesBest(b, a)
<1> DEFINE by == dominant_side_is_bid(b, a)
           V == search_volume(b, a)
           o == OtherSide(b, a)
           s == search_side(b, a)
           state == VwapStateOf(b, a)
           states == calculate_full_vwap_and_state(b, a)
<1>1. V \in Nat
  <2>1. best_bid(b) \in Prices /\ best_ask(a) \in Prices
    BY BestIsHeld DEF TwoSided, Held
  <2> QED
    BY <2>1 DEF search_volume
<1>2. PICK st : Computes(st, b, a)
  BY <1>1, Computed
<1>3. o \in [Prices -> Nat] /\ InOrder(s)
  BY SearchedInOrder DEF OtherSide
<1>4. PICK tv, val :
        /\ Taken(tv, val, o, s, V)
        /\ tv[MaxPrice] = state.total_volume /\ val[MaxPrice] = state.total_value
  <2>1. MaxPrice \in 0..MaxPrice
    BY VwapAssumption
  <2>2. state = st[MaxPrice]
    BY <1>2 DEF Computes
  <2> HIDE DEF state
  <2>3. /\ [n \in 0..MaxPrice |-> st[n].total_volume][MaxPrice] = state.total_volume
        /\ [n \in 0..MaxPrice |-> st[n].total_value][MaxPrice] = state.total_value
    BY <2>1, <2>2
  <2> HIDE DEF o, s, V
  <2>4. Taken([n \in 0..MaxPrice |-> st[n].total_volume],
              [n \in 0..MaxPrice |-> st[n].total_value], o, s, V)
    BY <1>2, ComputesTaken DEF o, s, V
  <2> QED
    BY <2>3, <2>4
<1>5. state.search_volume = V /\ state.dominant_side_is_bid = by
  <2>1. MaxPrice \in 0..MaxPrice
    BY VwapAssumption
  <2> QED
    BY <1>2, <2>1, ComputesKeep DEF Computes
<1>6. states = {} <=> ~Enough(state.total_volume, V)
  BY <1>5 DEF calculate_full_vwap_and_state
<1>7. states \subseteq {state}
  BY DEF calculate_full_vwap_and_state
<1>8. by => s = [n \in Prices |-> n]
  BY SearchedInOrder
<1>9. ~by => s = [n \in Prices |-> MaxPrice + 1 - n]
  BY SearchedInOrder
<1>10. TakesBest(b, a) <=>
         /\ states = {} <=> \A n \in 0..V : Enough(n, V) => Fills(o, n) = {}
         /\ \A r \in states :
              /\ \A n \in 0..V : n > r.total_volume => Fills(o, n) = {}
              /\ \A f \in Fills(o, r.total_volume) :
                   IF r.dominant_side_is_bid THEN r.total_value <= Value(f)
                                             ELSE r.total_value >= Value(f)
  BY DEF TakesBest, OtherSide
<1> HIDE DEF by, V, o, s, state, states
<1> DEFINE found == state.total_volume
<1>13. found \in 0..V /\ Fills(o, found) # {}
  <2>1. found \in Nat /\ found <= V
    BY <1>4, VwapAssumption DEF Taken
  <2>2. Fills(o, tv[MaxPrice]) # {}
    BY <1>1, <1>3, <1>4, TakenIsFill
  <2> QED
    BY <1>1, <1>4, <2>1, <2>2
<1>14. ASSUME NEW n \in 0..V, Fills(o, n) # {}
       PROVE  n <= found
  <2>1. tv[MaxPrice] >= n
    BY <1>1, <1>3, <1>4, <1>14, NoFillBetter
  <2> QED
    BY <1>1, <1>4, <1>13, <2>1
<1>11. states = {} <=> \A n \in 0..V : Enough(n, V) => Fills(o, n) = {}
  <2> HIDE DEF found
  <2>1. ASSUME NEW n \in 0..V, Enough(n, V), Fills(o, n) # {}
        PROVE  Enough(found, V)
    <3>1. n \in Nat /\ found \in Nat /\ n <= found /\ found > 0
      BY <1>1, <1>13, <1>14, <2>1 DEF Enough
    <3>2. OfParts * found >= OfParts * n
      <4>1. OfParts \in Nat /\ found - n \in Nat
        BY <3>1, VwapAssumption
      <4>2. OfParts * (found - n) \in Nat
        BY <4>1
      <4>3. OfParts * found = OfParts * n + OfParts * (found - n)
        BY <3>1, <4>1
      <4>4. OfParts * n \in Nat
        BY <3>1, <4>1
      <4> QED
        BY <4>2, <4>3, <4>4
    <3> DEFINE wf == OfParts * found
               wn == OfParts * n
               pv == EnoughParts * V
    <3>3. wf \in Nat /\ wn \in Nat /\ pv \in Nat /\ wf >= wn /\ wn > pv
      BY <1>1, <2>1, <3>1, <3>2, VwapAssumption DEF Enough
    <3> HIDE DEF wf, wn, pv
    <3>4. wf > pv
      BY <3>3
    <3> QED
      BY <3>1, <3>4 DEF Enough, wf, pv
  <2> QED
    BY <1>6, <1>13, <2>1 DEF found
<1>12. ASSUME NEW f \in Fills(o, found)
       PROVE  IF by THEN state.total_value <= Value(f) ELSE state.total_value >= Value(f)
  <2>1. /\ s = [n \in Prices |-> n] => val[MaxPrice] <= Value(f)
        /\ s = [n \in Prices |-> MaxPrice + 1 - n] => val[MaxPrice] >= Value(f)
    BY <1>1, <1>3, <1>4, <1>13, NoFillBetter
  <2> QED
    BY <1>4, <1>8, <1>9, <2>1
<1>15. ASSUME NEW n \in 0..V, n > found
       PROVE  Fills(o, n) = {}
  BY <1>13, <1>14, <1>15
<1> QED
  BY <1>5, <1>7, <1>10, <1>11, <1>12, <1>15

-----------------------------------------------------------------------------
(* The cached state is the best fill of the book it is kept with           *)

LEMMA EveryBookTakesBest == AllTakeBest
<1> SUFFICES ASSUME NEW b \in [Prices -> VwapSizes], NEW a \in [Prices -> VwapSizes],
                    TwoSided(b, a)
             PROVE  TakesBest(b, a)
  BY DEF AllTakeBest
<1>1. b \in [Prices -> Nat] /\ a \in [Prices -> Nat]
  BY VwapAssumption
<1> QED
  BY <1>1, StateTakesBest

\* A state is kept with a book that has both sides, or not at all.
CachedWithBook == vwap_cache # {} => TwoSided(bids, asks)

LEMMA CachedNext ==
  ASSUME CachedWithBook, [Next]_book_vars
  PROVE  CachedWithBook'
<1>1. CASE L1Next
  <2>1. PICK b, a \in Levels : crypto_handle_price_update(b, a) /\ Held(b) # {} /\ Held(a) # {}
    BY <1>1 DEF L1Next
  <2> QED
    BY <2>1 DEF crypto_handle_price_update, SetBook, CachedWithBook, TwoSided
<1>2. CASE L2Next
  <2>1. CASE \E b, a \in Levels : crypto_handle_l2_snapshot(b, a)
    <3>1. PICK b, a \in Levels : crypto_handle_l2_snapshot(b, a)
      BY <2>1
    <3>2. bids' = b /\ asks' = a /\ (TwoSided(b, a) \/ vwap_cache' = {})
      BY <3>1 DEF crypto_handle_l2_snapshot, SetBook, Panic
    <3> QED
      BY <3>2 DEF CachedWithBook, TwoSided
  <2>2. CASE \E cb, ca \in Changes : crypto_handle_l2_update(cb, ca)
    <3>1. PICK cb, ca \in Changes : crypto_handle_l2_update(cb, ca)
      BY <2>2
    <3>2. CASE ~present
      BY <3>1, <3>2 DEF crypto_handle_l2_update, book_vars, CachedWithBook, TwoSided
    <3>3. CASE present
      <4> DEFINE b == apply_l2_updates(bids, cb)
                 a == apply_l2_updates(asks, ca)
      <4>1. bids' = b /\ asks' = a /\ (TwoSided(b, a) \/ vwap_cache' = {})
        BY <3>1, <3>3 DEF crypto_handle_l2_update, SetBook, Panic
      <4> HIDE DEF b, a
      <4> QED
        BY <4>1 DEF CachedWithBook, TwoSided
    <3> QED
      BY <3>2, <3>3
  <2> QED
    BY <1>2, <2>1, <2>2 DEF L2Next
<1>3. CASE handle_price_clear
  BY <1>3 DEF handle_price_clear, CachedWithBook
<1>4. CASE UNCHANGED book_vars
  BY <1>4 DEF book_vars, CachedWithBook, TwoSided
<1> QED
  BY <1>1, <1>2, <1>3, <1>4 DEF Next

\* The state kept with a book is the best fill the other side offers of its
\* larger best level, and there is one exactly if enough of it can be filled,
\* for books with any number of levels of any sizes.
THEOREM VwapBest == Spec => []VwapTakesBest
<1>1. Init => CachedWithBook
  BY DEF Init, CachedWithBook
<1>2. CachedWithBook /\ [Next]_book_vars => CachedWithBook'
  BY CachedNext
<1>3. TypeOK /\ CachedWithBook => VwapTakesBest
  <2> SUFFICES ASSUME TypeOK, CachedWithBook, vwap_cache # {}
               PROVE  TakesBest(bids, asks)
    BY EveryBookTakesBest DEF VwapTakesBest
  <2>1. bids \in [Prices -> Nat] /\ asks \in [Prices -> Nat]
    BY VwapAssumption DEF TypeOK, Levels
  <2> QED
    BY <2>1, StateTakesBest DEF CachedWithBook
<1> QED
  BY <1>1, <1>2, <1>3, CryptoTypeCorrect, PTL DEF Spec

\* So it is for the book a listener feeds.
THEOREM FedVwapBest == FeedSpec => []VwapTakesBest
  BY FeedImplementsBook, VwapBest, PTL
=============================================================================
