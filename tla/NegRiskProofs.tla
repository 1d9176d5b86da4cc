--------------------------- MODULE NegRiskProofs ---------------------------
(***************************************************************************)
(* Proofs about NegRisk, for every event of finitely many assets, every    *)
(* order the strategy keeps them in, every book and every setting: each    *)
(* bid that is placed, and the one that is kept, is hedged; a bid never    *)
(* brings about its own cancellation; none is placed above the best ask.   *)
(* All rest on what the last decision has found in the books it kept the   *)
(* bid on, which stays true for as long as these stay.                     *)
(*                                                                         *)
(* The sums are over the assets of an event and over the levels of a book, *)
(* which are as many as may be, so what a sum is comes first, proved by    *)
(* induction on the size of the set that is summed over.                   *)
(***************************************************************************)
EXTENDS NegRisk, FiniteSetTheorems, WellFoundedInduction, TLAPS

-----------------------------------------------------------------------------
(* Sums over finite sets                                                   *)

\* A set of numbers has a least one.
LEMMA LeastOfSet ==
  ASSUME NEW T \in SUBSET Nat, T # {}
  PROVE  Min(T) \in T /\ \A y \in T : Min(T) <= y
<1>1. PICK x \in T : \A y \in T : ~(<<y, x>> \in OpToRel(<, Nat))
  BY WFMin, NatLessThanWellFounded
<1>2. ASSUME NEW y \in T PROVE x <= y
  <2>1. x \in Nat /\ y \in Nat
    OBVIOUS
  <2>2. ASSUME y < x PROVE <<y, x>> \in OpToRel(<, Nat)
    <3> DEFINE pair == <<y, x>>
    <3>1. pair \in Nat \X Nat /\ pair[1] < pair[2]
      BY <2>1, <2>2
    <3> HIDE DEF pair
    <3>2. pair \in OpToRel(<, Nat)
      BY <3>1 DEF OpToRel
    <3> QED
      BY <3>2 DEF pair
  <2>3. ~(<<y, x>> \in OpToRel(<, Nat))
    BY <1>1
  <2>4. ~(y < x)
    BY <2>2, <2>3
  <2> QED
    BY <2>1, <2>4
<1> QED
  BY <1>2 DEF Min

\* What holds of a set when it holds of the set without any one element holds
\* of every finite set: G is the sets it holds of.
LEMMA FiniteSetsAllIn ==
  ASSUME NEW T, IsFiniteSet(T), NEW G,
         \A s \in SUBSET T : (\A x \in s : s \ {x} \in G) => s \in G
  PROVE  SUBSET T \subseteq G
<1> SUFFICES ASSUME NEW u \in SUBSET T, u \notin G PROVE FALSE
  OBVIOUS
<1> DEFINE C == {Cardinality(s) : s \in (SUBSET T) \ G}
<1>1. \A s \in SUBSET T : IsFiniteSet(s) /\ Cardinality(s) \in Nat
  BY FS_Subset, FS_CardinalityType
<1>2. C \in SUBSET Nat /\ C # {}
  BY <1>1
<1>3. PICK s \in (SUBSET T) \ G : Cardinality(s) = Min(C)
  BY <1>2, LeastOfSet
<1>4. PICK x \in s : s \ {x} \notin G
  OBVIOUS
<1>5. Cardinality(s \ {x}) = Cardinality(s) - 1
  BY <1>1, FS_RemoveElement
<1>6. Cardinality(s \ {x}) \in C
  BY <1>4
<1>7. Min(C) <= Cardinality(s \ {x})
  BY <1>2, <1>6, LeastOfSet
<1> QED
  BY <1>1, <1>3, <1>5, <1>7

One(s) == CHOOSE x \in s : TRUE

\* The recursion that defines the sum.
IsSum(it, f, T) ==
  it = [s \in SUBSET T |-> IF s = {} THEN 0 ELSE f[One(s)] + it[s \ {One(s)}]]

LEMMA SumIs ==
  ASSUME NEW f, NEW T
  PROVE  SumFunctionOnSet(f, T) = (CHOOSE it : IsSum(it, f, T))[T]
  BY Zenon DEF SumFunctionOnSet, FoldFunctionOnSet, MapThenFoldSet, IsSum, One

LEMMA SumExists ==
  ASSUME NEW T, IsFiniteSet(T), NEW f, \A x \in T : f[x] \in Int
  PROVE  \E it \in [SUBSET T -> Int] : IsSum(it, f, T)
<1> DEFINE Step(s, it) == IF s = {} THEN 0 ELSE f[One(s)] + it[s \ {One(s)}]
           Upto(n) == {s \in SUBSET T : Cardinality(s) <= n}
           Good(n) == \E it \in [Upto(n) -> Int] : \A s \in Upto(n) : it[s] = Step(s, it)
           Bad == {n \in Nat : ~Good(n)}
<1>1. \A s \in SUBSET T : IsFiniteSet(s) /\ Cardinality(s) \in Nat
  BY FS_Subset, FS_CardinalityType
<1>2. \A s \in SUBSET T : s # {} =>
        /\ One(s) \in s /\ f[One(s)] \in Int
        /\ s \ {One(s)} \in SUBSET T
        /\ Cardinality(s \ {One(s)}) = Cardinality(s) - 1
  <2> SUFFICES ASSUME NEW s \in SUBSET T, s # {}
               PROVE  /\ One(s) \in s /\ f[One(s)] \in Int
                      /\ s \ {One(s)} \in SUBSET T
                      /\ Cardinality(s \ {One(s)}) = Cardinality(s) - 1
    OBVIOUS
  <2>1. One(s) \in s
    BY DEF One
  <2>2. Cardinality(s \ {One(s)}) = Cardinality(s) - 1
    BY <1>1, <2>1, FS_RemoveElement
  <2> QED
    BY <2>1, <2>2
<1>3. Good(0)
  <2> DEFINE it == [s \in Upto(0) |-> 0]
  <2>1. ASSUME NEW s \in Upto(0) PROVE s = {}
    <3>1. s \in SUBSET T /\ Cardinality(s) = 0
      BY <1>1
    <3> QED
      BY <1>1, <3>1, FS_EmptySet
  <2>2. it \in [Upto(0) -> Int] /\ \A s \in Upto(0) : it[s] = Step(s, it)
    BY <2>1
  <2> QED
    BY <2>2
<1>4. ASSUME NEW n \in Nat, Good(n) PROVE Good(n + 1)
  <2>1. PICK it \in [Upto(n) -> Int] : \A s \in Upto(n) : it[s] = Step(s, it)
    BY <1>4
  <2> DEFINE more == [s \in Upto(n + 1) |-> Step(s, it)]
  <2>2. \A s \in Upto(n + 1) : s # {} => s \ {One(s)} \in Upto(n)
    BY <1>1, <1>2
  <2>3. \A s \in Upto(n) : s \in Upto(n + 1) /\ more[s] = it[s]
    BY <1>1, <2>1
  <2>4. \A s \in Upto(n + 1) : Step(s, it) \in Int
    BY <1>2, <2>2
  <2>5. \A s \in Upto(n + 1) : Step(s, more) = Step(s, it)
    BY <2>2, <2>3
  <2>6. more \in [Upto(n + 1) -> Int] /\ \A s \in Upto(n + 1) : more[s] = Step(s, more)
    <3> HIDE DEF Step, Upto
    <3>1. more \in [Upto(n + 1) -> Int]
      BY <2>4
    <3>2. \A s \in Upto(n + 1) : more[s] = Step(s, it)
      OBVIOUS
    <3> HIDE DEF more
    <3> QED
      BY <2>5, <3>1, <3>2
  <2> HIDE DEF more, Step, Upto
  <2> QED
    BY <2>6
<1>5. Bad = {}
  <2> HIDE DEF Good
  <2> SUFFICES ASSUME Bad # {} PROVE FALSE
    OBVIOUS
  <2>1. Bad \in SUBSET Nat
    OBVIOUS
  <2>2. PICK n \in Bad : \A y \in Bad : n <= y
    BY <2>1, LeastOfSet
  <2>3. n # 0 /\ n - 1 \in Nat /\ n - 1 \notin Bad /\ (n - 1) + 1 = n
    BY <1>3, <2>2
  <2>4. Good(n - 1)
    BY <2>3
  <2>5. Good(n)
    BY <1>4, <2>3, <2>4
  <2> QED
    BY <2>2, <2>5
<1>6. Cardinality(T) \in Nat
  BY FS_CardinalityType
<1>7. Upto(Cardinality(T)) = SUBSET T
  <2>1. \A s \in SUBSET T : Cardinality(s) <= Cardinality(T)
    BY FS_Subset
  <2> QED
    BY <2>1
<1>8. PICK it \in [SUBSET T -> Int] : \A s \in SUBSET T : it[s] = Step(s, it)
  <2>1. Good(Cardinality(T))
    BY <1>5, <1>6
  <2> HIDE DEF Step
  <2> QED
    BY <1>7, <2>1
<1>9. it = [s \in SUBSET T |-> Step(s, it)]
  <2> HIDE DEF Step
  <2> QED
    BY <1>8
<1> QED
  BY <1>9 DEF IsSum

\* However a set is added up, its parts have the same sums.
LEMMA SumUnique ==
  ASSUME NEW T, IsFiniteSet(T), NEW S \in SUBSET T, NEW f, NEW it1, NEW it2,
         IsSum(it1, f, T), IsSum(it2, f, S)
  PROVE  \A s \in SUBSET S : it1[s] = it2[s]
<1> DEFINE G == {s \in SUBSET S : it1[s] = it2[s]}
<1>1. \A u \in SUBSET T : it1[u] = IF u = {} THEN 0 ELSE f[One(u)] + it1[u \ {One(u)}]
  BY Zenon DEF IsSum
<1>2. \A u \in SUBSET S : it2[u] = IF u = {} THEN 0 ELSE f[One(u)] + it2[u \ {One(u)}]
  BY Zenon DEF IsSum
<1>3. \A u \in SUBSET S : u # {} => One(u) \in u
  BY DEF One
<1>4. IsFiniteSet(S)
  BY FS_Subset
<1>5. ASSUME NEW s \in SUBSET S, \A x \in s : s \ {x} \in G
      PROVE  s \in G
  <2>1. s \in SUBSET T
    OBVIOUS
  <2>2. CASE s = {}
    BY <1>1, <1>2, <2>1, <2>2
  <2>3. CASE s # {}
    <3>1. it1[s \ {One(s)}] = it2[s \ {One(s)}]
      BY <1>3, <1>5, <2>3
    <3>2. it1[s] = f[One(s)] + it1[s \ {One(s)}]
      BY <1>1, <2>1, <2>3
    <3>3. it2[s] = f[One(s)] + it2[s \ {One(s)}]
      BY <1>2, <2>3
    <3> QED
      BY <3>1, <3>2, <3>3
  <2> QED
    BY <2>2, <2>3
<1>6. SUBSET S \subseteq G
  <2> HIDE DEF G
  <2> QED
    BY <1>4, <1>5, FiniteSetsAllIn
<1> QED
  BY <1>6

\* A sum is the first element's value and the sum of the rest.
LEMMA SumRec ==
  ASSUME NEW T, IsFiniteSet(T), NEW f, \A x \in T : f[x] \in Int
  PROVE  /\ SumFunctionOnSet(f, T) \in Int
         /\ T = {} => SumFunctionOnSet(f, T) = 0
         /\ T # {} => SumFunctionOnSet(f, T)
                       = f[One(T)] + SumFunctionOnSet(f, T \ {One(T)})
<1> DEFINE R == T \ {One(T)}
           it1 == CHOOSE it : IsSum(it, f, T)
           it2 == CHOOSE it : IsSum(it, f, R)
<1>1. IsFiniteSet(R) /\ R \in SUBSET T /\ \A x \in R : f[x] \in Int
  BY FS_Subset
<1>2. PICK it \in [SUBSET T -> Int] : IsSum(it, f, T)
  BY SumExists
<1>3. IsSum(it1, f, T)
  BY <1>2
<1>4. IsSum(it2, f, R)
  <2> HIDE DEF R
  <2>1. \E i \in [SUBSET R -> Int] : IsSum(i, f, R)
    BY <1>1, SumExists
  <2> QED
    BY <2>1
<1>5. it1[R] = it2[R]
  <2> HIDE DEF it1, it2, R
  <2> QED
    BY <1>1, <1>3, <1>4, SumUnique
<1>6. it1[T] = it[T]
  <2> HIDE DEF it1
  <2> QED
    BY <1>2, <1>3, SumUnique
<1>7. it[T] \in Int
  BY <1>2
<1>8. SumFunctionOnSet(f, T) = it1[T] /\ SumFunctionOnSet(f, R) = it2[R]
  BY SumIs
<1>9. it1[T] = IF T = {} THEN 0 ELSE f[One(T)] + it1[R]
  <2> HIDE DEF it1
  <2> QED
    BY Zenon, <1>3 DEF IsSum
<1> HIDE DEF it1, it2
<1> QED
  BY <1>5, <1>6, <1>7, <1>8, <1>9

\* A sum is any element's value and the sum of the rest.
LEMMA SumOne ==
  ASSUME NEW T, IsFiniteSet(T), NEW f, \A x \in T : f[x] \in Int,
         NEW x \in T
  PROVE  SumFunctionOnSet(f, T) = f[x] + SumFunctionOnSet(f, T \ {x})
<1> DEFINE S(s) == SumFunctionOnSet(f, s)
           G == {s \in SUBSET T : \A y \in s : S(s) = f[y] + S(s \ {y})}
<1>1. \A s \in SUBSET T : IsFiniteSet(s) /\ S(s) \in Int
        /\ (s # {} => One(s) \in s /\ S(s) = f[One(s)] + S(s \ {One(s)}))
  <2> SUFFICES ASSUME NEW s \in SUBSET T
               PROVE  IsFiniteSet(s) /\ S(s) \in Int
        /\ (s # {} => One(s) \in s /\ S(s) = f[One(s)] + S(s \ {One(s)}))
    OBVIOUS
  <2>1. IsFiniteSet(s)
    BY FS_Subset
  <2>2. s # {} => One(s) \in s
    BY DEF One
  <2> QED
    BY <2>1, <2>2, SumRec
<1> HIDE DEF S
<1>2. ASSUME NEW s \in SUBSET T, \A y \in s : s \ {y} \in G
      PROVE  s \in G
  <2> SUFFICES ASSUME NEW y \in s PROVE S(s) = f[y] + S(s \ {y})
    OBVIOUS
  <2> DEFINE c == One(s)
  <2>1. c \in s /\ S(s) = f[c] + S(s \ {c})
    BY <1>1
  <2> HIDE DEF c
  <2>2. CASE y = c
    BY <2>1, <2>2
  <2>3. CASE y # c
    <3>1. s \ {c} \in G /\ y \in s \ {c}
      BY <1>2, <2>1, <2>3
    <3>2. S(s \ {c}) = f[y] + S((s \ {c}) \ {y})
      BY <3>1
    <3>3. s \ {y} \in G /\ c \in s \ {y}
      BY <1>2, <2>1, <2>3
    <3>4. S(s \ {y}) = f[c] + S((s \ {y}) \ {c})
      BY <3>3
    <3>5. (s \ {y}) \ {c} = (s \ {c}) \ {y}
      OBVIOUS
    <3>6. f[y] \in Int /\ f[c] \in Int /\ S((s \ {c}) \ {y}) \in Int
      BY <1>1, <2>1
    <3> DEFINE a == f[y]
               b == f[c]
               w == S((s \ {c}) \ {y})
    <3>7. S(s) = b + (a + w) /\ S(s \ {y}) = b + w
      BY <2>1, <3>2, <3>4, <3>5
    <3>8. b + (a + w) = a + (b + w)
      <4>1. a \in Int /\ b \in Int /\ w \in Int
        BY <3>6
      <4> HIDE DEF a, b, w
      <4> QED
        BY <4>1
    <3> HIDE DEF a, b, w
    <3>9. S(s) = a + S(s \ {y})
      BY <3>7, <3>8
    <3> QED
      BY <3>9 DEF a
  <2> QED
    BY <2>2, <2>3
<1>3. SUBSET T \subseteq G
  <2> HIDE DEF G
  <2> QED
    BY <1>2, FiniteSetsAllIn
<1> QED
  BY <1>3 DEF S

\* If no value exceeds n times another function's, neither does the sum.
LEMMA SumScaled ==
  ASSUME NEW T, IsFiniteSet(T), NEW f, NEW g, NEW n \in Int,
         \A x \in T : f[x] \in Int /\ g[x] \in Int /\ f[x] <= n * g[x]
  PROVE  SumFunctionOnSet(f, T) <= n * SumFunctionOnSet(g, T)
<1> DEFINE F(s) == SumFunctionOnSet(f, s)
           H(s) == SumFunctionOnSet(g, s)
           G == {s \in SUBSET T : F(s) <= n * H(s)}
<1>1. \A s \in SUBSET T : IsFiniteSet(s) /\ F(s) \in Int /\ H(s) \in Int
        /\ (s = {} => F(s) = 0 /\ H(s) = 0)
  <2> SUFFICES ASSUME NEW s \in SUBSET T
               PROVE  IsFiniteSet(s) /\ F(s) \in Int /\ H(s) \in Int
                        /\ (s = {} => F(s) = 0 /\ H(s) = 0)
    OBVIOUS
  <2>1. IsFiniteSet(s)
    BY FS_Subset
  <2> QED
    BY <2>1, SumRec
<1>2. \A s \in SUBSET T : \A x \in s :
        F(s) = f[x] + F(s \ {x}) /\ H(s) = g[x] + H(s \ {x})
  <2> SUFFICES ASSUME NEW s \in SUBSET T, NEW x \in s
               PROVE  F(s) = f[x] + F(s \ {x}) /\ H(s) = g[x] + H(s \ {x})
    OBVIOUS
  <2>1. IsFiniteSet(s)
    BY <1>1
  <2> QED
    BY <2>1, SumOne
<1> HIDE DEF F, H
<1>3. ASSUME NEW s \in SUBSET T, \A y \in s : s \ {y} \in G
      PROVE  s \in G
  <2>1. CASE s = {}
    BY <1>1, <2>1
  <2>2. ASSUME NEW x \in s PROVE F(s) <= n * H(s)
    <3> DEFINE r == s \ {x}
    <3>1. F(r) <= n * H(r) /\ F(r) \in Int /\ H(r) \in Int
      BY <1>1, <1>3
    <3>2. F(s) = f[x] + F(r) /\ H(s) = g[x] + H(r)
      BY <1>2
    <3> HIDE DEF r
    <3>3. n * (g[x] + H(r)) = n * g[x] + n * H(r)
      BY <3>1
    <3>4. n * g[x] \in Int /\ n * H(r) \in Int
      BY <3>1
    <3> QED
      BY <3>1, <3>2, <3>3, <3>4
  <2> QED
    BY <2>1, <2>2
<1>4. SUBSET T \subseteq G
  <2> HIDE DEF G
  <2> QED
    BY <1>3, FiniteSetsAllIn
<1> QED
  BY <1>4 DEF F, H

\* A sum of natural numbers is one and no less than any of them.
LEMMA SumNat ==
  ASSUME NEW T, IsFiniteSet(T), NEW f, \A x \in T : f[x] \in Nat
  PROVE  /\ SumFunctionOnSet(f, T) \in Nat
         /\ \A x \in T : f[x] <= SumFunctionOnSet(f, T)
<1> DEFINE F(s) == SumFunctionOnSet(f, s)
           G == {s \in SUBSET T : F(s) \in Nat}
<1>1. \A s \in SUBSET T : IsFiniteSet(s) /\ F(s) \in Int /\ (s = {} => F(s) = 0)
  <2> SUFFICES ASSUME NEW s \in SUBSET T
               PROVE  IsFiniteSet(s) /\ F(s) \in Int /\ (s = {} => F(s) = 0)
    OBVIOUS
  <2>1. IsFiniteSet(s)
    BY FS_Subset
  <2>2. \A x \in s : f[x] \in Int
    OBVIOUS
  <2> QED
    BY <2>1, <2>2, SumRec
<1>2. \A s \in SUBSET T : \A x \in s : F(s) = f[x] + F(s \ {x})
  <2> SUFFICES ASSUME NEW s \in SUBSET T, NEW x \in s
               PROVE  F(s) = f[x] + F(s \ {x})
    OBVIOUS
  <2>1. IsFiniteSet(s) /\ \A y \in s : f[y] \in Int
    BY <1>1
  <2> QED
    BY <2>1, SumOne
<1> HIDE DEF F
<1>3. ASSUME NEW s \in SUBSET T, \A y \in s : s \ {y} \in G
      PROVE  s \in G
  <2>1. CASE s = {}
    BY <1>1, <2>1
  <2>2. ASSUME NEW x \in s PROVE F(s) \in Nat
    <3>1. F(s) = f[x] + F(s \ {x})
      BY <1>2
    <3>2. F(s \ {x}) \in Nat /\ f[x] \in Nat
      BY <1>3
    <3> HIDE DEF G
    <3> QED
      BY <3>1, <3>2
  <2> QED
    BY <2>1, <2>2
<1>4. SUBSET T \subseteq G
  <2> HIDE DEF G
  <2> QED
    BY <1>3, FiniteSetsAllIn
<1>5. \A x \in T : F(T) = f[x] + F(T \ {x}) /\ F(T \ {x}) \in Nat
  BY <1>2, <1>4
<1>6. F(T) \in Nat
  BY <1>4
<1>7. ASSUME NEW x \in T PROVE f[x] <= F(T)
  <2>1. F(T) = f[x] + F(T \ {x}) /\ F(T \ {x}) \in Nat /\ f[x] \in Nat
    BY <1>5
  <2> HIDE DEF G
  <2> QED
    BY <2>1
<1> QED
  BY <1>6, <1>7 DEF F

\* A function that is 0 but at one place has the value there as its sum.
LEMMA SumSingle ==
  ASSUME NEW T, IsFiniteSet(T), NEW f, NEW x \in T, f[x] \in Int,
         \A y \in T \ {x} : f[y] = 0
  PROVE  SumFunctionOnSet(f, T) = f[x]
<1> DEFINE R == T \ {x}
           zero == [y \in R |-> 0]
<1>1. IsFiniteSet(R) /\ \A y \in R : f[y] \in Int /\ zero[y] \in Int
  BY FS_Subset
<1>2. SumFunctionOnSet(f, T) = f[x] + SumFunctionOnSet(f, R)
  BY SumOne
<1>3. SumFunctionOnSet(f, R) \in Int
  BY <1>1, SumRec
<1>4. \A y \in R : f[y] <= 0 * f[y] /\ zero[y] <= (-1) * f[y]
  OBVIOUS
<1> HIDE DEF R
<1>5. SumFunctionOnSet(f, R) <= 0 * SumFunctionOnSet(f, R)
  BY <1>1, <1>4, SumScaled
<1>6. \A y \in R : f[y] \in Nat
  BY <1>1 DEF R
<1>7. SumFunctionOnSet(f, R) \in Nat
  BY <1>1, <1>6, SumNat
<1> QED
  BY <1>2, <1>3, <1>5, <1>7

-----------------------------------------------------------------------------
(* Least elements and rounding                                             *)

\* The least of four numbers.
LEMMA LeastOfFour ==
  ASSUME NEW a \in Int, NEW b \in Int, NEW c \in Int, NEW d \in Int
  PROVE  LET m == Min({a, b, c, d})
         IN m \in {a, b, c, d} /\ m <= a /\ m <= b /\ m <= c /\ m <= d
<1> DEFINE T == {a, b, c, d}
<1>1. \E x \in T : \A y \in T : x <= y
  OBVIOUS
<1>2. Min(T) \in T /\ \A y \in T : Min(T) <= y
  BY <1>1 DEF Min
<1> QED
  BY <1>2

\* A multiple of t, as a product.
LEMMA Multiple ==
  ASSUME NEW t \in Nat \ {0}, NEW n \in Int
  PROVE  /\ n \div t \in Int /\ (n \div t) * t \in Int
         /\ (n \div t) * t <= n /\ n < (n \div t) * t + t
         /\ n % t = 0 => n = (n \div t) * t
<1>1. n \div t \in Int /\ n % t \in 0..(t - 1) /\ n = t * (n \div t) + (n % t)
  OBVIOUS
<1> DEFINE q == n \div t
           r == n % t
<1>2. t * q = q * t /\ q * t \in Int
  BY <1>1
<1> HIDE DEF q, r
<1>3. r \in Int /\ 0 <= r /\ r < t /\ n = q * t + r
  BY <1>1, <1>2 DEF q, r
<1>4. q * t <= n /\ n < q * t + t /\ (r = 0 => n = q * t)
  BY <1>2, <1>3
<1> QED
  BY <1>1, <1>2, <1>4 DEF q, r

\* A product is a multiple.
LEMMA ProductIsMultiple ==
  ASSUME NEW t \in Nat \ {0}, NEW q \in Int
  PROVE  (q * t) % t = 0
<1> DEFINE n == q * t
           p == n \div t
<1>1. n \in Int /\ p \in Int /\ n % t \in 0..(t - 1) /\ n = t * p + (n % t)
  OBVIOUS
<1>2. n = t * q
  OBVIOUS
<1>3. n % t = t * (q - p)
  <2> HIDE DEF n, p
  <2>1. t * (q - p) = t * q - t * p
    BY <1>1
  <2>2. t * q \in Int /\ t * p \in Int
    BY <1>1
  <2> QED
    BY <1>1, <1>2, <2>1, <2>2
<1> DEFINE d == q - p
<1>4. d \in Int
  BY <1>1
<1>5. d > 0 => t * d >= t
  <2> HIDE DEF d
  <2> QED
    BY <1>4
<1>6. d < 0 => t * d < 0
  <2> HIDE DEF d
  <2> QED
    BY <1>4
<1>7. d = 0
  <2> HIDE DEF d, n
  <2>1. n % t = t * d /\ 0 <= n % t /\ n % t < t /\ n % t \in Int
    BY <1>1, <1>3 DEF d
  <2> QED
    BY <1>4, <1>5, <1>6, <2>1
<1>8. t * d = 0
  <2> HIDE DEF d
  <2> QED
    BY <1>7
<1> QED
  BY <1>3, <1>8

\* Multiples of t that are less than t apart are ordered or equal.
LEMMA MultiplesApart ==
  ASSUME NEW t \in Nat \ {0}, NEW a \in Int, NEW b \in Int,
         a % t = 0, b % t = 0, a < b + t
  PROVE  a <= b
<1> DEFINE p == a \div t
           q == b \div t
<1>1. p \in Int /\ q \in Int /\ a = p * t /\ b = q * t
  BY Multiple
<1> HIDE DEF p, q
<1> SUFFICES ASSUME q < p PROVE FALSE
  <2>1. p <= q => p * t <= q * t
    BY <1>1
  <2> QED
    BY <1>1, <2>1
<1>2. (p - q) * t >= t
  <2> DEFINE d == p - q
  <2>1. d \in Int /\ d >= 1
    BY <1>1
  <2> HIDE DEF d
  <2>2. d * t >= t
    BY <2>1
  <2> QED
    BY <2>2 DEF d
<1>3. (p - q) * t = p * t - q * t
  BY <1>1
<1> QED
  BY <1>1, <1>2, <1>3

-----------------------------------------------------------------------------
(* What the decision reads                                                 *)

LEMMA Given ==
  /\ Share \in Nat \ {0} /\ Cent \in Nat \ {0} /\ Cent <= Share /\ MaxSize \in Nat
  /\ ALPHA \in Nat /\ MARKET_LIMIT \in Nat /\ MAX_VOLUME \in Nat
  /\ MIN_AUTO_BUY_VOLUME \in Nat /\ SizeTolerance \in Nat
  /\ IsFiniteSet(Assets) /\ asset \in Assets /\ Assets \ {asset} = Others
<1>1. IsFiniteSet(Others \cup {asset})
  BY NegRiskAssumption, FS_AddElement
<1> QED
  BY <1>1, NegRiskAssumption DEF Assets

LEMMA HeldType ==
  ASSUME NEW book \in Levels
  PROVE  /\ Held(book) \in SUBSET Nat /\ IsFiniteSet(Held(book))
         /\ \A p \in Held(book) : p \in 1..(Share - 1) /\ book[p] \in 1..MaxSize
<1>1. book \in [Prices -> 0..MaxSize]
  BY DEF Levels
<1>2. IsFiniteSet(1..(Share - 1))
  BY Given, FS_Interval
<1>3. IsFiniteSet(Held(book))
  BY <1>2, FS_Subset DEF Held, Prices
<1> QED
  BY <1>1, <1>3, Given DEF Held, Prices

\* The level at the lowest of some prices.
LEMMA LevelAtType ==
  ASSUME NEW book \in Levels, NEW prices \in SUBSET Held(book)
  PROVE  LET level == LevelAt(book, prices)
         IN /\ level.price \in 1..Share /\ level.size \in 0..MaxSize
            /\ level.price < Share => /\ level.price \in prices
                                      /\ level.size = book[level.price]
            /\ \A p \in prices : level.price <= p
<1>1. CASE prices = {}
  BY <1>1, Given DEF LevelAt, NoLevel
<1>2. CASE prices # {}
  <2> DEFINE low == Min(prices)
  <2>1. low \in prices /\ \A p \in prices : low <= p
    BY <1>2, HeldType, LeastOfSet
  <2>2. low \in 1..(Share - 1) /\ book[low] \in 1..MaxSize
    BY <2>1, HeldType
  <2>3. LevelAt(book, prices) = [price |-> low, size |-> book[low]]
    BY <1>2 DEF LevelAt
  <2> HIDE DEF low
  <2> QED
    BY <2>1, <2>2, <2>3, Given
<1> QED
  BY <1>1, <1>2

\* A level that is no level or one of the book's.
OfBook(level, book) ==
  /\ level.price \in 1..Share /\ level.size \in 0..MaxSize
  /\ level.price < Share =>
       level.price \in Held(book) /\ level.size = book[level.price]

LEMMA BestAskType ==
  ASSUME NEW book \in Levels
  PROVE  /\ OfBook(best_ask[book], book)
         /\ \A p \in Held(book) : best_ask[book].price <= p
<1>1. best_ask[book] = LevelAt(book, Held(book))
  BY DEF best_ask
<1> QED
  BY <1>1, LevelAtType DEF OfBook

LEMMA FeasibleType ==
  ASSUME NEW book \in Levels
  PROVE  OfBook(best_feasible_ask[book], book)
<1> DEFINE offered(p) == SumFunctionOnSet(book, {q \in Held(book) : q <= p})
           enough == {p \in Held(book) : offered(p) >= IGNORING_VOLUME}
           ask == LevelAt(book, enough)
<1>1. best_feasible_ask[book]
        = IF ask.price <= best_ask[book].price + SEARCH_DEPTH THEN ask ELSE NoLevel
  BY DEF best_feasible_ask
<1>2. enough \in SUBSET Held(book)
  OBVIOUS
<1>3. OfBook(ask, book)
  <2> HIDE DEF enough
  <2> QED
    BY <1>2, LevelAtType DEF OfBook
<1>4. OfBook(NoLevel, book)
  BY Given DEF OfBook, NoLevel
<1> HIDE DEF ask
<1> QED
  BY <1>1, <1>3, <1>4

\* A relevant ask is one of the book's, for no more than is offered there.
LEMMA RelevantType ==
  ASSUME NEW books \in [Assets -> Levels], NEW a \in Assets,
         lowest_volume \in BOOLEAN, event_assets \in SetToSeqs(Others)
  PROVE  LET ask == relevant_books(books)[a]
         IN /\ ask.price \in 1..Share /\ ask.size \in 0..MaxSize
            /\ ask.price < Share =>
                 /\ ask.price \in Held(books[a])
                 /\ 0 < ask.size /\ ask.size <= books[a][ask.price]
                 /\ best_feasible_ask[books[a]].price = ask.price
<1> DEFINE feasible == best_feasible_ask[books[a]]
           top == best_ask[books[a]]
           offered == {i \in DOMAIN event_assets : Held(books[event_assets[i]]) # {}}
           lowest == best_ask[books[event_assets[Min(offered)]]].size
           Good(ask) == /\ ask.price \in 1..Share /\ ask.size \in 0..MaxSize
                        /\ ask.price < Share =>
                             /\ ask.price \in Held(books[a])
                             /\ 0 < ask.size /\ ask.size <= books[a][ask.price]
                             /\ feasible.price = ask.price
<1>1. books[a] \in Levels
  OBVIOUS
<1>2. OfBook(feasible, books[a]) /\ OfBook(top, books[a])
  BY <1>1, FeasibleType, BestAskType
<1>3. \A p \in Held(books[a]) : books[a][p] \in 1..MaxSize
  BY <1>1, HeldType
<1>4. Good(feasible)
  BY <1>2, <1>3 DEF OfBook
<1>5. Good(NoLevel)
  BY Given DEF NoLevel
<1>6. ASSUME offered # {}, feasible.price = top.price, ~(top.size <= lowest)
      PROVE  Good([feasible EXCEPT !.size = top.size - lowest])
  <2>1. Min(offered) \in offered
    <3>1. offered \in SUBSET Nat
      BY DEF SetToSeqs
    <3> HIDE DEF offered
    <3> QED
      BY <1>6, <3>1, LeastOfSet
  <2>2. event_assets[Min(offered)] \in Assets
    BY <2>1 DEF SetToSeqs, Assets
  <2>3. lowest \in Nat
    <3>1. books[event_assets[Min(offered)]] \in Levels
      BY <2>2
    <3> QED
      BY <3>1, BestAskType DEF OfBook
  <2>4. top.size \in 0..MaxSize /\ feasible.price \in 1..Share
    BY <1>2 DEF OfBook
  <2>5. feasible.price < Share =>
          top.size = books[a][feasible.price] /\ feasible.price \in Held(books[a])
    BY <1>2, <1>6 DEF OfBook
  <2>6. "size" \in DOMAIN feasible
    BY DEF best_feasible_ask, LevelAt, NoLevel
  <2>7. [feasible EXCEPT !.size = top.size - lowest].price = feasible.price
    OBVIOUS
  <2>8. [feasible EXCEPT !.size = top.size - lowest].size = top.size - lowest
    BY <2>6
  <2> HIDE DEF top, lowest, feasible
  <2> QED
    BY <1>6, <2>3, <2>4, <2>5, <2>7, <2>8, Given
<1>7. \/ relevant_books(books)[a] = feasible
      \/ relevant_books(books)[a] = NoLevel
      \/ /\ offered # {} /\ feasible.price = top.price /\ ~(top.size <= lowest)
         /\ relevant_books(books)[a] = [feasible EXCEPT !.size = top.size - lowest]
  BY DEF relevant_books, apply_lowest_volume
<1> HIDE DEF feasible, top, offered, lowest
<1>8. Good(relevant_books(books)[a])
  BY <1>4, <1>5, <1>6, <1>7
<1> QED
  BY <1>8 DEF feasible

-----------------------------------------------------------------------------
(* The decision                                                            *)

\* What the strategy keeps about the books is in order.
Ready(books) ==
  /\ books \in [Assets -> Levels]
  /\ lowest_volume \in BOOLEAN /\ event_assets \in SetToSeqs(Others)

LEMMA PricedType ==
  ASSUME NEW books, Ready(books), NEW relevant, relevant = relevant_books(books)
  PROVE  /\ Priced(relevant) \in SUBSET Assets /\ IsFiniteSet(Priced(relevant))
         /\ Cardinality(Priced(relevant)) \in Nat
         /\ \A a \in Assets : relevant[a].price \in 1..Share
                                /\ relevant[a].size \in 0..MaxSize
         /\ asset \in Priced(relevant) =>
              /\ Cardinality(Priced(relevant) \ {asset})
                   = Cardinality(Priced(relevant)) - 1
              /\ Cardinality(Priced(relevant))
                   <= Cardinality({a \in Assets :
                                     best_feasible_ask[books[a]].price < Share})
<1> DEFINE P == Priced(relevant)
           F == {a \in Assets : best_feasible_ask[books[a]].price < Share}
<1>1. \A a \in Assets :
        LET ask == relevant_books(books)[a]
        IN /\ ask.price \in 1..Share /\ ask.size \in 0..MaxSize
           /\ ask.price < Share => best_feasible_ask[books[a]].price = ask.price
  BY RelevantType DEF Ready
<1>2. P \in SUBSET F /\ F \in SUBSET Assets
  BY <1>1 DEF Priced
<1> HIDE DEF P, F
<1>3. IsFiniteSet(F) /\ IsFiniteSet(P) /\ P \in SUBSET Assets
  BY <1>2, Given, FS_Subset
<1>4. Cardinality(P) \in Nat /\ Cardinality(P) <= Cardinality(F)
  BY <1>2, <1>3, FS_Subset, FS_CardinalityType
<1>5. asset \in P => Cardinality(P \ {asset}) = Cardinality(P) - 1
  BY <1>3, FS_RemoveElement
<1> QED
  BY <1>1, <1>3, <1>4, <1>5 DEF P, F

\* No more is bought than each of the other asks offers.
LEMMA VolumeType ==
  ASSUME NEW books, Ready(books), NEW relevant, relevant = relevant_books(books),
         asset \in Priced(relevant), Cardinality(Priced(relevant)) - 1 >= 1
  PROVE  LET volume == auto_buy_volume(books, relevant)
         IN /\ volume \in 0..MaxSize
            /\ \A a \in Priced(relevant) \ {asset} : volume <= relevant[a].size
<1> DEFINE P == Priced(relevant)
           k1 == Cardinality({a \in Assets :
                                best_feasible_ask[books[a]].price < Share}) - 1
           offers == {relevant[a].size : a \in P \ {asset}}
           all == offers \cup {MAX_VOLUME \div k1}
<1>1. /\ P \in SUBSET Assets /\ IsFiniteSet(P) /\ Cardinality(P \ {asset}) >= 1
      /\ \A a \in Assets : relevant[a].size \in 0..MaxSize
      /\ Cardinality(P) <= k1 + 1 /\ Cardinality(P) \in Nat
  <2>1. Cardinality({a \in Assets : best_feasible_ask[books[a]].price < Share}) \in Nat
    <3>1. IsFiniteSet({a \in Assets : best_feasible_ask[books[a]].price < Share})
      BY Given, FS_Subset
    <3> QED
      BY <3>1, FS_CardinalityType
  <2> QED
    BY <2>1, PricedType
<1>2. k1 \in Nat \ {0}
  <2>1. IsFiniteSet({a \in Assets : best_feasible_ask[books[a]].price < Share})
    BY Given, FS_Subset
  <2>2. Cardinality({a \in Assets : best_feasible_ask[books[a]].price < Share}) \in Nat
    BY <2>1, FS_CardinalityType
  <2> QED
    BY <1>1, <2>2
<1> HIDE DEF k1
<1>3. MAX_VOLUME \div k1 \in Nat
  BY <1>2, Given
<1>4. offers \in SUBSET Nat /\ \A a \in P \ {asset} : relevant[a].size \in offers
  BY <1>1
<1>5. PICK a \in P \ {asset} : TRUE
  <2>1. P \ {asset} # {}
    <3>1. P \ {asset} = {} => Cardinality(P \ {asset}) = 0
      BY FS_EmptySet
    <3> QED
      BY <1>1, <3>1
  <2> QED
    BY <2>1
<1>6. Min(all) \in all /\ \A y \in all : Min(all) <= y
  <2>1. all \in SUBSET Nat /\ all # {}
    BY <1>3, <1>4
  <2> HIDE DEF all
  <2> QED
    BY <2>1, LeastOfSet
<1>7. auto_buy_volume(books, relevant) = Min(all)
  BY DEF auto_buy_volume, k1
<1>8. \A b \in P \ {asset} : relevant[b].size \in all
  BY <1>4
<1>9. Min(all) \in Nat
  BY <1>3, <1>4, <1>6
<1> HIDE DEF all
<1>10. Min(all) <= relevant[a].size /\ relevant[a].size \in 0..MaxSize
  BY <1>1, <1>5, <1>6, <1>8
<1> QED
  BY <1>6, <1>7, <1>8, <1>9, <1>10, Given

LEMMA ThresholdType ==
  ASSUME NEW books, Ready(books), NEW relevant, relevant = relevant_books(books)
  PROVE  auto_buy_at_ask_threshold(relevant) \in Int
<1> DEFINE P == Priced(relevant)
           price == [a \in Assets |-> relevant[a].price]
<1>1. /\ P \in SUBSET Assets /\ IsFiniteSet(P) /\ Cardinality(P) \in Nat
      /\ \A a \in Assets : relevant[a].price \in 1..Share
  BY PricedType
<1> HIDE DEF P
<1>2. IsFiniteSet(P \ {asset}) /\ \A a \in P \ {asset} : price[a] \in Int
  BY <1>1, FS_Subset, Given
<1>3. SumFunctionOnSet(price, P \ {asset}) \in Int
  <2> HIDE DEF price
  <2> QED
    BY <1>2, SumRec
<1>4. (Cardinality(P) - 1) * Share \in Int
  BY <1>1, Given
<1> HIDE DEF price
<1> QED
  BY <1>3, <1>4 DEF auto_buy_at_ask_threshold, P, price

\* The price is the highest multiple of the tick size under all the bounds.
LEMMA PriceToBuy ==
  ASSUME NEW relevant, auto_buy_at_ask_threshold(relevant) \in Int,
         relevant[asset].price \in Int, own.price \in Nat,
         NEW bid \in Nat, NEW tick \in {1, Cent}
  PROVE  LET price == price_to_buy(relevant, bid, tick)
             limit == auto_buy_at_ask_threshold(relevant) - ALPHA
         IN /\ price \in Int /\ price % tick = 0
            /\ price <= limit /\ price <= bid + tick
            /\ price <= Share - tick /\ price <= relevant[asset].price - tick
            /\ (/\ own.price % tick = 0 /\ own.price <= limit /\ own.price <= bid
                /\ own.price <= Share - tick
                /\ own.price <= relevant[asset].price - tick)
                 => own.price <= price
<1> DEFINE limit == auto_buy_at_ask_threshold(relevant) - ALPHA
           offset == IF bid = own.price THEN 0 ELSE tick
           low == Min({limit, bid + offset, Share - tick, relevant[asset].price - tick})
           price == (low \div tick) * tick
<1>1. tick \in Nat \ {0} /\ offset \in Nat /\ offset <= tick
  BY Given
<1>2. /\ limit \in Int /\ bid + offset \in Int /\ Share - tick \in Int
      /\ relevant[asset].price - tick \in Int
  BY <1>1, Given
<1> HIDE DEF limit, offset
<1>3. /\ low \in {limit, bid + offset, Share - tick, relevant[asset].price - tick}
      /\ low <= limit /\ low <= bid + offset
      /\ low <= Share - tick /\ low <= relevant[asset].price - tick
  BY <1>2, LeastOfFour
<1>4. low \in Int
  BY <1>2, <1>3
<1> HIDE DEF low
<1>5. price \in Int /\ price <= low /\ low < price + tick /\ price % tick = 0
  BY <1>1, <1>4, Multiple, ProductIsMultiple
<1>6. price_to_buy(relevant, bid, tick) = price
  BY DEF price_to_buy, limit, offset, low
<1> HIDE DEF price
<1>7. price <= limit /\ price <= bid + tick
      /\ price <= Share - tick /\ price <= relevant[asset].price - tick
  BY <1>1, <1>2, <1>3, <1>4, <1>5
<1>8. ASSUME own.price % tick = 0, own.price <= limit, own.price <= bid,
             own.price <= Share - tick, own.price <= relevant[asset].price - tick
      PROVE  own.price <= price
  <2>1. own.price <= low
    BY <1>1, <1>2, <1>3, <1>8
  <2>2. own.price < price + tick
    BY <1>1, <1>4, <1>5, <2>1
  <2> QED
    BY <1>1, <1>5, <1>8, <2>2, MultiplesApart
<1> QED
  BY <1>5, <1>6, <1>7, <1>8 DEF limit

\* What the books must offer for a bid to be placed.
Justified(books) ==
  LET relevant == relevant_books(books)
      threshold == auto_buy_at_ask_threshold(relevant)
  IN /\ asset \in Priced(relevant)
     /\ Cardinality(Priced(relevant)) - 1 \in 1..MARKET_LIMIT
     /\ auto_buy_volume(books, relevant) > 0
     /\ threshold - ALPHA >= 1 /\ threshold < Share

\* What a bid may cost and how much it may be for.
Within(books, price, size, tick) ==
  LET relevant == relevant_books(books)
  IN /\ price <= auto_buy_at_ask_threshold(relevant) - ALPHA
     /\ price <= Share - tick
     /\ price <= relevant[asset].price - tick
     /\ size <= auto_buy_volume(books, relevant) + SizeTolerance

LEMMA PlaceSignal ==
  ASSUME NEW books, Ready(books), own.price \in Nat,
         NEW bid \in Nat, NEW tick \in {1, Cent},
         NEW signal, signal = determine_signal(books, relevant_books(books), bid, tick)
  PROVE  /\ signal.type = "Place" =>
              /\ signal.price \in Prices /\ signal.price % tick = 0
              /\ signal.price <= bid + tick
              /\ signal.size \in 1..MaxSize
              /\ signal.size = auto_buy_volume(books, relevant_books(books))
              /\ Justified(books)
              /\ Within(books, signal.price, signal.size, tick)
         /\ (/\ Justified(books) /\ Within(books, own.price, own.size, tick)
             /\ own.price % tick = 0 /\ own.price >= tick /\ own.price <= bid)
              => /\ signal.type = "Place" /\ own.price <= signal.price
                 /\ signal.size = auto_buy_volume(books, relevant_books(books))
<1> DEFINE relevant == relevant_books(books)
           k == Cardinality(Priced(relevant)) - 1
           threshold == auto_buy_at_ask_threshold(relevant)
           price == price_to_buy(relevant, bid, tick)
           size == auto_buy_volume(books, relevant)
           Fits == /\ asset \in Priced(relevant)
                   /\ size > 0
                   /\ threshold - ALPHA >= 1 /\ threshold < Share
                   /\ tick \in {1, Cent}
                   /\ price >= tick
<1>1. signal = CASE k <= 0 -> Signal("CancelBids", 0, 0)
                 [] k > MARKET_LIMIT -> Signal("NoAction", 0, 0)
                 [] OTHER -> IF Fits THEN Signal("Place", price, size)
                             ELSE Signal("CancelBids", 0, 0)
  BY DEF determine_signal
<1>2. k \in Int /\ threshold \in Int /\ relevant[asset].price \in Int
  <2> HIDE DEF relevant
  <2>1. relevant = relevant_books(books)
    BY DEF relevant
  <2>2. Cardinality(Priced(relevant)) \in Nat
    BY <2>1, PricedType
  <2>3. relevant[asset].price \in 1..Share
    BY <2>1, PricedType, Given
  <2>4. threshold \in Int
    BY <2>1, ThresholdType
  <2> QED
    BY <2>2, <2>3, <2>4
<1>3. asset \in Priced(relevant) /\ k >= 1 => size \in 0..MaxSize
  BY VolumeType
<1>4. /\ price \in Int /\ price % tick = 0
      /\ price <= threshold - ALPHA /\ price <= bid + tick
      /\ price <= Share - tick /\ price <= relevant[asset].price - tick
      /\ (/\ own.price % tick = 0 /\ own.price <= threshold - ALPHA
          /\ own.price <= bid /\ own.price <= Share - tick
          /\ own.price <= relevant[asset].price - tick)
           => own.price <= price
  BY <1>2, PriceToBuy
<1>5. Justified(books) <=> /\ asset \in Priced(relevant) /\ k \in 1..MARKET_LIMIT
                           /\ size > 0 /\ threshold - ALPHA >= 1 /\ threshold < Share
  BY DEF Justified
<1>6. \A p, s : Within(books, p, s, tick) <=>
          /\ p <= threshold - ALPHA /\ p <= Share - tick
          /\ p <= relevant[asset].price - tick /\ s <= size + SizeTolerance
  BY DEF Within
<1> HIDE DEF relevant, k, threshold, price, size
<1>7. ASSUME signal.type = "Place"
      PROVE  /\ signal.price \in Prices /\ signal.price % tick = 0
             /\ signal.price <= bid + tick
             /\ signal.size \in 1..MaxSize /\ signal.size = size
             /\ Justified(books) /\ Within(books, signal.price, signal.size, tick)
  <2>1. k >= 1 /\ k <= MARKET_LIMIT /\ Fits /\ signal = Signal("Place", price, size)
    <3>1. CASE k <= 0
      BY <1>1, <1>7, <3>1 DEF Signal
    <3>2. CASE k > MARKET_LIMIT /\ ~(k <= 0)
      BY <1>1, <1>7, <3>2 DEF Signal
    <3>3. CASE ~(k <= 0) /\ ~(k > MARKET_LIMIT)
      BY <1>1, <1>2, <1>7, <3>3, Given DEF Signal
    <3> QED
      BY <3>1, <3>2, <3>3
  <2>2. signal.price = price /\ signal.size = size
    BY <2>1 DEF Signal
  <2>3. tick \in Nat \ {0}
    BY Given
  <2>4. size \in 1..MaxSize
    BY <1>3, <2>1, Given
  <2>5. price \in Prices
    BY <1>4, <2>1, <2>3, Given DEF Prices
  <2>6. Justified(books)
    BY <1>2, <1>5, <2>1, Given
  <2>7. Within(books, price, size, tick)
    BY <1>4, <1>6, <2>4, Given
  <2> QED
    BY <1>4, <2>2, <2>4, <2>5, <2>6, <2>7
<1>8. ASSUME Justified(books), Within(books, own.price, own.size, tick),
             own.price % tick = 0, own.price >= tick, own.price <= bid
      PROVE  signal.type = "Place" /\ own.price <= signal.price /\ signal.size = size
  <2>1. own.price <= price
    BY <1>4, <1>6, <1>8
  <2>2. price >= tick
    BY <1>4, <1>8, <2>1, Given
  <2>3. Fits
    BY <1>5, <1>8, <2>2
  <2>4. ~(k <= 0) /\ ~(k > MARKET_LIMIT)
    BY <1>2, <1>5, <1>8, Given
  <2>5. signal = Signal("Place", price, size)
    BY <1>1, <2>3, <2>4
  <2> QED
    BY <2>1, <2>5 DEF Signal
<1> QED
  BY <1>7, <1>8 DEF relevant, size

-----------------------------------------------------------------------------
(* The inductive invariant                                                 *)

Pays(books, price, size, tick) ==
  /\ Justified(books)
  /\ auto_buy_volume(books, relevant_books(books)) >= MIN_AUTO_BUY_VOLUME
  /\ Within(books, price, size, tick)

\* All prices are multiples of the exchange's tick size, and the book's is no
\* finer.
OnGrid ==
  /\ best_bid % grid = 0
  /\ \A p \in Held(asks[asset]) : p % grid = 0
  /\ grid = Cent => tick_size = Cent /\ own.price % Cent = 0

\* The bid that the last decision kept is one that it could have placed, or is
\* cheaper.
KeptPays == kept => own # NoBid /\ Pays(asks, own.price, own.size, tick_size)

IInv == TypeOK /\ OnGrid /\ KeptPays

OwnType ==
  \/ own = NoBid
  \/ own \in [status : {"unconfirmed", "live", "cancelling"},
              price : Prices, size : 1..MaxSize]

\* What a decision does to the bid.
LEMMA HandleStep ==
  ASSUME OwnType, tick_size \in {1, Cent}, Ready(asks'), best_bid' \in Nat,
         handle_price_change
  PROVE  \/ own' = own /\ kept' = FALSE
         \/ /\ own # NoBid /\ own' = [own EXCEPT !.status = "cancelling"]
            /\ kept' = FALSE
            /\ ~(/\ Pays(asks', own.price, own.size, tick_size)
                 /\ own.price % tick_size = 0 /\ own.price <= best_bid')
         \/ /\ own = NoBid /\ kept' = TRUE
            /\ own' \in [status : {"unconfirmed"}, price : Prices, size : 1..MaxSize]
            /\ own'.price % tick_size = 0 /\ own'.price <= best_bid' + tick_size
            /\ own'.size = auto_buy_volume(asks', relevant_books(asks'))
            /\ Pays(asks', own'.price, own'.size, tick_size)
         \/ /\ own # NoBid /\ own' = own /\ kept' = TRUE
            /\ Pays(asks', own.price, own.size, tick_size)
<1> DEFINE volume == auto_buy_volume(asks', relevant_books(asks'))
<1>1. PICK signal : /\ signal = determine_signal(asks', relevant_books(asks'),
                                                 best_bid', tick_size)
                    /\ \/ signal.type = "NoAction" /\ own' = own /\ kept' = FALSE
                       \/ signal.type = "CancelBids" /\ cancel_bid_orders
                       \/ /\ signal.type = "Place"
                          /\ IF signal.size < MIN_AUTO_BUY_VOLUME
                             THEN cancel_bid_orders
                             ELSE process_place_signal(signal)
  BY DEF handle_price_change
<1>2. own.price \in Nat /\ own.size \in Nat
  BY Given DEF OwnType, NoBid, Prices
<1>3. signal.type = "Place" =>
              /\ signal.price \in Prices /\ signal.price % tick_size = 0
              /\ signal.price <= best_bid' + tick_size
              /\ signal.size \in 1..MaxSize /\ signal.size = volume
              /\ Justified(asks')
              /\ Within(asks', signal.price, signal.size, tick_size)
  BY <1>1, <1>2, PlaceSignal
<1>4. (/\ Justified(asks') /\ Within(asks', own.price, own.size, tick_size)
       /\ own.price % tick_size = 0 /\ own.price >= tick_size
       /\ own.price <= best_bid')
        => /\ signal.type = "Place" /\ own.price <= signal.price
           /\ signal.size = volume
  BY <1>1, <1>2, PlaceSignal
<1>5. own # NoBid /\ own.price % tick_size = 0 => own.price >= tick_size
  <2> SUFFICES ASSUME own # NoBid, own.price % tick_size = 0
               PROVE  own.price >= tick_size
    OBVIOUS
  <2>1. tick_size \in Nat \ {0} /\ own.price \in Int /\ tick_size < own.price + tick_size
    BY Given DEF OwnType, Prices
  <2>2. (1 * tick_size) % tick_size = 0 /\ 1 * tick_size = tick_size
    BY <2>1, ProductIsMultiple
  <2>3. tick_size <= own.price
    BY <2>1, <2>2, MultiplesApart
  <2> QED
    BY <2>1, <2>3
<1>6. CASE /\ cancel_bid_orders
           /\ ~(/\ Pays(asks', own.price, own.size, tick_size)
                /\ own.price % tick_size = 0 /\ own.price <= best_bid')
  BY <1>6 DEF cancel_bid_orders, OwnType, NoBid
<1>7. CASE own = NoBid /\ cancel_bid_orders
  BY <1>7 DEF cancel_bid_orders, NoBid
<1>8. CASE own # NoBid /\ /\ Pays(asks', own.price, own.size, tick_size)
                          /\ own.price % tick_size = 0 /\ own.price <= best_bid'
  <2>1. /\ signal.type = "Place" /\ own.price <= signal.price
        /\ signal.size = volume
    BY <1>4, <1>5, <1>8 DEF Pays
  <2>2. ~(signal.size < MIN_AUTO_BUY_VOLUME)
    <3>1. volume \in Int /\ volume >= MIN_AUTO_BUY_VOLUME
      BY <1>3, <1>8, <2>1 DEF Pays
    <3> QED
      BY <2>1, <3>1, Given
  <2>3. ~cancel_conditions(signal)
    <3>1. own.size <= volume + SizeTolerance
      BY <1>8 DEF Pays, Within
    <3>2. signal.price \in Int /\ signal.size \in Int
      BY <1>3, <2>1 DEF Prices
    <3> QED
      BY <1>2, <2>1, <3>1, <3>2, Given DEF cancel_conditions
  <2>4. process_place_signal(signal)
    BY <1>1, <2>1, <2>2
  <2> QED
    BY <1>8, <2>3, <2>4 DEF process_place_signal
<1>9. CASE /\ signal.type = "Place" /\ ~(signal.size < MIN_AUTO_BUY_VOLUME)
           /\ process_place_signal(signal)
           /\ ~(own # NoBid /\ cancel_conditions(signal))
  <2>1. /\ signal.price \in Prices /\ signal.price % tick_size = 0
        /\ signal.price <= best_bid' + tick_size
        /\ signal.size \in 1..MaxSize /\ signal.size = volume
        /\ Justified(asks') /\ Within(asks', signal.price, signal.size, tick_size)
    BY <1>3, <1>9
  <2>2. Pays(asks', signal.price, signal.size, tick_size)
    BY <1>9, <2>1, Given DEF Pays
  <2>3. CASE own = NoBid
    BY <1>9, <2>1, <2>2, <2>3 DEF process_place_signal
  <2>4. CASE own # NoBid
    <3>1. own' = own /\ kept' = TRUE
      BY <1>9, <2>4 DEF process_place_signal
    <3>2. own.price <= signal.price /\ own.size <= signal.size + SizeTolerance
      BY <1>2, <1>9, <2>1, <2>4, Given DEF cancel_conditions, Prices
    <3>3. Within(asks', own.price, own.size, tick_size)
      <4> DEFINE relevant == relevant_books(asks')
                 limit == auto_buy_at_ask_threshold(relevant) - ALPHA
                 under == relevant[asset].price
      <4>1. limit \in Int /\ under \in Int
        <5> HIDE DEF relevant
        <5>1. relevant = relevant_books(asks')
          BY DEF relevant
        <5>2. auto_buy_at_ask_threshold(relevant) \in Int
          BY <5>1, ThresholdType
        <5>3. relevant[asset].price \in 1..Share
          BY <5>1, PricedType, Given
        <5> QED
          BY <5>2, <5>3, Given
      <4>2. /\ signal.price <= limit /\ signal.price <= Share - tick_size
            /\ signal.price <= under - tick_size
        BY <2>1 DEF Within
      <4>3. signal.price \in Int /\ tick_size \in Int
        BY <2>1, Given DEF Prices
      <4> HIDE DEF relevant, limit, under
      <4>4. /\ own.price <= limit /\ own.price <= Share - tick_size
            /\ own.price <= under - tick_size
        BY <1>2, <3>2, <4>1, <4>2, <4>3, Given
      <4> QED
        BY <2>1, <3>2, <4>4 DEF Within, relevant, limit, under
    <3> QED
      BY <2>2, <2>4, <3>1, <3>3 DEF Pays
  <2> QED
    BY <2>3, <2>4
<1> QED
  BY <1>1, <1>6, <1>7, <1>8, <1>9 DEF process_place_signal

-----------------------------------------------------------------------------
(* The steps                                                               *)

LEMMA AnyMultiple ==
  ASSUME NEW n \in Int
  PROVE  n % 1 = 0 /\ 0 % Cent = 0
<1>1. (n * 1) % 1 = 0 /\ n * 1 = n
  BY ProductIsMultiple
<1>2. (0 * Cent) % Cent = 0 /\ 0 * Cent = 0
  BY ProductIsMultiple, Given
<1> QED
  BY <1>1, <1>2

\* An ask that is set, and asks that are taken off.
LEMMA LevelSet ==
  ASSUME NEW book \in Levels, NEW a \in Assets, Held(book) \subseteq AskPrices[a],
         NEW p \in AskPrices[a], NEW s \in 0..MaxSize
  PROVE  LET new == [book EXCEPT ![p] = s]
         IN /\ new \in Levels /\ Held(new) \subseteq AskPrices[a]
            /\ Held(new) \subseteq Held(book) \cup {p}
<1> DEFINE new == [book EXCEPT ![p] = s]
<1>1. new \in [Prices -> 0..MaxSize]
  BY DEF Levels
<1>2. Held(new) \subseteq Held(book) \cup {p}
  BY DEF Held, Levels
<1> QED
  BY <1>1, <1>2 DEF Levels

LEMMA LevelsTakenOff ==
  ASSUME NEW book \in Levels, NEW a \in Assets, Held(book) \subseteq AskPrices[a],
         NEW p \in Prices
  PROVE  LET new == [q \in Prices |-> IF q <= p THEN 0 ELSE book[q]]
         IN /\ new \in Levels /\ Held(new) \subseteq AskPrices[a]
            /\ \A q \in Held(new) : q \in Held(book) /\ p < q
<1> DEFINE new == [q \in Prices |-> IF q <= p THEN 0 ELSE book[q]]
<1>1. new \in [Prices -> 0..MaxSize]
  BY Given DEF Levels
<1>2. \A q \in Held(new) : q \in Held(book) /\ p < q
  BY Given DEF Held, Levels, Prices
<1> QED
  BY <1>1, <1>2 DEF Levels

\* After a change of the book all is of its type and on the grid, and no ask
\* is crossed by the best bid.
BookInv ==
  /\ asks \in [Assets -> Levels]
  /\ \A a \in Assets : Held(asks[a]) \subseteq AskPrices[a]
  /\ best_bid \in 0..(Share - 1)
  /\ \A p \in Held(asks[asset]) : best_bid < p

LEMMA BookStep ==
  ASSUME TypeOK, OnGrid, NEW p \in Prices, apply_price_change(p)
  PROVE  /\ BookInv'
         /\ best_bid' % grid = 0 /\ \A q \in Held(asks'[asset]) : q % grid = 0
<1> DEFINE book == asks[asset]
<1>1. /\ asset \in Assets /\ book \in Levels /\ Held(book) \subseteq AskPrices[asset]
      /\ \A q \in Held(book) : best_bid < q /\ q \in Nat
      /\ best_bid \in 0..(Share - 1) /\ p \in 1..(Share - 1) /\ Share \in Nat
  BY Given, HeldType DEF TypeOK, Prices
<1>2. p % grid = 0 /\ \A q \in Held(book) : q % grid = 0
  BY DEF apply_price_change, OnGrid
<1>3. best_bid' % grid = 0
  BY DEF apply_price_change
<1> SUFFICES \E new \in Levels :
               /\ asks' = [asks EXCEPT ![asset] = new]
               /\ Held(new) \subseteq AskPrices[asset]
               /\ Held(new) \subseteq Held(book) \cup {p}
               /\ best_bid' \in 0..(Share - 1)
               /\ \A q \in Held(new) : best_bid' < q
  <2>1. PICK new \in Levels :
               /\ asks' = [asks EXCEPT ![asset] = new]
               /\ Held(new) \subseteq AskPrices[asset]
               /\ Held(new) \subseteq Held(book) \cup {p}
               /\ best_bid' \in 0..(Share - 1)
               /\ \A q \in Held(new) : best_bid' < q
    OBVIOUS
  <2>2. asks \in [Assets -> Levels] /\ \A a \in Assets : Held(asks[a]) \subseteq AskPrices[a]
    BY DEF TypeOK
  <2>3. asks' \in [Assets -> Levels] /\ asks'[asset] = new
        /\ \A a \in Assets : a # asset => asks'[a] = asks[a]
    BY <1>1, <2>1, <2>2
  <2>4. \A a \in Assets : Held(asks'[a]) \subseteq AskPrices[a]
    BY <2>1, <2>2, <2>3
  <2>5. \A q \in Held(asks'[asset]) : q % grid = 0
    BY <1>2, <2>1, <2>3
  <2>6. BookInv'
    BY <2>1, <2>3, <2>4 DEF BookInv
  <2> QED
    BY <1>3, <2>5, <2>6
<1>4. CASE change_bid(p)
  <2> DEFINE new == [q \in Prices |-> IF q <= p THEN 0 ELSE book[q]]
  <2>1. /\ new \in Levels /\ Held(new) \subseteq AskPrices[asset]
        /\ \A q \in Held(new) : q \in Held(book) /\ p < q
    BY <1>1, LevelsTakenOff
  <2>2. asks' = [asks EXCEPT ![asset] = new]
    BY <1>1, <1>4 DEF change_bid, TypeOK
  <2>3. best_bid' \in {p, best_bid} \/ best_bid' \in 0..p
    BY <1>4 DEF change_bid
  <2> HIDE DEF new, book
  <2>4. best_bid' \in 0..(Share - 1)
    BY <1>1, <2>3
  <2>5. \A q \in Held(new) : best_bid' < q
    BY <1>1, <2>1, <2>3
  <2> QED
    BY <2>1, <2>2, <2>4, <2>5
<1>5. ASSUME p \in AskPrices[asset], NEW s \in 0..MaxSize, change_ask(p, s)
      PROVE  \E new \in Levels :
               /\ asks' = [asks EXCEPT ![asset] = new]
               /\ Held(new) \subseteq AskPrices[asset]
               /\ Held(new) \subseteq Held(book) \cup {p}
               /\ best_bid' \in 0..(Share - 1)
               /\ \A q \in Held(new) : best_bid' < q
  <2> DEFINE new == [book EXCEPT ![p] = s]
  <2>1. /\ new \in Levels /\ Held(new) \subseteq AskPrices[asset]
        /\ Held(new) \subseteq Held(book) \cup {p}
    BY <1>1, <1>5, LevelSet
  <2>2. asks' = [asks EXCEPT ![asset] = new]
    BY <1>5 DEF change_ask
  <2>3. IF best_bid < p THEN best_bid' = best_bid ELSE best_bid' \in 0..(p - 1)
    BY <1>5 DEF change_ask
  <2> HIDE DEF new, book
  <2>4. best_bid' \in 0..(Share - 1)
    BY <1>1, <2>3
  <2>5. \A q \in Held(new) : best_bid' < q
    BY <1>1, <2>1, <2>3
  <2> QED
    BY <2>1, <2>2, <2>4, <2>5
<1> QED
  BY <1>4, <1>5 DEF apply_price_change

LEMMA InitInv == Init => IInv
<1> SUFFICES ASSUME Init PROVE IInv
  OBVIOUS
<1> DEFINE none == [p \in Prices |-> 0]
<1>1. Held(none) = {}
  BY DEF Held
<1>2. none \in Levels
  BY <1>1, Given DEF Levels
<1>3. TypeOK
  <2> HIDE DEF none
  <2>1. asks \in [Assets -> Levels] /\ \A a \in Assets : Held(asks[a]) = {}
    BY <1>1, <1>2 DEF Init, none
  <2>2. Held(asks[asset]) = {}
    BY <2>1, Given
  <2>3. best_bid \in 0..(Share - 1) /\ tick_size \in {1, Cent} /\ grid \in {1, Cent}
    BY Given DEF Init
  <2> QED
    BY <2>1, <2>2, <2>3 DEF Init, TypeOK
<1>4. OnGrid
  BY <1>1, AnyMultiple, Given DEF Init, OnGrid, NoBid
<1> QED
  BY <1>3, <1>4 DEF IInv, KeptPays, Init

\* What is relevant depends on the books and on what never changes.
LEMMA PaysPrimed ==
  ASSUME UNCHANGED event_vars
  PROVE  Pays(asks, own.price, own.size, tick_size)'
           <=> Pays(asks', own'.price, own'.size, tick_size')
<1>1. relevant_books(asks)' = relevant_books(asks')
  BY DEF event_vars, relevant_books, apply_lowest_volume
<1> QED
  BY <1>1 DEF Pays, Justified, Within

\* One step of the strategy, of the exchange or of nobody keeps it all.
LEMMA NextInv == IInv /\ [Next]_vars => IInv'
<1> SUFFICES ASSUME IInv, [Next]_vars PROVE IInv'
  OBVIOUS
<1> USE DEF IInv
<1>1. /\ OwnType /\ BookInv /\ tick_size \in {1, Cent} /\ grid \in {1, Cent}
      /\ lowest_volume \in BOOLEAN /\ event_assets \in SetToSeqs(Others)
      /\ kept \in BOOLEAN /\ Ready(asks)
  BY DEF TypeOK, OwnType, BookInv, Ready
<1>2. OwnType' /\ BookInv' /\ tick_size' \in {1, Cent} /\ grid' \in {1, Cent}
      /\ UNCHANGED event_vars /\ kept' \in BOOLEAN => TypeOK'
  BY <1>1 DEF TypeOK, OwnType, BookInv, event_vars
<1>3. ASSUME NEW p \in Prices, price_change(p) PROVE IInv'
  <2>1. /\ apply_price_change(p) /\ handle_price_change
        /\ UNCHANGED event_vars /\ grid' = grid /\ tick_size' = tick_size
    BY <1>3 DEF price_change
  <2>2. BookInv' /\ best_bid' % grid = 0 /\ \A q \in Held(asks'[asset]) : q % grid = 0
    BY <2>1, BookStep
  <2>3. Ready(asks') /\ best_bid' \in Nat
    BY <1>1, <2>2, Given DEF Ready, BookInv
  <2>4. \/ own' = own /\ kept' = FALSE
        \/ /\ own # NoBid /\ own' = [own EXCEPT !.status = "cancelling"]
           /\ kept' = FALSE
        \/ /\ own' \in [status : {"unconfirmed"}, price : Prices, size : 1..MaxSize]
           /\ own'.price % tick_size = 0 /\ kept' = TRUE
           /\ Pays(asks', own'.price, own'.size, tick_size)
        \/ /\ own # NoBid /\ own' = own /\ kept' = TRUE
           /\ Pays(asks', own.price, own.size, tick_size)
    BY <1>1, <2>1, <2>3, HandleStep
  <2>5. OwnType' /\ kept' \in BOOLEAN
    BY <1>1, <2>4 DEF OwnType
  <2>6. TypeOK'
    BY <1>1, <1>2, <2>1, <2>2, <2>5
  <2>7. grid = Cent => tick_size = Cent /\ own'.price % Cent = 0
    <3> SUFFICES ASSUME grid = Cent PROVE tick_size = Cent /\ own'.price % Cent = 0
      OBVIOUS
    <3>1. tick_size = Cent /\ own.price % Cent = 0
      BY DEF OnGrid
    <3> QED
      BY <1>1, <2>4, <3>1 DEF OwnType
  <2>8. OnGrid'
    BY <2>1, <2>2, <2>7 DEF OnGrid
  <2>9. KeptPays'
    <3>1. kept' => own' # NoBid /\ Pays(asks', own'.price, own'.size, tick_size')
      BY <2>1, <2>4 DEF NoBid
    <3> QED
      BY <2>1, <3>1, PaysPrimed DEF KeptPays
  <2> QED
    BY <2>6, <2>8, <2>9
<1>4. ASSUME NEW p \in Prices, agg_orderbook(p) PROVE IInv'
  <2>1. /\ apply_price_change(p) /\ tick_size' = Cent /\ kept' = FALSE
        /\ UNCHANGED event_vars /\ grid' = grid /\ own' = own
    BY <1>4 DEF agg_orderbook
  <2>2. BookInv' /\ best_bid' % grid = 0 /\ \A q \in Held(asks'[asset]) : q % grid = 0
    BY <2>1, BookStep
  <2>3. TypeOK'
    BY <1>1, <1>2, <2>1, <2>2 DEF OwnType
  <2>4. OnGrid'
    BY <2>1, <2>2 DEF OnGrid
  <2> QED
    BY <2>1, <2>3, <2>4 DEF KeptPays
<1>5. CASE tick_size_change
  <2>1. /\ grid' = 1 /\ tick_size' = 1 /\ kept' = FALSE
        /\ UNCHANGED event_vars /\ asks' = asks /\ best_bid' = best_bid /\ own' = own
    BY <1>5 DEF tick_size_change
  <2>2. TypeOK'
    BY <1>1, <1>2, <2>1 DEF OwnType, BookInv
  <2>3. \A q \in Held(asks[asset]) : q \in Int
    BY <1>1, Given, HeldType DEF BookInv
  <2>4. best_bid \in Int /\ own.price \in Int
    BY <1>1, Given DEF BookInv, OwnType, NoBid, Prices
  <2>5. OnGrid'
    BY <2>1, <2>3, <2>4, AnyMultiple DEF OnGrid
  <2> QED
    BY <2>1, <2>2, <2>5 DEF KeptPays
<1>6. ASSUME NEW a \in Others, NEW p \in AskPrices[a], NEW s \in 0..MaxSize,
             other_price_change(a, p, s)
      PROVE  IInv'
  <2>1. /\ asks' = [asks EXCEPT ![a][p] = s] /\ kept' = FALSE /\ UNCHANGED event_vars
        /\ grid' = grid /\ best_bid' = best_bid /\ tick_size' = tick_size /\ own' = own
    BY <1>6 DEF other_price_change
  <2>2. a \in Assets /\ a # asset
    BY NegRiskAssumption DEF Assets
  <2> DEFINE new == [asks[a] EXCEPT ![p] = s]
  <2>3. asks' = [asks EXCEPT ![a] = new]
    BY <2>1
  <2>4. new \in Levels /\ Held(new) \subseteq AskPrices[a]
    BY <1>1, <2>2, LevelSet DEF BookInv
  <2> HIDE DEF new
  <2>5. /\ asks' \in [Assets -> Levels] /\ asks'[asset] = asks[asset]
        /\ \A b \in Assets : Held(asks'[b]) \subseteq AskPrices[b]
    <3>1. \A b \in Assets : asks'[b] = IF b = a THEN new ELSE asks[b]
      BY <1>1, <2>3 DEF BookInv
    <3>2. asks' \in [Assets -> Levels]
      BY <1>1, <2>3, <2>4 DEF BookInv
    <3> QED
      BY <1>1, <2>2, <2>4, <3>1, <3>2, Given DEF BookInv
  <2>6. BookInv'
    BY <1>1, <2>1, <2>5 DEF BookInv
  <2>7. TypeOK'
    BY <1>1, <1>2, <2>1, <2>6 DEF OwnType
  <2>8. OnGrid'
    BY <2>1, <2>5 DEF OnGrid
  <2> QED
    BY <2>1, <2>7, <2>8 DEF KeptPays
<1>7. ASSUME \/ own' = own
             \/ own # NoBid /\ \E status \in {"live", "cancelling"} :
                                 own' = [own EXCEPT !.status = status],
             UNCHANGED <<event_vars, grid, asks, best_bid, tick_size, kept>>
      PROVE  IInv'
  <2>1. OwnType' /\ own'.price = own.price /\ own'.size = own.size
        /\ (own # NoBid => own' # NoBid)
    BY <1>1, <1>7 DEF OwnType, NoBid
  <2>2. BookInv'
    BY <1>1, <1>7 DEF BookInv
  <2>3. TypeOK'
    BY <1>1, <1>2, <1>7, <2>1, <2>2
  <2>4. OnGrid'
    BY <1>7, <2>1 DEF OnGrid
  <2>5. KeptPays'
    <3>1. kept' => own' # NoBid /\ Pays(asks', own'.price, own'.size, tick_size')
      BY <1>7, <2>1 DEF KeptPays
    <3> QED
      BY <1>7, <3>1, PaysPrimed DEF KeptPays
  <2> QED
    BY <2>3, <2>4, <2>5
<1>8. CASE Confirmed
  BY <1>7, <1>8 DEF Confirmed, NoBid
<1>9. CASE NotCancelled
  BY <1>7, <1>9 DEF NotCancelled, NoBid
<1>10. CASE Ended
  <2>1. /\ own' = NoBid /\ kept' = FALSE /\ UNCHANGED event_vars /\ grid' = grid
        /\ asks' = asks /\ best_bid' = best_bid /\ tick_size' = tick_size
    BY <1>10 DEF Ended
  <2>2. BookInv' /\ OwnType'
    BY <1>1, <2>1 DEF BookInv, OwnType
  <2>3. TypeOK'
    BY <1>1, <1>2, <2>1, <2>2
  <2>4. OnGrid'
    BY <2>1, AnyMultiple DEF OnGrid, NoBid
  <2> QED
    BY <2>1, <2>3, <2>4 DEF KeptPays
<1>11. CASE UNCHANGED vars
  BY <1>7, <1>11 DEF vars
<1> QED
  BY <1>3, <1>4, <1>5, <1>6, <1>8, <1>9, <1>10, <1>11 DEF Next

THEOREM Invariant == Spec => []IInv
  BY InitInv, NextInv, PTL DEF Spec

-----------------------------------------------------------------------------
(* What follows                                                            *)

\* The books, the bid and the tick sizes are of their types; no ask is at or
\* under the best bid.
THEOREM TypeCorrect == Spec => []TypeOK
<1>1. IInv => TypeOK
  BY DEF IInv
<1> QED
  BY <1>1, Invariant, PTL

\* What IInv says of the step that a decision is.
LEMMA Decides ==
  ASSUME IInv, NEW p \in Prices, price_change(p)
  PROVE  /\ OwnType /\ tick_size \in {1, Cent} /\ Ready(asks') /\ best_bid' \in Nat
         /\ best_bid' % grid = 0 /\ handle_price_change
         /\ \A q \in Held(asks'[asset]) : q % grid = 0 /\ best_bid' < q
         /\ tick_size' = tick_size
<1>1. /\ apply_price_change(p) /\ handle_price_change /\ tick_size' = tick_size
  BY DEF price_change
<1>2. BookInv' /\ best_bid' % grid = 0 /\ \A q \in Held(asks'[asset]) : q % grid = 0
  BY <1>1, BookStep DEF IInv
<1>3. asks' \in [Assets -> Levels] /\ best_bid' \in 0..(Share - 1)
      /\ \A q \in Held(asks'[asset]) : best_bid' < q
  BY <1>2 DEF BookInv
<1>4. OwnType /\ tick_size \in {1, Cent} /\ Ready(asks')
  BY <1>3 DEF IInv, TypeOK, OwnType, Ready
<1>5. best_bid' \in Nat
  BY <1>3, Given
<1> QED
  BY <1>1, <1>2, <1>3, <1>4, <1>5

LEMMA StepNoChurn ==
  IInv /\ [Next]_vars =>
    ((/\ kept /\ own.status = "live"
      /\ asks' = asks /\ tick_size' = tick_size /\ tick_size = grid
      /\ best_bid' >= own.price)
       => own'.status # "cancelling")
<1> SUFFICES ASSUME IInv, [Next]_vars, kept, own.status = "live",
                    asks' = asks, tick_size = grid, best_bid' >= own.price
             PROVE  own'.status # "cancelling"
  OBVIOUS
<1>1. CASE own' = own \/ own' = [own EXCEPT !.status = "live"] \/ own' = NoBid
  BY <1>1 DEF NoBid, IInv, TypeOK
<1>2. ASSUME NEW p \in Prices, price_change(p)
      PROVE  own' = own \/ own = NoBid
  <2>1. Pays(asks', own.price, own.size, tick_size)
    BY DEF IInv, KeptPays
  <2>2. own.price % tick_size = 0
    <3>1. own.price \in Int /\ tick_size \in {1, Cent}
      BY Given DEF IInv, TypeOK, NoBid, Prices
    <3> QED
      BY <3>1, AnyMultiple DEF IInv, OnGrid
  <2>3. own.price <= best_bid'
    BY <1>2, Decides, Given DEF OwnType, NoBid, Prices
  <2> QED
    BY <1>2, <2>1, <2>2, <2>3, Decides, HandleStep
<1>3. own # NoBid
  BY DEF NoBid
<1>4. CASE (\E p \in Prices : agg_orderbook(p)) \/ tick_size_change
           \/ \E a \in Others : \E p \in AskPrices[a], s \in 0..MaxSize :
                other_price_change(a, p, s)
  BY <1>1, <1>4 DEF agg_orderbook, tick_size_change, other_price_change
<1>5. CASE Confirmed \/ NotCancelled \/ Ended \/ UNCHANGED vars
  BY <1>1, <1>5 DEF Confirmed, NotCancelled, Ended, vars
<1> QED
  BY <1>1, <1>2, <1>3, <1>4, <1>5 DEF Next

\* A bid in the book never brings about its own cancellation.
THEOREM NeverChurns == Spec => NoChurn
<1>1. IInv /\ [Next]_vars =>
        [(/\ kept /\ own.status = "live"
          /\ asks' = asks /\ tick_size' = tick_size /\ tick_size = grid
          /\ best_bid' >= own.price)
           => own'.status # "cancelling"]_vars
  BY StepNoChurn
<1> QED
  BY <1>1, Invariant, PTL DEF Spec, NoChurn

\* A bid is placed by a decision.
LEMMA PlacedBy ==
  ASSUME IInv, [Next]_vars, own = NoBid, own' # NoBid
  PROVE  /\ \E p \in Prices : price_change(p)
         /\ own' \in [status : {"unconfirmed"}, price : Prices, size : 1..MaxSize]
         /\ own'.price % tick_size = 0 /\ own'.price <= best_bid' + tick_size
         /\ own'.size = auto_buy_volume(asks', relevant_books(asks'))
         /\ Pays(asks', own'.price, own'.size, tick_size)
<1>1. PICK p \in Prices : price_change(p)
  BY DEF Next, agg_orderbook, tick_size_change, other_price_change,
         Confirmed, NotCancelled, Ended, vars, NoBid
<1> QED
  BY <1>1, Decides, HandleStep

LEMMA StepNotAbove ==
  IInv /\ [Next]_vars =>
    ((own = NoBid /\ own' # NoBid /\ tick_size = grid)
       => own'.price <= best_ask[asks'[asset]].price)
<1> SUFFICES ASSUME IInv, [Next]_vars, own = NoBid, own' # NoBid, tick_size = grid
             PROVE  own'.price <= best_ask[asks'[asset]].price
  OBVIOUS
<1>1. PICK p \in Prices : price_change(p)
  BY PlacedBy
<1>2. /\ best_bid' \in Nat /\ Ready(asks')
      /\ \A q \in Held(asks'[asset]) : q % grid = 0 /\ best_bid' < q
  BY <1>1, Decides
<1>3. /\ own'.price \in 1..(Share - 1) /\ own'.price % tick_size = 0
      /\ own'.price <= best_bid' + tick_size
  BY PlacedBy DEF Prices
<1>4. PICK ask : ask = best_ask[asks'[asset]]
  OBVIOUS
<1>5. ask.price \in 1..Share /\ (ask.price < Share => ask.price \in Held(asks'[asset]))
  BY <1>2, <1>4, Given, BestAskType DEF Ready, OfBook
<1>6. tick_size \in Nat \ {0}
  BY Given DEF IInv, TypeOK
<1>7. CASE ask.price = Share
  BY <1>3, <1>4, <1>7, Given
<1>8. CASE ask.price < Share
  <2>1. ask.price % tick_size = 0 /\ best_bid' < ask.price
    BY <1>2, <1>5, <1>8
  <2>2. own'.price < ask.price + tick_size
    BY <1>2, <1>3, <1>5, <1>6, <2>1, Given
  <2>3. own'.price \in Int /\ ask.price \in Int
    BY <1>3, <1>5, Given
  <2>4. own'.price <= ask.price
    BY <1>3, <1>6, <2>1, <2>2, <2>3, MultiplesApart
  <2> QED
    BY <1>4, <2>4
<1> QED
  BY <1>5, <1>7, <1>8, Given

\* No bid is placed above the best ask.
THEOREM NeverAbove == Spec => NeverAboveBestAsk
<1>1. IInv /\ [Next]_vars =>
        [(/\ own = NoBid /\ own' # NoBid
          /\ tick_size = grid)
           => own'.price <= best_ask[asks'[asset]].price]_vars
  BY StepNotAbove
<1> QED
  BY <1>1, Invariant, PTL DEF Spec, NeverAboveBestAsk

-----------------------------------------------------------------------------
(* Hedging                                                                 *)

\* What shares cost is a natural number.
LEMMA CostsType ==
  ASSUME NEW book \in Levels, NEW n \in Nat
  PROVE  Costs(book, n) \in SUBSET Nat
<1> SUFFICES ASSUME NEW f \in [Held(book) -> 0..n]
             PROVE  SumFunction([p \in Held(book) |-> p * f[p]]) \in Nat
  BY DEF Costs
<1> DEFINE cost == [p \in Held(book) |-> p * f[p]]
<1>1. \A p \in Held(book) : cost[p] \in Nat
  BY HeldType
<1>2. IsFiniteSet(Held(book))
  BY HeldType
<1>3. SumFunction(cost) = SumFunctionOnSet(cost, Held(book))
  BY DEF SumFunction
<1> HIDE DEF cost
<1>4. SumFunctionOnSet(cost, Held(book)) \in Nat
  BY <1>1, <1>2, SumNat
<1> QED
  BY <1>3, <1>4 DEF cost

\* A level that offers n shares can sell them all.
LEMMA CostAtOneLevel ==
  ASSUME NEW book \in Levels, NEW n \in Nat, NEW q \in Held(book), n <= book[q]
  PROVE  n * q \in Costs(book, n)
<1> DEFINE f == [p \in Held(book) |-> IF p = q THEN n ELSE 0]
           cost == [p \in Held(book) |-> p * f[p]]
<1>1. /\ IsFiniteSet(Held(book)) /\ q \in Nat
      /\ \A p \in Held(book) : p \in Nat /\ book[p] \in Nat
  BY HeldType
<1>2. f \in [Held(book) -> 0..n] /\ \A p \in Held(book) : f[p] <= book[p]
  BY <1>1
<1>3. f[q] = n /\ \A p \in Held(book) \ {q} : f[p] = 0
  OBVIOUS
<1>4. cost[q] = q * n /\ \A p \in Held(book) \ {q} : cost[p] = 0
  BY <1>1
<1>5. SumFunction(f) = SumFunctionOnSet(f, Held(book))
      /\ SumFunction(cost) = SumFunctionOnSet(cost, Held(book))
  BY DEF SumFunction
<1>6. SumFunctionOnSet(f, Held(book)) = n
  <2>1. f[q] \in Int
    OBVIOUS
  <2> HIDE DEF f
  <2> QED
    BY <1>1, <1>3, <2>1, SumSingle
<1>7. SumFunctionOnSet(cost, Held(book)) = q * n
  <2> HIDE DEF cost
  <2>1. cost[q] \in Int
    BY <1>1, <1>4
  <2> QED
    BY <1>1, <1>4, <2>1, SumSingle
<1>8. SumFunction(cost) \in Costs(book, n)
  <2> HIDE DEF f
  <2> QED
    BY <1>2, <1>5, <1>6 DEF Costs
<1>9. q * n = n * q
  BY <1>1
<1> QED
  BY <1>5, <1>7, <1>8, <1>9

\* A product with a natural number keeps the order.
LEMMA TimesMonotone ==
  ASSUME NEW n \in Nat, NEW x \in Int, NEW y \in Int, x <= y
  PROVE  n * x \in Int /\ n * y \in Int /\ n * x <= n * y
<1>1. PICK d \in Nat : y = x + d
  <2>1. y - x \in Nat /\ y = x + (y - x)
    OBVIOUS
  <2> QED
    BY <2>1
<1>2. n * (x + d) = n * x + n * d /\ n * d \in Nat /\ n * x \in Int
  OBVIOUS
<1>3. n * x <= n * (x + d)
  BY <1>2
<1> QED
  BY <1>1, <1>2, <1>3

\* What is left of a finite set without a part of it.
LEMMA WithoutPart ==
  ASSUME NEW S, IsFiniteSet(S), NEW T \in SUBSET S
  PROVE  /\ Cardinality(S \ T) = Cardinality(S) - Cardinality(T)
         /\ Cardinality(S) \in Nat /\ Cardinality(T) \in Nat
<1>1. S \cap T = T /\ IsFiniteSet(T)
  BY FS_Subset
<1>2. Cardinality(S \ T) = Cardinality(S) - Cardinality(S \cap T)
  BY FS_Difference
<1> QED
  BY <1>1, <1>2, FS_CardinalityType

\* Of NO shares of different markets at most one does not pay, whichever market
\* is won; the YES shares may all pay nothing.
LEMMA PayoutAtLeast ==
  ASSUME NEW S \in SUBSET Assets, IsFiniteSet(S), NEW k \in Nat,
         Cardinality(S) = k + 1
  PROVE  /\ Payout(S) \in Int /\ Cardinality(S \ NoShares) \in Nat
         /\ Payout(S) + Cardinality(S \ NoShares) * Share >= k * Share
<1> DEFINE paying(won) == {a \in S : (MarketOf[a] = won) # (a \in NoShares)}
           counts == {Cardinality(paying(won)) : won \in Markets}
           yes == Cardinality(S \ NoShares)
<1>1. yes \in Nat /\ IsFiniteSet(S \ NoShares) /\ IsFiniteSet(S \cap NoShares)
  BY FS_Subset, FS_CardinalityType
<1>2. Cardinality(S \cap NoShares) = k + 1 - yes
  <2>1. Cardinality(S \cap NoShares) = Cardinality(S \ (S \ NoShares))
    <3>1. S \cap NoShares = S \ (S \ NoShares)
      OBVIOUS
    <3> QED
      BY Zenon, <3>1
  <2> DEFINE T == S \ NoShares
  <2>2. T \in SUBSET S
    OBVIOUS
  <2>3. Cardinality(S \ T) = Cardinality(S) - Cardinality(T)
    <3> HIDE DEF T
    <3> QED
      BY <2>2, WithoutPart
  <2>4. Cardinality(S \cap NoShares) = Cardinality(S) - yes
    BY Zenon, <2>1, <2>3
  <2> HIDE DEF yes
  <2> QED
    BY <1>1, <2>4
<1>3. ASSUME NEW won \in Markets
      PROVE  Cardinality(paying(won)) \in Nat /\ Cardinality(paying(won)) >= k - yes
  <2> DEFINE no == S \cap NoShares
             lost == {a \in no : MarketOf[a] = won}
  <2>1. paying(won) \in SUBSET S /\ no \ lost \in SUBSET paying(won)
    OBVIOUS
  <2>2. IsFiniteSet(paying(won)) /\ IsFiniteSet(lost)
    BY <1>1, <2>1, FS_Subset
  <2>3. Cardinality(no \ lost) <= Cardinality(paying(won)) /\ Cardinality(paying(won)) \in Nat
    BY <2>1, <2>2, FS_Subset, FS_CardinalityType
  <2>4. Cardinality(lost) <= 1
    <3>1. CASE lost = {}
      BY <3>1, FS_EmptySet
    <3>2. ASSUME NEW a \in lost PROVE Cardinality(lost) <= 1
      <4>1. lost = {a}
        BY NegRiskAssumption DEF Assets
      <4> QED
        BY <4>1, FS_Singleton
    <3> QED
      BY <3>1, <3>2
  <2>5. Cardinality(no \ lost) = Cardinality(no) - Cardinality(lost)
    <3>1. IsFiniteSet(no) /\ lost \in SUBSET no
      BY <1>1
    <3> HIDE DEF no, lost
    <3> QED
      BY <3>1, WithoutPart
  <2>6. Cardinality(lost) \in Nat
    BY <2>2, FS_CardinalityType
  <2> HIDE DEF lost, paying
  <2> QED
    BY <1>1, <1>2, <2>3, <2>4, <2>5, <2>6
<1>4. counts \in SUBSET Nat /\ counts # {} /\ \A c \in counts : c >= k - yes
  <2>1. MarketOf[asset] \in Markets
    BY NegRiskAssumption DEF Assets
  <2> HIDE DEF paying
  <2> QED
    BY <1>3, <2>1
<1>5. Min(counts) \in Nat /\ Min(counts) >= k - yes
  <2> HIDE DEF counts
  <2> QED
    BY <1>4, LeastOfSet
<1>6. Payout(S) = Share * Min(counts)
  BY DEF Payout
<1> DEFINE least == Min(counts)
<1>7. Share * least + yes * Share >= k * Share /\ Share * least \in Int
  <2>1. least \in Int /\ least >= k - yes
    BY <1>5
  <2> HIDE DEF least, counts, yes
  <2> DEFINE d == least + yes - k
  <2>2. d \in Int /\ d >= 0 /\ least = k - yes + d
    BY <1>1, <2>1
  <2> HIDE DEF d
  <2>3. Share * (k - yes + d) = k * Share - yes * Share + Share * d
        /\ Share * d >= 0 /\ Share * d \in Int
    BY <1>1, <2>2, Given
  <2>4. k * Share \in Int /\ yes * Share \in Int
    BY <1>1, Given
  <2> QED
    BY <2>2, <2>3, <2>4
<1> QED
  BY <1>1, <1>6, <1>7

\* A bid that pays is hedged: each of the other shares can be bought at the one
\* ask that was looked at, and so for no more than that.
LEMMA PaysIsHedged ==
  ASSUME NEW books, Ready(books), Justified(books), NEW price \in Int,
         price <= auto_buy_at_ask_threshold(relevant_books(books)) - ALPHA,
         NEW n \in Nat, n <= auto_buy_volume(books, relevant_books(books))
  PROVE  Hedged(books, price, n)
<1>1. PICK relevant : relevant = relevant_books(books)
  OBVIOUS
<1>2. asset \in Priced(relevant) /\ Cardinality(Priced(relevant)) - 1 >= 1
  BY <1>1, Given DEF Justified
<1>3. PICK others : others = Priced(relevant) \ {asset}
  OBVIOUS
<1>4. /\ Priced(relevant) \in SUBSET Assets /\ IsFiniteSet(Priced(relevant))
      /\ Cardinality(Priced(relevant)) \in Nat
      /\ Cardinality(others) = Cardinality(Priced(relevant)) - 1
      /\ \A a \in Assets : relevant[a].price \in 1..Share
  BY <1>1, <1>2, <1>3, PricedType
<1>5. others \in SUBSET Others /\ others \in SUBSET Assets /\ IsFiniteSet(others)
  BY <1>3, <1>4, Given, FS_Subset
<1>6. others # {}
  <2>1. others = {} => Cardinality(others) = 0
    BY FS_EmptySet
  <2> QED
    BY <1>2, <1>4, <2>1
<1>7. \A a \in others :
        /\ Costs(books[a], n) # {}
        /\ Min(Costs(books[a], n)) \in Nat
        /\ Min(Costs(books[a], n)) <= n * relevant[a].price
  <2> SUFFICES ASSUME NEW a \in others
               PROVE  /\ Costs(books[a], n) # {}
                      /\ Min(Costs(books[a], n)) \in Nat
                      /\ Min(Costs(books[a], n)) <= n * relevant[a].price
    OBVIOUS
  <2>1. a \in Assets /\ relevant[a].price < Share /\ books[a] \in Levels
    BY <1>3, <1>5 DEF Priced, Ready
  <2>2. /\ relevant[a].price \in Held(books[a]) /\ relevant[a].size \in 0..MaxSize
        /\ relevant[a].size <= books[a][relevant[a].price]
    BY <1>1, <2>1, RelevantType DEF Ready
  <2>3. /\ auto_buy_volume(books, relevant) \in 0..MaxSize
        /\ auto_buy_volume(books, relevant) <= relevant[a].size
    BY <1>1, <1>2, <1>3, VolumeType
  <2>4. n <= books[a][relevant[a].price]
    <3>1. books[a][relevant[a].price] \in 1..MaxSize
      BY <2>1, <2>2, HeldType
    <3> QED
      BY <1>1, <2>2, <2>3, <3>1, Given
  <2>5. n * relevant[a].price \in Costs(books[a], n)
    BY <2>1, <2>2, <2>4, CostAtOneLevel
  <2>6. Costs(books[a], n) \in SUBSET Nat
    BY <2>1, CostsType
  <2> QED
    BY <2>5, <2>6, LeastOfSet
<1> DEFINE cheapest == [a \in others |-> Min(Costs(books[a], n))]
           prices == [a \in Assets |-> relevant[a].price]
           S == SumFunctionOnSet(prices, others)
           c == Cardinality(others)
<1>8. \A a \in others : /\ cheapest[a] \in Int /\ prices[a] \in Int
                        /\ cheapest[a] <= n * prices[a]
  BY <1>4, <1>5, <1>7, Given
<1>9. SumFunction(cheapest) = SumFunctionOnSet(cheapest, others)
  BY DEF SumFunction
<1>10. auto_buy_at_ask_threshold(relevant) = c * Share - S
  BY <1>3, <1>4 DEF auto_buy_at_ask_threshold
<1> HIDE DEF cheapest, prices
<1>11. SumFunctionOnSet(cheapest, others) <= n * S
       /\ SumFunctionOnSet(cheapest, others) \in Int /\ S \in Int
  <2>1. SumFunctionOnSet(cheapest, others) <= n * SumFunctionOnSet(prices, others)
    BY <1>5, <1>8, SumScaled
  <2>2. SumFunctionOnSet(cheapest, others) \in Int
    BY <1>5, <1>8, SumRec
  <2>3. SumFunctionOnSet(prices, others) \in Int
    BY <1>5, <1>8, SumRec
  <2> QED
    BY <2>1, <2>2, <2>3
<1>12. c \in Int
  BY <1>4
<1>13. price <= c * Share - S - ALPHA
  BY <1>1, <1>10
<1> HIDE DEF S, c
<1>14. n * price + SumFunction(cheapest) <= n * (c * Share - ALPHA)
  <2> DEFINE m == c * Share - ALPHA
  <2>1. m \in Int /\ price <= m - S
    BY <1>11, <1>12, <1>13, Given
  <2> HIDE DEF m
  <2>2. n * price <= n * (m - S)
    <3> DEFINE d == m - S - price
    <3>1. d \in Int /\ d >= 0
      BY <1>11, <2>1
    <3>2. m - S = price + d
      BY <1>11, <2>1
    <3> HIDE DEF d
    <3>3. n * (price + d) = n * price + n * d /\ n * d >= 0
      BY <3>1
    <3> QED
      BY <3>1, <3>2, <3>3
  <2>3. n * (m - S) = n * m - n * S
    BY <1>11, <2>1
  <2>4. n * price \in Int /\ n * m \in Int /\ n * S \in Int
    BY <1>11, <2>1
  <2>5. n * price + SumFunction(cheapest) <= n * m
    BY <1>9, <1>11, <2>2, <2>3, <2>4
  <2> QED
    BY <2>5 DEF m
<1>15. PICK surely, more, pays : /\ surely = Payout(others \cup {asset})
                                 /\ more = YesCounted(books) * Share
                                 /\ pays = surely + more
  OBVIOUS
<1>16. PICK counted : counted = c * Share
  OBVIOUS
<1>17. surely \in Int /\ more \in Int /\ counted \in Int /\ counted <= pays
  <2>1. others \cup {asset} = Priced(relevant)
    BY <1>2, <1>3
  <2>2. c \in Nat /\ Cardinality(Priced(relevant)) = c + 1
    BY <1>2, <1>4 DEF c
  <2>3. YesCounted(books) = Cardinality(Priced(relevant) \ NoShares)
    BY <1>1 DEF YesCounted
  <2>4. /\ Payout(Priced(relevant)) \in Int /\ YesCounted(books) \in Nat
        /\ Payout(Priced(relevant)) + YesCounted(books) * Share >= c * Share
    BY <1>4, <2>2, <2>3, PayoutAtLeast
  <2>5. c * Share \in Int /\ YesCounted(books) * Share \in Int
    BY <1>12, <2>4, Given
  <2>6. surely \in Int /\ more \in Int /\ counted \in Int
    BY Zenon, <1>15, <1>16, <2>1, <2>4, <2>5
  <2>7. surely + more >= counted
    BY Zenon, <1>15, <1>16, <2>1, <2>4
  <2> QED
    BY <1>15, <2>6, <2>7
<1>18. n * price + SumFunction(cheapest) <= n * (pays - ALPHA)
  <2>1. PICK left : left = n * price + SumFunction(cheapest)
    OBVIOUS
  <2>2. left \in Int
    <3>1. n * price \in Int
      OBVIOUS
    <3> QED
      BY <1>9, <1>11, <2>1, <3>1
  <2>3. left <= n * (counted - ALPHA)
    BY Zenon, <1>14, <1>16, <2>1
  <2>4. /\ n * (counted - ALPHA) \in Int /\ n * (pays - ALPHA) \in Int
        /\ n * (counted - ALPHA) <= n * (pays - ALPHA)
    <3>1. /\ counted - ALPHA \in Int /\ pays - ALPHA \in Int
          /\ counted - ALPHA <= pays - ALPHA
      BY <1>15, <1>17, Given
    <3> QED
      BY Zenon, <3>1, TimesMonotone
  <2>5. left <= n * (pays - ALPHA)
    BY <2>2, <2>3, <2>4
  <2> QED
    BY Zenon, <2>1, <2>5
<1>20. /\ \A a \in others : Costs(books[a], n) # {}
       /\ n * price + SumFunction([a \in others |-> Min(Costs(books[a], n))])
            <= n * (Payout(others \cup {asset}) + YesCounted(books) * Share - ALPHA)
  <2>1. \A a \in others : Costs(books[a], n) # {}
    BY <1>7
  <2>2. n * price + SumFunction(cheapest)
          <= n * (Payout(others \cup {asset}) + YesCounted(books) * Share - ALPHA)
    <3>1. surely + more - ALPHA = pays - ALPHA
      BY <1>15, <1>17, Given
    <3> QED
      BY Zenon, <1>15, <1>18, <3>1
  <2> QED
    BY Zenon, <2>1, <2>2 DEF cheapest
<1>19. others \in (SUBSET Others) \ {{}}
  BY <1>5, <1>6
<1> QED
  BY Zenon, <1>19, <1>20 DEF Hedged

LEMMA StepHedged ==
  IInv /\ [Next]_vars =>
    ((own = NoBid /\ own' # NoBid) => Hedged(asks', own'.price, own'.size))
<1> SUFFICES ASSUME IInv, [Next]_vars, own = NoBid, own' # NoBid
             PROVE  Hedged(asks', own'.price, own'.size)
  OBVIOUS
<1>1. Ready(asks')
  BY PlacedBy, Decides
<1>2. /\ own'.price \in Int /\ own'.size \in Nat
      /\ own'.size = auto_buy_volume(asks', relevant_books(asks'))
      /\ Pays(asks', own'.price, own'.size, tick_size)
  BY PlacedBy, Given DEF Prices
<1>3. /\ own'.size <= auto_buy_volume(asks', relevant_books(asks'))
      /\ Justified(asks')
      /\ own'.price <= auto_buy_at_ask_threshold(relevant_books(asks')) - ALPHA
  BY <1>2 DEF Pays, Within
<1> QED
  BY <1>1, <1>2, <1>3, PaysIsHedged

\* Every bid that is placed is hedged in full, level by level.
THEOREM PlacedHedged == Spec => PlacedIsHedged
<1>1. IInv /\ [Next]_vars =>
        [(own = NoBid /\ own' # NoBid) => Hedged(asks', own'.price, own'.size)]_vars
  BY StepHedged
<1> QED
  BY <1>1, Invariant, PTL DEF Spec, PlacedIsHedged

\* The bid that the last decision kept is hedged but for the tolerance.
THEOREM KeptHedged == Spec => []KeptIsHedged
<1>1. IInv => KeptIsHedged
  <2> SUFFICES ASSUME IInv, kept, NEW n \in 1..own.size, n + SizeTolerance <= own.size
               PROVE  Hedged(asks, own.price, n)
    BY DEF KeptIsHedged
  <2>1. Ready(asks)
    BY DEF IInv, TypeOK, Ready
  <2>2. Pays(asks, own.price, own.size, tick_size) /\ own # NoBid
    BY DEF IInv, KeptPays
  <2>3. own.price \in Int /\ own.size \in Nat
    BY <2>2, Given DEF IInv, TypeOK, Prices
  <2>4. asset \in Priced(relevant_books(asks))
        /\ Cardinality(Priced(relevant_books(asks))) - 1 >= 1
    BY <2>2, Given DEF Pays, Justified
  <2>5. auto_buy_volume(asks, relevant_books(asks)) \in Int
    BY <2>1, <2>4, VolumeType
  <2>6. n <= auto_buy_volume(asks, relevant_books(asks))
    BY <2>2, <2>3, <2>5, Given DEF Pays, Within
  <2>7. own.price <= auto_buy_at_ask_threshold(relevant_books(asks)) - ALPHA
        /\ Justified(asks)
    BY <2>2 DEF Pays, Within
  <2> QED
    BY <2>1, <2>3, <2>6, <2>7, PaysIsHedged
<1> QED
  BY <1>1, Invariant, PTL
=============================================================================
