-------------------------- MODULE Aggregator_proofs --------------------------
(***************************************************************************)
(* Proofs about consolidation: what the sums of Total and of the clearing  *)
(* volume are for any number of venues and prices, and from them that the  *)
(* matching loop clears the summed book as a uniform-price auction would.  *)
(***************************************************************************)
EXTENDS Aggregator, FiniteSetTheorems, WellFoundedInduction, TLAPS

-----------------------------------------------------------------------------
(* Induction, said with sets.                                              *)

LessThan == {ss \in Nat \X Nat : ss[1] < ss[2]}

\* The order of the naturals is well-founded.
LEMMA LessThanIsWellFounded == IsWellFoundedOn(LessThan, Nat)
BY NatLessThanWellFounded DEF OpToRel, LessThan

\* A set of naturals that is not empty has a least element.
LEMMA LeastNumber ==
    ASSUME NEW T \in SUBSET Nat, T # {}
    PROVE  \E x \in T : \A y \in T : x <= y
<1>1. PICK x \in T : \A y \in T : <<y, x>> \notin LessThan
  BY LessThanIsWellFounded, WFMin
<1>2. ASSUME NEW y \in T, y < x PROVE FALSE
  <2>1. <<y, x>> \in Nat \X Nat /\ <<y, x>>[1] < <<y, x>>[2]
    BY <1>2
  <2>2. <<y, x>> \in LessThan
    BY <2>1 DEF LessThan
  <2>3. QED
    BY <2>2, <1>1
<1>3. QED
  BY <1>2

\* A set that holds 0 and the successor of every element is all of Nat.
LEMMA AllNaturals ==
    ASSUME NEW T \in SUBSET Nat, 0 \in T, \A n \in T : n + 1 \in T
    PROVE  T = Nat
<1>1. SUFFICES ASSUME Nat \ T # {} PROVE FALSE
  OBVIOUS
<1>2. PICK x \in Nat \ T : \A y \in Nat \ T : x <= y
  BY <1>1, LeastNumber
<1>3. x # 0 /\ x - 1 \in Nat /\ x - 1 \in T
  BY <1>2
<1>4. QED
  BY <1>2, <1>3

\* A finite set has one element less when one of its elements is removed.
LEMMA OneElementLess ==
    ASSUME NEW U, IsFiniteSet(U), NEW n \in Nat, Cardinality(U) = n + 1, NEW x \in U
    PROVE  Cardinality(U \ {x}) = n
<1>1. Cardinality(U \ {x}) = Cardinality(U) - 1
  BY FS_RemoveElement
<1>2. QED
  BY <1>1

(***************************************************************************)
(* A set of subsets of S is all of them when it holds a subset as soon as  *)
(* it holds what is left of it after the removal of any element.           *)
(***************************************************************************)
LEMMA AllSubsets ==
    ASSUME NEW S, IsFiniteSet(S), NEW T,
           \A U \in SUBSET S : (\A x \in U : U \ {x} \in T) => U \in T
    PROVE  \A U \in SUBSET S : U \in T
<1> DEFINE N == {n \in Nat : \A U \in SUBSET S : Cardinality(U) = n => U \in T}
<1>1. 0 \in N
  BY FS_Subset, FS_EmptySet
<1>2. ASSUME NEW n \in N PROVE n + 1 \in N
  <2>1. SUFFICES ASSUME NEW U \in SUBSET S, Cardinality(U) = n + 1 PROVE U \in T
    OBVIOUS
  <2>2. ASSUME NEW x \in U PROVE U \ {x} \in T
    <3>1. IsFiniteSet(U) /\ U \ {x} \in SUBSET S
      BY FS_Subset
    <3>2. Cardinality(U \ {x}) = n
      BY <2>1, <3>1, OneElementLess
    <3>3. QED
      BY <3>1, <3>2
  <2>3. QED
    BY <2>2
<1>3. N = Nat
  <2> N \in SUBSET Nat
    OBVIOUS
  <2> HIDE DEF N
  <2> QED
    BY <1>1, <1>2, AllNaturals
<1>4. \A U \in SUBSET S : Cardinality(U) \in Nat
  BY FS_Subset, FS_CardinalityType
<1>5. QED
  BY <1>3, <1>4

-----------------------------------------------------------------------------
(* Sums over finite sets.                                                  *)

Pick(S) == CHOOSE x \in S : TRUE

\* A function that holds the sum of g over every subset of S.
AddsUp(it, S, g) ==
    it = [s \in SUBSET S |-> IF s = {} THEN 0 ELSE g[Pick(s)] + it[s \ {Pick(s)}]]

\* The recursion of a sum has a solution: one exists up to every cardinality.
LEMMA SumsExist ==
    ASSUME NEW S, IsFiniteSet(S), NEW g
    PROVE  \E it : AddsUp(it, S, g)
<1> DEFINE Small(n) == {s \in SUBSET S : Cardinality(s) <= n}
           Solves(it, n) ==
               it = [s \in Small(n) |->
                       IF s = {} THEN 0 ELSE g[Pick(s)] + it[s \ {Pick(s)}]]
           N == {n \in Nat : \E it : Solves(it, n)}
<1>1. \A s \in SUBSET S : IsFiniteSet(s) /\ Cardinality(s) \in Nat
  BY FS_Subset, FS_CardinalityType
<1>2. 0 \in N
  <2>1. \A s \in Small(0) : s = {}
    BY <1>1, FS_EmptySet
  <2>2. Solves([s \in Small(0) |-> 0], 0)
    BY <2>1
  <2>3. QED
    BY <2>2
<1>3. ASSUME NEW n \in N PROVE n + 1 \in N
  <2>1. PICK it : Solves(it, n)
    OBVIOUS
  <2> DEFINE next == [s \in Small(n + 1) |->
                        IF s = {} THEN 0 ELSE g[Pick(s)] + it[s \ {Pick(s)}]]
  <2>2. ASSUME NEW s \in Small(n + 1), s # {} PROVE s \ {Pick(s)} \in Small(n)
    <3>1. Pick(s) \in s
      BY <2>2 DEF Pick
    <3>2. Cardinality(s \ {Pick(s)}) = Cardinality(s) - 1
      BY <1>1, <3>1, FS_RemoveElement
    <3>3. QED
      BY <1>1, <3>2
  <2>3. \A s \in Small(n) : s \in Small(n + 1) /\ next[s] = it[s]
    <3>1. \A s \in Small(n) : s \in Small(n + 1)
      BY <1>1
    <3>2. \A s \in Small(n) :
              it[s] = IF s = {} THEN 0 ELSE g[Pick(s)] + it[s \ {Pick(s)}]
      BY <2>1
    <3> HIDE DEF Small
    <3>3. QED
      BY <3>1, <3>2
  <2>4. next = [s \in Small(n + 1) |->
                   IF s = {} THEN 0 ELSE g[Pick(s)] + next[s \ {Pick(s)}]]
    <3>1. ASSUME NEW s \in Small(n + 1), s # {}
          PROVE  next[s \ {Pick(s)}] = it[s \ {Pick(s)}]
      BY <2>2, <2>3, <3>1
    <3> HIDE DEF Small
    <3>2. QED
      BY <3>1
  <2>5. \E f : Solves(f, n + 1)
    <3> HIDE DEF next
    <3> QED
      BY <2>4
  <2>6. QED
    <3> HIDE DEF Solves
    <3> QED
      BY <2>5
<1>4. N = Nat
  <2> N \in SUBSET Nat
    OBVIOUS
  <2> HIDE DEF N
  <2> QED
    BY <1>2, <1>3, AllNaturals
<1>5. Cardinality(S) \in Nat
  BY <1>1
<1>6. PICK it : Solves(it, Cardinality(S))
  BY <1>4, <1>5
<1>7. Small(Cardinality(S)) = SUBSET S
  BY FS_Subset
<1>8. QED
  BY <1>6, <1>7 DEF AddsUp

\* Solutions over two sets agree on their common subsets.
LEMMA SumsAgree ==
    ASSUME NEW S, IsFiniteSet(S), NEW U \in SUBSET S, NEW g,
           NEW a, AddsUp(a, S, g), NEW b, AddsUp(b, U, g)
    PROVE  a[U] = b[U]
<1> DEFINE T == {s \in SUBSET U : a[s] = b[s]}
<1>1. ASSUME NEW s \in SUBSET U, \A x \in s : s \ {x} \in T PROVE s \in T
  <2>1. a[s] = IF s = {} THEN 0 ELSE g[Pick(s)] + a[s \ {Pick(s)}]
    <3> s \in SUBSET S
      OBVIOUS
    <3> QED
      BY Zenon DEF AddsUp
  <2>2. b[s] = IF s = {} THEN 0 ELSE g[Pick(s)] + b[s \ {Pick(s)}]
    BY Zenon DEF AddsUp
  <2>3. s # {} => Pick(s) \in s
    BY DEF Pick
  <2>4. QED
    BY <1>1, <2>1, <2>2, <2>3
<1>2. IsFiniteSet(U)
  BY FS_Subset
<1>3. \A s \in SUBSET U : s \in T
  <2> HIDE DEF T
  <2> QED
    BY <1>1, <1>2, AllSubsets
<1>4. QED
  BY <1>3

\* A sum is that of a picked element and the rest.
LEMMA SumUnfolds ==
    ASSUME NEW S, IsFiniteSet(S), NEW g
    PROVE  /\ S = {} => Uncross!SumOver(g, S) = 0
           /\ S # {} => Uncross!SumOver(g, S) =
                           g[Pick(S)] + Uncross!SumOver(g, S \ {Pick(S)})
<1> DEFINE sum(U) == CHOOSE it : AddsUp(it, U, g)
<1>1. \A U : Uncross!SumOver(g, U) = sum(U)[U]
  BY DEF AddsUp, Pick, Uncross!SumOver, Uncross!MapThenSumSet, Uncross!MapThenFoldSet
<1>2. ASSUME NEW U \in SUBSET S PROVE AddsUp(sum(U), U, g)
  BY FS_Subset, SumsExist
<1>3. sum(S)[S] = IF S = {} THEN 0 ELSE g[Pick(S)] + sum(S)[S \ {Pick(S)}]
  <2> DEFINE it == sum(S)
  <2>1. AddsUp(it, S, g)
    BY <1>2
  <2> HIDE DEF it
  <2>2. it[S] = IF S = {} THEN 0 ELSE g[Pick(S)] + it[S \ {Pick(S)}]
    BY <2>1, Zenon DEF AddsUp
  <2>3. QED
    BY <2>2 DEF it
<1>4. sum(S)[S \ {Pick(S)}] = sum(S \ {Pick(S)})[S \ {Pick(S)}]
  <2>1. S \ {Pick(S)} \in SUBSET S
    OBVIOUS
  <2>2. AddsUp(sum(S), S, g) /\ AddsUp(sum(S \ {Pick(S)}), S \ {Pick(S)}, g)
    BY <1>2, <2>1
  <2> HIDE DEF sum
  <2> QED
    BY <2>1, <2>2, SumsAgree
<1>5. QED
  BY <1>1, <1>3, <1>4, Zenon

\* Naturals add up to a natural.
LEMMA SumIsNatural ==
    ASSUME NEW S, IsFiniteSet(S), NEW g, \A x \in S : g[x] \in Nat
    PROVE  Uncross!SumOver(g, S) \in Nat
<1> DEFINE T == {U \in SUBSET S : Uncross!SumOver(g, U) \in Nat}
<1>1. ASSUME NEW U \in SUBSET S, \A x \in U : U \ {x} \in T PROVE U \in T
  <2>1. IsFiniteSet(U)
    BY FS_Subset
  <2>2. U # {} => Pick(U) \in U
    BY DEF Pick
  <2> DEFINE rest == Uncross!SumOver(g, U \ {Pick(U)})
  <2>3. CASE U = {}
    BY <2>1, <2>3, SumUnfolds
  <2>4. CASE U # {}
    <3>1. Uncross!SumOver(g, U) = g[Pick(U)] + rest
      BY <2>1, <2>4, SumUnfolds
    <3>2. g[Pick(U)] \in Nat /\ rest \in Nat
      BY <1>1, <2>2, <2>4
    <3> HIDE DEF rest
    <3>3. QED
      BY <3>1, <3>2
  <2>5. QED
    BY <2>3, <2>4
<1>2. \A U \in SUBSET S : U \in T
  <2> HIDE DEF T
  <2> QED
    BY <1>1, AllSubsets
<1>3. QED
  BY <1>2

\* A sum is determined by what is summed.
LEMMA SumIsDetermined ==
    ASSUME NEW S, IsFiniteSet(S), NEW g, NEW h, \A x \in S : g[x] = h[x]
    PROVE  Uncross!SumOver(g, S) = Uncross!SumOver(h, S)
<1> DEFINE T == {U \in SUBSET S : Uncross!SumOver(g, U) = Uncross!SumOver(h, U)}
<1>1. ASSUME NEW U \in SUBSET S, \A x \in U : U \ {x} \in T PROVE U \in T
  <2>1. IsFiniteSet(U)
    BY FS_Subset
  <2>2. U # {} => Pick(U) \in U
    BY DEF Pick
  <2>3. QED
    BY <1>1, <2>1, <2>2, SumUnfolds
<1>2. \A U \in SUBSET S : U \in T
  <2> HIDE DEF T
  <2> QED
    BY <1>1, AllSubsets
<1>3. QED
  BY <1>2

\* Taking m off one summand takes m off the sum.
LEMMA SumIsLowered ==
    ASSUME NEW S, IsFiniteSet(S), NEW g, NEW h, NEW z \in S, NEW m \in Int,
           \A x \in S : g[x] \in Nat /\ h[x] \in Nat,
           \A x \in S \ {z} : h[x] = g[x],
           h[z] = g[z] - m
    PROVE  Uncross!SumOver(h, S) = Uncross!SumOver(g, S) - m
<1> DEFINE T == {U \in SUBSET S : z \in U =>
                    Uncross!SumOver(h, U) = Uncross!SumOver(g, U) - m}
<1>1. ASSUME NEW U \in SUBSET S, \A x \in U : U \ {x} \in T PROVE U \in T
  <2>1. IsFiniteSet(U) /\ IsFiniteSet(U \ {Pick(U)})
    BY FS_Subset
  <2>2. SUFFICES ASSUME z \in U
                 PROVE  Uncross!SumOver(h, U) = Uncross!SumOver(g, U) - m
    OBVIOUS
  <2> DEFINE x == Pick(U)
             rest == U \ {Pick(U)}
             gs == Uncross!SumOver(g, rest)
             hs == Uncross!SumOver(h, rest)
  <2>3. x \in U
    BY <2>2 DEF Pick
  <2>4. /\ Uncross!SumOver(g, U) = g[x] + gs
        /\ Uncross!SumOver(h, U) = h[x] + hs
    BY <2>1, <2>2, SumUnfolds
  <2>5. gs \in Nat /\ hs \in Nat
    BY <2>1, SumIsNatural
  <2>6. g[x] \in Nat /\ h[x] \in Nat
    BY <2>3
  <2>7. CASE x = z
    <3>1. gs = hs
      BY <2>1, <2>7, SumIsDetermined
    <3> HIDE DEF x, gs, hs
    <3>2. QED
      BY <2>4, <2>5, <2>6, <2>7, <3>1
  <2>8. CASE x # z
    <3>1. rest \in T
      BY <1>1, <2>3
    <3>2. hs = gs - m
      BY <2>2, <2>8, <3>1
    <3>3. h[x] = g[x]
      BY <2>3, <2>8
    <3> HIDE DEF x, gs, hs
    <3>4. QED
      BY <2>4, <2>5, <2>6, <3>2, <3>3
  <2>9. QED
    BY <2>7, <2>8
<1>2. \A U \in SUBSET S : U \in T
  <2> HIDE DEF T
  <2> QED
    BY <1>1, AllSubsets
<1>3. QED
  BY <1>2

\* A sum of naturals is no less than a summand.
LEMMA SumCoversSummand ==
    ASSUME NEW S, IsFiniteSet(S), NEW g, \A x \in S : g[x] \in Nat, NEW z \in S
    PROVE  g[z] <= Uncross!SumOver(g, S)
<1> DEFINE h == [x \in S |-> IF x = z THEN 0 ELSE g[x]]
<1>1. /\ \A x \in S : h[x] \in Nat
      /\ \A x \in S \ {z} : h[x] = g[x]
      /\ h[z] = g[z] - g[z]
  OBVIOUS
<1> HIDE DEF h
<1>2. /\ Uncross!SumOver(h, S) \in Nat
      /\ Uncross!SumOver(g, S) \in Nat
  BY <1>1, SumIsNatural
<1>3. g[z] \in Nat /\ g[z] \in Int
  OBVIOUS
<1>4. Uncross!SumOver(h, S) = Uncross!SumOver(g, S) - g[z]
  <2>1. \A x \in S : g[x] \in Nat /\ h[x] \in Nat
    BY <1>1
  <2>2. QED
    BY ONLY <1>1, <1>3, <2>1, IsFiniteSet(S), z \in S, SumIsLowered
<1>5. QED
  BY <1>2, <1>3, <1>4

\* Zeros add up to zero.
LEMMA SumOfZeros ==
    ASSUME NEW S, IsFiniteSet(S), NEW g, \A x \in S : g[x] = 0
    PROVE  Uncross!SumOver(g, S) = 0
<1> DEFINE T == {U \in SUBSET S : Uncross!SumOver(g, U) = 0}
<1>1. ASSUME NEW U \in SUBSET S, \A x \in U : U \ {x} \in T PROVE U \in T
  <2>1. IsFiniteSet(U)
    BY FS_Subset
  <2>2. U # {} => Pick(U) \in U
    BY DEF Pick
  <2> DEFINE rest == Uncross!SumOver(g, U \ {Pick(U)})
  <2>3. CASE U = {}
    BY <2>1, <2>3, SumUnfolds
  <2>4. CASE U # {}
    <3>1. Uncross!SumOver(g, U) = g[Pick(U)] + rest
      BY <2>1, <2>4, SumUnfolds
    <3>2. g[Pick(U)] = 0 /\ rest = 0
      BY <1>1, <2>2, <2>4
    <3> HIDE DEF rest
    <3>3. QED
      BY <3>1, <3>2
  <2>5. QED
    BY <2>3, <2>4
<1>2. \A U \in SUBSET S : U \in T
  <2> HIDE DEF T
  <2> QED
    BY <1>1, AllSubsets
<1>3. QED
  BY <1>2

-----------------------------------------------------------------------------
(* The best of finitely many prices.                                       *)

\* The least of finitely many integers.
LEMMA MinIsLeast ==
    ASSUME NEW T \in SUBSET Int, IsFiniteSet(T), T # {}
    PROVE  Uncross!Min(T) \in T /\ \A x \in T : Uncross!Min(T) <= x
<1> DEFINE Lowest == {U \in SUBSET T : U = {} \/ \E x \in U : \A y \in U : x <= y}
<1>1. ASSUME NEW U \in SUBSET T, \A x \in U : U \ {x} \in Lowest PROVE U \in Lowest
  <2>1. SUFFICES ASSUME NEW z \in U PROVE \E x \in U : \A y \in U : x <= y
    OBVIOUS
  <2>2. CASE U \ {z} = {}
    BY <2>2
  <2>3. CASE U \ {z} # {}
    <3>1. PICK x \in U \ {z} : \A y \in U \ {z} : x <= y
      BY <1>1, <2>3
    <3>2. x \in Int /\ z \in Int
      OBVIOUS
    <3>3. x <= z \/ (z <= x /\ \A y \in U \ {z} : z <= y)
      BY <3>1, <3>2
    <3>4. QED
      BY <3>1, <3>2, <3>3
  <2>4. QED
    BY <2>2, <2>3
<1>2. T \in Lowest
  <2> T \in SUBSET T
    OBVIOUS
  <2> HIDE DEF Lowest
  <2> QED
    BY <1>1, AllSubsets
<1>3. QED
  BY <1>2 DEF Uncross!Min

\* The greatest of finitely many integers.
LEMMA MaxIsGreatest ==
    ASSUME NEW T \in SUBSET Int, IsFiniteSet(T), T # {}
    PROVE  Uncross!Max(T) \in T /\ \A x \in T : Uncross!Max(T) >= x
<1> DEFINE Topped == {U \in SUBSET T : U = {} \/ \E x \in U : \A y \in U : x >= y}
<1>1. ASSUME NEW U \in SUBSET T, \A x \in U : U \ {x} \in Topped PROVE U \in Topped
  <2>1. SUFFICES ASSUME NEW z \in U PROVE \E x \in U : \A y \in U : x >= y
    OBVIOUS
  <2>2. CASE U \ {z} = {}
    BY <2>2
  <2>3. CASE U \ {z} # {}
    <3>1. PICK x \in U \ {z} : \A y \in U \ {z} : x >= y
      BY <1>1, <2>3
    <3>2. x \in Int /\ z \in Int
      OBVIOUS
    <3>3. x >= z \/ (z >= x /\ \A y \in U \ {z} : z >= y)
      BY <3>1, <3>2
    <3>4. QED
      BY <3>1, <3>2, <3>3
  <2>4. QED
    BY <2>2, <2>3
<1>2. T \in Topped
  <2> T \in SUBSET T
    OBVIOUS
  <2> HIDE DEF Topped
  <2> QED
    BY <1>1, AllSubsets
<1>3. QED
  BY <1>2 DEF Uncross!Max

\* The lesser and the greater of two naturals.
LEMMA OfTwo ==
    ASSUME NEW a \in Nat, NEW b \in Nat
    PROVE  /\ Uncross!Min({a, b}) = IF a <= b THEN a ELSE b
           /\ Uncross!Max({a, b}) = IF a <= b THEN b ELSE a
<1>1. Uncross!Min({a, b}) \in {a, b} /\ \A x \in {a, b} : Uncross!Min({a, b}) <= x
  BY DEF Uncross!Min
<1>2. Uncross!Max({a, b}) \in {a, b} /\ \A x \in {a, b} : Uncross!Max({a, b}) >= x
  BY DEF Uncross!Max
<1>3. QED
  BY <1>1, <1>2

-----------------------------------------------------------------------------
(* virtualUncross.                                                         *)

\* The levels of the two modules are the same.
LEMMA SameLevels ==
    /\ Uncross!Levels = Levels
    /\ \A lev \in Levels, p \in Price :
          /\ lev["bid"] \in [Price -> Nat] /\ lev["bid"][p] \in Nat
          /\ lev["ask"] \in [Price -> Nat] /\ lev["ask"][p] \in Nat
BY DEF Uncross!Levels, Levels, Side

\* The prices with a level are finitely many integers.
LEMMA PricesAreFinite ==
    ASSUME NEW lev, NEW side
    PROVE  /\ Uncross!Prices(lev, side) \in SUBSET Int
           /\ IsFiniteSet(Uncross!Prices(lev, side))
<1>1. Uncross!Prices(lev, side) \in SUBSET Price
  BY DEF Uncross!Prices
<1>2. QED
  BY <1>1, BookAssumption, AggregatorAssumption, FS_Subset

\* The best bid is the highest price with bids.
LEMMA BestBidIsHighest ==
    ASSUME NEW lev \in Levels, Uncross!Prices(lev, "bid") # {}
    PROVE  /\ Uncross!BestBid(lev) \in Price /\ Uncross!BestBid(lev) \in Int
           /\ lev["bid"][Uncross!BestBid(lev)] > 0
           /\ \A p \in Price : lev["bid"][p] > 0 => p <= Uncross!BestBid(lev)
<1>1. /\ Uncross!BestBid(lev) \in Uncross!Prices(lev, "bid")
      /\ \A p \in Uncross!Prices(lev, "bid") : Uncross!BestBid(lev) >= p
  BY PricesAreFinite, MaxIsGreatest DEF Uncross!BestBid
<1>2. Uncross!BestBid(lev) \in Price /\ lev["bid"][Uncross!BestBid(lev)] > 0
  BY <1>1 DEF Uncross!Prices
<1>3. Price \subseteq Int
  BY BookAssumption
<1>4. ASSUME NEW p \in Price, lev["bid"][p] > 0 PROVE p <= Uncross!BestBid(lev)
  <2>1. Uncross!BestBid(lev) >= p
    BY <1>1, <1>4 DEF Uncross!Prices
  <2>2. QED
    BY <1>2, <1>3, <2>1
<1>5. QED
  BY <1>2, <1>3, <1>4

\* The best ask is the lowest price with asks.
LEMMA BestAskIsLowest ==
    ASSUME NEW lev \in Levels, Uncross!Prices(lev, "ask") # {}
    PROVE  /\ Uncross!BestAsk(lev) \in Price /\ Uncross!BestAsk(lev) \in Int
           /\ lev["ask"][Uncross!BestAsk(lev)] > 0
           /\ \A p \in Price : lev["ask"][p] > 0 => Uncross!BestAsk(lev) <= p
<1>1. /\ Uncross!BestAsk(lev) \in Uncross!Prices(lev, "ask")
      /\ \A p \in Uncross!Prices(lev, "ask") : Uncross!BestAsk(lev) <= p
  BY PricesAreFinite, MinIsLeast DEF Uncross!BestAsk
<1>2. Uncross!BestAsk(lev) \in Price /\ lev["ask"][Uncross!BestAsk(lev)] > 0
  BY <1>1 DEF Uncross!Prices
<1>3. Price \subseteq Int
  BY BookAssumption
<1>4. ASSUME NEW p \in Price, lev["ask"][p] > 0 PROVE Uncross!BestAsk(lev) <= p
  BY <1>1, <1>4 DEF Uncross!Prices
<1>5. QED
  BY <1>2, <1>3, <1>4

\* The volume one iteration matches.
Matched(lev) ==
    Uncross!Min({lev["bid"][Uncross!BestBid(lev)],
                 lev["ask"][Uncross!BestAsk(lev)]})

\* It is positive and no more than either best level has.
LEMMA MatchedVolume ==
    ASSUME NEW lev \in Levels, Uncross!Meets(lev)
    PROVE  /\ Matched(lev) \in Nat /\ Matched(lev) > 0
           /\ Matched(lev) <= lev["bid"][Uncross!BestBid(lev)]
           /\ Matched(lev) <= lev["ask"][Uncross!BestAsk(lev)]
<1> DEFINE bid == lev["bid"][Uncross!BestBid(lev)]
           ask == lev["ask"][Uncross!BestAsk(lev)]
<1>1. bid \in Nat /\ bid > 0 /\ ask \in Nat /\ ask > 0
  BY BestBidIsHighest, BestAskIsLowest, SameLevels DEF Uncross!Meets
<1>2. Matched(lev) = Uncross!Min({bid, ask})
  BY DEF Matched
<1> HIDE DEF bid, ask
<1>3. Uncross!Min({bid, ask}) = IF bid <= ask THEN bid ELSE ask
  BY <1>1, OfTwo
<1>4. /\ Matched(lev) \in Nat /\ Matched(lev) > 0
      /\ Matched(lev) <= bid /\ Matched(lev) <= ask
  BY <1>1, <1>2, <1>3
<1>5. QED
  BY <1>4 DEF bid, ask

\* What an iteration leaves at each place.
LEMMA MatchEffect ==
    ASSUME NEW lev \in Levels, Uncross!Meets(lev)
    PROVE  /\ Uncross!Match(lev) \in Levels
           /\ \A p \in Price :
                 /\ Uncross!Match(lev)["bid"][p] =
                       IF p = Uncross!BestBid(lev)
                       THEN lev["bid"][p] - Matched(lev) ELSE lev["bid"][p]
                 /\ Uncross!Match(lev)["ask"][p] =
                       IF p = Uncross!BestAsk(lev)
                       THEN lev["ask"][p] - Matched(lev) ELSE lev["ask"][p]
<1> DEFINE b == Uncross!BestBid(lev)
           a == Uncross!BestAsk(lev)
           m == Matched(lev)
<1>1. b \in Price /\ a \in Price
  BY BestBidIsHighest, BestAskIsLowest DEF Uncross!Meets
<1>2. m \in Nat /\ m <= lev["bid"][b] /\ m <= lev["ask"][a]
  BY MatchedVolume
<1>3. Uncross!Match(lev) =
         [lev EXCEPT !["bid"][b] = @ - m, !["ask"][a] = @ - m]
  BY DEF Uncross!Match, Uncross!Lower, Matched
<1> HIDE DEF b, a, m
<1>4. /\ lev["bid"][b] - m \in Nat
      /\ lev["ask"][a] - m \in Nat
  BY <1>1, <1>2, SameLevels
<1>5. Uncross!Match(lev) \in Levels
  BY <1>1, <1>3, <1>4 DEF Levels, Side
<1>6. ASSUME NEW p \in Price
      PROVE  /\ Uncross!Match(lev)["bid"][p] =
                  IF p = b THEN lev["bid"][p] - m ELSE lev["bid"][p]
             /\ Uncross!Match(lev)["ask"][p] =
                  IF p = a THEN lev["ask"][p] - m ELSE lev["ask"][p]
  BY <1>1, <1>3 DEF Levels, Side
<1>7. QED
  BY <1>5, <1>6 DEF b, a, m

\* The volume on offer at a price or better is a natural.
LEMMA DepthIsNatural ==
    ASSUME NEW lev \in Levels, NEW p \in Price
    PROVE  /\ Uncross!Bids(lev, p) \in Nat /\ Uncross!Asks(lev, p) \in Nat
           /\ lev["bid"][p] <= Uncross!Bids(lev, p)
           /\ lev["ask"][p] <= Uncross!Asks(lev, p)
<1> DEFINE above == {q \in Price : q >= p}
           below == {q \in Price : q <= p}
<1>1. IsFiniteSet(above) /\ IsFiniteSet(below)
  BY AggregatorAssumption, FS_Subset
<1>2. p \in above /\ p \in below
  BY BookAssumption
<1>3. /\ \A q \in above : lev["bid"][q] \in Nat
      /\ \A q \in below : lev["ask"][q] \in Nat
  BY SameLevels
<1>4. /\ Uncross!Bids(lev, p) = Uncross!SumOver(lev["bid"], above)
      /\ Uncross!Asks(lev, p) = Uncross!SumOver(lev["ask"], below)
  BY DEF Uncross!Bids, Uncross!Asks
<1> HIDE DEF above, below
<1>5. QED
  BY <1>1, <1>2, <1>3, <1>4, SumIsNatural, SumCoversSummand

\* An iteration takes its volume off the bids' depth up to the best bid; there is none above.
LEMMA MatchLowersBids ==
    ASSUME NEW lev \in Levels, Uncross!Meets(lev), NEW p \in Price
    PROVE  IF p <= Uncross!BestBid(lev)
           THEN Uncross!Bids(Uncross!Match(lev), p)
                    = Uncross!Bids(lev, p) - Matched(lev)
           ELSE /\ Uncross!Bids(lev, p) = 0
                /\ Uncross!Bids(Uncross!Match(lev), p) = 0
<1> DEFINE b == Uncross!BestBid(lev)
           m == Matched(lev)
           after == Uncross!Match(lev)
           above == {q \in Price : q >= p}
<1>1. IsFiniteSet(above)
  BY AggregatorAssumption, FS_Subset
<1>2. /\ b \in Price /\ b \in Int
      /\ \A q \in Price : lev["bid"][q] > 0 => q <= b
  BY BestBidIsHighest DEF Uncross!Meets
<1>3. m \in Int
  BY MatchedVolume
<1>4. /\ after \in Levels
      /\ \A q \in Price : after["bid"][q] =
             IF q = b THEN lev["bid"][q] - m ELSE lev["bid"][q]
  BY MatchEffect
<1>5. \A q \in above : lev["bid"][q] \in Nat /\ after["bid"][q] \in Nat
  BY <1>4, SameLevels
<1>6. /\ Uncross!Bids(lev, p) = Uncross!SumOver(lev["bid"], above)
      /\ Uncross!Bids(after, p) = Uncross!SumOver(after["bid"], above)
  BY DEF Uncross!Bids
<1>7. p \in Int /\ \A q \in Price : q \in Int
  BY BookAssumption
<1>8. ASSUME p <= b
      PROVE  Uncross!SumOver(after["bid"], above)
                = Uncross!SumOver(lev["bid"], above) - m
  <2>1. b \in above
    BY <1>2, <1>7, <1>8
  <2>2. /\ \A q \in above \ {b} : after["bid"][q] = lev["bid"][q]
        /\ after["bid"][b] = lev["bid"][b] - m
    BY <1>2, <1>4
  <2> HIDE DEF above, after, m, b
  <2>3. QED
    BY ONLY <1>1, <1>3, <1>5, <2>1, <2>2, SumIsLowered
<1>9. ASSUME ~(p <= b)
      PROVE  /\ Uncross!SumOver(lev["bid"], above) = 0
             /\ Uncross!SumOver(after["bid"], above) = 0
  <2>1. ASSUME NEW q \in above PROVE lev["bid"][q] = 0 /\ after["bid"][q] = 0
    <3>1. ~(q <= b)
      BY <1>2, <1>7, <1>9
    <3>2. lev["bid"][q] = 0
      BY <1>2, <1>5, <3>1
    <3>3. QED
      BY <1>4, <1>7, <1>2, <3>1, <3>2
  <2> HIDE DEF above, after, m, b
  <2>2. QED
    BY <1>1, <2>1, SumOfZeros
<1>10. QED
  BY <1>6, <1>8, <1>9

\* The same of the asks, from the best ask upwards.
LEMMA MatchLowersAsks ==
    ASSUME NEW lev \in Levels, Uncross!Meets(lev), NEW p \in Price
    PROVE  IF Uncross!BestAsk(lev) <= p
           THEN Uncross!Asks(Uncross!Match(lev), p)
                    = Uncross!Asks(lev, p) - Matched(lev)
           ELSE /\ Uncross!Asks(lev, p) = 0
                /\ Uncross!Asks(Uncross!Match(lev), p) = 0
<1> DEFINE a == Uncross!BestAsk(lev)
           m == Matched(lev)
           after == Uncross!Match(lev)
           below == {q \in Price : q <= p}
<1>1. IsFiniteSet(below)
  BY AggregatorAssumption, FS_Subset
<1>2. /\ a \in Price /\ a \in Int
      /\ \A q \in Price : lev["ask"][q] > 0 => a <= q
  BY BestAskIsLowest DEF Uncross!Meets
<1>3. m \in Int
  BY MatchedVolume
<1>4. /\ after \in Levels
      /\ \A q \in Price : after["ask"][q] =
             IF q = a THEN lev["ask"][q] - m ELSE lev["ask"][q]
  BY MatchEffect
<1>5. \A q \in below : lev["ask"][q] \in Nat /\ after["ask"][q] \in Nat
  BY <1>4, SameLevels
<1>6. /\ Uncross!Asks(lev, p) = Uncross!SumOver(lev["ask"], below)
      /\ Uncross!Asks(after, p) = Uncross!SumOver(after["ask"], below)
  BY DEF Uncross!Asks
<1>7. p \in Int /\ \A q \in Price : q \in Int
  BY BookAssumption
<1>8. ASSUME a <= p
      PROVE  Uncross!SumOver(after["ask"], below)
                = Uncross!SumOver(lev["ask"], below) - m
  <2>1. a \in below
    BY <1>2, <1>7, <1>8
  <2>2. /\ \A q \in below \ {a} : after["ask"][q] = lev["ask"][q]
        /\ after["ask"][a] = lev["ask"][a] - m
    BY <1>2, <1>4
  <2> HIDE DEF below, after, m, a
  <2>3. QED
    BY ONLY <1>1, <1>3, <1>5, <2>1, <2>2, SumIsLowered
<1>9. ASSUME ~(a <= p)
      PROVE  /\ Uncross!SumOver(lev["ask"], below) = 0
             /\ Uncross!SumOver(after["ask"], below) = 0
  <2>1. ASSUME NEW q \in below PROVE lev["ask"][q] = 0 /\ after["ask"][q] = 0
    <3>1. ~(a <= q)
      BY <1>2, <1>7, <1>9
    <3>2. lev["ask"][q] = 0
      BY <1>2, <1>5, <3>1
    <3>3. QED
      BY <1>4, <1>7, <1>2, <3>1, <3>2
  <2> HIDE DEF below, after, m, a
  <2>2. QED
    BY <1>1, <2>1, SumOfZeros
<1>10. QED
  BY <1>6, <1>8, <1>9

\* The volume one price would clear.
VolumeAt(lev, p) == Uncross!Min({Uncross!Bids(lev, p), Uncross!Asks(lev, p)})

\* It is the smaller of the two depths.
LEMMA VolumeIsSmaller ==
    ASSUME NEW lev \in Levels, NEW p \in Price
    PROVE  VolumeAt(lev, p) = IF Uncross!Bids(lev, p) <= Uncross!Asks(lev, p)
                                THEN Uncross!Bids(lev, p) ELSE Uncross!Asks(lev, p)
BY DepthIsNatural, OfTwo DEF VolumeAt

\* The clearing volume is the largest of these, and 0 without any.
LEMMA VolumeIsLargest ==
    ASSUME NEW lev \in Levels
    PROVE  /\ Uncross!ClearingVolume(lev) \in Nat
           /\ \A p \in Price : VolumeAt(lev, p) <= Uncross!ClearingVolume(lev)
           /\ \/ Uncross!ClearingVolume(lev) = 0
              \/ \E p \in Price : VolumeAt(lev, p) = Uncross!ClearingVolume(lev)
<1> DEFINE at == {VolumeAt(lev, p) : p \in Price}
           f == [p \in Price |-> VolumeAt(lev, p)]
<1>1. IsFiniteSet(at)
  <2>1. f \in Surjection(Price, at)
    BY DEF Surjection
  <2>2. QED
    BY <2>1, AggregatorAssumption, FS_Surjection
<1>2. at \in SUBSET Nat
  BY VolumeIsSmaller, DepthIsNatural
<1>3. IsFiniteSet({0} \cup at)
  <2>1. {0} \cup at = at \cup {0}
    OBVIOUS
  <2>2. QED
    BY <1>1, <2>1, FS_AddElement
<1>4. Uncross!ClearingVolume(lev) = Uncross!Max({0} \cup at)
  BY DEF Uncross!ClearingVolume, VolumeAt
<1>5. \A p \in Price : VolumeAt(lev, p) \in at
  OBVIOUS
<1>6. \A v \in at : \E p \in Price : VolumeAt(lev, p) = v
  OBVIOUS
<1> HIDE DEF at
<1>7. /\ {0} \cup at \in SUBSET Nat /\ {0} \cup at \in SUBSET Int
      /\ {0} \cup at # {}
      /\ \A v \in at : v \in {0} \cup at
  BY <1>2
<1>8. /\ Uncross!Max({0} \cup at) \in {0} \cup at
      /\ \A v \in {0} \cup at : Uncross!Max({0} \cup at) >= v
  BY <1>3, <1>7, MaxIsGreatest
<1>9. \A p \in Price : VolumeAt(lev, p) <= Uncross!Max({0} \cup at)
  BY <1>2, <1>5, <1>7, <1>8
<1>10. QED
  BY <1>4, <1>6, <1>7, <1>8, <1>9

\* What an iteration does to the volume at one price.
LEMMA MatchLowersVolumeAt ==
    ASSUME NEW lev \in Levels, Uncross!Meets(lev), NEW p \in Price
    PROVE  /\ VolumeAt(lev, p) \in Nat
           /\ IF Uncross!BestAsk(lev) <= p /\ p <= Uncross!BestBid(lev)
              THEN VolumeAt(Uncross!Match(lev), p) = VolumeAt(lev, p) - Matched(lev)
              ELSE VolumeAt(lev, p) = 0 /\ VolumeAt(Uncross!Match(lev), p) = 0
<1> DEFINE after == Uncross!Match(lev)
           m == Matched(lev)
           b == Uncross!BestBid(lev)
           a == Uncross!BestAsk(lev)
           bids == Uncross!Bids(lev, p)
           asks == Uncross!Asks(lev, p)
           bidsAfter == Uncross!Bids(after, p)
           asksAfter == Uncross!Asks(after, p)
<1>1. after \in Levels
  BY MatchEffect
<1>2. bids \in Nat /\ asks \in Nat /\ bidsAfter \in Nat /\ asksAfter \in Nat
  BY <1>1, DepthIsNatural
<1>3. /\ VolumeAt(lev, p) = IF bids <= asks THEN bids ELSE asks
      /\ VolumeAt(after, p) = IF bidsAfter <= asksAfter THEN bidsAfter ELSE asksAfter
  BY <1>1, VolumeIsSmaller
<1>4. IF p <= b THEN bidsAfter = bids - m ELSE bids = 0 /\ bidsAfter = 0
  BY MatchLowersBids
<1>5. IF a <= p THEN asksAfter = asks - m ELSE asks = 0 /\ asksAfter = 0
  BY MatchLowersAsks
<1>6. m \in Nat
  BY MatchedVolume
<1> HIDE DEF after, m, b, a, bids, asks, bidsAfter, asksAfter
<1>7. VolumeAt(lev, p) \in Nat
  BY <1>2, <1>3
<1>8. ASSUME a <= p /\ p <= b PROVE VolumeAt(after, p) = VolumeAt(lev, p) - m
  BY <1>2, <1>3, <1>4, <1>5, <1>6, <1>8
<1>9. ASSUME ~(a <= p /\ p <= b) PROVE VolumeAt(lev, p) = 0 /\ VolumeAt(after, p) = 0
  BY <1>2, <1>3, <1>4, <1>5, <1>6, <1>9
<1>10. QED
  BY <1>7, <1>8, <1>9 DEF after, m, a, b

\* An iteration takes exactly its volume off the clearing volume.
LEMMA MatchLowersVolume ==
    ASSUME NEW lev \in Levels, Uncross!Meets(lev)
    PROVE  /\ Matched(lev) <= Uncross!ClearingVolume(lev)
           /\ Uncross!ClearingVolume(Uncross!Match(lev))
                = Uncross!ClearingVolume(lev) - Matched(lev)
<1> DEFINE after == Uncross!Match(lev)
           m == Matched(lev)
           b == Uncross!BestBid(lev)
           a == Uncross!BestAsk(lev)
           v == Uncross!ClearingVolume(lev)
           w == Uncross!ClearingVolume(after)
           Between(p) == a <= p /\ p <= b
<1>1. after \in Levels
  BY MatchEffect
<1>2. m \in Nat /\ m > 0
  BY MatchedVolume
<1>3. /\ v \in Nat /\ \A p \in Price : VolumeAt(lev, p) <= v
      /\ v = 0 \/ \E p \in Price : VolumeAt(lev, p) = v
  BY VolumeIsLargest
<1>4. /\ w \in Nat /\ \A p \in Price : VolumeAt(after, p) <= w
      /\ w = 0 \/ \E p \in Price : VolumeAt(after, p) = w
  BY <1>1, VolumeIsLargest
<1>5. \A p \in Price :
         /\ VolumeAt(lev, p) \in Nat
         /\ IF Between(p) THEN VolumeAt(after, p) = VolumeAt(lev, p) - m
            ELSE VolumeAt(lev, p) = 0 /\ VolumeAt(after, p) = 0
  BY MatchLowersVolumeAt
<1>6. /\ a \in Price /\ b \in Price /\ a \in Int /\ b \in Int /\ a <= b
      /\ lev["bid"][b] > 0 /\ lev["ask"][a] > 0
  BY BestBidIsHighest, BestAskIsLowest DEF Uncross!Meets
<1>7. VolumeAt(lev, a) >= m
  <2>1. VolumeAt(after, a) \in Nat
    BY <1>1, <1>6, VolumeIsSmaller, DepthIsNatural
  <2>2. VolumeAt(after, a) = VolumeAt(lev, a) - m
    BY <1>5, <1>6
  <2> HIDE DEF after, m, a
  <2>3. VolumeAt(lev, a) \in Nat
    BY <1>5, <1>6
  <2>4. QED
    BY <1>2, <2>1, <2>2, <2>3
<1> HIDE DEF after, m, b, a, v, w
<1>8. m <= v
  <2>1. VolumeAt(lev, a) \in Nat /\ VolumeAt(lev, a) <= v
    BY <1>3, <1>5, <1>6
  <2>2. QED
    BY <1>2, <1>3, <1>7, <2>1
<1>9. w >= v - m
  <2>1. PICK p \in Price : VolumeAt(lev, p) = v
    BY <1>2, <1>3, <1>8
  <2>2. VolumeAt(after, p) = v - m
    BY <1>2, <1>3, <1>5, <1>8, <2>1
  <2>3. QED
    BY <1>4, <2>2
<1>10. w <= v - m
  <2>1. CASE w = 0
    BY <1>2, <1>3, <1>8, <2>1
  <2>2. CASE w # 0
    <3>1. PICK p \in Price : VolumeAt(after, p) = w
      BY <1>4, <2>2
    <3>2. VolumeAt(lev, p) \in Nat /\ VolumeAt(lev, p) <= v
      BY <1>3, <1>5
    <3>3. w = VolumeAt(lev, p) - m
      BY <1>5, <2>2, <3>1
    <3>4. QED
      BY <1>2, <1>3, <3>2, <3>3
  <2>3. QED
    BY <2>1, <2>2
<1>11. w = v - m
  BY <1>2, <1>3, <1>4, <1>9, <1>10
<1>12. QED
  BY <1>8, <1>11 DEF after, m, v, w

\* What is left of a level, without Max and Min.
LEMMA LeftOfLevel ==
    ASSUME NEW quantity \in Nat, NEW depth \in Nat, NEW volume \in Nat, quantity <= depth
    PROVE  Uncross!Left(quantity, depth, volume) =
               IF depth <= volume THEN 0
               ELSE IF quantity <= depth - volume THEN quantity ELSE depth - volume
<1> DEFINE rest == depth - volume
           less == Uncross!Min({quantity, rest})
<1>1. Uncross!Left(quantity, depth, volume) = Uncross!Max({0, less})
  BY DEF Uncross!Left
<1>2. rest \in Int
  OBVIOUS
<1>3. less = IF quantity <= rest THEN quantity ELSE rest
  <2> HIDE DEF rest
  <2>1. less \in {quantity, rest} /\ less <= quantity /\ less <= rest
    BY <1>2 DEF Uncross!Min
  <2> HIDE DEF less
  <2>2. QED
    BY <1>2, <2>1
<1>4. Uncross!Max({0, less}) = IF 0 <= less THEN less ELSE 0
  <2>1. less \in Int
    BY <1>2, <1>3
  <2> HIDE DEF less
  <2>2. /\ Uncross!Max({0, less}) \in {0, less}
        /\ Uncross!Max({0, less}) >= 0 /\ Uncross!Max({0, less}) >= less
    BY <2>1 DEF Uncross!Max
  <2>3. QED
    BY <2>1, <2>2
<1> HIDE DEF less
<1>5. QED
  BY <1>1, <1>3, <1>4

\* The cleared book, place by place.
LEMMA ClearedLevel ==
    ASSUME NEW lev \in Levels
    PROVE  /\ Uncross!Cleared(lev) \in Levels
           /\ \A p \in Price :
                 /\ Uncross!Cleared(lev)["bid"][p] =
                       Uncross!Left(lev["bid"][p], Uncross!Bids(lev, p),
                                    Uncross!ClearingVolume(lev))
                 /\ Uncross!Cleared(lev)["ask"][p] =
                       Uncross!Left(lev["ask"][p], Uncross!Asks(lev, p),
                                    Uncross!ClearingVolume(lev))
<1>1. \A p \in Price :
         /\ Uncross!Cleared(lev)["bid"][p] =
               Uncross!Left(lev["bid"][p], Uncross!Bids(lev, p),
                            Uncross!ClearingVolume(lev))
         /\ Uncross!Cleared(lev)["ask"][p] =
               Uncross!Left(lev["ask"][p], Uncross!Asks(lev, p),
                            Uncross!ClearingVolume(lev))
  BY DEF Uncross!Cleared
<1>2. ASSUME NEW p \in Price
      PROVE  /\ Uncross!Left(lev["bid"][p], Uncross!Bids(lev, p),
                             Uncross!ClearingVolume(lev)) \in Nat
             /\ Uncross!Left(lev["ask"][p], Uncross!Asks(lev, p),
                             Uncross!ClearingVolume(lev)) \in Nat
  <2>1. /\ Uncross!Bids(lev, p) \in Nat /\ Uncross!Asks(lev, p) \in Nat
        /\ lev["bid"][p] <= Uncross!Bids(lev, p)
        /\ lev["ask"][p] <= Uncross!Asks(lev, p)
        /\ lev["bid"][p] \in Nat /\ lev["ask"][p] \in Nat
        /\ Uncross!ClearingVolume(lev) \in Nat
    BY DepthIsNatural, SameLevels, VolumeIsLargest
  <2>2. ASSUME NEW q \in Nat, NEW d \in Nat, NEW v \in Nat, q <= d
        PROVE  Uncross!Left(q, d, v) \in Nat
    BY <2>2, LeftOfLevel
  <2>3. QED
    BY <2>1, <2>2
<1>3. /\ Uncross!Cleared(lev) \in [Side -> [Price -> Nat]]
  BY <1>2 DEF Uncross!Cleared, Side
<1>4. QED
  BY <1>1, <1>3 DEF Levels

\* Taking as much off a best level, off its depth and off the volume leaves the same.
LEMMA LeftIsKept ==
    ASSUME NEW q \in Nat, NEW d \in Nat, NEW v \in Nat, q <= d,
           NEW r \in Nat, NEW e \in Nat, NEW w \in Nat, r <= e, w <= v,
           \/ r + v = q + w /\ e + v = d + w /\ q = d
           \/ r = q /\ e + v = d + w
           \/ r = q /\ q = 0
    PROVE  Uncross!Left(r, e, w) = Uncross!Left(q, d, v)
<1>1. Uncross!Left(q, d, v) = IF d <= v THEN 0 ELSE IF q <= d - v THEN q ELSE d - v
  BY LeftOfLevel
<1>2. Uncross!Left(r, e, w) = IF e <= w THEN 0 ELSE IF r <= e - w THEN r ELSE e - w
  BY LeftOfLevel
<1>3. CASE r + v = q + w /\ e + v = d + w /\ q = d
  BY <1>1, <1>2, <1>3
<1>4. CASE r = q /\ e + v = d + w
  BY <1>1, <1>2, <1>4
<1>5. CASE r = q /\ q = 0
  BY <1>1, <1>2, <1>5
<1>6. QED
  BY <1>3, <1>4, <1>5

\* Bids at the best bid are all there is at it or above, and so are the asks.
LEMMA DepthOfBest ==
    ASSUME NEW lev \in Levels, Uncross!Meets(lev)
    PROVE  /\ Uncross!Bids(lev, Uncross!BestBid(lev))
                = lev["bid"][Uncross!BestBid(lev)]
           /\ Uncross!Asks(lev, Uncross!BestAsk(lev))
                = lev["ask"][Uncross!BestAsk(lev)]
<1> DEFINE b == Uncross!BestBid(lev)
           a == Uncross!BestAsk(lev)
           above == {q \in Price : q >= b}
           below == {q \in Price : q <= a}
<1>1. /\ b \in Price /\ b \in Int /\ \A q \in Price : lev["bid"][q] > 0 => q <= b
      /\ a \in Price /\ a \in Int /\ \A q \in Price : lev["ask"][q] > 0 => a <= q
  BY BestBidIsHighest, BestAskIsLowest DEF Uncross!Meets
<1>2. IsFiniteSet(above) /\ IsFiniteSet(below)
  BY AggregatorAssumption, FS_Subset
<1>3. b \in above /\ a \in below
  BY <1>1
<1>4. /\ \A q \in above : lev["bid"][q] \in Nat
      /\ \A q \in below : lev["ask"][q] \in Nat
  BY SameLevels
<1>5. /\ \A q \in above \ {b} : lev["bid"][q] = 0
      /\ \A q \in below \ {a} : lev["ask"][q] = 0
  <2>1. \A q \in Price : q \in Int
    BY BookAssumption
  <2>2. ASSUME NEW q \in above \ {b} PROVE lev["bid"][q] = 0
    BY <1>1, <1>4, <2>1
  <2>3. ASSUME NEW q \in below \ {a} PROVE lev["ask"][q] = 0
    BY <1>1, <1>4, <2>1
  <2>4. QED
    BY <2>2, <2>3
<1>6. /\ Uncross!Bids(lev, b) = Uncross!SumOver(lev["bid"], above)
      /\ Uncross!Asks(lev, a) = Uncross!SumOver(lev["ask"], below)
  BY DEF Uncross!Bids, Uncross!Asks
<1> HIDE DEF above, below, a, b
<1>7. ASSUME NEW S, IsFiniteSet(S), NEW g, \A x \in S : g[x] \in Nat, NEW z \in S,
             \A x \in S \ {z} : g[x] = 0
      PROVE  Uncross!SumOver(g, S) = g[z]
  <2> DEFINE h == [x \in S |-> 0]
  <2>1. /\ \A x \in S : g[x] \in Nat /\ h[x] \in Nat
        /\ \A x \in S \ {z} : h[x] = g[x]
        /\ h[z] = g[z] - g[z] /\ g[z] \in Int
        /\ \A x \in S : h[x] = 0
    BY <1>7
  <2> HIDE DEF h
  <2>2. Uncross!SumOver(h, S) = Uncross!SumOver(g, S) - g[z]
    BY ONLY IsFiniteSet(S), z \in S, <2>1, SumIsLowered
  <2>3. Uncross!SumOver(h, S) = 0 /\ Uncross!SumOver(g, S) \in Nat /\ g[z] \in Nat
    BY <1>7, <2>1, SumOfZeros, SumIsNatural
  <2>4. QED
    BY <2>2, <2>3
<1>8. QED
  BY <1>2, <1>3, <1>4, <1>5, <1>6, <1>7 DEF a, b

\* An iteration does not change what the clearing of the book leaves.
LEMMA MatchKeepsCleared ==
    ASSUME NEW lev \in Levels, Uncross!Meets(lev)
    PROVE  Uncross!Cleared(Uncross!Match(lev)) = Uncross!Cleared(lev)
<1> DEFINE after == Uncross!Match(lev)
           m == Matched(lev)
           b == Uncross!BestBid(lev)
           a == Uncross!BestAsk(lev)
           v == Uncross!ClearingVolume(lev)
           w == Uncross!ClearingVolume(after)
<1>1. after \in Levels
  BY MatchEffect
<1>2. m \in Nat /\ v \in Nat /\ w \in Nat /\ w <= v /\ w = v - m
  BY <1>1, MatchedVolume, VolumeIsLargest, MatchLowersVolume
<1>3. /\ b \in Price /\ b \in Int /\ \A q \in Price : lev["bid"][q] > 0 => q <= b
      /\ a \in Price /\ a \in Int /\ \A q \in Price : lev["ask"][q] > 0 => a <= q
      /\ \A q \in Price : q \in Int
  BY BestBidIsHighest, BestAskIsLowest, BookAssumption DEF Uncross!Meets
<1>4. ASSUME NEW p \in Price
      PROVE  Uncross!Left(after["bid"][p], Uncross!Bids(after, p), w)
                = Uncross!Left(lev["bid"][p], Uncross!Bids(lev, p), v)
  <2> DEFINE q == lev["bid"][p]
             d == Uncross!Bids(lev, p)
             r == after["bid"][p]
             e == Uncross!Bids(after, p)
  <2>1. q \in Nat /\ d \in Nat /\ q <= d /\ r \in Nat /\ e \in Nat /\ r <= e
    BY <1>1, DepthIsNatural, SameLevels
  <2>2. r = IF p = b THEN q - m ELSE q
    BY MatchEffect
  <2>3. IF p <= b THEN e = d - m ELSE d = 0 /\ e = 0
    BY MatchLowersBids
  <2>4. p = b => q = d
    BY DepthOfBest
  <2>5. ~(p <= b) => q = 0
    BY <1>3, <2>1
  <2> HIDE DEF q, d, r, e, after, m, b, a, v, w
  <2>6. \/ r + v = q + w /\ e + v = d + w /\ q = d
        \/ r = q /\ e + v = d + w
        \/ r = q /\ q = 0
    BY <1>2, <1>3, <2>1, <2>2, <2>3, <2>4, <2>5
  <2>7. Uncross!Left(r, e, w) = Uncross!Left(q, d, v)
    BY <1>2, <2>1, <2>6, LeftIsKept
  <2>8. QED
    BY <2>7 DEF q, d, r, e
<1>5. ASSUME NEW p \in Price
      PROVE  Uncross!Left(after["ask"][p], Uncross!Asks(after, p), w)
                = Uncross!Left(lev["ask"][p], Uncross!Asks(lev, p), v)
  <2> DEFINE q == lev["ask"][p]
             d == Uncross!Asks(lev, p)
             r == after["ask"][p]
             e == Uncross!Asks(after, p)
  <2>1. q \in Nat /\ d \in Nat /\ q <= d /\ r \in Nat /\ e \in Nat /\ r <= e
    BY <1>1, DepthIsNatural, SameLevels
  <2>2. r = IF p = a THEN q - m ELSE q
    BY MatchEffect
  <2>3. IF a <= p THEN e = d - m ELSE d = 0 /\ e = 0
    BY MatchLowersAsks
  <2>4. p = a => q = d
    BY DepthOfBest
  <2>5. ~(a <= p) => q = 0
    BY <1>3, <2>1
  <2> HIDE DEF q, d, r, e, after, m, b, a, v, w
  <2>6. \/ r + v = q + w /\ e + v = d + w /\ q = d
        \/ r = q /\ e + v = d + w
        \/ r = q /\ q = 0
    BY <1>2, <1>3, <2>1, <2>2, <2>3, <2>4, <2>5
  <2>7. Uncross!Left(r, e, w) = Uncross!Left(q, d, v)
    BY <1>2, <2>1, <2>6, LeftIsKept
  <2>8. QED
    BY <2>7 DEF q, d, r, e
<1>6. QED
  BY <1>1, <1>4, <1>5 DEF Uncross!Cleared

\* A book that is not crossed is what its clearing leaves.
LEMMA UncrossedIsCleared ==
    ASSUME NEW lev \in Levels, ~Uncross!Meets(lev)
    PROVE  Uncross!Cleared(lev) = lev
<1> DEFINE v == Uncross!ClearingVolume(lev)
<1>1. ASSUME NEW p \in Price PROVE VolumeAt(lev, p) = 0
  <2> DEFINE above == {q \in Price : q >= p}
             below == {q \in Price : q <= p}
  <2>1. IsFiniteSet(above) /\ IsFiniteSet(below)
    BY AggregatorAssumption, FS_Subset
  <2>2. \A q \in Price : q \in Int /\ lev["bid"][q] \in Nat /\ lev["ask"][q] \in Nat
    BY BookAssumption, SameLevels
  <2>3. \/ \A q \in above : lev["bid"][q] = 0
        \/ \A q \in below : lev["ask"][q] = 0
    <3>1. SUFFICES ASSUME NEW bid \in above, lev["bid"][bid] # 0,
                          NEW ask \in below, lev["ask"][ask] # 0
                   PROVE  FALSE
      OBVIOUS
    <3>2. lev["bid"][bid] > 0 /\ lev["ask"][ask] > 0 /\ ask <= bid
      BY <2>2, <3>1
    <3>3. /\ bid \in Uncross!Prices(lev, "bid")
          /\ ask \in Uncross!Prices(lev, "ask")
      BY <3>2 DEF Uncross!Prices
    <3>4. /\ Uncross!BestBid(lev) \in Int /\ bid <= Uncross!BestBid(lev)
          /\ Uncross!BestAsk(lev) \in Int /\ Uncross!BestAsk(lev) <= ask
      BY <3>2, <3>3, BestBidIsHighest, BestAskIsLowest
    <3>5. Uncross!BestBid(lev) >= Uncross!BestAsk(lev)
      BY <2>2, <3>2, <3>4
    <3>6. QED
      BY <3>3, <3>5 DEF Uncross!Meets
  <2>4. /\ Uncross!Bids(lev, p) = Uncross!SumOver(lev["bid"], above)
        /\ Uncross!Asks(lev, p) = Uncross!SumOver(lev["ask"], below)
    BY DEF Uncross!Bids, Uncross!Asks
  <2>5. Uncross!Bids(lev, p) \in Nat /\ Uncross!Asks(lev, p) \in Nat
    BY DepthIsNatural
  <2>6. Uncross!Bids(lev, p) = 0 \/ Uncross!Asks(lev, p) = 0
    <3> HIDE DEF above, below
    <3> QED
      BY <2>1, <2>3, <2>4, SumOfZeros
  <2>7. QED
    BY <2>5, <2>6, VolumeIsSmaller
<1>2. v = 0
  BY <1>1, VolumeIsLargest
<1>3. ASSUME NEW q \in Nat, NEW d \in Nat, q <= d PROVE Uncross!Left(q, d, 0) = q
  BY <1>3, LeftOfLevel
<1>4. ASSUME NEW p \in Price
      PROVE  /\ Uncross!Left(lev["bid"][p], Uncross!Bids(lev, p), 0) = lev["bid"][p]
             /\ Uncross!Left(lev["ask"][p], Uncross!Asks(lev, p), 0) = lev["ask"][p]
  BY <1>3, DepthIsNatural, SameLevels
<1>5. /\ Uncross!Cleared(lev) \in Levels
      /\ \A p \in Price :
            /\ Uncross!Cleared(lev)["bid"][p] = lev["bid"][p]
            /\ Uncross!Cleared(lev)["ask"][p] = lev["ask"][p]
  BY <1>2, <1>4, ClearedLevel
<1>6. QED
  BY <1>5 DEF Levels, Side

-----------------------------------------------------------------------------
(* The inductive invariants.                                               *)

\* While the summed book is matched, its clearing stays that of the venues' sum.
Clears ==
    status \in {"up", "matching"} =>
        Uncross!Cleared(level) = Uncross!Cleared(Total(books))

\* Matching never adds to a level.
Backed ==
    status \in {"up", "matching"} =>
        \A side \in Side, p \in Price : level[side][p] <= Total(books)[side][p]

\* An ask that is shown is remembered.
AsksRemembered == Uncross!Prices(view, "ask") # {} => lastAsk # NoAsk

-----------------------------------------------------------------------------
(* Types.                                                                  *)

\* The venues' sum is a book, and that of empty books is empty.
LEMMA TotalIsLevels ==
    /\ \A bs \in [Exchange -> Book] : Total(bs) \in Levels
    /\ Total([x \in Exchange |-> EmptyBook]) = EmptyLevels
<1>1. \A f : (\A x \in Exchange : f[x] \in Nat) => Uncross!SumOver(f, Exchange) \in Nat
  BY AggregatorAssumption, SumIsNatural
<1>2. \A f : (\A x \in Exchange : f[x] = 0) => Uncross!SumOver(f, Exchange) = 0
  BY AggregatorAssumption, SumOfZeros
<1>3. ASSUME NEW bs \in [Exchange -> Book], NEW side \in Side, NEW p \in Price
      PROVE  Uncross!SumOver([x \in Exchange |-> bs[x].level[side][p]], Exchange) \in Nat
  <2> DEFINE f == [x \in Exchange |-> bs[x].level[side][p]]
  <2>1. \A x \in Exchange : f[x] \in Nat
    BY DEF Book, Levels
  <2> HIDE DEF f
  <2>2. Uncross!SumOver(f, Exchange) \in Nat
    BY <1>1, <2>1
  <2>3. QED
    BY <2>2 DEF f
<1>4. ASSUME NEW side \in Side, NEW p \in Price
      PROVE  Uncross!SumOver([x \in Exchange |->
                 [e \in Exchange |-> EmptyBook][x].level[side][p]], Exchange) = 0
  <2> DEFINE f == [x \in Exchange |-> [e \in Exchange |-> EmptyBook][x].level[side][p]]
  <2>1. \A x \in Exchange : f[x] = 0
    BY DEF EmptyBook, EmptyLevels
  <2> HIDE DEF f
  <2>2. Uncross!SumOver(f, Exchange) = 0
    BY <1>2, <2>1
  <2>3. QED
    BY <2>2 DEF f
<1>5. \A bs \in [Exchange -> Book] : Total(bs) \in Levels
  BY <1>3 DEF Total, Levels
<1>6. Total([x \in Exchange |-> EmptyBook]) = EmptyLevels
  BY <1>4, Zenon DEF Total, EmptyLevels
<1>7. QED
  BY <1>5, <1>6

\* The remembered ask is a quote, and what is shown is a book.
LEMMA ShownIsLevels ==
    ASSUME lastAsk \in Quote \cup {NoAsk}, NEW clean \in Levels
    PROVE  /\ Shown(clean) \in Levels
           /\ Remembered(clean) \in Quote \cup {NoAsk}
<1>1. Shown(clean) \in Levels
  <2>1. CASE lastAsk = NoAsk
    BY <2>1 DEF Shown
  <2>2. CASE lastAsk \in Quote
    <3>1. lastAsk.price \in Price /\ lastAsk.quantity \in Nat
      BY <2>2 DEF Quote
    <3>2. [clean EXCEPT !["ask"][lastAsk.price] = lastAsk.quantity] \in Levels
      BY <3>1 DEF Levels, Side
    <3>3. QED
      BY <3>2 DEF Shown
  <2>3. QED
    BY <2>1, <2>2
<1>2. Remembered(clean) \in Quote \cup {NoAsk}
  <2>1. CASE Uncross!Prices(clean, "ask") = {}
    BY <2>1 DEF Remembered
  <2>2. CASE Uncross!Prices(clean, "ask") # {}
    <3> DEFINE a == Uncross!BestAsk(clean)
    <3>1. a \in Price /\ clean["ask"][a] > 0 /\ clean["ask"][a] \in Nat
      BY <2>2, BestAskIsLowest, SameLevels
    <3>2. Remembered(clean) = [price |-> a, quantity |-> clean["ask"][a]]
      BY <2>2 DEF Remembered
    <3>3. QED
      BY <3>1, <3>2 DEF Quote
  <2>3. QED
    BY <2>1, <2>2
<1>3. QED
  BY <1>1, <1>2

(***************************************************************************)
(* What the operations of a LimitOrderBook return is a book with the       *)
(* sequence number it had.                                                 *)
(***************************************************************************)
LEMMA OperationsReturn ==
    ASSUME NEW b \in Book
    PROVE  /\ \A levels \in SnapshotLevels :
                 Snapshot(b, levels) \in {c \in Book : c.sequence = b.sequence}
           /\ \A o \in Order : NewOrder(b, o) \in {c \in Book : c.sequence = b.sequence}
           /\ \A id \in OrderId : CancelOrder(b, id) \in {c \in Book : c.sequence = b.sequence}
<1> DEFINE Kept(c) == c \in Book /\ c.sequence = b.sequence
<1>1. \A old \in Levels, side \in Side, price \in Price, delta \in Int :
          ApplyDelta(old, side, price, delta) \in Levels
  BY DEF ApplyDelta, Levels
<1>2. ASSUME NEW o \in Order
      PROVE  /\ o.side \in Side /\ o.price \in Price /\ o.id \in OrderId
             /\ o.quantity \in Int /\ -o.quantity \in Int
  <2>1. o.side \in Side /\ o.price \in Price /\ o.id \in OrderId /\ o.quantity \in Quantity
    BY DEF Order
  <2>2. o.quantity \in Int
    BY <2>1, BookAssumption
  <2>3. \A n \in Int : -n \in Int
    OBVIOUS
  <2>4. QED
    BY <2>1, <2>2, <2>3
<1>3. ASSUME NEW o \in b.orders PROVE Kept(Withdraw(b, o))
  <2>1. o \in Order /\ b.level \in Levels
    BY DEF Book
  <2>2. ApplyDelta(b.level, o.side, o.price, -o.quantity) \in Levels
    BY <1>1, <1>2, <2>1
  <2>3. QED
    BY <2>2 DEF Withdraw, Book
<1>4. ASSUME NEW id \in OrderId PROVE Kept(CancelOrder(b, id))
  <2>1. CASE id = 0 \/ Resting(b, id) = {}
    BY <2>1 DEF CancelOrder
  <2>2. CASE ~(id = 0 \/ Resting(b, id) = {})
    <3>1. (CHOOSE o \in Resting(b, id) : TRUE) \in b.orders
      BY <2>2 DEF Resting
    <3>2. QED
      BY <1>3, <2>2, <3>1 DEF CancelOrder
  <2>3. QED
    BY <2>1, <2>2
<1>5. ASSUME NEW o \in Order PROVE Kept(NewOrder(b, o))
  <2> DEFINE cleared == CancelOrder(b, o.id)
  <2>1. cleared \in Book /\ cleared.sequence = b.sequence
    BY <1>2, <1>4
  <2>2. NewOrder(b, o) \in {b, cleared, Rest(cleared, o)}
    BY DEF NewOrder
  <2> HIDE DEF cleared
  <2>3. ApplyDelta(cleared.level, o.side, o.price, o.quantity) \in Levels
    BY <1>1, <1>2, <2>1 DEF Book
  <2>4. Rest(cleared, o) \in Book /\ Rest(cleared, o).sequence = cleared.sequence
    BY <2>1, <2>3 DEF Rest, Book
  <2>5. QED
    BY <2>1, <2>2, <2>4
<1>6. ASSUME NEW levels \in SnapshotLevels PROVE Kept(Snapshot(b, levels))
  <2>1. levels \in Levels
    <3>1. \A q \in Quantity : q > 0 => q \in Nat
      BY BookAssumption
    <3>2. {0} \cup {q \in Quantity : q > 0} \subseteq Nat
      BY <3>1
    <3>3. QED
      BY <3>2 DEF SnapshotLevels, Levels
  <2>2. QED
    BY <2>1 DEF Snapshot, Book
<1>7. QED
  BY <1>4, <1>5, <1>6

\* The book an event leaves, whatever the event.
LEMMA AppliedIsBook ==
    ASSUME TypeOK, NEW x \in Exchange, NEW sequence \in Sequence, NEW stamp \in Stamp
    PROVE  /\ Touch(books[x], x, stamp) \in Book
           /\ \A levels \in SnapshotLevels :
                 Snapshot(Prepared(x, sequence, stamp), levels) \in Book
           /\ \A order \in Order : NewOrder(Prepared(x, sequence, stamp), order) \in Book
           /\ \A id \in OrderId : CancelOrder(Prepared(x, sequence, stamp), id) \in Book
<1>1. books[x] \in Book /\ sequence \in Nat /\ stamp \in Nat
  BY BookAssumption DEF TypeOK
<1>2. Touch(books[x], x, stamp) \in Book /\ Prepared(x, sequence, stamp) \in Book
  <2> DEFINE touched == Touch(books[x], x, stamp)
  <2>1. touched \in Book
    BY <1>1 DEF Touch, Book
  <2> HIDE DEF touched
  <2>2. Advance(touched, sequence) \in Book
    BY <1>1, <2>1 DEF Advance, Book
  <2>3. QED
    BY <2>1, <2>2 DEF touched, Prepared
<1>3. QED
  BY <1>2, OperationsReturn

\* An event of a venue, abbreviated: what its three kinds have in common.
Event ==
    \E x \in Exchange, sequence \in Sequence, stamp \in Stamp, applied \in Book :
        Process(x, sequence, stamp, applied)

\* Every step is one of three.
LEMMA Steps ==
    ASSUME TypeOK, Next
    PROVE  Event \/ Matching \/ Conclude
<1>1. ASSUME NEW x \in Exchange, NEW sequence \in Sequence, NEW stamp \in Stamp,
             \/ \E levels \in SnapshotLevels : ProcessSnapshot(x, sequence, stamp, levels)
             \/ \E order \in Order : ProcessNewOrder(x, sequence, stamp, order)
             \/ \E id \in OrderId : ProcessCancelOrder(x, sequence, stamp, id)
      PROVE  \E applied \in Book : Process(x, sequence, stamp, applied)
  BY <1>1, AppliedIsBook DEF ProcessSnapshot, ProcessNewOrder, ProcessCancelOrder
<1>2. QED
  BY <1>1 DEF Next, Event

\* The types are kept.
LEMMA TypeStep ==
    ASSUME TypeOK, [Next]_vars
    PROVE  TypeOK'
<1>1. CASE Event
  <2>1. PICK x \in Exchange, sequence \in Sequence, stamp \in Stamp, applied \in Book :
            Process(x, sequence, stamp, applied)
    BY <1>1 DEF Event
  <2> DEFINE book == IF Stale(books[x], sequence) THEN Touch(books[x], x, stamp)
                     ELSE applied
  <2>2. book \in Book
    BY AppliedIsBook
  <2>3. books' = [books EXCEPT ![x] = book]
    BY <2>1 DEF Process
  <2>4. books' \in [Exchange -> Book]
    <3> HIDE DEF book
    <3> QED
      BY <2>2, <2>3 DEF TypeOK
  <2>5. level' \in Levels
    BY <2>1, <2>4, TotalIsLevels DEF Process, TypeOK
  <2>6. UNCHANGED <<lastAsk, view>> /\ status' \in {"book refused", "matching"}
    BY <2>1 DEF Process
  <2>7. QED
    BY <2>4, <2>5, <2>6 DEF TypeOK
<1>2. CASE Matching
  BY <1>2, MatchEffect DEF Matching, TypeOK
<1>3. CASE Conclude
  <2>1. Shown(level) \in Levels /\ Remembered(level) \in Quote \cup {NoAsk}
    BY ShownIsLevels DEF TypeOK
  <2>2. status' \in {"view crossed", "feed ahead", "up"}
    BY <1>3 DEF Conclude, Validated
  <2>3. lastAsk' = Remembered(level) /\ view' \in {Shown(level), view}
        /\ UNCHANGED <<books, level>>
    BY <1>3 DEF Conclude
  <2>4. QED
    BY <2>1, <2>2, <2>3 DEF TypeOK
<1>4. CASE UNCHANGED vars
  BY <1>4 DEF TypeOK, vars
<1>5. QED
  BY <1>1, <1>2, <1>3, <1>4, Steps

\* Books, the levels in the making and those shown have their types throughout.
THEOREM TypeCorrect == Spec => []TypeOK
<1>1. Init => TypeOK
  <2>1. EmptyBook \in Book /\ EmptyLevels \in Levels
    BY DEF EmptyBook, EmptyLevels, Book, Levels
  <2>2. QED
    BY <2>1, AggregatorAssumption DEF Init, TypeOK
<1>2. QED
  BY <1>1, TypeStep, PTL DEF Spec

-----------------------------------------------------------------------------
(* The matching.                                                           *)

\* The clearing of the level in the making is kept by every step.
LEMMA ClearsStep ==
    ASSUME TypeOK, TypeOK', Clears, [Next]_vars
    PROVE  Clears'
<1>1. CASE Event
  BY <1>1 DEF Event, Process, Clears
<1>2. CASE Matching
  <2>1. Uncross!Cleared(level') = Uncross!Cleared(level)
    BY <1>2, MatchKeepsCleared DEF Matching, TypeOK
  <2>2. books' = books /\ status = "matching"
    BY <1>2 DEF Matching
  <2>3. QED
    BY <2>1, <2>2 DEF Clears
<1>3. CASE Conclude
  BY <1>3 DEF Conclude, Clears
<1>4. CASE UNCHANGED vars
  BY <1>4 DEF vars, Clears
<1>5. QED
  BY <1>1, <1>2, <1>3, <1>4, Steps

(***************************************************************************)
(* virtualUncross clears the summed book, for any number of venues, prices *)
(* and quantities: what its loop leaves is what a uniform-price auction    *)
(* would leave (aggregator.cpp, lines 37-62).                              *)
(***************************************************************************)
THEOREM UncrossClears == Spec => []UncrossIsClearing
<1>1. Init => Clears
  BY TotalIsLevels DEF Init, Clears
<1>2. TypeOK /\ TypeOK' /\ Clears /\ [Next]_vars => Clears'
  BY ClearsStep
<1>3. TypeOK /\ Clears => UncrossIsClearing
  <2>1. SUFFICES ASSUME TypeOK, Clears, status \in {"up", "matching"}, ~Uncross!Meets(level)
                 PROVE  level = Uncross!Cleared(Total(books))
    BY DEF UncrossIsClearing
  <2>2. Uncross!Cleared(level) = level
    BY <2>1, UncrossedIsCleared DEF TypeOK
  <2>3. QED
    BY <2>1, <2>2 DEF Clears
<1>4. QED
  BY <1>1, <1>2, <1>3, TypeCorrect, PTL DEF Spec

\* No level in the making exceeds the venues' sum.
LEMMA BackedStep ==
    ASSUME TypeOK, TypeOK', Backed, [Next]_vars
    PROVE  Backed'
<1>1. CASE Event
  <2>1. status' = "matching" => level' = Total(books')
    BY <1>1 DEF Event, Process
  <2>2. status' \in {"matching", "book refused"}
    BY <1>1 DEF Event, Process
  <2>3. \A side \in Side, p \in Price : level'[side][p] \in Nat
    BY DEF TypeOK, Levels
  <2>4. \A n \in Nat : n <= n
    OBVIOUS
  <2>5. QED
    BY <2>1, <2>2, <2>3, <2>4 DEF Backed
<1>2. CASE Matching
  <2>1. /\ status = "matching" /\ Uncross!Meets(level) /\ level \in Levels
        /\ level' = Uncross!Match(level) /\ books' = books
    BY <1>2 DEF Matching, TypeOK
  <2>2. Total(books) \in Levels
    BY TotalIsLevels DEF TypeOK
  <2>3. Matched(level) \in Nat
    BY <2>1, MatchedVolume
  <2>4. ASSUME NEW p \in Price
        PROVE  /\ level'["bid"][p] <= level["bid"][p]
               /\ level'["ask"][p] <= level["ask"][p]
    <3> DEFINE m == Matched(level)
               bid == level["bid"][p]
               ask == level["ask"][p]
    <3>1. level'["bid"][p] \in {bid, bid - m} /\ level'["ask"][p] \in {ask, ask - m}
      BY <2>1, MatchEffect
    <3>2. bid \in Nat /\ ask \in Nat
      BY <2>1, SameLevels
    <3> HIDE DEF m, bid, ask
    <3>3. m \in Nat
      BY <2>3 DEF m
    <3>4. level'["bid"][p] <= bid /\ level'["ask"][p] <= ask
      BY <3>1, <3>2, <3>3
    <3>5. QED
      BY <3>4 DEF bid, ask
  <2>5. ASSUME NEW side \in Side, NEW p \in Price
        PROVE  level'[side][p] <= Total(books)[side][p]
    <3>1. level[side][p] <= Total(books)[side][p]
      BY <2>1 DEF Backed
    <3>2. level'[side][p] <= level[side][p]
      BY <2>4 DEF Side
    <3>3. level[side][p] \in Nat /\ level'[side][p] \in Nat /\ Total(books)[side][p] \in Nat
      BY <2>2 DEF TypeOK, Levels
    <3>4. QED
      BY <3>1, <3>2, <3>3
  <2>6. QED
    BY <2>1, <2>5 DEF Backed
<1>3. CASE Conclude
  BY <1>3 DEF Conclude, Backed
<1>4. CASE UNCHANGED vars
  BY <1>4 DEF vars, Backed
<1>5. QED
  BY <1>1, <1>2, <1>3, <1>4, Steps

\* The quotes of the view are backed by the venues, or by the remembered ask.
LEMMA QuotesStep ==
    ASSUME TypeOK, TypeOK', Backed, QuotesBacked, [Next]_vars
    PROVE  QuotesBacked'
<1>1. CASE Event
  BY <1>1 DEF Event, Process, QuotesBacked
<1>2. CASE Matching
  BY <1>2 DEF Matching, QuotesBacked
<1>3. CASE Conclude
  <2>1. /\ status = "matching" /\ books' = books /\ level' = level
        /\ lastAsk' = Remembered(level)
    BY <1>3 DEF Conclude
  <2>2. SUFFICES ASSUME status' = "up", NEW side \in Side, NEW p \in Price,
                        view'[side][p] > Total(books)[side][p]
                 PROVE  /\ side = "ask" /\ ~AsksLeft
                        /\ [price |-> p, quantity |-> view'[side][p]] = Remembered(level)
    BY <2>1 DEF QuotesBacked, AsksLeft
  <2>3. view' = Shown(level)
    BY <1>3, <2>2 DEF Conclude
  <2>4. level[side][p] <= Total(books)[side][p] /\ level[side][p] \in Nat
        /\ Total(books)[side][p] \in Nat
    <3>1. level \in Levels /\ Total(books) \in Levels
      BY TotalIsLevels DEF TypeOK
    <3>2. level[side][p] <= Total(books)[side][p]
      BY <2>1 DEF Backed
    <3>3. QED
      BY <3>1, <3>2 DEF Levels
  <2>5. view'[side][p] # level[side][p]
    BY <2>2, <2>4
  <2>6. ~AsksLeft /\ lastAsk # NoAsk
    BY <2>3, <2>5 DEF Shown, AsksLeft
  <2>7. lastAsk \in Quote /\ Remembered(level) = lastAsk
    BY <2>6 DEF TypeOK, Remembered, AsksLeft
  <2>8. view' = [level EXCEPT !["ask"][lastAsk.price] = lastAsk.quantity]
    BY <2>3, <2>6 DEF Shown, AsksLeft
  <2>9. side = "ask" /\ p = lastAsk.price /\ view'[side][p] = lastAsk.quantity
    BY <2>5, <2>7, <2>8 DEF TypeOK, Levels, Side, Quote
  <2>10. QED
    BY <2>6, <2>7, <2>9 DEF Quote
<1>4. CASE UNCHANGED vars
  BY <1>4 DEF vars, QuotesBacked, AsksLeft
<1>5. QED
  BY <1>1, <1>2, <1>3, <1>4, Steps

(***************************************************************************)
(* No view quotes a quantity the venues do not have, save for the last     *)
(* best ask that stands in for an empty ask side (lines 246-258).          *)
(***************************************************************************)
THEOREM QuotesAreBacked == Spec => []QuotesBacked
<1>1. Init => Backed /\ QuotesBacked
  <2>1. SUFFICES ASSUME Init PROVE Backed /\ QuotesBacked
    OBVIOUS
  <2>2. Total(books) = EmptyLevels /\ level = EmptyLevels /\ view = EmptyLevels
    BY <2>1, TotalIsLevels DEF Init
  <2>3. \A side \in Side, p \in Price : EmptyLevels[side][p] = 0
    BY DEF EmptyLevels
  <2>4. QED
    BY <2>2, <2>3 DEF Backed, QuotesBacked
<1>2. TypeOK /\ TypeOK' /\ Backed /\ QuotesBacked /\ [Next]_vars
         => (Backed /\ QuotesBacked)'
  BY BackedStep, QuotesStep
<1>3. QED
  BY <1>1, <1>2, TypeCorrect, PTL DEF Spec

-----------------------------------------------------------------------------
(* The ask side.                                                           *)

\* What is shown has asks if an ask is left or remembered, and then one is remembered.
LEMMA ShownAsks ==
    ASSUME lastAsk \in Quote \cup {NoAsk}, NEW clean \in Levels
    PROVE  /\ \/ Uncross!Prices(clean, "ask") # {}
              \/ lastAsk # NoAsk
              => Uncross!Prices(Shown(clean), "ask") # {}
           /\ Uncross!Prices(Shown(clean), "ask") # {} => Remembered(clean) # NoAsk
<1>1. CASE Uncross!Prices(clean, "ask") # {}
  <2>1. Shown(clean) = clean
    BY <1>1 DEF Shown
  <2>2. Remembered(clean).quantity > 0
    BY <1>1, BestAskIsLowest DEF Remembered
  <2>3. QED
    BY <1>1, <2>1, <2>2 DEF NoAsk
<1>2. CASE Uncross!Prices(clean, "ask") = {} /\ lastAsk # NoAsk
  <2>1. lastAsk \in Quote /\ Remembered(clean) = lastAsk
    BY <1>2 DEF Remembered
  <2>2. Shown(clean) = [clean EXCEPT !["ask"][lastAsk.price] = lastAsk.quantity]
    BY <1>2 DEF Shown
  <2>3. lastAsk.price \in Price /\ lastAsk.quantity \in Nat /\ lastAsk.quantity > 0
    BY <2>1 DEF Quote
  <2>4. Shown(clean)["ask"][lastAsk.price] = lastAsk.quantity
    BY <2>2, <2>3 DEF Levels, Side
  <2>5. lastAsk.price \in Uncross!Prices(Shown(clean), "ask")
    BY <2>3, <2>4 DEF Uncross!Prices
  <2>6. QED
    BY <1>2, <2>1, <2>5
<1>3. CASE Uncross!Prices(clean, "ask") = {} /\ lastAsk = NoAsk
  BY <1>3 DEF Shown
<1>4. QED
  BY <1>1, <1>2, <1>3

\* Every step remembers an ask that is shown, and shows one if one was shown.
LEMMA AsksStep ==
    ASSUME TypeOK, AsksRemembered, [Next]_vars
    PROVE  /\ AsksRemembered'
           /\ Uncross!Prices(view, "ask") # {} => Uncross!Prices(view', "ask") # {}
<1>1. CASE Conclude
  <2>1. /\ lastAsk \in Quote \cup {NoAsk} /\ level \in Levels
        /\ lastAsk' = Remembered(level) /\ view' \in {Shown(level), view}
    BY <1>1 DEF Conclude, TypeOK
  <2>2. /\ lastAsk # NoAsk => Uncross!Prices(Shown(level), "ask") # {}
        /\ Uncross!Prices(Shown(level), "ask") # {} => Remembered(level) # NoAsk
    BY <2>1, ShownAsks
  <2>3. QED
    BY <2>1, <2>2 DEF AsksRemembered
<1>2. CASE UNCHANGED <<lastAsk, view>>
  BY <1>2 DEF AsksRemembered
<1>3. QED
  BY <1>1, <1>2, Steps DEF Event, Process, Matching, vars

(***************************************************************************)
(* A subscriber who has seen an ask never gets a view without one: the     *)
(* remembered ask is kept whenever an ask was shown (lines 246-258).       *)
(***************************************************************************)
THEOREM AsksStay == Spec => AskSideStays
<1>1. Init => AsksRemembered
  BY DEF Init, AsksRemembered, EmptyLevels, Uncross!Prices, Side
<1>2. TypeOK /\ AsksRemembered /\ [Next]_vars => AsksRemembered'
  BY AsksStep
<1>3. TypeOK /\ AsksRemembered /\ [Next]_vars
         => [Uncross!Prices(view, "ask") # {} => Uncross!Prices(view', "ask") # {}]_vars
  BY AsksStep
<1>4. QED
  BY <1>1, <1>2, <1>3, TypeCorrect, PTL DEF Spec, AskSideStays

\* A book the loop has left is not crossed.
LEMMA UnmetIsUncrossed ==
    ASSUME NEW lev \in Levels, ~Uncross!Meets(lev)
    PROVE  ~Crossed(lev)
<1>1. SUFFICES ASSUME NEW bid \in Price, NEW ask \in Price,
                      lev["bid"][bid] > 0, lev["ask"][ask] > 0, ask <= bid
               PROVE  FALSE
  BY DEF Crossed
<1>2. bid \in Uncross!Prices(lev, "bid") /\ ask \in Uncross!Prices(lev, "ask")
  BY <1>1 DEF Uncross!Prices
<1>3. /\ Uncross!BestBid(lev) \in Int /\ bid <= Uncross!BestBid(lev)
      /\ Uncross!BestAsk(lev) \in Int /\ Uncross!BestAsk(lev) <= ask
  BY <1>1, <1>2, BestBidIsHighest, BestAskIsLowest
<1>4. bid \in Int /\ ask \in Int
  BY BookAssumption
<1>5. Uncross!BestBid(lev) >= Uncross!BestAsk(lev)
  BY <1>1, <1>3, <1>4
<1>6. QED
  BY <1>2, <1>5 DEF Uncross!Meets

\* Only a stand-in ask can cross the view.
LEMMA StandInStep ==
    ASSUME TypeOK, OnlyStandInCrosses, [Next]_vars
    PROVE  OnlyStandInCrosses'
<1>1. CASE Conclude
  <2>1. SUFFICES ASSUME status' = "view crossed"
                 PROVE  ~AsksLeft /\ Remembered(level) # NoAsk
    BY <1>1 DEF OnlyStandInCrosses, AsksLeft, Conclude
  <2>2. Crossed(Shown(level))
    BY <1>1, <2>1 DEF Conclude, Validated
  <2>3. ~Crossed(level)
    BY <1>1, UnmetIsUncrossed DEF Conclude, TypeOK
  <2>4. ~AsksLeft /\ lastAsk # NoAsk
    BY <2>2, <2>3 DEF Shown, AsksLeft
  <2>5. QED
    BY <2>4 DEF Remembered, AsksLeft
<1>2. CASE Event
  BY <1>2 DEF Event, Process, OnlyStandInCrosses
<1>3. CASE Matching
  BY <1>3 DEF Matching, OnlyStandInCrosses
<1>4. CASE UNCHANGED vars
  BY <1>4 DEF vars, OnlyStandInCrosses, AsksLeft
<1>5. QED
  BY <1>1, <1>2, <1>3, <1>4, Steps

(***************************************************************************)
(* The assertion that the view is not crossed (lines 296 and 335) can fail *)
(* only because the remembered ask stands in for an empty side: whatever   *)
(* the venues send, the loop of virtualUncross never leaves a crossed book.*)
(***************************************************************************)
THEOREM StandInAlone == Spec => []OnlyStandInCrosses
<1>1. Init => OnlyStandInCrosses
  BY DEF Init, OnlyStandInCrosses
<1>2. TypeOK /\ OnlyStandInCrosses /\ [Next]_vars => OnlyStandInCrosses'
  BY StandInStep
<1>3. QED
  BY <1>1, <1>2, TypeCorrect, PTL DEF Spec

=============================================================================
