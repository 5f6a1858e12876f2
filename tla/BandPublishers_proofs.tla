------------------------ MODULE BandPublishers_proofs ------------------------
(***************************************************************************)
(* Proofs about the band calculators, for any digits, width, prices and    *)
(* quantities that fit: the arithmetic of Decimal as the calculators use   *)
(* it, what a view looks like after the wire, and from them that no        *)
(* assertion fails, that the cache is one view's, that the bands nest and  *)
(* that a volume band is the price at its depth.                           *)
(***************************************************************************)
EXTENDS BandPublishers, FiniteSetTheorems, WellFoundedInduction, TLAPS

-----------------------------------------------------------------------------
(* Induction, said with sets.                                              *)

LessThan == {ss \in Nat \X Nat : ss[1] < ss[2]}

\* The order of the naturals is well-founded.
LEMMA LessThanIsWellFounded == IsWellFoundedOn(LessThan, Nat)
BY NatLessThanWellFounded DEF OpToRel, LessThan

\* A set of naturals that is not empty has a least element.
LEMMA LeastNumber ==
    ASSUME NEW T \in SUBSET Nat, T # {}
    PROVE  \E x \in T : \A y \in T : x <= y
<1>1. PICK x \in T : \A y \in T : <<y, x>> \notin LessThan
  BY LessThanIsWellFounded, WFMin
<1>2. ASSUME NEW y \in T, y < x PROVE FALSE
  <2>1. <<y, x>> \in Nat \X Nat /\ <<y, x>>[1] < <<y, x>>[2]
    BY <1>2
  <2>2. <<y, x>> \in LessThan
    BY <2>1 DEF LessThan
  <2>3. QED
    BY <2>2, <1>1
<1>3. QED
  BY <1>2

\* A set that holds 0 and the successor of every element is all of Nat.
LEMMA AllNaturals ==
    ASSUME NEW T \in SUBSET Nat, 0 \in T, \A n \in T : n + 1 \in T
    PROVE  T = Nat
<1>1. SUFFICES ASSUME Nat \ T # {} PROVE FALSE
  OBVIOUS
<1>2. PICK x \in Nat \ T : \A y \in Nat \ T : x <= y
  BY <1>1, LeastNumber
<1>3. x # 0 /\ x - 1 \in Nat /\ x - 1 \in T
  BY <1>2
<1>4. QED
  BY <1>2, <1>3

\* A finite set has one element less when one of its elements is removed.
LEMMA OneElementLess ==
    ASSUME NEW U, IsFiniteSet(U), NEW n \in Nat, Cardinality(U) = n + 1, NEW x \in U
    PROVE  Cardinality(U \ {x}) = n
<1>1. Cardinality(U \ {x}) = Cardinality(U) - 1
  BY FS_RemoveElement
<1>2. QED
  BY <1>1

(***************************************************************************)
(* A set of subsets of S is all of them when it holds a subset as soon as  *)
(* it holds what is left of it after the removal of any element.           *)
(***************************************************************************)
LEMMA AllSubsets ==
    ASSUME NEW S, IsFiniteSet(S), NEW T,
           \A U \in SUBSET S : (\A x \in U : U \ {x} \in T) => U \in T
    PROVE  \A U \in SUBSET S : U \in T
<1> DEFINE N == {n \in Nat : \A U \in SUBSET S : Cardinality(U) = n => U \in T}
<1>1. 0 \in N
  BY FS_Subset, FS_EmptySet
<1>2. ASSUME NEW n \in N PROVE n + 1 \in N
  <2>1. SUFFICES ASSUME NEW U \in SUBSET S, Cardinality(U) = n + 1 PROVE U \in T
    OBVIOUS
  <2>2. ASSUME NEW x \in U PROVE U \ {x} \in T
    <3>1. IsFiniteSet(U) /\ U \ {x} \in SUBSET S
      BY FS_Subset
    <3>2. Cardinality(U \ {x}) = n
      BY <2>1, <3>1, OneElementLess
    <3>3. QED
      BY <3>1, <3>2
  <2>3. QED
    BY <2>2
<1>3. N = Nat
  <2> N \in SUBSET Nat
    OBVIOUS
  <2> HIDE DEF N
  <2> QED
    BY <1>1, <1>2, AllNaturals
<1>4. \A U \in SUBSET S : Cardinality(U) \in Nat
  BY FS_Subset, FS_CardinalityType
<1>5. QED
  BY <1>3, <1>4

-----------------------------------------------------------------------------
(* The arithmetic of Decimal.                                              *)

Half == 2 ^ (Width - 1)
Unit == 10 ^ (Digits - Precision)

\* The powers in use are positive.
LEMMA Powers ==
    /\ Digits \in Nat /\ Width \in Nat \ {0}
    /\ Scale \in Nat \ {0} /\ Unit \in Nat \ {0}
    /\ Half \in Nat \ {0} /\ 2 ^ Width = 2 * Half
<1>1. Digits \in 0 .. Digits /\ Digits - Precision \in 0 .. Digits
  BY DecimalAssumption, BandAssumption
<1>2. QED
  BY <1>1, DecimalAssumption, PowerAssumption DEF Scale, Unit, Half

\* What a quotient is between.
LEMMA QuotientBounds ==
    ASSUME NEW a \in Nat, NEW b \in Nat \ {0}
    PROVE  /\ a \div b \in Nat
           /\ b * (a \div b) <= a
           /\ a < b * (a \div b) + b
OBVIOUS

\* What it leaves.
LEMMA RemainderBounds ==
    ASSUME NEW a \in Nat, NEW b \in Nat \ {0}
    PROVE  a % b \in Nat /\ a = b * (a \div b) + (a % b)
OBVIOUS

\* A quotient is no greater than n if the dividend is less than n + 1 times.
LEMMA QuotientAtMost ==
    ASSUME NEW a \in Nat, NEW b \in Nat \ {0}, NEW n \in Nat, a < b * (n + 1)
    PROVE  a \div b <= n
<1> DEFINE q == a \div b
<1>1. q \in Nat /\ b * q <= a
  BY QuotientBounds
<1> HIDE DEF q
<1>2. ASSUME q >= n + 1 PROVE FALSE
  <2>1. b * (n + 1) <= b * q
    BY <1>1, <1>2
  <2>2. QED
    BY <1>1, <2>1
<1>3. q <= n
  BY <1>1, <1>2
<1>4. QED
  BY <1>3 DEF q

\* A quotient is at least n if the dividend is n times.
LEMMA QuotientAtLeast ==
    ASSUME NEW a \in Nat, NEW b \in Nat \ {0}, NEW n \in Nat, b * n <= a
    PROVE  a \div b >= n
<1> DEFINE q == a \div b
<1>1. q \in Nat /\ a < b * q + b
  BY QuotientBounds
<1> HIDE DEF q
<1>2. ASSUME n >= q + 1 PROVE FALSE
  <2>1. b * (q + 1) <= b * n
    BY <1>1, <1>2
  <2>2. b * (q + 1) = b * q + b
    BY <1>1
  <2>3. b * (q + 1) \in Nat /\ b * n \in Nat /\ b * q \in Nat
    BY <1>1
  <2>4. QED
    BY <1>1, <2>1, <2>2, <2>3
<1>3. n <= q
  BY <1>1, <1>2
<1>4. QED
  BY <1>3 DEF q

\* Division by the same number keeps the order.
LEMMA QuotientMonotone ==
    ASSUME NEW a \in Nat, NEW c \in Nat, a <= c, NEW b \in Nat \ {0}
    PROVE  a \div b <= c \div b
<1>1. a \div b \in Nat /\ b * (a \div b) <= a
  BY QuotientBounds
<1>2. b * (a \div b) \in Nat
  BY <1>1
<1>3. b * (a \div b) <= c
  BY <1>1, <1>2
<1>4. c \div b >= a \div b
  BY <1>1, <1>3, QuotientAtLeast
<1>5. c \div b \in Nat
  BY QuotientBounds
<1>6. QED
  BY <1>1, <1>4, <1>5

\* A number that fits is stored as it is.
LEMMA StoredFits ==
    ASSUME NEW x \in Nat, x < Half
    PROVE  Stored(x) = x
<1>1. Half \in Nat \ {0} /\ 2 ^ Width = 2 * Half
  BY Powers
<1>2. (x + Half) % (2 * Half) = x + Half
  <2> DEFINE a == x + Half
             b == 2 * Half
  <2>1. a \in Nat /\ b \in Nat \ {0} /\ a < b
    BY <1>1
  <2> HIDE DEF a, b
  <2>2. a % b = a
    BY <2>1
  <2>3. QED
    BY <2>2 DEF a, b
<1>3. Stored(x) = ((x + Half) % (2 * Half)) - Half
  BY <1>1 DEF Stored, Half
<1>4. QED
  BY <1>1, <1>2, <1>3

\* The product of two naturals, when it fits: the intermediate need not.
LEMMA MultiplyNaturals ==
    ASSUME NEW x \in Nat, NEW y \in Nat, (x * y) \div Scale < Half
    PROVE  Multiply(TRUE, x, y) = (x * y) \div Scale
<1>1. Scale \in Nat \ {0} /\ x * y \in Nat
  BY Powers
<1>2. (x * y) \div Scale \in Nat
  BY <1>1, QuotientBounds
<1>3. Quotient(x * y, Scale) = (x * y) \div Scale
  BY <1>1 DEF Quotient
<1>4. Multiply(TRUE, x, y) = Stored((x * y) \div Scale)
  BY <1>3 DEF Multiply, Signed, InWide, Abs
<1>5. QED
  BY <1>2, <1>4, StoredFits

\* The quotient of two naturals, when it fits.
LEMMA DivideNaturals ==
    ASSUME NEW x \in Nat, NEW y \in Nat \ {0}, (x * Scale) \div y < Half
    PROVE  Divide(TRUE, x, y) = (x * Scale) \div y
<1>1. Scale \in Nat \ {0} /\ x * Scale \in Nat
  BY Powers
<1>2. (x * Scale) \div y \in Nat
  BY <1>1, QuotientBounds
<1>3. Quotient(x * Scale, y) = (x * Scale) \div y
  BY <1>1 DEF Quotient
<1>4. Divide(TRUE, x, y) = Stored((x * Scale) \div y)
  BY <1>3 DEF Divide, Signed, InWide, Abs
<1>5. QED
  BY <1>2, <1>4, StoredFits

-----------------------------------------------------------------------------
(* The bands around a price.                                               *)

\* The share of a whole that an offset is: at most one.
LEMMA FractionIsShare ==
    ASSUME NEW o \in 0 .. Whole
    PROVE  /\ Fraction(TRUE, o) = ((o * Scale) * Scale) \div (Whole * Scale)
           /\ Fraction(TRUE, o) \in 0 .. Scale
<1> DEFINE x == o * Scale
           y == Whole * Scale
<1>1. Scale \in Nat \ {0} /\ Whole \in Nat \ {0} /\ o \in Nat /\ o <= Whole
  BY Powers, BandAssumption
<1>2. x \in Nat /\ y \in Nat \ {0} /\ x <= y
  BY <1>1
<1> HIDE DEF x, y
<1>3. x * Scale <= y * Scale /\ x * Scale \in Nat /\ y * Scale \in Nat
  BY <1>1, <1>2
<1>4. y * (Scale + 1) = y * Scale + y
  BY <1>1, <1>2
<1>5. x * Scale < y * (Scale + 1)
  BY <1>2, <1>3, <1>4
<1>6. (x * Scale) \div y <= Scale /\ (x * Scale) \div y \in Nat
  BY <1>1, <1>2, <1>3, <1>5, QuotientAtMost, QuotientBounds
<1>7. Scale < Half
  BY RangeAssumption DEF Half
<1>8. (x * Scale) \div y < Half
  BY <1>1, <1>6, <1>7, Powers
<1>9. Fraction(TRUE, o) = (x * Scale) \div y
  BY <1>2, <1>8, DivideNaturals DEF Fraction, FromInteger, x, y
<1>10. Fraction(TRUE, o) = (x * Scale) \div y /\ Fraction(TRUE, o) \in 0 .. Scale
  <2> DEFINE f == (x * Scale) \div y
  <2>1. f \in Nat /\ f <= Scale /\ Fraction(TRUE, o) = f
    BY <1>6, <1>9
  <2> HIDE DEF f
  <2>2. f \in 0 .. Scale
    BY <1>1, <2>1
  <2>3. QED
    BY <2>1, <2>2 DEF f
<1>11. QED
  BY <1>10 DEF x, y

\* A greater offset is no smaller a share.
LEMMA FractionMonotone ==
    ASSUME NEW o \in 0 .. Whole, NEW q \in 0 .. Whole, o <= q
    PROVE  Fraction(TRUE, o) <= Fraction(TRUE, q)
<1>1. Scale \in Nat \ {0} /\ Whole \in Nat \ {0} /\ o \in Nat /\ q \in Nat
  BY Powers, BandAssumption
<1>2. o * Scale \in Nat /\ q * Scale \in Nat /\ o * Scale <= q * Scale
  BY <1>1
<1>3. /\ (o * Scale) * Scale \in Nat /\ (q * Scale) * Scale \in Nat
      /\ (o * Scale) * Scale <= (q * Scale) * Scale
  <2> DEFINE x == o * Scale
             z == q * Scale
  <2> HIDE DEF x, z
  <2>1. x \in Nat /\ z \in Nat /\ x <= z
    BY <1>2 DEF x, z
  <2>2. x * Scale \in Nat /\ z * Scale \in Nat /\ x * Scale <= z * Scale
    BY <1>1, <2>1
  <2>3. QED
    BY <2>2 DEF x, z
<1>4. Whole * Scale \in Nat \ {0}
  BY <1>1
<1>5. QED
  BY <1>3, <1>4, FractionIsShare, QuotientMonotone

\* The price of a band: the price times one less or one more the share.
BandAt(p, f, side) == (p * (IF side = "bid" THEN Scale - f ELSE Scale + f)) \div Scale

\* A price that is in the market's range.
Fits(p) == p \in Nat /\ 2 * p < Half

\* A band lies outside its price, and is a natural.
LEMMA BandIsOutside ==
    ASSUME NEW p, Fits(p), NEW f \in 0 .. Scale
    PROVE  /\ BandAt(p, f, "bid") \in Nat /\ BandAt(p, f, "bid") <= p
           /\ BandAt(p, f, "ask") \in Nat /\ BandAt(p, f, "ask") >= p
           /\ BandAt(p, f, "ask") <= 2 * p
<1>1. p \in Nat /\ Scale \in Nat \ {0} /\ f \in Nat /\ f <= Scale
  BY Powers DEF Fits
<1> DEFINE x == p * (Scale - f)
           z == p * (Scale + f)
<1>2. x \in Nat /\ z \in Nat
  BY <1>1
<1>3. p * Scale \in Nat /\ p * f \in Nat
  BY <1>1
<1>4. /\ x = p * Scale - p * f
      /\ z = p * Scale + p * f
  BY <1>1
<1>5. p * f <= p * Scale
  BY <1>1
<1>6. /\ Scale * p = p * Scale
      /\ Scale * (p + 1) = p * Scale + Scale
      /\ Scale * (2 * p + 1) = p * Scale + p * Scale + Scale
  BY <1>1
<1> HIDE DEF x, z
<1>7. x < Scale * (p + 1) /\ z < Scale * (2 * p + 1) /\ Scale * p <= z
  BY <1>1, <1>2, <1>3, <1>4, <1>5, <1>6
<1>8. x \div Scale \in Nat /\ z \div Scale \in Nat
  BY <1>1, <1>2, QuotientBounds
<1>9. x \div Scale <= p
  BY <1>1, <1>2, <1>7, QuotientAtMost
<1>10. z \div Scale <= 2 * p
  BY <1>1, <1>2, <1>7, QuotientAtMost
<1>11. z \div Scale >= p
  BY <1>1, <1>2, <1>7, QuotientAtLeast
<1>12. QED
  BY <1>8, <1>9, <1>10, <1>11 DEF BandAt, x, z

\* A greater share moves a band further out.
LEMMA BandIsMonotone ==
    ASSUME NEW p \in Nat, NEW f \in 0 .. Scale, NEW g \in 0 .. Scale, f <= g
    PROVE  /\ BandAt(p, g, "bid") <= BandAt(p, f, "bid")
           /\ BandAt(p, g, "ask") >= BandAt(p, f, "ask")
<1>1. Scale \in Nat \ {0} /\ f \in Nat /\ g \in Nat /\ f <= Scale /\ g <= Scale
  BY Powers
<1>2. /\ Scale - g \in Nat /\ Scale - f \in Nat /\ Scale - g <= Scale - f
      /\ Scale + g \in Nat /\ Scale + f \in Nat /\ Scale + f <= Scale + g
  BY <1>1
<1>3. ASSUME NEW a \in Nat, NEW b \in Nat, a <= b
      PROVE  (p * a) \div Scale <= (p * b) \div Scale
  <2>1. p * a \in Nat /\ p * b \in Nat /\ p * a <= p * b
    BY <1>3
  <2>2. QED
    BY <1>1, <2>1, QuotientMonotone
<1>4. /\ (p * (Scale - g)) \div Scale <= (p * (Scale - f)) \div Scale
      /\ (p * (Scale + f)) \div Scale <= (p * (Scale + g)) \div Scale
  BY <1>2, <1>3
<1>5. /\ (p * (Scale + f)) \div Scale \in Nat
      /\ (p * (Scale + g)) \div Scale \in Nat
  <2>1. p * (Scale + f) \in Nat /\ p * (Scale + g) \in Nat
    BY <1>2
  <2>2. QED
    BY <1>1, <2>1, QuotientBounds
<1>6. QED
  BY <1>4, <1>5 DEF BandAt

\* What adjustPrice computes in wide decimals.
LEMMA AdjustedPrice ==
    ASSUME NEW p, Fits(p), NEW o \in Offset
    PROVE  /\ AdjustPrice(p, o, "bid") = BandAt(p, Fraction(TRUE, o), "bid")
           /\ AdjustPrice(p, o, "ask") = BandAt(p, Fraction(TRUE, o), "ask")
<1> DEFINE f == Fraction(TRUE, o)
<1>1. o \in 0 .. Whole
  BY BandAssumption
<1>2. f \in 0 .. Scale
  BY <1>1, FractionIsShare
<1> HIDE DEF f
<1>3. p \in Nat /\ 2 * p < Half /\ Half \in Nat /\ Scale \in Nat \ {0}
  BY Powers DEF Fits
<1>4. Scale - f \in Nat /\ Scale + f \in Nat /\ FromInteger(1) = Scale
  BY <1>2, <1>3 DEF FromInteger
<1>5. /\ BandAt(p, f, "bid") \in Nat /\ BandAt(p, f, "bid") <= p
      /\ BandAt(p, f, "ask") \in Nat /\ BandAt(p, f, "ask") <= 2 * p
  BY <1>2, BandIsOutside
<1>6. BandAt(p, f, "bid") < Half /\ BandAt(p, f, "ask") < Half
  BY <1>3, <1>5
<1>7. /\ BandAt(p, f, "bid") = (p * (Scale - f)) \div Scale
      /\ BandAt(p, f, "ask") = (p * (Scale + f)) \div Scale
  BY DEF BandAt
<1>8. /\ Multiply(TRUE, p, Scale - f) = BandAt(p, f, "bid")
      /\ Multiply(TRUE, p, Scale + f) = BandAt(p, f, "ask")
  BY <1>3, <1>4, <1>6, <1>7, MultiplyNaturals
<1>9. /\ AdjustPrice(p, o, "bid") = Multiply(TRUE, p, Scale - f)
      /\ AdjustPrice(p, o, "ask") = Multiply(TRUE, p, Scale + f)
  BY <1>4 DEF AdjustPrice, f
<1>10. QED
  BY <1>8, <1>9 DEF f

-----------------------------------------------------------------------------
(* What the wire makes of a number.                                        *)

\* A raw number on the wire: its whole, and its fraction cut to a unit.
LEMMA SentIsCut ==
    ASSUME NEW p \in Nat, p < Half
    PROVE  /\ Sent(p) = Scale * (p \div Scale) + Unit * ((p % Scale) \div Unit)
           /\ Sent(p) \in Nat
           /\ Sent(p) <= p
<1> DEFINE w == p \div Scale
           r == p % Scale
           c == r \div Unit
<1>1. Scale \in Nat \ {0} /\ Unit \in Nat \ {0} /\ Half \in Nat
  BY Powers
<1>2. w \in Nat /\ r \in Nat /\ p = Scale * w + r
  BY <1>1, QuotientBounds, RemainderBounds
<1> HIDE DEF w, r
<1>3. c \in Nat /\ Unit * c <= r
  BY <1>1, <1>2, QuotientBounds
<1> HIDE DEF c
<1>4. Scale * w \in Nat /\ Unit * c \in Nat
  BY <1>1, <1>2, <1>3
<1> DEFINE x == Scale * w + Unit * c
<1>5. x \in Nat /\ x <= p
  BY <1>2, <1>3, <1>4
<1>6. w * Scale + c * Unit = x
  BY <1>1, <1>2, <1>3
<1>7. ToText(p, Precision) = [negative |-> FALSE, whole |-> w, fraction |-> c,
                              places |-> Precision]
  <2>1. (p < 0) = FALSE /\ Abs(p) = p
    BY DEF Abs
  <2>2. QED
    BY <2>1, Zenon DEF ToText, w, r, c, Unit
<1>8. Sent(p) = Stored(x)
  <2>1. Precision <= Digits
    BY BandAssumption, DecimalAssumption
  <2>2. FromString(ToText(p, Precision)) = Stored(w * Scale + c * Unit)
    BY <1>7, <2>1 DEF FromString, Unit
  <2>3. QED
    BY <1>6, <2>2 DEF Sent
<1>9. Stored(x) = x
  <2> HIDE DEF x
  <2>1. x < Half
    BY <1>1, <1>5
  <2>2. QED
    BY <1>5, <2>1, StoredFits
<1>10. QED
  BY <1>5, <1>8, <1>9 DEF w, r, c

\* Zero stays zero.
LEMMA SentZero == Sent(0) = 0
<1>1. Half \in Nat \ {0}
  BY Powers
<1>2. Sent(0) \in Nat /\ Sent(0) <= 0
  BY <1>1, SentIsCut
<1>3. QED
  BY <1>2

\* The wire keeps the order of numbers, if not their difference.
LEMMA SentMonotone ==
    ASSUME NEW p \in Nat, NEW q \in Nat, p <= q, q < Half
    PROVE  Sent(p) <= Sent(q)
<1> DEFINE w(x) == x \div Scale
           r(x) == x % Scale
           c(x) == (x % Scale) \div Unit
<1>1. Scale \in Nat \ {0} /\ Unit \in Nat \ {0} /\ Half \in Nat /\ p < Half
  BY Powers
<1>2. /\ Sent(p) = Scale * w(p) + Unit * c(p) /\ Sent(p) \in Nat /\ Sent(p) <= p
      /\ Sent(q) = Scale * w(q) + Unit * c(q) /\ Sent(q) \in Nat
  BY <1>1, SentIsCut
<1>3. /\ w(p) \in Nat /\ p < Scale * w(p) + Scale
      /\ w(q) \in Nat
      /\ r(p) \in Nat /\ p = Scale * w(p) + r(p)
      /\ r(q) \in Nat /\ q = Scale * w(q) + r(q)
  BY <1>1, QuotientBounds, RemainderBounds
<1>4. c(p) \in Nat /\ c(q) \in Nat
  BY <1>1, <1>3, QuotientBounds
<1>5. w(p) <= w(q)
  BY <1>1, QuotientMonotone
<1>6. CASE w(p) = w(q)
  <2> HIDE DEF w, r
  <2>1. r(p) <= r(q)
    BY <1>1, <1>3, <1>6
  <2>2. c(p) <= c(q)
    BY <1>1, <1>3, <2>1, QuotientMonotone DEF r
  <2> HIDE DEF c
  <2>3. Unit * c(p) <= Unit * c(q)
    BY <1>1, <1>4, <2>2
  <2>4. Scale * w(p) \in Nat /\ Unit * c(p) \in Nat /\ Unit * c(q) \in Nat
    BY <1>1, <1>3, <1>4
  <2>5. QED
    BY <1>2, <1>6, <2>3, <2>4
<1>7. CASE w(p) + 1 <= w(q)
  <2> HIDE DEF w, c
  <2>1. Scale * (w(p) + 1) <= Scale * w(q)
    BY <1>1, <1>3, <1>7
  <2>2. Scale * (w(p) + 1) = Scale * w(p) + Scale
    BY <1>1, <1>3
  <2>3. /\ Scale * w(p) \in Nat /\ Scale * w(q) \in Nat
        /\ Unit * c(q) \in Nat
    BY <1>1, <1>3, <1>4
  <2>4. QED
    BY <1>1, <1>2, <1>3, <2>1, <2>2, <2>3
<1>8. QED
  BY <1>3, <1>5, <1>6, <1>7

-----------------------------------------------------------------------------
(* The engine's ladders.                                                   *)

\* Prices are strictly ordered by what is better on a side.
LEMMA BetterIsOrder ==
    ASSUME NEW p \in Nat, NEW q \in Nat, NEW r \in Nat, NEW side
    PROVE  /\ ~Better(side, p, p)
           /\ p = q \/ Better(side, p, q) \/ Better(side, q, p)
           /\ Better(side, p, q) /\ Better(side, q, r) => Better(side, p, r)
BY DEF Better

\* Some prices have a worst one.
LEMMA WorstPrice ==
    ASSUME NEW side, NEW U \in SUBSET Price, U # {}
    PROVE  \E x \in U : \A y \in U \ {x} : Better(side, y, x)
<1> DEFINE T == {V \in SUBSET Price :
                    V = {} \/ \E x \in V : \A y \in V \ {x} : Better(side, y, x)}
<1>1. ASSUME NEW V \in SUBSET Price, \A x \in V : V \ {x} \in T PROVE V \in T
  <2>1. SUFFICES ASSUME NEW z \in V
                 PROVE  \E x \in V : \A y \in V \ {x} : Better(side, y, x)
    OBVIOUS
  <2>2. CASE V \ {z} = {}
    BY <2>2
  <2>3. CASE V \ {z} # {}
    <3>1. PICK x \in V \ {z} : \A y \in (V \ {z}) \ {x} : Better(side, y, x)
      BY <1>1, <2>3
    <3>2. \A y \in V : y \in Nat
      BY BandAssumption
    <3>3. x \in Nat /\ z \in Nat /\ x # z
      BY <3>2
    <3>4. CASE Better(side, z, x)
      BY <3>1, <3>4
    <3>5. CASE Better(side, x, z)
      <4>1. ASSUME NEW y \in V \ {z} PROVE Better(side, y, z)
        <5>1. y = x \/ Better(side, y, x)
          BY <3>1
        <5>2. QED
          BY <3>2, <3>3, <3>5, <5>1, BetterIsOrder
      <4>2. QED
        BY <4>1
    <3>6. QED
      BY <3>3, <3>4, <3>5, BetterIsOrder
  <2>4. QED
    BY <2>2, <2>3
<1>2. U \in T
  <2>1. IsFiniteSet(Price)
    BY BandAssumption
  <2> HIDE DEF T
  <2> QED
    BY <1>1, <2>1, AllSubsets
<1>3. QED
  BY <1>2

\* A sequence of all of U, best first.
IsBestFirst(s, U, side) ==
    /\ s \in [1 .. Cardinality(U) -> U]
    /\ \A i, j \in 1 .. Cardinality(U) : i < j => Better(side, s[i], s[j])

\* Prices can be sorted.
LEMMA BestFirstExists ==
    ASSUME NEW side, NEW U \in SUBSET Price
    PROVE  \E s : IsBestFirst(s, U, side)
<1> DEFINE T == {V \in SUBSET Price : \E s : IsBestFirst(s, V, side)}
<1>1. ASSUME NEW V \in SUBSET Price, \A x \in V : V \ {x} \in T PROVE V \in T
  <2>1. IsFiniteSet(V)
    BY BandAssumption, FS_Subset
  <2>2. CASE V = {}
    <3>1. 1 .. Cardinality(V) = {}
      BY <2>2, FS_EmptySet
    <3>2. IsBestFirst([k \in 1 .. Cardinality(V) |-> 0], V, side)
      BY <3>1 DEF IsBestFirst
    <3>3. QED
      BY <3>2
  <2>3. CASE V # {}
    <3>1. PICK x \in V : \A y \in V \ {x} : Better(side, y, x)
      BY <2>3, WorstPrice
    <3>2. PICK s : IsBestFirst(s, V \ {x}, side)
      BY <1>1
    <3> DEFINE n == Cardinality(V \ {x})
               t == [k \in 1 .. n + 1 |-> IF k = n + 1 THEN x ELSE s[k]]
    <3>3. n \in Nat /\ Cardinality(V) = n + 1
      <4>1. IsFiniteSet(V \ {x}) /\ Cardinality(V \ {x}) = Cardinality(V) - 1
        BY <2>1, FS_RemoveElement
      <4>2. Cardinality(V) \in Nat /\ Cardinality(V \ {x}) \in Nat
        BY <2>1, <4>1, FS_CardinalityType
      <4>3. QED
        BY <4>1, <4>2
    <3>4. \A k \in 1 .. n : s[k] \in V \ {x}
      BY <3>2 DEF IsBestFirst
    <3>5. \A i, j \in 1 .. n : i < j => Better(side, s[i], s[j])
      BY <3>2 DEF IsBestFirst
    <3> HIDE DEF n
    <3>6. \A k \in 1 .. n + 1 : k = n + 1 \/ k \in 1 .. n
      BY <3>3
    <3>7. t \in [1 .. n + 1 -> V]
      BY <3>4, <3>6
    <3>8. ASSUME NEW i \in 1 .. n + 1, NEW j \in 1 .. n + 1, i < j
          PROVE  Better(side, t[i], t[j])
      <4>1. i \in 1 .. n /\ t[i] = s[i]
        BY <3>3, <3>8
      <4>2. CASE j = n + 1
        BY <3>1, <3>4, <4>1, <4>2
      <4>3. CASE j \in 1 .. n
        <5>1. t[j] = s[j]
          BY <3>3, <4>3
        <5>2. QED
          BY <3>5, <3>8, <4>1, <4>3, <5>1
      <4>4. QED
        BY <3>6, <4>2, <4>3
    <3> HIDE DEF t
    <3>9. IsBestFirst(t, V, side)
      BY <3>3, <3>7, <3>8 DEF IsBestFirst
    <3>10. QED
      BY <3>9
  <2>4. QED
    BY <2>2, <2>3
<1>2. U \in T
  <2>1. IsFiniteSet(Price)
    BY BandAssumption
  <2> HIDE DEF T
  <2> QED
    BY <1>1, <2>1, AllSubsets
<1>3. QED
  BY <1>2

-----------------------------------------------------------------------------
(* The views that arrive.                                                  *)

\* The numbers of the market fit, and so do the notionals of its levels.
LEMMA MarketFits ==
    ASSUME NEW p \in Price, NEW q \in Quantity
    PROVE  /\ Fits(p) /\ p < Half
           /\ q \in Nat \ {0} /\ q < Half
           /\ (p * q) \div Scale < Half
<1>1. p \in Nat /\ q \in Nat \ {0}
  BY BandAssumption
<1>2. 2 * p < Half /\ q < Half /\ (p * q) \div Scale < Half
  BY RangeAssumption DEF Half
<1>3. Half \in Nat
  BY Powers
<1>4. p < Half
  BY <1>1, <1>2, <1>3
<1>5. QED
  BY <1>1, <1>2, <1>4 DEF Fits

\* A number that fits still does on the wire.
LEMMA SentFits ==
    ASSUME NEW p \in Price
    PROVE  Fits(Sent(p)) /\ Sent(p) <= p
<1>1. p \in Nat /\ 2 * p < Half /\ Half \in Nat
  BY BandAssumption, RangeAssumption, Powers DEF Half
<1>2. p < Half
  BY <1>1
<1>3. Sent(p) \in Nat /\ Sent(p) <= p
  BY <1>1, <1>2, SentIsCut
<1>4. 2 * Sent(p) < Half
  BY <1>1, <1>3
<1>5. QED
  BY <1>3, <1>4 DEF Fits

\* What a level is worth.
Value(quote) == (quote.price * quote.quantity) \div Scale

\* A level that a calculator may be given.
Sound(quote) == quote \in Quote /\ Fits(quote.price) /\ Value(quote) < Half

\* The wire makes a sound level of one of the engine's.
LEMMA WireIsSound ==
    ASSUME NEW p \in Price, NEW q \in Quantity
    PROVE  Sound(OnWire([price |-> p, quantity |-> q]))
<1> DEFINE sp == Sent(p)
           sq == Sent(q)
<1>1. /\ p \in Nat /\ q \in Nat /\ q < Half
      /\ (p * q) \div Scale < Half
      /\ Scale \in Nat \ {0} /\ Half \in Nat
  BY BandAssumption, MarketFits, Powers
<1>2. sp \in Nat /\ sp <= p /\ Fits(sp)
  BY SentFits DEF Fits
<1>3. sq \in Nat /\ sq <= q
  BY <1>1, SentIsCut
<1>4. OnWire([price |-> p, quantity |-> q]) = [price |-> sp, quantity |-> sq]
  BY DEF OnWire
<1> HIDE DEF sp, sq
<1>5. sp * sq \in Nat /\ p * q \in Nat /\ sp * sq <= p * q
  <2>1. sp * sq <= p * sq
    BY <1>1, <1>2, <1>3
  <2>2. p * sq <= p * q
    BY <1>1, <1>3
  <2>3. sp * sq \in Nat /\ p * sq \in Nat /\ p * q \in Nat
    BY <1>1, <1>2, <1>3
  <2>4. QED
    BY <2>1, <2>2, <2>3
<1>6. (sp * sq) \div Scale <= (p * q) \div Scale
  BY <1>1, <1>5, QuotientMonotone
<1>7. (sp * sq) \div Scale \in Nat /\ (p * q) \div Scale \in Nat
  BY <1>1, <1>5, QuotientBounds
<1>8. (sp * sq) \div Scale < Half
  <2> DEFINE x == (sp * sq) \div Scale
             y == (p * q) \div Scale
  <2>1. x \in Nat /\ y \in Nat /\ x <= y /\ y < Half
    BY <1>1, <1>6, <1>7
  <2> HIDE DEF x, y
  <2>2. x < Half
    BY <1>1, <2>1
  <2>3. QED
    BY <2>2 DEF x
<1>9. QED
  BY <1>2, <1>3, <1>4, <1>8 DEF Sound, Value, Quote

\* A side of the engine's view: the prices with a quantity, best first.
LEMMA LadderIsSorted ==
    ASSUME NEW level \in Uncrossed, NEW side \in {"bid", "ask"}
    PROVE  \E n \in Nat :
             /\ Ladder(level, side) \in [1 .. n -> [price : Price, quantity : Quantity]]
             /\ \A k \in 1 .. n : level[side][Ladder(level, side)[k].price] > 0
             /\ \A i, j \in 1 .. n :
                  i < j => Better(side, Ladder(level, side)[i].price,
                                        Ladder(level, side)[j].price)
<1> DEFINE U == {p \in Price : level[side][p] > 0}
           n == Cardinality(U)
           s == BestFirst(U, side)
           L == Ladder(level, side)
<1>1. level[side] \in [Price -> Quantity \cup {0}]
  BY DEF Uncrossed
<1>2. U \in SUBSET Price /\ IsFiniteSet(U)
  BY BandAssumption, FS_Subset
<1>3. n \in Nat
  BY <1>2, FS_CardinalityType
<1>4. IsBestFirst(s, U, side)
  <2> HIDE DEF U
  <2> QED
    BY <1>2, BestFirstExists DEF BestFirst, IsBestFirst
<1>5. /\ s \in [1 .. n -> U]
      /\ \A i, j \in 1 .. n : i < j => Better(side, s[i], s[j])
  <2> HIDE DEF U
  <2> QED
    BY <1>4 DEF IsBestFirst
<1>6. L = [k \in DOMAIN s |-> [price |-> s[k], quantity |-> level[side][s[k]]]]
  BY DEF Ladder
<1>7. \A p \in U : p \in Price /\ level[side][p] \in Quantity /\ level[side][p] > 0
  <2>1. ~(0 > 0)
    OBVIOUS
  <2>2. QED
    BY <1>1, <2>1
<1> HIDE DEF U, n, s, L
<1>8. L = [k \in 1 .. n |-> [price |-> s[k], quantity |-> level[side][s[k]]]]
  BY <1>5, <1>6
<1>9. \A k \in 1 .. n : s[k] \in U
  BY <1>5
<1>10. /\ L \in [1 .. n -> [price : Price, quantity : Quantity]]
       /\ \A k \in 1 .. n : L[k].price = s[k] /\ level[side][L[k].price] > 0
  BY <1>7, <1>8, <1>9
<1>11. \A i, j \in 1 .. n : i < j => Better(side, L[i].price, L[j].price)
  BY <1>5, <1>10
<1>12. QED
  BY <1>3, <1>10, <1>11 DEF L

\* A side of a view as it arrives: sound levels, no later one better.
Offered(levels, side) ==
    /\ levels \in Seq(Quote)
    /\ \A k \in 1 .. Len(levels) : Sound(levels[k])
    /\ \A i, j \in 1 .. Len(levels) :
         i < j => ~Better(side, levels[j].price, levels[i].price)

Wired(ladder) == [k \in DOMAIN ladder |-> OnWire(ladder[k])]

\* The wire keeps a side in order, and its first level the best quote.
LEMMA WireKeepsOrder ==
    ASSUME NEW level \in Uncrossed, NEW side \in {"bid", "ask"}
    PROVE  /\ Offered(Wired(Ladder(level, side)), side)
           /\ OnWire(Best(Ladder(level, side))) = Best(Wired(Ladder(level, side)))
           /\ Wired(Ladder(level, side)) # <<>> =>
                \E p \in Price : /\ level[side][p] > 0
                                 /\ Best(Wired(Ladder(level, side))).price = Sent(p)
<1> DEFINE L == Ladder(level, side)
           W == Wired(L)
<1>1. PICK n \in Nat :
        /\ L \in [1 .. n -> [price : Price, quantity : Quantity]]
        /\ \A k \in 1 .. n : level[side][L[k].price] > 0
        /\ \A i, j \in 1 .. n : i < j => Better(side, L[i].price, L[j].price)
  BY LadderIsSorted
<1> HIDE DEF L
<1>2. W = [k \in 1 .. n |-> OnWire(L[k])]
  BY <1>1 DEF Wired
<1> HIDE DEF W
<1>3. ASSUME NEW k \in 1 .. n
      PROVE  /\ Sound(W[k])
             /\ W[k].price = Sent(L[k].price)
             /\ L[k].price \in Price
  <2>1. L[k].price \in Price /\ L[k].quantity \in Quantity
    BY <1>1
  <2>2. L[k] = [price |-> L[k].price, quantity |-> L[k].quantity]
    BY <1>1
  <2>3. W[k] = OnWire(L[k])
    BY <1>2
  <2>4. Sound(W[k])
    BY <2>1, <2>2, <2>3, WireIsSound
  <2>5. QED
    BY <2>1, <2>3, <2>4 DEF OnWire
<1>4. W \in Seq(Quote) /\ Len(W) = n
  <2>1. \A k \in 1 .. n : W[k] \in Quote
    BY <1>3 DEF Sound
  <2>2. W \in [1 .. n -> Quote]
    BY <1>2, <2>1
  <2>3. QED
    BY <2>2
<1>5. ASSUME NEW i \in 1 .. n, NEW j \in 1 .. n, i < j
      PROVE  ~Better(side, W[j].price, W[i].price)
  <2> DEFINE p == L[i].price
             q == L[j].price
  <2>1. p \in Price /\ q \in Price /\ Better(side, p, q)
    BY <1>1, <1>3, <1>5
  <2>2. W[i].price = Sent(p) /\ W[j].price = Sent(q)
    BY <1>3
  <2> HIDE DEF p, q
  <2>3. p \in Nat /\ q \in Nat /\ p < Half /\ q < Half
    <3>1. 2 * p < Half /\ 2 * q < Half /\ Half \in Nat /\ p \in Nat /\ q \in Nat
      BY <2>1, BandAssumption, RangeAssumption, Powers DEF Half
    <3>2. QED
      BY <3>1
  <2>4. Sent(p) \in Nat /\ Sent(q) \in Nat
    BY <2>3, SentIsCut
  <2>5. CASE side = "bid"
    <3>1. q <= p
      BY <2>1, <2>3, <2>5 DEF Better
    <3>2. Sent(q) <= Sent(p)
      BY <2>3, <3>1, SentMonotone
    <3>3. QED
      BY <2>2, <2>4, <2>5, <3>2 DEF Better
  <2>6. CASE side = "ask"
    <3>1. p <= q
      BY <2>1, <2>3, <2>6 DEF Better
    <3>2. Sent(p) <= Sent(q)
      BY <2>3, <3>1, SentMonotone
    <3>3. QED
      BY <2>2, <2>4, <2>6, <3>2 DEF Better
  <2>7. QED
    BY <2>5, <2>6
<1>6. Offered(W, side)
  BY <1>3, <1>4, <1>5 DEF Offered
<1>7. CASE n = 0
  <2>1. L = <<>> /\ W = <<>>
    BY <1>1, <1>4, <1>7
  <2>2. OnWire(NoQuote) = NoQuote
    BY SentZero DEF OnWire, NoQuote
  <2>3. QED
    BY <1>6, <2>1, <2>2 DEF Best, L, W
<1>8. CASE n # 0
  <2>1. 1 \in 1 .. n
    BY <1>8
  <2>2. L # <<>> /\ W # <<>>
    BY <1>1, <1>4, <1>8
  <2>3. Best(L) = L[1] /\ Best(W) = W[1] /\ W[1] = OnWire(L[1])
    BY <1>2, <2>1, <2>2 DEF Best
  <2>4. Best(W).price = Sent(L[1].price) /\ L[1].price \in Price
    BY <1>3, <2>1, <2>3
  <2>5. level[side][L[1].price] > 0
    BY <1>1, <2>1
  <2>6. QED
    BY <1>6, <2>3, <2>4, <2>5 DEF L, W
<1>9. QED
  BY <1>7, <1>8

\* What a view that arrives looks like.
SoundView(v) ==
    /\ Offered(v.bid_levels, "bid") /\ Offered(v.ask_levels, "ask")
    /\ v.best_bid = Best(v.bid_levels) /\ v.best_ask = Best(v.ask_levels)
    /\ v.bid_levels # <<>> /\ v.ask_levels # <<>>
         => v.best_bid.price <= v.best_ask.price

\* An uncrossed book is not crossed on the wire, if its sides may touch there.
LEMMA ViewsAreSound ==
    ASSUME NEW v \in Views
    PROVE  SoundView(v) /\ v \in View
<1>1. PICK level \in Uncrossed : v = Received(level)
  BY DEF Views
<1> DEFINE B == Wired(Ladder(level, "bid"))
           A == Wired(Ladder(level, "ask"))
<1>2. v = [bid_levels |-> B, ask_levels |-> A,
           best_bid |-> OnWire(Best(Ladder(level, "bid"))),
           best_ask |-> OnWire(Best(Ladder(level, "ask")))]
  BY <1>1 DEF Received, Wired
<1>3. /\ Offered(B, "bid") /\ OnWire(Best(Ladder(level, "bid"))) = Best(B)
      /\ B # <<>> => \E p \in Price : level["bid"][p] > 0 /\ Best(B).price = Sent(p)
  BY WireKeepsOrder
<1>4. /\ Offered(A, "ask") /\ OnWire(Best(Ladder(level, "ask"))) = Best(A)
      /\ A # <<>> => \E p \in Price : level["ask"][p] > 0 /\ Best(A).price = Sent(p)
  BY WireKeepsOrder
<1>5. ASSUME B # <<>>, A # <<>> PROVE Best(B).price <= Best(A).price
  <2>1. PICK b \in Price : level["bid"][b] > 0 /\ Best(B).price = Sent(b)
    BY <1>3, <1>5
  <2>2. PICK a \in Price : level["ask"][a] > 0 /\ Best(A).price = Sent(a)
    BY <1>4, <1>5
  <2>3. b < a
    BY <2>1, <2>2 DEF Uncrossed
  <2>4. b \in Nat /\ a \in Nat /\ 2 * a < Half /\ Half \in Nat
    BY BandAssumption, RangeAssumption, Powers DEF Half
  <2>5. b <= a /\ a < Half
    BY <2>3, <2>4
  <2>6. QED
    BY <2>1, <2>2, <2>4, <2>5, SentMonotone
<1>6. ASSUME NEW levels, NEW side, Offered(levels, side)
      PROVE  levels \in Seq(Quote) /\ Best(levels) \in Quote
  <2>1. levels \in Seq(Quote)
    BY <1>6 DEF Offered
  <2>2. levels # <<>> => Head(levels) \in Quote
    BY <2>1
  <2>3. NoQuote \in Quote
    BY DEF NoQuote, Quote
  <2>4. QED
    BY <2>1, <2>2, <2>3 DEF Best
<1> HIDE DEF B, A
<1>7. v = [bid_levels |-> B, ask_levels |-> A, best_bid |-> Best(B), best_ask |-> Best(A)]
  BY <1>2, <1>3, <1>4
<1>8. SoundView(v)
  BY <1>3, <1>4, <1>5, <1>7 DEF SoundView
<1>9. v \in View
  BY <1>3, <1>4, <1>6, <1>7 DEF View
<1>10. QED
  BY <1>8, <1>9

\* The best quote of a side that is offered.
LEMMA BestIsFirst ==
    ASSUME NEW levels, NEW side, Offered(levels, side)
    PROVE  /\ levels = <<>> => Best(levels) = NoQuote
           /\ levels # <<>> => Best(levels) = levels[1] /\ Best(levels) = Head(levels)
           /\ Best(levels) \in Quote /\ Fits(Best(levels).price)
<1>1. levels \in Seq(Quote) /\ \A k \in 1 .. Len(levels) : Sound(levels[k])
  BY DEF Offered
<1>2. CASE levels = <<>>
  <2>1. 0 \in Nat /\ 2 * 0 < Half
    BY Powers
  <2>2. QED
    BY <1>2, <2>1 DEF Best, NoQuote, Quote, Fits
<1>3. CASE levels # <<>>
  <2>1. Len(levels) # 0 /\ Len(levels) \in Nat /\ Head(levels) = levels[1]
    BY <1>1, <1>3
  <2>2. 1 \in 1 .. Len(levels)
    BY <2>1
  <2>3. Sound(levels[1])
    BY <1>1, <2>2
  <2>4. QED
    BY <1>3, <2>1, <2>3 DEF Best, Sound
<1>4. QED
  BY <1>2, <1>3

-----------------------------------------------------------------------------
(* Running sums.                                                           *)

\* A function that holds the sum of the first k values of g.
Runs(f, n, g) == f = [k \in 0 .. n |-> IF k = 0 THEN 0 ELSE f[k - 1] + g[k]]

\* The recursion of a running sum has a solution.
LEMMA RunExists ==
    ASSUME NEW n \in Nat, NEW g
    PROVE  \E f : Runs(f, n, g)
<1> DEFINE T == {m \in Nat : \E f : Runs(f, m, g)}
<1>1. 0 \in T
  <2>1. Runs([k \in 0 .. 0 |-> 0], 0, g)
    BY DEF Runs
  <2>2. QED
    BY <2>1
<1>2. ASSUME NEW m \in T PROVE m + 1 \in T
  <2>1. PICK f : Runs(f, m, g)
    OBVIOUS
  <2> DEFINE h == [k \in 0 .. m + 1 |-> IF k = 0 THEN 0 ELSE f[k - 1] + g[k]]
  <2>2. \A k \in 0 .. m : f[k] = IF k = 0 THEN 0 ELSE f[k - 1] + g[k]
    BY <2>1, Zenon DEF Runs
  <2>3. \A k \in 0 .. m : k \in 0 .. m + 1
    OBVIOUS
  <2>4. \A k \in 0 .. m : h[k] = f[k]
    BY <2>2, <2>3
  <2>5. \A k \in 0 .. m + 1 : k = 0 \/ k - 1 \in 0 .. m
    OBVIOUS
  <2>6. h = [k \in 0 .. m + 1 |-> IF k = 0 THEN 0 ELSE h[k - 1] + g[k]]
    <3>1. ASSUME NEW k \in 0 .. m + 1, k # 0 PROVE f[k - 1] = h[k - 1]
      BY <2>4, <2>5, <3>1
    <3>2. QED
      BY <3>1
  <2>7. \E e : Runs(e, m + 1, g)
    <3> HIDE DEF h
    <3> QED
      BY <2>6 DEF Runs
  <2>8. QED
    BY <2>7
<1>3. T = Nat
  <2> T \in SUBSET Nat
    OBVIOUS
  <2> HIDE DEF T
  <2> QED
    BY <1>1, <1>2, AllNaturals
<1>4. QED
  BY <1>3

\* What a running sum is, value by value.
LEMMA RunSteps ==
    ASSUME NEW n \in Nat, NEW g, NEW f, Runs(f, n, g), \A k \in 1 .. n : g[k] \in Nat
    PROVE  /\ f[0] = 0
           /\ \A k \in 1 .. n : f[k] = f[k - 1] + g[k]
           /\ \A k \in 0 .. n : f[k] \in Nat
<1>1. \A k \in 0 .. n : f[k] = IF k = 0 THEN 0 ELSE f[k - 1] + g[k]
  BY Zenon DEF Runs
<1>2. f[0] = 0
  BY <1>1
<1>3. \A k \in 1 .. n : f[k] = f[k - 1] + g[k]
  <2>1. \A k \in 1 .. n : k \in 0 .. n /\ k # 0
    OBVIOUS
  <2>2. QED
    BY <1>1, <2>1
<1> DEFINE T == {k \in Nat : k <= n => f[k] \in Nat}
<1>4. ASSUME NEW k \in T PROVE k + 1 \in T
  <2>1. SUFFICES ASSUME k + 1 <= n PROVE f[k + 1] \in Nat
    OBVIOUS
  <2>2. k + 1 \in 1 .. n /\ (k + 1) - 1 = k /\ f[k] \in Nat
    BY <2>1
  <2>3. f[k + 1] = f[k] + g[k + 1] /\ g[k + 1] \in Nat
    BY <1>3, <2>2
  <2>4. QED
    BY <2>2, <2>3
<1>5. T = Nat
  <2>1. T \in SUBSET Nat /\ 0 \in T
    BY <1>2
  <2> HIDE DEF T
  <2>2. QED
    BY <1>4, <2>1, AllNaturals
<1>6. QED
  BY <1>2, <1>3, <1>5

\* The running sum of values that are those of another up to k, and 0 or
\* those of the other afterwards.
LEMMA RunOfPrefix ==
    ASSUME NEW n \in Nat, NEW g, NEW f, Runs(f, n, g), \A k \in 1 .. n : g[k] \in Nat,
           NEW h, NEW e, Runs(e, n, h), \A k \in 1 .. n : h[k] \in {0, g[k]},
           NEW m \in 0 .. n
    PROVE  /\ (\A k \in 1 .. m : h[k] = g[k]) => e[n] >= f[m]
           /\ (\A k \in m + 1 .. n : h[k] = 0) => e[n] <= f[m]
<1>1. \A k \in 1 .. n : h[k] \in Nat
  OBVIOUS
<1>2. /\ f[0] = 0
      /\ \A k \in 1 .. n : f[k] = f[k - 1] + g[k]
      /\ \A k \in 0 .. n : f[k] \in Nat
  BY RunSteps
<1>3. /\ e[0] = 0
      /\ \A k \in 1 .. n : e[k] = e[k - 1] + h[k]
      /\ \A k \in 0 .. n : e[k] \in Nat
  BY <1>1, RunSteps
<1>4. ASSUME \A k \in 1 .. m : h[k] = g[k] PROVE e[n] >= f[m]
  <2> DEFINE T == {k \in Nat : k <= n => /\ k <= m => e[k] = f[k]
                                         /\ k >= m => e[k] >= f[m]}
  <2>1. 0 \in T
    BY <1>2, <1>3
  <2>2. ASSUME NEW k \in T PROVE k + 1 \in T
    <3>1. SUFFICES ASSUME k + 1 <= n
                   PROVE  /\ k + 1 <= m => e[k + 1] = f[k + 1]
                          /\ k + 1 >= m => e[k + 1] >= f[m]
      OBVIOUS
    <3>2. k + 1 \in 1 .. n /\ (k + 1) - 1 = k /\ k \in 0 .. n
      BY <3>1
    <3>3. /\ e[k + 1] = e[k] + h[k + 1] /\ f[k + 1] = f[k] + g[k + 1]
          /\ e[k] \in Nat /\ h[k + 1] \in Nat /\ f[m] \in Nat
      BY <1>1, <1>2, <1>3, <3>2
    <3>4. (k <= m => e[k] = f[k]) /\ (k >= m => e[k] >= f[m])
      BY <3>1
    <3>5. CASE k + 1 <= m
      <4>1. k + 1 \in 1 .. m
        BY <3>5
      <4>2. e[k + 1] = f[k + 1]
        BY <1>4, <3>3, <3>4, <4>1
      <4>3. QED
        BY <3>3, <3>5, <4>2
    <3>6. CASE k >= m
      BY <3>3, <3>4, <3>6
    <3>7. QED
      BY <3>5, <3>6
  <2>3. T = Nat
    <3> T \in SUBSET Nat
      OBVIOUS
    <3> HIDE DEF T
    <3> QED
      BY <2>1, <2>2, AllNaturals
  <2>4. QED
    BY <2>3
<1>5. ASSUME \A k \in m + 1 .. n : h[k] = 0 PROVE e[n] <= f[m]
  <2> DEFINE T == {k \in Nat : k <= n => /\ k <= m => e[k] <= f[k]
                                         /\ k >= m => e[k] <= f[m]}
  <2>1. 0 \in T
    BY <1>2, <1>3
  <2>2. ASSUME NEW k \in T PROVE k + 1 \in T
    <3>1. SUFFICES ASSUME k + 1 <= n
                   PROVE  /\ k + 1 <= m => e[k + 1] <= f[k + 1]
                          /\ k + 1 >= m => e[k + 1] <= f[m]
      OBVIOUS
    <3>2. k + 1 \in 1 .. n /\ (k + 1) - 1 = k /\ k \in 0 .. n
      BY <3>1
    <3>3. /\ e[k + 1] = e[k] + h[k + 1] /\ f[k + 1] = f[k] + g[k + 1]
          /\ e[k] \in Nat /\ f[k] \in Nat /\ h[k + 1] \in {0, g[k + 1]} /\ g[k + 1] \in Nat
          /\ f[m] \in Nat
      BY <1>2, <1>3, <3>2
    <3>4. (k <= m => e[k] <= f[k]) /\ (k >= m => e[k] <= f[m])
      BY <3>1
    <3>5. CASE k + 1 <= m
      <4>1. e[k] <= f[k] /\ h[k + 1] <= g[k + 1] /\ h[k + 1] \in Nat
        BY <3>3, <3>4, <3>5
      <4>2. e[k + 1] <= f[k + 1]
        BY <3>3, <4>1
      <4>3. QED
        BY <3>5, <4>2
    <3>6. CASE k >= m
      <4>1. h[k + 1] = 0
        BY <1>5, <3>1, <3>6
      <4>2. QED
        BY <3>3, <3>4, <3>6, <4>1
    <3>7. QED
      BY <3>5, <3>6
  <2>3. T = Nat
    <3> T \in SUBSET Nat
      OBVIOUS
    <3> HIDE DEF T
    <3> QED
      BY <2>1, <2>2, AllNaturals
  <2>4. QED
    BY <2>3
<1>6. QED
  BY <1>4, <1>5

-----------------------------------------------------------------------------
(* The depth of a side.                                                    *)

\* A level is worth a natural.
LEMMA ValueIsNatural ==
    ASSUME NEW quote, Sound(quote)
    PROVE  Value(quote) \in Nat
<1>1. quote.price \in Nat /\ quote.quantity \in Nat
  BY DEF Sound, Quote
<1>2. quote.price * quote.quantity \in Nat /\ Scale \in Nat \ {0}
  BY <1>1, Powers
<1>3. QED
  BY <1>2, QuotientBounds DEF Value

\* The loop of findPriceForThreshold accumulates what the levels are worth.
LEMMA AccumulatedRuns ==
    ASSUME NEW levels, NEW side, Offered(levels, side)
    PROVE  Runs(Accumulated(levels), Len(levels),
                [k \in 1 .. Len(levels) |-> Value(levels[k])])
<1> DEFINE n == Len(levels)
           g == [k \in 1 .. n |-> Value(levels[k])]
           Sums(f) == f = [k \in 0 .. n |->
                             IF k = 0 THEN 0 ELSE f[k - 1] + Notional(levels[k])]
<1>1. n \in Nat /\ \A k \in 1 .. n : Sound(levels[k])
  BY DEF Offered
<1>2. ASSUME NEW k \in 1 .. n PROVE Notional(levels[k]) = g[k]
  <2>1. Sound(levels[k])
    BY <1>1
  <2>2. /\ levels[k].price \in Nat /\ levels[k].quantity \in Nat
        /\ (levels[k].price * levels[k].quantity) \div Scale < Half
    BY <2>1 DEF Sound, Value, Quote
  <2>3. Notional(levels[k]) = Value(levels[k])
    BY <2>2, MultiplyNaturals DEF Notional, Value
  <2>4. QED
    BY <2>3
<1> HIDE DEF g
<1>3. ASSUME NEW f PROVE Sums(f) <=> Runs(f, n, g)
  <2>1. \A k \in 0 .. n : k # 0 => k \in 1 .. n
    BY <1>1
  <2>2. [k \in 0 .. n |-> IF k = 0 THEN 0 ELSE f[k - 1] + Notional(levels[k])]
          = [k \in 0 .. n |-> IF k = 0 THEN 0 ELSE f[k - 1] + g[k]]
    BY <1>2, <2>1
  <2>3. QED
    BY <2>2, Zenon DEF Runs
<1>4. \E f : Sums(f)
  BY <1>1, <1>3, RunExists
<1>5. Accumulated(levels) = CHOOSE f : Sums(f)
  BY DEF Accumulated
<1>6. Sums(Accumulated(levels))
  <2> HIDE DEF Sums
  <2> QED
    BY <1>4, <1>5
<1>7. Runs(Accumulated(levels), n, g)
  <2> HIDE DEF Sums
  <2> QED
    BY <1>3, <1>6
<1>8. QED
  BY <1>7 DEF g

\* What some levels are worth is a running sum that skips the others.
LEMMA WorthRuns ==
    ASSUME NEW levels, Len(levels) \in Nat, NEW S
    PROVE  \E e : /\ Runs(e, Len(levels), [k \in 1 .. Len(levels) |->
                            IF k \in S THEN Value(levels[k]) ELSE 0])
                  /\ Worth(levels, S) = e[Len(levels)]
<1> DEFINE n == Len(levels)
           h == [k \in 1 .. n |-> IF k \in S THEN Value(levels[k]) ELSE 0]
           Sums(f) == f = [k \in 0 .. n |->
               IF k = 0 THEN 0
               ELSE f[k - 1] +
                      IF k \in S THEN (levels[k].price * levels[k].quantity) \div Scale
                                ELSE 0]
<1>1. \A k \in 0 .. n : k # 0 => k \in 1 .. n
  OBVIOUS
<1>2. ASSUME NEW k \in 1 .. n
      PROVE  h[k] = IF k \in S THEN (levels[k].price * levels[k].quantity) \div Scale
                              ELSE 0
  BY DEF Value
<1> HIDE DEF h
<1>3. ASSUME NEW f PROVE Sums(f) <=> Runs(f, n, h)
  <2>1. [k \in 0 .. n |->
           IF k = 0 THEN 0
           ELSE f[k - 1] +
                  IF k \in S THEN (levels[k].price * levels[k].quantity) \div Scale
                            ELSE 0]
          = [k \in 0 .. n |-> IF k = 0 THEN 0 ELSE f[k - 1] + h[k]]
    BY <1>1, <1>2
  <2>2. QED
    BY <2>1, Zenon DEF Runs
<1>4. \E f : Sums(f)
  BY <1>3, RunExists
<1> DEFINE e == CHOOSE f : Sums(f)
<1>5. Worth(levels, S) = e[n]
  BY DEF Worth
<1>6. Sums(e)
  <2> HIDE DEF Sums
  <2> QED
    BY <1>4
<1>7. Runs(e, n, h)
  <2> HIDE DEF Sums, e
  <2> QED
    BY <1>3, <1>6
<1>8. QED
  <2> HIDE DEF e
  <2> QED
    BY <1>5, <1>7 DEF h

\* What the levels of a side accumulate is monotone in what is counted.
LEMMA DepthOfPrefix ==
    ASSUME NEW levels, NEW side, Offered(levels, side), NEW m \in 0 .. Len(levels), NEW S
    PROVE  /\ 1 .. m \subseteq S => Worth(levels, S) >= Accumulated(levels)[m]
           /\ S \subseteq 1 .. m => Worth(levels, S) <= Accumulated(levels)[m]
<1> DEFINE n == Len(levels)
           g == [k \in 1 .. n |-> Value(levels[k])]
           h == [k \in 1 .. n |-> IF k \in S THEN Value(levels[k]) ELSE 0]
<1>1. n \in Nat /\ \A k \in 1 .. n : Sound(levels[k])
  BY DEF Offered
<1>2. ASSUME NEW k \in 1 .. n PROVE g[k] \in Nat
  <2>1. Value(levels[k]) \in Nat
    BY <1>1, ValueIsNatural
  <2>2. QED
    BY <2>1
<1>3. \A k \in 1 .. n : h[k] = IF k \in S THEN g[k] ELSE 0
  OBVIOUS
<1>4. PICK e : Runs(e, n, h) /\ Worth(levels, S) = e[n]
  BY <1>1, WorthRuns
<1>5. Runs(Accumulated(levels), n, g)
  BY AccumulatedRuns
<1> HIDE DEF g, h
<1>6. \A k \in 1 .. n : h[k] \in {0, g[k]}
  BY <1>3
<1>7. /\ (\A k \in 1 .. m : h[k] = g[k]) => e[n] >= Accumulated(levels)[m]
      /\ (\A k \in m + 1 .. n : h[k] = 0) => e[n] <= Accumulated(levels)[m]
  BY <1>1, <1>2, <1>4, <1>5, <1>6, RunOfPrefix
<1>8. 1 .. m \subseteq S => \A k \in 1 .. m : h[k] = g[k]
  <2>1. \A k \in 1 .. m : k \in 1 .. n
    BY <1>1
  <2>2. QED
    BY <1>3, <2>1
<1>9. S \subseteq 1 .. m => \A k \in m + 1 .. n : h[k] = 0
  <2>1. \A k \in m + 1 .. n : k \in 1 .. n /\ k \notin 1 .. m
    BY <1>1
  <2>2. QED
    BY <1>3, <2>1
<1>10. QED
  BY <1>4, <1>7, <1>8, <1>9

\* The band of a threshold is the price at its depth.
LEMMA PriceIsDepth ==
    ASSUME NEW levels, NEW side \in {"bid", "ask"}, Offered(levels, side), NEW t \in Threshold
    PROVE  /\ DepthPrice(levels, t, FindPriceForThreshold(levels, t), side)
           /\ FindPriceForThreshold(levels, t) \in Nat
<1> DEFINE n == Len(levels)
           a == Accumulated(levels)
           filled == {k \in DOMAIN levels : a[k] >= t}
           price == FindPriceForThreshold(levels, t)
<1>1. /\ n \in Nat /\ DOMAIN levels = 1 .. n
      /\ \A k \in 1 .. n : Sound(levels[k])
      /\ \A i, j \in 1 .. n : i < j => ~Better(side, levels[j].price, levels[i].price)
  BY DEF Offered
<1>2. t \in Nat \ {0}
  BY BandAssumption
<1>3. a[0] = 0 /\ \A k \in 0 .. n : a[k] \in Nat
  <2> DEFINE g == [k \in 1 .. n |-> Value(levels[k])]
  <2>1. ASSUME NEW k \in 1 .. n PROVE g[k] \in Nat
    <3>1. Value(levels[k]) \in Nat
      BY <1>1, ValueIsNatural
    <3>2. QED
      BY <3>1
  <2>2. Runs(a, n, g)
    BY AccumulatedRuns
  <2> HIDE DEF a, g
  <2>3. QED
    BY <1>1, <2>1, <2>2, RunSteps
<1>4. \A k \in 1 .. n : levels[k].price \in Nat
  BY <1>1 DEF Sound, Quote
<1>5. ASSUME NEW S, NEW m \in 0 .. n
      PROVE  /\ 1 .. m \subseteq S => Worth(levels, S) >= a[m]
             /\ S \subseteq 1 .. m => Worth(levels, S) <= a[m]
  BY DepthOfPrefix
<1>6. ASSUME NEW S PROVE Worth(levels, S) \in Nat
  <2> DEFINE h == [k \in 1 .. n |-> IF k \in S THEN Value(levels[k]) ELSE 0]
  <2>1. ASSUME NEW k \in 1 .. n PROVE h[k] \in Nat
    <3>1. Value(levels[k]) \in Nat
      BY <1>1, ValueIsNatural
    <3>2. QED
      BY <3>1
  <2>2. PICK e : Runs(e, n, h) /\ Worth(levels, S) = e[n]
    BY <1>1, WorthRuns
  <2> HIDE DEF h
  <2>3. e[n] \in Nat
    BY <1>1, <2>1, <2>2, RunSteps
  <2>4. QED
    BY <2>2, <2>3
<1>7. price = IF filled = {} THEN 0
              ELSE levels[CHOOSE k \in filled : \A j \in filled : k <= j].price
  BY DEF FindPriceForThreshold
<1>8. CASE filled = {}
  <2>1. price = 0
    BY <1>7, <1>8
  <2>2. a[n] < t
    <3>1. CASE n = 0
      BY <1>2, <1>3, <3>1
    <3>2. CASE n # 0
      <4>1. n \in 1 .. n /\ n \in 0 .. n
        BY <1>1, <3>2
      <4>2. ~(a[n] >= t)
        BY <1>1, <1>8, <4>1
      <4>3. a[n] \in Nat
        BY <1>3, <4>1
      <4>4. QED
        BY <1>2, <4>2, <4>3
    <3>3. QED
      BY <3>1, <3>2
  <2>3. n \in 0 .. n
    BY <1>1
  <2>4. Worth(levels, DOMAIN levels) <= a[n]
    BY <1>1, <1>5, <2>3
  <2>5. a[n] \in Nat
    BY <1>3, <2>3
  <2> HIDE DEF a, filled, price
  <2>6. Worth(levels, DOMAIN levels) < t
    BY <1>2, <1>6, <2>2, <2>4, <2>5
  <2>7. QED
    BY <2>1, <2>6 DEF DepthPrice, price
<1>9. CASE filled # {}
  <2> DEFINE k0 == CHOOSE k \in filled : \A j \in filled : k <= j
  <2>1. filled \in SUBSET Nat
    BY <1>1
  <2>2. k0 \in filled /\ \A j \in filled : k0 <= j
    <3> HIDE DEF filled
    <3> QED
      BY <1>9, <2>1, LeastNumber
  <2>3. price = levels[k0].price
    BY <1>7, <1>9
  <2>4. k0 \in 1 .. n /\ a[k0] >= t
    BY <1>1, <2>2
  <2>5. price \in Nat
    BY <1>4, <2>3, <2>4
  <2>6. CASE price = 0
    <3> HIDE DEF k0, a, filled, price
    <3>1. \E k \in DOMAIN levels : levels[k].price = 0
      BY <1>1, <2>3, <2>4, <2>6
    <3>2. QED
      BY <2>6, <3>1 DEF DepthPrice, price
  <2>7. CASE price # 0
    <3> DEFINE Down(p) == {k \in DOMAIN levels : ~Better(side, p, levels[k].price)}
    <3>1. \A k \in 1 .. n : k \in filled => k0 <= k
      BY <2>2
    <3>2. a[k0 - 1] < t /\ k0 - 1 \in 0 .. n /\ k0 \in 0 .. n
      <4>1. k0 - 1 \in 0 .. n /\ k0 \in 0 .. n
        BY <1>1, <2>4
      <4>2. CASE k0 = 1
        <5>1. k0 - 1 = 0
          BY <4>2
        <5>2. a[k0 - 1] = 0
          BY <1>3, <5>1
        <5>3. QED
          BY <1>2, <4>1, <5>2
      <4>3. CASE k0 # 1
        <5>1. k0 - 1 \in 1 .. n /\ ~(k0 <= k0 - 1)
          BY <1>1, <2>4, <4>3
        <5>2. ~(a[k0 - 1] >= t)
          BY <1>1, <3>1, <5>1
        <5>3. a[k0 - 1] \in Nat
          BY <1>3, <4>1
        <5>4. QED
          BY <1>2, <4>1, <5>2, <5>3
      <4>4. QED
        BY <4>2, <4>3
    <3> HIDE DEF filled, k0, a, price
    <3>3. 1 .. k0 \subseteq Down(price)
      <4>1. ASSUME NEW k \in 1 .. k0 PROVE k \in Down(price)
        <5>1. k \in 1 .. n /\ (k < k0 \/ k = k0)
          BY <1>1, <2>4
        <5>2. ~Better(side, levels[k0].price, levels[k].price)
          BY <1>1, <1>4, <2>4, <5>1, BetterIsOrder
        <5>3. QED
          BY <1>1, <2>3, <5>1, <5>2
      <4>2. QED
        BY <4>1
    <3>4. Worth(levels, Down(price)) >= t
      <4>1. Worth(levels, Down(price)) >= a[k0]
        BY <1>5, <3>2, <3>3
      <4>2. Worth(levels, Down(price)) \in Nat /\ a[k0] \in Nat
        BY <1>3, <1>6, <3>2
      <4> HIDE DEF Down
      <4>3. QED
        BY <1>2, <2>4, <4>1, <4>2
    <3>5. ASSUME NEW k \in DOMAIN levels, Better(side, levels[k].price, price)
          PROVE  Worth(levels, Down(levels[k].price)) < t
      <4>1. ASSUME NEW j \in Down(levels[k].price) PROVE j \in 1 .. k0 - 1
        <5>1. j \in 1 .. n /\ ~Better(side, levels[k].price, levels[j].price)
          BY <1>1
        <5>2. ASSUME j >= k0 PROVE FALSE
          <6>1. ~Better(side, levels[j].price, price)
            <7>1. j = k0 \/ k0 < j
              BY <2>4, <5>1, <5>2
            <7>2. QED
              BY <1>1, <1>4, <2>3, <2>4, <5>1, <7>1, BetterIsOrder
          <6>2. /\ levels[j].price \in Nat /\ levels[k].price \in Nat /\ price \in Nat
            BY <1>1, <1>4, <2>5, <5>1
          <6>3. QED
            BY <3>5, <5>1, <6>1, <6>2, BetterIsOrder
        <5>3. QED
          BY <2>4, <5>1, <5>2
      <4> HIDE DEF Down
      <4>2. Worth(levels, Down(levels[k].price)) <= a[k0 - 1]
        BY <1>5, <3>2, <4>1
      <4>3. Worth(levels, Down(levels[k].price)) \in Nat /\ a[k0 - 1] \in Nat
        BY <1>3, <1>6, <3>2
      <4>4. QED
        BY <1>2, <3>2, <4>2, <4>3
    <3>6. \E k \in DOMAIN levels : levels[k].price = price
      BY <1>1, <2>3, <2>4
    <3>7. DepthPrice(levels, t, price, side)
      BY <2>7, <3>4, <3>5, <3>6 DEF DepthPrice
    <3>8. QED
      BY <2>5, <3>7 DEF price
  <2>8. QED
    BY <2>6, <2>7
<1>10. QED
  BY <1>8, <1>9

-----------------------------------------------------------------------------
(* The inductive invariant.                                                *)

TypeOK ==
    /\ view \in View
    /\ cache \in {<<>>} \cup Quote \X Quote
    /\ bands \in {<<>>} \cup [Offset -> [bid : Nat, ask : Nat]]
    /\ volumes \in [Threshold -> [bid : Nat, ask : Nat]]
    /\ status \in {"up", "book crossed", "cache crossed", "band negative", "band crossed"}
    /\ seen \in SUBSET (Quote \X Quote)
    /\ count \in Nat /\ count <= MaxViews

\* What is cached was live in one view, and is in the market's range.
CacheIsSound ==
    cache # <<>> => /\ cache \in seen
                    /\ Fits(cache[1].price) /\ Fits(cache[2].price)
                    /\ cache[1].price < cache[2].price

BandsAreOfCache ==
    bands = IF cache = <<>> THEN <<>> ELSE BandsAround(cache[1], cache[2])

IInv == /\ TypeOK
        /\ AssertionsHold
        /\ CacheIsSound
        /\ BandsAreOfCache
        /\ VolumeIsDepth

\* The bands around two prices that are apart: natural, outside, nested.
LEMMA BandsAreSound ==
    ASSUME NEW bid \in Quote, NEW ask \in Quote, Fits(bid.price), Fits(ask.price),
           bid.price < ask.price, NEW b, b = BandsAround(bid, ask)
    PROVE  /\ b \in [Offset -> [bid : Nat, ask : Nat]]
           /\ \A o \in Offset :
                /\ b[o].bid <= bid.price /\ b[o].ask >= ask.price
                /\ b[o].ask > b[o].bid
                /\ \A q \in Offset : o <= q => /\ b[q].bid <= b[o].bid
                                               /\ b[q].ask >= b[o].ask
<1> DEFINE f(o) == Fraction(TRUE, o)
<1>1. bid.price \in Nat /\ ask.price \in Nat
  BY DEF Fits
<1>2. ASSUME NEW o \in Offset
      PROVE  /\ f(o) \in 0 .. Scale
             /\ b[o].bid = BandAt(bid.price, f(o), "bid")
             /\ b[o].ask = BandAt(ask.price, f(o), "ask")
  <2>1. o \in 0 .. Whole
    BY BandAssumption
  <2>2. f(o) \in 0 .. Scale
    BY <2>1, FractionIsShare
  <2>3. b[o] = [bid |-> AdjustPrice(bid.price, o, "bid"),
                ask |-> AdjustPrice(ask.price, o, "ask")]
    BY DEF BandsAround
  <2>4. /\ AdjustPrice(bid.price, o, "bid") = BandAt(bid.price, f(o), "bid")
        /\ AdjustPrice(ask.price, o, "ask") = BandAt(ask.price, f(o), "ask")
    BY AdjustedPrice
  <2>5. b[o].bid = AdjustPrice(bid.price, o, "bid")
    BY <2>3
  <2>6. b[o].ask = AdjustPrice(ask.price, o, "ask")
    BY <2>3
  <2> HIDE DEF f
  <2>7. QED
    BY <2>2, <2>4, <2>5, <2>6
<1> HIDE DEF f
<1>3. ASSUME NEW o \in Offset
      PROVE  /\ b[o].bid \in Nat /\ b[o].bid <= bid.price
             /\ b[o].ask \in Nat /\ b[o].ask >= ask.price
  <2>1. f(o) \in 0 .. Scale
    BY <1>2
  <2>2. /\ BandAt(bid.price, f(o), "bid") \in Nat
        /\ BandAt(bid.price, f(o), "bid") <= bid.price
        /\ BandAt(ask.price, f(o), "ask") \in Nat
        /\ BandAt(ask.price, f(o), "ask") >= ask.price
    BY <2>1, BandIsOutside
  <2>3. QED
    BY <1>2, <2>2
<1>4. b \in [Offset -> [bid : Nat, ask : Nat]]
  <2>1. b = [o \in Offset |-> [bid |-> AdjustPrice(bid.price, o, "bid"),
                               ask |-> AdjustPrice(ask.price, o, "ask")]]
    BY DEF BandsAround
  <2>2. ASSUME NEW o \in Offset PROVE b[o] \in [bid : Nat, ask : Nat]
    BY <1>3, <2>1
  <2>3. b = [o \in Offset |-> b[o]]
    BY <2>1
  <2>4. QED
    BY <2>2, <2>3
<1>5. ASSUME NEW o \in Offset PROVE b[o].ask > b[o].bid
  BY <1>1, <1>3
<1>6. ASSUME NEW o \in Offset, NEW q \in Offset, o <= q
      PROVE  b[q].bid <= b[o].bid /\ b[q].ask >= b[o].ask
  <2>1. o \in 0 .. Whole /\ q \in 0 .. Whole
    BY BandAssumption
  <2>2. f(o) \in 0 .. Scale /\ f(q) \in 0 .. Scale
    BY <1>2
  <2>3. f(o) <= f(q)
    BY <1>6, <2>1, FractionMonotone DEF f
  <2>4. /\ BandAt(bid.price, f(q), "bid") <= BandAt(bid.price, f(o), "bid")
        /\ BandAt(ask.price, f(q), "ask") >= BandAt(ask.price, f(o), "ask")
    BY <1>1, <2>2, <2>3, BandIsMonotone
  <2>5. QED
    BY <1>2, <2>4
<1>7. QED
  BY <1>3, <1>4, <1>5, <1>6

\* What both calculators make of a sound view, from a sound cache.
LEMMA ReceiveKeeps ==
    ASSUME IInv, NEW received \in Views, Receive(received)
    PROVE  IInv'
<1>1. SoundView(received) /\ received \in View /\ view' = received
  BY ViewsAreSound DEF Receive
<1>2. /\ TypeOK /\ CacheIsSound /\ status = "up" /\ count < MaxViews
      /\ PriceBands /\ VolumeBands
      /\ seen' = seen \cup {<<view'.best_bid, view'.best_ask>>}
      /\ count' = count + 1
  BY DEF IInv, Receive
<1> DEFINE bid == received.best_bid
           ask == received.best_ask
           bids == received.bid_levels
           asks == received.ask_levels
<1>3. /\ Offered(bids, "bid") /\ Offered(asks, "ask")
      /\ bid = Best(bids) /\ ask = Best(asks)
      /\ bids # <<>> /\ asks # <<>> => bid.price <= ask.price
  BY <1>1 DEF SoundView
<1>4. /\ bid \in Quote /\ Fits(bid.price)
      /\ ask \in Quote /\ Fits(ask.price)
      /\ bids = <<>> => bid = NoQuote
      /\ asks = <<>> => ask = NoQuote
      /\ bids # <<>> => bid = Head(bids)
      /\ asks # <<>> => ask = Head(asks)
  BY <1>3, BestIsFirst
<1>5. BestOf(bid, bids) = bid /\ BestOf(ask, asks) = ask
  BY <1>4 DEF BestOf
<1> DEFINE best == Cache(bid, ask)
<1>6. /\ cache' = best
      /\ bands' = IF best = <<>> THEN <<>> ELSE BandsAround(best[1], best[2])
      /\ status' =
           IF ExportCrossed(received) THEN "book crossed"
           ELSE IF best = <<>> THEN "up"
           ELSE IF best[2].price <= best[1].price THEN "cache crossed"
           ELSE IF \E o \in Offset : bands'[o].bid < 0 \/ bands'[o].ask < 0
           THEN "band negative"
           ELSE IF \E o \in Offset : bands'[o].ask <= bands'[o].bid
           THEN "band crossed" ELSE "up"
  BY <1>1, <1>2, <1>5 DEF PriceBands
<1>7. seen' = seen \cup {<<bid, ask>>}
  BY <1>1, <1>2
<1> HIDE DEF bid, ask, bids, asks
<1>8. /\ best \in {<<>>} \cup Quote \X Quote
      /\ best # <<>> => /\ best \in seen'
                        /\ Fits(best[1].price) /\ Fits(best[2].price)
                        /\ best[1].price < best[2].price
  <2>1. CASE Live(bid, ask)
    <3>1. best = <<bid, ask>>
      BY <2>1 DEF Cache
    <3>2. ask.price > bid.price /\ ask.price \in Nat /\ bid.price \in Nat
      BY <1>4, <2>1 DEF Live, Fits
    <3>3. best[1] = bid /\ best[2] = ask /\ best \in seen' /\ best \in Quote \X Quote
      BY <1>4, <1>7, <3>1
    <3> HIDE DEF best
    <3>4. QED
      BY <1>4, <3>2, <3>3
  <2>2. CASE ~Live(bid, ask)
    <3>1. best = cache
      BY <2>2 DEF Cache
    <3> HIDE DEF best
    <3>2. QED
      BY <1>2, <1>7, <3>1 DEF TypeOK, CacheIsSound
  <2>3. QED
    BY <2>1, <2>2
<1> HIDE DEF best
<1>9. /\ best # <<>> => best[1] \in Quote /\ best[2] \in Quote
      /\ best # <<>> => best[1].price \in Nat /\ best[2].price \in Nat
  BY <1>8 DEF Fits
<1>10. CacheIsSound'
  BY <1>6, <1>8 DEF CacheIsSound
<1>11. BandsAreOfCache'
  <2>1. bands' = IF cache' = <<>> THEN <<>> ELSE BandsAround(cache'[1], cache'[2])
    BY <1>6
  <2>2. QED
    BY <2>1 DEF BandsAreOfCache, BandsAround
<1>12. /\ bands' \in {<<>>} \cup [Offset -> [bid : Nat, ask : Nat]]
       /\ best # <<>> => \A o \in Offset : /\ bands'[o].bid \in Nat
                                           /\ bands'[o].ask \in Nat
                                           /\ bands'[o].ask > bands'[o].bid
  <2>1. CASE best = <<>>
    BY <1>6, <2>1
  <2>2. CASE best # <<>>
    <3>1. bands' = BandsAround(best[1], best[2])
      BY <1>6, <2>2
    <3>2. /\ bands' \in [Offset -> [bid : Nat, ask : Nat]]
          /\ \A o \in Offset : bands'[o].ask > bands'[o].bid
      BY <1>8, <1>9, <2>2, <3>1, BandsAreSound
    <3>3. QED
      BY <3>2
  <2>3. QED
    BY <2>1, <2>2
<1>13. ~ExportCrossed(received)
  <2>1. SUFFICES ASSUME bid.quantity > 0, ask.quantity > 0, ask.price < bid.price
                 PROVE  FALSE
    BY DEF ExportCrossed, bid, ask
  <2>2. bid # NoQuote /\ ask # NoQuote
    BY <2>1 DEF NoQuote
  <2>3. bid.price <= ask.price
    BY <1>3, <1>4, <2>2
  <2>4. bid.price \in Nat /\ ask.price \in Nat
    BY <1>4 DEF Fits
  <2>5. QED
    BY <2>1, <2>3, <2>4
<1>14. status' = "up"
  <2>1. CASE best = <<>>
    BY <1>6, <1>13, <2>1
  <2>2. CASE best # <<>>
    <3>1. ~(best[2].price <= best[1].price)
      BY <1>8, <1>9, <2>2
    <3>2. ~ \E o \in Offset : bands'[o].bid < 0 \/ bands'[o].ask < 0
      BY <1>12, <2>2
    <3>3. ~ \E o \in Offset : bands'[o].ask <= bands'[o].bid
      BY <1>12, <2>2
    <3>4. QED
      BY <1>6, <1>13, <2>2, <3>1, <3>2, <3>3
  <2>3. QED
    BY <2>1, <2>2
<1>15. NormalizeLevels(bids, bid) = bids /\ NormalizeLevels(asks, ask) = asks
  <2>1. ~(NoQuote.quantity > 0)
    BY DEF NoQuote
  <2>2. QED
    BY <1>4, <2>1 DEF NormalizeLevels
<1>16. volumes' = [t \in Threshold |-> [bid |-> FindPriceForThreshold(bids, t),
                                        ask |-> FindPriceForThreshold(asks, t)]]
  BY <1>1, <1>2, <1>15 DEF VolumeBands, bids, asks, bid, ask
<1>17. ASSUME NEW t \in Threshold
       PROVE  /\ DepthPrice(bids, t, FindPriceForThreshold(bids, t), "bid")
              /\ FindPriceForThreshold(bids, t) \in Nat
              /\ DepthPrice(asks, t, FindPriceForThreshold(asks, t), "ask")
              /\ FindPriceForThreshold(asks, t) \in Nat
  BY <1>3, PriceIsDepth
<1>18. volumes' \in [Threshold -> [bid : Nat, ask : Nat]]
  BY <1>16, <1>17
<1>19. VolumeIsDepth'
  <2>1. ASSUME NEW t \in Threshold
        PROVE  /\ DepthPrice(bids, t, volumes'[t].bid, "bid")
               /\ DepthPrice(asks, t, volumes'[t].ask, "ask")
    <3>1. /\ volumes'[t].bid = FindPriceForThreshold(bids, t)
          /\ volumes'[t].ask = FindPriceForThreshold(asks, t)
      BY <1>16
    <3>2. QED
      BY <1>17, <3>1
  <2>2. view'.bid_levels = bids /\ view'.ask_levels = asks
    BY <1>1 DEF bids, asks
  <2>3. QED
    BY <2>1, <2>2 DEF VolumeIsDepth
<1>20. TypeOK'
  <2>1. count' \in Nat /\ count' <= MaxViews
    BY <1>2, BandAssumption DEF TypeOK
  <2>2. seen' \in SUBSET (Quote \X Quote)
    BY <1>2, <1>4, <1>7 DEF TypeOK
  <2>3. QED
    BY <1>1, <1>6, <1>8, <1>12, <1>14, <1>18, <2>1, <2>2 DEF TypeOK
<1>21. QED
  BY <1>10, <1>11, <1>14, <1>19, <1>20 DEF IInv, AssertionsHold

\* Before the first view nothing is cached, banded or asserted.
LEMMA InitEstablishes == Init => IInv
<1>1. SUFFICES ASSUME Init PROVE IInv
  OBVIOUS
<1>2. NoQuote \in Quote /\ <<>> \in Seq(Quote)
  BY DEF NoQuote, Quote
<1>3. EmptyView \in View
  BY <1>2 DEF EmptyView, View
<1>4. 0 <= MaxViews
  BY BandAssumption
<1>5. TypeOK
  <2>1. volumes \in [Threshold -> [bid : Nat, ask : Nat]]
    BY <1>1 DEF Init
  <2>2. /\ view \in View /\ cache = <<>> /\ bands = <<>>
        /\ status = "up" /\ seen = {} /\ count \in Nat /\ count <= MaxViews
    BY <1>1, <1>3, <1>4 DEF Init
  <2>3. QED
    BY <2>1, <2>2 DEF TypeOK
<1>6. AssertionsHold /\ CacheIsSound /\ BandsAreOfCache
  BY <1>1 DEF Init, AssertionsHold, CacheIsSound, BandsAreOfCache
<1>7. VolumeIsDepth
  <2>1. ~(count > 0)
    BY <1>1 DEF Init
  <2>2. QED
    BY <2>1 DEF VolumeIsDepth
<1>8. QED
  BY <1>5, <1>6, <1>7 DEF IInv

\* The invariant is inductive.
LEMMA NextPreserves == IInv /\ [Next]_vars => IInv'
<1>1. SUFFICES ASSUME IInv, [Next]_vars PROVE IInv'
  OBVIOUS
<1>2. CASE Next
  <2>1. PICK received \in Views : Receive(received)
    BY <1>2 DEF Next
  <2>2. QED
    BY <1>1, <2>1, ReceiveKeeps
<1>3. CASE UNCHANGED vars
  <2>1. TypeOK' /\ AssertionsHold' /\ CacheIsSound'
    BY <1>1, <1>3 DEF vars, IInv, TypeOK, AssertionsHold, CacheIsSound
  <2>2. BandsAreOfCache'
    BY <1>1, <1>3 DEF vars, IInv, BandsAreOfCache, BandsAround
  <2>3. VolumeIsDepth'
    BY <1>1, <1>3 DEF vars, IInv, VolumeIsDepth
  <2>4. QED
    BY <2>1, <2>2, <2>3 DEF IInv
<1>4. QED
  BY <1>1, <1>2, <1>3

\* Every reachable state has it.
LEMMA Invariant == Spec => []IInv
<1>1. Init => IInv
  BY InitEstablishes
<1>2. IInv /\ [Next]_vars => IInv'
  BY NextPreserves
<1>3. QED
  BY <1>1, <1>2, PTL DEF Spec

-----------------------------------------------------------------------------
(* The theorems.                                                           *)

\* Views, caches and bands have their types: every band is a natural price.
THEOREM Typing == Spec => []TypeOK
<1>1. IInv => TypeOK
  BY DEF IInv
<1>2. QED
  BY <1>1, Invariant, PTL

(***************************************************************************)
(* No assertion of the callbacks or of compute() fails on the views of an  *)
(* uncrossed book, whatever the wire cuts off its numbers.                 *)
(***************************************************************************)
THEOREM NoAssertionFails == Spec => []AssertionsHold
<1>1. IInv => AssertionsHold
  BY DEF IInv
<1>2. QED
  BY <1>1, Invariant, PTL

(***************************************************************************)
(* cached_best_bid_ and cached_best_ask_ are always the two sides of one   *)
(* view that arrived.                                                      *)
(***************************************************************************)
THEOREM CachedTogether == Spec => []CacheIsOneView
<1>1. IInv => CacheIsOneView
  BY DEF IInv, CacheIsSound, CacheIsOneView
<1>2. QED
  BY <1>1, Invariant, PTL

(***************************************************************************)
(* The bands compute() returns lie outside the quotes they are computed    *)
(* from and nest with the offset, for every number of digits and bits.     *)
(***************************************************************************)
THEOREM Nesting == Spec => []BandsNest
<1>1. IInv => BandsNest
  <2>1. SUFFICES ASSUME IInv, bands # <<>> PROVE BandsNest
    BY DEF BandsNest
  <2>2. cache # <<>> /\ bands = BandsAround(cache[1], cache[2])
    BY <2>1 DEF IInv, BandsAreOfCache
  <2>3. /\ cache[1] \in Quote /\ cache[2] \in Quote
        /\ Fits(cache[1].price) /\ Fits(cache[2].price)
        /\ cache[1].price < cache[2].price
    BY <2>1, <2>2 DEF IInv, TypeOK, CacheIsSound
  <2>4. \A o \in Offset :
          /\ bands[o].bid <= cache[1].price /\ bands[o].ask >= cache[2].price
          /\ \A q \in Offset : o <= q => /\ bands[q].bid <= bands[o].bid
                                         /\ bands[q].ask >= bands[o].ask
    BY <2>2, <2>3, BandsAreSound
  <2>5. QED
    BY <2>4 DEF BandsNest
<1>2. QED
  BY <1>1, Invariant, PTL

(***************************************************************************)
(* findPriceForThreshold returns the best price down to which a side is    *)
(* worth the threshold, for ladders of any length.                         *)
(***************************************************************************)
THEOREM Depth == Spec => []VolumeIsDepth
<1>1. IInv => VolumeIsDepth
  BY DEF IInv
<1>2. QED
  BY <1>1, Invariant, PTL

=============================================================================
