----------------------------- MODULE SizingProofs -----------------------------
(***************************************************************************)
(* shares_for_clean_maker gives the largest clean size within the budget,  *)
(* for every price, size and number of decimals.  The increments that make *)
(* the cost whole are the multiples of the least one that does, because a  *)
(* remainder would be a smaller one.                                       *)
(***************************************************************************)
EXTENDS Sizing, WellFoundedInduction, TLAPS

PosNat == Nat \ {0}

-----------------------------------------------------------------------------
(* Whole numbers. *)

\* m divides a.
Divides(m, a) == \E k \in Int : a = m * k

LEMMA DivMod ==
    ASSUME NEW a \in Nat, NEW b \in PosNat
    PROVE  /\ a \div b \in Nat /\ a % b \in 0..b - 1
           /\ a = b * (a \div b) + (a % b)
BY DEF PosNat

LEMMA RemainderDivides ==
    ASSUME NEW a \in Nat, NEW b \in PosNat
    PROVE  a % b = 0 <=> Divides(b, a)
<1>1. ASSUME a % b = 0 PROVE Divides(b, a)
  <2>1. a \div b \in Int /\ a = b * (a \div b) + (a % b) /\ b * (a \div b) \in Int
    BY DivMod DEF PosNat
  <2>2. a = b * (a \div b)
    BY <1>1, <2>1
  <2> QED
    BY <2>1, <2>2 DEF Divides
<1>2. ASSUME NEW k \in Int, a = b * k PROVE a % b = 0
  <2> DEFINE q == a \div b
             r == a % b
  <2>1. q \in Int /\ r \in 0..b - 1 /\ a = b * q + r /\ b \in Int /\ b > 0
    BY DivMod DEF PosNat
  <2>2. r = b * (k - q)
    BY <1>2, <2>1
  <2>3. k - q < 1 /\ k - q > -1
    <3>1. CASE k - q >= 1
      <4>1. b * (k - q) >= b
        BY <2>1, <3>1
      <4> QED
        BY <2>1, <2>2, <4>1
    <3>2. CASE k - q <= -1
      <4>1. b * (k - q) <= -b
        BY <2>1, <3>2
      <4> QED
        BY <2>1, <2>2, <4>1
    <3> QED
      BY <3>1, <3>2, <2>1
  <2>4. k - q = 0
    BY <2>1, <2>3
  <2> QED
    BY <2>1, <2>2, <2>4
<1> QED
  BY <1>1, <1>2 DEF Divides

\* A set of naturals that is not empty has a least element.
LEMMA LeastNatural ==
    ASSUME NEW T, T \subseteq Nat, T # {}
    PROVE  \E x \in T : \A y \in T : x <= y
<1> DEFINE Smaller == {ss \in Nat \X Nat : ss[1] < ss[2]}
<1>1. IsWellFoundedOn(Smaller, Nat)
  BY NatLessThanWellFounded, Zenon DEF OpToRel, Smaller
<1> HIDE DEF Smaller
<1>2. PICK x \in T : \A y \in T : ~(<<y, x>> \in Smaller)
  BY <1>1, WFMin
<1>3. \A y \in T : ~(y < x)
  BY <1>2 DEF Smaller
<1> QED
  BY <1>3

-----------------------------------------------------------------------------
(* The step of a size. *)

\* Denominator is the least positive q that makes n * q / d whole.
LEMMA DenominatorIsLeast ==
    ASSUME NEW n \in PosNat, NEW d \in PosNat
    PROVE  /\ Denominator(n, d) \in PosNat /\ Denominator(n, d) <= d
           /\ Divides(d, n * Denominator(n, d))
           /\ \A p \in PosNat : Divides(d, n * p) => Denominator(n, d) <= p
<1> DEFINE T == {q \in PosNat : Divides(d, n * q)}
<1>1. d \in T
  <2>1. n * d = d * n /\ n \in Int
    BY DEF PosNat
  <2> QED
    BY <2>1 DEF Divides
<1>2. PICK q \in T : \A p \in T : q <= p
  BY <1>1, LeastNatural DEF PosNat
<1>3. q \in 1..d /\ q \in PosNat /\ Divides(d, n * q)
  BY <1>1, <1>2 DEF PosNat
<1>4. \A p \in 1..d : n * p \in Nat /\ ((n * p) % d = 0 <=> Divides(d, n * p))
  <2>1. \A p \in 1..d : n * p \in Nat
    BY DEF PosNat
  <2> QED
    BY <2>1, RemainderDivides
<1>5. \A p \in 1..q - 1 : (n * p) % d # 0
  <2> SUFFICES ASSUME NEW p \in 1..q - 1, (n * p) % d = 0 PROVE FALSE
    OBVIOUS
  <2>1. p \in 1..d /\ p \in PosNat /\ p < q
    BY <1>3 DEF PosNat
  <2>2. p \in T
    BY <1>4, <2>1
  <2>3. q <= p
    BY <1>2, <2>2
  <2> QED
    BY <1>3, <2>1, <2>3 DEF PosNat
<1> DEFINE Good(x) == /\ (n * x) % d = 0
                      /\ \A p \in 1..x - 1 : (n * p) % d # 0
<1>6. Good(q)
  BY <1>3, <1>4, <1>5
<1>7. Denominator(n, d) \in 1..d /\ Good(Denominator(n, d))
  BY <1>3, <1>6 DEF Denominator
<1> DEFINE e == Denominator(n, d)
<1> HIDE DEF e
<1>8. e \in 1..d /\ Good(e)
  BY <1>7 DEF e
<1>9. e = q
  <2>1. ~(e < q)
    BY <1>3, <1>5, <1>8 DEF PosNat
  <2>2. ~(q < e)
    BY <1>3, <1>6, <1>8 DEF PosNat
  <2> QED
    BY <1>3, <1>8, <2>1, <2>2 DEF PosNat
<1> QED
  BY <1>2, <1>3, <1>9 DEF e

\* What makes it whole is a multiple of the least that does.
LEMMA WholeIsMultiple ==
    ASSUME NEW n \in PosNat, NEW d \in PosNat, NEW k \in Nat
    PROVE  Divides(d, n * k) <=> Divides(Denominator(n, d), k)
<1> DEFINE e == Denominator(n, d)
<1>1. /\ e \in PosNat /\ Divides(d, n * e)
      /\ \A p \in PosNat : Divides(d, n * p) => e <= p
  BY DenominatorIsLeast
<1> HIDE DEF e
<1>2. PICK u \in Int : n * e = d * u
  BY <1>1 DEF Divides
<1>3. ASSUME NEW j \in Int, k = e * j PROVE Divides(d, n * k)
  <2>1. n * k = d * (u * j) /\ u * j \in Int
    <3>1. n * k = (n * e) * j
      BY <1>1, <1>3 DEF PosNat
    <3> QED
      BY <1>2, <3>1 DEF PosNat
  <2> QED
    BY <2>1 DEF Divides
<1>4. ASSUME NEW v \in Int, n * k = d * v PROVE Divides(e, k)
  <2> DEFINE q == k \div e
             r == k % e
  <2>1. q \in Nat /\ r \in 0..e - 1 /\ k = e * q + r
    BY <1>1, DivMod
  <2> HIDE DEF q, r
  <2>2. n * r = d * (v - u * q) /\ v - u * q \in Int
    <3>1. n * k = n * (e * q) + n * r /\ n * (e * q) = (n * e) * q
      BY <1>1, <2>1 DEF PosNat
    <3>2. n * r = d * v - (d * u) * q
      BY <1>1, <1>2, <1>4, <2>1, <3>1 DEF PosNat
    <3>3. (d * u) * q = d * (u * q) /\ d * (v - u * q) = d * v - d * (u * q)
      BY <2>1 DEF PosNat
    <3> QED
      BY <2>1, <3>2, <3>3
  <2>3. Divides(d, n * r)
    BY <2>2 DEF Divides
  <2>4. r = 0
    BY <1>1, <2>1, <2>3 DEF PosNat
  <2> QED
    BY <1>1, <2>1, <2>4 DEF Divides, PosNat
<1>5. Divides(d, n * k) => Divides(e, k)
  BY <1>4 DEF Divides
<1>6. Divides(e, k) => Divides(d, n * k)
  BY <1>3 DEF Divides
<1> QED
  BY <1>5, <1>6 DEF e

\* Cutting a budget of kmax increments to a multiple of the step gives the
\* largest whole one.
LEMMA CutIsLargest ==
    ASSUME NEW n \in PosNat, NEW d \in PosNat, NEW kmax \in Nat, NEW s,
           s = (kmax \div Denominator(n, d)) * Denominator(n, d)
    PROVE  /\ s \in Nat /\ s <= kmax /\ Divides(d, n * s)
           /\ \A k \in 0..kmax : Divides(d, n * k) => k <= s
<1> DEFINE e == Denominator(n, d)
           q == kmax \div e
<1>1. e \in PosNat
  BY DenominatorIsLeast
<1>2. s = q * e
  OBVIOUS
<1>3. \A k \in Nat : Divides(d, n * k) <=> Divides(e, k)
  BY WholeIsMultiple
<1> HIDE DEF e
<1>4. q \in Nat /\ kmax % e \in 0..e - 1 /\ kmax = e * q + (kmax % e)
  BY <1>1, DivMod
<1> HIDE DEF q
<1>5. s \in Nat /\ s = e * q
  BY <1>1, <1>2, <1>4 DEF PosNat
<1>6. s <= kmax
  BY <1>1, <1>4, <1>5 DEF PosNat
<1>7. Divides(d, n * s)
  BY <1>3, <1>4, <1>5 DEF Divides
<1>8. ASSUME NEW k \in 0..kmax, Divides(d, n * k) PROVE k <= s
  <2>1. PICK j \in Int : k = e * j
    BY <1>3, <1>8 DEF Divides
  <2>2. ~(j >= q + 1)
    <3> SUFFICES ASSUME j >= q + 1 PROVE FALSE
      OBVIOUS
    <3>1. e * j >= e * (q + 1) /\ e * (q + 1) = e * q + e
      BY <1>1, <1>4, <2>1 DEF PosNat
    <3> QED
      BY <1>1, <1>4, <2>1, <3>1 DEF PosNat
  <2>3. j <= q
    BY <1>4, <2>1, <2>2
  <2> QED
    BY <1>1, <1>4, <1>5, <2>1, <2>3 DEF PosNat
<1> QED
  BY <1>5, <1>6, <1>7, <1>8

-----------------------------------------------------------------------------
(* The size of an order. *)

\* k increments of a share cost a whole number of cents at price p.
CleanAt(p, k) == Divides(p[2] * SizeUnits, p[1] * CashUnits * k)

\* s is the largest clean size, for an order of size z at price p.
Largest(p, z, s) ==
    /\ s \in Nat /\ CleanAt(p, s) /\ s * z[2] <= z[1] * SizeUnits
    /\ \A k \in Nat : CleanAt(p, k) /\ k * z[2] <= z[1] * SizeUnits => k <= s

LEMMA FractionParts ==
    ASSUME NEW p \in Fractions
    PROVE  /\ p[1] \in PosNat /\ p[2] \in PosNat
           /\ p[1] * CashUnits \in PosNat /\ p[2] * SizeUnits \in PosNat
<1>1. p[1] \in PosNat /\ p[2] \in PosNat /\ SizeUnits \in PosNat /\ CashUnits \in PosNat
  BY SizingAssumption DEF Fractions, PosNat
<1>2. \A a, b \in PosNat : a * b \in PosNat
  BY DEF PosNat
<1> QED
  BY <1>1, <1>2

\* A common factor of a comparison can be left out.
LEMMA CancelFactor ==
    ASSUME NEW a \in Int, NEW b \in Int, NEW c \in PosNat
    PROVE  a * c <= b * c <=> a <= b
<1>1. ASSUME a > b PROVE a * c > b * c
  BY <1>1 DEF PosNat
<1>2. ASSUME a <= b PROVE a * c <= b * c
  BY <1>2 DEF PosNat
<1>3. a * c \in Int /\ b * c \in Int
  BY DEF PosNat
<1> QED
  BY <1>1, <1>2, <1>3

\* shares_for_clean_maker, called with the budget price * size.
LEMMA SharesAreLargest ==
    ASSUME NEW p \in Fractions, NEW z \in Fractions
    PROVE  Largest(p, z, SharesForCleanMaker(<<p[1] * z[1], p[2] * z[2]>>, p))
<1> DEFINE n == p[1] * CashUnits
           d == p[2] * SizeUnits
           c == p[1] * p[2]
           num == p[1] * z[1] * p[2] * SizeUnits
           den == p[2] * z[2] * p[1]
           kmax == num \div den
           s == SharesForCleanMaker(<<p[1] * z[1], p[2] * z[2]>>, p)
<1>1. n \in PosNat /\ d \in PosNat /\ SizeUnits \in PosNat
      /\ p[1] \in PosNat /\ p[2] \in PosNat /\ z[1] \in PosNat /\ z[2] \in PosNat
  BY FractionParts, SizingAssumption DEF PosNat
<1>2. s = (kmax \div Denominator(n, d)) * Denominator(n, d)
  BY DEF SharesForCleanMaker
<1>3. \A a, b \in PosNat : a * b \in PosNat
  BY DEF PosNat
<1>4. num \in PosNat /\ den \in PosNat /\ c \in PosNat /\ z[1] * SizeUnits \in PosNat
  BY <1>1, <1>3
<1>5. den = z[2] * c
  BY <1>1 DEF PosNat
<1>6. num = (z[1] * SizeUnits) * c
  BY <1>1 DEF PosNat
<1> HIDE DEF n, d, num, den, c, s
<1>7. \A k \in Nat : k <= kmax <=> k * den <= num
  <2> DEFINE m == num % den
  <2>1. kmax \in Nat /\ m \in 0..den - 1 /\ num = den * kmax + m
    BY <1>4, DivMod DEF PosNat
  <2> HIDE DEF kmax, m
  <2> SUFFICES ASSUME NEW k \in Nat PROVE k <= kmax <=> k * den <= num
    OBVIOUS
  <2>2. ASSUME k <= kmax PROVE k * den <= num
    <3>1. k * den <= kmax * den
      BY <1>4, <2>1, <2>2 DEF PosNat
    <3> QED
      BY <1>4, <2>1, <3>1 DEF PosNat
  <2>3. ASSUME k >= kmax + 1 PROVE k * den > num
    <3>1. k * den >= (kmax + 1) * den /\ (kmax + 1) * den = den * kmax + den
      BY <1>4, <2>1, <2>3 DEF PosNat
    <3> QED
      BY <1>4, <2>1, <3>1 DEF PosNat
  <2>4. k * den \in Int /\ num \in Int
    BY <1>4 DEF PosNat
  <2> QED
    BY <2>1, <2>2, <2>3, <2>4
<1>8. \A k \in Nat : k * den <= num <=> k * z[2] <= z[1] * SizeUnits
  <2> SUFFICES ASSUME NEW k \in Nat
               PROVE  k * den <= num <=> k * z[2] <= z[1] * SizeUnits
    OBVIOUS
  <2>1. k * den = (k * z[2]) * c /\ k * z[2] \in Int /\ z[1] * SizeUnits \in Int
    BY <1>1, <1>4, <1>5 DEF PosNat
  <2> QED
    BY <1>4, <1>6, <2>1, CancelFactor
<1>9. kmax \in Nat
  BY <1>4, DivMod DEF PosNat
<1> HIDE DEF kmax
<1>10. /\ s \in Nat /\ s <= kmax /\ Divides(d, n * s)
       /\ \A k \in 0..kmax : Divides(d, n * k) => k <= s
  BY <1>1, <1>2, <1>9, CutIsLargest
<1>11. \A k \in Nat : CleanAt(p, k) <=> Divides(d, n * k)
  BY DEF CleanAt, n, d
<1>12. \A k \in Nat : k <= kmax <=> k \in 0..kmax
  BY <1>9
<1> QED
  BY <1>7, <1>8, <1>10, <1>11, <1>12 DEF Largest, s

-----------------------------------------------------------------------------
(* The invariant. *)

SInv == /\ TypeOK
        /\ Sized => price \in Fractions /\ size \in Fractions /\ Largest(price, size, shares)

LEMMA OddIsNoFraction == Odd \cap Fractions = {}
BY DEF Odd, NaN, Infinity, Zero, Text, Fractions

\* What passes the checks is a fraction; a BUY is not posted without being cut.
LEMMA ChecksEnd ==
    ASSUME NEW w \in {"BUY", "SELL", "HOLD"},
           NEW p \in Fractions \cup Odd, NEW z \in Fractions \cup Odd,
           NEW how \in Checks(w, p, z)
    PROVE  /\ how \in {"sized", "posted", "ValidationError", "InvalidOperation", "ValueError"}
           /\ how = "sized" => w # "HOLD" /\ p \in Fractions /\ z \in Fractions
           /\ how = "posted" => w = "SELL"
<1>1. Positive(p) \in {"InvalidOperation", "ValidationError", "sized"}
      /\ Positive(z) \in {"InvalidOperation", "ValidationError", "sized"}
  BY DEF Positive
<1>2. ASSUME NEW x \in Fractions \cup Odd, x # Text, x # Infinity, Positive(x) = "sized"
      PROVE  x \in Fractions
  BY <1>2 DEF Odd, Positive
<1>3. \/ how = "ValidationError"
      \/ how = Positive(p) /\ Positive(p) # "sized"
      \/ how = Positive(z) /\ Positive(z) # "sized"
      \/ /\ how = "sized" /\ w # "HOLD" /\ Positive(p) = "sized" /\ Positive(z) = "sized"
         /\ p # Text /\ z # Text /\ p # Infinity /\ z # Infinity
      \/ how = "ValueError"
      \/ how = "posted" /\ w = "SELL"
  BY DEF Checks
<1> QED
  BY <1>1, <1>2, <1>3

\* Fractions pass the checks.
LEMMA FractionsPass ==
    ASSUME NEW p \in Fractions, NEW z \in Fractions
    PROVE  Checks("BUY", p, z) = {"sized"}
<1>1. \A x \in Fractions : x \notin {NaN, Infinity, Zero, Text}
  BY OddIsNoFraction DEF Odd
<1> QED
  BY <1>1 DEF Checks, Positive

LEMMA PlaceSInv ==
    ASSUME NEW w \in {"BUY", "SELL", "HOLD"}, NEW t \in {"none", "GTC", "FAK"},
           NEW p \in Prices \cup Odd, NEW z \in Fractions \cup Odd, Place(w, t, p, z)
    PROVE  SInv'
<1>1. side' = w /\ type' = t /\ price' = p /\ size' = z
  BY DEF Place
<1>2. PICK how \in Checks(w, p, z) :
          IF how = "sized" /\ w = "BUY"
          THEN /\ shares' = SharesForCleanMaker(<<p[1] * z[1], p[2] * z[2]>>, p)
               /\ end' = IF shares' = 0 THEN "refused" ELSE "posted"
          ELSE shares' = 0 /\ end' = IF how = "sized" THEN "posted" ELSE how
  BY DEF Place
<1>3. p \in Fractions \cup Odd
  BY SizingAssumption
<1>4. /\ how \in {"sized", "posted", "ValidationError", "InvalidOperation", "ValueError"}
      /\ how = "sized" => w # "HOLD" /\ p \in Fractions /\ z \in Fractions
      /\ how = "posted" => w = "SELL"
  BY <1>3, ChecksEnd
<1>5. CASE how = "sized" /\ w = "BUY"
  <2>1. Largest(p, z, shares') /\ p \in Fractions /\ z \in Fractions
    BY <1>2, <1>4, <1>5, SharesAreLargest
  <2>2. shares' \in Nat /\ end' = IF shares' = 0 THEN "refused" ELSE "posted"
    BY <1>2, <1>5, <2>1 DEF Largest
  <2>3. (shares' > 0 <=> end' = "posted") /\ end' \in {"posted", "refused"}
    BY <2>2
  <2>4. TypeOK'
    BY <1>1, <1>5, <2>2, <2>3 DEF TypeOK
  <2> QED
    BY <1>1, <2>1, <2>4 DEF SInv
<1>6. CASE ~(how = "sized" /\ w = "BUY")
  <2>1. shares' = 0 /\ end' = IF how = "sized" THEN "posted" ELSE how
    BY <1>2, <1>6
  <2>2. /\ end' \in {"posted", "ValidationError", "InvalidOperation", "ValueError"}
        /\ end' = "posted" => w # "BUY"
    BY <1>4, <1>6, <2>1
  <2>3. ~Sized'
    BY <1>1, <2>2 DEF Sized
  <2>4. TypeOK'
    BY <1>1, <2>1, <2>2 DEF TypeOK
  <2> QED
    BY <2>3, <2>4 DEF SInv
<1> QED
  BY <1>5, <1>6

\* The size that was posted is a fraction too.
LEMMA AgainParts ==
    ASSUME SInv, PlaceAgain
    PROVE  /\ side = "BUY" /\ type \in {"none", "GTC", "FAK"} /\ price \in Prices \cup Odd
           /\ price \in Fractions /\ Largest(price, size, shares)
           /\ <<shares, SizeUnits>> \in Fractions
<1>1. side = "BUY" /\ end = "posted" /\ shares \in Nat /\ shares > 0
  BY DEF SInv, TypeOK, PlaceAgain
<1> QED
  BY <1>1, SizingAssumption DEF SInv, TypeOK, Sized, Fractions

LEMMA InitSInv == Init => SInv
BY DEF Init, SInv, TypeOK, Sized, Odd

\* Every step keeps the inductive invariant.
LEMMA SInvInductive == ASSUME SInv, [Next]_vars PROVE SInv'
<1>1. CASE PlaceLimitOrder
  <2>1. PICK w \in {"BUY", "SELL", "HOLD"}, t \in {"GTC", "FAK"},
             p \in Prices \cup Odd, z \in Sizes \cup Odd : Place(w, t, p, z)
    BY <1>1 DEF PlaceLimitOrder
  <2>2. z \in Fractions \cup Odd /\ t \in {"none", "GTC", "FAK"}
    BY SizingAssumption
  <2> QED
    BY <2>1, <2>2, PlaceSInv
<1>2. CASE PlaceAgain
  BY <1>2, AgainParts, PlaceSInv DEF PlaceAgain
<1>3. CASE UNCHANGED vars
  BY <1>3 DEF vars, SInv, TypeOK, Sized, Largest, CleanAt
<1> QED
  BY <1>1, <1>2, <1>3 DEF Next

LEMMA SInvLargest == SInv => LargestCleanSize
<1> SUFFICES ASSUME SInv, Sized PROVE LargestCleanSize
  BY DEF LargestCleanSize
<1>1. price \in Fractions /\ size \in Fractions /\ Largest(price, size, shares)
  BY DEF SInv
<1>2. /\ price[1] * CashUnits \in PosNat /\ price[2] * SizeUnits \in PosNat
      /\ size[1] * SizeUnits \in PosNat /\ size[2] \in PosNat /\ price[1] \in PosNat
      /\ CashUnits \in PosNat
  BY <1>1, FractionParts, SizingAssumption DEF PosNat
<1>3. ASSUME NEW k \in Nat PROVE Clean(k) <=> CleanAt(price, k)
  <2> DEFINE a == price[1] * CashUnits * k
  <2>1. a \in Nat /\ k * price[1] * CashUnits = a
    BY <1>2 DEF PosNat
  <2>2. a % (price[2] * SizeUnits) = 0 <=> Divides(price[2] * SizeUnits, a)
    BY <1>2, <2>1, RemainderDivides
  <2> QED
    BY <2>1, <2>2 DEF Clean, CleanAt
<1>4. shares \in Nat /\ Clean(shares) /\ Fits(shares)
  BY <1>1, <1>3 DEF Largest, Fits
<1>5. ASSUME NEW k \in 0..(size[1] * SizeUnits) \div size[2], k > shares PROVE ~Clean(k)
  <2> DEFINE q == (size[1] * SizeUnits) \div size[2]
             m == (size[1] * SizeUnits) % size[2]
             b == size[1] * SizeUnits
  <2>1. q \in Nat /\ m \in 0..size[2] - 1 /\ b = size[2] * q + m
    BY <1>2, DivMod DEF PosNat
  <2>2. k \in 0..q
    OBVIOUS
  <2> HIDE DEF q, m
  <2>3. k \in Nat /\ size[2] * k <= size[2] * q
    BY <1>2, <2>1, <2>2 DEF PosNat
  <2>4. k * size[2] <= b
    BY <1>2, <2>1, <2>3 DEF PosNat
  <2>5. ~CleanAt(price, k)
    BY <1>1, <1>4, <1>5, <2>3, <2>4 DEF Largest
  <2> QED
    BY <1>3, <2>3, <2>5
<1> QED
  BY <1>4, <1>5 DEF LargestCleanSize

LEMMA AgainCutsNothing == ASSUME SInv, PlaceAgain PROVE shares' = shares
<1> DEFINE z == <<shares, SizeUnits>>
<1>1. /\ side = "BUY" /\ price \in Fractions /\ z \in Fractions
      /\ Largest(price, size, shares) /\ SizeUnits \in PosNat
  BY AgainParts, SizingAssumption DEF PosNat
<1>2. Place("BUY", type, price, z)
  BY <1>1 DEF PlaceAgain
<1>3. shares' = SharesForCleanMaker(<<price[1] * z[1], price[2] * z[2]>>, price)
  BY <1>1, <1>2, FractionsPass DEF Place
<1>4. Largest(price, z, shares')
  BY <1>1, <1>3, SharesAreLargest
<1>5. /\ shares \in Nat /\ CleanAt(price, shares) /\ z[1] = shares /\ z[2] = SizeUnits
      /\ shares * SizeUnits \in Int
  BY <1>1 DEF Largest, PosNat
<1>6. shares <= shares'
  BY <1>4, <1>5 DEF Largest
<1>7. shares' \in Nat /\ shares' * SizeUnits <= shares * SizeUnits
  BY <1>4, <1>5 DEF Largest
<1>8. shares' <= shares
  BY <1>1, <1>5, <1>7, CancelFactor
<1> QED
  BY <1>5, <1>6, <1>7, <1>8

-----------------------------------------------------------------------------
(* The properties. *)

LEMMA SizingInvariance == Spec => []SInv
BY InitSInv, SInvInductive, PTL DEF Spec

\* A posted BUY has a positive size, a refused one has none.
THEOREM SizingTypeCorrect == Spec => []TypeOK
<1>1. SInv => TypeOK
  BY DEF SInv
<1> QED
  BY <1>1, SizingInvariance, PTL

\* The size of a BUY is the largest whose cost is whole, for every price and
\* size and any number of decimals of the share and of the dollar.
THEOREM CutIsRight == Spec => []LargestCleanSize
BY SInvLargest, SizingInvariance, PTL

\* A size that was cut once is not cut again.
THEOREM CutIsFinal == Spec => CutOnce
<1>1. SInv /\ [Next]_vars => [PlaceAgain => shares' = shares]_vars
  BY AgainCutsNothing
<1> QED
  BY <1>1, SizingInvariance, PTL DEF Spec, CutOnce
=============================================================================
