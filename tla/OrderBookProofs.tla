---------------------------- MODULE OrderBookProofs ----------------------------
(***************************************************************************)
(* The quotes and the levels of a book, for payloads of any length and     *)
(* levels of any kind.  What has to be shown of the sort is that it is a   *)
(* rearrangement of the levels that are kept: the number of levels up to   *)
(* a level, its rank, numbers the kept levels from 1 on without a gap.     *)
(***************************************************************************)
EXTENDS OrderBook, FiniteSetTheorems, FunctionTheorems, TLAPS

-----------------------------------------------------------------------------
(* Ranks. *)

\* A key of finitely many positions.
IsKey(key) == /\ IsFiniteSet(DOMAIN key) /\ DOMAIN key \subseteq Int
              /\ \A i \in DOMAIN key : key[i] \in Int

UpTo(key, i) == {j \in DOMAIN key : key[j] < key[i] \/ (key[j] = key[i] /\ j <= i)}

Rank(key) == [i \in DOMAIN key |-> Cardinality(UpTo(key, i))]

\* A rank is at least 1 and at most the number of positions.
LEMMA RankInRange ==
    ASSUME NEW key, IsKey(key), NEW i \in DOMAIN key
    PROVE  /\ IsFiniteSet(UpTo(key, i))
           /\ Cardinality(UpTo(key, i)) \in 1..Cardinality(DOMAIN key)
<1>1. UpTo(key, i) \in SUBSET DOMAIN key /\ i \in UpTo(key, i)
  BY DEF UpTo, IsKey
<1>2. /\ IsFiniteSet(UpTo(key, i)) /\ Cardinality(UpTo(key, i)) \in Nat
      /\ Cardinality(DOMAIN key) \in Nat
      /\ Cardinality(UpTo(key, i)) <= Cardinality(DOMAIN key)
  BY <1>1, FS_Subset, FS_CardinalityType DEF IsKey
<1>3. Cardinality(UpTo(key, i)) # 0
  BY <1>1, <1>2, FS_EmptySet
<1> QED
  BY <1>2, <1>3

\* What comes before has the smaller rank.
LEMMA RankGrows ==
    ASSUME NEW key, IsKey(key), NEW i \in DOMAIN key, NEW j \in DOMAIN key,
           key[i] < key[j] \/ (key[i] = key[j] /\ i < j)
    PROVE  Rank(key)[i] < Rank(key)[j]
<1>1. UpTo(key, i) \in SUBSET UpTo(key, j)
  BY DEF UpTo, IsKey
<1>2. j \in UpTo(key, j) /\ j \notin UpTo(key, i)
  BY DEF UpTo, IsKey
<1>3. /\ Cardinality(UpTo(key, i)) <= Cardinality(UpTo(key, j))
      /\ Cardinality(UpTo(key, i)) # Cardinality(UpTo(key, j))
      /\ Cardinality(UpTo(key, i)) \in Nat /\ Cardinality(UpTo(key, j)) \in Nat
  BY <1>1, <1>2, RankInRange, FS_Subset, FS_CardinalityType
<1> QED
  BY <1>3 DEF Rank

\* Ranks number the positions from 1 on, without a gap and without a tie.
LEMMA RankNumbers ==
    ASSUME NEW key, IsKey(key)
    PROVE  /\ \A i, j \in DOMAIN key : Rank(key)[i] = Rank(key)[j] => i = j
           /\ \A k \in 1..Cardinality(DOMAIN key) : \E i \in DOMAIN key : Rank(key)[i] = k
<1> DEFINE K == DOMAIN key
           n == Cardinality(K)
<1>1. Rank(key) \in [K -> 1..n]
  BY RankInRange DEF Rank
<1>2. ASSUME NEW i \in K, NEW j \in K, i # j PROVE Rank(key)[i] # Rank(key)[j]
  <2>1. Rank(key)[i] \in Int /\ Rank(key)[j] \in Int
    BY <1>1
  <2>2. \/ key[i] < key[j] \/ (key[i] = key[j] /\ i < j)
        \/ key[j] < key[i] \/ (key[j] = key[i] /\ j < i)
    BY <1>2 DEF IsKey
  <2> QED
    BY <2>1, <2>2, RankGrows
<1>3. Rank(key) \in Injection(K, 1..n)
  BY <1>1, <1>2, Fun_IsInj
<1>4. n \in Nat /\ IsFiniteSet(1..n) /\ Cardinality(1..n) = n
  BY FS_CardinalityType, FS_Interval DEF IsKey
<1>5. Rank(key) \in Surjection(K, 1..n)
  BY <1>3, <1>4, FS_Injection
<1>6. \A k \in 1..n : \E i \in K : Rank(key)[i] = k
  BY <1>5 DEF Surjection
<1> QED
  BY <1>2, <1>6

\* Sorting rearranges the positions of the key, in the order of the key.
LEMMA SortedRearranges ==
    ASSUME NEW key, IsKey(key), NEW items
    PROVE  LET n == Cardinality(DOMAIN key)
           IN  /\ n \in Nat
               /\ \E pos \in Bijection(1..n, DOMAIN key) :
                      /\ Sorted(items, key) = [k \in 1..n |-> items[pos[k]]]
                      /\ \A k, l \in 1..n : k <= l => key[pos[k]] <= key[pos[l]]
<1> DEFINE K == DOMAIN key
           n == Cardinality(K)
           pos == [k \in 1..n |-> CHOOSE i \in K : Cardinality(UpTo(key, i)) = k]
<1>1. n \in Nat
  BY FS_CardinalityType DEF IsKey
<1>2. \A k \in 1..n : pos[k] \in K /\ Rank(key)[pos[k]] = k
  BY RankNumbers DEF Rank
<1>3. pos \in Bijection(1..n, K)
  <2>1. pos \in [1..n -> K]
    BY <1>2
  <2>2. \A k, l \in 1..n : pos[k] = pos[l] => k = l
    BY <1>2
  <2>3. \A i \in K : \E k \in 1..n : pos[k] = i
    <3> TAKE i \in K
    <3>1. Rank(key)[i] \in 1..n
      BY RankInRange DEF Rank
    <3> QED
      BY <1>2, <3>1, RankNumbers
  <2> QED
    BY <2>1, <2>2, <2>3, Fun_IsBij
<1>4. Sorted(items, key) = [k \in 1..n |-> items[pos[k]]]
  BY DEF Sorted, UpTo
<1>5. ASSUME NEW k \in 1..n, NEW l \in 1..n, k <= l PROVE key[pos[k]] <= key[pos[l]]
  <2>1. pos[k] \in K /\ pos[l] \in K /\ Rank(key)[pos[k]] = k /\ Rank(key)[pos[l]] = l
    BY <1>2
  <2>2. ~(key[pos[l]] < key[pos[k]])
    BY <1>1, <1>5, <2>1, RankGrows
  <2> QED
    BY <2>1, <2>2 DEF IsKey
<1> QED
  BY <1>1, <1>3, <1>4, <1>5

-----------------------------------------------------------------------------
(* A side of the book. *)

\* A level that is kept has a price and a size.
LEMMA GoodLevels ==
    ASSUME NEW it \in Items, Good(it)
    PROVE  it.price \in Nat \ {0} /\ it.size \in Nat \ {0}
BY OrderBookAssumption DEF Good, Positive, Decimals

\* The levels a side keeps, sorted by any key, are the good levels of the
\* payload, each as often as it came, and the least key comes first.
LEMMA SideKeepsGood ==
    ASSUME NEW n \in Nat, NEW items \in [1..n -> Items],
           NEW key, DOMAIN key = Levels(items), \A i \in Levels(items) : key[i] \in Int
    PROVE  LET side == Sorted(items, key)
           IN  /\ side \in Seq(Items)
               /\ \A k \in DOMAIN side : Good(side[k])
               /\ side # <<>> => \E i \in Levels(items) :
                      side[1] = items[i] /\ \A j \in Levels(items) : key[i] <= key[j]
               /\ \A it \in Items : Good(it) =>
                      Cardinality({k \in DOMAIN side : side[k] = it})
                    = Cardinality({i \in DOMAIN items : items[i] = it})
<1> DEFINE K == Levels(items)
           m == Cardinality(K)
           side == Sorted(items, key)
<1>1. IsKey(key)
  <2>1. K \in SUBSET (1..n) /\ IsFiniteSet(1..n)
    BY FS_Interval DEF Levels
  <2> QED
    BY <2>1, FS_Subset DEF IsKey
<1>2. /\ m \in Nat
      /\ \E pos \in Bijection(1..m, K) :
             /\ side = [k \in 1..m |-> items[pos[k]]]
             /\ \A k, l \in 1..m : k <= l => key[pos[k]] <= key[pos[l]]
  <2>1. DOMAIN key = K
    OBVIOUS
  <2> HIDE DEF K, side
  <2>2. LET q == Cardinality(DOMAIN key)
        IN  /\ q \in Nat
            /\ \E pos \in Bijection(1..q, DOMAIN key) :
                   /\ Sorted(items, key) = [k \in 1..q |-> items[pos[k]]]
                   /\ \A k, l \in 1..q : k <= l => key[pos[k]] <= key[pos[l]]
    BY <1>1, SortedRearranges, Zenon
  <2> QED
    BY <2>1, <2>2, Zenon DEF side
<1>3. PICK pos \in Bijection(1..m, K) :
             /\ side = [k \in 1..m |-> items[pos[k]]]
             /\ \A k, l \in 1..m : k <= l => key[pos[k]] <= key[pos[l]]
  BY <1>2
<1>4. /\ pos \in [1..m -> K]
      /\ \A k, l \in 1..m : pos[k] = pos[l] => k = l
      /\ \A i \in K : \E k \in 1..m : pos[k] = i
  BY <1>3 DEF Bijection, Injection, Surjection, IsInjective
<1>5. \A i \in K : i \in 1..n /\ items[i] \in Items /\ Good(items[i])
  BY DEF Levels
<1>6. side \in Seq(Items) /\ DOMAIN side = 1..m /\ \A k \in 1..m : side[k] = items[pos[k]]
  <2> HIDE DEF side, K, m
  <2>1. DOMAIN side = 1..m /\ \A k \in 1..m : side[k] = items[pos[k]]
    BY <1>3
  <2>2. \A k \in 1..m : items[pos[k]] \in Items
    BY <1>4, <1>5
  <2>3. side \in [1..m -> Items]
    BY <1>3, <2>2
  <2> QED
    BY <1>2, <2>1, <2>3
<1>7. \A k \in DOMAIN side : Good(side[k])
  BY <1>4, <1>5, <1>6
<1>8. ASSUME side # <<>>
      PROVE  \E i \in K : side[1] = items[i] /\ \A j \in K : key[i] <= key[j]
  <2>1. 1 \in 1..m
    BY <1>2, <1>6, <1>8
  <2>2. \A j \in K : key[pos[1]] <= key[j]
    BY <1>2, <1>3, <1>4, <2>1
  <2> QED
    BY <1>4, <1>6, <2>1, <2>2
<1>9. ASSUME NEW it \in Items, Good(it)
      PROVE  Cardinality({k \in DOMAIN side : side[k] = it})
           = Cardinality({i \in DOMAIN items : items[i] = it})
  <2> DEFINE A == {k \in 1..m : side[k] = it}
             B == {i \in 1..n : items[i] = it}
             move == [k \in A |-> pos[k]]
  <2>1. B \subseteq K
    BY <1>9 DEF Levels
  <2>2. move \in Bijection(A, B)
    <3>1. move \in [A -> B]
      BY <1>4, <1>5, <1>6
    <3>2. \A k, l \in A : move[k] = move[l] => k = l
      BY <1>4
    <3>3. ASSUME NEW i \in B PROVE \E k \in A : move[k] = i
      <4>1. PICK k \in 1..m : pos[k] = i
        BY <1>4, <2>1
      <4>2. k \in A
        BY <4>1, <1>6
      <4> QED
        BY <4>1, <4>2
    <3> QED
      BY <3>1, <3>2, <3>3, Fun_IsBij
  <2>3. IsFiniteSet(A)
    <3>1. A \in SUBSET (1..m) /\ IsFiniteSet(1..m)
      BY <1>2, FS_Interval
    <3> QED
      BY <3>1, FS_Subset
  <2>4. ExistsBijection(A, B)
    BY <2>2 DEF ExistsBijection
  <2>5. Cardinality(A) = Cardinality(B)
    BY <2>3, <2>4, FS_Bijection
  <2> QED
    BY <1>6, <2>5
<1> QED
  BY <1>6, <1>7, <1>8, <1>9

\* The asks keep the good levels, and the cheapest comes first.
LEMMA AsksAreSorted ==
    ASSUME NEW n \in Nat, NEW items \in [1..n -> Items]
    PROVE  LET side == Ascending(items)
           IN  /\ side \in Seq(Items)
               /\ \A k \in DOMAIN side : Good(side[k])
               /\ side # <<>> => \E i \in Levels(items) :
                      side[1] = items[i]
                      /\ \A j \in Levels(items) : items[i].price <= items[j].price
               /\ \A it \in Items : Good(it) =>
                      Cardinality({k \in DOMAIN side : side[k] = it})
                    = Cardinality({i \in DOMAIN items : items[i] = it})
<1> DEFINE key == [i \in Levels(items) |-> items[i].price]
<1>1. DOMAIN key = Levels(items) /\ \A i \in Levels(items) : key[i] = items[i].price
  OBVIOUS
<1>2. \A i \in Levels(items) : key[i] \in Int
  BY <1>1, GoodLevels DEF Levels
<1>3. Ascending(items) = Sorted(items, key)
  BY DEF Ascending
<1> HIDE DEF key
<1> QED
  BY <1>1, <1>2, <1>3, SideKeepsGood

\* The bids keep the good levels, and the dearest comes first.
LEMMA BidsAreSorted ==
    ASSUME NEW n \in Nat, NEW items \in [1..n -> Items]
    PROVE  LET side == Descending(items)
           IN  /\ side \in Seq(Items)
               /\ \A k \in DOMAIN side : Good(side[k])
               /\ side # <<>> => \E i \in Levels(items) :
                      side[1] = items[i]
                      /\ \A j \in Levels(items) : items[i].price >= items[j].price
               /\ \A it \in Items : Good(it) =>
                      Cardinality({k \in DOMAIN side : side[k] = it})
                    = Cardinality({i \in DOMAIN items : items[i] = it})
<1> DEFINE key == [i \in Levels(items) |-> -items[i].price]
           side == Descending(items)
<1>1. DOMAIN key = Levels(items) /\ \A i \in Levels(items) : key[i] = -items[i].price
  OBVIOUS
<1>2. \A i \in Levels(items) : items[i].price \in Int /\ key[i] \in Int
  BY <1>1, GoodLevels DEF Levels
<1>3. side = Sorted(items, key)
  BY DEF Descending
<1> HIDE DEF key
<1>4. /\ side \in Seq(Items)
      /\ \A k \in DOMAIN side : Good(side[k])
      /\ side # <<>> => \E i \in Levels(items) :
             side[1] = items[i] /\ \A j \in Levels(items) : key[i] <= key[j]
      /\ \A it \in Items : Good(it) =>
             Cardinality({k \in DOMAIN side : side[k] = it})
           = Cardinality({i \in DOMAIN items : items[i] = it})
  BY <1>1, <1>2, <1>3, SideKeepsGood
<1>5. ASSUME NEW i \in Levels(items), NEW j \in Levels(items), key[i] <= key[j]
      PROVE  items[i].price >= items[j].price
  BY <1>1, <1>2, <1>5
<1> HIDE DEF side
<1>6. side # <<>> => \E i \in Levels(items) :
          side[1] = items[i] /\ \A j \in Levels(items) : items[i].price >= items[j].price
  BY <1>4, <1>5
<1> QED
  BY <1>4, <1>6 DEF side

-----------------------------------------------------------------------------
(* The book that is held is the one the payload gives, and what was quoted *)
(* is its best price: a payload only arrives before there is a book.       *)

IsPayload(p) == /\ \E n \in Nat : p.asks \in [1..n -> Items]
                /\ \E n \in Nat : p.bids \in [1..n -> Items]

SideOf(side) == IF side = "BUY" THEN book.asks ELSE book.bids

BookInv ==
    /\ IsPayload(raw)
    /\ book = ParseOrderBook(raw)
    /\ quotes \in [Sides -> Nat]
    /\ \A side \in Sides : quotes[side] # NoPrice =>
           SideOf(side) # <<>> /\ quotes[side] = SideOf(side)[1].price

\* What a book holds: nothing, or the sorted sides of its payload.
LEMMA ParsedBook ==
    ASSUME NEW p, IsPayload(p)
    PROVE  LET b == ParseOrderBook(p)
           IN  /\ b.asks \in Seq(Items) /\ b.bids \in Seq(Items)
               /\ \A k \in DOMAIN b.asks : Good(b.asks[k])
               /\ \A k \in DOMAIN b.bids : Good(b.bids[k])
               /\ b.asks # <<>> => \E i \in Levels(p.asks) :
                      b.asks[1] = p.asks[i]
                      /\ \A j \in Levels(p.asks) : p.asks[i].price <= p.asks[j].price
               /\ b.bids # <<>> => \E i \in Levels(p.bids) :
                      b.bids[1] = p.bids[i]
                      /\ \A j \in Levels(p.bids) : p.bids[i].price >= p.bids[j].price
<1> DEFINE b == ParseOrderBook(p)
<1>1. CASE b = NoBook
  <2>1. b.asks = <<>> /\ b.bids = <<>>
    BY <1>1 DEF NoBook
  <2>2. <<>> \in Seq(Items) /\ DOMAIN <<>> = {}
    OBVIOUS
  <2> QED
    BY <2>1, <2>2
<1>2. CASE b.asks = Ascending(p.asks) /\ b.bids = Descending(p.bids)
  <2> HIDE DEF b
  <2> QED
    BY <1>2, AsksAreSorted, BidsAreSorted DEF b, IsPayload
<1>3. b = NoBook \/ (b.asks = Ascending(p.asks) /\ b.bids = Descending(p.bids))
  BY DEF ParseOrderBook
<1> QED
  BY <1>1, <1>2, <1>3

LEMMA BookInvInit == Init => BookInv
<1> SUFFICES ASSUME Init PROVE BookInv
  OBVIOUS
<1>1. IsPayload(raw)
  <2>1. raw.asks \in [1..0 -> Items] /\ raw.bids \in [1..0 -> Items]
    BY DEF Init, NoPayload
  <2> QED
    BY <2>1 DEF IsPayload
<1>2. book = ParseOrderBook(raw)
  BY DEF Init, NoPayload, ParseOrderBook
<1> QED
  BY <1>1, <1>2 DEF Init, BookInv, NoPrice

LEMMA BookInvNext == BookInv /\ [Next]_vars => BookInv'
<1> SUFFICES ASSUME BookInv, [Next]_vars PROVE BookInv'
  OBVIOUS
<1>1. CASE GetOrderBook
  <2>1. IsPayload(raw')
    <3>1. PICK n \in 0..MaxLevels, m \in 0..MaxLevels :
             \E asks \in [1..n -> Items], bids \in [1..m -> Items] :
                 raw'.asks = asks /\ raw'.bids = bids
      BY <1>1 DEF GetOrderBook
    <3>2. n \in Nat /\ m \in Nat
      BY OrderBookAssumption
    <3> QED
      BY <3>1, <3>2 DEF IsPayload
  <2>2. book = NoBook
    BY <1>1 DEF GetOrderBook, BookInv, ParseOrderBook, NoPayload
  <2>3. \A side \in Sides : quotes[side] = NoPrice
    BY <2>2 DEF BookInv, SideOf, NoBook
  <2> QED
    BY <1>1, <2>1, <2>3 DEF BookInv, GetOrderBook
<1>2. ASSUME NEW s \in Sides, GetPrice(s) PROVE BookInv'
  <2>1. /\ book.asks \in Seq(Items) /\ book.bids \in Seq(Items)
        /\ \A k \in DOMAIN book.asks : Good(book.asks[k])
        /\ \A k \in DOMAIN book.bids : Good(book.bids[k])
    BY ParsedBook DEF BookInv
  <2> DEFINE levels == SideOf(s)
  <2>2. ASSUME levels # <<>> PROVE levels[1].price \in Nat /\ Head(levels) = levels[1]
    <3>1. levels \in Seq(Items) /\ \A k \in DOMAIN levels : Good(levels[k])
      BY <2>1 DEF SideOf
    <3> HIDE DEF levels
    <3>2. 1 \in DOMAIN levels /\ levels[1] \in Items /\ Head(levels) = levels[1]
      BY <2>2, <3>1
    <3> QED
      BY <3>1, <3>2, GoodLevels
  <2>3. /\ raw' = raw /\ book' = book
        /\ quotes' = [quotes EXCEPT ![s] = IF levels = <<>> THEN NoPrice
                                           ELSE levels[1].price]
    BY <1>2, <2>2 DEF GetPrice, SideOf
  <2>4. \A side \in Sides : SideOf(side)' = SideOf(side)
    BY <2>3 DEF SideOf
  <2>5. IsPayload(raw)' /\ book' = ParseOrderBook(raw')
    BY <2>3 DEF BookInv, IsPayload
  <2> HIDE DEF levels
  <2>6. quotes' \in [Sides -> Nat]
    BY <2>2, <2>3 DEF BookInv, NoPrice
  <2>7. ASSUME NEW side \in Sides, quotes'[side] # NoPrice
        PROVE  SideOf(side) # <<>> /\ quotes'[side] = SideOf(side)[1].price
    <3>1. CASE side = s
      <4>1. quotes'[s] = IF levels = <<>> THEN NoPrice ELSE levels[1].price
        BY <2>3 DEF BookInv
      <4> QED
        BY <2>7, <3>1, <4>1 DEF levels
    <3>2. CASE side # s
      <4>1. quotes'[side] = quotes[side]
        BY <2>3, <3>2 DEF BookInv
      <4> QED
        BY <2>7, <4>1 DEF BookInv
    <3> QED
      BY <3>1, <3>2
  <2> QED
    BY <2>4, <2>5, <2>6, <2>7 DEF BookInv
<1>3. CASE UNCHANGED vars
  BY <1>3 DEF vars, BookInv, IsPayload, SideOf
<1> QED
  BY <1>1, <1>2, <1>3 DEF Next

\* The invariant that the theorems rest on.
LEMMA BookInvHolds == Spec => []BookInv
BY BookInvInit, BookInvNext, PTL DEF Spec

-----------------------------------------------------------------------------
(* Theorems. *)

\* The levels of a book have a price and a size, and every quote is the price
\* of one of them (parse_order_book, get_price).
THEOREM TypeCorrect == Spec => []TypeOK
<1>1. BookInv => TypeOK
  <2> SUFFICES ASSUME BookInv PROVE TypeOK
    OBVIOUS
  <2>1. /\ book.asks \in Seq(Items) /\ book.bids \in Seq(Items)
        /\ \A k \in DOMAIN book.asks : Good(book.asks[k])
        /\ \A k \in DOMAIN book.bids : Good(book.bids[k])
    BY ParsedBook DEF BookInv
  <2>2. Range(raw.asks) \cup Range(raw.bids) \subseteq Items
    BY DEF BookInv, IsPayload, Range
  <2>3. \A side \in {book.asks, book.bids} : \A lv \in Range(side) : Good(lv)
    BY <2>1 DEF Range
  <2>4. ASSUME NEW s \in Sides, quotes[s] # NoPrice
        PROVE  quotes[s] \in {lv.price : lv \in Range(book.asks) \cup Range(book.bids)}
    <3>1. SideOf(s) # <<>> /\ quotes[s] = SideOf(s)[1].price
      BY <2>4 DEF BookInv
    <3>2. SideOf(s) \in Seq(Items)
      BY <2>1 DEF SideOf
    <3>3. SideOf(s)[1] \in Range(SideOf(s))
      BY <3>1, <3>2 DEF Range
    <3>4. SideOf(s)[1] \in Range(book.asks) \cup Range(book.bids)
      BY <3>3 DEF SideOf
    <3> QED
      BY <3>1, <3>4
  <2>5. quotes \in [Sides -> {NoPrice} \cup
                       {lv.price : lv \in Range(book.asks) \cup Range(book.bids)}]
    BY <2>4 DEF BookInv
  <2> QED
    BY <2>2, <2>3, <2>5 DEF TypeOK
<1> QED
  BY <1>1, BookInvHolds, PTL

\* What get_price returns for a buyer is the least ask that is worth anything,
\* and for a seller the greatest bid, whatever the order of the payload and
\* whatever else is in it.
THEOREM QuotesBest == Spec => []QuotesAreBest
<1>1. BookInv => QuotesAreBest
  <2> SUFFICES ASSUME BookInv PROVE QuotesAreBest
    OBVIOUS
  <2> DEFINE good(items) == {it.price : it \in {i \in Range(items) : Good(i)}}
  <2>1. ASSUME quotes["BUY"] # NoPrice
        PROVE  /\ quotes["BUY"] \in good(raw.asks)
               /\ \A p \in good(raw.asks) : quotes["BUY"] <= p
    <3>1. book.asks # <<>> /\ quotes["BUY"] = book.asks[1].price
      BY <2>1 DEF BookInv, SideOf, Sides
    <3>2. PICK i \in Levels(raw.asks) :
             /\ book.asks[1] = raw.asks[i]
             /\ \A j \in Levels(raw.asks) : raw.asks[i].price <= raw.asks[j].price
      BY <3>1, ParsedBook DEF BookInv
    <3>3. \A p \in good(raw.asks) : \E j \in Levels(raw.asks) : p = raw.asks[j].price
      BY DEF Levels, Range
    <3>4. raw.asks[i].price \in good(raw.asks)
      BY DEF Levels, Range
    <3> QED
      BY <3>1, <3>2, <3>3, <3>4
  <2>2. ASSUME quotes["SELL"] # NoPrice
        PROVE  /\ quotes["SELL"] \in good(raw.bids)
               /\ \A p \in good(raw.bids) : quotes["SELL"] >= p
    <3>1. book.bids # <<>> /\ quotes["SELL"] = book.bids[1].price
      BY <2>2 DEF BookInv, SideOf, Sides
    <3>2. PICK i \in Levels(raw.bids) :
             /\ book.bids[1] = raw.bids[i]
             /\ \A j \in Levels(raw.bids) : raw.bids[i].price >= raw.bids[j].price
      BY <3>1, ParsedBook DEF BookInv
    <3>3. \A p \in good(raw.bids) : \E j \in Levels(raw.bids) : p = raw.bids[j].price
      BY DEF Levels, Range
    <3>4. raw.bids[i].price \in good(raw.bids)
      BY DEF Levels, Range
    <3> QED
      BY <3>1, <3>2, <3>3, <3>4
  <2> QED
    BY <2>1, <2>2 DEF QuotesAreBest
<1> QED
  BY <1>1, BookInvHolds, PTL

\* A malformed or worthless level costs the caller no good one: every good
\* level is in the book, as often as it came (_levels), or the whole book is
\* dropped, which only a NaN in it brings about.
THEOREM GoodSurvive == Spec => []GoodLevelsSurvive
<1>1. BookInv => GoodLevelsSurvive
  <2> DEFINE count(levels, it) == Cardinality({i \in DOMAIN levels : levels[i] = it})
             items == Range(raw.asks) \cup Range(raw.bids)
             whole == \A it \in items : Good(it) =>
                          /\ count(book.asks, it) = count(raw.asks, it)
                          /\ count(book.bids, it) = count(raw.bids, it)
             lost == book = NoBook /\ \E it \in items : NaN \in {it.price, it.size}
  <2> SUFFICES ASSUME BookInv, raw.object PROVE lost \/ whole
    BY DEF GoodLevelsSurvive
  <2>1. CASE \E it \in items : Raises(it)
    <3>1. book = NoBook
      BY <2>1 DEF BookInv, ParseOrderBook
    <3> QED
      BY <2>1, <3>1 DEF Raises
  <2>2. ASSUME \A other \in items : ~Raises(other),
               NEW it \in items, Good(it)
        PROVE  /\ count(book.asks, it) = count(raw.asks, it)
               /\ count(book.bids, it) = count(raw.bids, it)
    <3>1. book.asks = Ascending(raw.asks) /\ book.bids = Descending(raw.bids)
      BY <2>2 DEF BookInv, ParseOrderBook
    <3>2. it \in Items
      BY DEF BookInv, IsPayload, Range
    <3>3. PICK n \in Nat, m \in Nat :
              raw.asks \in [1..n -> Items] /\ raw.bids \in [1..m -> Items]
      BY DEF BookInv, IsPayload
    <3>4. count(Ascending(raw.asks), it) = count(raw.asks, it)
      BY <2>2, <3>2, <3>3, AsksAreSorted
    <3>5. count(Descending(raw.bids), it) = count(raw.bids, it)
      BY <2>2, <3>2, <3>3, BidsAreSorted
    <3> QED
      BY <3>1, <3>4, <3>5
  <2> QED
    BY <2>1, <2>2
<1> QED
  BY <1>1, BookInvHolds, PTL

=============================================================================
