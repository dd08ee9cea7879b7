------------------------------ MODULE OrderBook ------------------------------
(***************************************************************************)
(* The order book of a token: parse_order_book and fetch_order_book        *)
(* (polytrader/markets.py), the book (polytrader/models.py), get_order_book *)
(* and get_price (polytrader/client.py).  How the request for a book ends  *)
(* is a matter of ReadPath; here it brings a payload or nothing.           *)
(*                                                                         *)
(* A decimal is a natural number, in any unit, 0 for everything that is    *)
(* not positive; or it is infinite, NaN, or no decimal at all.             *)
(***************************************************************************)
EXTENDS Integers, FiniteSets, Sequences, Functions

CONSTANTS Items,      \* levels of a payload, as they come
          MaxLevels,  \* bound on the levels of a payload
          Infinity,   \* larger than every price
          NaN,
          Malformed   \* no decimal, or the field or the item is missing

Decimals == 0..Infinity \cup {NaN, Malformed}

DefaultTick == 1

ASSUME OrderBookAssumption ==
    /\ MaxLevels \in Nat /\ Infinity \in Nat \ {0} /\ NaN # Malformed
    /\ Items \subseteq [price : Decimals, size : Decimals]

VARIABLES raw,    \* the payload that arrived
          book,   \* the parsed book, or None
          quotes  \* [side -> what get_price returned last]

vars == <<raw, book, quotes>>

Sides   == {"BUY", "SELL"}
NoBook  == [asks |-> <<>>, bids |-> <<>>, tick |-> 0]
NoPrice == 0

-----------------------------------------------------------------------------
(* parse_order_book. *)

Positive(v) == v \notin {NaN, Malformed} /\ v > 0

\* Comparing a NaN raises; the size is compared if the price is positive.
Raises(it) == /\ Malformed \notin {it.price, it.size}
              /\ it.price = NaN \/ (Positive(it.price) /\ it.size = NaN)

Good(it) == Positive(it.price) /\ Positive(it.size)

\* Mutation: only the price of a level is looked at.
LevelsOfAnySize(items) == {i \in DOMAIN items : Positive(items[i].price)}

\* Mutation: the first bad level ends the list.
LevelsUntilBad(items) == {i \in DOMAIN items : \A j \in 1..i : Good(items[j])}

\* _levels, of items on which nothing raises: the positions it keeps.
Levels(items) == {i \in DOMAIN items : Good(items[i])}

\* sorted, by a key of the positions kept: item i comes k-th if k items come
\* before it or at it, where equals stay in the order they had.
Sorted(items, key) ==
    LET upTo(i) == {j \in DOMAIN key : key[j] < key[i] \/ (key[j] = key[i] /\ j <= i)}
    IN  [k \in 1..Cardinality(DOMAIN key) |->
            items[CHOOSE i \in DOMAIN key : Cardinality(upTo(i)) = k]]

Ascending(items)  == Sorted(items, [i \in Levels(items) |-> items[i].price])
Descending(items) == Sorted(items, [i \in Levels(items) |-> -items[i].price])

\* parse_order_book, and None for the exceptions fetch_order_book catches.
ParseOrderBook(payload) ==
    IF ~payload.object \/ \E it \in Range(payload.asks) \cup Range(payload.bids) : Raises(it)
    THEN NoBook
    ELSE [asks |-> Ascending(payload.asks),
          bids |-> Descending(payload.bids),
          tick |-> IF Positive(payload.tick) THEN payload.tick ELSE DefaultTick]

-----------------------------------------------------------------------------
(* The client. *)

NoPayload == [asks |-> <<>>, bids |-> <<>>, tick |-> Malformed, object |-> FALSE]

Init ==
    /\ raw    = NoPayload
    /\ book   = NoBook
    /\ quotes = [s \in Sides |-> NoPrice]

\* get_order_book: a payload arrives, or nothing usable does.
GetOrderBook ==
    /\ raw = NoPayload
    /\ \E n, m \in 0..MaxLevels, tick \in {0, 2, NaN, Malformed}, object \in BOOLEAN :
          /\ n + m <= MaxLevels
          /\ \E asks \in [1..n -> Items], bids \in [1..m -> Items] :
                 raw' = [asks |-> asks, bids |-> bids, tick |-> tick, object |-> object]
    /\ book' = ParseOrderBook(raw')
    /\ UNCHANGED quotes

\* get_price, on this book: its best ask or best bid.
GetPrice(side) ==
    LET levels == IF side = "BUY" THEN book.asks ELSE book.bids
    IN  /\ quotes' = [quotes EXCEPT ![side] =
                         IF levels = <<>> THEN NoPrice ELSE Head(levels).price]
        /\ UNCHANGED <<raw, book>>

Next == GetOrderBook \/ \E side \in Sides : GetPrice(side)

Spec == Init /\ [][Next]_vars

-----------------------------------------------------------------------------
(* Properties. *)

TypeOK ==
    /\ Range(raw.asks) \cup Range(raw.bids) \subseteq Items
    /\ \A side \in {book.asks, book.bids} : \A lv \in Range(side) : Good(lv)
    /\ quotes \in [Sides -> {NoPrice} \cup {lv.price : lv \in Range(book.asks) \cup Range(book.bids)}]

\* A caller who trades at the quote pays, or gets, the best price of the levels
\* that are worth anything, whatever the order and the rest of the payload.
QuotesAreBest ==
    LET good(items) == {it.price : it \in {i \in Range(items) : Good(i)}}
    IN  /\ quotes["BUY"] # NoPrice =>
               quotes["BUY"] \in good(raw.asks)
               /\ \A p \in good(raw.asks) : quotes["BUY"] <= p
        /\ quotes["SELL"] # NoPrice =>
               quotes["SELL"] \in good(raw.bids)
               /\ \A p \in good(raw.bids) : quotes["SELL"] >= p

\* "Drops malformed/non-positive levels rather than raising" (markets.py:195): a
\* bad level never costs the caller a good one in silence.  Every good level is in
\* the book, as often as it came; or there is no book at all, which only a NaN
\* brings about.
GoodLevelsSurvive ==
    LET items == Range(raw.asks) \cup Range(raw.bids)
        count(levels, it) == Cardinality({i \in DOMAIN levels : levels[i] = it})
    IN  raw.object =>
            \/ /\ book = NoBook
               /\ \E it \in items : NaN \in {it.price, it.size}
            \/ \A it \in items : Good(it) =>
                   /\ count(book.asks, it) = count(raw.asks, it)
                   /\ count(book.bids, it) = count(raw.bids, it)
=============================================================================
