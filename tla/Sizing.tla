-------------------------------- MODULE Sizing --------------------------------
(***************************************************************************)
(* The arithmetic of PolyTrader.place_limit_order: its checks of price and *)
(* size, and shares_for_clean_maker (polytrader/markets.py), which cuts    *)
(* the size of a BUY to the largest one whose cost is a whole number of    *)
(* cents.  A positive decimal is a fraction <<n, d>>; the code computes    *)
(* with exact fractions too.  A caller may go on with the size it got.     *)
(***************************************************************************)
EXTENDS Integers

CONSTANTS Prices, Sizes,  \* the positive decimals tried, as fractions
          SizeUnits,      \* 10^taker_dp: a share has that many increments
          CashUnits       \* 10^maker_dp: cents in a dollar

Fractions == (Nat \ {0}) \X (Nat \ {0})

ASSUME SizingAssumption ==
    /\ Prices \subseteq Fractions /\ Sizes \subseteq Fractions
    /\ SizeUnits \in Nat \ {0} /\ CashUnits \in Nat \ {0}

VARIABLES side, type,   \* of the order
          price, size,  \* as given
          end,          \* how the call went
          shares        \* increments of a share posted, of a BUY

vars == <<side, type, price, size, end, shares>>

\* Decimals that are not positive fractions, and a text that is no decimal.
NaN      == <<0, 0>>
Infinity == <<1, 0>>
Zero     == <<0, 1>>
Text     == <<-1, 0>>
Odd      == {NaN, Infinity, Zero, Text}

\* Fraction(n, d).denominator: the least multiplier that makes it whole.
Denominator(n, d) ==
    CHOOSE q \in 1..d : /\ (n * q) % d = 0
                        /\ \A p \in 1..q - 1 : (n * p) % d # 0

\* Mutation: the step is the denominator as it is written, not in lowest terms.
StepNotReduced(A, P) ==
    LET step == P[2] * SizeUnits
        kmax == (A[1] * P[2] * SizeUnits) \div (A[2] * P[1])
    IN  (kmax \div step) * step

\* Mutation: a budget that is spent to the last cent does not fit.
StrictBudget(A, P) ==
    LET step == Denominator(P[1] * CashUnits, P[2] * SizeUnits)
        kmax == (A[1] * P[2] * SizeUnits) \div (A[2] * P[1])
    IN  IF kmax = 0 THEN 0 ELSE ((kmax - 1) \div step) * step

\* shares_for_clean_maker(amount A, price P), in increments of a share; 0 is None.
SharesForCleanMaker(A, P) ==
    LET step == Denominator(P[1] * CashUnits, P[2] * SizeUnits)
        kmax == (A[1] * P[2] * SizeUnits) \div (A[2] * P[1])
    IN  (kmax \div step) * step

Init ==
    /\ side = "none" /\ type = "none" /\ price = Zero /\ size = Zero
    /\ end = "new" /\ shares = 0

\* "if x <= 0: raise": comparing a NaN raises too.
Positive(x) == IF x = NaN THEN "InvalidOperation"
               ELSE IF x = Zero THEN "ValidationError" ELSE "sized"

(***************************************************************************)
(* How the checks of place_limit_order end.  Fraction refuses infinity     *)
(* with a ValueError; an infinite price or size of a SELL is posted, or    *)
(* refused by the JSON encoder, as the version of httpx has it.            *)
(***************************************************************************)
Checks(s, p, z) ==
    IF s = "HOLD" \/ Text \in {p, z} THEN {"ValidationError"}
    ELSE IF Positive(p) # "sized" THEN {Positive(p)}
    ELSE IF Positive(z) # "sized" THEN {Positive(z)}
    ELSE IF Infinity \notin {p, z} THEN {"sized"}
    ELSE IF s = "BUY" THEN {"ValueError"} ELSE {"posted", "ValueError"}

\* Mutation: a size that cannot be cut is posted as it is.
PlaceAnyway(s, t, p, z) ==
    /\ side' = s /\ type' = t /\ price' = p /\ size' = z
    /\ \E how \in Checks(s, p, z) :
           IF how = "sized" /\ s = "BUY"
           THEN /\ shares' = SharesForCleanMaker(<<p[1] * z[1], p[2] * z[2]>>, p)
                /\ end' = "posted"
           ELSE shares' = 0 /\ end' = IF how = "sized" THEN "posted" ELSE how

\* place_limit_order.
Place(s, t, p, z) ==
    /\ side' = s /\ type' = t /\ price' = p /\ size' = z
    /\ \E how \in Checks(s, p, z) :
           IF how = "sized" /\ s = "BUY"
           THEN /\ shares' = SharesForCleanMaker(<<p[1] * z[1], p[2] * z[2]>>, p)
                /\ end' = IF shares' = 0 THEN "refused" ELSE "posted"
           ELSE shares' = 0 /\ end' = IF how = "sized" THEN "posted" ELSE how

PlaceLimitOrder ==
    /\ end = "new"
    /\ \E s \in {"BUY", "SELL", "HOLD"}, t \in {"GTC", "FAK"},
          p \in Prices \cup Odd, z \in Sizes \cup Odd : Place(s, t, p, z)

\* The caller places the size it got once more, at the same price.
PlaceAgain ==
    /\ end = "posted" /\ shares > 0
    /\ Place(side, type, price, <<shares, SizeUnits>>)

Next == PlaceLimitOrder \/ PlaceAgain

Spec == Init /\ [][Next]_vars

-----------------------------------------------------------------------------
(* Properties. *)

\* A posted BUY has a positive size, a refused one has none.
TypeOK ==
    /\ side \in {"none", "BUY", "SELL", "HOLD"} /\ type \in {"none", "GTC", "FAK"}
    /\ price \in Prices \cup Odd
    /\ size \in Fractions \cup Odd
    /\ end \in {"new", "posted", "refused", "ValidationError",
                "InvalidOperation", "ValueError"}
    /\ shares \in Nat
    /\ shares > 0 <=> end = "posted" /\ side = "BUY"

Sized == side = "BUY" /\ end \in {"posted", "refused"}

\* k increments cost a whole number of cents; k increments are not more than asked.
Clean(k) == (k * price[1] * CashUnits) % (price[2] * SizeUnits) = 0
Fits(k)  == k * size[2] <= size[1] * SizeUnits

\* shares_for_clean_maker returns the largest clean size within the budget, and
\* none only if there is none (markets.py:268-271): no smaller cut is lost to
\* the way the price is written, no cent is exceeded.
LargestCleanSize ==
    Sized => /\ Clean(shares) /\ Fits(shares)
             /\ \A k \in 0..(size[1] * SizeUnits) \div size[2] :
                    k > shares => ~Clean(k)

\* A size that was cut once is not cut again (a caller that resubmits the size
\* it got trades the same).
CutOnce == [][PlaceAgain => shares' = shares]_vars
=============================================================================
