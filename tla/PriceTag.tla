------------------------------ MODULE PriceTag ------------------------------
(***************************************************************************)
(* The price of a product (and, by the same code, of a variant):           *)
(* ProductService.resolvePricingUpdate derives salePrice from the body and *)
(* from the row as the request read it, the UPDATE writes what it derived, *)
(* and two CHECK constraints refuse a row that makes no sense.             *)
(*                                                                         *)
(* A body's numbers may have any number of decimals; the columns have two, *)
(* and round what they are given after the sale price was derived from it. *)
(* So the row is in hundredths (of the currency, or of a per cent) and a   *)
(* body in units Fine times smaller.                                       *)
(*                                                                         *)
(* One row.  The UPDATE and its commit are one step: nothing else a        *)
(* request writes is about the price.                                      *)
(***************************************************************************)
EXTENDS Requests, Integers

CONSTANTS
    Fine,                        \* how many units of a body make a hundredth
    BasePrices, DiscountValues,  \* what a body may say, in those units
    FirstPrice,                  \* the base price the row is created with
    Unsaid,                      \* a field the body leaves out
    NoValue                      \* a discountValue of NULL

VARIABLE tag   \* base, type, value, sale: hundredths

tagVars == <<tag, request, alone>>
AtTag   == tag

DiscountTypes == {"PERCENTAGE", "FIXED"}

TagInit ==
    /\ tag = [base |-> FirstPrice, type |-> "PERCENTAGE", value |-> NoValue, sale |-> FirstPrice]
    /\ request = [t \in Tx |-> Idle]
    /\ alone = [t \in Tx |-> FALSE]

-----------------------------------------------------------------------------
Either(field, current) == IF field = Unsaid THEN current ELSE field

\* A column's number as a request computes with it, and the column that is
\* given such a number: DECIMAL(12, 2) rounds half up.
Read(n)   == IF n = NoValue THEN NoValue ELSE n * Fine
Stored(x) == IF x = NoValue THEN NoValue ELSE (2 * x + Fine) \div (2 * Fine)

\* Math.round(n / d); floating point takes an exact half either way.
Rounded(n, d) == {r \in {n \div d, n \div d + 1} : 2 * (r * d - n) \in -d .. d}

\* 100 %, in the units of a body.
Whole == 10000 * Fine

\* resolveSalePrice, as the column keeps it; nothing for a discount it refuses.
SalePrices(base, type, value) ==
    IF value = NoValue THEN {Stored(base)}
    ELSE IF type = "PERCENTAGE"
         THEN IF value > Whole THEN {} ELSE Rounded(base * (Whole - value), Whole * Fine)
         ELSE IF value > base THEN {} ELSE Rounded(base - value, Fine)

Body == [base : BasePrices \cup {Unsaid}, type : DiscountTypes \cup {Unsaid},
         value : DiscountValues \cup {Unsaid}]

Touches(body) == body.base # Unsaid \/ body.type # Unsaid \/ body.value # Unsaid

\* Mutant: a discount is checked by the new type and taken by the old.
PricingFieldsOfOldType(body, seen) ==
    LET base  == Either(body.base, Read(seen.base))
        type  == Either(body.type, seen.type)
        value == Either(body.value, Read(seen.value))
    IN {[type |-> type, value |-> value, sale |-> s] :
            s \in IF SalePrices(base, type, value) = {} THEN {}
                  ELSE SalePrices(base, seen.type, value)}

\* resolvePricingUpdate: the three fields it always writes together.
PricingFields(body, seen) ==
    LET type  == Either(body.type, seen.type)
        value == Either(body.value, Read(seen.value))
    IN {[type |-> type, value |-> value, sale |-> s] :
            s \in SalePrices(Either(body.base, Read(seen.base)), type, value)}

\* updateProduct up to its transaction.
BeginPricing(t, body) ==
    /\ Touches(body)
    /\ \E fields \in PricingFields(body, tag) :
          Starts(t, [stage |-> "write", base |-> body.base, fields |-> fields])
    /\ UNCHANGED AtTag

\* The row the UPDATE leaves.
Tagged(t) ==
    LET r == request[t] IN
    [base |-> IF r.base = Unsaid THEN tag.base ELSE Stored(r.base), type |-> r.fields.type,
     value |-> Stored(r.fields.value), sale |-> r.fields.sale]

\* products_sale_price_valid, products_discount_value_valid
PassesChecks(row) ==
    /\ row.sale \in 0 .. row.base
    /\ row.value # NoValue =>
          row.value \in 0 .. (IF row.type = "PERCENTAGE" THEN 10000 ELSE row.base)

WritePrice(t) ==
    /\ request[t].stage = "write"
    /\ PassesChecks(Tagged(t))
    /\ tag' = Tagged(t)
    /\ Ends(t)

\* Refused by a constraint, or failed for a reason of its own.
Drop(t) ==
    /\ Ends(t)
    /\ UNCHANGED AtTag

Ask(t) == request[t] = Idle /\ \E body \in Body : BeginPricing(t, body)

Serve(t) == t \in Active /\ (WritePrice(t) \/ Drop(t))

TagNext == \E t \in Tx : Ask(t) \/ Serve(t)

TagSpec == TagInit /\ [][TagNext]_tagVars

-----------------------------------------------------------------------------
\* The sale price is one the row's own base and discount give again.
Exact == tag.sale \in SalePrices(Read(tag.base), tag.type, Read(tag.value))

\* It is theirs but for the rounding of the three columns: half a hundredth
\* each for the base, for the sale price and for a fixed discount, and half a
\* hundredth of a per cent of the base for a percentage.
Near ==
    LET base == tag.base  value == tag.value  sale == tag.sale IN
    IF value = NoValue THEN sale = base
    ELSE IF tag.type = "PERCENTAGE"
         THEN 2 * (10000 * sale - base * (10000 - value)) \in -(20000 + base) .. (20000 + base)
         ELSE sale - (base - value) \in -1 .. 1

\* A request that computed with whole hundredths.
InHundredths(r) ==
    /\ r.base # Unsaid => r.base % Fine = 0
    /\ r.fields.value # NoValue => r.fields.value % Fine = 0

\* The sale price is what its row's base and discount give again after every
\* lone edit, exactly if the edit was in hundredths, and within the rounding of
\* the columns if its body was finer than they are; edits that overlap may
\* leave a price that has nothing to do with the row ("salePrice is never
\* accepted from the client - it's always derived here from basePrice +
\* discountType/discountValue").
LoneEditReprices == [][\A t \in Tx :
    alone[t] /\ t \in Active /\ WritePrice(t) =>
        Near' /\ (InHundredths(request[t]) => Exact')]_tagVars
=============================================================================
