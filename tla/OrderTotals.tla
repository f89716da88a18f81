---------------------------- MODULE OrderTotals -----------------------------
(***************************************************************************)
(* What an order costs: OrderService.buildOrderItems, the discount of its  *)
(* promo code, and allocateDiscountAcrossItems, which splits the discount  *)
(* over the lines one after the other.                                     *)
(*                                                                         *)
(* Money is in cents.  The program computes in binary floating point and   *)
(* rounds with Math.round(x * 100) / 100: anything but an exact half cent  *)
(* rounds to the nearest, and an exact half may come out on either side    *)
(* (1.005 * 100 is 100.49999...).                                          *)
(***************************************************************************)
EXTENDS Integers, Sequences, Functions

CONSTANTS
    UnitPrices,      \* cents
    Quantities,
    MaxLines,        \* bounds the cart
    Promos,          \* [type, value, max, min] of the codes that may be applied
    NoMax,           \* the max of a code without a maximum discount
    DeliveryCharge   \* FLAT_DELIVERY_CHARGE

VARIABLES
    stage,      \* "items", "shares", "total" or "placed"
    lines,      \* the order items: gross, share of the discount, net
    subtotal,
    discount,
    allocated,  \* what the shares so far add up to
    shared,     \* how many lines have their share
    total

totalVars == <<stage, lines, subtotal, discount, allocated, shared, total>>

\* n / d cents, rounded.
Rounded(n, d) ==
    {r \in {n \div d, n \div d + 1} : 2 * (r * d - n) \in -d .. d}

Least(m, n) == IF m <= n THEN m ELSE n

TotalsInit ==
    /\ stage = "items" /\ lines = <<>>
    /\ subtotal = 0 /\ discount = 0 /\ allocated = 0 /\ shared = 0 /\ total = 0

\* buildOrderItems: the next line of the aggregated cart.
AddLine(unit, quantity) ==
    /\ stage = "items" /\ Len(lines) < MaxLines
    /\ lines' = Append(lines, [gross |-> unit * quantity, share |-> 0, net |-> unit * quantity])
    /\ subtotal' = subtotal + unit * quantity
    /\ UNCHANGED <<stage, discount, allocated, shared, total>>

\* computeDiscount
Discounts(p) ==
    IF p.type = "FIXED" THEN {Least(p.value, subtotal)}
    ELSE LET raw    == subtotal * p.value
             capped == IF p.max = NoMax THEN raw ELSE Least(raw, 100 * p.max)
         IN  Rounded(Least(capped, 100 * subtotal), 100)

\* A code without effect shares nothing out.
ApplyPromo(p) ==
    /\ stage = "items" /\ lines # <<>>
    /\ subtotal >= p.min
    /\ \E d \in Discounts(p) :
          /\ discount' = d
          /\ stage' = IF d <= 0 \/ subtotal <= 0 THEN "total" ELSE "shares"
    /\ UNCHANGED <<lines, subtotal, allocated, shared, total>>

NoPromo ==
    /\ stage = "items" /\ lines # <<>>
    /\ stage' = "total"
    /\ UNCHANGED <<lines, subtotal, discount, allocated, shared, total>>

\* Mutant: the last line takes its own proportion, too.
ProportionalShares(i) == Rounded(lines[i].gross * discount, subtotal)

\* Every line but the last takes its proportion; the last what is left.
Shares(i) ==
    IF i = Len(lines) THEN {discount - allocated}
    ELSE Rounded(lines[i].gross * discount, subtotal)

\* One round of the forEach of allocateDiscountAcrossItems.
Share ==
    /\ stage = "shares"
    /\ LET i == shared + 1 IN \E s \in Shares(i) :
          /\ lines' = [lines EXCEPT ![i].share = s, ![i].net = @ - s]
          /\ allocated' = allocated + s
          /\ shared' = i
          /\ stage' = IF i = Len(lines) THEN "total" ELSE "shares"
    /\ UNCHANGED <<subtotal, discount, total>>

Place ==
    /\ stage = "total"
    /\ total' = subtotal - discount + DeliveryCharge
    /\ total' > 0
    /\ stage' = "placed"
    /\ UNCHANGED <<lines, subtotal, discount, allocated, shared>>

TotalsNext ==
    \/ \E u \in UnitPrices, q \in Quantities : AddLine(u, q)
    \/ \E p \in Promos : ApplyPromo(p)
    \/ NoPromo \/ Share \/ Place

TotalsSpec == TotalsInit /\ [][TotalsNext]_totalVars

-----------------------------------------------------------------------------
Split   == [i \in DOMAIN lines |-> lines[i].share]
Nets    == [i \in DOMAIN lines |-> lines[i].net]

\* The bill adds up to the cent, on every order and through every rounding: the
\* lines' shares are the order's discount, their nets with the delivery charge
\* are its total, and nobody is paid to take the goods ("the per-line shares
\* always sum to exactly discountAmount, never a cent more or less").  What the
\* remainder costs the last line: every other share is its proportion to half a
\* cent, the last is off by at most half a cent for each line before it.  So
\* its share, or its net, is negative by at most that much, and the "accurate
\* per-item refunds" of the schema are accurate to this bound only.
BillAddsUp == stage = "placed" =>
    /\ SumFunction(Split) = discount
    /\ SumFunction(Nets) + DeliveryCharge = total
    /\ total >= DeliveryCharge
    /\ \A i \in 1..Len(lines) :
          LET slack == IF i = Len(lines) THEN Len(lines) - 1 ELSE 1 IN
          /\ lines[i].net = lines[i].gross - lines[i].share
          /\ 2 * (lines[i].share * subtotal - lines[i].gross * discount)
                \in -(slack * subtotal) .. slack * subtotal
=============================================================================
