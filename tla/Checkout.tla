------------------------------ MODULE Checkout ------------------------------
(***************************************************************************)
(* Checkout and order administration over all of an order's tables:        *)
(* OrderService.placeOrder and updateStatus/updatePaymentStatus, each one  *)
(* transaction that moves stock and its ledger, combo counters and their   *)
(* triggers, the promo code and the redemption ledger, the order, its      *)
(* charge and its history.                                                 *)
(*                                                                         *)
(* A request is one transaction; its statements run in the code's order,   *)
(* and between any two of them another request may run, or the request may *)
(* fail: a refused line, a validation, a timeout, a lost connection.       *)
(***************************************************************************)
EXTENDS ComboOffers, PromoCodes, OrderBook

CONSTANTS
    Shopper,    \* the transactions of POST /order
    Clerk,      \* the transactions of the admin endpoints
    Carts,      \* the carts shoppers may send
    NoCart

ASSUME RolesAssumption == Shopper \cup Clerk = Tx /\ Shopper \cap Clerk = {}

VARIABLES
    pc,         \* pc[t]: the statement a request is at
    cart,       \* cart[t]: the cart of the order being placed
    lines,      \* lines[t]: its lines still to resolve
    counts,     \* counts[t][c]: bundles of c still to add to the sold counter
    items       \* items[o]: the committed order_items, as the cart they froze

checkoutVars == <<stockVars, comboVars, promoVars, bookVars, pc, cart, lines, counts, items>>

Cart == [rows : [Row -> Nat], combos : [Combo -> Nat], code : Code \cup {NoCode}, by : Customer]

ASSUME CheckoutCartsAssumption == Carts \subseteq Cart /\ NoCart \notin Cart

NoBundles == [c \in Combo |-> 0]

CheckoutInit ==
    /\ StockInit /\ ComboInit /\ PromoInit /\ BookInit
    /\ pc = [t \in Tx |-> "idle"]
    /\ cart = [t \in Tx |-> NoCart]
    /\ lines = [t \in Tx |-> {}]
    /\ counts = [t \in Tx |-> NoBundles]
    /\ items = [o \in Order |-> NoCart]

\* buildOrderItems: a combo's lines become its parts', merged with the rest.
CartLines(k) ==
    [r \in Row |-> k.rows[r] + MapThenSumSet(LAMBDA c : k.combos[c] * Parts[c][r], Combo)]

\* A cart has at least one item of at least one unit, and a combo at least one
\* part (the DTOs' ArrayMinSize and Min).
ASSUME CartStockAssumption == \A k \in Carts : CartLines(k) \in Demands \ {None}

InCart(k) == {r \in Row : k.rows[r] > 0} \cup {c \in Combo : k.combos[c] > 0}

Goto(t, next) == pc' = [pc EXCEPT ![t] = next]

-----------------------------------------------------------------------------
(* placeOrder                                                              *)

\* The id comes from a sequence: nobody else has it.
NewOrder(o) == book[o] = NoRow /\ \A t \in Tx : job[t].order # o

Place(t, o, k) ==
    /\ pc[t] = "idle"
    /\ NewOrder(o)
    /\ BeginSale(t, o, CartLines(k))
    /\ cart' = [cart EXCEPT ![t] = k]
    /\ lines' = [lines EXCEPT ![t] = InCart(k)]
    /\ counts' = [counts EXCEPT ![t] = k.combos]
    /\ Goto(t, "resolve")
    /\ UNCHANGED <<comboVars, promoVars, bookVars, items>>

\* resolveCartLine: the line is OK by what its rows say now.
Resolvable(t, x) ==
    IF x \in Row THEN Covers(Stock(t)[x], cart[t].rows[x]) ELSE Buyable(t, x, cart[t].combos[x])

ResolveLine(t, x) ==
    /\ pc[t] = "resolve"
    /\ x \in lines[t]
    /\ Resolvable(t, x)
    /\ lines' = [lines EXCEPT ![t] = @ \ {x}]
    /\ IF lines[t] = {x} THEN Goto(t, IF cart[t].code = NoCode THEN "deduct" ELSE "promo")
                         ELSE UNCHANGED pc
    /\ UNCHANGED <<stockVars, comboVars, promoVars, bookVars, cart, counts, items>>

PromoStep(t) ==
    /\ pc[t] = "promo"
    /\ \/ FindCode(t, cart[t].code, cart[t].by, job[t].order) /\ UNCHANGED pc
       \/ CountForCustomer(t) /\ UNCHANGED pc
       \/ Reserve(t) /\ Goto(t, "shell")
    /\ UNCHANGED <<stockVars, comboVars, bookVars, cart, lines, counts, items>>

\* createOrderShell gives the redemption its order id.
Redeem(t) ==
    /\ pc[t] = "shell"
    /\ RecordRedemption(t)
    /\ Goto(t, "deduct")
    /\ UNCHANGED <<stockVars, comboVars, bookVars, cart, lines, counts, items>>

\* deductStockForSale, one line
DeductLine(t, r) ==
    /\ pc[t] = "deduct"
    /\ DeductPart(t, r)
    /\ IF todo'[t] = None THEN Goto(t, "count") ELSE UNCHANGED pc
    /\ UNCHANGED <<promoVars, bookVars, cart, lines, counts, items>>

\* The trigger's own write, part of the statement that fired it
TriggerWrite(t, c) ==
    /\ WriteAvailable(t, c)
    /\ UNCHANGED <<stockVars, promoVars, bookVars, pc, cart, lines, counts, items>>

\* applyComboSoldQuantity, one combo
CountSold(t, c) ==
    /\ pc[t] = "count"
    /\ counts[t][c] > 0
    /\ AdjustSold(t, c, counts[t][c])
    /\ counts' = [counts EXCEPT ![t][c] = 0]
    /\ UNCHANGED <<stockVars, promoVars, bookVars, pc, cart, lines, items>>

ForgetRequest(t) ==
    /\ pc' = [pc EXCEPT ![t] = "idle"]
    /\ cart' = [cart EXCEPT ![t] = NoCart]
    /\ lines' = [lines EXCEPT ![t] = {}]
    /\ counts' = [counts EXCEPT ![t] = NoBundles]

\* createStatusHistory, createPayment, and the commit
CommitOrder(t) ==
    /\ pc[t] = "count"
    /\ counts[t] = NoBundles
    /\ StockCommit(t) /\ ComboCommit(t) /\ PromoCommit(t)
    /\ AddOrder(job[t].order)
    /\ items' = [items EXCEPT ![job[t].order] = cart[t]]
    /\ ForgetRequest(t)

-----------------------------------------------------------------------------
(* updateStatus and updatePaymentStatus                                    *)

OrderTables == <<cart, lines, items>>

BeginStatus(t, o, s) ==
    /\ pc[t] = "idle"
    /\ ReadForStatus(t, o, s)
    /\ Goto(t, "settle")
    /\ UNCHANGED <<stockVars, comboVars, promoVars, counts, OrderTables>>

Settle(t) ==
    /\ pc[t] = "settle"
    /\ SettleCharge(t)
    /\ Goto(t, IF request[t].to \in StockRestoring THEN "return" ELSE "status")
    /\ UNCHANGED <<stockVars, comboVars, promoVars, counts, OrderTables>>

\* restoreStockForOrder reads the ledger ...
ReadLedger(t) ==
    /\ pc[t] = "return"
    /\ BeginReturn(t, request[t].order)
    /\ UNCHANGED <<comboVars, promoVars, bookVars, pc, counts, OrderTables>>

\* ... and restoreStockForSale gives each line back.
ReturnLine(t, r) ==
    /\ pc[t] = "return"
    /\ RestorePart(t, r)
    /\ UNCHANGED <<promoVars, bookVars, pc, counts, OrderTables>>

\* Mutant: a cancelled order's bundles are not given back.
ReadNoBundles(t) ==
    /\ pc[t] = "return"
    /\ job[t] # Idle
    /\ todo[t] = None
    /\ due[t] = NotDue
    /\ Goto(t, "release")
    /\ UNCHANGED <<stockVars, comboVars, promoVars, bookVars, counts, OrderTables>>

\* findComboLinesForOrder
ReadBundles(t) ==
    /\ pc[t] = "return"
    /\ job[t] # Idle
    /\ todo[t] = None
    /\ due[t] = NotDue
    /\ counts' = [counts EXCEPT ![t] = items[request[t].order].combos]
    /\ Goto(t, "release")
    /\ UNCHANGED <<stockVars, comboVars, promoVars, bookVars, OrderTables>>

\* releaseComboSoldQuantity, one combo
Release(t, c) ==
    /\ pc[t] = "release"
    /\ counts[t][c] > 0
    /\ AdjustSold(t, c, -counts[t][c])
    /\ counts' = [counts EXCEPT ![t][c] = 0]
    /\ UNCHANGED <<stockVars, promoVars, bookVars, pc, OrderTables>>

SetStatus(t) ==
    /\ pc[t] \in {"release", "status"}
    /\ counts[t] = NoBundles
    /\ WriteStatus(t)
    /\ UNCHANGED <<stockVars, comboVars, promoVars, pc, counts, OrderTables>>

BeginPayment(t, o, p, noted) ==
    /\ pc[t] = "idle"
    /\ ReadForPayment(t, o, p, noted)
    /\ Goto(t, "payment")
    /\ UNCHANGED <<stockVars, comboVars, promoVars, counts, OrderTables>>

PaymentStep(t) ==
    /\ pc[t] = "payment"
    /\ WritePayment(t) \/ WritePaymentCharge(t)
    /\ UNCHANGED <<stockVars, comboVars, promoVars, pc, counts, OrderTables>>

CommitRequest(t) ==
    /\ BookCommit(t)
    /\ IF job[t] = Idle THEN UNCHANGED stockVars ELSE StockCommit(t)
    /\ ComboCommit(t)
    /\ ForgetRequest(t)
    /\ UNCHANGED <<promoVars, items>>

-----------------------------------------------------------------------------
(* A request that fails leaves nothing behind.                             *)

FailOrder(t) ==
    /\ pc[t] # "idle"
    /\ t \in Shopper
    /\ StockRollback(t) /\ ComboRollback(t) /\ PromoRollback(t)
    /\ ForgetRequest(t)
    /\ UNCHANGED <<bookVars, items>>

FailRequest(t) ==
    /\ BookRollback(t)
    /\ IF job[t] = Idle THEN UNCHANGED stockVars ELSE StockRollback(t)
    /\ ComboRollback(t)
    /\ ForgetRequest(t)
    /\ UNCHANGED <<promoVars, items>>

-----------------------------------------------------------------------------
PlaceOrder(t) ==
    \/ \E o \in Order, k \in Carts : Place(t, o, k)
    \/ \E x \in Row \cup Combo : ResolveLine(t, x)
    \/ PromoStep(t)
    \/ Redeem(t)
    \/ \E r \in Row : DeductLine(t, r)
    \/ \E c \in Combo : TriggerWrite(t, c) \/ CountSold(t, c)
    \/ CommitOrder(t)
    \/ FailOrder(t)

Administer(t) ==
    \/ \E o \in Order, s \in StatusEdits : BeginStatus(t, o, s)
    \/ Settle(t)
    \/ ReadLedger(t)
    \/ \E r \in Row : ReturnLine(t, r)
    \/ ReadBundles(t)
    \/ \E c \in Combo : TriggerWrite(t, c) \/ Release(t, c)
    \/ SetStatus(t)
    \/ \E o \in Order, p \in PayEdits, noted \in BOOLEAN : BeginPayment(t, o, p, noted)
    \/ PaymentStep(t)
    \/ CommitRequest(t)
    \/ FailRequest(t)

CheckoutNext ==
    \/ \E t \in Shopper : PlaceOrder(t)
    \/ \E t \in Clerk : Administer(t)

CheckoutSpec == CheckoutInit /\ [][CheckoutNext]_checkoutVars

-----------------------------------------------------------------------------
\* An order exists with all of its consequences or with none: its stock left
\* the shelf line by line as the cart says, its promo code was redeemed once,
\* its history opened.  No mixture survives a failure between two statements.
OrderComplete == \A o \in Order :
    IF book[o] = NoRow
    THEN /\ ledger[o]["SALE"] = None
         /\ items[o] = NoCart
         /\ \A x \in redemptions : x.order # o
    ELSE /\ items[o] # NoCart
         /\ ledger[o]["SALE"] = CartLines(items[o])
         /\ {x.code : x \in {y \in redemptions : y.order = o}} = {items[o].code} \ {NoCode}
         /\ history[o][1] = "PENDING"

\* An order that was cancelled or failed gave back exactly what it took; any
\* other order gave back nothing.
RestoredOnce == \A o \in Order :
    ledger[o]["RETURN"] =
        IF book[o].status \in StockRestoring THEN ledger[o]["SALE"] ELSE None

\* Bundles claimed by the orders that were not undone.
Claimed(c) == MapThenSumSet(
    LAMBDA o : IF book[o].status \in StockRestoring \cup {"NONE"} THEN 0 ELSE items[o].combos[c],
    Order)

\* A combo's sold counter is the bundles of the orders that stand: incremented
\* with the stock deduction, decremented wherever that deduction is undone.
SoldMatchesOrders == \A c \in Combo : combo[c].sold = Claimed(c)

-----------------------------------------------------------------------------
\* What checkout promises (AtomicShop), read off the committed tables.
Phase(o) == IF book[o].status = "NONE" THEN "NONE"
            ELSE IF book[o].status \in StockRestoring THEN "CLOSED" ELSE "OPEN"

Shop == INSTANCE AtomicShop WITH
    shelf  <- quantity,
    phase  <- [o \in Order |-> Phase(o)],
    bought <- items,
    uses   <- [c \in Code |-> promo[c].usedCount],
    sold   <- [c \in Combo |-> combo[c].sold],
    Takes  <- CartLines,
    Limits <- [c \in Code |-> Terms[c].usageLimit]

\* Every placement and every cancellation takes effect at one instant, its
\* commit, as if nothing else ran: the statements of placeOrder and of
\* updateStatus in one transaction implement the atomic shop.
AtomicShopSpec == Shop!ShopSpec
=============================================================================
