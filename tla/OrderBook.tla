------------------------------ MODULE OrderBook -----------------------------
(***************************************************************************)
(* The life of placed orders: OrderService.updateStatus and                *)
(* updatePaymentStatus over the orders, payments and order_status_history  *)
(* tables.                                                                 *)
(*                                                                         *)
(* Both handlers read the order, decide on what they read, and write       *)
(* several rows.  The read takes no lock.  updateStatus writes the charge  *)
(* row before the order row, updatePaymentStatus the order row first.      *)
(***************************************************************************)
EXTENDS OrderIds, Sequences, Integers

CONSTANTS
    Method,     \* Method[o]: the payment method of order o
    StatusEdits, \* order statuses an admin may ask for
    PayEdits,   \* payment statuses an admin may set
    MaxHistory  \* the bound: history rows of an order

PaymentStatus ==
    {"PENDING", "AUTHORIZED", "PAID", "FAILED", "PARTIALLY_REFUNDED", "REFUNDED", "CANCELLED"}

PaymentMethod == {"CARD", "SCANPAY", "CASH_ON_DELIVERY"}

ASSUME MethodAssumption == Method \in [Order -> PaymentMethod]
ASSUME PayEditsAssumption == PayEdits \subseteq PaymentStatus

VARIABLES
    book,          \* book[o]: the committed orders row, status NONE until placed
    bookDraft,     \* its newest version
    bookHolder,    \* who locked it
    charge,        \* charge[o]: the committed status of its CHARGE payment
    chargeDraft,
    chargeHolder,
    history,       \* history[o]: the statuses of its committed history rows
    request        \* request[t]: what an admin's request read and is doing

bookVars == <<book, bookDraft, bookHolder, charge, chargeDraft, chargeHolder, history, request>>

AllowedTransitions ==
    [ NONE             |-> {},
      PENDING          |-> {"CONFIRMED", "CANCELLED", "FAILED"},
      CONFIRMED        |-> {"PROCESSING", "CANCELLED"},
      PROCESSING       |-> {"PACKED", "CANCELLED"},
      PACKED           |-> {"SHIPPED", "CANCELLED"},
      SHIPPED          |-> {"OUT_FOR_DELIVERY"},
      OUT_FOR_DELIVERY |-> {"DELIVERED", "RETURNED"},
      DELIVERED        |-> {"RETURNED"},
      CANCELLED        |-> {},
      RETURNED         |-> {"REFUNDED"},
      REFUNDED         |-> {},
      FAILED           |-> {} ]

OrderStatus == DOMAIN AllowedTransitions \ {"NONE"}
ASSUME StatusEditsAssumption == StatusEdits \subseteq OrderStatus

Terminal    == {s \in OrderStatus : AllowedTransitions[s] = {}}

StockRestoring == {"CANCELLED", "FAILED"}

OrderRow == [status : OrderStatus \cup {"NONE"}, pay : PaymentStatus]
NoRow == [status |-> "NONE", pay |-> "PENDING"]
NoRequest == [stage |-> "none"]

Request ==
    [stage : {"read", "charged", "written"}, kind : {"status", "payment"}, order : Order,
     to : OrderStatus \cup PaymentStatus, seen : OrderRow, noted : BOOLEAN]

BookTypeOK ==
    /\ book \in [Order -> OrderRow]
    /\ bookDraft \in [Order -> OrderRow]
    /\ bookHolder \in [Order -> Tx \cup {NoTx}]
    /\ charge \in [Order -> PaymentStatus]
    /\ chargeDraft \in [Order -> PaymentStatus]
    /\ chargeHolder \in [Order -> Tx \cup {NoTx}]
    /\ history \in [Order -> Seq(OrderStatus)]
    /\ request \in [Tx -> Request \cup {NoRequest}]

BookInit ==
    /\ book = [o \in Order |-> NoRow]
    /\ bookDraft = book
    /\ bookHolder = [o \in Order |-> NoTx]
    /\ charge = [o \in Order |-> "PENDING"]
    /\ chargeDraft = charge
    /\ chargeHolder = [o \in Order |-> NoTx]
    /\ history = [o \in Order |-> <<>>]
    /\ request = [t \in Tx |-> NoRequest]

\* The rows placeOrder inserts become visible when it commits.
AddOrder(o) ==
    /\ book' = [book EXCEPT ![o].status = "PENDING"]
    /\ bookDraft' = [bookDraft EXCEPT ![o].status = "PENDING"]
    /\ history' = [history EXCEPT ![o] = <<"PENDING">>]
    /\ UNCHANGED <<bookHolder, charge, chargeDraft, chargeHolder, request>>

Serves(t, kind, stage) ==
    /\ request[t] # NoRequest
    /\ request[t].kind = kind
    /\ request[t].stage = stage

Advance(t, stage) == request' = [request EXCEPT ![t].stage = stage]

WriteCharge(t, o, status) ==
    /\ Free(chargeHolder, t, o)
    /\ chargeDraft' = [chargeDraft EXCEPT ![o] = status]
    /\ chargeHolder' = Lock(chargeHolder, t, o)

WriteOrder(t, o, row) ==
    /\ Free(bookHolder, t, o)
    /\ bookDraft' = [bookDraft EXCEPT ![o] = row]
    /\ bookHolder' = Lock(bookHolder, t, o)

-----------------------------------------------------------------------------
(* updateStatus                                                            *)

MayMove(row, s) == s \in AllowedTransitions[row.status]

\* findOrderCore and the check against ALLOWED_TRANSITIONS
ReadForStatus(t, o, s) ==
    /\ request[t] = NoRequest
    /\ MayMove(book[o], s)
    /\ Len(history[o]) < MaxHistory
    /\ request' = [request EXCEPT ![t] = [stage |-> "read", kind |-> "status", order |-> o,
                                          to |-> s, seen |-> book[o], noted |-> TRUE]]
    /\ UNCHANGED <<book, bookDraft, bookHolder, charge, chargeDraft, chargeHolder, history>>

\* What the move means for the payment: collected at the door, or void.
NewPay(o, s, seen) ==
    IF seen.pay # "PENDING" THEN seen.pay
    ELSE IF s = "DELIVERED" /\ Method[o] = "CASH_ON_DELIVERY" THEN "PAID"
    ELSE IF s = "CANCELLED" THEN "CANCELLED"
    ELSE seen.pay

Settles(r) == NewPay(r.order, r.to, r.seen) # r.seen.pay

\* Mutant: only the order row is settled, the charge is forgotten.
SettleOrderOnly(t) ==
    /\ Serves(t, "status", "read")
    /\ Advance(t, "charged")
    /\ UNCHANGED <<book, bookDraft, bookHolder, charge, chargeDraft, chargeHolder, history>>

SettleCharge(t) ==
    LET r == request[t] IN
    /\ Serves(t, "status", "read")
    /\ IF Settles(r) THEN WriteCharge(t, r.order, NewPay(r.order, r.to, r.seen))
                     ELSE UNCHANGED <<chargeDraft, chargeHolder>>
    /\ Advance(t, "charged")
    /\ UNCHANGED <<book, bookDraft, bookHolder, charge, history>>

\* updateOrderStatus: the status, and the payment status only if it moved
WriteStatus(t) ==
    LET r == request[t] IN
    /\ Serves(t, "status", "charged")
    /\ WriteOrder(t, r.order,
          [status |-> r.to,
           pay |-> IF Settles(r) THEN NewPay(r.order, r.to, r.seen) ELSE bookDraft[r.order].pay])
    /\ Advance(t, "written")
    /\ UNCHANGED <<book, charge, chargeDraft, chargeHolder, history>>

-----------------------------------------------------------------------------
(* updatePaymentStatus                                                     *)

ReadForPayment(t, o, p, noted) ==
    /\ request[t] = NoRequest
    /\ book[o].status # "NONE"
    /\ Len(history[o]) < MaxHistory
    /\ request' = [request EXCEPT ![t] = [stage |-> "read", kind |-> "payment", order |-> o,
                                          to |-> p, seen |-> book[o], noted |-> noted]]
    /\ UNCHANGED <<book, bookDraft, bookHolder, charge, chargeDraft, chargeHolder, history>>

\* Mutant: the UPDATE saves the row that was read, with the new payment.
WritePaymentOnReadRow(t) ==
    LET r == request[t] IN
    /\ Serves(t, "payment", "read")
    /\ WriteOrder(t, r.order, [r.seen EXCEPT !.pay = r.to])
    /\ Advance(t, "charged")
    /\ UNCHANGED <<book, charge, chargeDraft, chargeHolder, history>>

WritePayment(t) ==
    LET r == request[t] IN
    /\ Serves(t, "payment", "read")
    /\ WriteOrder(t, r.order, [bookDraft[r.order] EXCEPT !.pay = r.to])
    /\ Advance(t, "charged")
    /\ UNCHANGED <<book, charge, chargeDraft, chargeHolder, history>>

WritePaymentCharge(t) ==
    LET r == request[t] IN
    /\ Serves(t, "payment", "charged")
    /\ WriteCharge(t, r.order, r.to)
    /\ Advance(t, "written")
    /\ UNCHANGED <<book, bookDraft, bookHolder, charge, history>>

-----------------------------------------------------------------------------
(* The end of the request.  Its history row says the status it moved the   *)
(* order to, or, for a payment note, the status it read.                   *)

HistoryRow(r) == IF ~r.noted THEN <<>> ELSE IF r.kind = "status" THEN <<r.to>> ELSE <<r.seen.status>>

BookEnd(t) ==
    /\ bookHolder' = Unlock(bookHolder, t)
    /\ chargeHolder' = Unlock(chargeHolder, t)
    /\ request' = [request EXCEPT ![t] = NoRequest]

BookCommit(t) ==
    LET r == request[t] IN
    /\ r.stage = "written"
    /\ book' = View(book, bookDraft, bookHolder, t)
    /\ charge' = View(charge, chargeDraft, chargeHolder, t)
    /\ history' = [history EXCEPT ![r.order] = @ \o HistoryRow(r)]
    /\ UNCHANGED <<bookDraft, chargeDraft>>
    /\ BookEnd(t)

BookRollback(t) ==
    /\ request[t] # NoRequest
    /\ bookDraft' = Discard(book, bookDraft, bookHolder, t)
    /\ chargeDraft' = Discard(charge, chargeDraft, chargeHolder, t)
    /\ UNCHANGED <<book, charge, history>>
    /\ BookEnd(t)

-----------------------------------------------------------------------------
\* The steps of one admin request.
AdminStep(t) ==
    \/ \E o \in Order, s \in StatusEdits : ReadForStatus(t, o, s)
    \/ SettleCharge(t)
    \/ WriteStatus(t)
    \/ \E o \in Order, p \in PayEdits, noted \in BOOLEAN : ReadForPayment(t, o, p, noted)
    \/ WritePayment(t)
    \/ WritePaymentCharge(t)
    \/ BookCommit(t)
    \/ BookRollback(t)

BookNext ==
    \/ \E o \in Order : book[o] = NoRow /\ AddOrder(o)
    \/ \E t \in Tx : AdminStep(t)

BookSpec == BookInit /\ [][BookNext]_bookVars

-----------------------------------------------------------------------------
\* The charge row and the order agree on the payment, however updateStatus and
\* updatePaymentStatus, which write the two in opposite orders, interleave.
ChargeMirrorsOrder == \A o \in Order : charge[o] = book[o].pay

\* The request of t on order o ends with this step.
Ending(t, o) == request[t] # NoRequest /\ request'[t] = NoRequest /\ request[t].order = o

\* What overlapping requests can spoil, and nothing else can: a terminal order
\* moves again, or a payment that was collected is void unless an admin says so,
\* only through a status request that read the order before it became so.
\* "ANYTHING NOT LISTED AS A SOURCE IS TERMINAL" holds of every request that
\* reads after that, and a payment edit revives no order whatever it read.
OnlyOldReadersRevive == [][\A o \in Order :
    /\ book[o].status \in Terminal /\ book'[o].status # book[o].status =>
          \E t \in Tx : Ending(t, o) /\ request[t].kind = "status"
                        /\ request[t].seen.status \notin Terminal
    /\ book[o].pay = "PAID" /\ book'[o].pay = "CANCELLED" =>
          \E t \in Tx : Ending(t, o)
              /\ \/ request[t].kind = "status" /\ request[t].seen.pay = "PENDING"
                 \/ request[t].kind = "payment" /\ request[t].to = "CANCELLED"]_bookVars
=============================================================================
