------------------------------ MODULE OrderIds ------------------------------
(***************************************************************************)
(* What the parts of a checkout share: the transactions of the requests    *)
(* being served and the ids of orders, the `order:<id>` reference of the   *)
(* stock ledger, the key of the redemption ledger and of the orders table. *)
(***************************************************************************)
EXTENDS RowLocks

CONSTANTS
    Order,      \* order ids
    NoOrder     \* the order of an idle transaction

ASSUME NoOrderAssumption == NoOrder \notin Order
=============================================================================
