----------------------------- MODULE MCOrderBook ----------------------------
(***************************************************************************)
(* Two admin requests race on one order, from its placement through the    *)
(* whole status machine.                                                   *)
(***************************************************************************)
EXTENDS OrderBook, TLC

MCMethod == [o \in Order |-> "CASH_ON_DELIVERY"]

Perms == Permutations(Tx)
=============================================================================
