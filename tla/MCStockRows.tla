----------------------------- MODULE MCStockRows ----------------------------
(***************************************************************************)
(* Two rows, three transactions, two orders: a placement, a cancellation   *)
(* and a third request that meets either of them.                          *)
(***************************************************************************)
EXTENDS StockRows, TLC

CONSTANTS p1, p2

MCOpening == p1 :> 2 @@ p2 :> 1
MCDemands   == {p1 :> 1 @@ p2 :> 1, p1 :> 2 @@ p2 :> 0}

Perms == Permutations(Tx) \cup Permutations(Order)
=============================================================================
