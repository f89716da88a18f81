---------------------------- MODULE MCStockBatches --------------------------
(***************************************************************************)
(* Two requests over two rows and three batches.                           *)
(***************************************************************************)
EXTENDS StockBatches, TLC

CONSTANTS p1, p2, low, high

In(r, n, c)  == [row |-> r, amount |-> n, batch |-> NoBatch, cost |-> c]
Out(r, n, b) == [row |-> r, amount |-> n, batch |-> b, cost |-> NoCost]

MCOpening == p1 :> 1 @@ p2 :> 0

\* Two items that merge, two costs of one row, two rows.
MCIntakes == {<<In(p1, 1, low), In(p1, 1, low)>>,
              <<In(p1, 1, low), In(p1, 1, high)>>,
              <<In(p2, 1, low), In(p1, 1, low)>>}

\* Oldest first, one named batch, two batches of one row, two rows.
MCRemovals == {<<Out(p1, 2, NoBatch)>>, <<Out(p1, 1, 1)>>,
               <<Out(p1, 1, 1), Out(p1, 1, 2)>>,
               <<Out(p1, 1, NoBatch), Out(p2, 1, NoBatch)>>}

MCSales == {Out(p1, 2, NoBatch)}

Perms == Permutations(Tx)
=============================================================================
