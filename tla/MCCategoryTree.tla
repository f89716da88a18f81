--------------------------- MODULE MCCategoryTree ---------------------------
(***************************************************************************)
(* A root with a category below it, an id to create, two products and two  *)
(* requests at a time, MaxRequests in all: enough for a race to leave a    *)
(* count wrong and a later request to put it right.                        *)
(***************************************************************************)
EXTENDS CategoryTree, TLC

CONSTANT MaxRequests   \* bounds how many requests are served

VARIABLE served

MCFirstTree == 1 :> 0 @@ 2 :> 1

MCInit == TreeInit /\ served = 0

MCNext ==
    /\ TreeNext
    /\ served' = served + Cardinality({t \in Tx : request[t] = Idle /\ request'[t] # Idle})
    /\ served' <= MaxRequests

MCSpec == MCInit /\ [][MCNext]_<<treeVars, served>>

Perms == Permutations(Tx) \cup Permutations(Product)
=============================================================================
