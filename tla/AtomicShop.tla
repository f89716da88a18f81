----------------------------- MODULE AtomicShop -----------------------------
(***************************************************************************)
(* What a checkout promises, free of transactions, locks and triggers: an  *)
(* order is placed at one instant, when the shelf holds all of it and its  *)
(* code has a use left, and is undone at one instant, exactly.             *)
(***************************************************************************)
EXTENDS Integers

CONSTANTS
    Row, Order, Combo, Code, NoCode, NoCart, NoLimit,
    Carts,      \* the carts shoppers may send
    Takes(_),   \* Takes(k)[r]: the units of r cart k takes off the shelf
    Opening,    \* the shelf at the start
    Limits      \* Limits[c]: how many uses code c has

VARIABLES
    shelf,      \* shelf[r]: the units of r left
    phase,      \* phase[o]: NONE, OPEN (placed) or CLOSED (undone)
    bought,     \* bought[o]: the cart of order o
    uses,       \* uses[c]: how often c was redeemed
    sold        \* sold[c]: bundles of c in the orders that stand

shopVars == <<shelf, phase, bought, uses, sold>>

ShopInit ==
    /\ shelf = Opening
    /\ phase = [o \in Order |-> "NONE"]
    /\ bought = [o \in Order |-> NoCart]
    /\ uses = [c \in Code |-> 0]
    /\ sold = [c \in Combo |-> 0]

PlaceAtOnce(o, k) ==
    /\ phase[o] = "NONE"
    /\ \A r \in Row : Takes(k)[r] <= shelf[r]
    /\ k.code # NoCode /\ Limits[k.code] # NoLimit => uses[k.code] < Limits[k.code]
    /\ phase' = [phase EXCEPT ![o] = "OPEN"]
    /\ bought' = [bought EXCEPT ![o] = k]
    /\ shelf' = [r \in Row |-> shelf[r] - Takes(k)[r]]
    /\ uses' = [c \in Code |-> IF c = k.code THEN uses[c] + 1 ELSE uses[c]]
    /\ sold' = [c \in Combo |-> sold[c] + k.combos[c]]

\* A use of a code is spent even when the order is undone.
Undo(o) ==
    /\ phase[o] = "OPEN"
    /\ phase' = [phase EXCEPT ![o] = "CLOSED"]
    /\ shelf' = [r \in Row |-> shelf[r] + Takes(bought[o])[r]]
    /\ sold' = [c \in Combo |-> sold[c] - bought[o].combos[c]]
    /\ UNCHANGED <<bought, uses>>

ShopNext == \E o \in Order : (\E k \in Carts : PlaceAtOnce(o, k)) \/ Undo(o)

ShopSpec == ShopInit /\ [][ShopNext]_shopVars
=============================================================================
