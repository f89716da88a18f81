----------------------------- MODULE MCCheckout -----------------------------
(***************************************************************************)
(* Two products and the combo made of both; a shopper may buy one product  *)
(* with the promo code, or the bundle.                                     *)
(***************************************************************************)
EXTENDS Checkout, TLC

CONSTANTS p1, p2, c1, code, Stock1, Stock2, UsageLimit, OfferCap

MCOpening == p1 :> Stock1 @@ p2 :> Stock2
MCParts   == c1 :> (p1 :> 1 @@ p2 :> 1)
MCCap     == c1 :> OfferCap
MCTerms   == code :> [usageLimit |-> UsageLimit, perUser |-> NoLimit]
MCMethod  == [o \in Order |-> "CASH_ON_DELIVERY"]

PlainCart  == [rows |-> (p1 :> 1 @@ p2 :> 0), combos |-> (c1 :> 0), code |-> code, by |-> "ann"]
BundleCart == [rows |-> (p1 :> 0 @@ p2 :> 0), combos |-> (c1 :> 1), code |-> NoCode, by |-> "ann"]
MixedCart  == [rows |-> (p1 :> 0 @@ p2 :> 1), combos |-> (c1 :> 1), code |-> code, by |-> "ann"]

MCCarts    == {PlainCart, BundleCart, MixedCart}
MCBundle   == {BundleCart}
MCDemands  == {CartLines(k) : k \in MCCarts}

Perms == Permutations(Shopper) \cup Permutations(Clerk) \cup Permutations(Order)
=============================================================================
