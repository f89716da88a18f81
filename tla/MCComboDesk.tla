----------------------------- MODULE MCComboDesk ----------------------------
(***************************************************************************)
(* One combo of one or two parts, two transactions, one admin.             *)
(***************************************************************************)
EXTENDS ComboDesk, TLC

CONSTANTS p1, p2, c1, OpeningStock, OfferCap, SecondPart

MCOpening == p1 :> OpeningStock @@ p2 :> OpeningStock + 1
MCParts   == c1 :> (p1 :> 1 @@ p2 :> SecondPart)
MCDemands   == {p1 :> 1 @@ p2 :> 0, p1 :> 0 @@ p2 :> 1}
MCCap     == c1 :> OfferCap

Same == [offered |-> Keep, active |-> Keep, items |-> FALSE]

\* Publishing and closing early: the edits that leave availability alone.
StatusEdits == {[Same EXCEPT !.active = b] : b \in BOOLEAN}
CapEdits    == StatusEdits \cup {[Same EXCEPT !.offered = n] : n \in 1..2}

Perms == Permutations(Tx) \cup Permutations(Order)
=============================================================================
