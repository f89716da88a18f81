---------------------------- MODULE MCPromoCodes ----------------------------
(***************************************************************************)
(* One code with a usage limit, three checkouts at a time, four order ids  *)
(* (so that orders outnumber the limit), two accounts and an anonymous     *)
(* guest.                                                                  *)
(***************************************************************************)
EXTENDS PromoCodes, TLC

CONSTANTS code, UsageLimit, PerUser

MCTerms == code :> [usageLimit |-> UsageLimit, perUser |-> PerUser]

Same == [usageLimit |-> Keep, perUser |-> Keep, active |-> Keep]

\* Edits that leave the limits alone.
SwitchEdits == {[Same EXCEPT !.active = b] : b \in BOOLEAN}

Perms == Permutations(Tx) \cup Permutations(Order)
=============================================================================
