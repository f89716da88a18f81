----------------------------- MODULE PromoCodes -----------------------------
(***************************************************************************)
(* PromotionService: discount codes, their usage counter and the           *)
(* redemption ledger.                                                      *)
(*                                                                         *)
(* An order's transaction finds the code, counts what the customer already *)
(* redeemed, reserves one use with a guarded UPDATE and, once its order    *)
(* has an id, records the redemption.  An admin's edit reads the code,     *)
(* checks the new terms against what it read, and updates the row in       *)
(* another statement; no transaction joins the two.                        *)
(*                                                                         *)
(* The code's window (startsAt, endsAt) and minOrderAmount only add reasons*)
(* to refuse an order; a transaction may be refused at any point anyway.   *)
(***************************************************************************)
EXTENDS OrderIds, Integers, FiniteSets

CONSTANTS
    Code,          \* promo codes
    Customer,      \* who redeems: an account, or a guest's e-mail address
    Anonymous,     \* the customers that give neither: nothing to count by
    NoCode,        \* the code of a transaction that redeems none
    NoLimit,       \* a NULL limit
    Terms,         \* Terms[c]: the limits code c was created with
    Edits,         \* the bodies an admin may send, Keep where a field is absent
    Keep,
    Admin          \* concurrent admin requests

Limit == Nat \cup {NoLimit}

ASSUME LimitAssumption == NoLimit \notin Nat
ASSUME NoCodeAssumption == NoCode \notin Code
ASSUME EditsAssumption ==
    Edits \subseteq [usageLimit : Nat \cup {Keep}, perUser : Nat \cup {Keep},
                     active : BOOLEAN \cup {Keep}]
ASSUME KeepAssumption == Keep \notin Nat \cup BOOLEAN
ASSUME AnonymousAssumption == Anonymous \subseteq Customer
ASSUME TermsAssumption == Terms \in [Code -> [usageLimit : Limit, perUser : Limit]]

VARIABLES
    promo,         \* promo[c]: the committed row of promo_codes
    promoDraft,    \* its newest version
    promoHolder,   \* who locked it
    redemptions,   \* the committed promo_code_redemptions
    claim,         \* claim[t]: how far transaction t is with its code
    edit           \* edit[a]: the code an admin request read, and the row

promoVars == <<promo, promoDraft, promoHolder, redemptions, claim, edit>>

PromoRow    == [usageLimit : Limit, perUser : Limit, usedCount : Nat, active : BOOLEAN]
Redemption  == [code : Code, by : Customer, order : Order]
Stage       == {"idle", "found", "counted", "reserved", "recorded"}
NewRow(c)   == [usageLimit |-> Terms[c].usageLimit, perUser |-> Terms[c].perUser,
                usedCount |-> 0, active |-> TRUE]
NoClaim     == [stage |-> "idle"]
Claim       == [stage : Stage \ {"idle"}, code : Code, read : PromoRow, by : Customer,
                order : Order]
NoEdit      == [code |-> NoCode]
Edit        == [code : Code, read : PromoRow]

PromoTypeOK ==
    /\ promo \in [Code -> PromoRow]
    /\ promoDraft \in [Code -> PromoRow]
    /\ promoHolder \in [Code -> Tx \cup {NoTx}]
    /\ redemptions \subseteq Redemption
    /\ claim \in [Tx -> Claim \cup {NoClaim}]
    /\ edit \in [Admin -> Edit \cup {NoEdit}]

PromoInit ==
    /\ promo = [c \in Code |-> NewRow(c)]
    /\ promoDraft = promo
    /\ promoHolder = [c \in Code |-> NoTx]
    /\ redemptions = {}
    /\ claim = [t \in Tx |-> NoClaim]
    /\ edit = [a \in Admin |-> NoEdit]

-----------------------------------------------------------------------------
(* validateAndReserveForOrder                                              *)

Below(n, limit) == limit # NoLimit => n < limit

\* assertUsable
Usable(row) == row.active /\ Below(row.usedCount, row.usageLimit)

FindCode(t, c, by, o) ==
    LET row == View(promo, promoDraft, promoHolder, t)[c] IN
    /\ claim[t] = NoClaim
    /\ Usable(row)
    /\ claim' = [claim EXCEPT ![t] =
          [stage |-> "found", code |-> c, read |-> row, by |-> by, order |-> o]]
    /\ UNCHANGED <<promo, promoDraft, promoHolder, redemptions, edit>>

\* countRedemptionsForCustomer
RedeemedBy(c, by) ==
    IF by \in Anonymous THEN 0
    ELSE Cardinality({x \in redemptions : x.code = c /\ x.by = by})

\* Mutant: the per-user limit is tested with <= instead of <.
CountOneTooMany(t) ==
    /\ claim[t].stage = "found"
    /\ Below(RedeemedBy(claim[t].code, claim[t].by) - 1, claim[t].read.perUser)
    /\ claim' = [claim EXCEPT ![t].stage = "counted"]
    /\ UNCHANGED <<promo, promoDraft, promoHolder, redemptions, edit>>

\* assertNotOverPerUserLimit
CountForCustomer(t) ==
    /\ claim[t].stage = "found"
    /\ Below(RedeemedBy(claim[t].code, claim[t].by), claim[t].read.perUser)
    /\ claim' = [claim EXCEPT ![t].stage = "counted"]
    /\ UNCHANGED <<promo, promoDraft, promoHolder, redemptions, edit>>

\* Mutant: the counter is bumped without `usedCount: { lt: usageLimit }`.
ReserveUnguarded(t) ==
    LET c == claim[t].code IN
    /\ claim[t].stage = "counted"
    /\ Free(promoHolder, t, c)
    /\ promoDraft' = [promoDraft EXCEPT ![c].usedCount = @ + 1]
    /\ promoHolder' = Lock(promoHolder, t, c)
    /\ claim' = [claim EXCEPT ![t].stage = "reserved"]
    /\ UNCHANGED <<promo, redemptions, edit>>

\* incrementUsageGuarded: the counter is tested live, the limit is the one
\* read with the code.  At the limit no row matches and the order throws.
Reserve(t) ==
    LET c == claim[t].code IN
    /\ claim[t].stage = "counted"
    /\ Free(promoHolder, t, c)
    /\ Below(promoDraft[c].usedCount, claim[t].read.usageLimit)
    /\ promoDraft' = [promoDraft EXCEPT ![c].usedCount = @ + 1]
    /\ promoHolder' = Lock(promoHolder, t, c)
    /\ claim' = [claim EXCEPT ![t].stage = "reserved"]
    /\ UNCHANGED <<promo, redemptions, edit>>

\* createRedemption, under the id of the order shell
RecordRedemption(t) ==
    /\ claim[t].stage = "reserved"
    /\ claim' = [claim EXCEPT ![t].stage = "recorded"]
    /\ UNCHANGED <<promo, promoDraft, promoHolder, redemptions, edit>>

-----------------------------------------------------------------------------
(* The end of the order's transaction.                                     *)

PromoEnd(t) ==
    /\ promoHolder' = Unlock(promoHolder, t)
    /\ claim' = [claim EXCEPT ![t] = NoClaim]
    /\ UNCHANGED edit

\* Mutant: a guest's redemption is not recorded.
WrittenForAccounts(t) ==
    IF claim[t].stage # "recorded" \/ claim[t].by \in Anonymous THEN {}
    ELSE {[code |-> claim[t].code, by |-> claim[t].by, order |-> claim[t].order]}

Written(t) == IF claim[t].stage # "recorded" THEN {}
              ELSE {[code |-> claim[t].code, by |-> claim[t].by, order |-> claim[t].order]}

PromoCommit(t) ==
    /\ claim[t].stage \in {"idle", "recorded"}
    /\ promo' = View(promo, promoDraft, promoHolder, t)
    /\ redemptions' = redemptions \cup Written(t)
    /\ UNCHANGED promoDraft
    /\ PromoEnd(t)

\* Mutant: the redemption is recorded outside the order's transaction.
RollbackKeepsRedemption(t) ==
    /\ promoDraft' = Discard(promo, promoDraft, promoHolder, t)
    /\ redemptions' = redemptions \cup Written(t)
    /\ promo' = promo
    /\ PromoEnd(t)

PromoRollback(t) ==
    /\ promoDraft' = Discard(promo, promoDraft, promoHolder, t)
    /\ UNCHANGED <<promo, redemptions>>
    /\ PromoEnd(t)

-----------------------------------------------------------------------------
(* updatePromoCode: the read, then the checks and the UPDATE.              *)

ReadForEdit(a, c) ==
    /\ edit[a] = NoEdit
    /\ edit' = [edit EXCEPT ![a] = [code |-> c, read |-> promo[c]]]
    /\ UNCHANGED <<promo, promoDraft, promoHolder, redemptions, claim>>

\* The limit is checked against the counter of the row that was read.
EditAllowed(row, dto) ==
    /\ ~row.active => dto.active = TRUE
    /\ dto.usageLimit # Keep => dto.usageLimit >= row.usedCount

Patched(old, new) == IF new = Keep THEN old ELSE new

UpdateCode(a, dto) ==
    LET c   == edit[a].code
        row == [promo[c] EXCEPT !.usageLimit = Patched(@, dto.usageLimit),
                                !.perUser    = Patched(@, dto.perUser),
                                !.active     = Patched(@, dto.active)]
    IN
    /\ edit[a] # NoEdit
    /\ EditAllowed(edit[a].read, dto)
    /\ promoHolder[c] = NoTx
    /\ promo' = [promo EXCEPT ![c] = row]
    /\ promoDraft' = [promoDraft EXCEPT ![c] = row]
    /\ edit' = [edit EXCEPT ![a] = NoEdit]
    /\ UNCHANGED <<promoHolder, redemptions, claim>>

RefuseEdit(a) ==
    /\ edit[a] # NoEdit
    /\ edit' = [edit EXCEPT ![a] = NoEdit]
    /\ UNCHANGED <<promo, promoDraft, promoHolder, redemptions, claim>>

-----------------------------------------------------------------------------
\* An order's id is fresh: no redemption and no open transaction has it.
UnredeemedOrder(o) ==
    /\ \A x \in redemptions : x.order # o
    /\ \A t \in Tx : claim[t] # NoClaim => claim[t].order # o

PromoNext ==
    \/ \E t \in Tx :
          \/ \E c \in Code, by \in Customer, o \in Order :
                UnredeemedOrder(o) /\ FindCode(t, c, by, o)
          \/ CountForCustomer(t)
          \/ Reserve(t)
          \/ RecordRedemption(t)
          \/ claim[t] # NoClaim /\ PromoCommit(t)
          \/ claim[t] # NoClaim /\ PromoRollback(t)
    \/ \E a \in Admin :
          \/ \E c \in Code : ReadForEdit(a, c)
          \/ \E dto \in Edits : UpdateCode(a, dto)
          \/ RefuseEdit(a)

PromoSpec == PromoInit /\ [][PromoNext]_promoVars

-----------------------------------------------------------------------------
Redeemed(c) == Cardinality({x \in redemptions : x.code = c})

\* The counter and the ledger never part: usedCount is the number of committed
\* redemption rows, whatever reservations were rolled back and whatever edits
\* of the same row came in between (incrementUsageGuarded, recordRedemption).
UsedIsRedeemed == \A c \in Code : promo[c].usedCount = Redeemed(c)

\* A code is redeemed at most usageLimit times: two orders that both read the
\* last free use do not both get it.
WithinLimit == \A c \in Code :
    promo[c].usageLimit = NoLimit \/ Redeemed(c) <= promo[c].usageLimit

\* The checkouts that have counted a customer's redemptions.
Counted(c, by) == {t \in Tx : claim[t] # NoClaim /\ claim[t].stage # "found"
                               /\ claim[t].code = c /\ claim[t].by = by}

\* A customer passes usageLimitPerUser by overlapping checkouts only: each of
\* them counted before the others redeemed, so a customer who sends n at a time
\* gets at most n - 1 uses too many, however long this goes on.  (One checkout
\* at a time stays within the limit: Tx a singleton.)
OverlapsAloneOverrun == \A c \in Code, by \in Customer \ Anonymous :
    promo[c].perUser = NoLimit \/
        RedeemedBy(c, by) + Cardinality(Counted(c, by)) <= promo[c].perUser + Cardinality(Tx) - 1
=============================================================================
