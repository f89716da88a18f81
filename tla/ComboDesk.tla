------------------------------ MODULE ComboDesk -----------------------------
(***************************************************************************)
(* Combo offers in use: transactions that sell bundles of a combo or its   *)
(* parts on their own, and admins who edit the offer meanwhile             *)
(* (ComboProductService.updateComboProduct).  An edit reads the combo and, *)
(* when the body carries the item list, the parts' stock; it decides on    *)
(* what it read and writes in a transaction of its own, later.             *)
(***************************************************************************)
EXTENDS ComboOffers

CONSTANTS
    Admin,      \* concurrent admin requests
    Edits,      \* the bodies they may send, Keep where a field is absent
    Keep,
    MaxBundles  \* the bound: bundles one order may ask for

ASSUME EditsAssumption ==
    Edits \subseteq [offered : Nat \cup {Keep}, active : BOOLEAN \cup {Keep}, items : BOOLEAN]
ASSUME DeskKeepAssumption == Keep \notin Nat \cup BOOLEAN

VARIABLES
    bundle,     \* bundle[t]: the bundles t's order holds and whether it counted them
    desk        \* desk[a]: what admin request a has read and decided

deskVars == <<stockVars, comboVars, bundle, desk>>

NoBundle == [count |-> 0, counted |-> FALSE]
AtRest   == [stage |-> "rest"]

DeskInit ==
    /\ StockInit
    /\ ComboInit
    /\ bundle = [t \in Tx |-> NoBundle]
    /\ desk = [a \in Admin |-> AtRest]

-----------------------------------------------------------------------------
(* An order of one combo, or of its parts.                                 *)

BundleLines(c, n) == [r \in Row |-> n * Parts[c][r]]

\* placeOrder resolves the line and starts deducting the parts.
BeginBundle(t, o, c, n) ==
    /\ FreshOrder(o)
    /\ Buyable(t, c, n)
    /\ BeginSale(t, o, BundleLines(c, n))
    /\ bundle' = [bundle EXCEPT ![t] = [combo |-> c, count |-> n, counted |-> FALSE]]
    /\ UNCHANGED <<comboVars, desk>>

BeginPlain(t, o, lines) ==
    /\ FreshOrder(o)
    /\ BeginSale(t, o, lines)
    /\ UNCHANGED <<comboVars, bundle, desk>>

MoveBundlePart(t, r) ==
    /\ DeductPart(t, r)
    /\ UNCHANGED <<bundle, desk>>

Retrigger(t, c) ==
    /\ WriteAvailable(t, c)
    /\ UNCHANGED <<stockVars, bundle, desk>>

\* applyComboSoldQuantity
CountBundle(t) ==
    /\ bundle[t].count > 0
    /\ ~bundle[t].counted
    /\ todo[t] = None
    /\ AdjustSold(t, bundle[t].combo, bundle[t].count)
    /\ bundle' = [bundle EXCEPT ![t].counted = TRUE]
    /\ UNCHANGED <<stockVars, desk>>

CommitBundle(t) ==
    /\ bundle[t].count > 0 => bundle[t].counted
    /\ StockCommit(t)
    /\ ComboCommit(t)
    /\ bundle' = [bundle EXCEPT ![t] = NoBundle]
    /\ UNCHANGED desk

AbortBundle(t) ==
    /\ job[t] # Idle
    /\ StockRollback(t)
    /\ ComboRollback(t)
    /\ bundle' = [bundle EXCEPT ![t] = NoBundle]
    /\ UNCHANGED desk

-----------------------------------------------------------------------------
(* updateComboProduct                                                      *)

AtDesk == <<stockVars, bundle>>

\* findByIdAdmin, and resolveComboItems when the body carries the items
ReadOffer(a, c, dto) ==
    /\ desk[a] = AtRest
    /\ desk' = [desk EXCEPT ![a] = [stage |-> "read", combo |-> c, dto |-> dto, row |-> combo[c],
                                    ceiling |-> IF dto.items THEN Assembled(quantity, c)
                                                ELSE combo[c].available]]
    /\ UNCHANGED <<AtDesk, comboVars>>

Patched(old, new) == IF new = Keep THEN old ELSE new

\* assertOfferedQuantityFits, assertOfferedQuantityCoversSold and, when the
\* combo is to be active, assertOfferWindowNotClosed and assertOfferNotExhausted
OfferAllowed(c, row, ceiling, dto) ==
    /\ dto.offered # Keep => dto.offered <= ceiling /\ dto.offered >= row.sold
    /\ Patched(row.active, dto.active) =>
          /\ c \notin ended
          /\ ~Exhausted([row EXCEPT !.offered = Patched(@, dto.offered)])

CheckOffer(a) ==
    /\ desk[a].stage = "read"
    /\ OfferAllowed(desk[a].combo, desk[a].row, desk[a].ceiling, desk[a].dto)
    /\ desk' = [desk EXCEPT ![a].stage = "checked"]
    /\ UNCHANGED <<AtDesk, comboVars>>

\* The UPDATE names only the fields the body carries, and the availability the
\* service computed when the items are among them.
WriteOffer(a) ==
    LET c   == desk[a].combo
        dto == desk[a].dto
    IN
    /\ desk[a].stage = "checked"
    /\ Autocommit(c, Synced([combo[c] EXCEPT
          !.available = IF dto.items THEN desk[a].ceiling ELSE @,
          !.offered   = Patched(@, dto.offered),
          !.active    = Patched(@, dto.active)]))
    /\ desk' = [desk EXCEPT ![a] = AtRest]
    /\ UNCHANGED <<AtDesk, ended>>

RefuseOffer(a) ==
    /\ desk[a] # AtRest
    /\ desk' = [desk EXCEPT ![a] = AtRest]
    /\ UNCHANGED <<AtDesk, comboVars>>

-----------------------------------------------------------------------------
Sweep(c) == SweepExpired(c) /\ UNCHANGED <<AtDesk, desk>>
Close(c) == WindowCloses(c) /\ UNCHANGED <<AtDesk, desk>>

TxNext(t) ==
    \/ \E o \in Order, c \in Combo, n \in 1..MaxBundles : BeginBundle(t, o, c, n)
    \/ \E o \in Order, lines \in Demands : BeginPlain(t, o, lines)
    \/ \E r \in Row : MoveBundlePart(t, r)
    \/ \E c \in Combo : Retrigger(t, c)
    \/ CountBundle(t)
    \/ CommitBundle(t)
    \/ AbortBundle(t)

AdminNext(a) ==
    \/ \E c \in Combo, dto \in Edits : ReadOffer(a, c, dto)
    \/ CheckOffer(a)
    \/ WriteOffer(a)
    \/ RefuseOffer(a)

DeskNext ==
    \/ \E t \in Tx : TxNext(t)
    \/ \E a \in Admin : AdminNext(a)
    \/ \E c \in Combo : Close(c) \/ Sweep(c)

DeskSpec == DeskInit /\ [][DeskNext]_deskVars

\* Every transaction ends: it commits, fails, or Prisma's timeout rolls it back.
\* The sweep runs every hour.
Ends(t) == CommitBundle(t) \/ AbortBundle(t)

DeskFairness ==
    /\ \A t \in Tx : WF_deskVars(Ends(t))
    /\ \A a \in Admin : WF_deskVars(WriteOffer(a) \/ RefuseOffer(a))
    /\ \A c \in Combo : SF_deskVars(Sweep(c))

FairDeskSpec == DeskSpec /\ DeskFairness

-----------------------------------------------------------------------------
\* An offer whose window has closed is retired in the end and stays so, even
\* one an admin published a moment too late (sweepExpiredCombos).
ExpiredIsRetired == \A c \in Combo : [](c \in ended => <>[](~combo[c].active))
=============================================================================
