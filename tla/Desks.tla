------------------------------- MODULE Desks -------------------------------
(***************************************************************************)
(* The small components side by side, each with a request table of its     *)
(* own.  The address book is extended, the others are instances.  This is  *)
(* what is explored together and what the proofs are about.                *)
(***************************************************************************)
EXTENDS AddressBook, Integers, FiniteSets

CONSTANTS
    Code,                     \* Accounts
    File, NoFile,             \* Uploads
    Image, FirstImages,       \* Gallery
    Variant, FirstVariants, FirstStock, Bodies, Statuses, Keep, Absent,   \* Variants
    UnitPrices, Quantities, MaxLines, Promos, NoMax, DeliveryCharge,      \* OrderTotals
    Fine, BasePrices, DiscountValues, FirstPrice, Unsaid, NoValue,        \* PriceTag
    Combo, FirstCombo, FirstParts, Lists,                                  \* Bundling
    Company, Zone, Spelling, Undrawn, Deleted                                \* Couriers

VARIABLES
    account, accountDraft, accountHolder, code, codeDraft, codeHolder, age, broken,
    accountRequest, accountAlone,
    style, life, image, disk, drawn, doubted, uploadRequest, uploadAlone,
    kind, images, imagesDraft, imagesHolder, files, saved, mistaken, galleryRequest, galleryAlone,
    variant, variantDraft, variantHolder, prod, prodHolder, shelfRequest, shelfAlone,
    billStage, lines, subtotal, discount, allocated, shared, total,
    tag, tagRequest, tagAlone,
    part, partDraft, partHolder, bundle, bundleDraft, bundleHolder, bundleRequest, bundleAlone,
    company, companyDraft, companyHolder, zone, courierRequest, courierAlone

Accounts == INSTANCE Accounts WITH request <- accountRequest, alone <- accountAlone
Uploads  == INSTANCE Uploads WITH request <- uploadRequest, alone <- uploadAlone
Gallery  == INSTANCE Gallery WITH request <- galleryRequest, alone <- galleryAlone
Shelf    == INSTANCE Variants WITH request <- shelfRequest, alone <- shelfAlone
Bill     == INSTANCE OrderTotals WITH stage <- billStage
Tag      == INSTANCE PriceTag WITH request <- tagRequest, alone <- tagAlone
Bundling == INSTANCE Bundling WITH active <- part, activeDraft <- partDraft,
                activeHolder <- partHolder, request <- bundleRequest, alone <- bundleAlone
Couriers == INSTANCE Couriers WITH request <- courierRequest, alone <- courierAlone

ASSUME AccountsAssumption == Code \subseteq Nat \ {0} /\ 1 \in Code
ASSUME UploadsAssumption == NoFile \notin File
ASSUME GalleryAssumption ==
    Image \subseteq Nat \ {0} /\ FirstImages \in Nat /\ 1..FirstImages \subseteq Image
ASSUME ShelfAssumption ==
    /\ Variant \subseteq Nat
    /\ Keep \notin BOOLEAN \cup Nat
    /\ FirstVariants \subseteq Variant /\ FirstVariants # {} /\ FirstStock \in Nat
    /\ IsFiniteSet(FirstVariants)
    /\ \A body \in Bodies :
          /\ DOMAIN body = Variant
          /\ \E v \in Variant : body[v] # Absent
          /\ IsFiniteSet({v \in Variant : body[v] # Absent})
          /\ \A v \in Variant : body[v] # Absent =>
                body[v] \in [active : BOOLEAN \cup {Keep}, default : BOOLEAN \cup {Keep},
                             quantity : Nat \cup {Keep}]
ASSUME BillAssumption ==
    /\ UnitPrices \subseteq Nat /\ Quantities \subseteq Nat \ {0} /\ MaxLines \in Nat
    /\ DeliveryCharge \in Nat \ {0}
    /\ \A p \in Promos :
          /\ p.type \in {"FIXED", "PERCENTAGE"} /\ p.value \in Nat \ {0}
          /\ p.max \in Nat \cup {NoMax} /\ p.min \in Nat
ASSUME BundlingAssumption ==
    /\ FirstCombo \in Combo /\ FirstParts \in Lists
    /\ Lists \subseteq (SUBSET Variant) \ {{}}
    /\ Keep \notin Lists
ASSUME CouriersAssumption ==
    /\ {Undrawn, Deleted} \cap Company = {}
    /\ \A n, m \in Spelling : n.lower = m.lower => n.slug = m.slug
ASSUME TagAssumption ==
    /\ Fine \in Nat \ {0}
    /\ BasePrices \cup {FirstPrice} \cup DiscountValues \subseteq Nat
    /\ NoValue \notin Nat

-----------------------------------------------------------------------------
(* The properties, as their modules state and explain them; those of the   *)
(* address book, LoneDefaultIsOnly and LastDefaultGoesByHand, come with it. *)

\* Accounts: a security row, a code to verify by, and no active account unverified.
AccountsAreWhole == Accounts!AccountsAreWhole
\* Accounts: a code is spent together with what it is spent on.
SpentWithItsEffect == Accounts!SpentWithItsEffect
\* Accounts: only what was read before a deactivation undoes it.
ReactivationIsOld == Accounts!ReactivationIsOld
\* Uploads: a service that deletes late never shows a file that is not there.
LateNeverDangles == Uploads!LateNeverDangles
\* Uploads: a lone request that runs to its end leaves no orphan.
LoneLeavesNoOrphan == Uploads!LoneLeavesNoOrphan
\* Gallery: every image shown is stored.
ShownIsStored == Gallery!ShownIsStored
\* Gallery: a lone edit leaves a cover and the places it arranged.
LoneEditArranges == Gallery!LoneEditArranges
\* Variants: a product with variants has a default.
AlwaysADefault == Shelf!AlwaysADefault
\* Variants: stock, status and default are right after a lone request.
LoneRequestHeals == Shelf!LoneRequestHeals
\* OrderTotals: the bill adds up to the cent, and each share is fair up to its rounding.
BillAddsUp == Bill!BillAddsUp
\* PriceTag: a lone edit leaves the price its row gives, but for the columns' rounding.
LoneEditReprices == Tag!LoneEditReprices
\* Couriers: no two companies have one name but for its case.
NamesApart == Couriers!NamesApart
\* Bundling: a lone request puts no retired variant in a live combo.
LoneRequestKeepsBundles == Bundling!LoneRequestKeepsBundles
=============================================================================
