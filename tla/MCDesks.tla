------------------------------ MODULE MCDesks ------------------------------
(***************************************************************************)
(* The small components, each explored by itself: a behaviour is of one    *)
(* desk, so their state spaces add up.  Two requests at a time, and a      *)
(* bounded number in all.  The address book is extended, the others are    *)
(* instances with request tables of their own.                             *)
(***************************************************************************)
EXTENDS Desks, TLC

CONSTANTS
    \* bounds: how many requests each desk serves
    BookRequests, AccountRequests, UploadRequests, GalleryRequests, ShelfRequests, TagRequests,
    BundleRequests, CourierRequests

VARIABLES desk, served

atAccounts == <<account, accountDraft, accountHolder, code, codeDraft, codeHolder, age, broken,
                accountRequest, accountAlone>>
atUploads  == <<style, life, image, disk, drawn, doubted, uploadRequest, uploadAlone>>
atGallery  == <<kind, images, imagesDraft, imagesHolder, files, saved, mistaken,
                galleryRequest, galleryAlone>>
atShelf    == <<variant, variantDraft, variantHolder, prod, prodHolder, shelfRequest, shelfAlone>>
atBill     == <<billStage, lines, subtotal, discount, allocated, shared, total>>
atTag      == <<tag, tagRequest, tagAlone>>
atBundling == <<part, partDraft, partHolder, bundle, bundleDraft, bundleHolder,
                bundleRequest, bundleAlone>>
atCouriers == <<company, companyDraft, companyHolder, zone, courierRequest, courierAlone>>
atDesks    == <<bookVars, atAccounts, atUploads, atGallery, atShelf, atBill, atTag, atBundling,
                atCouriers>>

-----------------------------------------------------------------------------
(* What the bodies say.                                                    *)

Say(active, default, quantity) == [active |-> active, default |-> default, quantity |-> quantity]
Silent == Say(Keep, Keep, Keep)

\* Variant lists that say nothing, restock, drop a variant and move the
\* default, add one, and retire everything.
MCBodies == {
    1 :> Silent @@ 2 :> Silent @@ 3 :> Absent,
    1 :> Say(Keep, Keep, 2) @@ 2 :> Absent @@ 3 :> Absent,
    1 :> Absent @@ 2 :> Say(Keep, TRUE, Keep) @@ 3 :> Absent,
    1 :> Silent @@ 2 :> Silent @@ 3 :> Say(Keep, TRUE, 1),
    1 :> Say(FALSE, Keep, Keep) @@ 2 :> Say(FALSE, TRUE, Keep) @@ 3 :> Absent}

\* Lists of items, or of variants whose status a request sets.
MCLists == {{1}, {2}, {1, 2}}

Promo(type, value, max, min) == [type |-> type, value |-> value, max |-> max, min |-> min]

\* Codes that take a cent, more than the cart, a fraction that rounds, nearly
\* nothing, a capped half, and (an edited code) more than everything.
MCPromos == {
    Promo("FIXED", 1, NoMax, 0), Promo("FIXED", 7, NoMax, 20), Promo("FIXED", 500, NoMax, 0),
    Promo("PERCENTAGE", 1, NoMax, 0), Promo("PERCENTAGE", 33, NoMax, 0),
    Promo("PERCENTAGE", 50, 11, 0), Promo("PERCENTAGE", 150, NoMax, 0)}

\* Names that differ only in case, in what a slug drops, and altogether.
Spelled(text, lower, slug) == [text |-> text, lower |-> lower, slug |-> slug]
MCSpellings == {Spelled("KEX", "kex", "kex"), Spelled("kex", "kex", "kex"),
                Spelled("kex!", "kex!", "kex"), Spelled("dhl", "dhl", "dhl")}

-----------------------------------------------------------------------------
MCInit ==
    /\ desk \in {"book", "accounts", "uploads", "gallery", "shelf", "bill", "tag", "bundling",
                "couriers"}
    /\ served = 0
    /\ BookInit /\ Accounts!AccountsInit /\ Uploads!UploadsInit /\ Gallery!GalleryInit
    /\ Shelf!VariantsInit /\ Bill!TotalsInit /\ Tag!TagInit /\ Bundling!BundlingInit
    /\ Couriers!CouriersInit
    /\ desk # "accounts" => account["user"].status = "none"
    /\ desk # "uploads" => style = "late"
    /\ desk # "gallery" => kind = "product" /\ images[2].order = 1

\* Before a request is asked for, and in every other step.
Asking(requests)  == served < requests /\ served' = served + 1 /\ UNCHANGED desk
Serving           == UNCHANGED <<desk, served>>

BookStep(t) ==
    /\ desk = "book"
    /\ \/ Asking(BookRequests) /\ Ask(t)
       \/ Serving /\ Serve(t)
    /\ UNCHANGED <<atAccounts, atUploads, atGallery, atShelf, atBill, atTag, atBundling, atCouriers>>

AccountsStep(t) ==
    /\ desk = "accounts"
    /\ \/ Asking(AccountRequests) /\ Accounts!Ask(t)
       \/ Serving /\ Accounts!Serve(t)
    /\ UNCHANGED <<bookVars, atUploads, atGallery, atShelf, atBill, atTag, atBundling, atCouriers>>

TimePasses ==
    /\ desk = "accounts" /\ Serving
    /\ \E c \in Code : Accounts!Ages(c)
    /\ UNCHANGED <<bookVars, atUploads, atGallery, atShelf, atBill, atTag, atBundling, atCouriers>>

UploadsStep(t) ==
    /\ desk = "uploads"
    /\ \/ Asking(UploadRequests) /\ Uploads!Ask(t)
       \/ Serving /\ Uploads!Serve(t)
    /\ UNCHANGED <<bookVars, atAccounts, atGallery, atShelf, atBill, atTag, atBundling, atCouriers>>

GalleryStep(t) ==
    /\ desk = "gallery"
    /\ \/ Asking(GalleryRequests) /\ Gallery!Ask(t)
       \/ Serving /\ Gallery!Serve(t)
    /\ UNCHANGED <<bookVars, atAccounts, atUploads, atShelf, atBill, atTag, atBundling, atCouriers>>

ShelfStep(t) ==
    /\ desk = "shelf"
    /\ \/ Asking(ShelfRequests) /\ Shelf!Ask(t)
       \/ Serving /\ Shelf!Serve(t)
    /\ UNCHANGED <<bookVars, atAccounts, atUploads, atGallery, atBill, atTag, atBundling, atCouriers>>

BillStep ==
    /\ desk = "bill" /\ Serving
    /\ Bill!TotalsNext
    /\ UNCHANGED <<bookVars, atAccounts, atUploads, atGallery, atShelf, atTag, atBundling, atCouriers>>

TagStep(t) ==
    /\ desk = "tag"
    /\ \/ Asking(TagRequests) /\ Tag!Ask(t)
       \/ Serving /\ Tag!Serve(t)
    /\ UNCHANGED <<bookVars, atAccounts, atUploads, atGallery, atShelf, atBill, atBundling, atCouriers>>

BundlingStep(t) ==
    /\ desk = "bundling"
    /\ \/ Asking(BundleRequests) /\ Bundling!Ask(t)
       \/ Serving /\ Bundling!Serve(t)
    /\ UNCHANGED <<bookVars, atAccounts, atUploads, atGallery, atShelf, atBill, atTag, atCouriers>>

CouriersStep(t) ==
    /\ desk = "couriers"
    /\ \/ Asking(CourierRequests) /\ Couriers!Ask(t)
       \/ Serving /\ Couriers!Serve(t)
    /\ UNCHANGED <<bookVars, atAccounts, atUploads, atGallery, atShelf, atBill, atTag, atBundling>>

MCNext ==
    \/ \E t \in Tx :
          \/ BookStep(t) \/ AccountsStep(t) \/ UploadsStep(t) \/ GalleryStep(t)
          \/ ShelfStep(t) \/ TagStep(t) \/ BundlingStep(t) \/ CouriersStep(t)
    \/ TimePasses \/ BillStep

MCSpec == MCInit /\ [][MCNext]_<<desk, served, atDesks>>

Perms == Permutations(Tx)
=============================================================================
