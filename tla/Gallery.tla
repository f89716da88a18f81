------------------------------ MODULE Gallery ------------------------------
(***************************************************************************)
(* The images of one product or one combo: their order, the primary one    *)
(* (the cover) and their files, under ProductService.updateProduct and     *)
(* ComboProductService.updateComboProduct.  A product decides the place    *)
(* and the primary of a new image from the row it read before the request  *)
(* had a transaction; a combo decides them inside.  A partial unique index *)
(* allows at most one primary.                                             *)
(*                                                                         *)
(* A statement on several rows waits until all of them are free.  At most  *)
(* one file is uploaded at a time; image i is stored in file i.            *)
(***************************************************************************)
EXTENDS Requests, Integers, Sequences, FiniteSets

CONSTANTS
    Image,        \* ids of rows and of files
    FirstImages   \* how many there are at first

VARIABLES
    kind,         \* "product" or "combo"
    images,       \* the committed rows of product_images (combo_images)
    imagesDraft,
    imagesHolder,
    files,        \* the files on the disk
    saved,        \* history: the files there ever were
    mistaken      \* history: files of commits that were taken for failed

AtImages    == <<images, imagesDraft, imagesHolder>>
AtFiles     == <<files, saved, mistaken>>
galleryVars == <<kind, AtImages, AtFiles, request, alone>>

ImageRow == [live : BOOLEAN, order : Nat, primary : BOOLEAN]
Nothing  == [live |-> FALSE, order |-> 0, primary |-> FALSE]

Shown(rows) == {i \in Image : rows[i].live}
Covers(rows) == {i \in Shown(rows) : rows[i].primary}

Rows(t) == View(images, imagesDraft, imagesHolder, t)

\* Images in places 0, 1, 2..., or with a gap after the cover where one was
\* deleted.
GalleryInit ==
    /\ kind \in {"product", "combo"}
    /\ \E gap \in {0, 1} :
          images = [i \in Image |->
              IF i \in 1..FirstImages
              THEN [live |-> TRUE, order |-> IF i = 1 THEN 0 ELSE i - 1 + gap, primary |-> i = 1]
              ELSE Nothing]
    /\ imagesDraft = images /\ imagesHolder = [i \in Image |-> NoTx]
    /\ files = 1..FirstImages /\ saved = files /\ mistaken = {}
    /\ request = [t \in Tx |-> Idle]
    /\ alone = [t \in Tx |-> FALSE]

-----------------------------------------------------------------------------
(* Requests: images to delete, whether a file is uploaded, and an order of *)
(* all images that are to remain, 0 standing for the new one.              *)

NoPlan == <<>>

Orders(all) == {p \in [1..Cardinality(all) -> all] : \A i, j \in DOMAIN p : p[i] = p[j] => i = j}

\* All orders of every set of images: a constant, so that it is evaluated once.
Arrangements == [all \in SUBSET (Image \cup {0}) |-> Orders(all)]

Plans(kept, up) == Arrangements[kept \cup (IF up THEN {0} ELSE {})]

\* hasSurvivingPrimaryImage
KeepsCover(del) == Covers(images) \ del # {}

BeginEdit(t, del, up, plan) ==
    /\ del \subseteq Shown(images)
    /\ plan # NoPlan => kind = "product" /\ plan \in Plans(Shown(images) \ del, up)
    /\ del # {} \/ up \/ plan # NoPlan
    /\ Starts(t, [stage |-> IF up THEN "upload" ELSE "delete", del |-> del, up |-> up, plan |-> plan,
                  new |-> 0, covered |-> KeepsCover(del), place |-> Cardinality(Shown(images))])
    /\ UNCHANGED <<kind, AtImages, AtFiles>>

Upload(t) ==
    LET r == request[t] IN
    /\ r.stage = "upload"
    /\ \E i \in Image \ saved :
          /\ \A j \in Image \ saved : i <= j
          /\ files' = files \cup {i} /\ saved' = saved \cup {i}
          /\ Continues(t, [r EXCEPT !.stage = "delete", !.new = i])
    /\ UNCHANGED <<kind, AtImages, mistaken>>

-----------------------------------------------------------------------------
(* The transaction.                                                        *)

\* t may lock these rows, and makes them rows.
Put(t, which, rows) ==
    /\ \A i \in which : Free(imagesHolder, t, i)
    /\ imagesDraft' = [i \in Image |-> IF i \in which THEN rows[i] ELSE imagesDraft[i]]
    /\ imagesHolder' = [i \in Image |-> IF i \in which THEN t ELSE imagesHolder[i]]
    /\ UNCHANGED <<kind, images, AtFiles>>

\* The unique index lets t make i the primary: no other row is one, and none a
\* transaction that has yet to end has made or unmade.
MayBePrimary(t, i) == \A j \in Image \ {i} :
    ~imagesDraft[j].primary /\ ~(images[j].primary /\ imagesHolder[j] \notin {NoTx, t})

AfterDelete(r) ==
    CASE r.plan # NoPlan -> "clear"
      [] r.plan = NoPlan /\ r.up -> IF kind = "combo" THEN "count" ELSE "insert"
      [] OTHER -> "commit"

\* deleteMany: rows that are gone are passed over.
DeleteImages(t) ==
    LET r == request[t] IN
    /\ r.stage = "delete"
    /\ Put(t, r.del, [i \in Image |-> Nothing])
    /\ Continues(t, [r EXCEPT !.stage = AfterDelete(r)])

\* reorderImages: no image is primary ...
ClearCovers(t) ==
    LET r == request[t] IN
    /\ r.stage = "clear"
    /\ Put(t, Shown(Rows(t)), [i \in Image |-> [imagesDraft[i] EXCEPT !.primary = FALSE]])
    /\ Continues(t, [r EXCEPT !.stage = "place"])

PlanIds(r) == [p \in DOMAIN r.plan |-> IF r.plan[p] = 0 THEN r.new ELSE r.plan[p]]

\* ... and then each image gets its place, the first one the cover.  An image
\* of the plan that is gone fails the request.
PlaceImages(t) ==
    LET r     == request[t]
        ids   == PlanIds(r)
        at(i) == CHOOSE p \in DOMAIN ids : ids[p] = i
    IN  /\ r.stage = "place"
        /\ \A p \in DOMAIN ids : ids[p] = r.new \/ imagesDraft[ids[p]].live
        /\ Len(ids) > 0 => MayBePrimary(t, ids[1])
        /\ Put(t, {ids[p] : p \in DOMAIN ids},
               [i \in Image |-> IF \E p \in DOMAIN ids : ids[p] = i
                                THEN [live |-> TRUE, order |-> at(i) - 1, primary |-> at(i) = 1]
                                ELSE imagesDraft[i]])
        /\ Continues(t, [r EXCEPT !.stage = "commit"])

\* countPrimaryImages, of a combo, after the deletion.
CountCovers(t) ==
    /\ request[t].stage = "count"
    /\ Continues(t, [request[t] EXCEPT !.stage = "max", !.covered = Covers(Rows(t)) # {}])
    /\ UNCHANGED <<kind, AtImages, AtFiles>>

\* Mutant: the next place is how many images there are.
NextPlaceByCount(rows) == Cardinality(Shown(rows))

NextPlace(rows) ==
    IF Shown(rows) = {} THEN 0
    ELSE 1 + CHOOSE o \in {rows[i].order : i \in Shown(rows)} : \A i \in Shown(rows) : rows[i].order <= o

\* findMaxImageDisplayOrder + 1
FindPlace(t) ==
    /\ request[t].stage = "max"
    /\ Continues(t, [request[t] EXCEPT !.stage = "insert", !.place = NextPlace(Rows(t))])
    /\ UNCHANGED <<kind, AtImages, AtFiles>>

InsertImage(t) ==
    LET r == request[t] IN
    /\ r.stage = "insert"
    /\ ~r.covered => MayBePrimary(t, r.new)
    /\ Put(t, {r.new}, [i \in Image |-> [live |-> TRUE, order |-> r.place, primary |-> ~r.covered]])
    /\ Continues(t, [r EXCEPT !.stage = "commit"])

Committed(t) ==
    /\ images' = Rows(t)
    /\ imagesHolder' = Unlock(imagesHolder, t)
    /\ UNCHANGED imagesDraft

Commit(t) ==
    LET r == request[t] IN
    /\ r.stage = "commit"
    /\ Committed(t)
    /\ Continues(t, [r EXCEPT !.stage = "unlink"])
    /\ UNCHANGED <<kind, AtFiles>>

\* The commit stands and its answer is lost: the catch block runs.
Mistaken(t) ==
    LET r == request[t] IN
    /\ r.stage = "commit"
    /\ Committed(t)
    /\ mistaken' = mistaken \cup {r.new}
    /\ Continues(t, [r EXCEPT !.stage = "clean"])
    /\ UNCHANGED <<kind, files, saved>>

Undone(t) ==
    /\ imagesDraft' = Discard(images, imagesDraft, imagesHolder, t)
    /\ imagesHolder' = Unlock(imagesHolder, t)
    /\ UNCHANGED <<kind, images, AtFiles>>

\* A statement fails, the unique index refuses, the transaction times out.
Fails(t) ==
    LET r == request[t] IN
    /\ r.stage \notin {"idle", "upload", "unlink", "clean"}
    /\ Undone(t)
    /\ Continues(t, [r EXCEPT !.stage = "clean"])

\* Mutant: the catch block deletes the files the request was to delete.
LeftOverSwapped(r) == r.del

\* What the catch block deletes: what was uploaded.
LeftOver(r) == {r.new}

\* The files of deleted rows, or what a failed request uploaded.
UnlinkFiles(t) ==
    LET r == request[t] IN
    /\ r.stage \in {"unlink", "clean"}
    /\ files' = files \ (IF r.stage = "unlink" THEN r.del ELSE LeftOver(r))
    /\ Ends(t)
    /\ UNCHANGED <<kind, AtImages, saved, mistaken>>

Crash(t) ==
    /\ request[t] # Idle
    /\ Undone(t)
    /\ Ends(t)

Ask(t) == \E del \in SUBSET Shown(images), up \in BOOLEAN :
    \E plan \in {NoPlan} \cup Plans(Shown(images) \ del, up) : BeginEdit(t, del, up, plan)

Serve(t) ==
    \/ Upload(t) \/ DeleteImages(t) \/ ClearCovers(t) \/ PlaceImages(t)
    \/ CountCovers(t) \/ FindPlace(t) \/ InsertImage(t)
    \/ Commit(t) \/ Mistaken(t) \/ Fails(t) \/ UnlinkFiles(t) \/ Crash(t)

GalleryNext == \E t \in Tx : Ask(t) \/ Serve(t)

GallerySpec == GalleryInit /\ [][GalleryNext]_galleryVars

-----------------------------------------------------------------------------
\* Every image shown has its file, unless its own commit was taken for failed:
\* whatever overlaps, and wherever the server dies.
ShownIsStored == \A i \in Shown(images) : i \in files \cup mistaken

\* A request nobody overlaps leaves images without a cover only if it uploaded
\* nothing that could be one; if it arranges the images they are in places 0, 1,
\* 2..., and a combo's new image comes after all others.
LoneEditArranges == [][\A t \in Tx : alone[t] /\ Commit(t) =>
    LET r == request[t] IN
    /\ Shown(images') # {} /\ Covers(images') = {} => ~r.up /\ r.plan = NoPlan
    /\ r.plan # NoPlan =>
          {images'[i].order : i \in Shown(images')} = 0..(Cardinality(Shown(images')) - 1)
    /\ kind = "combo" /\ r.up =>
          \A i \in Shown(images') \ {r.new} : images'[i].order < images'[r.new].order]_galleryVars
=============================================================================
