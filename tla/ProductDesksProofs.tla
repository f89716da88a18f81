------------------------- MODULE ProductDesksProofs -------------------------
(***************************************************************************)
(* Proofs about the desks of a product: its images, its price, the bill it *)
(* is on and its variants, for every value of their constants and every    *)
(* set of concurrent requests.                                             *)
(***************************************************************************)
EXTENDS DesksProofs, Sequences, SumTheorems

-----------------------------------------------------------------------------
(* The images of a product or a combo.                                     *)

GalleryFields == {"stage", "del", "up", "plan", "new", "covered", "place"}
Writing == {"clear", "place", "count", "max", "insert", "commit"}

\* What a request carries: images there were when it began, and its own upload.
EditFits(r) ==
    /\ DOMAIN r = GalleryFields
    /\ r.stage \in {"upload", "delete", "unlink", "clean"} \cup Writing
    /\ r.del \subseteq saved \cap Image
    /\ \A p \in DOMAIN r.plan : r.plan[p] \in saved \cap Image \/ (r.plan[p] = 0 /\ r.up)
    /\ r.new \in (saved \cap Image) \cup {0}
    /\ r.new # 0 <=> r.up /\ r.stage # "upload"
    /\ r.stage \in {"upload", "count", "max", "insert"} => r.up

Editing == {t \in Tx : galleryRequest[t] # Gallery!Idle}

\* An upload nobody has seen committed.
Fresh(t) ==
    LET r == galleryRequest[t] IN
    /\ t \in Editing /\ r.new # 0 /\ r.stage # "unlink"
    /\ ~(r.stage = "clean" /\ r.new \in mistaken)

Names(r, i) == i \in r.del \/ \E p \in DOMAIN r.plan : r.plan[p] = i

GalleryTables ==
    /\ imagesHolder \in [Image -> Tx \cup {NoTx}]
    /\ DOMAIN images = Image /\ DOMAIN imagesDraft = Image
    /\ \A i \in Image : "live" \in DOMAIN images[i] /\ "live" \in DOMAIN imagesDraft[i]
    /\ Gallery!DraftsAreHeld(images, imagesDraft, imagesHolder)
    /\ \A i \in Image : images[i].live => i \in saved
    /\ DOMAIN galleryRequest = Tx

NewsAreApart == \A t, u \in Editing :
    t # u /\ galleryRequest[t].new = galleryRequest[u].new => galleryRequest[t].new = 0

NewsAreFresh == \A t \in Editing : Fresh(t) =>
    LET i == galleryRequest[t].new IN
    /\ ~images[i].live
    /\ galleryRequest[t].stage # "clean" => i \in files
    /\ \A u \in Editing : ~Names(galleryRequest[u], i)

\* A row appears only as the upload of the transaction about to commit it.
DraftsAreNews == \A i \in Image : imagesDraft[i].live /\ ~images[i].live =>
    \E t \in Editing : /\ imagesHolder[i] = t
                       /\ galleryRequest[t].new = i /\ galleryRequest[t].stage = "commit"

DeletedAreGone == \A t \in Editing : LET r == galleryRequest[t] IN \A i \in r.del :
    /\ r.stage \in Writing => imagesHolder[i] = t /\ ~imagesDraft[i].live
    /\ r.stage = "unlink" => ~images[i].live

GalleryInv ==
    /\ GalleryTables
    /\ \A t \in Editing : EditFits(galleryRequest[t])
    /\ NewsAreApart /\ NewsAreFresh /\ DraftsAreNews /\ DeletedAreGone
    /\ Gallery!ShownIsStored

LEMMA GalleryGo ==
    ASSUME GalleryInv, NEW t \in Tx, NEW q, Gallery!Go(t, q)
    PROVE  /\ galleryRequest'[t] = q /\ DOMAIN galleryRequest' = Tx
           /\ \A u \in Tx \ {t} : galleryRequest'[u] = galleryRequest[u]
           /\ \A u \in Tx \ {t} : u \in Editing' <=> u \in Editing
           /\ t \in Editing' <=> q # Gallery!Idle
BY DEF GalleryInv, GalleryTables, Gallery!Go, Editing

\* A step of t that leaves rows and files alone.
LEMMA QuietEdit ==
    ASSUME GalleryInv, NEW t \in Tx,
           UNCHANGED <<images, imagesDraft, imagesHolder, files, saved, mistaken>>,
           NEW q, q # Gallery!Idle, Gallery!Go(t, q), EditFits(q), q.stage \notin {"unlink", "clean"},
           \/ t \notin Editing /\ q.new = 0 /\ q.stage \notin Writing
              /\ \A i \in Image : Names(q, i) => images[i].live
           \/ /\ t \in Editing /\ galleryRequest[t].stage \in Writing \ {"commit"}
              /\ q.stage \in Writing
              /\ q.new = galleryRequest[t].new /\ q.del = galleryRequest[t].del
              /\ q.plan = galleryRequest[t].plan
    PROVE  GalleryInv'
<1> DEFINE r == galleryRequest[t]
<1>1. /\ galleryRequest'[t] = q /\ DOMAIN galleryRequest' = Tx
      /\ \A u \in Tx \ {t} : galleryRequest'[u] = galleryRequest[u]
      /\ \A u \in Tx \ {t} : u \in Editing' <=> u \in Editing
      /\ t \in Editing'
  BY GalleryGo
<1>2. Editing \subseteq Tx /\ Editing' \subseteq Tx
  BY DEF Editing
<1>3. GalleryTables' /\ Gallery!ShownIsStored'
  BY <1>1 DEF GalleryInv, GalleryTables, Gallery!DraftsAreHeld, Gallery!ShownIsStored, Gallery!Shown
<1>4. \A u \in Editing' : EditFits(galleryRequest[u])'
  BY <1>1, <1>2 DEF GalleryInv, EditFits
<1>5. NewsAreApart'
  BY <1>1, <1>2 DEF GalleryInv, NewsAreApart
<1>6. NewsAreFresh'
  <2>1. SUFFICES ASSUME NEW u \in Editing', Fresh(u)'
                 PROVE  LET i == galleryRequest'[u].new IN
                        /\ ~images[i].live
                        /\ galleryRequest'[u].stage # "clean" => i \in files
                        /\ \A w \in Editing' : ~Names(galleryRequest'[w], i)
    BY DEF NewsAreFresh, Names
  <2> DEFINE i == galleryRequest'[u].new
  <2>2. u \in Editing /\ Fresh(u) /\ i = galleryRequest[u].new /\ i \in Image
        /\ (u # t => galleryRequest'[u] = galleryRequest[u])
    BY <1>1, <1>2, <2>1 DEF Fresh, Writing, GalleryInv, EditFits
  <2>3. /\ ~images[i].live
        /\ galleryRequest[u].stage # "clean" => i \in files
        /\ \A w \in Editing : ~Names(galleryRequest[w], i)
    BY <2>2 DEF GalleryInv, NewsAreFresh
  <2>4. ~Names(q, i)
    BY <1>1, <2>2, <2>3 DEF Names
  <2>5. galleryRequest'[u].stage # "clean" => i \in files
    BY <1>1, <1>2, <2>1, <2>2, <2>3 DEF Writing
  <2> HIDE DEF i
  <2>6. \A w \in Editing' : ~Names(galleryRequest'[w], i)
    BY <1>1, <1>2, <2>3, <2>4
  <2> QED BY <2>3, <2>5, <2>6 DEF i
<1>7. DraftsAreNews'
  BY <1>1, <1>2 DEF GalleryInv, DraftsAreNews
<1>8. DeletedAreGone'
  BY <1>1, <1>2 DEF GalleryInv, DeletedAreGone
<1> QED BY <1>3, <1>4, <1>5, <1>6, <1>7, <1>8 DEF GalleryInv

\* A statement of t's transaction on some rows.
LEMMA PutEdit ==
    ASSUME GalleryInv, NEW t \in Editing, NEW which \in SUBSET Image, NEW rows,
           Gallery!Put(t, which, rows), \A i \in which : "live" \in DOMAIN rows[i],
           galleryRequest[t].stage \in {"delete"} \cup (Writing \ {"commit"}),
           NEW q, q # Gallery!Idle, Gallery!Go(t, q), EditFits(q), q.stage \in Writing,
           q.new = galleryRequest[t].new, q.del = galleryRequest[t].del, q.plan = galleryRequest[t].plan,
           \A i \in which : rows[i].live => imagesDraft[i].live \/ (i = q.new /\ q.stage = "commit"),
           galleryRequest[t].stage = "delete" => which = q.del /\ \A i \in which : ~rows[i].live
    PROVE  GalleryInv'
<1> DEFINE r == galleryRequest[t]
<1>0. t \in Tx /\ Editing \subseteq Tx /\ Editing' \subseteq Tx
  BY DEF Editing
<1>1. /\ galleryRequest'[t] = q /\ DOMAIN galleryRequest' = Tx
      /\ \A u \in Tx \ {t} : galleryRequest'[u] = galleryRequest[u]
      /\ \A u \in Tx \ {t} : u \in Editing' <=> u \in Editing
      /\ t \in Editing'
  BY <1>0, GalleryGo
<1>2. /\ \A i \in which : imagesHolder[i] \in {NoTx, t}
      /\ imagesDraft' = [i \in Image |-> IF i \in which THEN rows[i] ELSE imagesDraft[i]]
      /\ imagesHolder' = [i \in Image |-> IF i \in which THEN t ELSE imagesHolder[i]]
      /\ UNCHANGED <<images, files, saved, mistaken>>
  BY DEF Gallery!Put, Gallery!Free, Gallery!AtFiles
<1>3. GalleryTables'
  <2>1. imagesHolder' \in [Image -> Tx \cup {NoTx}]
    BY <1>0, <1>2 DEF GalleryInv, GalleryTables
  <2>2. \A i \in Image : "live" \in DOMAIN images'[i] /\ "live" \in DOMAIN imagesDraft'[i]
    BY <1>2 DEF GalleryInv, GalleryTables
  <2>3. Gallery!DraftsAreHeld(images, imagesDraft, imagesHolder)'
    BY <1>0, <1>2, NoTxAssumption DEF GalleryInv, GalleryTables, Gallery!DraftsAreHeld
  <2> QED BY <1>1, <1>2, <2>1, <2>2, <2>3 DEF GalleryInv, GalleryTables
<1>4. Gallery!ShownIsStored'
  BY <1>2 DEF GalleryInv, Gallery!ShownIsStored, Gallery!Shown
<1>5. \A u \in Editing' : EditFits(galleryRequest[u])'
  BY <1>0, <1>1, <1>2 DEF GalleryInv, EditFits
<1>6. NewsAreApart'
  BY <1>0, <1>1 DEF GalleryInv, NewsAreApart
<1>7. NewsAreFresh'
  <2>1. SUFFICES ASSUME NEW u \in Editing', Fresh(u)'
                 PROVE  LET i == galleryRequest'[u].new IN
                        /\ ~images[i].live
                        /\ galleryRequest'[u].stage # "clean" => i \in files
                        /\ \A w \in Editing' : ~Names(galleryRequest'[w], i)
    BY <1>2 DEF NewsAreFresh, Names
  <2> DEFINE i == galleryRequest'[u].new
  <2>2. u \in Editing /\ Fresh(u) /\ i = galleryRequest[u].new
        /\ (u # t => galleryRequest'[u] = galleryRequest[u])
    BY <1>0, <1>1, <1>2, <2>1 DEF Fresh, Writing
  <2>3. /\ ~images[i].live
        /\ galleryRequest[u].stage # "clean" => i \in files
        /\ \A w \in Editing : ~Names(galleryRequest[w], i)
    BY <2>2 DEF GalleryInv, NewsAreFresh
  <2>4. ~Names(q, i)
    BY <2>3 DEF Names
  <2>5. galleryRequest'[u].stage # "clean" => i \in files
    BY <1>0, <1>1, <2>1, <2>2, <2>3 DEF Writing
  <2> HIDE DEF i
  <2>6. \A w \in Editing' : ~Names(galleryRequest'[w], i)
    BY <1>0, <1>1, <2>3, <2>4
  <2> QED BY <2>3, <2>5, <2>6 DEF i
<1>8. DraftsAreNews'
  <2>1. SUFFICES ASSUME NEW i \in Image, imagesDraft'[i].live, ~images'[i].live
                 PROVE  \E u \in Editing' : /\ imagesHolder'[i] = u
                           /\ galleryRequest'[u].new = i /\ galleryRequest'[u].stage = "commit"
    BY DEF DraftsAreNews
  <2>2. ASSUME imagesDraft[i].live
        PROVE  /\ i \notin which
               /\ \E u \in Editing \ {t} : /\ imagesHolder[i] = u
                           /\ galleryRequest[u].new = i /\ galleryRequest[u].stage = "commit"
    <3>1. PICK u \in Editing : /\ imagesHolder[i] = u
                           /\ galleryRequest[u].new = i /\ galleryRequest[u].stage = "commit"
      BY <1>2, <2>1, <2>2 DEF GalleryInv, DraftsAreNews
    <3>2. u # t
      BY <3>1 DEF Writing
    <3> QED BY <1>0, <1>2, <3>1, <3>2, NoTxAssumption
  <2>3. CASE i \notin which
    BY <1>0, <1>1, <1>2, <2>1, <2>2, <2>3
  <2>4. CASE i \in which
    BY <1>0, <1>1, <1>2, <2>1, <2>2, <2>4
  <2> QED BY <2>3, <2>4
<1>9. DeletedAreGone'
  <2>1. SUFFICES ASSUME NEW u \in Editing', NEW i \in galleryRequest'[u].del
                 PROVE  /\ galleryRequest'[u].stage \in Writing => imagesHolder'[i] = u /\ ~imagesDraft'[i].live
                        /\ galleryRequest'[u].stage = "unlink" => ~images'[i].live
    BY DEF DeletedAreGone
  <2>2. i \in Image
    BY <1>5 DEF EditFits
  <2>3. CASE u # t
    <3>1. /\ u \in Editing /\ galleryRequest'[u] = galleryRequest[u] /\ i \in galleryRequest[u].del
          /\ galleryRequest[u].stage \in Writing => imagesHolder[i] = u /\ ~imagesDraft[i].live
          /\ galleryRequest[u].stage = "unlink" => ~images[i].live
      BY <1>0, <1>1, <2>1, <2>3 DEF GalleryInv, DeletedAreGone
    <3> QED BY <1>0, <1>2, <2>2, <2>3, <3>1, NoTxAssumption
  <2>4. CASE u = t
    <3>1. q.stage # "unlink" /\ i \in q.del
      BY <1>1, <2>4 DEF Writing
    <3>2. CASE r.stage = "delete"
      BY <1>1, <1>2, <2>2, <2>4, <3>1, <3>2
    <3>3. CASE r.stage \in Writing \ {"commit"}
      <4>1. imagesHolder[i] = t /\ ~imagesDraft[i].live
        BY <3>1, <3>3 DEF GalleryInv, DeletedAreGone
      <4>2. q.new # i
        <5>1. q.new # 0 => Fresh(t)
          BY <3>3 DEF Fresh, Writing
        <5>2. SUFFICES ASSUME q.new = i PROVE FALSE
          OBVIOUS
        <5>3. q.new # 0
          BY <2>2, <5>2, GalleryAssumption
        <5>4. ~Names(galleryRequest[t], i)
          BY <5>1, <5>2, <5>3 DEF GalleryInv, NewsAreFresh
        <5> QED BY <3>1, <5>4 DEF Names
      <4> QED BY <1>1, <1>2, <2>2, <2>4, <3>1, <4>1, <4>2
    <3> QED BY <3>2, <3>3
  <2> QED BY <2>3, <2>4
<1> QED BY <1>3, <1>4, <1>5, <1>6, <1>7, <1>8, <1>9 DEF GalleryInv
LEMMA BeginEditKeeps ==
    ASSUME GalleryInv, NEW t \in Tx, NEW del \in SUBSET Image, NEW up \in BOOLEAN, NEW plan,
           plan = Gallery!NoPlan \/ plan \in Gallery!Plans(Gallery!Shown(images) \ del, up),
           Gallery!BeginEdit(t, del, up, plan)
    PROVE  GalleryInv'
<1>1. /\ del \subseteq Gallery!Shown(images)
      /\ UNCHANGED <<images, imagesDraft, imagesHolder, files, saved, mistaken>>
  BY Zenon DEF Gallery!BeginEdit, Gallery!AtImages, Gallery!AtFiles
<1>4. PICK q : /\ Gallery!Starts(t, q) /\ DOMAIN q = GalleryFields
               /\ q.stage \in {"upload", "delete"} /\ (q.stage = "upload" <=> up)
               /\ q.del = del /\ q.up = up /\ q.plan = plan /\ q.new = 0
  <2>1. PICK covered, place :
           Gallery!Starts(t, [stage |-> IF up THEN "upload" ELSE "delete", del |-> del, up |-> up,
                              plan |-> plan, new |-> 0, covered |-> covered, place |-> place])
    BY Zenon DEF Gallery!BeginEdit
  <2> DEFINE q == [stage |-> IF up THEN "upload" ELSE "delete", del |-> del, up |-> up,
                   plan |-> plan, new |-> 0, covered |-> covered, place |-> place]
  <2>2. /\ DOMAIN q = GalleryFields
        /\ q.stage \in {"upload", "delete"} /\ (q.stage = "upload" <=> up)
        /\ q.del = del /\ q.up = up /\ q.plan = plan /\ q.new = 0
    BY DEF GalleryFields
  <2>3. Gallery!Starts(t, q)
    BY <2>1
  <2> HIDE DEF q
  <2> QED BY <2>2, <2>3
<1>2. \A i \in Gallery!Shown(images) : i \in Image /\ images[i].live /\ i \in saved
  BY DEF Gallery!Shown, GalleryInv, GalleryTables
<1>3. \A p \in DOMAIN plan : plan[p] \in Gallery!Shown(images) \/ (plan[p] = 0 /\ up)
  <2>1. CASE plan = Gallery!NoPlan
    BY <2>1 DEF Gallery!NoPlan
  <2>2. CASE plan \in Gallery!Plans(Gallery!Shown(images) \ del, up)
    <3> DEFINE all == (Gallery!Shown(images) \ del) \cup (IF up THEN {0} ELSE {})
    <3>1. all \in SUBSET (Image \cup {0})
      BY <1>2
    <3>2. plan \in Gallery!Orders(all)
      <4>1. plan \in Gallery!Arrangements[all]
        BY <2>2 DEF Gallery!Plans
      <4> HIDE DEF all
      <4>2. Gallery!Arrangements[all] = Gallery!Orders(all)
        BY <3>1 DEF Gallery!Arrangements
      <4> QED BY <4>1, <4>2
    <3> HIDE DEF all
    <3>4. \A p \in DOMAIN plan : plan[p] \in all
      BY <3>2 DEF Gallery!Orders
    <3> QED BY <3>4 DEF all
  <2> QED BY <2>1, <2>2
<1>5. EditFits(q)
  BY <1>1, <1>2, <1>3, <1>4 DEF EditFits, Writing
<1>6. q # Gallery!Idle
  BY <1>4 DEF Gallery!Idle
<1>7. \A i \in Image : Names(q, i) => images[i].live
  BY <1>1, <1>2, <1>3, <1>4, GalleryAssumption DEF Names
<1>8. t \notin Editing /\ Gallery!Go(t, q)
  BY <1>4 DEF Editing, Gallery!Starts
<1>9. q.stage \notin Writing /\ q.stage \notin {"unlink", "clean"}
  BY <1>4 DEF Writing
<1> QED BY <1>1, <1>4, <1>5, <1>6, <1>7, <1>8, <1>9, QuietEdit

LEMMA UploadKeeps == ASSUME GalleryInv, NEW t \in Tx, Gallery!Upload(t) PROVE GalleryInv'
<1> DEFINE r == galleryRequest[t]
<1>1. PICK i \in Image \ saved :
         /\ files' = files \cup {i} /\ saved' = saved \cup {i}
         /\ Gallery!Go(t, [r EXCEPT !.stage = "delete", !.new = i])
  BY DEF Gallery!Upload, Gallery!Continues
<1>0. PICK q : q = [r EXCEPT !.stage = "delete", !.new = i]
  OBVIOUS
<1>2. r.stage = "upload" /\ UNCHANGED <<images, imagesDraft, imagesHolder, mistaken>>
  BY DEF Gallery!Upload, Gallery!AtImages
<1>3. t \in Editing /\ EditFits(r) /\ Editing \subseteq Tx /\ Editing' \subseteq Tx
  BY <1>2 DEF Editing, Gallery!Idle, GalleryInv
<1>4. /\ DOMAIN q = GalleryFields /\ q.stage = "delete" /\ q.new = i
      /\ q.del = r.del /\ q.up = r.up /\ q.plan = r.plan /\ q # Gallery!Idle
  BY <1>0, <1>3 DEF EditFits, GalleryFields, Gallery!Idle
<1>5. EditFits(q)'
  BY <1>1, <1>2, <1>3, <1>4, GalleryAssumption DEF EditFits, Writing
<1>6. /\ galleryRequest'[t] = q /\ DOMAIN galleryRequest' = Tx
      /\ \A u \in Tx \ {t} : galleryRequest'[u] = galleryRequest[u]
      /\ \A u \in Tx \ {t} : u \in Editing' <=> u \in Editing
      /\ t \in Editing'
  BY <1>0, <1>1, <1>4, GalleryGo
<1>7. \A u \in Editing : EditFits(galleryRequest[u]) /\ ~Names(galleryRequest[u], i)
  BY <1>1, GalleryAssumption DEF GalleryInv, EditFits, Names
<1>8. ~images[i].live
  BY <1>1 DEF GalleryInv, GalleryTables
<1>9. GalleryTables' /\ Gallery!ShownIsStored'
  BY <1>1, <1>2, <1>6 DEF GalleryInv, GalleryTables, Gallery!DraftsAreHeld, Gallery!ShownIsStored,
     Gallery!Shown
<1>10. \A u \in Editing' : EditFits(galleryRequest[u])'
  <2>1. ASSUME NEW u \in Editing' \ {t} PROVE EditFits(galleryRequest[u])'
    BY <1>1, <1>3, <1>6, <1>7 DEF EditFits
  <2>2. EditFits(galleryRequest[t])'
    BY <1>5, <1>6 DEF EditFits
  <2> QED BY <2>1, <2>2
<1>11. NewsAreApart'
  <2>1. \A u \in Editing : galleryRequest[u].new # i
    BY <1>1, <1>7, GalleryAssumption DEF EditFits
  <2> QED BY <1>3, <1>4, <1>6, <2>1 DEF GalleryInv, NewsAreApart
<1>12. NewsAreFresh'
  <2>1. SUFFICES ASSUME NEW u \in Editing', Fresh(u)'
                 PROVE  LET j == galleryRequest'[u].new IN
                        /\ ~images[j].live
                        /\ galleryRequest'[u].stage # "clean" => j \in files'
                        /\ \A w \in Editing' : ~Names(galleryRequest'[w], j)
    BY <1>2 DEF NewsAreFresh, Names
  <2>2. \A j : Names(galleryRequest'[t], j) <=> Names(r, j)
    BY <1>4, <1>6 DEF Names
  <2>3. CASE u = t
    BY <1>1, <1>3, <1>4, <1>6, <1>7, <1>8, <2>2, <2>3
  <2>4. CASE u # t
    <3>1. u \in Editing /\ Fresh(u) /\ galleryRequest'[u] = galleryRequest[u]
      BY <1>2, <1>3, <1>6, <2>1, <2>4 DEF Fresh
    <3> DEFINE j == galleryRequest[u].new
    <3>2. /\ ~images[j].live
          /\ galleryRequest[u].stage # "clean" => j \in files
          /\ \A w \in Editing : ~Names(galleryRequest[w], j)
      BY <3>1 DEF GalleryInv, NewsAreFresh
    <3> HIDE DEF j
    <3>3. \A w \in Editing' : ~Names(galleryRequest'[w], j)
      BY <1>3, <1>6, <2>2, <3>2
    <3> QED BY <1>1, <3>1, <3>2, <3>3 DEF j
  <2> QED BY <2>3, <2>4
<1>13. DraftsAreNews'
  BY <1>2, <1>3, <1>6 DEF GalleryInv, DraftsAreNews
<1>14. DeletedAreGone'
  BY <1>2, <1>3, <1>4, <1>6 DEF GalleryInv, DeletedAreGone, Writing
<1> QED BY <1>9, <1>10, <1>11, <1>12, <1>13, <1>14 DEF GalleryInv

LEMMA DeleteImagesKeeps == ASSUME GalleryInv, NEW t \in Tx, Gallery!DeleteImages(t) PROVE GalleryInv'
<1> DEFINE r == galleryRequest[t]
           s == Gallery!AfterDelete(r)
           q == [r EXCEPT !.stage = s]
           rows == [i \in Image |-> Gallery!Nothing]
<1>1. r.stage = "delete" /\ Gallery!Put(t, r.del, rows) /\ Gallery!Go(t, q)
  BY DEF Gallery!DeleteImages, Gallery!Continues
<1>2. t \in Editing /\ EditFits(r)
  BY <1>1 DEF Editing, Gallery!Idle, GalleryInv
<1>3. s \in Writing /\ (s \in {"count", "max", "insert"} => r.up)
  BY DEF Gallery!AfterDelete, Writing
<1>4. /\ DOMAIN q = GalleryFields /\ q.stage = s
      /\ q.del = r.del /\ q.up = r.up /\ q.plan = r.plan /\ q.new = r.new
  BY <1>2 DEF EditFits, GalleryFields
<1> HIDE DEF q, s
<1>5. EditFits(q) /\ q # Gallery!Idle
  BY <1>1, <1>2, <1>3, <1>4 DEF EditFits, Writing, Gallery!Idle
<1>6. r.del \in SUBSET Image
  BY <1>2 DEF EditFits
<1>7. \A i \in r.del : "live" \in DOMAIN rows[i] /\ ~rows[i].live
  BY <1>6 DEF Gallery!Nothing
<1> HIDE DEF rows
<1> QED BY <1>1, <1>2, <1>3, <1>4, <1>5, <1>6, <1>7, PutEdit

LEMMA ClearCoversKeeps == ASSUME GalleryInv, NEW t \in Tx, Gallery!ClearCovers(t) PROVE GalleryInv'
<1> DEFINE r == galleryRequest[t]
           q == [r EXCEPT !.stage = "place"]
           rows == [i \in Image |-> [imagesDraft[i] EXCEPT !.primary = FALSE]]
           which == Gallery!Shown(Gallery!Rows(t))
<1>1. r.stage = "clear" /\ Gallery!Put(t, which, rows) /\ Gallery!Go(t, q)
  BY DEF Gallery!ClearCovers, Gallery!Continues
<1>2. t \in Editing /\ EditFits(r)
  BY <1>1 DEF Editing, Gallery!Idle, GalleryInv
<1>3. /\ DOMAIN q = GalleryFields /\ q.stage = "place"
      /\ q.del = r.del /\ q.up = r.up /\ q.plan = r.plan /\ q.new = r.new
  BY <1>2 DEF EditFits, GalleryFields
<1> HIDE DEF q
<1>4. EditFits(q) /\ q # Gallery!Idle /\ q.stage \in Writing /\ r.stage \in Writing
  BY <1>1, <1>2, <1>3 DEF EditFits, Writing, Gallery!Idle
<1>5. which \in SUBSET Image
  BY DEF Gallery!Shown
<1>6. \A i \in Image : "live" \in DOMAIN rows[i] /\ (rows[i].live => imagesDraft[i].live)
  BY DEF GalleryInv, GalleryTables
<1> HIDE DEF rows, which
<1> QED BY <1>1, <1>2, <1>3, <1>4, <1>5, <1>6, PutEdit

LEMMA PlaceImagesKeeps == ASSUME GalleryInv, NEW t \in Tx, Gallery!PlaceImages(t) PROVE GalleryInv'
<1> DEFINE r == galleryRequest[t]
           q == [r EXCEPT !.stage = "commit"]
           ids == Gallery!PlanIds(r)
           at(i) == CHOOSE p \in DOMAIN ids : ids[p] = i
           rows == [i \in Image |-> IF \E p \in DOMAIN ids : ids[p] = i
                                    THEN [live |-> TRUE, order |-> at(i) - 1, primary |-> at(i) = 1]
                                    ELSE imagesDraft[i]]
           which == {ids[p] : p \in DOMAIN ids}
<1>1. /\ r.stage = "place" /\ Gallery!Put(t, which, rows) /\ Gallery!Go(t, q)
      /\ \A p \in DOMAIN ids : ids[p] = r.new \/ imagesDraft[ids[p]].live
  BY DEF Gallery!PlaceImages, Gallery!Continues
<1>2. t \in Editing /\ EditFits(r)
  BY <1>1 DEF Editing, Gallery!Idle, GalleryInv
<1>3. /\ DOMAIN q = GalleryFields /\ q.stage = "commit"
      /\ q.del = r.del /\ q.up = r.up /\ q.plan = r.plan /\ q.new = r.new
  BY <1>2 DEF EditFits, GalleryFields
<1>4. \A p \in DOMAIN ids : ids[p] \in Image
  <2>1. DOMAIN ids = DOMAIN r.plan /\ \A p \in DOMAIN ids : ids[p] \in {r.plan[p], r.new}
    BY DEF Gallery!PlanIds
  <2>2. \A p \in DOMAIN ids : r.plan[p] = 0 => ids[p] = r.new /\ r.new # 0
    BY <1>1, <1>2, GalleryAssumption DEF Gallery!PlanIds, EditFits
  <2>3. \A p \in DOMAIN ids : r.plan[p] # 0 => ids[p] \in Image
    BY <1>2, <2>1 DEF Gallery!PlanIds, EditFits
  <2> QED BY <1>2, <2>2, <2>3 DEF EditFits
<1> HIDE DEF q
<1>5. EditFits(q) /\ q # Gallery!Idle /\ q.stage \in Writing /\ r.stage \in Writing
  BY <1>1, <1>2, <1>3 DEF EditFits, Writing, Gallery!Idle
<1>6. which \in SUBSET Image
  BY <1>4
<1>7. \A i \in which : /\ "live" \in DOMAIN rows[i]
                       /\ imagesDraft[i].live \/ (i = q.new /\ q.stage = "commit")
  BY <1>1, <1>3, <1>4
<1> HIDE DEF rows, which
<1> QED BY <1>1, <1>2, <1>3, <1>5, <1>6, <1>7, PutEdit

LEMMA InsertImageKeeps == ASSUME GalleryInv, NEW t \in Tx, Gallery!InsertImage(t) PROVE GalleryInv'
<1> DEFINE r == galleryRequest[t]
           q == [r EXCEPT !.stage = "commit"]
           rows == [i \in Image |-> [live |-> TRUE, order |-> r.place, primary |-> ~r.covered]]
<1>1. r.stage = "insert" /\ Gallery!Put(t, {r.new}, rows) /\ Gallery!Go(t, q)
  BY DEF Gallery!InsertImage, Gallery!Continues
<1>2. t \in Editing /\ EditFits(r)
  BY <1>1 DEF Editing, Gallery!Idle, GalleryInv
<1>3. /\ DOMAIN q = GalleryFields /\ q.stage = "commit"
      /\ q.del = r.del /\ q.up = r.up /\ q.plan = r.plan /\ q.new = r.new
  BY <1>2 DEF EditFits, GalleryFields
<1> HIDE DEF q
<1>4. EditFits(q) /\ q # Gallery!Idle /\ q.stage \in Writing /\ r.stage \in Writing
  BY <1>1, <1>2, <1>3 DEF EditFits, Writing, Gallery!Idle
<1>5. r.new \in Image
  BY <1>1, <1>2 DEF EditFits
<1>6. \A i \in {r.new} : "live" \in DOMAIN rows[i] /\ i = q.new
  BY <1>3, <1>5
<1> HIDE DEF rows
<1> QED BY <1>1, <1>2, <1>3, <1>4, <1>5, <1>6, PutEdit

LEMMA CountsKeep ==
    ASSUME GalleryInv, NEW t \in Tx, Gallery!CountCovers(t) \/ Gallery!FindPlace(t) PROVE GalleryInv'
<1> DEFINE r == galleryRequest[t]
<1>1. /\ r.stage \in {"count", "max"}
      /\ UNCHANGED <<images, imagesDraft, imagesHolder, files, saved, mistaken>>
  BY DEF Gallery!CountCovers, Gallery!FindPlace, Gallery!AtImages, Gallery!AtFiles
<1>3. t \in Editing /\ EditFits(r)
  BY <1>1 DEF Editing, Gallery!Idle, GalleryInv
<1>4. PICK q : /\ Gallery!Go(t, q) /\ DOMAIN q = GalleryFields /\ q.stage \in {"max", "insert"}
               /\ q.del = r.del /\ q.up = r.up /\ q.plan = r.plan /\ q.new = r.new
  <2>1. CASE Gallery!CountCovers(t)
    <3> DEFINE q == [r EXCEPT !.stage = "max", !.covered = Gallery!Covers(Gallery!Rows(t)) # {}]
    <3>1. Gallery!Go(t, q)
      BY <2>1 DEF Gallery!CountCovers, Gallery!Continues
    <3>2. /\ DOMAIN q = GalleryFields /\ q.stage \in {"max", "insert"}
          /\ q.del = r.del /\ q.up = r.up /\ q.plan = r.plan /\ q.new = r.new
      BY <1>3 DEF EditFits, GalleryFields
    <3> HIDE DEF q
    <3> QED BY <3>1, <3>2
  <2>2. CASE Gallery!FindPlace(t)
    <3> DEFINE q == [r EXCEPT !.stage = "insert", !.place = Gallery!NextPlace(Gallery!Rows(t))]
    <3>1. Gallery!Go(t, q)
      BY <2>2 DEF Gallery!FindPlace, Gallery!Continues
    <3>2. /\ DOMAIN q = GalleryFields /\ q.stage \in {"max", "insert"}
          /\ q.del = r.del /\ q.up = r.up /\ q.plan = r.plan /\ q.new = r.new
      BY <1>3 DEF EditFits, GalleryFields
    <3> HIDE DEF q
    <3> QED BY <3>1, <3>2
  <2> QED BY <2>1, <2>2
<1>6. EditFits(q) /\ q # Gallery!Idle /\ q.stage \in Writing /\ r.stage \in Writing \ {"commit"}
      /\ q.stage \notin {"unlink", "clean"}
  BY <1>1, <1>3, <1>4 DEF EditFits, Writing, Gallery!Idle
<1> QED BY <1>1, <1>3, <1>4, <1>6, QuietEdit
\* A commit, whatever its answer: rows appear, or are gone for good.
LEMMA CommittedKeeps ==
    ASSUME GalleryInv, NEW t \in Tx, galleryRequest[t].stage = "commit", Gallery!Committed(t),
           UNCHANGED <<files, saved>>, NEW s,
           \/ s = "unlink" /\ mistaken' = mistaken
           \/ s = "clean" /\ mistaken' = mistaken \cup {galleryRequest[t].new},
           Gallery!Go(t, [galleryRequest[t] EXCEPT !.stage = s])
    PROVE  GalleryInv'
<1> DEFINE r == galleryRequest[t]
<1>0. PICK q : q = [r EXCEPT !.stage = s]
  OBVIOUS
<1>1. /\ images' = [i \in Image |-> IF imagesHolder[i] = t THEN imagesDraft[i] ELSE images[i]]
      /\ imagesHolder' = [i \in Image |-> IF imagesHolder[i] = t THEN NoTx ELSE imagesHolder[i]]
      /\ imagesDraft' = imagesDraft
  <2>1. DOMAIN imagesHolder = Image
    BY DEF GalleryInv, GalleryTables
  <2> QED BY <2>1 DEF Gallery!Committed, Gallery!Rows, Gallery!View, Gallery!Unlock
<1>2. t \in Editing /\ EditFits(r) /\ Editing \subseteq Tx /\ Editing' \subseteq Tx
  BY DEF Editing, Gallery!Idle, GalleryInv
<1>3. /\ DOMAIN q = GalleryFields /\ q.stage = s /\ q # Gallery!Idle
      /\ q.del = r.del /\ q.up = r.up /\ q.plan = r.plan /\ q.new = r.new
  BY <1>0, <1>2 DEF EditFits, GalleryFields, Gallery!Idle
<1>4. EditFits(q)
  BY <1>2, <1>3 DEF EditFits
<1>5. /\ galleryRequest'[t] = q /\ DOMAIN galleryRequest' = Tx
      /\ \A u \in Tx \ {t} : galleryRequest'[u] = galleryRequest[u]
      /\ \A u \in Tx \ {t} : u \in Editing' <=> u \in Editing
      /\ t \in Editing'
  BY <1>0, <1>3, GalleryGo
\* Which rows come to light.
<1>6. \A i \in Image : images'[i].live /\ ~images[i].live => i = r.new /\ i \in files /\ Fresh(t)
  <2>1. SUFFICES ASSUME NEW i \in Image, images'[i].live, ~images[i].live
                 PROVE  i = r.new /\ i \in files /\ Fresh(t)
    OBVIOUS
  <2>2. imagesHolder[i] = t /\ imagesDraft[i].live
    BY <1>1, <2>1
  <2>3. i = r.new
    BY <2>1, <2>2 DEF GalleryInv, DraftsAreNews
  <2>4. Fresh(t)
    BY <1>2, <2>3, GalleryAssumption DEF Fresh
  <2>5. i \in files
    BY <1>2, <2>3, <2>4 DEF GalleryInv, NewsAreFresh
  <2> QED BY <2>3, <2>4, <2>5
<1>7. GalleryTables'
  <2>1. imagesHolder' \in [Image -> Tx \cup {NoTx}] /\ DOMAIN images' = Image
    BY <1>1 DEF GalleryInv, GalleryTables
  <2>2. \A i \in Image : "live" \in DOMAIN images'[i] /\ "live" \in DOMAIN imagesDraft'[i]
    BY <1>1 DEF GalleryInv, GalleryTables
  <2>3. Gallery!DraftsAreHeld(images, imagesDraft, imagesHolder)'
    BY <1>1, NoTxAssumption DEF GalleryInv, GalleryTables, Gallery!DraftsAreHeld
  <2>4. \A i \in Image : images'[i].live => i \in saved
    BY <1>2, <1>6, GalleryAssumption DEF GalleryInv, GalleryTables, EditFits
  <2> QED BY <1>1, <1>5, <2>1, <2>2, <2>3, <2>4 DEF GalleryInv, GalleryTables
<1>8. Gallery!ShownIsStored'
  BY <1>6 DEF GalleryInv, Gallery!ShownIsStored, Gallery!Shown
<1>9. \A u \in Editing' : EditFits(galleryRequest[u])'
  BY <1>2, <1>4, <1>5 DEF GalleryInv, EditFits
<1>10. NewsAreApart'
  BY <1>2, <1>3, <1>5 DEF GalleryInv, NewsAreApart
<1>11. NewsAreFresh'
  <2>1. SUFFICES ASSUME NEW u \in Editing', Fresh(u)'
                 PROVE  LET i == galleryRequest'[u].new IN
                        /\ ~images'[i].live
                        /\ galleryRequest'[u].stage # "clean" => i \in files
                        /\ \A w \in Editing' : ~Names(galleryRequest'[w], i)
    BY DEF NewsAreFresh, Names
  <2>2. u # t
    BY <1>3, <1>5, <2>1 DEF Fresh
  <2>3. u \in Editing /\ Fresh(u) /\ galleryRequest'[u] = galleryRequest[u]
    BY <1>2, <1>5, <2>1, <2>2 DEF Fresh
  <2> DEFINE i == galleryRequest[u].new
  <2>4. /\ ~images[i].live
        /\ galleryRequest[u].stage # "clean" => i \in files
        /\ \A w \in Editing : ~Names(galleryRequest[w], i)
    BY <2>3 DEF GalleryInv, NewsAreFresh
  <2>5. i \in Image /\ i # 0
    BY <2>3 DEF GalleryInv, EditFits, Fresh
  <2>6. i # r.new
    BY <1>2, <2>2, <2>3, <2>5 DEF GalleryInv, NewsAreApart
  <2>7. \A x : Names(q, x) <=> Names(r, x)
    BY <1>3 DEF Names
  <2> HIDE DEF i
  <2>8. ~images'[i].live
    BY <1>6, <2>4, <2>5, <2>6
  <2>9. \A w \in Editing' : ~Names(galleryRequest'[w], i)
    BY <1>2, <1>5, <2>4, <2>7
  <2> QED BY <2>3, <2>4, <2>8, <2>9 DEF i
<1>12. DraftsAreNews'
  <2>1. SUFFICES ASSUME NEW i \in Image, imagesDraft'[i].live, ~images'[i].live
                 PROVE  \E u \in Editing' : /\ imagesHolder'[i] = u
                           /\ galleryRequest'[u].new = i /\ galleryRequest'[u].stage = "commit"
    BY DEF DraftsAreNews
  <2>2. imagesHolder[i] # t /\ ~images[i].live /\ imagesDraft[i].live
    BY <1>1, <2>1
  <2>3. PICK u \in Editing : /\ imagesHolder[i] = u
                           /\ galleryRequest[u].new = i /\ galleryRequest[u].stage = "commit"
    BY <2>2 DEF GalleryInv, DraftsAreNews
  <2> QED BY <1>1, <1>2, <1>5, <2>2, <2>3
<1>13. DeletedAreGone'
  <2>1. SUFFICES ASSUME NEW u \in Editing', NEW i \in galleryRequest'[u].del
                 PROVE  /\ galleryRequest'[u].stage \in Writing => imagesHolder'[i] = u /\ ~imagesDraft'[i].live
                        /\ galleryRequest'[u].stage = "unlink" => ~images'[i].live
    BY DEF DeletedAreGone
  <2>2. i \in Image
    BY <1>9 DEF EditFits
  <2>3. CASE u # t
    <3>1. /\ u \in Editing /\ galleryRequest'[u] = galleryRequest[u] /\ i \in galleryRequest[u].del
          /\ galleryRequest[u].stage \in Writing => imagesHolder[i] = u /\ ~imagesDraft[i].live
          /\ galleryRequest[u].stage = "unlink" => ~images[i].live
      BY <1>2, <1>5, <2>1, <2>3 DEF GalleryInv, DeletedAreGone
    <3>2. Fresh(t) => i # r.new
      BY <3>1 DEF GalleryInv, NewsAreFresh, Names, Fresh
    <3>3. ~images[i].live => ~images'[i].live
      BY <1>6, <2>2, <3>2
    <3> QED BY <1>1, <2>2, <2>3, <3>1, <3>3
  <2>4. CASE u = t
    <3>1. i \in r.del /\ galleryRequest'[u].stage \in {"unlink", "clean"}
      BY <1>3, <1>5, <2>1, <2>4
    <3>2. imagesHolder[i] = t /\ ~imagesDraft[i].live
      BY <1>2, <3>1 DEF GalleryInv, DeletedAreGone, Writing
    <3> QED BY <1>1, <2>2, <3>1, <3>2 DEF Writing
  <2> QED BY <2>3, <2>4
<1> QED BY <1>7, <1>8, <1>9, <1>10, <1>11, <1>12, <1>13 DEF GalleryInv
\* A request that rolls back, then cleans up or dies.
LEMMA UndoneKeeps ==
    ASSUME GalleryInv, NEW t \in Editing, Gallery!Undone(t), NEW q, Gallery!Go(t, q),
           \/ q = Gallery!Idle
           \/ /\ galleryRequest[t].stage \in {"delete"} \cup Writing
              /\ q = [galleryRequest[t] EXCEPT !.stage = "clean"]
    PROVE  GalleryInv'
<1> DEFINE r == galleryRequest[t]
<1>1. /\ imagesDraft' = [i \in Image |-> IF imagesHolder[i] = t THEN images[i] ELSE imagesDraft[i]]
      /\ imagesHolder' = [i \in Image |-> IF imagesHolder[i] = t THEN NoTx ELSE imagesHolder[i]]
      /\ UNCHANGED <<images, files, saved, mistaken>>
  <2>1. DOMAIN imagesHolder = Image
    BY DEF GalleryInv, GalleryTables
  <2> QED BY <2>1 DEF Gallery!Undone, Gallery!Discard, Gallery!Unlock, Gallery!AtFiles
<1>2. t \in Tx /\ EditFits(r) /\ Editing \subseteq Tx /\ Editing' \subseteq Tx
  BY DEF Editing, GalleryInv
<1>3. q # Gallery!Idle =>
        /\ DOMAIN q = GalleryFields /\ q.stage = "clean" /\ r.stage \in {"delete"} \cup Writing
        /\ q.del = r.del /\ q.up = r.up /\ q.plan = r.plan /\ q.new = r.new
  BY <1>2 DEF EditFits, GalleryFields
<1>4. q # Gallery!Idle => EditFits(q)
  BY <1>2, <1>3 DEF EditFits, Writing
<1>5. /\ galleryRequest'[t] = q /\ DOMAIN galleryRequest' = Tx
      /\ \A u \in Tx \ {t} : galleryRequest'[u] = galleryRequest[u]
      /\ \A u \in Tx \ {t} : u \in Editing' <=> u \in Editing
      /\ t \in Editing' <=> q # Gallery!Idle
  BY <1>2, GalleryGo
<1>6. GalleryTables'
  <2>1. imagesHolder' \in [Image -> Tx \cup {NoTx}] /\ DOMAIN imagesDraft' = Image
    BY <1>1 DEF GalleryInv, GalleryTables
  <2>2. \A i \in Image : "live" \in DOMAIN images'[i] /\ "live" \in DOMAIN imagesDraft'[i]
    BY <1>1 DEF GalleryInv, GalleryTables
  <2>3. Gallery!DraftsAreHeld(images, imagesDraft, imagesHolder)'
    BY <1>1, NoTxAssumption DEF GalleryInv, GalleryTables, Gallery!DraftsAreHeld
  <2> QED BY <1>1, <1>5, <2>1, <2>2, <2>3 DEF GalleryInv, GalleryTables
<1>7. Gallery!ShownIsStored'
  BY <1>1 DEF GalleryInv, Gallery!ShownIsStored, Gallery!Shown
<1>8. \A u \in Editing' : EditFits(galleryRequest[u])'
  BY <1>1, <1>2, <1>4, <1>5 DEF GalleryInv, EditFits
<1>9. NewsAreApart'
  BY <1>2, <1>3, <1>5 DEF GalleryInv, NewsAreApart
<1>10. NewsAreFresh'
  <2>1. SUFFICES ASSUME NEW u \in Editing', Fresh(u)'
                 PROVE  LET i == galleryRequest'[u].new IN
                        /\ ~images[i].live
                        /\ galleryRequest'[u].stage # "clean" => i \in files
                        /\ \A w \in Editing' : ~Names(galleryRequest'[w], i)
    BY <1>1 DEF NewsAreFresh, Names
  <2> DEFINE i == galleryRequest'[u].new
  <2>2. /\ u \in Editing /\ Fresh(u) /\ i = galleryRequest[u].new
        /\ galleryRequest'[u].stage # "clean" => galleryRequest[u].stage # "clean"
    BY <1>1, <1>2, <1>3, <1>5, <2>1 DEF Fresh, Writing
  <2>3. /\ ~images[i].live
        /\ galleryRequest[u].stage # "clean" => i \in files
        /\ \A w \in Editing : ~Names(galleryRequest[w], i)
    BY <2>2 DEF GalleryInv, NewsAreFresh
  <2>4. \A x : q # Gallery!Idle => (Names(q, x) <=> Names(r, x))
    BY <1>3 DEF Names
  <2> HIDE DEF i
  <2>5. \A w \in Editing' : ~Names(galleryRequest'[w], i)
    BY <1>2, <1>5, <2>3, <2>4
  <2> QED BY <2>2, <2>3, <2>5 DEF i
<1>11. DraftsAreNews'
  <2>1. SUFFICES ASSUME NEW i \in Image, imagesDraft'[i].live, ~images[i].live
                 PROVE  \E u \in Editing' : /\ imagesHolder'[i] = u
                           /\ galleryRequest'[u].new = i /\ galleryRequest'[u].stage = "commit"
    BY <1>1 DEF DraftsAreNews
  <2>2. imagesHolder[i] # t /\ imagesDraft[i].live
    BY <1>1, <2>1
  <2>3. PICK u \in Editing : /\ imagesHolder[i] = u
                           /\ galleryRequest[u].new = i /\ galleryRequest[u].stage = "commit"
    BY <2>1, <2>2 DEF GalleryInv, DraftsAreNews
  <2> QED BY <1>1, <1>2, <1>5, <2>2, <2>3
<1>12. DeletedAreGone'
  <2>1. SUFFICES ASSUME NEW u \in Editing', NEW i \in galleryRequest'[u].del
                 PROVE  /\ galleryRequest'[u].stage \in Writing => imagesHolder'[i] = u /\ ~imagesDraft'[i].live
                        /\ galleryRequest'[u].stage = "unlink" => ~images[i].live
    BY <1>1 DEF DeletedAreGone
  <2>2. i \in Image
    BY <1>8 DEF EditFits
  <2>3. CASE u # t
    <3>1. /\ u \in Editing /\ galleryRequest'[u] = galleryRequest[u] /\ i \in galleryRequest[u].del
          /\ galleryRequest[u].stage \in Writing => imagesHolder[i] = u /\ ~imagesDraft[i].live
          /\ galleryRequest[u].stage = "unlink" => ~images[i].live
      BY <1>2, <1>5, <2>1, <2>3 DEF GalleryInv, DeletedAreGone
    <3> QED BY <1>1, <2>2, <2>3, <3>1
  <2>4. CASE u = t
    BY <1>3, <1>5, <2>1, <2>4 DEF Writing
  <2> QED BY <2>3, <2>4
<1> QED BY <1>6, <1>7, <1>8, <1>9, <1>10, <1>11, <1>12 DEF GalleryInv

\* The files of rows that are gone, or of an upload nobody will see.
LEMMA UnlinkKeeps == ASSUME GalleryInv, NEW t \in Tx, Gallery!UnlinkFiles(t) PROVE GalleryInv'
<1> DEFINE r == galleryRequest[t]
           gone == IF r.stage = "unlink" THEN r.del ELSE {r.new}
<1>1. /\ r.stage \in {"unlink", "clean"} /\ files' = files \ gone /\ Gallery!Go(t, Gallery!Idle)
      /\ UNCHANGED <<images, imagesDraft, imagesHolder, saved, mistaken>>
  BY DEF Gallery!UnlinkFiles, Gallery!LeftOver, Gallery!Ends, Gallery!AtImages
<1>2. t \in Editing /\ EditFits(r) /\ Editing \subseteq Tx /\ Editing' \subseteq Tx
  BY <1>1 DEF Editing, Gallery!Idle, GalleryInv
<1>3. /\ DOMAIN galleryRequest' = Tx /\ t \notin Editing'
      /\ \A u \in Tx \ {t} : galleryRequest'[u] = galleryRequest[u]
      /\ \A u \in Tx \ {t} : u \in Editing' <=> u \in Editing
  BY <1>1, GalleryGo
<1>4. \A i \in Image : i \in gone => ~images[i].live \/ i \in mistaken
  <2>1. SUFFICES ASSUME NEW i \in Image, i \in gone PROVE ~images[i].live \/ i \in mistaken
    OBVIOUS
  <2>2. CASE r.stage = "unlink"
    BY <1>2, <2>1, <2>2 DEF GalleryInv, DeletedAreGone
  <2>3. CASE r.stage = "clean"
    <3>1. i = r.new /\ r.new # 0
      BY <2>1, <2>3, GalleryAssumption
    <3>2. i \notin mistaken => Fresh(t)
      BY <1>2, <2>3, <3>1 DEF Fresh
    <3> QED BY <1>2, <3>1, <3>2 DEF GalleryInv, NewsAreFresh
  <2> QED BY <1>1, <2>2, <2>3
<1>5. Gallery!ShownIsStored'
  BY <1>1, <1>4 DEF GalleryInv, Gallery!ShownIsStored, Gallery!Shown
<1>6. GalleryTables'
  BY <1>1, <1>3 DEF GalleryInv, GalleryTables, Gallery!DraftsAreHeld
<1>7. \A u \in Editing' : EditFits(galleryRequest[u])'
  BY <1>1, <1>2, <1>3 DEF GalleryInv, EditFits
<1>8. NewsAreApart'
  BY <1>2, <1>3 DEF GalleryInv, NewsAreApart
<1>9. NewsAreFresh'
  <2>1. SUFFICES ASSUME NEW u \in Editing', Fresh(u)'
                 PROVE  LET i == galleryRequest'[u].new IN
                        /\ ~images[i].live
                        /\ galleryRequest'[u].stage # "clean" => i \in files'
                        /\ \A w \in Editing' : ~Names(galleryRequest'[w], i)
    BY <1>1 DEF NewsAreFresh, Names
  <2>2. u # t /\ u \in Editing /\ Fresh(u) /\ galleryRequest'[u] = galleryRequest[u]
    BY <1>1, <1>2, <1>3, <2>1 DEF Fresh
  <2> DEFINE i == galleryRequest[u].new
  <2>3. /\ ~images[i].live
        /\ galleryRequest[u].stage # "clean" => i \in files
        /\ \A w \in Editing : ~Names(galleryRequest[w], i)
    BY <2>2 DEF GalleryInv, NewsAreFresh
  <2>4. i \notin gone
    <3>1. i # r.new
      BY <1>2, <2>2 DEF GalleryInv, NewsAreApart, Fresh
    <3>2. i \notin r.del
      BY <1>2, <2>3 DEF Names
    <3> QED BY <3>1, <3>2
  <2> HIDE DEF i
  <2>5. \A w \in Editing' : ~Names(galleryRequest'[w], i)
    BY <1>2, <1>3, <2>3
  <2> QED BY <1>1, <2>2, <2>3, <2>4, <2>5 DEF i
<1>10. DraftsAreNews'
  <2>1. SUFFICES ASSUME NEW i \in Image, imagesDraft[i].live, ~images[i].live
                 PROVE  \E u \in Editing' : /\ imagesHolder[i] = u
                           /\ galleryRequest'[u].new = i /\ galleryRequest'[u].stage = "commit"
    BY <1>1 DEF DraftsAreNews
  <2>2. PICK u \in Editing : /\ imagesHolder[i] = u
                           /\ galleryRequest[u].new = i /\ galleryRequest[u].stage = "commit"
    BY <2>1 DEF GalleryInv, DraftsAreNews
  <2>3. u # t
    BY <1>1, <2>2
  <2> QED BY <1>2, <1>3, <2>2, <2>3
<1>11. DeletedAreGone'
  BY <1>1, <1>2, <1>3 DEF GalleryInv, DeletedAreGone
<1> QED BY <1>5, <1>6, <1>7, <1>8, <1>9, <1>10, <1>11 DEF GalleryInv

\* The rows, the files and what the edits carry agree in every state.
LEMMA GalleryHolds == Gallery!GallerySpec => []GalleryInv
<1>1. Gallery!GalleryInit => GalleryInv
  <2> SUFFICES ASSUME Gallery!GalleryInit PROVE GalleryInv
    OBVIOUS
  <2>1. /\ imagesDraft = images /\ imagesHolder = [i \in Image |-> NoTx]
        /\ files = 1..FirstImages /\ saved = files
        /\ galleryRequest = [t \in Tx |-> Gallery!Idle]
    BY DEF Gallery!GalleryInit
  <2>2. /\ DOMAIN images = Image
        /\ \A i \in Image : "live" \in DOMAIN images[i] /\ (images[i].live => i \in 1..FirstImages)
    BY DEF Gallery!GalleryInit, Gallery!Nothing
  <2>3. Editing = {}
    BY <2>1 DEF Editing
  <2>4. GalleryTables
    BY <2>1, <2>2 DEF GalleryTables, Gallery!DraftsAreHeld
  <2>5. Gallery!ShownIsStored
    BY <2>1, <2>2 DEF Gallery!ShownIsStored, Gallery!Shown
  <2>6. NewsAreApart /\ NewsAreFresh /\ DraftsAreNews /\ DeletedAreGone
    BY <2>1, <2>3 DEF NewsAreApart, NewsAreFresh, DraftsAreNews, DeletedAreGone
  <2> QED BY <2>3, <2>4, <2>5, <2>6 DEF GalleryInv
<1>2. GalleryInv /\ [Gallery!GalleryNext]_(Gallery!galleryVars) => GalleryInv'
  <2> SUFFICES ASSUME GalleryInv, [Gallery!GalleryNext]_(Gallery!galleryVars) PROVE GalleryInv'
    OBVIOUS
  <2>1. CASE UNCHANGED Gallery!galleryVars
    <3>1. UNCHANGED <<images, imagesDraft, imagesHolder, files, saved, mistaken, galleryRequest>>
      BY <2>1 DEF Gallery!galleryVars, Gallery!AtImages, Gallery!AtFiles
    <3>2. GalleryTables' /\ Gallery!ShownIsStored'
      BY <3>1 DEF GalleryInv, GalleryTables, Gallery!DraftsAreHeld, Gallery!ShownIsStored, Gallery!Shown
    <3>3. Editing' = Editing
      BY <3>1 DEF Editing
    <3>4. \A u \in Editing' : EditFits(galleryRequest[u])'
      BY <3>1, <3>3 DEF GalleryInv, EditFits
    <3>5. NewsAreApart' /\ DraftsAreNews' /\ DeletedAreGone'
      BY <3>1, <3>3 DEF GalleryInv, NewsAreApart, DraftsAreNews, DeletedAreGone
    <3>6. NewsAreFresh'
      BY <3>1, <3>3 DEF GalleryInv, NewsAreFresh, Fresh, Names
    <3> QED BY <3>2, <3>4, <3>5, <3>6 DEF GalleryInv
  <2>2. ASSUME NEW t \in Tx, Gallery!Ask(t) PROVE GalleryInv'
    <3>1. PICK del \in SUBSET Gallery!Shown(images), up \in BOOLEAN :
             \E plan \in {Gallery!NoPlan} \cup Gallery!Plans(Gallery!Shown(images) \ del, up) :
                Gallery!BeginEdit(t, del, up, plan)
      BY <2>2 DEF Gallery!Ask
    <3>2. del \in SUBSET Image
      BY DEF Gallery!Shown
    <3> QED BY <3>1, <3>2, BeginEditKeeps
  <2>3. ASSUME NEW t \in Tx, Gallery!Serve(t) PROVE GalleryInv'
    <3> DEFINE r == galleryRequest[t]
    <3>1. CASE Gallery!Upload(t) \/ Gallery!DeleteImages(t) \/ Gallery!ClearCovers(t)
               \/ Gallery!PlaceImages(t) \/ Gallery!CountCovers(t) \/ Gallery!FindPlace(t)
               \/ Gallery!InsertImage(t) \/ Gallery!UnlinkFiles(t)
      BY <3>1, UploadKeeps, DeleteImagesKeeps, ClearCoversKeeps, PlaceImagesKeeps, CountsKeep,
         InsertImageKeeps, UnlinkKeeps
    <3>2. CASE Gallery!Commit(t)
      <4>1. /\ r.stage = "commit" /\ Gallery!Committed(t) /\ UNCHANGED <<files, saved, mistaken>>
            /\ Gallery!Go(t, [r EXCEPT !.stage = "unlink"])
        BY <3>2 DEF Gallery!Commit, Gallery!Continues, Gallery!AtFiles
      <4> QED BY <4>1, CommittedKeeps
    <3>3. CASE Gallery!Mistaken(t)
      <4>1. /\ r.stage = "commit" /\ Gallery!Committed(t) /\ UNCHANGED <<files, saved>>
            /\ mistaken' = mistaken \cup {r.new}
            /\ Gallery!Go(t, [r EXCEPT !.stage = "clean"])
        BY <3>3 DEF Gallery!Mistaken, Gallery!Continues
      <4> QED BY <4>1, CommittedKeeps
    <3>4. CASE Gallery!Fails(t)
      <4>1. /\ r.stage \notin {"idle", "upload", "unlink", "clean"} /\ Gallery!Undone(t)
            /\ Gallery!Go(t, [r EXCEPT !.stage = "clean"])
        BY <3>4 DEF Gallery!Fails, Gallery!Continues
      <4>2. t \in Editing /\ EditFits(r)
        BY <4>1 DEF Editing, Gallery!Idle, GalleryInv
      <4>3. r.stage \in {"delete"} \cup Writing
        BY <4>1, <4>2 DEF EditFits
      <4> QED BY <4>1, <4>2, <4>3, UndoneKeeps
    <3>5. CASE Gallery!Crash(t)
      <4>1. t \in Editing /\ Gallery!Undone(t) /\ Gallery!Go(t, Gallery!Idle)
        BY <3>5 DEF Gallery!Crash, Gallery!Ends, Editing
      <4> QED BY <4>1, UndoneKeeps
    <3> QED BY <2>3, <3>1, <3>2, <3>3, <3>4, <3>5 DEF Gallery!Serve
  <2> QED BY <2>1, <2>2, <2>3 DEF Gallery!GalleryNext
<1> QED BY <1>1, <1>2, PTL DEF Gallery!GallerySpec

\* No image is ever shown whose file is not on the disk, but for an upload whose
\* commit the server took for failed: an edit unlinks only after its commit, and
\* cleans up only what it alone uploaded (ProductService, ComboProductService,
\* LocalStorageService), for any number of images and overlapping edits.
THEOREM ImagesAreStored == Gallery!GallerySpec => []ShownIsStored
<1>1. GalleryInv => ShownIsStored
  BY DEF GalleryInv, ShownIsStored
<1> QED BY <1>1, GalleryHolds, PTL

-----------------------------------------------------------------------------
(* The price tag.                                                          *)

\* The base price a request computes with: its own, or the row's.
BaseOf(r) == Tag!Either(r.base, Tag!Read(tag.base))

\* The price a request will write, from the row as it is now.
Follows(r) == r.fields.sale \in Tag!SalePrices(BaseOf(r), r.fields.type, r.fields.value)

TagTypeOK ==
    /\ tag.base \in Nat
    /\ tag.value \in Nat \cup {NoValue}
    /\ \A t \in Tx : tagRequest[t] # Idle =>
          /\ tagRequest[t].base \in Nat \cup {Unsaid}
          /\ tagRequest[t].fields.value \in Nat \cup {NoValue}

\* Nobody has touched the row since a lone edit derived its price.
LoneTagInv ==
    /\ TagTypeOK
    /\ Histories(tagRequest, tagAlone)
    /\ LoneIsLone(tagRequest, tagAlone)
    /\ \A t \in Tx : tagAlone[t] => Follows(tagRequest[t])

-----------------------------------------------------------------------------
(* The columns.                                                            *)

\* A column is off by half at most, and keeps what was in hundredths.
LEMMA StoredIsNear ==
    ASSUME NEW x \in Nat
    PROVE  /\ Tag!Stored(x) \in Nat
           /\ 2 * (Tag!Stored(x) * Fine - x) \in -Fine .. Fine
<1>1. x # NoValue /\ Fine \in Nat /\ Fine > 0
  BY TagAssumption
<1>2. PICK d \in Nat : d = 2 * Fine /\ d > 0
  BY <1>1
<1>3. PICK n \in Nat : n = 2 * x + Fine
  BY <1>1
<1>4. PICK q \in Nat : q = n \div d
  BY <1>2
<1>5. q * d <= n /\ n < q * d + d
  BY <1>2, <1>4
<1>6. Tag!Stored(x) = q
  BY <1>1, <1>2, <1>3, <1>4 DEF Tag!Stored
<1>7. q * d = 2 * (q * Fine)
  BY <1>1, <1>2
<1>8. PICK p \in Nat : p = q * Fine
  BY <1>1
<1> QED BY <1>1, <1>2, <1>3, <1>5, <1>6, <1>7, <1>8

LEMMA StoredIsKept ==
    ASSUME NEW x \in Nat, x % Fine = 0
    PROVE  Tag!Stored(x) * Fine = x
<1>1. Fine \in Nat /\ Fine > 0
  BY TagAssumption
<1>2. PICK k \in Nat : x = k * Fine
  <2>1. x \div Fine \in Nat /\ x = (x \div Fine) * Fine
    BY <1>1
  <2> QED BY <2>1
<1>3. x = k * Fine
  BY <1>2
<1>4. PICK s \in Nat : s = Tag!Stored(x) /\ 2 * (s * Fine - x) \in -Fine .. Fine
  BY StoredIsNear
<1>5. 2 * ((s - k) * Fine) \in -Fine .. Fine
  <2>1. (s - k) * Fine = s * Fine - k * Fine
    BY <1>1
  <2> QED BY <2>1, <1>3, <1>4
<1>6. s - k \notin Nat \ {0}
  <2> SUFFICES ASSUME s - k >= 1 PROVE FALSE
    BY <1>4
  <2>1. (s - k) * Fine >= Fine
    BY <1>1, <1>4, <1>2
  <2> QED BY <2>1, <1>1, <1>4, <1>5, <1>2
<1>7. k - s \notin Nat \ {0}
  <2> SUFFICES ASSUME k - s >= 1 PROVE FALSE
    BY <1>4
  <2>1. (k - s) * Fine >= Fine
    BY <1>1, <1>4, <1>2
  <2>2. (s - k) * Fine <= -Fine
    BY <2>1, <1>1, <1>2, <1>4
  <2> QED BY <2>2, <1>1, <1>4, <1>5, <1>2
<1> QED BY <1>2, <1>3, <1>4, <1>6, <1>7

LEMMA ReadIsKept == ASSUME NEW n \in Nat PROVE Tag!Read(n) \in Nat /\ Tag!Stored(Tag!Read(n)) = n
<1>1. Fine \in Nat /\ Fine > 0 /\ n # NoValue
  BY TagAssumption
<1>2. Tag!Read(n) = n * Fine /\ n * Fine \in Nat
  BY <1>1 DEF Tag!Read
<1>3. (n * Fine) % Fine = 0
  BY <1>1
<1>4. Tag!Stored(n * Fine) * Fine = n * Fine
  BY <1>2, <1>3, StoredIsKept
<1>5. PICK s \in Nat : s = Tag!Stored(n * Fine)
  BY <1>2, StoredIsNear
<1>6. s * Fine = n * Fine => s = n
  BY <1>1
<1> QED BY <1>2, <1>4, <1>5, <1>6

LEMMA HundredthsAreKept ==
    ASSUME NEW x \in Nat \cup {NoValue}, x # NoValue => x % Fine = 0
    PROVE  Tag!Read(Tag!Stored(x)) = x
<1>1. CASE x = NoValue
  BY <1>1 DEF Tag!Read, Tag!Stored
<1>2. CASE x \in Nat
  <2>1. Tag!Stored(x) \in Nat /\ Tag!Stored(x) * Fine = x
    BY <1>2, TagAssumption, StoredIsNear, StoredIsKept
  <2> QED BY <2>1, TagAssumption DEF Tag!Read
<1> QED BY <1>1, <1>2

-----------------------------------------------------------------------------
(* The distance between the price that was derived and the one the stored  *)
(* row gives.                                                              *)

LEMMA PriceIsNear ==
    ASSUME NEW n \in Nat, NEW d \in Nat, d > 0, NEW s \in Tag!Rounded(n, d)
    PROVE  s \in Nat /\ 2 * (s * d - n) \in -d .. d
BY DEF Tag!Rounded

LEMMA ScaledBound ==
    ASSUME NEW e \in Int, NEW f \in Nat, 2 * e \in -f .. f, NEW p \in Nat
    PROVE  2 * (e * p) \in -(f * p) .. (f * p)
<1>1. (2 * e) * p <= f * p
  OBVIOUS
<1>2. (-f) * p <= (2 * e) * p
  OBVIOUS
<1>3. (2 * e) * p = 2 * (e * p) /\ (-f) * p = -(f * p)
  OBVIOUS
<1> QED BY <1>1, <1>2, <1>3

LEMMA FixedIsNear ==
    ASSUME NEW b \in Nat, NEW v \in Nat, v <= b, NEW s \in Tag!Rounded(b - v, Fine)
    PROVE  s - (Tag!Stored(b) - Tag!Stored(v)) \in -1 .. 1
<1>1. Fine \in Nat /\ Fine > 0
  BY TagAssumption
<1>2. s \in Nat /\ 2 * (s * Fine - (b - v)) \in -Fine .. Fine
  BY <1>1, PriceIsNear
<1>3. PICK x \in Nat : x = Tag!Stored(b) /\ 2 * (x * Fine - b) \in -Fine .. Fine
  BY StoredIsNear
<1>4. PICK y \in Nat : y = Tag!Stored(v) /\ 2 * (y * Fine - v) \in -Fine .. Fine
  BY StoredIsNear
<1>5. PICK z \in Int : z = s - (x - y)
  BY <1>2
<1>6. z * Fine = s * Fine - x * Fine + y * Fine
  BY <1>1, <1>2, <1>5
<1>7. 2 * (z * Fine) \in -3 * Fine .. 3 * Fine
  <2>1. PICK i \in Int, j \in Int, k \in Int : i = s * Fine /\ j = x * Fine /\ k = y * Fine
    BY <1>1, <1>2
  <2> QED BY <2>1, <1>1, <1>2, <1>3, <1>4, <1>6
<1>8. ~(z >= 2)
  <2> SUFFICES ASSUME z >= 2 PROVE FALSE
    OBVIOUS
  <2>1. z * Fine >= 2 * Fine
    BY <1>1
  <2> QED BY <2>1, <1>1, <1>7
<1>9. ~(z <= -2)
  <2> SUFFICES ASSUME z <= -2 PROVE FALSE
    OBVIOUS
  <2>1. z * Fine <= (-2) * Fine
    BY <1>1
  <2> QED BY <2>1, <1>1, <1>7
<1>10. z \in -1 .. 1
  BY <1>8, <1>9
<1>11. Tag!Stored(b) = x /\ Tag!Stored(v) = y
  BY <1>3, <1>4
<1> QED BY <1>5, <1>10, <1>11

LEMMA PercentageIsNear ==
    ASSUME NEW b \in Nat, NEW v \in Nat, v <= Tag!Whole,
           NEW s \in Tag!Rounded(b * (Tag!Whole - v), Tag!Whole * Fine)
    PROVE  2 * (10000 * s - Tag!Stored(b) * (10000 - Tag!Stored(v)))
               \in -(20000 + Tag!Stored(b)) .. (20000 + Tag!Stored(b))
<1>1. Fine \in Nat /\ Fine > 0
  BY TagAssumption
<1>2. PICK w \in Nat : w = Tag!Whole /\ w = 10000 * Fine /\ w > 0
  BY <1>1 DEF Tag!Whole
<1>3. PICK p \in Nat : p = w - v /\ p <= w
  BY <1>2
<1>4. PICK d \in Nat : d = w * Fine /\ d > 0
  BY <1>1, <1>2
<1>5. PICK n \in Nat : n = b * p
  BY <1>3
<1>6. s \in Nat /\ 2 * (s * d - n) \in -d .. d
  BY <1>2, <1>3, <1>4, <1>5, PriceIsNear
<1>7. PICK x \in Nat : x = Tag!Stored(b) /\ 2 * (x * Fine - b) \in -Fine .. Fine
  BY StoredIsNear
<1>8. PICK y \in Nat : y = Tag!Stored(v) /\ 2 * (y * Fine - v) \in -Fine .. Fine
  BY StoredIsNear
<1>9. PICK e \in Int : e = x * Fine - b /\ 2 * e \in -Fine .. Fine
  BY <1>1, <1>7
<1>10. PICK g \in Int : g = y * Fine - v /\ 2 * g \in -Fine .. Fine
  BY <1>1, <1>8
<1>11. PICK h \in Nat : h = x * Fine
  BY <1>1
<1>12. 2 * (e * p) \in -(Fine * p) .. (Fine * p) /\ Fine * p <= d
  <2>1. Fine * p <= Fine * w
    BY <1>1, <1>2, <1>3
  <2> QED BY <2>1, <1>1, <1>2, <1>3, <1>4, <1>9, ScaledBound
<1>13. 2 * (g * h) \in -(Fine * h) .. (Fine * h)
  BY <1>1, <1>10, <1>11, ScaledBound
<1>14. PICK z \in Int : z = 10000 * s - x * (10000 - y)
  <2>1. 10000 * s \in Int /\ x * (10000 - y) \in Int
    BY <1>6
  <2>2. 10000 * s - x * (10000 - y) \in Int
    BY <2>1
  <2> QED BY <2>2
\* Everything times Fine squared.
<1>15. z * (Fine * Fine) = (s * d - n) - e * p + h * g
  <2>1. (10000 * s) * (Fine * Fine) = s * d
    BY <1>1, <1>2, <1>4, <1>6
  <2>2. (x * (10000 - y)) * (Fine * Fine) = h * (w - y * Fine)
    BY <1>1, <1>2, <1>11
  <2>3. w - y * Fine = p - g
    BY <1>1, <1>2, <1>3, <1>10
  <2>4. h * (p - g) = h * p - h * g
    BY <1>3, <1>10, <1>11
  <2>5. h * p = n + e * p
    <3>1. h = b + e
      BY <1>9, <1>11
    <3> QED BY <3>1, <1>3, <1>5, <1>9
  <2>6. z * (Fine * Fine) = (10000 * s) * (Fine * Fine) - (x * (10000 - y)) * (Fine * Fine)
    <3>1. PICK i \in Int, j \in Int, k \in Int :
              i = 10000 * s /\ j = x * (10000 - y) /\ k = Fine * Fine
      BY <1>1, <1>6
    <3>2. (i - j) * k = i * k - j * k
      OBVIOUS
    <3> QED BY <3>1, <3>2, <1>14
  <2>7. s * d \in Int /\ h * p \in Int /\ h * g \in Int /\ e * p \in Int
    BY <1>6
  <2>8. z * (Fine * Fine) = s * d - (h * p - h * g)
    BY <2>1, <2>2, <2>3, <2>4, <2>6
  <2>9. z * (Fine * Fine) = s * d - ((n + e * p) - h * g)
    BY <2>5, <2>8
  <2>10. \A i1, i2, i3, i4 \in Int : i1 - ((i2 + i3) - i4) = (i1 - i2) - i3 + i4
    OBVIOUS
  <2>11. n \in Int
    OBVIOUS
  <2> QED BY <2>7, <2>9, <2>10, <2>11
<1>16. Fine * h = x * (Fine * Fine) /\ d = 10000 * (Fine * Fine)
  BY <1>1, <1>2, <1>4, <1>11
<1>17. PICK f \in Nat : f = Fine * Fine /\ f > 0
  BY <1>1
<1>18. 2 * (z * f) \in -((20000 + x) * f) .. ((20000 + x) * f)
  <2>1. PICK i1 \in Int, i2 \in Int, i3 \in Int, i4 \in Int, i5 \in Int :
            i1 = s * d - n /\ i2 = e * p /\ i3 = g * h /\ i4 = Fine * p /\ i5 = x * f
    BY <1>1, <1>3, <1>4, <1>6, <1>9, <1>10, <1>11, <1>17
  <2>2. g * h = h * g
    BY <1>10, <1>11
  <2>3. z * f = i1 - i2 + i3
    BY <2>1, <2>2, <1>15, <1>17
  <2>4. (20000 + x) * f = 20000 * f + i5
    BY <2>1, <1>17
  <2>5. 2 * i1 \in -(10000 * f) .. (10000 * f) /\ 2 * i2 \in -i4 .. i4 /\ i4 <= 10000 * f
        /\ 2 * i3 \in -i5 .. i5
    BY <2>1, <1>6, <1>12, <1>13, <1>16, <1>17
  <2> QED BY <2>1, <2>3, <2>4, <2>5, <1>17
<1>19. PICK m \in Nat : m = 20000 + x
  OBVIOUS
<1>20. ~(2 * z > m)
  <2> SUFFICES ASSUME 2 * z >= m + 1 PROVE FALSE
    BY <1>19
  <2>1. (2 * z) * f >= (m + 1) * f
    BY <1>17
  <2>2. (2 * z) * f = 2 * (z * f) /\ (m + 1) * f = m * f + f
    BY <1>17
  <2> QED BY <2>1, <2>2, <1>17, <1>18, <1>19
<1>21. ~(2 * z < -m)
  <2> SUFFICES ASSUME 2 * z <= -m - 1 PROVE FALSE
    BY <1>19
  <2>1. (2 * z) * f <= (-m - 1) * f
    BY <1>17
  <2>2. (2 * z) * f = 2 * (z * f) /\ (-m - 1) * f = -(m * f) - f
    BY <1>17
  <2> QED BY <2>1, <2>2, <1>17, <1>18, <1>19
<1> QED BY <1>7, <1>8, <1>14, <1>19, <1>20, <1>21

-----------------------------------------------------------------------------
\* What a request computes with is a number, and the columns round it.
LEMMA BaseIsStored ==
    ASSUME TagTypeOK, NEW t \in Tx, tagRequest[t] # Idle
    PROVE  /\ BaseOf(tagRequest[t]) \in Nat
           /\ Tag!Tagged(t).base = Tag!Stored(BaseOf(tagRequest[t]))
           /\ Tag!InHundredths(tagRequest[t]) => BaseOf(tagRequest[t]) % Fine = 0
<1>1. tag.base \in Nat /\ tagRequest[t].base \in Nat \cup {Unsaid}
  BY DEF TagTypeOK
<1>2. CASE tagRequest[t].base = Unsaid
  <2>1. BaseOf(tagRequest[t]) = Tag!Read(tag.base) /\ Tag!Tagged(t).base = tag.base
    BY <1>2 DEF BaseOf, Tag!Either, Tag!Tagged
  <2>2. Tag!Read(tag.base) % Fine = 0
    <3>1. Tag!Read(tag.base) = tag.base * Fine /\ Fine \in Nat /\ Fine > 0
      BY <1>1, TagAssumption DEF Tag!Read
    <3>2. (tag.base * Fine) % Fine = 0
      BY <1>1, <3>1
    <3> QED BY <3>1, <3>2
  <2> QED BY <1>1, <2>1, <2>2, ReadIsKept
<1>3. CASE tagRequest[t].base # Unsaid
  <2>1. /\ BaseOf(tagRequest[t]) = tagRequest[t].base
        /\ Tag!Tagged(t).base = Tag!Stored(tagRequest[t].base)
    BY <1>3 DEF BaseOf, Tag!Either, Tag!Tagged
  <2> QED BY <1>1, <1>3, <2>1 DEF Tag!InHundredths
<1> QED BY <1>2, <1>3

LEMMA TagTypeStep ==
    ASSUME TagTypeOK, Histories(tagRequest, tagAlone), [Tag!TagNext]_(Tag!tagVars)
    PROVE  TagTypeOK'
<1>1. ASSUME NEW t \in Tx, Tag!Ask(t)
      PROVE  TagTypeOK'
  <2>1. PICK body \in Tag!Body : Tag!BeginPricing(t, body)
    BY <1>1 DEF Tag!Ask
  <2>2. PICK fields \in Tag!PricingFields(body, tag) :
            Tag!Starts(t, [stage |-> "write", base |-> body.base, fields |-> fields])
    BY <2>1 DEF Tag!BeginPricing
  <2>3. PICK r : r = [stage |-> "write", base |-> body.base, fields |-> fields]
    OBVIOUS
  <2>4. tagRequest' = [tagRequest EXCEPT ![t] = r] /\ tag' = tag
    BY <2>1, <2>2, <2>3 DEF Tag!Starts, Tag!Go, Tag!BeginPricing, Tag!AtTag
  <2>5. body.base \in Nat \cup {Unsaid} /\ body.value \in Nat \cup {Unsaid}
    BY TagAssumption DEF Tag!Body
  <2>6. Tag!Read(tag.value) \in Nat \cup {NoValue}
    <3>1. CASE tag.value = NoValue
      BY <3>1 DEF Tag!Read
    <3>2. CASE tag.value \in Nat
      BY <3>2, ReadIsKept
    <3> QED BY <3>1, <3>2 DEF TagTypeOK
  <2>7. fields.value \in Nat \cup {NoValue}
    BY <2>5, <2>6 DEF Tag!PricingFields, Tag!Either
  <2>8. r.base \in Nat \cup {Unsaid} /\ r.fields.value \in Nat \cup {NoValue}
    BY <2>3, <2>5, <2>7
  <2>9. tagRequest'[t] = r /\ \A u \in Tx \ {t} : tagRequest'[u] = tagRequest[u]
    BY <2>4 DEF Histories
  <2> QED BY <2>4, <2>8, <2>9 DEF TagTypeOK
<1>2. ASSUME NEW t \in Tx, Tag!Serve(t)
      PROVE  TagTypeOK'
  <2>1. tagRequest[t] # Idle /\ tagRequest' = [tagRequest EXCEPT ![t] = Idle]
    BY <1>2 DEF Tag!Serve, Tag!WritePrice, Tag!Drop, Tag!Ends, Tag!Go, Tag!Active, Tag!Idle, Idle
  <2>2. tagRequest'[t] = Idle /\ \A u \in Tx \ {t} : tagRequest'[u] = tagRequest[u]
    BY <2>1 DEF Histories
  <2>3. tag'.base \in Nat /\ tag'.value \in Nat \cup {NoValue}
    <3>1. CASE Tag!WritePrice(t)
      <4>1. tag' = Tag!Tagged(t) /\ tagRequest[t].fields.value \in Nat \cup {NoValue}
        BY <3>1, <2>1 DEF Tag!WritePrice, TagTypeOK
      <4>2. tag'.base \in Nat
        BY <4>1, <2>1, BaseIsStored, StoredIsNear
      <4>3. tag'.value = Tag!Stored(tagRequest[t].fields.value)
        BY <4>1 DEF Tag!Tagged
      <4>4. CASE tagRequest[t].fields.value = NoValue
        BY <4>2, <4>3, <4>4 DEF Tag!Stored
      <4>5. CASE tagRequest[t].fields.value \in Nat
        BY <4>2, <4>3, <4>5, StoredIsNear
      <4> QED BY <4>1, <4>4, <4>5
    <3>2. CASE Tag!Drop(t)
      BY <3>2 DEF Tag!Drop, Tag!AtTag, TagTypeOK
    <3> QED BY <1>2, <3>1, <3>2 DEF Tag!Serve
  <2> QED BY <2>2, <2>3 DEF TagTypeOK
<1>3. CASE UNCHANGED Tag!tagVars
  BY <1>3 DEF Tag!tagVars, TagTypeOK
<1> QED BY <1>1, <1>2, <1>3 DEF Tag!TagNext

LEMMA LoneTagStep ==
    ASSUME LoneTagInv, [Tag!TagNext]_(Tag!tagVars)
    PROVE  LoneTagInv'
<1> USE DEF LoneTagInv
<1>0. TagTypeOK'
  BY TagTypeStep
<1>1. ASSUME NEW t \in Tx, Tag!Ask(t)
      PROVE  LoneTagInv'
  <2>1. PICK body \in Tag!Body : Tag!BeginPricing(t, body)
    BY <1>1 DEF Tag!Ask
  <2>2. PICK fields \in Tag!PricingFields(body, tag) :
            Tag!Starts(t, [stage |-> "write", base |-> body.base, fields |-> fields])
    BY <2>1 DEF Tag!BeginPricing
  <2>3. PICK r : r = [stage |-> "write", base |-> body.base, fields |-> fields]
    OBVIOUS
  <2>4. /\ tagRequest[t] = Idle
        /\ tagRequest' = [tagRequest EXCEPT ![t] = r]
        /\ tagAlone' = [u \in Tx |-> IF u = t THEN Tag!Active = {}
                                     ELSE tagAlone[u] /\ tagRequest[u] = Idle]
        /\ tag' = tag
    BY <2>1, <2>2, <2>3 DEF Tag!Starts, Tag!Go, Tag!Idle, Idle, Tag!BeginPricing, Tag!AtTag
  <2>5. r # Idle
    BY <2>3 DEF Idle
  <2>6. \A u \in Tx \ {t} : ~tagAlone'[u]
    BY <2>4 DEF LoneIsLone
  <2>7. tagAlone'[t] => \A u \in Tx : tagRequest[u] = Idle
    BY <2>4 DEF Tag!Active, Tag!Idle, Idle
  <2>8. Histories(tagRequest, tagAlone)'
    BY <2>4 DEF Histories
  <2>9. tagRequest'[t] = r /\ \A u \in Tx \ {t} : tagRequest'[u] = tagRequest[u]
    BY <2>4 DEF Histories
  <2>10. LoneIsLone(tagRequest, tagAlone)'
    BY <2>5, <2>6, <2>7, <2>9 DEF LoneIsLone
  <2>11. Follows(r)
    BY <2>3 DEF Follows, BaseOf, Tag!PricingFields
  <2>12. Follows(r)'
    BY <2>4, <2>11 DEF Follows, BaseOf
  <2> QED BY <1>0, <2>6, <2>8, <2>9, <2>10, <2>12 DEF Follows, BaseOf
<1>2. ASSUME NEW t \in Tx, Tag!Serve(t)
      PROVE  LoneTagInv'
  <2>1. /\ tagRequest[t] # Idle
        /\ tagRequest' = [tagRequest EXCEPT ![t] = Idle]
        /\ tagAlone' = [tagAlone EXCEPT ![t] = FALSE]
    BY <1>2 DEF Tag!Serve, Tag!WritePrice, Tag!Drop, Tag!Ends, Tag!Go, Tag!Active, Tag!Idle, Idle
  <2>2. /\ Histories(tagRequest', tagAlone') /\ LoneIsLone(tagRequest', tagAlone')
        /\ \A u \in Tx : ~tagAlone'[u]
    BY <2>1, EndsKeepsLone
  <2> QED BY <1>0, <2>2 DEF Histories, LoneIsLone
<1>3. CASE UNCHANGED Tag!tagVars
  BY <1>0, <1>3 DEF Tag!tagVars, Histories, LoneIsLone, Follows, BaseOf
<1> QED BY <1>1, <1>2, <1>3 DEF Tag!TagNext

\* The price the columns keep is near the one their base and discount give,
\* and is that one if nothing was rounded on the way into them.
LEMMA DerivedIsNear ==
    ASSUME TagTypeOK, NEW t \in Tx, tagRequest[t] # Idle, Follows(tagRequest[t]),
           tag' = Tag!Tagged(t)
    PROVE  Tag!Near' /\ (Tag!InHundredths(tagRequest[t]) => Tag!Exact')
<1>1. PICK r : r = tagRequest[t]
  OBVIOUS
<1>2. PICK b \in Nat, v \in Nat \cup {NoValue} : b = BaseOf(r) /\ v = r.fields.value
  BY <1>1, BaseIsStored DEF TagTypeOK
<1> DEFINE s == r.fields.sale
<1>3. /\ tag'.base = Tag!Stored(b) /\ tag'.type = r.fields.type
      /\ tag'.value = Tag!Stored(v) /\ tag'.sale = s
  <2>1. Tag!Tagged(t).base = Tag!Stored(b)
    BY <1>1, <1>2, BaseIsStored
  <2> QED BY <2>1, <1>1, <1>2 DEF Tag!Tagged
<1>4. s \in Tag!SalePrices(b, r.fields.type, v)
  BY <1>1, <1>2 DEF Follows
<1>5. Tag!Near'
  <2>1. CASE v = NoValue
    <3>1. s = Tag!Stored(b) /\ Tag!Stored(v) = NoValue
      BY <1>4, <2>1 DEF Tag!SalePrices, Tag!Stored
    <3> QED BY <3>1, <1>3 DEF Tag!Near
  <2>2. CASE v # NoValue
    <3>1. v \in Nat /\ Tag!Stored(v) \in Nat /\ Tag!Stored(v) # NoValue
      BY <2>2, <1>2, StoredIsNear, TagAssumption
    <3>2. CASE r.fields.type = "PERCENTAGE"
      <4>1. v <= Tag!Whole /\ s \in Tag!Rounded(b * (Tag!Whole - v), Tag!Whole * Fine)
        <5>1. Tag!Whole \in Nat
          BY TagAssumption DEF Tag!Whole
        <5> QED BY <5>1, <3>1, <3>2, <2>2, <1>4 DEF Tag!SalePrices
      <4>2. 2 * (10000 * s - Tag!Stored(b) * (10000 - Tag!Stored(v)))
                \in -(20000 + Tag!Stored(b)) .. (20000 + Tag!Stored(b))
        BY <3>1, <4>1, PercentageIsNear
      <4> QED BY <4>2, <3>1, <3>2, <1>3 DEF Tag!Near
    <3>3. CASE r.fields.type # "PERCENTAGE"
      <4>1. v <= b /\ s \in Tag!Rounded(b - v, Fine)
        BY <3>1, <3>3, <2>2, <1>4 DEF Tag!SalePrices
      <4>2. s - (Tag!Stored(b) - Tag!Stored(v)) \in -1 .. 1
        BY <3>1, <4>1, FixedIsNear
      <4> QED BY <4>2, <3>1, <3>3, <1>3 DEF Tag!Near
    <3> QED BY <3>2, <3>3
  <2> QED BY <2>1, <2>2
<1>6. ASSUME Tag!InHundredths(tagRequest[t]) PROVE Tag!Exact'
  <2>1. b % Fine = 0 /\ (v # NoValue => v % Fine = 0)
    BY <1>1, <1>2, <1>6, BaseIsStored DEF Tag!InHundredths
  <2>2. Tag!Read(Tag!Stored(b)) = b
    BY <2>1, HundredthsAreKept
  <2>3. Tag!Read(Tag!Stored(v)) = v
    BY <2>1, <1>2, HundredthsAreKept
  <2>4. Tag!Read(tag'.base) = b /\ Tag!Read(tag'.value) = v
    BY <2>2, <2>3, <1>3
  <2>5. tag'.sale \in Tag!SalePrices(Tag!Read(tag'.base), tag'.type, Tag!Read(tag'.value))
    BY <2>4, <1>3, <1>4
  <2> QED BY <2>5 DEF Tag!Exact
<1> QED BY <1>5, <1>6

\* A lone edit writes a price that its row gives again: exactly if the edit was
\* in hundredths, within the rounding of the columns if its numbers were finer
\* (ProductService.resolvePricingUpdate and the DECIMAL(12, 2) columns), for any
\* fineness, any bodies and any requests before and after.
THEOREM LoneEditsReprice == Tag!TagSpec => LoneEditReprices
<1>1. Tag!TagInit => LoneTagInv
  <2> SUFFICES ASSUME Tag!TagInit PROVE LoneTagInv
    OBVIOUS
  <2>1. tagRequest = [t \in Tx |-> Idle] /\ tagAlone = [t \in Tx |-> FALSE]
    BY DEF Tag!TagInit, Tag!Idle, Idle
  <2>2. TagTypeOK
    BY <2>1, TagAssumption DEF Tag!TagInit, TagTypeOK
  <2> QED BY <2>1, <2>2, NobodyYet DEF LoneTagInv
<1>2. LoneTagInv /\ [Tag!TagNext]_(Tag!tagVars) => LoneTagInv'
  BY LoneTagStep
<1>3. ASSUME LoneTagInv, NEW t \in Tx, tagAlone[t], t \in Tag!Active, Tag!WritePrice(t)
      PROVE  Tag!Near' /\ (Tag!InHundredths(tagRequest[t]) => Tag!Exact')
  <2>1. tag' = Tag!Tagged(t) /\ Follows(tagRequest[t]) /\ TagTypeOK /\ tagRequest[t] # Idle
    BY <1>3 DEF LoneTagInv, Tag!WritePrice, Tag!Active, Tag!Idle, Idle
  <2> QED BY <2>1, DerivedIsNear
<1>4. LoneTagInv /\ [Tag!TagNext]_(Tag!tagVars) =>
        [\A t \in Tx : tagAlone[t] /\ t \in Tag!Active /\ Tag!WritePrice(t) =>
            Tag!Near' /\ (Tag!InHundredths(tagRequest[t]) => Tag!Exact')]_(Tag!tagVars)
  BY <1>3
<1> QED BY <1>1, <1>2, <1>4, PTL DEF Tag!TagSpec, LoneEditReprices, Tag!LoneEditReprices

-----------------------------------------------------------------------------
(* The bill.                                                               *)

BillLine == [gross : Nat, share : Int, net : Int]

GrossOf == [i \in DOMAIN lines |-> lines[i].gross]

GrossTo(n) == SumFunctionOnSet(GrossOf, 1..n)

\* A share is its proportion of the discount to slack half cents.
Fair(i, slack) ==
    2 * (lines[i].share * subtotal - lines[i].gross * discount)
        \in -(slack * subtotal) .. slack * subtotal

BillTypeOK ==
    /\ billStage \in {"items", "shares", "total", "placed"}
    /\ lines \in Seq(BillLine)
    /\ subtotal \in Nat /\ discount \in 0..subtotal /\ allocated \in Int
    /\ shared \in 0..Len(lines) /\ total \in Int

\* What the columns of the bill add up to.
Columns ==
    /\ subtotal = GrossTo(Len(lines))
    /\ allocated = SumFunctionOnSet(Bill!Split, 1..Len(lines))
    /\ \A i \in 1..Len(lines) : lines[i].net = lines[i].gross - lines[i].share

\* Half way through the shares the rounding is off by half a cent a line.
Sharing ==
    /\ billStage = "items" => shared = 0 /\ discount = 0 /\ allocated = 0
    /\ billStage \in {"items", "shares"} =>
          /\ \A i \in 1..Len(lines) : i > shared => lines[i].share = 0
          /\ \A i \in 1..shared : Fair(i, 1)
          /\ 2 * (allocated * subtotal - discount * GrossTo(shared))
                \in -(shared * subtotal) .. shared * subtotal
    /\ billStage = "shares" => shared < Len(lines) /\ subtotal > 0
    /\ billStage \in {"total", "placed"} =>
          /\ allocated = discount
          /\ \A i \in 1..Len(lines) : Fair(i, IF i = Len(lines) THEN Len(lines) - 1 ELSE 1)
    /\ billStage = "placed" => total = subtotal - discount + DeliveryCharge

BillInv == BillTypeOK /\ Columns /\ Sharing

-----------------------------------------------------------------------------
LEMMA BillSum == ASSUME NEW f PROVE Bill!SumFunction(f) = SumFunctionOnSet(f, DOMAIN f)
BY DEF Bill!SumFunction, Bill!SumFunctionOnSet, Bill!FoldFunctionOnSet, Bill!MapThenFoldSet,
       SumFunctionOnSet, FoldFunctionOnSet, MapThenFoldSet

\* A sum over one line more.
LEMMA SumOneMore ==
    ASSUME NEW n \in Nat, NEW f, \A i \in 1..n+1 : f[i] \in Int
    PROVE  /\ SumFunctionOnSet(f, 1..n) \in Int
           /\ SumFunctionOnSet(f, 1..n+1) = f[n + 1] + SumFunctionOnSet(f, 1..n)
<1>1. IsFiniteSet(1..n+1) /\ IsFiniteSet(1..n)
  BY FS_Interval
<1>2. (1..n+1) \ {n + 1} = 1..n /\ n + 1 \in 1..n+1
  OBVIOUS
<1>3. SumFunctionOnSet(f, 1..n) \in Int
  BY <1>1, SumInt
<1> QED BY <1>1, <1>2, <1>3, SumRemove

\* n / d, rounded, is off by half at most.
LEMMA RoundedIsNear ==
    ASSUME NEW n \in Nat, NEW d \in Nat, d > 0, NEW r \in Bill!Rounded(n, d)
    PROVE  r \in Nat /\ 2 * (r * d - n) \in -d .. d
BY DEF Bill!Rounded

\* A discount is no more than there is to pay.
LEMMA DiscountFits ==
    ASSUME subtotal \in Nat, NEW p \in Promos, NEW d \in Bill!Discounts(p)
    PROVE  d \in 0..subtotal
<1>1. /\ p.type \in {"FIXED", "PERCENTAGE"} /\ p.value \in Nat \ {0}
      /\ p.max \in Nat \cup {NoMax}
  BY BillAssumption
<1>2. CASE p.type = "FIXED"
  BY <1>1, <1>2 DEF Bill!Discounts, Bill!Least
<1>3. CASE p.type # "FIXED"
  <2>1. PICK raw \in Nat : raw = subtotal * p.value
    BY <1>1
  <2>2. PICK capped \in Nat : capped = IF p.max = NoMax THEN raw ELSE Bill!Least(raw, 100 * p.max)
    BY <1>1 DEF Bill!Least
  <2>3. PICK n \in Nat : n = Bill!Least(capped, 100 * subtotal) /\ n <= 100 * subtotal
    BY DEF Bill!Least
  <2>4. d \in Bill!Rounded(n, 100)
    BY <1>3, <2>1, <2>2, <2>3 DEF Bill!Discounts
  <2>5. d \in Nat /\ 2 * (d * 100 - n) <= 100
    BY <2>4, RoundedIsNear
  <2> QED BY <2>3, <2>5
<1> QED BY <1>2, <1>3
\* The empty bill.
LEMMA NothingToPay == Bill!TotalsInit => BillInv
<1> SUFFICES ASSUME Bill!TotalsInit PROVE BillInv
  OBVIOUS
<1>1. /\ billStage = "items" /\ lines = <<>> /\ subtotal = 0 /\ discount = 0
      /\ allocated = 0 /\ shared = 0 /\ total = 0
  BY DEF Bill!TotalsInit
<1>2. Len(lines) = 0 /\ 1..Len(lines) = {}
  BY <1>1
<1>3. BillTypeOK
  BY <1>1, <1>2 DEF BillTypeOK
<1>4. \A n \in {0, Len(lines)} : GrossTo(n) = 0
  BY <1>2, SumOfNone DEF GrossTo
<1>5. Columns
  BY <1>1, <1>2, <1>4, SumOfNone DEF Columns
<1>6. Sharing
  BY <1>1, <1>2, <1>4 DEF Sharing
<1> QED BY <1>3, <1>5, <1>6 DEF BillInv

\* The columns are made of numbers.
LEMMA LinesAreNumbers ==
    ASSUME BillTypeOK
    PROVE  /\ DOMAIN lines = 1..Len(lines) /\ Len(lines) \in Nat
           /\ \A i \in 1..Len(lines) :
                 /\ lines[i] \in BillLine
                 /\ GrossOf[i] = lines[i].gross /\ GrossOf[i] \in Nat
                 /\ Bill!Split[i] = lines[i].share /\ Bill!Split[i] \in Int
                 /\ Bill!Nets[i] = lines[i].net /\ Bill!Nets[i] \in Int
<1>1. DOMAIN lines = 1..Len(lines) /\ Len(lines) \in Nat
  BY DEF BillTypeOK
<1>2. \A i \in 1..Len(lines) : lines[i] \in BillLine
  BY DEF BillTypeOK
<1>3. \A i \in 1..Len(lines) :
         lines[i].gross \in Nat /\ lines[i].share \in Int /\ lines[i].net \in Int
  BY <1>2 DEF BillLine
<1> QED BY <1>1, <1>2, <1>3 DEF GrossOf, Bill!Split, Bill!Nets

\* One line more on the bill.
LEMMA LineKeepsBill ==
    ASSUME BillInv, NEW u \in UnitPrices, NEW q \in Quantities, Bill!AddLine(u, q)
    PROVE  BillInv'
<1> USE DEF BillInv
<1>1. u * q \in Nat
  BY BillAssumption
<1>2. PICK g \in Nat : g = u * q
  BY <1>1
<1>3. PICK e \in BillLine : e.gross = g /\ e.share = 0 /\ e.net = g
                           /\ e = [gross |-> g, share |-> 0, net |-> g]
  <2>1. [gross |-> g, share |-> 0, net |-> g] \in BillLine
    BY DEF BillLine
  <2> QED BY <2>1
<1>4. PICK n \in Nat : n = Len(lines)
  BY LinesAreNumbers
<1>5. /\ billStage = "items" /\ lines' = Append(lines, e) /\ subtotal' = subtotal + g
      /\ UNCHANGED <<billStage, discount, allocated, shared, total>>
  BY <1>2, <1>3 DEF Bill!AddLine
<1>6. /\ Len(lines') = n + 1 /\ lines'[n + 1] = e
      /\ \A i \in 1..n : lines'[i] = lines[i]
      /\ lines' \in Seq(BillLine) /\ DOMAIN lines' = 1..n+1
  BY <1>4, <1>5 DEF BillTypeOK
<1>7. BillTypeOK'
  BY <1>4, <1>5, <1>6 DEF BillTypeOK
<1>8. shared = 0 /\ discount = 0 /\ allocated = 0 /\ \A i \in 1..n : lines[i].share = 0
  BY <1>4, <1>5 DEF Sharing
<1>9. \A i \in 1..n+1 : GrossOf'[i] \in Int /\ Bill!Split'[i] \in Int
  <2>1. \A i \in 1..n+1 : lines'[i] \in BillLine
    BY <1>6
  <2>2. \A i \in 1..n+1 : lines'[i].gross \in Int /\ lines'[i].share \in Int
    BY <2>1 DEF BillLine
  <2> QED BY <1>6, <2>2 DEF GrossOf, Bill!Split
<1>10. IsFiniteSet(1..n)
  BY FS_Interval
<1>11. SumFunctionOnSet(GrossOf', 1..n+1) = g + SumFunctionOnSet(GrossOf, 1..n)
  <2>1. \A i \in 1..n : GrossOf'[i] = GrossOf[i]
    BY <1>4, <1>6, LinesAreNumbers DEF GrossOf
  <2>2. SumFunctionOnSet(GrossOf', 1..n) = SumFunctionOnSet(GrossOf, 1..n)
    BY <1>10, <2>1, SumCongruence
  <2>3. GrossOf'[n + 1] = g
    BY <1>3, <1>6 DEF GrossOf
  <2>4. SumFunctionOnSet(GrossOf', 1..n+1) = GrossOf'[n + 1] + SumFunctionOnSet(GrossOf', 1..n)
    BY <1>9, SumOneMore
  <2> QED BY <2>2, <2>3, <2>4
<1>12. SumFunctionOnSet(Bill!Split', 1..n+1) = 0
  <2>1. \A i \in 1..n+1 : Bill!Split'[i] = 0
    BY <1>3, <1>6, <1>8 DEF Bill!Split
  <2>2. IsFiniteSet(1..n+1)
    BY FS_Interval
  <2> QED BY <2>1, <2>2, SumZero
<1>13. Columns'
  <2>1. subtotal' = GrossTo(Len(lines))'
    BY <1>4, <1>5, <1>6, <1>11 DEF Columns, GrossTo, BillTypeOK
  <2>2. allocated' = SumFunctionOnSet(Bill!Split', 1..Len(lines'))
    BY <1>5, <1>6, <1>8, <1>12
  <2>3. \A i \in 1..Len(lines') : lines'[i].net = lines'[i].gross - lines'[i].share
    <3>1. e.net = e.gross - e.share
      BY <1>3
    <3>2. \A i \in 1..n : lines[i].net = lines[i].gross - lines[i].share
      BY <1>4 DEF Columns
    <3> QED BY <1>6, <3>1, <3>2
  <2> QED BY <2>1, <2>2, <2>3 DEF Columns
<1>14. Sharing'
  <2>1. \A i \in 1..Len(lines') : lines'[i].share = 0
    BY <1>3, <1>6, <1>8
  <2>2. GrossTo(0)' = 0
    BY SumOfNone DEF GrossTo
  <2> QED BY <1>5, <1>6, <1>8, <2>1, <2>2 DEF Sharing, BillTypeOK
<1> QED BY <1>7, <1>13, <1>14

\* What a code, or none, decides.
Decided(d) ==
    /\ billStage = "items" /\ lines # <<>>
    /\ discount' = d
    /\ \/ billStage' = "total" /\ d = 0
       \/ billStage' = "shares" /\ d > 0 /\ subtotal > 0
    /\ UNCHANGED <<lines, subtotal, allocated, shared, total>>

LEMMA PromoKeepsBill ==
    ASSUME BillInv, (\E p \in Promos : Bill!ApplyPromo(p)) \/ Bill!NoPromo
    PROVE  BillInv'
<1> USE DEF BillInv
<1>0. subtotal \in Nat
  BY DEF BillTypeOK
<1>1. PICK d \in 0..subtotal : Decided(d)
  <2>1. ASSUME NEW p \in Promos, Bill!ApplyPromo(p)
        PROVE  \E d \in 0..subtotal : Decided(d)
    <3>1. PICK d \in Bill!Discounts(p) :
            /\ discount' = d
            /\ billStage' = IF d <= 0 \/ subtotal <= 0 THEN "total" ELSE "shares"
      BY <2>1 DEF Bill!ApplyPromo
    <3>2. d \in 0..subtotal
      BY <1>0, DiscountFits
    <3>3. \/ billStage' = "total" /\ d = 0
          \/ billStage' = "shares" /\ d > 0 /\ subtotal > 0
      BY <1>0, <3>1, <3>2
    <3>4. billStage = "items" /\ lines # <<>> /\ UNCHANGED <<lines, subtotal, allocated, shared, total>>
      BY <2>1 DEF Bill!ApplyPromo
    <3> QED BY <3>1, <3>2, <3>3, <3>4 DEF Decided
  <2>2. ASSUME Bill!NoPromo
        PROVE  Decided(0)
    <3>1. discount = 0
      BY <2>2 DEF Bill!NoPromo, Sharing
    <3> QED BY <2>2, <3>1 DEF Bill!NoPromo, Decided
  <2> QED BY <1>0, <2>1, <2>2
<1> USE DEF Decided
<1>2. shared = 0 /\ discount = 0 /\ allocated = 0 /\ \A i \in 1..Len(lines) : lines[i].share = 0
  BY <1>1 DEF Sharing, BillTypeOK
<1>3. Len(lines) \in Nat /\ Len(lines) > 0
  BY <1>1 DEF BillTypeOK
<1>4. BillTypeOK'
  BY <1>1, <1>3 DEF BillTypeOK
<1>5. Columns'
  BY <1>1 DEF Columns, GrossTo, GrossOf, Bill!Split
<1>6. GrossTo(0)' = 0
  BY SumOfNone DEF GrossTo
<1>7. CASE d = 0 /\ billStage' = "total"
  <2>1. \A i \in 1..Len(lines), s \in Nat : Fair(i, s)'
    <3> SUFFICES ASSUME NEW i \in 1..Len(lines), NEW s \in Nat
                 PROVE  Fair(i, s)'
      OBVIOUS
    <3>1. PICK w \in Nat, g \in Nat : w = subtotal /\ g = lines[i].gross
      BY <1>0, LinesAreNumbers
    <3>2. lines[i].share = 0
      BY <1>2
    <3>3. s * w \in Nat /\ 0 * w = 0 /\ g * 0 = 0
      OBVIOUS
    <3>4. 2 * (0 * w - g * 0) \in -(s * w) .. s * w
      BY <3>3
    <3> QED BY <1>1, <1>7, <3>1, <3>2, <3>4 DEF Fair
  <2>2. Len(lines) - 1 \in Nat /\ 1 \in Nat
    BY <1>3
  <2> QED BY <1>1, <1>2, <1>4, <1>5, <1>7, <2>1, <2>2 DEF Sharing
<1>8. CASE billStage' = "shares" /\ subtotal > 0
  <2>1. \A i \in 1..shared' : FALSE
    BY <1>1, <1>2
  <2>2. 2 * (allocated' * subtotal' - discount' * GrossTo(shared)')
           \in -(shared' * subtotal') .. shared' * subtotal'
    <3>1. GrossTo(shared)' = 0
      BY <1>1, <1>2, <1>6
    <3>2. 2 * (0 * subtotal - d * 0) \in -(0 * subtotal) .. 0 * subtotal
      BY <1>0
    <3> QED BY <1>1, <1>2, <3>1, <3>2
  <2> QED BY <1>1, <1>2, <1>3, <1>4, <1>5, <1>8, <2>1, <2>2 DEF Sharing
<1> QED BY <1>1, <1>7, <1>8
\* One proportion more, rounded: what the shares lack of theirs grows by half a
\* cent, and the last line, which takes the rest, is off by what they lack.
LEMMA HalfACentMore ==
    ASSUME NEW a \in Int, NEW d \in Int, NEW b \in Int, NEW g \in Int, NEW s \in Int,
           NEW sub \in Nat, NEW n \in Nat,
           2 * (a * sub - d * b) \in -(n * sub) .. n * sub,
           2 * (s * sub - g * d) \in -sub .. sub
    PROVE  2 * ((a + s) * sub - d * (b + g)) \in -((n + 1) * sub) .. (n + 1) * sub
<1>1. (a + s) * sub - d * (b + g) = (a * sub - d * b) + (s * sub - g * d)
  OBVIOUS
<1>2. (n + 1) * sub = n * sub + sub
  OBVIOUS
<1>3. PICK x \in Int, y \in Int, z \in Int : x = a * sub - d * b /\ y = s * sub - g * d /\ z = n * sub
  OBVIOUS
<1>4. 2 * (x + y) \in -(z + sub) .. z + sub
  BY <1>3
<1> QED BY <1>1, <1>2, <1>3, <1>4

LEMMA RestIsFair ==
    ASSUME NEW a \in Int, NEW d \in Int, NEW b \in Int, NEW g \in Int,
           NEW sub \in Nat, sub = g + b, NEW n \in Nat,
           2 * (a * sub - d * b) \in -(n * sub) .. n * sub
    PROVE  2 * ((d - a) * sub - g * d) \in -(n * sub) .. n * sub
<1>1. (d - a) * sub - g * d = -(a * sub - d * b)
  <2>1. (d - a) * sub = d * sub - a * sub
    OBVIOUS
  <2>2. d * sub = g * d + d * b
    OBVIOUS
  <2>3. PICK x \in Int, y \in Int, z \in Int : x = a * sub /\ y = g * d /\ z = d * b
    OBVIOUS
  <2> QED BY <2>1, <2>2, <2>3
<1>2. PICK x \in Int, z \in Int : x = a * sub - d * b /\ z = n * sub
  OBVIOUS
<1>3. 2 * (-x) \in -z .. z
  BY <1>2
<1> QED BY <1>1, <1>2, <1>3

\* The next line's share.
LEMMA ShareKeepsBill ==
    ASSUME BillInv, Bill!Share
    PROVE  BillInv'
<1> USE DEF BillInv
<1>1. PICK i \in Nat, n \in Nat : i = shared + 1 /\ n = Len(lines) /\ i \in 1..n
  <2>1. shared \in Nat /\ Len(lines) \in Nat
    BY DEF BillTypeOK
  <2>2. shared < Len(lines)
    BY DEF Bill!Share, Sharing
  <2> QED BY <2>1, <2>2
<1>2. PICK s \in Bill!Shares(i) :
         /\ lines' = [lines EXCEPT ![i].share = s, ![i].net = @ - s]
         /\ allocated' = allocated + s
         /\ shared' = i
         /\ billStage' = IF i = n THEN "total" ELSE "shares"
  BY <1>1 DEF Bill!Share
<1>3. billStage = "shares" /\ UNCHANGED <<subtotal, discount, total>>
  BY DEF Bill!Share
<1>4. PICK g \in Nat, d \in Nat, sub \in Nat, a \in Int :
         g = lines[i].gross /\ d = discount /\ sub = subtotal /\ a = allocated /\ sub > 0
  <2>1. lines[i].gross \in Nat
    BY <1>1, LinesAreNumbers
  <2> QED BY <1>3, <2>1 DEF BillTypeOK, Sharing
<1>5. /\ lines[i] \in BillLine /\ lines[i].share = 0 /\ lines[i].net = g
      /\ \A j \in 1..n : lines[j] \in BillLine
  <2>1. \A j \in 1..n : lines[j] \in BillLine
    BY <1>1 DEF BillTypeOK
  <2>2. lines[i].share = 0
    BY <1>1, <1>3 DEF Sharing, BillTypeOK
  <2>3. lines[i].net = lines[i].gross - lines[i].share
    BY <1>1 DEF Columns
  <2> QED BY <1>1, <1>4, <2>1, <2>2, <2>3
<1>6. s \in Int /\ (i = n => s = d - a) /\ (i # n => 2 * (s * sub - g * d) \in -sub .. sub)
  <2>1. CASE i = n
    BY <1>1, <1>2, <1>4, <2>1 DEF Bill!Shares
  <2>2. CASE i # n
    <3>1. PICK m \in Nat : m = g * d
      OBVIOUS
    <3>2. s \in Bill!Rounded(m, sub)
      BY <1>1, <1>2, <1>4, <2>2, <3>1 DEF Bill!Shares
    <3>3. s \in Nat /\ 2 * (s * sub - m) \in -sub .. sub
      BY <1>4, <3>2, RoundedIsNear
    <3> QED BY <2>2, <3>1, <3>3
  <2> QED BY <2>1, <2>2
<1>7. /\ lines' \in Seq(BillLine) /\ Len(lines') = n /\ DOMAIN lines' = 1..n
      /\ \A j \in 1..n : j # i => lines'[j] = lines[j]
      /\ lines'[i].gross = g /\ lines'[i].share = s /\ lines'[i].net = g - s
  <2>1. PICK mid : mid = [lines EXCEPT ![i].share = s]
    OBVIOUS
  <2>2. lines' = [mid EXCEPT ![i].net = @ - s]
    BY <1>2, <2>1
  <2>3. lines \in [1..n -> BillLine]
    BY <1>1 DEF BillTypeOK
  <2>4. mid \in [1..n -> BillLine] /\ mid[i].share = s /\ mid[i].gross = g /\ mid[i].net = g
    <3>1. mid \in [1..n -> BillLine]
      BY <1>6, <2>1, <2>3 DEF BillLine
    <3> QED BY <1>1, <1>4, <1>5, <2>1, <2>3, <3>1 DEF BillLine
  <2>5. g - s \in Int
    BY <1>6
  <2>6. lines' \in [1..n -> BillLine]
    BY <2>2, <2>4, <2>5 DEF BillLine
  <2>7. lines'[i].gross = g /\ lines'[i].share = s /\ lines'[i].net = g - s
    BY <1>1, <2>2, <2>4, <2>6 DEF BillLine
  <2>8. \A j \in 1..n : j # i => lines'[j] = lines[j]
    BY <2>1, <2>2, <2>3, <2>4
  <2> QED BY <2>6, <2>7, <2>8
<1>10. BillTypeOK'
  BY <1>1, <1>2, <1>3, <1>6, <1>7 DEF BillTypeOK
<1>11. GrossOf' = GrossOf
  BY <1>1, <1>4, <1>7, LinesAreNumbers DEF GrossOf
<1>12. Columns'
  <2>1. subtotal' = GrossTo(Len(lines))'
    BY <1>1, <1>3, <1>7, <1>11 DEF Columns, GrossTo
  <2>2. allocated' = SumFunctionOnSet(Bill!Split', 1..Len(lines'))
    <3>1. /\ \A j \in 1..n : Bill!Split[j] \in Int /\ Bill!Split'[j] \in Int
          /\ \A j \in (1..n) \ {i} : Bill!Split[j] = Bill!Split'[j]
          /\ Bill!Split[i] = 0 /\ Bill!Split'[i] = s
      BY <1>1, <1>5, <1>6, <1>7, LinesAreNumbers DEF Bill!Split
    <3>2. IsFiniteSet(1..n)
      BY FS_Interval
    <3>3. SumFunctionOnSet(Bill!Split', 1..n) = SumFunctionOnSet(Bill!Split, 1..n) - 0 + s
      <4>1. PICK f, h : f = Bill!Split /\ h = Bill!Split'
        OBVIOUS
      <4>2. /\ \A j \in 1..n : f[j] \in Int /\ h[j] \in Int
            /\ \A j \in (1..n) \ {i} : f[j] = h[j]
            /\ f[i] = 0 /\ h[i] = s
        BY <3>1, <4>1
      <4>3. SumFunctionOnSet(h, 1..n) = SumFunctionOnSet(f, 1..n) - f[i] + h[i]
        <5>1. PICK S, y : S = 1..n /\ y = i
          OBVIOUS
        <5>2. /\ IsFiniteSet(S) /\ y \in S
              /\ \A j \in S : f[j] \in Int /\ h[j] \in Int
              /\ \A j \in S \ {y} : f[j] = h[j]
          BY <1>1, <3>2, <4>2, <5>1
        <5>3. SumFunctionOnSet(h, S) = SumFunctionOnSet(f, S) - f[y] + h[y]
          BY <5>2, SumChange
        <5> QED BY <5>1, <5>3
      <4> QED BY <4>1, <4>2, <4>3
    <3> QED BY <1>1, <1>2, <1>4, <1>6, <1>7, <3>3 DEF Columns
  <2>3. \A j \in 1..Len(lines') : lines'[j].net = lines'[j].gross - lines'[j].share
    BY <1>1, <1>7 DEF Columns
  <2> QED BY <2>1, <2>2, <2>3 DEF Columns
<1>13. PICK b \in Int : b = GrossTo(shared) /\ GrossTo(i) = g + b
  <2>1. \A j \in 1..shared+1 : GrossOf[j] \in Int
    BY <1>1, LinesAreNumbers
  <2>2. shared \in Nat
    BY DEF BillTypeOK
  <2>3. GrossOf[shared + 1] = g
    BY <1>1, <1>4, LinesAreNumbers
  <2> QED BY <1>1, <2>1, <2>2, <2>3, SumOneMore DEF GrossTo
<1>14. 2 * (a * sub - d * b) \in -(shared * sub) .. shared * sub
  BY <1>3, <1>4, <1>13 DEF Sharing
<1>15. shared \in Nat /\ i = shared + 1
  BY <1>1 DEF BillTypeOK
<1>16. \A j \in 1..shared : Fair(j, 1)'
  <2>1. \A j \in 1..shared : Fair(j, 1) /\ lines'[j] = lines[j]
    BY <1>1, <1>3, <1>7, <1>15 DEF Sharing
  <2> QED BY <1>3, <2>1 DEF Fair
<1>17. CASE i # n
  <2>1. Fair(i, 1)'
    <3>1. 1 * sub = sub
      OBVIOUS
    <3> QED BY <1>3, <1>4, <1>6, <1>7, <1>17, <3>1 DEF Fair
  <2>2. \A j \in 1..shared' : Fair(j, 1)'
    BY <1>2, <1>15, <1>16, <2>1
  <2>3. 2 * (allocated' * subtotal' - discount' * GrossTo(shared)')
          \in -(shared' * subtotal') .. shared' * subtotal'
    <3>1. 2 * ((a + s) * sub - d * (b + g)) \in -((shared + 1) * sub) .. (shared + 1) * sub
      BY <1>6, <1>14, <1>15, <1>17, HalfACentMore
    <3>2. GrossTo(shared)' = b + g
      BY <1>2, <1>11, <1>13 DEF GrossTo
    <3> QED BY <1>2, <1>3, <1>4, <1>15, <3>1, <3>2
  <2>4. \A j \in 1..Len(lines') : j > shared' => lines'[j].share = 0
    BY <1>1, <1>2, <1>3, <1>7, <1>15 DEF Sharing
  <2>5. billStage' = "shares" /\ shared' < Len(lines') /\ subtotal' > 0
    BY <1>1, <1>2, <1>3, <1>4, <1>7, <1>17
  <2> QED BY <1>10, <1>12, <2>2, <2>3, <2>4, <2>5 DEF Sharing
<1>18. CASE i = n
  <2>1. Fair(i, n - 1)'
    <3>1. sub = g + b
      BY <1>1, <1>4, <1>13, <1>18 DEF Columns
    <3>2. 2 * ((d - a) * sub - g * d) \in -(shared * sub) .. shared * sub
      BY <1>14, <1>15, <3>1, RestIsFair
    <3>3. s = d - a /\ shared = n - 1
      BY <1>1, <1>6, <1>15, <1>18
    <3>4. 2 * (s * sub - g * d) \in -((n - 1) * sub) .. (n - 1) * sub
      BY <3>2, <3>3
    <3>5. /\ lines'[i].share = s /\ lines'[i].gross = g /\ subtotal' = sub /\ discount' = d
      BY <1>3, <1>4, <1>7
    <3> QED BY <3>4, <3>5 DEF Fair
  <2>2. \A j \in 1..Len(lines') :
            Fair(j, IF j = Len(lines) THEN Len(lines) - 1 ELSE 1)'
    BY <1>1, <1>7, <1>15, <1>16, <1>18, <2>1
  <2>3. billStage' = "total" /\ allocated' = discount'
    BY <1>2, <1>3, <1>4, <1>6, <1>18
  <2> QED BY <1>10, <1>12, <2>2, <2>3 DEF Sharing
<1> QED BY <1>17, <1>18
\* The order is placed.
LEMMA PlaceKeepsBill ==
    ASSUME BillInv, Bill!Place
    PROVE  BillInv'
<1>1. /\ billStage = "total" /\ billStage' = "placed"
      /\ total' = subtotal - discount + DeliveryCharge
      /\ UNCHANGED <<lines, subtotal, discount, allocated, shared>>
  BY DEF Bill!Place
<1>2. BillTypeOK'
  BY <1>1, BillAssumption DEF BillInv, BillTypeOK
<1>3. Columns'
  BY <1>1 DEF BillInv, Columns, GrossTo, GrossOf, Bill!Split
<1>4. \A i \in 1..Len(lines) : Fair(i, IF i = Len(lines) THEN Len(lines) - 1 ELSE 1)'
  BY <1>1 DEF BillInv, Sharing, Fair
<1>5. Sharing'
  BY <1>1, <1>4 DEF BillInv, Sharing
<1> QED BY <1>2, <1>3, <1>5 DEF BillInv

\* The bill adds up to the cent and every share is fair up to its rounding
\* (allocateDiscountAcrossItems), for any prices, quantities, codes and number
\* of lines, however half a cent is rounded.
THEOREM BillAlwaysAddsUp == Bill!TotalsSpec => []BillAddsUp
<1>1. Bill!TotalsInit => BillInv
  BY NothingToPay
<1>2. BillInv /\ [Bill!TotalsNext]_(Bill!totalVars) => BillInv'
  <2> SUFFICES ASSUME BillInv, [Bill!TotalsNext]_(Bill!totalVars) PROVE BillInv'
    OBVIOUS
  <2>1. CASE UNCHANGED Bill!totalVars
    BY <2>1 DEF Bill!totalVars, BillInv, BillTypeOK, Columns, Sharing, Fair, GrossTo, GrossOf,
                Bill!Split
  <2> QED BY <2>1, LineKeepsBill, PromoKeepsBill, ShareKeepsBill, PlaceKeepsBill
          DEF Bill!TotalsNext
<1>3. BillInv => BillAddsUp
  <2> SUFFICES ASSUME BillInv, billStage = "placed"
               PROVE  /\ Bill!SumFunction(Bill!Split) = discount
                      /\ Bill!SumFunction(Bill!Nets) + DeliveryCharge = total
                      /\ total >= DeliveryCharge
                      /\ \A i \in 1..Len(lines) :
                            LET slack == IF i = Len(lines) THEN Len(lines) - 1 ELSE 1 IN
                            /\ lines[i].net = lines[i].gross - lines[i].share
                            /\ 2 * (lines[i].share * subtotal - lines[i].gross * discount)
                                  \in -(slack * subtotal) .. slack * subtotal
    BY DEF BillAddsUp, Bill!BillAddsUp
  <2>1. PICK n \in Nat : n = Len(lines) /\ DOMAIN lines = 1..n
    BY LinesAreNumbers DEF BillInv
  <2>2. /\ Bill!SumFunction(Bill!Split) = SumFunctionOnSet(Bill!Split, 1..n)
        /\ Bill!SumFunction(Bill!Nets) = SumFunctionOnSet(Bill!Nets, 1..n)
    BY <2>1, BillSum DEF Bill!Split, Bill!Nets
  <2>3. SumFunctionOnSet(Bill!Split, 1..n) = discount
    BY <2>1 DEF BillInv, Columns, Sharing
  <2>4. SumFunctionOnSet(GrossOf, 1..n) =
            SumFunctionOnSet(Bill!Split, 1..n) + SumFunctionOnSet(Bill!Nets, 1..n)
    <3>1. \A i \in 1..n : Bill!Split[i] \in Int /\ Bill!Nets[i] \in Int
      BY <2>1, LinesAreNumbers DEF BillInv
    <3>2. \A i \in 1..n : GrossOf[i] = Bill!Split[i] + Bill!Nets[i]
      <4>1. \A i \in 1..n : /\ lines[i].gross \in Int /\ lines[i].share \in Int
                            /\ lines[i].net = lines[i].gross - lines[i].share
        BY <2>1, LinesAreNumbers DEF BillInv, Columns
      <4> QED BY <2>1, <4>1 DEF GrossOf, Bill!Split, Bill!Nets
    <3>3. IsFiniteSet(1..n)
      BY FS_Interval
    <3>4. PICK f, g, h : f = Bill!Split /\ g = Bill!Nets /\ h = GrossOf
      OBVIOUS
    <3>5. SumFunctionOnSet(h, 1..n) = SumFunctionOnSet(f, 1..n) + SumFunctionOnSet(g, 1..n)
      BY <3>1, <3>2, <3>3, <3>4, SumAdd
    <3> QED BY <3>4, <3>5
  <2>5. SumFunctionOnSet(Bill!Nets, 1..n) \in Int
    <3>1. \A i \in 1..n : Bill!Nets[i] \in Int
      BY <2>1, LinesAreNumbers DEF BillInv
    <3>2. IsFiniteSet(1..n)
      BY FS_Interval
    <3> QED BY <3>1, <3>2, SumInt
  <2>6. subtotal = SumFunctionOnSet(GrossOf, 1..n) /\ total = subtotal - discount + DeliveryCharge
    BY <2>1 DEF BillInv, Columns, Sharing, GrossTo
  <2>7. subtotal \in Nat /\ discount \in 0..subtotal /\ DeliveryCharge \in Nat
    BY BillAssumption DEF BillInv, BillTypeOK
  <2>8. Bill!SumFunction(Bill!Nets) + DeliveryCharge = total /\ total >= DeliveryCharge
    BY <2>2, <2>3, <2>4, <2>5, <2>6, <2>7
  <2>9. \A i \in 1..Len(lines) :
            /\ lines[i].net = lines[i].gross - lines[i].share
            /\ Fair(i, IF i = Len(lines) THEN Len(lines) - 1 ELSE 1)
    BY DEF BillInv, Columns, Sharing
  <2> QED BY <2>2, <2>3, <2>8, <2>9 DEF Fair
<1> QED BY <1>1, <1>2, <1>3, PTL DEF Bill!TotalsSpec

-----------------------------------------------------------------------------
(* Variants: a product with variants has a default.                        *)
(*                                                                         *)
(* A transaction that takes a default away, or that rewrites the list, also *)
(* puts one: its price field says which.  The statement that puts it comes  *)
(* after every statement that could take it, holds its row until the end,   *)
(* and fails the whole transaction if the row has gone.  The transactions   *)
(* that put none leave every flag as it is.                                 *)

VariantStatement ==
    [do : {"clear", "unset", "update", "create", "delete", "sell"}, id : Variant,
     active : BOOLEAN \cup {Keep}, default : BOOLEAN \cup {Keep}, quantity : Nat \cup {Keep}]

ShelfFields == {"op", "stage", "steps", "sum", "status", "total", "price"}

ShelfTable(rows) ==
    /\ rows = [v \in Variant |-> rows[v]]
    /\ \A v \in Variant :
          /\ DOMAIN rows[v] = {"life", "active", "default", "quantity"}
          /\ rows[v].default \in BOOLEAN

ShelfTypeOK ==
    /\ ShelfTable(variant) /\ ShelfTable(variantDraft)
    /\ variantHolder \in [Variant -> Tx \cup {NoTx}]
    /\ shelfRequest = [t \in Tx |-> shelfRequest[t]]
    /\ \A t \in Tx : shelfRequest[t] # Shelf!Idle =>
          /\ DOMAIN shelfRequest[t] = ShelfFields
          /\ shelfRequest[t].steps \in Seq(VariantStatement)
          /\ shelfRequest[t].price \in Variant \cup {Keep}

\* A held row is held by a request being served, and any other is as committed.
ShelfHeld ==
    \A v \in Variant :
        /\ variantHolder[v] = NoTx => variantDraft[v] = variant[v]
        /\ variantHolder[v] # NoTx => shelfRequest[variantHolder[v]] # Shelf!Idle

LiveAnywhere == {v \in Variant : variant[v].life = "live" \/ variantDraft[v].life = "live"}

Puts(s, d)   == s.do \in {"update", "create"} /\ s.id = d /\ s.default = TRUE
Spares(s, d) == s.do # "clear" /\ (s.id = d => Puts(s, d))

\* The request still has to put its default, and takes it from nobody after.
WillPut(r) ==
    \E i \in 1..Len(r.steps) :
        /\ Puts(r.steps[i], r.price)
        /\ \A j \in i..Len(r.steps) : Spares(r.steps[j], r.price)

\* It has put it.
HasPut(t) ==
    LET r == shelfRequest[t] IN
    /\ variantHolder[r.price] = t
    /\ variantDraft[r.price].life = "live" /\ variantDraft[r.price].default
    /\ \A j \in 1..Len(r.steps) : Spares(r.steps[j], r.price)

LeavesFlags(s) == s.do = "sell" \/ (s.do = "update" /\ s.default = Keep)

\* It changes no default.
Leaves(t) ==
    /\ \A j \in 1..Len(shelfRequest[t].steps) : LeavesFlags(shelfRequest[t].steps[j])
    /\ \A v \in Variant : variantHolder[v] = t =>
          /\ variantDraft[v].life = variant[v].life
          /\ variantDraft[v].default = variant[v].default

Promises(t) ==
    shelfRequest[t] # Shelf!Idle =>
        IF shelfRequest[t].price = Keep THEN Leaves(t)
        ELSE WillPut(shelfRequest[t]) \/ HasPut(t)

SomeDefault == \E d \in Variant : variant[d].life = "live" /\ variant[d].default

ShelfInv ==
    /\ ShelfTypeOK /\ ShelfHeld /\ IsFiniteSet(LiveAnywhere)
    /\ SomeDefault
    /\ \A t \in Tx : Promises(t)

-----------------------------------------------------------------------------
\* First is the least id of a set of them.
LEMMA FirstIsIn ==
    ASSUME NEW S, S \subseteq Variant, S # {}
    PROVE  Shelf!First(S) \in S /\ \A w \in S : Shelf!First(S) <= w
<1>1. \E v \in S : \A w \in S : v <= w
  <2>1. S \subseteq Nat
    BY ShelfAssumption
  <2> QED BY <2>1, LeastNumber
<1> QED BY <1>1 DEF Shelf!First

\* A finite set of ids can be listed in order.
ListsInOrder(S, s) ==
    /\ s \in [1..Cardinality(S) -> S]
    /\ \A i, j \in 1..Cardinality(S) : i < j => s[i] < s[j]

Unlisted(n) == \E S : S \subseteq Variant /\ IsFiniteSet(S) /\ Cardinality(S) = n /\ \A s : ~ListsInOrder(S, s)

LEMMA ListsExist ==
    ASSUME NEW S, S \subseteq Variant, IsFiniteSet(S)
    PROVE  \E s : ListsInOrder(S, s)
<1> DEFINE Bad == {n \in Nat : Unlisted(n)}
<1>1. SUFFICES ASSUME Bad # {} PROVE FALSE
  <2>1. Cardinality(S) \in Nat
    BY FS_CardinalityType
  <2> QED BY <2>1 DEF Unlisted
<1>2. PICK n \in Bad : \A m \in Bad : n <= m
  <2>1. Bad \subseteq Nat
    OBVIOUS
  <2> QED BY <1>1, <2>1, LeastNumber
<1>3. PICK T : T \subseteq Variant /\ IsFiniteSet(T) /\ Cardinality(T) = n /\ \A s : ~ListsInOrder(T, s)
  BY <1>2 DEF Unlisted
<1>4. T # {}
  <2>1. SUFFICES ASSUME T = {} PROVE FALSE
    OBVIOUS
  <2>2. Cardinality(T) = 0
    BY <2>1, FS_EmptySet
  <2>3. ListsInOrder(T, [i \in 1..Cardinality(T) |-> 0])
    BY <2>2 DEF ListsInOrder
  <2> QED BY <1>3, <2>3
<1> DEFINE m == Shelf!First(T)
           U == T \ {m}
<1>5. m \in T /\ \A w \in T : m <= w
  BY <1>3, <1>4, FirstIsIn
<1>6. IsFiniteSet(U) /\ Cardinality(U) = n - 1 /\ U \subseteq Variant /\ n \in Nat /\ n # 0
  <2>1. IsFiniteSet(U) /\ Cardinality(U) = n - 1
    BY <1>3, <1>5, FS_RemoveElement
  <2>2. n # 0
    BY <1>3, <1>4, FS_EmptySet
  <2> QED BY <1>2, <1>3, <2>1, <2>2
<1>7. PICK s : ListsInOrder(U, s)
  <2>1. n - 1 \in Nat /\ ~(n <= n - 1)
    BY <1>6
  <2>2. ~Unlisted(n - 1)
    BY <1>2, <2>1
  <2> QED BY <1>6, <2>2 DEF Unlisted
<1> DEFINE all == [i \in 1..n |-> IF i = 1 THEN m ELSE s[i - 1]]
<1> HIDE DEF Bad, m
<1>8. \A i \in 1..n : i # 1 => i - 1 \in 1..(n - 1)
  BY <1>6
<1>9. \A i \in 1..n : i # 1 => s[i - 1] \in U
  BY <1>6, <1>7, <1>8 DEF ListsInOrder
<1>10. all \in [1..n -> T]
  BY <1>5, <1>9
<1>11. ASSUME NEW i \in 1..n, NEW j \in 1..n, i < j PROVE all[i] < all[j]
  <2>1. j # 1 /\ all[j] = s[j - 1] /\ s[j - 1] \in U
    BY <1>6, <1>9, <1>11
  <2>2. CASE i = 1
    <3>1. m <= s[j - 1] /\ m # s[j - 1]
      BY <1>5, <2>1
    <3>2. m \in Nat /\ s[j - 1] \in Nat
      BY <1>3, <1>5, <2>1, ShelfAssumption
    <3> QED BY <2>1, <2>2, <3>1, <3>2
  <2>3. CASE i # 1
    <3>1. i - 1 \in 1..(n - 1) /\ j - 1 \in 1..(n - 1) /\ i - 1 < j - 1
      BY <1>6, <1>11, <2>1, <2>3
    <3>2. s[i - 1] < s[j - 1]
      BY <1>6, <1>7, <3>1 DEF ListsInOrder
    <3> QED BY <2>1, <2>3, <3>2
  <2> QED BY <2>2, <2>3
<1>12. ListsInOrder(T, all)
  BY <1>3, <1>10, <1>11 DEF ListsInOrder
<1> QED BY <1>3, <1>12

LEMMA ShelfCounts == ASSUME NEW S PROVE Shelf!Cardinality(S) = Cardinality(S)
BY DEF Shelf!Cardinality, Cardinality

\* What Ascending lists is the whole set.
LEMMA AscendingListsAll ==
    ASSUME NEW S, S \subseteq Variant, IsFiniteSet(S)
    PROVE  /\ Cardinality(S) \in Nat
           /\ Shelf!Ascending(S) \in [1..Cardinality(S) -> S]
           /\ \A x \in S : \E i \in 1..Cardinality(S) : Shelf!Ascending(S)[i] = x
<1> DEFINE n == Cardinality(S)
           a == Shelf!Ascending(S)
<1>1. n \in Nat
  BY FS_CardinalityType
<1>2. a \in [1..n -> S] /\ \A i, j \in 1..n : i < j => a[i] < a[j]
  <2>1. \E s \in [1..n -> S] : \A i, j \in 1..n : i < j => s[i] < s[j]
    BY ListsExist DEF ListsInOrder
  <2> QED BY <2>1, ShelfCounts DEF Shelf!Ascending
<1>3. a \in Injection(1..n, S)
  <2>1. ASSUME NEW i \in 1..n, NEW j \in 1..n, i # j PROVE a[i] # a[j]
    <3>1. a[i] \in Nat /\ a[j] \in Nat
      BY <1>2, ShelfAssumption
    <3>2. i < j \/ j < i
      BY <1>1, <2>1
    <3>3. CASE i < j
      BY <1>2, <3>1, <3>3
    <3>4. CASE j < i
      BY <1>2, <3>1, <3>4
    <3> QED BY <3>2, <3>3, <3>4
  <2> QED BY <1>2, <2>1 DEF Injection, IsInjective
<1>4. IsFiniteSet(1..n) /\ Cardinality(1..n) = n
  BY <1>1, FS_Interval
<1>5. a \in Surjection(1..n, S)
  BY <1>3, <1>4, FS_Injection
<1> QED BY <1>1, <1>2, <1>5 DEF Surjection
-----------------------------------------------------------------------------
\* A step of t leaves the promises of the others as they are.
ShelfAside(t) ==
    /\ \A u \in Tx \ {t} : shelfRequest'[u] = shelfRequest[u]
    /\ \A v \in Variant :
          /\ variantHolder'[v] \in {variantHolder[v], t, NoTx}
          /\ variantHolder[v] \notin {t, NoTx} =>
                /\ variantHolder'[v] = variantHolder[v]
                /\ variantDraft'[v] = variantDraft[v] /\ variant'[v] = variant[v]

LEMMA OthersStillPromise ==
    ASSUME ShelfTypeOK, NEW t \in Tx, ShelfAside(t), NEW u \in Tx \ {t}, Promises(u)
    PROVE  Promises(u)'
<1> DEFINE r == shelfRequest[u]
<1>1. u \in Tx /\ u # t /\ u # NoTx /\ shelfRequest'[u] = r
  BY NoTxAssumption DEF ShelfAside
<1>2. \A v \in Variant : variantHolder'[v] = u => variantHolder[v] = u
  BY <1>1 DEF ShelfAside
<1>3. \A v \in Variant : variantHolder[v] = u =>
         variantHolder'[v] = u /\ variantDraft'[v] = variantDraft[v] /\ variant'[v] = variant[v]
  BY <1>1 DEF ShelfAside
<1>4. CASE r = Shelf!Idle
  BY <1>1, <1>4 DEF Promises
<1>5. CASE r # Shelf!Idle /\ r.price = Keep
  <2>1. Leaves(u)
    BY <1>5 DEF Promises
  <2>2. Leaves(u)'
    BY <1>1, <1>2, <1>3, <2>1 DEF Leaves
  <2> QED BY <1>1, <1>5, <2>2 DEF Promises
<1>6. CASE r # Shelf!Idle /\ r.price # Keep
  <2>1. r.price \in Variant
    BY <1>1, <1>6 DEF ShelfTypeOK
  <2>2. WillPut(r) \/ HasPut(u)
    BY <1>6 DEF Promises
  <2>3. HasPut(u) => HasPut(u)'
    BY <1>1, <1>3, <2>1 DEF HasPut
  <2>4. WillPut(r) => WillPut(shelfRequest'[u])
    BY <1>1
  <2> QED BY <1>1, <1>6, <2>2, <2>3, <2>4 DEF Promises
<1> QED BY <1>4, <1>5, <1>6

-----------------------------------------------------------------------------
(* A request begins.                                                       *)

LEMMA ShelfBegins ==
    ASSUME ShelfInv, NEW t \in Tx, NEW op, NEW steps \in Seq(VariantStatement),
           NEW status, NEW sum, NEW price \in Variant \cup {Keep},
           IF price = Keep THEN \A j \in 1..Len(steps) : LeavesFlags(steps[j])
           ELSE \E i \in 1..Len(steps) :
                   Puts(steps[i], price) /\ \A j \in i..Len(steps) : Spares(steps[j], price),
           Shelf!Begin(t, Shelf!Working(op, steps, status, sum, price))
    PROVE  ShelfInv'
<1> DEFINE q == Shelf!Working(op, steps, status, sum, price)
<1>1. /\ shelfRequest[t] = Shelf!Idle
      /\ shelfRequest' = [shelfRequest EXCEPT ![t] = q]
      /\ UNCHANGED <<variant, variantDraft, variantHolder>>
  BY DEF Shelf!Begin, Shelf!Starts, Shelf!Go, Shelf!AtVariants
<1>2. DOMAIN q = ShelfFields /\ q.steps = steps /\ q.price = price /\ q # Shelf!Idle
  <2>1. DOMAIN q = ShelfFields /\ q.steps = steps /\ q.price = price /\ q.stage = "write"
    BY DEF Shelf!Working, ShelfFields
  <2> QED BY <2>1 DEF Shelf!Idle
<1> HIDE DEF q
<1>3. ShelfTypeOK'
  <2>1. shelfRequest' = [u \in Tx |-> shelfRequest'[u]]
    BY <1>1 DEF ShelfInv, ShelfTypeOK
  <2>2. ASSUME NEW u \in Tx, shelfRequest'[u] # Shelf!Idle
        PROVE  /\ DOMAIN shelfRequest'[u] = ShelfFields
               /\ shelfRequest'[u].steps \in Seq(VariantStatement)
               /\ shelfRequest'[u].price \in Variant \cup {Keep}
    BY <1>1, <1>2, <2>2 DEF ShelfInv, ShelfTypeOK
  <2> QED BY <1>1, <2>1, <2>2 DEF ShelfInv, ShelfTypeOK, ShelfTable
<1>4. ASSUME NEW v \in Variant
      PROVE  variantHolder[v] # t
  BY <1>1 , NoTxAssumption DEF ShelfInv, ShelfHeld
<1>5. ShelfHeld'
  BY <1>1, <1>4 DEF ShelfInv, ShelfHeld, ShelfTypeOK
<1>6. IsFiniteSet(LiveAnywhere)' /\ SomeDefault'
  BY <1>1 DEF ShelfInv, LiveAnywhere, SomeDefault
<1>7. shelfRequest'[t] = q /\ \A u \in Tx \ {t} : shelfRequest'[u] = shelfRequest[u]
  BY <1>1 DEF ShelfInv, ShelfTypeOK
<1>8. Promises(t)'
  <2>1. CASE price = Keep
    BY <1>1, <1>2, <1>4, <1>7, <2>1 DEF Promises, Leaves
  <2>2. CASE price # Keep
    BY <1>2, <1>7, <2>2 DEF Promises, WillPut
  <2> QED BY <2>1, <2>2
<1>9. ShelfAside(t)
  BY <1>1, <1>7 DEF ShelfAside
<1>10. ASSUME NEW u \in Tx PROVE Promises(u)'
  BY <1>8, <1>9, <1>10, OthersStillPromise DEF ShelfInv
<1> QED BY <1>3, <1>5, <1>6, <1>10 DEF ShelfInv

LEMMA ToggleKeepsShelf ==
    ASSUME ShelfInv, NEW t \in Tx, NEW v \in Variant, NEW active \in BOOLEAN,
           Shelf!BeginToggle(t, v, active)
    PROVE  ShelfInv'
<1> DEFINE promoted == Shelf!Promoted(v, active)
           next     == (Shelf!OnSale(variant) \ {v}) \cup (IF active THEN {v} ELSE {})
           status   == Shelf!Resolve(Keep, prod.status, next # {})
           clear    == Shelf!Statement("clear", v, Keep, Keep, Keep)
           flip     == Shelf!Statement("update", v, active,
                                       IF promoted = v THEN TRUE ELSE Keep, Keep)
           put      == Shelf!Statement("update", promoted, Keep, TRUE, Keep)
           steps    == IF promoted = Keep THEN <<flip>>
                       ELSE IF promoted = v THEN <<clear, flip>> ELSE <<clear, flip, put>>
<1>1. promoted \in Variant \cup {Keep}
  <2>1. ASSUME Shelf!OnSale(variant) \ {v} # {}
        PROVE  Shelf!First(Shelf!OnSale(variant) \ {v}) \in Variant
    BY <2>1, FirstIsIn DEF Shelf!OnSale, Shelf!Live
  <2> QED BY <2>1 DEF Shelf!Promoted
<1>2. Shelf!Begin(t, Shelf!Working("toggle", steps, status, Keep, promoted))
  BY DEF Shelf!BeginToggle
<1> HIDE DEF promoted, status, next
<1>3. Keep \notin Variant
  BY ShelfAssumption
<1>4. /\ clear \in VariantStatement /\ clear.do = "clear"
      /\ flip \in VariantStatement /\ flip.do = "update" /\ flip.id = v
      /\ flip.default = IF promoted = v THEN TRUE ELSE Keep
  BY DEF Shelf!Statement, VariantStatement
<1>5. promoted # Keep => /\ put \in VariantStatement /\ put.do = "update"
                         /\ put.id = promoted /\ put.default = TRUE
  BY <1>1 DEF Shelf!Statement, VariantStatement
<1> HIDE DEF clear, flip, put
<1>6. CASE promoted = Keep
  <2>1. steps \in Seq(VariantStatement) /\ Len(steps) = 1 /\ steps[1] = flip
    BY <1>4, <1>6
  <2>2. LeavesFlags(flip)
    BY <1>3, <1>4, <1>6 DEF LeavesFlags
  <2>3. \A j \in 1..Len(steps) : LeavesFlags(steps[j])
    BY <2>1, <2>2
  <2> HIDE DEF steps
  <2> QED BY <1>1, <1>2, <1>6, <2>1, <2>3, ShelfBegins
<1>7. CASE promoted = v
  <2>1. steps \in Seq(VariantStatement) /\ Len(steps) = 2 /\ steps[2] = flip
    BY <1>3, <1>4, <1>7
  <2>2. Puts(flip, promoted) /\ Spares(flip, promoted)
    BY <1>4, <1>7 DEF Puts, Spares
  <2> HIDE DEF steps
  <2>3. \E i \in 1..Len(steps) :
           Puts(steps[i], promoted) /\ \A j \in i..Len(steps) : Spares(steps[j], promoted)
    BY <2>1, <2>2
  <2> QED BY <1>1, <1>2, <1>3, <1>7, <2>1, <2>3, ShelfBegins
<1>8. CASE promoted \notin {v, Keep}
  <2>1. steps \in Seq(VariantStatement) /\ Len(steps) = 3 /\ steps[3] = put
    BY <1>4, <1>5, <1>8
  <2>2. Puts(put, promoted) /\ Spares(put, promoted)
    BY <1>5, <1>8 DEF Puts, Spares
  <2> HIDE DEF steps
  <2>3. \E i \in 1..Len(steps) :
           Puts(steps[i], promoted) /\ \A j \in i..Len(steps) : Spares(steps[j], promoted)
    BY <2>1, <2>2
  <2> QED BY <1>1, <1>2, <1>8, <2>1, <2>3, ShelfBegins
<1> QED BY <1>6, <1>7, <1>8

\* Requests whose closing UPDATE is all they write, and a sale.
LEMMA PlainKeepsShelf ==
    ASSUME ShelfInv, NEW t \in Tx,
           \/ \E status \in Statuses : Shelf!BeginStatus(t, status)
           \/ Shelf!BeginRetire(t)
           \/ \E v \in Variant : Shelf!BeginSale(t, v)
    PROVE  ShelfInv'
<1>1. ASSUME NEW op, NEW status, NEW sum,
             Shelf!Begin(t, Shelf!Working(op, <<>>, status, sum, Keep))
      PROVE  ShelfInv'
  <2>1. <<>> \in Seq(VariantStatement) /\ \A j \in 1..Len(<<>>) : LeavesFlags(<<>>[j])
    OBVIOUS
  <2> QED BY <1>1, <2>1, ShelfBegins
<1>2. ASSUME NEW v \in Variant, Shelf!BeginSale(t, v)
      PROVE  ShelfInv'
  <2> DEFINE sell == Shelf!Statement("sell", v, Keep, Keep, Keep)
             steps == <<sell>>
  <2>1. sell \in VariantStatement /\ sell.do = "sell"
    BY DEF Shelf!Statement, VariantStatement
  <2>2. Shelf!Begin(t, Shelf!Working("sell", steps, Keep, Keep, Keep))
    BY <1>2 DEF Shelf!BeginSale
  <2> HIDE DEF sell
  <2>3. steps \in Seq(VariantStatement) /\ Len(steps) = 1 /\ steps[1] = sell
    BY <2>1
  <2>4. \A j \in 1..Len(steps) : LeavesFlags(steps[j])
    BY <2>1, <2>3 DEF LeavesFlags
  <2> HIDE DEF steps
  <2> QED BY <2>2, <2>3, <2>4, ShelfBegins
<1>3. CASE \E status \in Statuses : Shelf!BeginStatus(t, status)
  BY <1>1, <1>3 DEF Shelf!BeginStatus
<1>4. CASE Shelf!BeginRetire(t)
  BY <1>1, <1>4 DEF Shelf!BeginRetire
<1> QED BY <1>2, <1>3, <1>4
-----------------------------------------------------------------------------
Covers(s, S) == \A x \in S : \E i \in 1..Len(s) : s[i].id = x

\* The steps of one kind, in the order of their ids.
LEMMA EachIsListed ==
    ASSUME NEW S, S \subseteq Variant, IsFiniteSet(S), NEW s,
           s = [i \in 1..Shelf!Cardinality(S) |-> s[i]],
           \A i \in 1..Shelf!Cardinality(S) :
              s[i] \in VariantStatement /\ s[i].id = Shelf!Ascending(S)[i]
    PROVE  /\ s \in Seq(VariantStatement) /\ Len(s) = Shelf!Cardinality(S)
           /\ \A i \in 1..Len(s) : s[i] \in VariantStatement /\ s[i].id \in S
           /\ Covers(s, S)
<1>1. /\ Cardinality(S) \in Nat
      /\ Shelf!Ascending(S) \in [1..Cardinality(S) -> S]
      /\ \A x \in S : \E i \in 1..Cardinality(S) : Shelf!Ascending(S)[i] = x
  BY AscendingListsAll
<1>2. PICK n \in Nat : n = Cardinality(S)
  BY <1>1
<1>3. Shelf!Cardinality(S) = n
  BY <1>2, ShelfCounts
<1>4. s \in Seq(VariantStatement) /\ Len(s) = n
  BY <1>3
<1> QED BY <1>1, <1>2, <1>3, <1>4 DEF Covers

LEMMA DefaultIsListed ==
    ASSUME NEW body \in Bodies
    PROVE  Shelf!DefaultOf(body) \in Shelf!Listed(body)
<1>1. Shelf!Listed(body) \subseteq Variant /\ Shelf!Listed(body) # {}
  BY ShelfAssumption DEF Shelf!Listed
<1>2. /\ Shelf!WillBeActive(body) \subseteq Shelf!Listed(body)
      /\ Shelf!Flagged(body) \subseteq Shelf!Listed(body)
  BY DEF Shelf!WillBeActive, Shelf!Flagged
<1>3. \A S \in SUBSET Shelf!Listed(body) : S # {} => Shelf!First(S) \in S
  BY <1>1, FirstIsIn
<1> QED BY <1>1, <1>2, <1>3 DEF Shelf!DefaultOf

Marks(s, do, d) == s.do = do /\ s.default = (s.id = d)

\* The plan of a list updates or creates its default, and no step of it takes
\* the default away.
LEMMA PlanPuts ==
    ASSUME ShelfInv, NEW body \in Bodies
    PROVE  LET steps == Shelf!Plan(body)
               d     == Shelf!DefaultOf(body)
           IN  /\ steps \in Seq(VariantStatement)
               /\ \E i \in 1..Len(steps) : Puts(steps[i], d)
               /\ \A j \in 1..Len(steps) : Spares(steps[j], d)
<1> DEFINE d       == Shelf!DefaultOf(body)
           live    == Shelf!Live(variant)
           listed  == Shelf!Listed(body)
           both    == listed \cap live
           gone(v) == Shelf!Statement("delete", v, Keep, Keep, Keep)
           put(v)  == Shelf!Statement("update", v, body[v].active, v = d, body[v].quantity)
           new(v)  == Shelf!Statement("create", v, v \in Shelf!WillBeActive(body), v = d,
                                      Shelf!Or(body[v].quantity, 0))
           A == [i \in 1..Shelf!Cardinality(live \ listed) |->
                    gone(Shelf!Ascending(live \ listed)[i])]
           B == [i \in 1..Shelf!Cardinality(both) |->
                    put(Shelf!Ascending(both)[i])]
           C == [i \in 1..Shelf!Cardinality(listed \ live) |->
                    new(Shelf!Ascending(listed \ live)[i])]
<1>1. Shelf!Plan(body) = A \o B \o C
  BY DEF Shelf!Plan
<1>2. /\ d \in listed /\ listed \subseteq Variant /\ live \subseteq Variant
      /\ IsFiniteSet(listed) /\ IsFiniteSet(live)
  <2>1. IsFiniteSet(listed)
    BY ShelfAssumption DEF Shelf!Listed
  <2>2. IsFiniteSet(LiveAnywhere) /\ live \in SUBSET LiveAnywhere
    BY DEF ShelfInv, LiveAnywhere, Shelf!Live
  <2>3. IsFiniteSet(live)
    BY <2>2, FS_Subset
  <2> QED BY <2>1, <2>3, DefaultIsListed DEF Shelf!Live, Shelf!Listed
<1>3. /\ IsFiniteSet(live \ listed) /\ IsFiniteSet(both) /\ IsFiniteSet(listed \ live)
  <2>1. live \ listed \in SUBSET live /\ both \in SUBSET live
        /\ listed \ live \in SUBSET listed
    OBVIOUS
  <2> QED BY <1>2, <2>1, FS_Subset
<1>4. ASSUME NEW v \in listed
      PROVE  /\ body[v].active \in BOOLEAN \cup {Keep} /\ body[v].quantity \in Nat \cup {Keep}
             /\ Shelf!Or(body[v].quantity, 0) \in Nat \cup {Keep}
  <2>1. body[v] \in [active : BOOLEAN \cup {Keep}, default : BOOLEAN \cup {Keep},
                     quantity : Nat \cup {Keep}]
    BY ShelfAssumption DEF Shelf!Listed
  <2> QED BY <2>1 DEF Shelf!Or
<1>5. ASSUME NEW S, S \subseteq Variant, IsFiniteSet(S), NEW i \in 1..Shelf!Cardinality(S)
      PROVE  Shelf!Ascending(S)[i] \in S
  BY <1>5, AscendingListsAll, ShelfCounts
<1>16. both \subseteq listed /\ (d \in live => d \in both)
  BY <1>2
<1> HIDE DEF live, listed, d, both
<1>6. /\ A \in Seq(VariantStatement)
      /\ \A i \in 1..Len(A) : A[i].do = "delete" /\ A[i].id # d
  <2>1. A = [i \in 1..Shelf!Cardinality(live \ listed) |-> A[i]]
    OBVIOUS
  <2>2. ASSUME NEW i \in 1..Shelf!Cardinality(live \ listed)
        PROVE  /\ A[i] \in VariantStatement /\ A[i].id = Shelf!Ascending(live \ listed)[i]
               /\ A[i].do = "delete"
    <3>1. Shelf!Ascending(live \ listed)[i] \in Variant
      BY <1>2, <1>3, <1>5
    <3> QED BY <3>1 DEF Shelf!Statement, VariantStatement
  <2> HIDE DEF A, B, C
  <2>3. /\ A \in Seq(VariantStatement) /\ Len(A) = Shelf!Cardinality(live \ listed)
        /\ \A i \in 1..Len(A) : A[i].id \in live \ listed
    BY <1>2, <1>3, <2>1, <2>2, EachIsListed
  <2>4. \A i \in 1..Len(A) : A[i].do = "delete"
    BY <2>2, <2>3
  <2> QED BY <1>2, <2>3, <2>4
<1>7. /\ B \in Seq(VariantStatement)
      /\ \A i \in 1..Len(B) : Marks(B[i], "update", d)
      /\ d \in live => \E i \in 1..Len(B) : B[i].id = d
  <2>1. B = [i \in 1..Shelf!Cardinality(both) |-> B[i]]
    OBVIOUS
  <2>2. ASSUME NEW i \in 1..Shelf!Cardinality(both)
        PROVE  (B[i] \in VariantStatement /\ B[i].id = Shelf!Ascending(both)[i])
               /\ Marks(B[i], "update", d)
    <3>1. PICK v \in Variant \cap listed : v = Shelf!Ascending(both)[i]
      BY <1>2, <1>3, <1>5, <1>16
    <3>2. B[i] = put(v)
      BY <3>1
    <3>3. put(v) \in VariantStatement /\ put(v).id = v
      BY <1>4, <3>1 DEF Shelf!Statement, VariantStatement
    <3>4. Marks(put(v), "update", d)
      BY DEF Shelf!Statement, Marks
    <3> QED BY <3>1, <3>2, <3>3, <3>4
  <2> HIDE DEF A, B, C
  <2>3. both \subseteq Variant
    BY <1>2, <1>16
  <2>6. \A i \in 1..Shelf!Cardinality(both) :
           B[i] \in VariantStatement /\ B[i].id = Shelf!Ascending(both)[i]
    BY <2>2
  <2>7. IsFiniteSet(both)
    BY <1>3
  <2>4. /\ B \in Seq(VariantStatement) /\ Len(B) = Shelf!Cardinality(both)
        /\ Covers(B, both)
    BY <2>1, <2>3, <2>6, <2>7, EachIsListed
  <2>5. \A i \in 1..Len(B) : Marks(B[i], "update", d)
    BY <2>2, <2>4
  <2> QED BY <1>2, <1>16, <2>4, <2>5 DEF Covers
<1>8. /\ C \in Seq(VariantStatement)
      /\ \A i \in 1..Len(C) : Marks(C[i], "create", d)
      /\ d \notin live => \E i \in 1..Len(C) : C[i].id = d
  <2>1. C = [i \in 1..Shelf!Cardinality(listed \ live) |-> C[i]]
    OBVIOUS
  <2>2. ASSUME NEW i \in 1..Shelf!Cardinality(listed \ live)
        PROVE  (C[i] \in VariantStatement /\ C[i].id = Shelf!Ascending(listed \ live)[i])
               /\ Marks(C[i], "create", d)
    <3>1. PICK v \in Variant \cap listed : v = Shelf!Ascending(listed \ live)[i]
      BY <1>2, <1>3, <1>5
    <3>2. C[i] = new(v)
      BY <3>1
    <3>3. new(v) \in VariantStatement /\ new(v).id = v
      BY <1>4, <3>1 DEF Shelf!Statement, VariantStatement
    <3>4. Marks(new(v), "create", d)
      BY DEF Shelf!Statement, Marks
    <3> QED BY <3>1, <3>2, <3>3, <3>4
  <2> HIDE DEF A, B, C
  <2>3. listed \ live \subseteq Variant
    BY <1>2
  <2>6. \A i \in 1..Shelf!Cardinality(listed \ live) :
           C[i] \in VariantStatement /\ C[i].id = Shelf!Ascending(listed \ live)[i]
    BY <2>2
  <2>7. IsFiniteSet(listed \ live)
    BY <1>3
  <2>4. /\ C \in Seq(VariantStatement) /\ Len(C) = Shelf!Cardinality(listed \ live)
        /\ Covers(C, listed \ live)
    BY <2>1, <2>3, <2>6, <2>7, EachIsListed
  <2>5. \A i \in 1..Len(C) : Marks(C[i], "create", d)
    BY <2>2, <2>4
  <2> QED BY <1>2, <2>4, <2>5 DEF Covers
<1> HIDE DEF A, B, C
<1> DEFINE AB == A \o B
           steps == AB \o C
<1>9. /\ AB \in Seq(VariantStatement) /\ Len(AB) = Len(A) + Len(B)
      /\ \A k \in 1..Len(AB) : AB[k] = IF k <= Len(A) THEN A[k] ELSE B[k - Len(A)]
      /\ Len(A) \in Nat /\ Len(B) \in Nat /\ Len(C) \in Nat
  BY <1>6, <1>7, <1>8
<1>10. /\ \A k \in 1..Len(AB) : Spares(AB[k], d)
       /\ d \in live => \E k \in 1..Len(AB) : Puts(AB[k], d)
  <2>1. \A i \in 1..Len(A) : Spares(A[i], d)
    BY <1>6 DEF Spares
  <2>2. \A i \in 1..Len(B) : Spares(B[i], d) /\ (B[i].id = d => Puts(B[i], d))
    BY <1>7 DEF Spares, Puts, Marks
  <2>3. \A k \in 1..Len(AB) : k <= Len(A) \/ k - Len(A) \in 1..Len(B)
    BY <1>9
  <2>4. \A k \in 1..Len(AB) : k <= Len(A) => k \in 1..Len(A)
    BY <1>9
  <2>5. \A k \in 1..Len(AB) : Spares(AB[k], d)
    BY <1>9, <2>1, <2>2, <2>3, <2>4
  <2>6. ASSUME d \in live PROVE \E k \in 1..Len(AB) : Puts(AB[k], d)
    <3>1. PICK i \in 1..Len(B) : B[i].id = d
      BY <1>7, <2>6
    <3>2. Len(A) + i \in 1..Len(AB) /\ ~(Len(A) + i <= Len(A)) /\ (Len(A) + i) - Len(A) = i
      BY <1>9, <3>1
    <3>3. AB[Len(A) + i] = B[i]
      BY <1>9, <3>2
    <3> QED BY <2>2, <3>1, <3>2, <3>3
  <2> QED BY <2>5, <2>6
<1>11. /\ steps \in Seq(VariantStatement) /\ Len(steps) = Len(AB) + Len(C) /\ Len(AB) \in Nat
       /\ \A k \in 1..Len(steps) : steps[k] = IF k <= Len(AB) THEN AB[k] ELSE C[k - Len(AB)]
  BY <1>8, <1>9
<1>12. steps = Shelf!Plan(body)
  BY <1>1
<1> HIDE DEF AB, steps
<1>13. \A i \in 1..Len(C) : Spares(C[i], d) /\ (C[i].id = d => Puts(C[i], d))
  BY <1>8 DEF Spares, Puts, Marks
<1>14. \A k \in 1..Len(steps) : Spares(steps[k], d)
  <2>1. \A k \in 1..Len(steps) : k \in 1..Len(AB) \/ (~(k <= Len(AB)) /\ k - Len(AB) \in 1..Len(C))
    BY <1>9, <1>11
  <2>2. \A k \in 1..Len(AB) : k <= Len(AB)
    BY <1>11
  <2>3. \A k \in 1..Len(steps) : k \in 1..Len(AB) => Spares(steps[k], d)
    BY <1>10, <1>11, <2>2
  <2>4. \A k \in 1..Len(steps) : ~(k <= Len(AB)) /\ k - Len(AB) \in 1..Len(C) => Spares(steps[k], d)
    BY <1>11, <1>13
  <2> QED BY <2>1, <2>3, <2>4
<1>15. \E k \in 1..Len(steps) : Puts(steps[k], d)
  <2>1. CASE d \in live
    <3>1. PICK k \in 1..Len(AB) : Puts(AB[k], d)
      BY <1>10, <2>1
    <3>2. k \in 1..Len(steps) /\ k <= Len(AB)
      BY <1>9, <1>11, <3>1
    <3> QED BY <1>11, <3>1, <3>2
  <2>2. CASE d \notin live
    <3>1. PICK i \in 1..Len(C) : C[i].id = d
      BY <1>8, <2>2
    <3>2. Len(AB) + i \in 1..Len(steps) /\ ~(Len(AB) + i <= Len(AB)) /\ (Len(AB) + i) - Len(AB) = i
      BY <1>9, <1>11, <3>1
    <3>3. steps[Len(AB) + i] = C[i]
      BY <1>11, <3>2
    <3> QED BY <1>13, <3>1, <3>2, <3>3
  <2> QED BY <2>1, <2>2
<1> QED BY <1>11, <1>12, <1>14, <1>15 DEF d

LEMMA ListKeepsShelf ==
    ASSUME ShelfInv, NEW t \in Tx, NEW body \in Bodies, Shelf!BeginList(t, body)
    PROVE  ShelfInv'
<1> DEFINE steps == Shelf!Plan(body)
           d     == Shelf!DefaultOf(body)
<1>1. /\ steps \in Seq(VariantStatement)
      /\ \E i \in 1..Len(steps) : Puts(steps[i], d)
      /\ \A j \in 1..Len(steps) : Spares(steps[j], d)
  BY PlanPuts
<1>2. d \in Variant /\ d # Keep
  <2>1. d \in Variant
    BY DefaultIsListed DEF Shelf!Listed
  <2> QED BY <2>1, ShelfAssumption
<1>3. \E status, sum : Shelf!Begin(t, Shelf!Working("list", steps, status, sum, d))
  BY DEF Shelf!BeginList
<1> HIDE DEF steps, d
<1>4. Len(steps) \in Nat
  BY <1>1
<1>5. \A i \in 1..Len(steps) : \A j \in i..Len(steps) : Spares(steps[j], d)
  <2>1. \A i \in 1..Len(steps) : \A j \in i..Len(steps) : j \in 1..Len(steps)
    BY <1>4
  <2> QED BY <1>1, <2>1
<1>6. \E i \in 1..Len(steps) :
         Puts(steps[i], d) /\ \A j \in i..Len(steps) : Spares(steps[j], d)
  BY <1>1, <1>5
<1> QED BY <1>1, <1>2, <1>3, <1>6, ShelfBegins
-----------------------------------------------------------------------------
(* The statements of a transaction.                                        *)

\* The request goes on with other steps; rows move only under its own lock.
LEMMA ShelfGoesOn ==
    ASSUME ShelfInv, NEW t \in Tx, shelfRequest[t] # Shelf!Idle,
           NEW q, DOMAIN q = ShelfFields, q # Shelf!Idle,
           q.steps \in Seq(VariantStatement), q.price = shelfRequest[t].price,
           shelfRequest' = [shelfRequest EXCEPT ![t] = q],
           ShelfAside(t), ShelfTable(variantDraft)',
           variantHolder' \in [Variant -> Tx \cup {NoTx}],
           \A v \in Variant : variantHolder'[v] = NoTx =>
               variantHolder[v] = NoTx /\ variantDraft'[v] = variantDraft[v],
           variant' = variant, IsFiniteSet(LiveAnywhere'),
           Promises(t)'
    PROVE  ShelfInv'
<1>1. shelfRequest'[t] = q /\ \A u \in Tx \ {t} : shelfRequest'[u] = shelfRequest[u]
  BY DEF ShelfInv, ShelfTypeOK
<1>2. ShelfTypeOK'
  <2>1. shelfRequest' = [u \in Tx |-> shelfRequest'[u]]
    BY DEF ShelfInv, ShelfTypeOK
  <2>2. ASSUME NEW u \in Tx, shelfRequest'[u] # Shelf!Idle
        PROVE  /\ DOMAIN shelfRequest'[u] = ShelfFields
               /\ shelfRequest'[u].steps \in Seq(VariantStatement)
               /\ shelfRequest'[u].price \in Variant \cup {Keep}
    <3>1. CASE u = t
      BY <1>1, <3>1 DEF ShelfInv, ShelfTypeOK
    <3>2. CASE u # t
      BY <1>1, <2>2, <3>2 DEF ShelfInv, ShelfTypeOK
    <3> QED BY <3>1, <3>2
  <2>3. ShelfTable(variant)'
    BY DEF ShelfInv, ShelfTypeOK, ShelfTable
  <2> QED BY <2>1, <2>2, <2>3 DEF ShelfTypeOK
<1>3. ShelfHeld'
  <2>1. ASSUME NEW v \in Variant, variantHolder'[v] # NoTx
        PROVE  shelfRequest'[variantHolder'[v]] # Shelf!Idle
    <3>1. CASE variantHolder'[v] = t
      BY <1>1, <3>1
    <3>2. CASE variantHolder'[v] # t
      <4>1. variantHolder'[v] = variantHolder[v] /\ variantHolder[v] \in Tx \ {t}
        BY <2>1, <3>2 DEF ShelfAside, ShelfInv, ShelfTypeOK
      <4> QED BY <1>1, <2>1, <4>1 DEF ShelfInv, ShelfHeld
    <3> QED BY <3>1, <3>2
  <2>2. \A v \in Variant : variantHolder'[v] = NoTx => variantDraft'[v] = variant'[v]
    BY DEF ShelfInv, ShelfHeld
  <2> QED BY <2>1, <2>2 DEF ShelfHeld
<1>4. SomeDefault'
  BY DEF ShelfInv, SomeDefault
<1>5. ASSUME NEW u \in Tx PROVE Promises(u)'
  <2>1. CASE u # t
    BY <2>1, OthersStillPromise DEF ShelfInv
  <2> QED BY <2>1
<1> QED BY <1>2, <1>3, <1>4, <1>5 DEF ShelfInv

LEMMA ClearKeepsShelf == ASSUME ShelfInv, NEW t \in Tx, Shelf!Clear(t) PROVE ShelfInv'
<1> DEFINE r    == shelfRequest[t]
           set  == Shelf!Defaults(Shelf!Rows(t))
           ids  == Shelf!Ascending(set)
           off(v) == Shelf!Statement("unset", v, Keep, FALSE, Keep)
           unset == [i \in 1..Len(ids) |-> off(ids[i])]
           steps == unset \o Tail(r.steps)
           q == [r EXCEPT !.steps = steps]
<1>1. /\ r.stage = "write" /\ r.steps # <<>> /\ Head(r.steps).do = "clear"
      /\ shelfRequest' = [shelfRequest EXCEPT ![t] = q]
      /\ UNCHANGED <<variant, variantDraft, variantHolder>>
  BY DEF Shelf!Clear, Shelf!AtVariants
<1>2. r # Shelf!Idle
  BY <1>1 DEF Shelf!Idle
<1>3. /\ DOMAIN r = ShelfFields /\ r.steps \in Seq(VariantStatement) /\ Len(r.steps) \in Nat
      /\ Len(r.steps) >= 1 /\ r.steps[1].do = "clear" /\ r.price \in Variant \cup {Keep}
  <2>1. DOMAIN r = ShelfFields /\ r.steps \in Seq(VariantStatement) /\ r.price \in Variant \cup {Keep}
    BY <1>2 DEF ShelfInv, ShelfTypeOK
  <2> QED BY <1>1, <2>1
<1>4. set \subseteq Variant /\ IsFiniteSet(set)
  <2>1. set \subseteq LiveAnywhere
    BY DEF Shelf!Defaults, Shelf!Live, Shelf!Rows, Shelf!View, LiveAnywhere, ShelfInv, ShelfTypeOK
  <2> QED BY <2>1, FS_Subset DEF ShelfInv, LiveAnywhere
<1>5. unset \in Seq(VariantStatement)
  <2>1. Cardinality(set) \in Nat /\ ids \in [1..Cardinality(set) -> set]
    BY <1>4, AscendingListsAll
  <2>2. Len(ids) = Cardinality(set)
    BY <2>1
  <2>3. ASSUME NEW i \in 1..Len(ids) PROVE off(ids[i]) \in VariantStatement
    <3>1. ids[i] \in Variant
      BY <1>4, <2>1, <2>2
    <3> QED BY <3>1 DEF Shelf!Statement, VariantStatement
  <2>4. PICK m \in Nat : m = Len(ids)
    BY <2>1, <2>2
  <2>5. unset = [i \in 1..m |-> off(ids[i])] /\ \A i \in 1..m : off(ids[i]) \in VariantStatement
    BY <2>3, <2>4
  <2> HIDE DEF off, unset
  <2> QED BY <2>5
<1> HIDE DEF unset
<1> DEFINE n == Len(unset)
<1>6. /\ steps \in Seq(VariantStatement) /\ n \in Nat /\ Len(steps) = n + Len(r.steps) - 1
      /\ \A i \in 2..Len(r.steps) : n + i - 1 \in 1..Len(steps) /\ steps[n + i - 1] = r.steps[i]
  <2>1. Tail(r.steps) \in Seq(VariantStatement) /\ Len(Tail(r.steps)) = Len(r.steps) - 1
        /\ \A i \in 1..(Len(r.steps) - 1) : Tail(r.steps)[i] = r.steps[i + 1]
    BY <1>1, <1>3
  <2> HIDE DEF r
  <2>2. steps \in Seq(VariantStatement) /\ n \in Nat /\ Len(steps) = n + (Len(r.steps) - 1)
        /\ \A k \in 1..Len(steps) : k > n => steps[k] = Tail(r.steps)[k - n]
    BY <1>5, <2>1
  <2>3. ASSUME NEW i \in 2..Len(r.steps)
        PROVE  n + i - 1 \in 1..Len(steps) /\ steps[n + i - 1] = r.steps[i]
    <3>1. /\ n + i - 1 \in 1..Len(steps) /\ n + i - 1 > n /\ (n + i - 1) - n = i - 1
          /\ i - 1 \in 1..(Len(r.steps) - 1) /\ (i - 1) + 1 = i
      BY <1>3, <2>2
    <3> QED BY <2>1, <2>2, <3>1
  <2> QED BY <1>3, <2>2, <2>3
<1>7. DOMAIN q = ShelfFields /\ q.steps = steps /\ q.price = r.price /\ q # Shelf!Idle
  <2>1. DOMAIN q = ShelfFields /\ q.steps = steps /\ q.price = r.price /\ q.stage = "write"
    BY <1>1, <1>3 DEF ShelfFields
  <2> QED BY <2>1 DEF ShelfFields, Shelf!Idle
<1> HIDE DEF steps, q
<1>8. r.price # Keep
  <2>1. 1 \in 1..Len(r.steps) /\ ~LeavesFlags(r.steps[1])
    BY <1>3 DEF LeavesFlags
  <2> QED BY <1>2, <2>1 DEF ShelfInv, Promises, Leaves
<1>9. WillPut(r)
  <2>1. 1 \in 1..Len(r.steps) /\ ~Spares(r.steps[1], r.price)
    BY <1>3 DEF Spares
  <2>2. ~HasPut(t)
    BY <2>1 DEF HasPut
  <2> QED BY <1>2, <1>8, <2>2 DEF ShelfInv, Promises
<1>10. WillPut(q)
  <2>1. PICK i \in 1..Len(r.steps) :
            Puts(r.steps[i], r.price) /\ \A j \in i..Len(r.steps) : Spares(r.steps[j], r.price)
    BY <1>9 DEF WillPut
  <2>2. i \in 2..Len(r.steps)
    <3>1. i # 1
      BY <1>3, <2>1 DEF Puts
    <3> QED BY <1>3, <2>1, <3>1
  <2>3. n + i - 1 \in 1..Len(steps) /\ Puts(steps[n + i - 1], r.price)
    BY <1>6, <2>1, <2>2
  <2>4. ASSUME NEW k \in (n + i - 1)..Len(steps) PROVE Spares(steps[k], r.price)
    <3>1. k - n + 1 \in 2..Len(r.steps) /\ k - n + 1 \in i..Len(r.steps) /\ n + (k - n + 1) - 1 = k
      BY <1>3, <1>6, <2>2
    <3>2. steps[k] = r.steps[k - n + 1]
      BY <1>6, <3>1
    <3> QED BY <2>1, <3>1, <3>2
  <2> QED BY <1>7, <2>3, <2>4 DEF WillPut
<1>11. shelfRequest'[t] = q /\ \A u \in Tx \ {t} : shelfRequest'[u] = shelfRequest[u]
  BY <1>1 DEF ShelfInv, ShelfTypeOK
<1>12. Promises(t)'
  <2>1. WillPut(shelfRequest'[t])
    BY <1>10, <1>11
  <2>2. shelfRequest'[t].price # Keep
    BY <1>7, <1>8, <1>11
  <2> QED BY <2>1, <2>2 DEF Promises
<1>13. ShelfAside(t)
  BY <1>1, <1>11 DEF ShelfAside
<1>14. ShelfTable(variantDraft)' /\ IsFiniteSet(LiveAnywhere')
       /\ variantHolder' \in [Variant -> Tx \cup {NoTx}]
  BY <1>1 DEF ShelfInv, ShelfTypeOK, ShelfTable, LiveAnywhere
<1> QED BY <1>1, <1>2, <1>6, <1>7, <1>12, <1>13, <1>14, ShelfGoesOn

LEMMA SyncKeepsShelf == ASSUME ShelfInv, NEW t \in Tx, Shelf!Sync(t) PROVE ShelfInv'
<1> DEFINE r == shelfRequest[t]
           q == [r EXCEPT !.stage = "write"]
<1>1. /\ r.stage = "sync" /\ shelfRequest' = [shelfRequest EXCEPT ![t] = q]
      /\ UNCHANGED <<variant, variantDraft, variantHolder>>
  BY DEF Shelf!Sync, Shelf!AtVariants
<1>2. r # Shelf!Idle
  BY <1>1 DEF Shelf!Idle
<1>3. DOMAIN r = ShelfFields /\ r.steps \in Seq(VariantStatement)
  BY <1>2 DEF ShelfInv, ShelfTypeOK
<1>4. DOMAIN q = ShelfFields /\ q.steps = r.steps /\ q.price = r.price /\ q # Shelf!Idle
  <2>1. DOMAIN q = ShelfFields /\ q.steps = r.steps /\ q.price = r.price
    BY <1>3 DEF ShelfFields
  <2> QED BY <2>1 DEF ShelfFields, Shelf!Idle
<1> HIDE DEF q
<1>5. shelfRequest'[t] = q /\ \A u \in Tx \ {t} : shelfRequest'[u] = shelfRequest[u]
  BY <1>1 DEF ShelfInv, ShelfTypeOK
<1>6. Promises(t)'
  <2>1. CASE r.price = Keep
    <3>1. Leaves(t)
      BY <1>2, <2>1 DEF ShelfInv, Promises
    <3>2. Leaves(t)'
      BY <1>1, <1>4, <1>5, <3>1 DEF Leaves
    <3> QED BY <1>4, <1>5, <2>1, <3>2 DEF Promises
  <2>2. CASE r.price # Keep
    <3>1. WillPut(r) \/ HasPut(t)
      BY <1>2, <2>2 DEF ShelfInv, Promises
    <3>2. WillPut(r) => WillPut(q)
      BY <1>4 DEF WillPut
    <3>3. HasPut(t) => HasPut(t)'
      BY <1>1, <1>4, <1>5 DEF HasPut
    <3>4. WillPut(q) => WillPut(shelfRequest'[t])
      BY <1>5
    <3> QED BY <1>4, <1>5, <2>2, <3>1, <3>2, <3>3, <3>4 DEF Promises
  <2> QED BY <2>1, <2>2
<1>7. ShelfAside(t)
  BY <1>1, <1>5 DEF ShelfAside
<1>8. ShelfTable(variantDraft)' /\ IsFiniteSet(LiveAnywhere')
      /\ variantHolder' \in [Variant -> Tx \cup {NoTx}]
  BY <1>1 DEF ShelfInv, ShelfTypeOK, ShelfTable, LiveAnywhere
<1> QED BY <1>1, <1>2, <1>3, <1>4, <1>6, <1>7, <1>8, ShelfGoesOn
\* What a statement leaves of a row that it matches.
LEMMA SetRow ==
    ASSUME NEW row, DOMAIN row = {"life", "active", "default", "quantity"}, row.default \in BOOLEAN,
           NEW s \in VariantStatement, s.do # "clear", Shelf!Matches(row, s)
    PROVE  /\ DOMAIN Shelf!Set(row, s) = {"life", "active", "default", "quantity"}
           /\ Shelf!Set(row, s).default \in BOOLEAN
           /\ Puts(s, s.id) => Shelf!Set(row, s).life = "live" /\ Shelf!Set(row, s).default
           /\ LeavesFlags(s) => /\ Shelf!Set(row, s).life = row.life
                                /\ Shelf!Set(row, s).default = row.default
<1>1. s.do \in {"unset", "update", "create", "delete", "sell"} /\ s.default \in BOOLEAN \cup {Keep}
  BY DEF VariantStatement
<1>2. Keep # TRUE /\ Keep # FALSE
  BY ShelfAssumption
<1>3. CASE s.do = "delete"
  <2>1. Shelf!Set(row, s) = IF row.life = "live" THEN Shelf!Gone ELSE row
    BY <1>3 DEF Shelf!Set
  <2>2. /\ DOMAIN Shelf!Gone = {"life", "active", "default", "quantity"}
        /\ Shelf!Gone.default = FALSE
    BY DEF Shelf!Gone, Shelf!Blank
  <2>3. ~Puts(s, s.id) /\ ~LeavesFlags(s)
    BY <1>3 DEF Puts, LeavesFlags
  <2> QED BY <2>1, <2>2, <2>3
<1>4. CASE s.do = "sell"
  <2>1. Shelf!Set(row, s) = [row EXCEPT !.quantity = @ - 1]
    BY <1>4 DEF Shelf!Set
  <2>2. ~Puts(s, s.id)
    BY <1>4 DEF Puts
  <2> QED BY <2>1, <2>2
<1>5. CASE s.do \in {"unset", "update", "create"}
  <2> DEFINE new == Shelf!Set(row, s)
  <2>1. new = [life |-> "live", active |-> Shelf!Or(s.active, row.active),
               default |-> Shelf!Or(s.default, row.default),
               quantity |-> Shelf!Or(s.quantity, row.quantity)]
    BY <1>5 DEF Shelf!Set
  <2>2. /\ DOMAIN new = {"life", "active", "default", "quantity"}
        /\ new.life = "live" /\ new.default = Shelf!Or(s.default, row.default)
    BY <2>1
  <2>3. Shelf!Or(s.default, row.default) \in BOOLEAN
    BY <1>1 DEF Shelf!Or
  <2>4. Puts(s, s.id) => Shelf!Or(s.default, row.default) = TRUE
    BY <1>2 DEF Shelf!Or, Puts
  <2>5. LeavesFlags(s) => row.life = "live" /\ Shelf!Or(s.default, row.default) = row.default
    BY <1>5 DEF Shelf!Or, LeavesFlags, Shelf!Matches
  <2> HIDE DEF new
  <2> QED BY <2>2, <2>3, <2>4, <2>5 DEF new
<1> QED BY <1>1, <1>3, <1>4, <1>5

LEMMA WriteKeepsShelf == ASSUME ShelfInv, NEW t \in Tx, Shelf!Write(t) PROVE ShelfInv'
<1> DEFINE r    == shelfRequest[t]
           s    == Head(r.steps)
           row  == variantDraft[s.id]
           rows == [Shelf!Rows(t) EXCEPT ![s.id] = Shelf!Set(row, s)]
           told == [r EXCEPT !.stage = "sync", !.steps = Tail(r.steps), !.sum = Shelf!Total(rows)]
           calm == [r EXCEPT !.steps = Tail(r.steps)]
           q    == IF Shelf!Triggers(s) THEN told ELSE calm
<1>1. /\ r.stage = "write" /\ r.steps # <<>> /\ s.do # "clear"
      /\ variantHolder[s.id] \in {NoTx, t} /\ Shelf!Matches(row, s)
      /\ variant' = variant
  BY DEF Shelf!Write, Shelf!Free, Shelf!AtVariants
<1>2. \/ variantDraft' = variantDraft /\ variantHolder' = variantHolder /\ s.do \in {"unset", "delete"}
      \/ /\ variantDraft' = [variantDraft EXCEPT ![s.id] = Shelf!Set(row, s)]
         /\ variantHolder' = [variantHolder EXCEPT ![s.id] = t]
  BY DEF Shelf!Write, Shelf!AtVariants, Shelf!Lock
<1>3. shelfRequest' = [shelfRequest EXCEPT ![t] = q]
  BY DEF Shelf!Write
<1>4. r # Shelf!Idle
  BY <1>1 DEF Shelf!Idle
<1>5. /\ DOMAIN r = ShelfFields /\ r.steps \in Seq(VariantStatement) /\ Len(r.steps) \in Nat
      /\ Len(r.steps) >= 1 /\ s = r.steps[1] /\ s \in VariantStatement
      /\ r.price \in Variant \cup {Keep}
  <2>1. DOMAIN r = ShelfFields /\ r.steps \in Seq(VariantStatement) /\ r.price \in Variant \cup {Keep}
    BY <1>4 DEF ShelfInv, ShelfTypeOK
  <2> QED BY <1>1, <2>1
<1>6. DOMAIN q = ShelfFields /\ q.steps = Tail(r.steps) /\ q.price = r.price /\ q # Shelf!Idle
  <2>1. DOMAIN q = ShelfFields /\ q.steps = Tail(r.steps) /\ q.price = r.price
    BY <1>5 DEF ShelfFields
  <2> QED BY <2>1 DEF ShelfFields, Shelf!Idle
<1> HIDE DEF q
<1>7. /\ Tail(r.steps) \in Seq(VariantStatement) /\ Len(Tail(r.steps)) = Len(r.steps) - 1
      /\ \A i \in 1..(Len(r.steps) - 1) : Tail(r.steps)[i] = r.steps[i + 1]
  BY <1>1, <1>5
<1>8. s.id \in Variant
  BY <1>5 DEF VariantStatement
<1> DEFINE v   == s.id
           new == Shelf!Set(row, s)
<1>9. /\ DOMAIN row = {"life", "active", "default", "quantity"} /\ row.default \in BOOLEAN
      /\ DOMAIN new = {"life", "active", "default", "quantity"} /\ new.default \in BOOLEAN
      /\ Puts(s, v) => new.life = "live" /\ new.default
      /\ LeavesFlags(s) => new.life = row.life /\ new.default = row.default
  <2>1. DOMAIN row = {"life", "active", "default", "quantity"} /\ row.default \in BOOLEAN
    BY <1>8 DEF ShelfInv, ShelfTypeOK, ShelfTable
  <2> QED BY <1>1, <1>5, <2>1, SetRow
<1> HIDE DEF s, row, new
<1>10. /\ shelfRequest'[t] = q /\ \A u \in Tx \ {t} : shelfRequest'[u] = shelfRequest[u]
       /\ ShelfTable(variantDraft) /\ variantHolder \in [Variant -> Tx \cup {NoTx}]
  BY <1>3 DEF ShelfInv, ShelfTypeOK
<1>11. variantDraft = [x \in Variant |-> variantDraft[x]]
  BY <1>10 DEF ShelfTable
<1>12. /\ \A x \in Variant \ {v} : variantDraft'[x] = variantDraft[x] /\ variantHolder'[x] = variantHolder[x]
       /\ \/ /\ variantDraft'[v] = variantDraft[v] /\ variantHolder'[v] = variantHolder[v]
             /\ s.do \in {"unset", "delete"}
          \/ variantDraft'[v] = new /\ variantHolder'[v] = t
       /\ variantDraft' = [x \in Variant |-> variantDraft'[x]]
       /\ variantHolder' \in [Variant -> Tx \cup {NoTx}]
  <2>1. CASE variantDraft' = variantDraft /\ variantHolder' = variantHolder /\ s.do \in {"unset", "delete"}
    BY <1>10, <1>11, <2>1
  <2>2. CASE /\ variantDraft' = [variantDraft EXCEPT ![s.id] = new]
             /\ variantHolder' = [variantHolder EXCEPT ![s.id] = t]
    BY <1>8, <1>10, <1>11, <2>2
  <2> QED BY <1>2, <2>1, <2>2 DEF new
<1>13. ShelfAside(t)
  BY <1>1, <1>10, <1>12 DEF ShelfAside
<1>14. ShelfTable(variantDraft)'
  BY <1>8, <1>9, <1>10, <1>12 DEF ShelfTable
<1>15. IsFiniteSet(LiveAnywhere')
  <2>1. LiveAnywhere' \in SUBSET (LiveAnywhere \cup {v})
    BY <1>1, <1>8, <1>12 DEF LiveAnywhere
  <2>2. IsFiniteSet(LiveAnywhere \cup {v})
    BY FS_AddElement DEF ShelfInv
  <2> QED BY <2>1, <2>2, FS_Subset
<1>16. \A x \in Variant : variantHolder'[x] = NoTx =>
           variantHolder[x] = NoTx /\ variantDraft'[x] = variantDraft[x]
  BY <1>8, <1>12, NoTxAssumption
<1>17. ASSUME NEW j \in 1..Len(Tail(r.steps))
       PROVE  j + 1 \in 1..Len(r.steps) /\ Tail(r.steps)[j] = r.steps[j + 1]
  BY <1>5, <1>7
<1>18. CASE r.price = Keep
  <2>1. Leaves(t)
    BY <1>4, <1>18 DEF ShelfInv, Promises
  <2>2. LeavesFlags(s)
    BY <1>5, <2>1 DEF Leaves
  <2>3. \A j \in 1..Len(q.steps) : LeavesFlags(q.steps[j])
    BY <1>6, <1>17, <2>1 DEF Leaves
  <2>4. variantDraft[v] = row
    BY DEF row
  <2>5. variantHolder[v] = t \/ variantDraft[v] = variant[v]
    BY <1>1, <1>8 DEF s, ShelfInv, ShelfHeld
  <2>6. variantDraft[v].life = variant[v].life /\ variantDraft[v].default = variant[v].default
    BY <1>8, <2>1, <2>5 DEF Leaves
  <2>7. variantDraft'[v].life = variant[v].life /\ variantDraft'[v].default = variant[v].default
    BY <1>9, <1>12, <2>2, <2>4, <2>6
  <2>8. ASSUME NEW x \in Variant, variantHolder'[x] = t
        PROVE  variantDraft'[x].life = variant'[x].life /\ variantDraft'[x].default = variant'[x].default
    <3>1. CASE x = v
      BY <1>1, <2>7, <3>1
    <3>2. CASE x # v
      BY <1>1, <1>12, <2>1, <2>8, <3>2 DEF Leaves
    <3> QED BY <3>1, <3>2
  <2>9. Leaves(t)'
    BY <1>10, <2>3, <2>8 DEF Leaves
  <2> QED BY <1>1, <1>3, <1>4, <1>6, <1>7, <1>10, <1>12, <1>13, <1>14, <1>15, <1>16, <1>18, <2>9, ShelfGoesOn
     DEF Promises
<1>19. CASE r.price # Keep
  <2> DEFINE d == r.price
  <2>1. d \in Variant /\ (WillPut(r) \/ HasPut(t))
    BY <1>4, <1>5, <1>19 DEF ShelfInv, Promises
  <2>2. ASSUME Puts(s, d) PROVE variantHolder'[d] = t /\ variantDraft'[d].life = "live" /\ variantDraft'[d].default
    <3>1. v = d /\ s.do \notin {"unset", "delete"}
      BY <2>2 DEF Puts
    <3> QED BY <1>9, <1>12, <2>2, <3>1
  <2>3. ASSUME HasPut(t) PROVE HasPut(t)'
    <3>1. Spares(s, d)
      BY <1>5, <2>3 DEF HasPut
    <3>2. \A j \in 1..Len(q.steps) : Spares(q.steps[j], d)
      BY <1>6, <1>17, <2>3 DEF HasPut
    <3>3. variantHolder'[d] = t /\ variantDraft'[d].life = "live" /\ variantDraft'[d].default
      <4>1. CASE v = d
        BY <2>2, <3>1, <4>1 DEF Spares
      <4>2. CASE v # d
        BY <1>12, <2>1, <2>3, <4>2 DEF HasPut
      <4> QED BY <4>1, <4>2
    <3> QED BY <1>6, <1>10, <3>2, <3>3 DEF HasPut
  <2>4. ASSUME WillPut(r) PROVE WillPut(q) \/ HasPut(t)'
    <3>1. PICK i \in 1..Len(r.steps) :
              Puts(r.steps[i], d) /\ \A j \in i..Len(r.steps) : Spares(r.steps[j], d)
      BY <2>4 DEF WillPut
    <3>2. CASE i = 1
      <4>1. Puts(s, d)
        BY <1>5, <3>1, <3>2
      <4>2. ASSUME NEW j \in 1..Len(q.steps) PROVE Spares(q.steps[j], d)
        <5>1. j \in 1..Len(Tail(r.steps)) /\ q.steps[j] = r.steps[j + 1]
          BY <1>6, <1>17
        <5>2. j + 1 \in i..Len(r.steps)
          BY <1>17, <3>1, <3>2, <5>1
        <5> QED BY <3>1, <5>1, <5>2
      <4> QED BY <1>6, <1>10, <2>2, <4>1, <4>2 DEF HasPut
    <3>3. CASE i # 1
      <4>1. i - 1 \in 1..Len(q.steps) /\ q.steps[i - 1] = r.steps[i]
        <5>1. i - 1 \in 1..(Len(r.steps) - 1) /\ (i - 1) + 1 = i
          BY <1>5, <3>1, <3>3
        <5> QED BY <1>6, <1>7, <5>1
      <4>2. ASSUME NEW j \in (i - 1)..Len(q.steps) PROVE Spares(q.steps[j], d)
        <5>1. j \in 1..Len(Tail(r.steps)) /\ j + 1 \in i..Len(r.steps)
          BY <1>5, <1>6, <1>7, <3>1, <3>3
        <5> QED BY <1>6, <1>17, <3>1, <5>1
      <4> QED BY <1>6, <3>1, <4>1, <4>2 DEF WillPut
    <3> QED BY <3>2, <3>3
  <2>5. WillPut(q) => WillPut(shelfRequest'[t])
    BY <1>10
  <2>6. shelfRequest'[t].price # Keep
    BY <1>6, <1>10, <1>19
  <2>7. Promises(t)'
    BY <2>1, <2>3, <2>4, <2>5, <2>6 DEF Promises
  <2> QED BY <1>1, <1>3, <1>4, <1>6, <1>7, <1>10, <1>12, <1>13, <1>14, <1>15, <1>16, <2>7, ShelfGoesOn
<1> QED BY <1>18, <1>19
-----------------------------------------------------------------------------
(* A transaction ends.                                                     *)

LEMMA ShelfEnds ==
    ASSUME ShelfInv, NEW t \in Tx, shelfRequest[t] # Shelf!Idle,
           shelfRequest' = [shelfRequest EXCEPT ![t] = Shelf!Idle],
           variantHolder' = Shelf!Unlock(variantHolder, t),
           \/ /\ variant' = Shelf!Rows(t) /\ variantDraft' = variantDraft
           \/ /\ variantDraft' = Shelf!Discard(variant, variantDraft, variantHolder, t)
              /\ variant' = variant,
           SomeDefault'
    PROVE  ShelfInv'
<1>1. /\ ShelfTable(variant) /\ ShelfTable(variantDraft)
      /\ variantHolder \in [Variant -> Tx \cup {NoTx}] /\ DOMAIN variantHolder = Variant
  BY DEF ShelfInv, ShelfTypeOK
<1>2. /\ shelfRequest'[t] = Shelf!Idle
      /\ \A u \in Tx \ {t} : shelfRequest'[u] = shelfRequest[u]
      /\ shelfRequest' = [u \in Tx |-> shelfRequest'[u]]
  BY DEF ShelfInv, ShelfTypeOK
<1>3. /\ variantHolder' \in [Variant -> Tx \cup {NoTx}]
      /\ \A v \in Variant : variantHolder'[v] = IF variantHolder[v] = t THEN NoTx ELSE variantHolder[v]
  BY <1>1 DEF Shelf!Unlock
<1>4. /\ variant' = [v \in Variant |-> variant'[v]]
      /\ variantDraft' = [v \in Variant |-> variantDraft'[v]]
      /\ \A v \in Variant :
            /\ variantHolder[v] = t => variant'[v] = variantDraft'[v]
            /\ variantHolder[v] # t => variant'[v] = variant[v] /\ variantDraft'[v] = variantDraft[v]
            /\ variant'[v] \in {variant[v], variantDraft[v]}
            /\ variantDraft'[v] \in {variant[v], variantDraft[v]}
  <2>1. CASE variant' = Shelf!Rows(t) /\ variantDraft' = variantDraft
    BY <1>1, <2>1 DEF Shelf!Rows, Shelf!View, ShelfTable
  <2>2. CASE /\ variantDraft' = Shelf!Discard(variant, variantDraft, variantHolder, t)
             /\ variant' = variant
    BY <1>1, <2>2 DEF Shelf!Discard, ShelfTable
  <2> QED BY <2>1, <2>2
<1>5. ShelfTypeOK'
  <2>1. ShelfTable(variant)' /\ ShelfTable(variantDraft)'
    BY <1>1, <1>4 DEF ShelfTable
  <2>2. ASSUME NEW u \in Tx, shelfRequest'[u] # Shelf!Idle
        PROVE  /\ DOMAIN shelfRequest'[u] = ShelfFields
               /\ shelfRequest'[u].steps \in Seq(VariantStatement)
               /\ shelfRequest'[u].price \in Variant \cup {Keep}
    <3>1. u # t /\ shelfRequest'[u] = shelfRequest[u]
      BY <1>2, <2>2
    <3> QED BY <2>2, <3>1 DEF ShelfInv, ShelfTypeOK
  <2> QED BY <1>2, <1>3, <2>1, <2>2 DEF ShelfTypeOK
<1>6. ShelfHeld'
  <2>1. ASSUME NEW v \in Variant, variantHolder'[v] = NoTx PROVE variantDraft'[v] = variant'[v]
    BY <1>3, <1>4, <2>1 DEF ShelfInv, ShelfHeld
  <2>2. ASSUME NEW v \in Variant, variantHolder'[v] # NoTx
        PROVE  shelfRequest'[variantHolder'[v]] # Shelf!Idle
    <3>1. variantHolder'[v] = variantHolder[v] /\ variantHolder[v] \in Tx \ {t}
      BY <1>1, <1>3, <2>2
    <3> QED BY <1>2, <2>2, <3>1 DEF ShelfInv, ShelfHeld
  <2> QED BY <2>1, <2>2 DEF ShelfHeld
<1>7. IsFiniteSet(LiveAnywhere)'
  <2>1. LiveAnywhere' \in SUBSET LiveAnywhere
    BY <1>4 DEF LiveAnywhere
  <2> QED BY <2>1, FS_Subset DEF ShelfInv
<1>8. ShelfAside(t)
  BY <1>2, <1>3, <1>4 DEF ShelfAside
<1>9. ASSUME NEW u \in Tx PROVE Promises(u)'
  <2>1. CASE u = t
    BY <1>2, <2>1 DEF Promises
  <2>2. CASE u # t
    BY <1>8, <2>2, OthersStillPromise DEF ShelfInv
  <2> QED BY <2>1, <2>2
<1> QED BY <1>5, <1>6, <1>7, <1>9 DEF ShelfInv

LEMMA CommitKeepsShelf == ASSUME ShelfInv, NEW t \in Tx, Shelf!Commit(t) PROVE ShelfInv'
<1> DEFINE r == shelfRequest[t]
<1>1. /\ r.stage = "write" /\ r.steps = <<>>
      /\ variant' = Shelf!Rows(t) /\ variantDraft' = variantDraft
      /\ variantHolder' = Shelf!Unlock(variantHolder, t)
      /\ shelfRequest' = [shelfRequest EXCEPT ![t] = Shelf!Idle]
  BY DEF Shelf!Commit, Shelf!Finish, Shelf!Ends, Shelf!Go
<1>2. r # Shelf!Idle
  BY <1>1 DEF Shelf!Idle
<1>3. \A v \in Variant :
         variant'[v] = IF variantHolder[v] = t THEN variantDraft[v] ELSE variant[v]
  BY <1>1 DEF Shelf!Rows, Shelf!View, ShelfInv, ShelfTypeOK
<1>4. SomeDefault'
  <2>1. CASE r.price = Keep
    <3>1. Leaves(t)
      BY <1>2, <2>1 DEF ShelfInv, Promises
    <3>2. PICK d \in Variant : variant[d].life = "live" /\ variant[d].default
      BY DEF ShelfInv, SomeDefault
    <3>3. variant'[d].life = "live" /\ variant'[d].default
      BY <1>3, <3>1, <3>2 DEF Leaves
    <3> QED BY <3>3 DEF SomeDefault
  <2>2. CASE r.price # Keep
    <3>1. ~WillPut(r)
      BY <1>1 DEF WillPut
    <3>2. HasPut(t) /\ r.price \in Variant
      BY <1>2, <2>2, <3>1 DEF ShelfInv, ShelfTypeOK, Promises
    <3>3. variant'[r.price].life = "live" /\ variant'[r.price].default
      BY <1>3, <3>2 DEF HasPut
    <3> QED BY <3>2, <3>3 DEF SomeDefault
  <2> QED BY <2>1, <2>2
<1> QED BY <1>1, <1>2, <1>4, ShelfEnds

LEMMA AbortKeepsShelf == ASSUME ShelfInv, NEW t \in Tx, Shelf!Abort(t) PROVE ShelfInv'
<1>1. /\ shelfRequest[t] # Shelf!Idle
      /\ variantDraft' = Shelf!Discard(variant, variantDraft, variantHolder, t)
      /\ variant' = variant
      /\ variantHolder' = Shelf!Unlock(variantHolder, t)
      /\ shelfRequest' = [shelfRequest EXCEPT ![t] = Shelf!Idle]
  BY DEF Shelf!Abort, Shelf!Finish, Shelf!Ends, Shelf!Go
<1>2. SomeDefault'
  BY <1>1 DEF ShelfInv, SomeDefault
<1> QED BY <1>1, <1>2, ShelfEnds

LEMMA ShelfBeginning == Shelf!VariantsInit => ShelfInv
<1> SUFFICES ASSUME Shelf!VariantsInit PROVE ShelfInv
  OBVIOUS
<1>1. /\ variant = [v \in Variant |->
            IF v \notin FirstVariants THEN Shelf!Blank
            ELSE [life |-> "live", active |-> TRUE, default |-> v = Shelf!First(FirstVariants),
                  quantity |-> FirstStock]]
      /\ variantDraft = variant /\ variantHolder = [v \in Variant |-> NoTx]
      /\ shelfRequest = [t \in Tx |-> Shelf!Idle]
  BY DEF Shelf!VariantsInit
<1>2. \A v \in Variant :
         /\ DOMAIN variant[v] = {"life", "active", "default", "quantity"}
         /\ variant[v].default \in BOOLEAN
         /\ variant[v].life = "live" <=> v \in FirstVariants
         /\ v \in FirstVariants => variant[v].default = (v = Shelf!First(FirstVariants))
  <2>1. ASSUME NEW v \in Variant, v \notin FirstVariants
        PROVE  /\ DOMAIN variant[v] = {"life", "active", "default", "quantity"}
               /\ variant[v].default = FALSE /\ variant[v].life = "fresh"
    BY <1>1, <2>1 DEF Shelf!Blank
  <2>2. ASSUME NEW v \in Variant, v \in FirstVariants
        PROVE  /\ DOMAIN variant[v] = {"life", "active", "default", "quantity"}
               /\ variant[v].default = (v = Shelf!First(FirstVariants)) /\ variant[v].life = "live"
    BY <1>1, <2>2
  <2> QED BY <2>1, <2>2
<1>3. ShelfTable(variant)
  BY <1>1, <1>2 DEF ShelfTable
<1>4. ShelfTypeOK
  BY <1>1, <1>3 DEF ShelfTypeOK
<1>5. ShelfHeld
  BY <1>1 DEF ShelfHeld
<1>6. IsFiniteSet(LiveAnywhere)
  <2>1. LiveAnywhere \in SUBSET FirstVariants
    BY <1>1, <1>2 DEF LiveAnywhere
  <2> QED BY <2>1, FS_Subset, ShelfAssumption
<1>7. SomeDefault
  <2>1. Shelf!First(FirstVariants) \in FirstVariants /\ FirstVariants \subseteq Variant
    BY FirstIsIn, ShelfAssumption
  <2> QED BY <1>2, <2>1 DEF SomeDefault
<1>8. \A t \in Tx : Promises(t)
  BY <1>1 DEF Promises
<1> QED BY <1>4, <1>5, <1>6, <1>7, <1>8 DEF ShelfInv

\* However lists, toggles, sales and retirements of a product overlap, and
\* whatever rows they decided on, a committed product never has variants and
\* no default among them.
THEOREM DefaultAlwaysThere == Shelf!VariantsSpec => []AlwaysADefault
<1>1. ShelfInv /\ [Shelf!VariantsNext]_(Shelf!variantVars) => ShelfInv'
  <2> SUFFICES ASSUME ShelfInv, [Shelf!VariantsNext]_(Shelf!variantVars) PROVE ShelfInv'
    OBVIOUS
  <2>1. CASE UNCHANGED Shelf!variantVars
    <3>1. UNCHANGED <<variant, variantDraft, variantHolder, shelfRequest>>
      BY <2>1 DEF Shelf!variantVars
    <3>2. ShelfTypeOK' /\ ShelfHeld' /\ IsFiniteSet(LiveAnywhere)' /\ SomeDefault'
      BY <3>1 DEF ShelfInv, ShelfTypeOK, ShelfTable, ShelfHeld, LiveAnywhere, SomeDefault
    <3>3. \A t \in Tx : Promises(t)'
      BY <3>1 DEF ShelfInv, Promises, Leaves, HasPut
    <3> QED BY <3>2, <3>3 DEF ShelfInv
  <2>2. ASSUME NEW t \in Tx, Shelf!Ask(t) PROVE ShelfInv'
    <3>1. CASE \E v \in Variant, b \in BOOLEAN : Shelf!BeginToggle(t, v, b)
      BY <3>1, ToggleKeepsShelf
    <3>2. CASE \E body \in Bodies : Shelf!BeginList(t, body)
      BY <3>2, ListKeepsShelf
    <3>3. CASE \/ \E status \in Statuses : Shelf!BeginStatus(t, status)
               \/ Shelf!BeginRetire(t)
               \/ \E v \in Variant : Shelf!BeginSale(t, v)
      BY <3>3, PlainKeepsShelf
    <3> QED BY <2>2, <3>1, <3>2, <3>3 DEF Shelf!Ask
  <2>3. ASSUME NEW t \in Tx, Shelf!Serve(t) PROVE ShelfInv'
    BY <2>3, ClearKeepsShelf, WriteKeepsShelf, SyncKeepsShelf, CommitKeepsShelf, AbortKeepsShelf
       DEF Shelf!Serve
  <2> QED BY <2>1, <2>2, <2>3 DEF Shelf!VariantsNext
<1>2. ShelfInv => AlwaysADefault
  BY DEF ShelfInv, SomeDefault, AlwaysADefault, Shelf!AlwaysADefault, Shelf!Defaults, Shelf!Live
<1> QED BY <1>1, <1>2, ShelfBeginning, PTL DEF Shelf!VariantsSpec, AlwaysADefault

-----------------------------------------------------------------------------
(* What a lone edit arranges.  Nobody else holds a row or changes one, so  *)
(* the newest rows are the committed ones but for what the edit has done.  *)

\* Places are numbers, those of a plan from one on.
PlacesFit(r) ==
    /\ r.place \in Nat /\ r.covered \in BOOLEAN /\ r.up \in BOOLEAN
    /\ DOMAIN r.plan \subseteq Nat \ {0}

GalleryTyped ==
    /\ images \in [Image -> Gallery!ImageRow] /\ imagesDraft \in [Image -> Gallery!ImageRow]
    /\ IsFiniteSet(Gallery!Shown(images))
    /\ \A i \in Image : imagesHolder[i] # NoTx =>
          /\ imagesHolder[i] \in Editing
          /\ galleryRequest[imagesHolder[i]].stage \in Writing
    /\ \A t \in Editing : PlacesFit(galleryRequest[t])

\* The images an edit of these rows keeps, and the rows without the others.
Left(r, rows) == Gallery!Shown(rows) \ r.del
RowsLeft(r, rows) == [i \in Image |-> IF i \in r.del THEN Gallery!Nothing ELSE rows[i]]

\* What the edit is to leave.
Arranged(r, rows, for) ==
    /\ Gallery!Shown(rows) # {} /\ Gallery!Covers(rows) = {} => ~r.up /\ r.plan = Gallery!NoPlan
    /\ r.plan # Gallery!NoPlan =>
          {rows[i].order : i \in Gallery!Shown(rows)} = 0..(Cardinality(Gallery!Shown(rows)) - 1)
    /\ for = "combo" /\ r.up =>
          \A i \in Gallery!Shown(rows) \ {r.new} : rows[i].order < rows[r.new].order

\* Whether a new image becomes the cover is settled by what the edit keeps.
CoverKnown(r, rows, drafts, for) ==
    /\ for = "product" /\ r.stage \in {"upload", "delete", "insert"} =>
          (r.covered <=> Gallery!Covers(rows) \ r.del # {})
    /\ for = "combo" /\ r.stage \in {"max", "insert"} =>
          (r.covered <=> Gallery!Covers(drafts) # {})
    /\ for = "combo" /\ r.stage = "insert" =>
          \A i \in Gallery!Shown(drafts) : drafts[i].order < r.place

EditKeeps(r, rows, drafts, for) ==
    /\ r.stage \in {"upload", "delete"} \cup Writing =>
          /\ r.del \subseteq Gallery!Shown(rows)
          /\ r.plan # Gallery!NoPlan =>
                for = "product" /\ r.plan \in Gallery!Plans(Left(r, rows), r.up)
    /\ r.stage \in {"upload", "delete"} => drafts = rows
    /\ r.stage \in {"clear", "count", "max", "insert"} => drafts = RowsLeft(r, rows)
    /\ r.stage \in {"clear", "place"} => r.plan # Gallery!NoPlan
    /\ r.stage \in {"count", "max", "insert"} => r.plan = Gallery!NoPlan
    /\ r.stage \in {"count", "max"} => for = "combo"
    /\ r.stage = "place" => \A i \in Image : drafts[i].live <=> i \in Left(r, rows)
    /\ CoverKnown(r, rows, drafts, for)
    /\ r.stage = "commit" => Arranged(r, drafts, for)

GalleryLoneInv ==
    /\ kind \in {"product", "combo"}
    /\ GalleryTyped
    /\ Histories(galleryRequest, galleryAlone) /\ LoneIsLone(galleryRequest, galleryAlone)
    /\ \A t \in Tx : galleryAlone[t] => EditKeeps(galleryRequest[t], images, imagesDraft, kind)
LEMMA GalleryCounts == ASSUME NEW S PROVE Gallery!Cardinality(S) = Cardinality(S)
BY DEF Gallery!Cardinality, Cardinality

\* Finitely many numbers have a greatest.
LEMMA GreatestNumber ==
    ASSUME NEW S, IsFiniteSet(S), S # {}, NEW f, \A x \in S : f[x] \in Nat
    PROVE  \E m \in S : \A x \in S : f[x] <= f[m]
<1> DEFINE Bad == {u \in SUBSET S : u # {} /\ \A m \in u : \E x \in u : ~(f[x] <= f[m])}
<1> SUFFICES ASSUME Bad # {} PROVE FALSE
  OBVIOUS
<1>1. PICK s \in Bad : \A u \in Bad : u \subseteq s => u = s
  <2>1. Bad \subseteq SUBSET S
    OBVIOUS
  <2> HIDE DEF Bad
  <2> QED BY <2>1, SmallestSet
<1>2. s \subseteq S /\ s # {} /\ \A m \in s : \E x \in s : ~(f[x] <= f[m])
  OBVIOUS
<1>3. PICK x \in s : TRUE
  BY <1>2
<1>4. f[x] \in Nat /\ \A y \in s : f[y] \in Nat
  BY <1>2, <1>3
<1>5. s \ {x} # {}
  BY <1>2, <1>3, <1>4
<1>6. PICK m \in s \ {x} : \A y \in s \ {x} : f[y] <= f[m]
  <2>1. s \ {x} \notin Bad
    BY <1>1, <1>3
  <2> QED BY <1>2, <1>5, <2>1
<1>7. ~(f[x] <= f[m])
  BY <1>2, <1>3, <1>6
<1>8. \A y \in s : f[y] <= f[x]
  BY <1>4, <1>6, <1>7
<1> QED BY <1>2, <1>3, <1>8

\* The place after the last is past them all.
LEMMA NextPlaceIsLast ==
    ASSUME NEW rows \in [Image -> Gallery!ImageRow], IsFiniteSet(Gallery!Shown(rows))
    PROVE  /\ Gallery!NextPlace(rows) \in Nat
           /\ \A i \in Gallery!Shown(rows) : rows[i].order < Gallery!NextPlace(rows)
<1> DEFINE S == Gallery!Shown(rows)
           orders == {rows[i].order : i \in S}
           last == CHOOSE o \in orders : \A i \in S : rows[i].order <= o
<1>1. S \subseteq Image /\ \A i \in S : rows[i].order \in Nat
  BY DEF Gallery!Shown, Gallery!ImageRow
<1>2. CASE S = {}
  BY <1>2 DEF Gallery!NextPlace
<1>3. CASE S # {}
  <2> DEFINE f == [i \in S |-> rows[i].order]
  <2>1. \A i \in S : f[i] \in Nat /\ f[i] = rows[i].order
    BY <1>1
  <2> HIDE DEF f
  <2>2. \E m \in S : \A i \in S : f[i] <= f[m]
    BY <1>3, <2>1, GreatestNumber
  <2>3. \E o \in orders : \A i \in S : rows[i].order <= o
    BY <2>1, <2>2
  <2>4. last \in orders /\ \A i \in S : rows[i].order <= last
    BY <2>3
  <2>5. Gallery!NextPlace(rows) = 1 + last
    BY <1>3 DEF Gallery!NextPlace
  <2>6. orders \subseteq Nat
    BY <1>1
  <2> HIDE DEF last, orders
  <2> QED BY <1>1, <2>4, <2>5, <2>6
<1> QED BY <1>2, <1>3

\* The images in these places, and the place of one.
Placed(ids) == {ids[p] : p \in DOMAIN ids}
PlaceOf(ids, i) == CHOOSE p \in DOMAIN ids : ids[p] = i

\* An arrangement of all places them from 0 on, each once, the first one first.
LEMMA PlacesAreDense ==
    ASSUME NEW kept, IsFiniteSet(kept), 0 \notin kept, NEW up \in BOOLEAN,
           NEW all, all = kept \cup (IF up THEN {0} ELSE {}),
           NEW plan, plan \in Gallery!Orders(all), plan # <<>>,
           NEW new, new \notin kept, up => new # 0,
           NEW ids, DOMAIN ids = DOMAIN plan,
           \A p \in DOMAIN ids : ids[p] = IF plan[p] = 0 THEN new ELSE plan[p]
    PROVE  /\ \A x : x \in Placed(ids) <=> x \in kept \/ (up /\ x = new)
           /\ 1 \in DOMAIN ids /\ PlaceOf(ids, ids[1]) = 1
           /\ {PlaceOf(ids, i) - 1 : i \in Placed(ids)} = 0..(Cardinality(Placed(ids)) - 1)
<1> DEFINE n == Cardinality(all)
           T == Placed(ids)
           at(i) == PlaceOf(ids, i)
<1>1. IsFiniteSet(all)
  <2>1. all = kept \/ all = kept \cup {0}
    OBVIOUS
  <2> QED BY <2>1, FS_AddElement
<1>2. n \in Nat
  BY <1>1, FS_CardinalityType
<1>3. /\ plan \in [1..n -> all] /\ \A i, j \in 1..n : plan[i] = plan[j] => i = j
  BY GalleryCounts DEF Gallery!Orders
<1> HIDE DEF n
<1>4. plan \in Injection(1..n, all)
  BY <1>3 DEF Injection, IsInjective
<1>5. \A x \in all : \E p \in 1..n : plan[p] = x
  <2>1. Cardinality(1..n) = n
    BY <1>2, FS_Interval
  <2>2. plan \in Surjection(1..n, all)
    BY <1>1, <1>4, <2>1, FS_Injection DEF n
  <2> QED BY <2>2 DEF Surjection
<1>6. n # 0
  <2>1. SUFFICES ASSUME n = 0 PROVE FALSE
    OBVIOUS
  <2>2. 1..n = {} /\ plan = [p \in 1..n |-> plan[p]]
    BY <1>3, <2>1
  <2>3. plan = [p \in {} |-> plan[p]]
    BY <2>2
  <2>4. plan \in Seq(all) /\ Len(plan) = 0
    BY <1>2, <1>3, <2>1
  <2>5. plan = <<>>
    BY <2>4
  <2> QED BY <2>5
<1>7. DOMAIN ids = 1..n /\ \A p \in 1..n : ids[p] = IF plan[p] = 0 THEN new ELSE plan[p]
  BY <1>3
<1>8. \A i, j \in 1..n : ids[i] = ids[j] => i = j
  <2>1. \A i \in 1..n : plan[i] \in all /\ (plan[i] # 0 => plan[i] \in kept /\ plan[i] # new)
    BY <1>3
  <2> QED BY <1>3, <1>7, <2>1
<1>9. T = kept \cup (IF up THEN {new} ELSE {})
  <2>1. \A x \in kept : \E p \in 1..n : ids[p] = x
    BY <1>5, <1>7
  <2>2. up => \E p \in 1..n : ids[p] = new
    BY <1>5, <1>7
  <2>3. \A p \in 1..n : ids[p] \in kept \cup (IF up THEN {new} ELSE {})
    BY <1>3, <1>7
  <2> QED BY <1>7, <2>1, <2>2, <2>3 DEF Placed
<1>10. \A p \in 1..n : at(ids[p]) = p
  BY <1>7, <1>8 DEF PlaceOf
<1>11. Cardinality(T) = n
  <2> DEFINE f == [p \in 1..n |-> ids[p]]
  <2>1. T = {ids[p] : p \in 1..n}
    BY <1>7 DEF Placed
  <2>2. f \in [1..n -> T] /\ \A p \in 1..n : f[p] = ids[p]
    BY <2>1
  <2>3. \A x \in T : \E p \in 1..n : f[p] = x
    BY <2>1
  <2> HIDE DEF T, f
  <2>4. f \in Injection(1..n, T)
    BY <1>8, <2>2 DEF Injection, IsInjective
  <2>5. f \in Surjection(1..n, T)
    BY <2>2, <2>3 DEF Surjection
  <2>6. ExistsBijection(1..n, T)
    BY <2>4, <2>5 DEF ExistsBijection, Bijection
  <2>7. IsFiniteSet(1..n) /\ Cardinality(1..n) = n
    BY <1>2, FS_Interval
  <2> QED BY <2>6, <2>7, FS_Bijection
<1> HIDE DEF at
<1>12. {at(i) - 1 : i \in T} = {p - 1 : p \in 1..n}
  BY <1>7, <1>10 DEF Placed
<1>13. {p - 1 : p \in 1..n} = 0..(n - 1)
  <2>1. \A x \in 0..(n - 1) : x + 1 \in 1..n /\ x = (x + 1) - 1
    BY <1>2
  <2>2. \A p \in 1..n : p - 1 \in 0..(n - 1)
    BY <1>2
  <2> QED BY <2>1, <2>2
<1>15. 1 \in DOMAIN ids /\ at(ids[1]) = 1
  BY <1>2, <1>6, <1>7, <1>10
<1> QED BY <1>9, <1>11, <1>12, <1>13, <1>15 DEF at

\* The newest rows hold at most one image more than the committed ones.
LEMMA RowsOfOne ==
    ASSUME GalleryInv, GalleryTyped, NEW t \in Tx
    PROVE  /\ Gallery!Rows(t) \in [Image -> Gallery!ImageRow]
           /\ Gallery!Shown(Gallery!Rows(t)) \subseteq Gallery!Shown(images) \cup {galleryRequest[t].new}
           /\ galleryRequest[t].stage # "commit" =>
                 Gallery!Shown(Gallery!Rows(t)) \subseteq Gallery!Shown(images)
           /\ IsFiniteSet(Gallery!Shown(Gallery!Rows(t)))
<1> DEFINE new == galleryRequest[t].new
<1>0. DOMAIN imagesHolder = Image
  BY DEF GalleryInv, GalleryTables
<1>1. Gallery!Rows(t) = [i \in Image |-> IF imagesHolder[i] = t THEN imagesDraft[i] ELSE images[i]]
  BY <1>0 DEF Gallery!Rows, Gallery!View
<1>2. Gallery!Rows(t) \in [Image -> Gallery!ImageRow]
  BY <1>1 DEF GalleryTyped
<1>3. ASSUME NEW i \in Gallery!Shown(Gallery!Rows(t)), i \notin Gallery!Shown(images)
      PROVE  i = new /\ galleryRequest[t].stage = "commit"
  <2>1. i \in Image /\ ~images[i].live /\ imagesHolder[i] = t /\ imagesDraft[i].live
    BY <1>1, <1>3 DEF Gallery!Shown
  <2> QED BY <2>1 DEF GalleryInv, DraftsAreNews
<1>4. Gallery!Shown(Gallery!Rows(t)) \subseteq Gallery!Shown(images) \cup {new}
  BY <1>3
<1>5. IsFiniteSet(Gallery!Shown(images) \cup {new})
  BY FS_AddElement DEF GalleryTyped
<1>6. IsFiniteSet(Gallery!Shown(Gallery!Rows(t)))
  BY <1>4, <1>5, FS_Subset
<1> QED BY <1>2, <1>3, <1>4, <1>6

\* A step of t that keeps the rows rows, and what it holds to its transaction.
LEMMA TypesGoOn ==
    ASSUME GalleryInv, GalleryTyped, NEW t \in Tx, NEW q, Gallery!Go(t, q),
           q # Gallery!Idle => PlacesFit(q),
           images' \in [Image -> Gallery!ImageRow], imagesDraft' \in [Image -> Gallery!ImageRow],
           IsFiniteSet(Gallery!Shown(images')),
           \A i \in Image : imagesHolder'[i] \in {imagesHolder[i], t, NoTx},
           \A i \in Image : imagesHolder'[i] = t => q # Gallery!Idle /\ q.stage \in Writing
    PROVE  GalleryTyped'
<1>1. /\ galleryRequest'[t] = q
      /\ \A u \in Tx \ {t} : galleryRequest'[u] = galleryRequest[u]
      /\ \A u \in Tx \ {t} : u \in Editing' <=> u \in Editing
      /\ t \in Editing' <=> q # Gallery!Idle
  BY GalleryGo
<1>2. Editing' \subseteq Tx /\ Editing \subseteq Tx
  BY DEF Editing
<1>3. \A u \in Editing' : PlacesFit(galleryRequest'[u])
  BY <1>1, <1>2 DEF GalleryTyped
<1>4. ASSUME NEW i \in Image, imagesHolder'[i] # NoTx
      PROVE  imagesHolder'[i] \in Editing' /\ galleryRequest'[imagesHolder'[i]].stage \in Writing
  <2>1. CASE imagesHolder'[i] = t
    BY <1>1, <2>1
  <2>2. CASE imagesHolder'[i] # t
    <3>1. imagesHolder'[i] = imagesHolder[i] /\ imagesHolder[i] \in Editing \ {t}
          /\ galleryRequest[imagesHolder[i]].stage \in Writing
      BY <1>4, <2>2 DEF GalleryTyped
    <3> QED BY <1>1, <1>2, <3>1
  <2> QED BY <2>1, <2>2
<1>5. \A i \in Image : imagesHolder'[i] # NoTx =>
          /\ imagesHolder'[i] \in Editing'
          /\ galleryRequest'[imagesHolder'[i]].stage \in Writing
  BY <1>4
<1>6. Gallery!Shown(images)' = Gallery!Shown(images')
  BY DEF Gallery!Shown
<1>7. \A u \in Editing' : PlacesFit(galleryRequest[u])'
  BY <1>3 DEF PlacesFit
<1> QED BY <1>5, <1>6, <1>7 DEF GalleryTyped

\* A lone edit reads and finds what it has written itself, and nobody else's.
LEMMA LoneEditSeesNewest ==
    ASSUME GalleryInv, GalleryLoneInv, NEW t \in Tx, galleryAlone[t]
    PROVE  /\ \A i \in Image : imagesHolder[i] \in {NoTx, t}
           /\ Gallery!Rows(t) = imagesDraft
<1>1. \A u \in Tx \ {t} : u \notin Editing
  BY DEF GalleryLoneInv, LoneIsLone, Editing, Gallery!Idle, Idle
<1>2. \A i \in Image : imagesHolder[i] \in {NoTx, t}
  BY <1>1 DEF GalleryLoneInv, GalleryTyped, Editing
<1>3. DOMAIN imagesHolder = Image
  BY DEF GalleryInv, GalleryTables
<1>4. \A i \in Image : (IF imagesHolder[i] = t THEN imagesDraft[i] ELSE images[i]) = imagesDraft[i]
  BY <1>2, <1>3 DEF GalleryInv, GalleryTables, Gallery!DraftsAreHeld
<1>5. imagesDraft = [i \in Image |-> imagesDraft[i]]
  BY DEF GalleryLoneInv, GalleryTyped
<1>6. Gallery!Rows(t) = [i \in Image |-> imagesDraft[i]]
  BY <1>3, <1>4 DEF Gallery!Rows, Gallery!View
<1> QED BY <1>2, <1>5, <1>6

LEMMA LoneEditGoesOn ==
    ASSUME GalleryLoneInv, NEW t \in Tx, galleryRequest[t] # Gallery!Idle,
           NEW q, q # Gallery!Idle, Gallery!Continues(t, q), kind' = kind, GalleryTyped',
           galleryAlone[t] => EditKeeps(q, images', imagesDraft', kind)
    PROVE  GalleryLoneInv'
<1>1. galleryRequest' = [galleryRequest EXCEPT ![t] = q] /\ galleryAlone' = galleryAlone
  BY DEF Gallery!Continues, Gallery!Go
<1>2. Gallery!Idle = Idle
  BY DEF Gallery!Idle, Idle
<1>3. /\ Histories(galleryRequest', galleryAlone) /\ LoneIsLone(galleryRequest', galleryAlone)
      /\ \A u \in Tx \ {t} : ~galleryAlone[u]
  BY <1>1, <1>2, ContinuesKeepsLone DEF GalleryLoneInv
<1>4. galleryRequest'[t] = q
  BY <1>1 DEF GalleryLoneInv, Histories
<1>5. \A u \in Tx : galleryAlone'[u] => EditKeeps(galleryRequest'[u], images', imagesDraft', kind')
  BY <1>1, <1>3, <1>4
<1> QED BY <1>1, <1>3, <1>5 DEF GalleryLoneInv

LEMMA LoneEditEnds ==
    ASSUME GalleryLoneInv, NEW t \in Tx, galleryRequest[t] # Gallery!Idle,
           Gallery!Ends(t), kind' = kind, GalleryTyped'
    PROVE  GalleryLoneInv'
<1>1. /\ galleryRequest' = [galleryRequest EXCEPT ![t] = Idle]
      /\ galleryAlone' = [galleryAlone EXCEPT ![t] = FALSE]
  BY DEF Gallery!Ends, Gallery!Go, Gallery!Idle, Idle
<1>2. Gallery!Idle = Idle
  BY DEF Gallery!Idle, Idle
<1>3. /\ Histories(galleryRequest', galleryAlone') /\ LoneIsLone(galleryRequest', galleryAlone')
      /\ \A u \in Tx : ~galleryAlone'[u]
  BY <1>1, <1>2, EndsKeepsLone DEF GalleryLoneInv
<1> QED BY <1>3 DEF GalleryLoneInv

\* A statement that changes no row.
LEMMA ReadGoesOn ==
    ASSUME GalleryInv, GalleryLoneInv, NEW t \in Editing,
           UNCHANGED <<kind, images, imagesDraft, imagesHolder>>,
           NEW q, q # Gallery!Idle, Gallery!Continues(t, q), PlacesFit(q),
           q.stage \in Writing \/ galleryRequest[t].stage \notin Writing,
           galleryAlone[t] => EditKeeps(q, images, imagesDraft, kind)
    PROVE  GalleryLoneInv'
<1>0. t \in Tx /\ galleryRequest[t] # Gallery!Idle /\ GalleryTyped
  BY DEF Editing, GalleryLoneInv
<1>1. \A i \in Image : imagesHolder'[i] = t => q.stage \in Writing
  BY <1>0, NoTxAssumption DEF GalleryTyped
<1>2. GalleryTyped'
  <2>1. Gallery!Go(t, q)
    BY DEF Gallery!Continues
  <2>2. /\ images' \in [Image -> Gallery!ImageRow] /\ imagesDraft' \in [Image -> Gallery!ImageRow]
        /\ IsFiniteSet(Gallery!Shown(images'))
        /\ \A i \in Image : imagesHolder'[i] \in {imagesHolder[i], t, NoTx}
    BY <1>0 DEF GalleryTyped
  <2> QED BY <1>0, <1>1, <2>1, <2>2, TypesGoOn
<1>3. galleryAlone[t] => EditKeeps(q, images', imagesDraft', kind)
  OBVIOUS
<1> QED BY <1>0, <1>2, <1>3, LoneEditGoesOn

\* A statement that writes rows.
LEMMA WriteGoesOn ==
    ASSUME GalleryInv, GalleryLoneInv, NEW t \in Editing, NEW which \in SUBSET Image, NEW rows,
           Gallery!Put(t, which, rows), \A i \in which : rows[i] \in Gallery!ImageRow,
           NEW q, q # Gallery!Idle, Gallery!Continues(t, q), PlacesFit(q), q.stage \in Writing,
           NEW drafts, drafts = [i \in Image |-> IF i \in which THEN rows[i] ELSE imagesDraft[i]],
           galleryAlone[t] => EditKeeps(q, images, drafts, kind)
    PROVE  GalleryLoneInv'
<1>0. t \in Tx /\ galleryRequest[t] # Gallery!Idle /\ GalleryTyped
  BY DEF Editing, GalleryLoneInv
<1>1. /\ imagesDraft' = drafts /\ kind' = kind /\ images' = images
      /\ imagesHolder' = [i \in Image |-> IF i \in which THEN t ELSE imagesHolder[i]]
  BY DEF Gallery!Put
<1>2. GalleryTyped'
  <2>1. Gallery!Go(t, q)
    BY DEF Gallery!Continues
  <2>2. imagesDraft' \in [Image -> Gallery!ImageRow]
    <3>1. \A i \in Image : (IF i \in which THEN rows[i] ELSE imagesDraft[i]) \in Gallery!ImageRow
      BY <1>0 DEF GalleryTyped
    <3> QED BY <1>1, <3>1
  <2>3. /\ images' \in [Image -> Gallery!ImageRow]
        /\ IsFiniteSet(Gallery!Shown(images'))
        /\ \A i \in Image : imagesHolder'[i] \in {imagesHolder[i], t, NoTx}
    BY <1>0, <1>1 DEF GalleryTyped
  <2> QED BY <1>0, <2>1, <2>2, <2>3, TypesGoOn
<1>3. galleryAlone[t] => EditKeeps(q, images', imagesDraft', kind)
  BY <1>1
<1> QED BY <1>0, <1>1, <1>2, <1>3, LoneEditGoesOn

\* A rollback leaves the committed rows.
LEMMA UndoneTypes ==
    ASSUME GalleryInv, GalleryLoneInv, NEW t \in Editing, Gallery!Undone(t),
           NEW q, Gallery!Go(t, q), q # Gallery!Idle => PlacesFit(q)
    PROVE  GalleryTyped'
<1>0. t \in Tx /\ GalleryTyped /\ DOMAIN imagesHolder = Image
      /\ imagesHolder \in [Image -> Tx \cup {NoTx}]
  BY DEF Editing, GalleryLoneInv, GalleryInv, GalleryTables
<1>1. /\ images' = images
      /\ imagesDraft' = [i \in Image |-> IF imagesHolder[i] = t THEN images[i] ELSE imagesDraft[i]]
      /\ imagesHolder' = [i \in Image |-> IF imagesHolder[i] = t THEN NoTx ELSE imagesHolder[i]]
  BY <1>0 DEF Gallery!Undone, Gallery!Discard, Gallery!Unlock
<1>2. imagesDraft' \in [Image -> Gallery!ImageRow]
  BY <1>0, <1>1 DEF GalleryTyped
<1>3. /\ images' \in [Image -> Gallery!ImageRow]
      /\ IsFiniteSet(Gallery!Shown(images'))
      /\ \A i \in Image : imagesHolder'[i] \in {imagesHolder[i], t, NoTx}
      /\ \A i \in Image : imagesHolder'[i] # t
  BY <1>0, <1>1, NoTxAssumption DEF GalleryTyped
<1> QED BY <1>0, <1>2, <1>3, TypesGoOn

\* A commit shows the rows the edit sees.
LEMMA CommittedTypes ==
    ASSUME GalleryInv, GalleryLoneInv, NEW t \in Editing, Gallery!Committed(t),
           NEW q, Gallery!Go(t, q), q # Gallery!Idle => PlacesFit(q)
    PROVE  GalleryTyped'
<1>0. t \in Tx /\ GalleryTyped /\ DOMAIN imagesHolder = Image
      /\ imagesHolder \in [Image -> Tx \cup {NoTx}]
  BY DEF Editing, GalleryLoneInv, GalleryInv, GalleryTables
<1>1. /\ images' = Gallery!Rows(t) /\ imagesDraft' = imagesDraft
      /\ imagesHolder' = [i \in Image |-> IF imagesHolder[i] = t THEN NoTx ELSE imagesHolder[i]]
  BY <1>0 DEF Gallery!Committed, Gallery!Unlock
<1>2. images' \in [Image -> Gallery!ImageRow] /\ IsFiniteSet(Gallery!Shown(images'))
  BY <1>0, <1>1, RowsOfOne
<1>3. /\ imagesDraft' \in [Image -> Gallery!ImageRow]
      /\ \A i \in Image : imagesHolder'[i] \in {imagesHolder[i], t, NoTx}
      /\ \A i \in Image : imagesHolder'[i] # t
  BY <1>0, <1>1, NoTxAssumption DEF GalleryTyped
<1> QED BY <1>0, <1>2, <1>3, TypesGoOn

\* q is the edit r at its next statement.
NextOf(q, r, next) ==
    /\ q = [r EXCEPT !.stage = next]
    /\ DOMAIN q = GalleryFields /\ PlacesFit(q) /\ q.stage = next
    /\ q.del = r.del /\ q.up = r.up /\ q.plan = r.plan
    /\ q.new = r.new /\ q.covered = r.covered /\ q.place = r.place
    /\ q # Gallery!Idle

LEMMA NextEdit ==
    ASSUME NEW r, DOMAIN r = GalleryFields, PlacesFit(r), NEW next
    PROVE  \E q : NextOf(q, r, next)
<1>1. DOMAIN [r EXCEPT !.stage = next] # DOMAIN Gallery!Idle
  BY DEF GalleryFields, Gallery!Idle
<1> DEFINE q == [r EXCEPT !.stage = next]
<1>2. /\ DOMAIN q = GalleryFields /\ q.stage = next
      /\ q.del = r.del /\ q.up = r.up /\ q.plan = r.plan
      /\ q.new = r.new /\ q.covered = r.covered /\ q.place = r.place
  BY DEF GalleryFields
<1>3. PlacesFit(q)
  <2> HIDE DEF q
  <2> QED BY <1>2 DEF PlacesFit
<1>4. q # Gallery!Idle
  BY <1>1
<1>5. NextOf(q, r, next)
  BY <1>2, <1>3, <1>4 DEF NextOf
<1> QED BY <1>5

\* The plan of an edit is an order of the images that are to remain.
LEMMA PlansAreOrders ==
    ASSUME NEW kept \in SUBSET Image, NEW up \in BOOLEAN
    PROVE  Gallery!Plans(kept, up) = Gallery!Orders(kept \cup (IF up THEN {0} ELSE {}))
<1> DEFINE all == kept \cup (IF up THEN {0} ELSE {})
<1>1. all \in SUBSET (Image \cup {0})
  OBVIOUS
<1>2. Gallery!Plans(kept, up) = Gallery!Arrangements[all]
  BY DEF Gallery!Plans
<1> HIDE DEF all
<1>3. Gallery!Arrangements[all] = Gallery!Orders(all)
  BY <1>1 DEF Gallery!Arrangements
<1> QED BY <1>2, <1>3 DEF all

LEMMA OrdersAreNumbered ==
    ASSUME NEW kept, IsFiniteSet(kept), NEW del, NEW up \in BOOLEAN,
           NEW plan \in Gallery!Orders((kept \ del) \cup (IF up THEN {0} ELSE {}))
    PROVE  DOMAIN plan \subseteq Nat \ {0}
<1> DEFINE all == (kept \ del) \cup (IF up THEN {0} ELSE {})
<1>1. IsFiniteSet(all)
  <2>1. IsFiniteSet(kept \ del)
    BY FS_Subset
  <2>2. all = kept \ del \/ all = (kept \ del) \cup {0}
    OBVIOUS
  <2> QED BY <2>1, <2>2, FS_AddElement
<1> HIDE DEF all
<1>2. Cardinality(all) \in Nat
  BY <1>1, FS_CardinalityType
<1>3. plan \in Gallery!Orders(all)
  BY DEF all
<1>4. DOMAIN plan = 1..Cardinality(all)
  BY <1>3, GalleryCounts DEF Gallery!Orders
<1> QED BY <1>2, <1>4

\* An edit that begins alone finds nobody's drafts.
LEMMA LoneEditBegins ==
    ASSUME GalleryInv, GalleryLoneInv, NEW t \in Tx, NEW del \in SUBSET Image, NEW up \in BOOLEAN, NEW plan,
           plan = Gallery!NoPlan \/ plan \in Gallery!Plans(Gallery!Shown(images) \ del, up),
           Gallery!BeginEdit(t, del, up, plan)
    PROVE  GalleryLoneInv'
<1>0. GalleryTyped
  BY DEF GalleryLoneInv
<1>1. /\ del \subseteq Gallery!Shown(images)
      /\ plan # Gallery!NoPlan => kind = "product" /\ plan \in Gallery!Plans(Gallery!Shown(images) \ del, up)
      /\ UNCHANGED <<kind, images, imagesDraft, imagesHolder>>
  BY Zenon DEF Gallery!BeginEdit, Gallery!AtImages
<1>2. PICK q : /\ Gallery!Starts(t, q) /\ DOMAIN q = GalleryFields
               /\ q.stage \in {"upload", "delete"}
               /\ q.del = del /\ q.up = up /\ q.plan = plan
               /\ q.covered = Gallery!KeepsCover(del)
               /\ q.place = Gallery!Cardinality(Gallery!Shown(images))
  <2> DEFINE q == [stage |-> IF up THEN "upload" ELSE "delete", del |-> del, up |-> up,
                   plan |-> plan, new |-> 0, covered |-> Gallery!KeepsCover(del),
                   place |-> Gallery!Cardinality(Gallery!Shown(images))]
  <2>1. Gallery!Starts(t, q)
    BY Zenon DEF Gallery!BeginEdit
  <2>2. /\ DOMAIN q = GalleryFields
        /\ q.stage \in {"upload", "delete"}
        /\ q.del = del /\ q.up = up /\ q.plan = plan
        /\ q.covered = Gallery!KeepsCover(del)
        /\ q.place = Gallery!Cardinality(Gallery!Shown(images))
    BY DEF GalleryFields
  <2> HIDE DEF q
  <2> QED BY <2>1, <2>2
<1>3. q # Gallery!Idle
  BY <1>2 DEF Gallery!Idle
<1>4. PlacesFit(q)
  <2>1. q.place \in Nat
    BY <1>0, <1>2, GalleryCounts, FS_CardinalityType DEF GalleryTyped
  <2>2. q.covered \in BOOLEAN
    BY <1>2 DEF Gallery!KeepsCover
  <2>3. CASE plan = Gallery!NoPlan
    BY <1>2, <2>1, <2>2, <2>3 DEF PlacesFit, Gallery!NoPlan
  <2>4. CASE plan \in Gallery!Plans(Gallery!Shown(images) \ del, up)
    <3>1. plan \in Gallery!Orders((Gallery!Shown(images) \ del) \cup (IF up THEN {0} ELSE {}))
      <4>1. Gallery!Shown(images) \ del \in SUBSET Image
        BY DEF Gallery!Shown
      <4> QED BY <2>4, <4>1, PlansAreOrders
    <3>2. DOMAIN plan \subseteq Nat \ {0}
      BY <1>0, <3>1, OrdersAreNumbered DEF GalleryTyped
    <3> QED BY <1>2, <2>1, <2>2, <3>2 DEF PlacesFit
  <2> QED BY <2>3, <2>4
<1>5. galleryRequest[t] = Gallery!Idle /\ Gallery!Go(t, q)
  BY <1>2 DEF Gallery!Starts
<1>6. \A i \in Image : imagesHolder[i] # t
  BY <1>0, <1>5, NoTxAssumption DEF GalleryTyped, Editing
<1>7. GalleryTyped'
  <2>1. /\ images' \in [Image -> Gallery!ImageRow] /\ imagesDraft' \in [Image -> Gallery!ImageRow]
        /\ IsFiniteSet(Gallery!Shown(images'))
        /\ \A i \in Image : imagesHolder'[i] = imagesHolder[i]
    BY <1>0, <1>1 DEF GalleryTyped
  <2> QED BY <1>0, <1>4, <1>5, <1>6, <2>1, TypesGoOn
<1>8. Histories(galleryRequest', galleryAlone') /\ LoneIsLone(galleryRequest', galleryAlone')
      /\ galleryRequest'[t] = q
      /\ \A u \in Tx : galleryAlone'[u] => u = t /\ Editing = {}
  <2>1. /\ galleryRequest' = [galleryRequest EXCEPT ![t] = q]
        /\ galleryAlone' = [u \in Tx |-> IF u = t THEN Gallery!Active = {}
                                         ELSE galleryAlone[u] /\ galleryRequest[u] = Idle]
    BY <1>2 DEF Gallery!Starts, Gallery!Go, Gallery!Idle, Idle
  <2>2. Gallery!Active = Editing /\ Gallery!Idle = Idle
    BY DEF Gallery!Active, Editing, Gallery!Idle, Idle
  <2>3. \A u \in Tx : galleryAlone[u] => galleryRequest[u] # Idle
    BY DEF GalleryLoneInv, LoneIsLone
  <2>4. \A u \in Tx : galleryAlone'[u] <=> u = t /\ Editing = {}
    BY <2>1, <2>2, <2>3
  <2>5. galleryRequest'[t] = q /\ \A u \in Tx \ {t} : galleryRequest'[u] = galleryRequest[u]
    BY <2>1 DEF GalleryLoneInv, Histories
  <2>6. Histories(galleryRequest', galleryAlone')
    <3>1. galleryAlone' \in [Tx -> BOOLEAN]
      BY <2>1 DEF GalleryLoneInv, Histories
    <3>2. galleryRequest' = [u \in Tx |-> galleryRequest'[u]]
      BY <2>1 DEF GalleryLoneInv, Histories
    <3> QED BY <3>1, <3>2 DEF Histories
  <2>7. LoneIsLone(galleryRequest', galleryAlone')
    BY <1>3, <2>2, <2>4, <2>5 DEF LoneIsLone, Editing
  <2> QED BY <2>4, <2>5, <2>6, <2>7
<1>9. ASSUME Editing = {} PROVE EditKeeps(q, images, imagesDraft, kind)
  <2>1. imagesDraft = images
    <3>1. \A i \in Image : imagesHolder[i] = NoTx
      BY <1>0, <1>9 DEF GalleryTyped
    <3>2. DOMAIN imagesHolder = Image
      BY DEF GalleryInv, GalleryTables
    <3>3. \A i \in Image : imagesDraft[i] = images[i]
      BY <3>1, <3>2 DEF GalleryInv, GalleryTables, Gallery!DraftsAreHeld
    <3>4. images = [i \in Image |-> images[i]] /\ imagesDraft = [i \in Image |-> imagesDraft[i]]
      BY <1>0 DEF GalleryTyped
    <3> QED BY <3>3, <3>4
  <2>2. q.covered <=> Gallery!Covers(images) \ q.del # {}
    BY <1>2 DEF Gallery!KeepsCover
  <2>3. CoverKnown(q, images, imagesDraft, kind)
    BY <1>2, <2>2 DEF CoverKnown
  <2>4. /\ q.del \subseteq Gallery!Shown(images)
        /\ q.plan # Gallery!NoPlan =>
              kind = "product" /\ q.plan \in Gallery!Plans(Left(q, images), q.up)
    BY <1>1, <1>2 DEF Left
  <2> QED BY <1>2, <2>1, <2>3, <2>4 DEF EditKeeps, Writing
<1>10. \A u \in Tx : galleryAlone'[u] => EditKeeps(galleryRequest'[u], images', imagesDraft', kind')
  BY <1>1, <1>8, <1>9
<1> QED BY <1>1, <1>7, <1>8, <1>10 DEF GalleryLoneInv

\* What is known of an edit under way.
LEMMA UnderWay ==
    ASSUME GalleryInv, GalleryLoneInv, NEW t \in Tx, galleryRequest[t].stage # "idle"
    PROVE  /\ t \in Editing /\ EditFits(galleryRequest[t]) /\ PlacesFit(galleryRequest[t])
           /\ DOMAIN galleryRequest[t] = GalleryFields
           /\ galleryAlone[t] => EditKeeps(galleryRequest[t], images, imagesDraft, kind)
<1>1. t \in Editing
  BY DEF Editing, Gallery!Idle
<1> QED BY <1>1 DEF GalleryInv, GalleryLoneInv, GalleryTyped, EditFits

LEMMA UploadKeepsLone ==
    ASSUME GalleryInv, GalleryLoneInv, NEW t \in Tx, Gallery!Upload(t)
    PROVE  GalleryLoneInv'
<1> DEFINE r == galleryRequest[t]
<1>1. /\ r.stage = "upload" /\ UNCHANGED <<kind, images, imagesDraft, imagesHolder>>
      /\ \E i \in Image : Gallery!Continues(t, [r EXCEPT !.stage = "delete", !.new = i])
  BY DEF Gallery!Upload, Gallery!AtImages
<1>2. PICK i \in Image : Gallery!Continues(t, [r EXCEPT !.stage = "delete", !.new = i])
  BY <1>1
<1>3. /\ t \in Editing /\ PlacesFit(r) /\ DOMAIN r = GalleryFields
      /\ galleryAlone[t] => EditKeeps(r, images, imagesDraft, kind)
  BY <1>1, UnderWay
<1> DEFINE q == [r EXCEPT !.stage = "delete", !.new = i]
<1>4. /\ DOMAIN q = GalleryFields /\ q.stage = "delete" /\ q.del = r.del /\ q.up = r.up /\ q.plan = r.plan
      /\ q.covered = r.covered /\ q.place = r.place
  BY <1>3 DEF GalleryFields
<1>5. Gallery!Continues(t, q)
  BY <1>2
<1> HIDE DEF q
<1>6. PlacesFit(q) /\ q # Gallery!Idle
  BY <1>3, <1>4 DEF PlacesFit, Gallery!Idle
<1>7. EditKeeps(r, images, imagesDraft, kind) => EditKeeps(q, images, imagesDraft, kind)
  BY <1>1, <1>4 DEF EditKeeps, CoverKnown, Writing, Left
<1>8. r.stage \notin Writing
  BY <1>1 DEF Writing
<1> QED BY <1>1, <1>3, <1>5, <1>6, <1>7, <1>8, ReadGoesOn

LEMMA DeleteImagesKeepsLone ==
    ASSUME GalleryInv, GalleryLoneInv, NEW t \in Tx, Gallery!DeleteImages(t)
    PROVE  GalleryLoneInv'
<1> DEFINE r == galleryRequest[t]
           next == Gallery!AfterDelete(r)
           rows == [i \in Image |-> Gallery!Nothing]
           drafts == [i \in Image |-> IF i \in r.del THEN rows[i] ELSE imagesDraft[i]]
<1>1. /\ r.stage = "delete" /\ Gallery!Put(t, r.del, rows)
      /\ Gallery!Continues(t, [r EXCEPT !.stage = next])
  BY DEF Gallery!DeleteImages
<1>2. /\ t \in Editing /\ EditFits(r) /\ PlacesFit(r) /\ DOMAIN r = GalleryFields
      /\ galleryAlone[t] => EditKeeps(r, images, imagesDraft, kind)
  BY <1>1, UnderWay
<1>0. PICK q : NextOf(q, r, next)
  BY <1>2, NextEdit
<1>3. /\ q = [r EXCEPT !.stage = next]
      /\ DOMAIN q = GalleryFields /\ PlacesFit(q) /\ q.stage = next
      /\ q.del = r.del /\ q.up = r.up /\ q.plan = r.plan
      /\ q.new = r.new /\ q.covered = r.covered /\ q.place = r.place
      /\ q # Gallery!Idle
  BY <1>0 DEF NextOf
<1>4. Gallery!Continues(t, q)
  BY <1>1, <1>3
<1>5. next \in {"clear", "count", "insert", "commit"}
      /\ (next = "clear" <=> r.plan # Gallery!NoPlan)
      /\ (next = "count" => r.up /\ kind = "combo") /\ (next = "insert" => r.up /\ kind # "combo")
      /\ (next = "commit" => ~r.up)
  BY DEF Gallery!AfterDelete
<1>6. next \in Writing
  BY <1>5 DEF Writing
<1>7. r.del \in SUBSET Image
  BY <1>2 DEF EditFits
<1>8. \A i \in r.del : rows[i] \in Gallery!ImageRow
  BY <1>7 DEF Gallery!Nothing, Gallery!ImageRow
<1>10. kind \in {"product", "combo"}
  BY DEF GalleryLoneInv
<1>9. ASSUME EditKeeps(r, images, imagesDraft, kind) PROVE EditKeeps(q, images, drafts, kind)
  <2>1. /\ imagesDraft = images /\ r.del \subseteq Gallery!Shown(images)
        /\ r.plan # Gallery!NoPlan => kind = "product" /\ r.plan \in Gallery!Plans(Left(r, images), r.up)
        /\ kind = "product" => (r.covered <=> Gallery!Covers(images) \ r.del # {})
    BY <1>1, <1>9 DEF EditKeeps, CoverKnown
  <2>2. drafts = RowsLeft(q, images)
    BY <1>3, <1>7, <2>1 DEF RowsLeft
  <2> HIDE DEF drafts, next
  <2>3. CoverKnown(q, images, drafts, kind)
    BY <1>3, <1>5, <2>1, <1>10 DEF CoverKnown
  <2>4. q.stage = "commit" => Arranged(q, drafts, kind)
    BY <1>3, <1>5 DEF Arranged
  <2>5. Left(q, images) = Left(r, images)
    BY <1>3 DEF Left
  <2> QED BY <1>3, <1>5, <2>1, <2>2, <2>3, <2>4, <2>5 DEF EditKeeps, Writing
<1>11. galleryAlone[t] => EditKeeps(q, images, drafts, kind)
  BY <1>2, <1>9
<1>12. q.stage \in Writing
  BY <1>3, <1>6
<1>13. drafts = [i \in Image |-> IF i \in r.del THEN rows[i] ELSE imagesDraft[i]]
  OBVIOUS
<1> HIDE DEF rows, next, drafts
<1> QED BY <1>1, <1>2, <1>3, <1>4, <1>7, <1>8, <1>11, <1>12, <1>13, WriteGoesOn

LEMMA ClearCoversKeepsLone ==
    ASSUME GalleryInv, GalleryLoneInv, NEW t \in Tx, Gallery!ClearCovers(t)
    PROVE  GalleryLoneInv'
<1> DEFINE r == galleryRequest[t]
           which == Gallery!Shown(Gallery!Rows(t))
           rows == [i \in Image |-> [imagesDraft[i] EXCEPT !.primary = FALSE]]
           drafts == [i \in Image |-> IF i \in which THEN rows[i] ELSE imagesDraft[i]]
<1>1. /\ r.stage = "clear" /\ Gallery!Put(t, which, rows)
      /\ Gallery!Continues(t, [r EXCEPT !.stage = "place"])
  BY DEF Gallery!ClearCovers
<1>2. /\ t \in Editing /\ EditFits(r) /\ PlacesFit(r) /\ DOMAIN r = GalleryFields
      /\ galleryAlone[t] => EditKeeps(r, images, imagesDraft, kind)
  BY <1>1, UnderWay
<1>0. PICK q : NextOf(q, r, "place")
  BY <1>2, NextEdit
<1>3. /\ q = [r EXCEPT !.stage = "place"]
      /\ DOMAIN q = GalleryFields /\ PlacesFit(q) /\ q.stage = "place"
      /\ q.del = r.del /\ q.up = r.up /\ q.plan = r.plan
      /\ q.new = r.new /\ q.covered = r.covered /\ q.place = r.place
      /\ q # Gallery!Idle
  BY <1>0 DEF NextOf
<1>4. Gallery!Continues(t, q)
  BY <1>1, <1>3
<1>5. which \in SUBSET Image
  BY DEF Gallery!Shown
<1>6. \A i \in Image : rows[i] \in Gallery!ImageRow /\ rows[i].live = imagesDraft[i].live
  <2>1. \A i \in Image : imagesDraft[i] \in Gallery!ImageRow
    BY DEF GalleryLoneInv, GalleryTyped
  <2>2. \A x \in Gallery!ImageRow : [x EXCEPT !.primary = FALSE] \in Gallery!ImageRow
                                    /\ [x EXCEPT !.primary = FALSE].live = x.live
    BY DEF Gallery!ImageRow
  <2> QED BY <2>1, <2>2
<1>7. ASSUME EditKeeps(r, images, imagesDraft, kind) PROVE EditKeeps(q, images, drafts, kind)
  <2>1. /\ imagesDraft = RowsLeft(r, images) /\ r.plan # Gallery!NoPlan
        /\ r.del \subseteq Gallery!Shown(images)
        /\ kind = "product" /\ r.plan \in Gallery!Plans(Left(r, images), r.up)
    BY <1>1, <1>7 DEF EditKeeps, Writing
  <2>2. \A i \in Image : imagesDraft[i].live <=> i \in Left(r, images)
    BY <2>1 DEF RowsLeft, Left, Gallery!Shown, Gallery!Nothing
  <2>3. \A i \in Image : drafts[i].live <=> i \in Left(q, images)
    BY <1>3, <1>6, <2>2 DEF Left
  <2>4. CoverKnown(q, images, drafts, kind)
    BY <1>3 DEF CoverKnown
  <2>5. Left(q, images) = Left(r, images)
    BY <1>3 DEF Left
  <2> HIDE DEF drafts
  <2> QED BY <1>3, <2>1, <2>3, <2>4, <2>5 DEF EditKeeps, Writing
<1>8. galleryAlone[t] => EditKeeps(q, images, drafts, kind)
  BY <1>2, <1>7
<1>9. q.stage \in Writing
  BY <1>3 DEF Writing
<1>10. drafts = [i \in Image |-> IF i \in which THEN rows[i] ELSE imagesDraft[i]]
  OBVIOUS
<1>11. \A i \in which : rows[i] \in Gallery!ImageRow
  BY <1>5, <1>6
<1>12. t \in Editing /\ Gallery!Put(t, which, rows) /\ PlacesFit(q) /\ q # Gallery!Idle
  BY <1>1, <1>2, <1>3
<1> HIDE DEF r, rows, which, drafts
<1> QED BY <1>4, <1>5, <1>8, <1>9, <1>10, <1>11, <1>12, WriteGoesOn

LEMMA CountCoversKeepsLone ==
    ASSUME GalleryInv, GalleryLoneInv, NEW t \in Tx, Gallery!CountCovers(t)
    PROVE  GalleryLoneInv'
<1> DEFINE r == galleryRequest[t]
           some == Gallery!Covers(Gallery!Rows(t)) # {}
           q == [r EXCEPT !.stage = "max", !.covered = some]
<1>1. /\ r.stage = "count" /\ Gallery!Continues(t, q)
      /\ UNCHANGED <<kind, images, imagesDraft, imagesHolder>>
  BY DEF Gallery!CountCovers, Gallery!AtImages
<1>2. /\ t \in Editing /\ EditFits(r) /\ PlacesFit(r) /\ DOMAIN r = GalleryFields
      /\ galleryAlone[t] => EditKeeps(r, images, imagesDraft, kind)
  BY <1>1, UnderWay
<1>3. /\ DOMAIN q = GalleryFields /\ q.stage = "max" /\ q.del = r.del /\ q.up = r.up /\ q.plan = r.plan
      /\ q.covered = some /\ q.place = r.place
  BY <1>2 DEF GalleryFields
<1> HIDE DEF q
<1>4. PlacesFit(q) /\ q # Gallery!Idle /\ q.stage \in Writing
  BY <1>2, <1>3 DEF PlacesFit, Gallery!Idle, Writing
<1>5. ASSUME galleryAlone[t] PROVE EditKeeps(q, images, imagesDraft, kind)
  <2>1. Gallery!Rows(t) = imagesDraft
    BY <1>5, LoneEditSeesNewest
  <2>2. CoverKnown(q, images, imagesDraft, kind)
    BY <1>3, <2>1 DEF CoverKnown
  <2>3. EditKeeps(r, images, imagesDraft, kind)
    BY <1>2, <1>5
  <2>4. /\ imagesDraft = RowsLeft(r, images) /\ r.plan = Gallery!NoPlan /\ kind = "combo"
        /\ r.del \subseteq Gallery!Shown(images)
    BY <1>1, <2>3 DEF EditKeeps, Writing
  <2>5. RowsLeft(q, images) = RowsLeft(r, images)
    BY <1>3 DEF RowsLeft
  <2> QED BY <1>3, <2>2, <2>4, <2>5 DEF EditKeeps
<1> QED BY <1>1, <1>2, <1>4, <1>5, ReadGoesOn

LEMMA FindPlaceKeepsLone ==
    ASSUME GalleryInv, GalleryLoneInv, NEW t \in Tx, Gallery!FindPlace(t)
    PROVE  GalleryLoneInv'
<1> DEFINE r == galleryRequest[t]
           next == Gallery!NextPlace(Gallery!Rows(t))
           q == [r EXCEPT !.stage = "insert", !.place = next]
<1>1. /\ r.stage = "max" /\ Gallery!Continues(t, q)
      /\ UNCHANGED <<kind, images, imagesDraft, imagesHolder>>
  BY DEF Gallery!FindPlace, Gallery!AtImages
<1>2. /\ t \in Editing /\ EditFits(r) /\ PlacesFit(r) /\ DOMAIN r = GalleryFields
      /\ galleryAlone[t] => EditKeeps(r, images, imagesDraft, kind)
  BY <1>1, UnderWay
<1>3. /\ DOMAIN q = GalleryFields /\ q.stage = "insert" /\ q.del = r.del /\ q.up = r.up /\ q.plan = r.plan
      /\ q.covered = r.covered /\ q.place = next
  BY <1>2 DEF GalleryFields
<1>4. /\ next \in Nat
      /\ \A i \in Gallery!Shown(Gallery!Rows(t)) : Gallery!Rows(t)[i].order < next
  <2>1. Gallery!Rows(t) \in [Image -> Gallery!ImageRow] /\ IsFiniteSet(Gallery!Shown(Gallery!Rows(t)))
    BY RowsOfOne DEF GalleryLoneInv
  <2> QED BY <2>1, NextPlaceIsLast
<1> HIDE DEF q, next
<1>5. PlacesFit(q) /\ q # Gallery!Idle /\ q.stage \in Writing
  BY <1>2, <1>3, <1>4 DEF PlacesFit, Gallery!Idle, Writing
<1>6. ASSUME galleryAlone[t] PROVE EditKeeps(q, images, imagesDraft, kind)
  <2>1. Gallery!Rows(t) = imagesDraft
    BY <1>6, LoneEditSeesNewest
  <2>2. EditKeeps(r, images, imagesDraft, kind)
    BY <1>2, <1>6
  <2>3. /\ imagesDraft = RowsLeft(r, images) /\ r.plan = Gallery!NoPlan /\ kind = "combo"
        /\ r.del \subseteq Gallery!Shown(images)
        /\ r.covered <=> Gallery!Covers(imagesDraft) # {}
    BY <1>1, <2>2 DEF EditKeeps, Writing, CoverKnown
  <2>4. CoverKnown(q, images, imagesDraft, kind)
    BY <1>3, <1>4, <2>1, <2>3 DEF CoverKnown
  <2>5. RowsLeft(q, images) = RowsLeft(r, images)
    BY <1>3 DEF RowsLeft
  <2> QED BY <1>3, <2>3, <2>4, <2>5 DEF EditKeeps
<1> QED BY <1>1, <1>2, <1>5, <1>6, ReadGoesOn

\* What the plan names are rows, and its places numbers.
LEMMA PlanNames ==
    ASSUME NEW r, EditFits(r), PlacesFit(r), r.stage # "upload",
           NEW ids, ids = Gallery!PlanIds(r), NEW i \in Placed(ids)
    PROVE  /\ i \in Image
           /\ PlaceOf(ids, i) \in DOMAIN ids /\ ids[PlaceOf(ids, i)] = i
           /\ PlaceOf(ids, i) - 1 \in Nat
<1>1. DOMAIN ids = DOMAIN r.plan
      /\ \A p \in DOMAIN ids : ids[p] = IF r.plan[p] = 0 THEN r.new ELSE r.plan[p]
  BY DEF Gallery!PlanIds
<1>2. \A p \in DOMAIN ids : ids[p] \in Image
  BY <1>1 DEF EditFits
<1>3. DOMAIN ids \subseteq Nat \ {0}
  BY <1>1 DEF PlacesFit
<1>4. \A p \in DOMAIN ids : p - 1 \in Nat
  BY <1>3
<1>5. PICK p \in DOMAIN ids : ids[p] = i
  BY DEF Placed
<1>6. PlaceOf(ids, i) \in DOMAIN ids /\ ids[PlaceOf(ids, i)] = i
  BY <1>5 DEF PlaceOf
<1> QED BY <1>2, <1>4, <1>5, <1>6

\* A row on show.
LEMMA RowOnShow ==
    ASSUME NEW n \in Nat, NEW b \in BOOLEAN
    PROVE  [live |-> TRUE, order |-> n, primary |-> b] \in Gallery!ImageRow
BY DEF Gallery!ImageRow

LEMMA PlaceImagesKeepsLone ==
    ASSUME GalleryInv, GalleryLoneInv, NEW t \in Tx, Gallery!PlaceImages(t)
    PROVE  GalleryLoneInv'
<1> DEFINE r == galleryRequest[t]
           ids == Gallery!PlanIds(r)
           at(i) == PlaceOf(ids, i)
           which == Placed(ids)
           rows == [i \in Image |-> IF \E p \in DOMAIN ids : ids[p] = i
                                    THEN [live |-> TRUE, order |-> at(i) - 1, primary |-> at(i) = 1]
                                    ELSE imagesDraft[i]]
           drafts == [i \in Image |-> IF i \in which THEN rows[i] ELSE imagesDraft[i]]
<1>1. /\ r.stage = "place" /\ Gallery!Put(t, which, rows)
      /\ Gallery!Continues(t, [r EXCEPT !.stage = "commit"])
  BY DEF Gallery!PlaceImages, Placed, PlaceOf
<1>2. /\ t \in Editing /\ EditFits(r) /\ PlacesFit(r) /\ DOMAIN r = GalleryFields
      /\ galleryAlone[t] => EditKeeps(r, images, imagesDraft, kind)
  BY <1>1, UnderWay
<1>0. PICK q : NextOf(q, r, "commit")
  BY <1>2, NextEdit
<1>3. /\ q = [r EXCEPT !.stage = "commit"]
      /\ DOMAIN q = GalleryFields /\ PlacesFit(q) /\ q.stage = "commit"
      /\ q.del = r.del /\ q.up = r.up /\ q.plan = r.plan
      /\ q.new = r.new /\ q.covered = r.covered /\ q.place = r.place
      /\ q # Gallery!Idle
  BY <1>0 DEF NextOf
<1>4. Gallery!Continues(t, q)
  BY <1>1, <1>3
<1>5. \A i \in which : i \in Image /\ at(i) \in DOMAIN ids /\ ids[at(i)] = i /\ at(i) - 1 \in Nat
  BY <1>1, <1>2, PlanNames
<1>6. which \in SUBSET Image
  BY <1>5
<1>7. \A i \in which : rows[i] = [live |-> TRUE, order |-> at(i) - 1, primary |-> at(i) = 1]
  BY <1>5
<1>8. \A i \in which : rows[i] \in Gallery!ImageRow
  <2>1. \A i \in which : at(i) - 1 \in Nat /\ (at(i) = 1) \in BOOLEAN
    BY <1>5
  <2> HIDE DEF rows, which, at
  <2> QED BY <1>7, <2>1, RowOnShow
<1>9. ASSUME galleryAlone[t] PROVE EditKeeps(q, images, drafts, kind)
  <2> DEFINE kept == Left(r, images)
  <2>1. /\ r.plan # Gallery!NoPlan /\ r.del \subseteq Gallery!Shown(images)
        /\ kind = "product" /\ r.plan \in Gallery!Plans(kept, r.up)
        /\ \A i \in Image : imagesDraft[i].live <=> i \in kept
    BY <1>1, <1>2, <1>9 DEF EditKeeps, Writing
  <2>2. kept \in SUBSET Image /\ kept \subseteq Gallery!Shown(images) /\ IsFiniteSet(kept) /\ 0 \notin kept
    <3>1. kept \subseteq Gallery!Shown(images) /\ Gallery!Shown(images) \subseteq Image
      BY DEF Left, Gallery!Shown
    <3>2. IsFiniteSet(kept)
      BY <3>1, FS_Subset DEF GalleryLoneInv, GalleryTyped
    <3> QED BY <3>1, <3>2, GalleryAssumption
  <2>3. r.new \notin kept /\ (r.up => r.new # 0)
    <3>1. r.new # 0 <=> r.up
      BY <1>1, <1>2 DEF EditFits
    <3>2. r.new # 0 => Fresh(t)
      BY <1>1, <1>2 DEF Fresh
    <3>3. r.new # 0 => ~images[r.new].live
      BY <1>2, <3>2 DEF GalleryInv, NewsAreFresh
    <3> QED BY <2>2, <3>1, <3>3 DEF Gallery!Shown
  <2>4. r.up \in BOOLEAN
    BY <1>2 DEF PlacesFit
  <2>5. r.plan \in Gallery!Orders(kept \cup (IF r.up THEN {0} ELSE {})) /\ r.plan # <<>>
    BY <2>1, <2>2, <2>4, PlansAreOrders DEF Gallery!NoPlan
  <2>6. ids = [p \in DOMAIN r.plan |-> IF r.plan[p] = 0 THEN r.new ELSE r.plan[p]]
    BY DEF Gallery!PlanIds
  <2>7. /\ \A x : x \in which <=> x \in kept \/ (r.up /\ x = r.new)
        /\ 1 \in DOMAIN ids /\ at(ids[1]) = 1
        /\ {at(i) - 1 : i \in which} = 0..(Cardinality(which) - 1)
    <3> DEFINE up == r.up
               plan == r.plan
               new == r.new
               all == kept \cup (IF up THEN {0} ELSE {})
    <3>1. /\ IsFiniteSet(kept) /\ 0 \notin kept /\ up \in BOOLEAN
          /\ all = kept \cup (IF up THEN {0} ELSE {})
          /\ plan \in Gallery!Orders(all) /\ plan # <<>>
          /\ new \notin kept /\ (up => new # 0)
          /\ DOMAIN ids = DOMAIN plan
          /\ \A p \in DOMAIN ids : ids[p] = IF plan[p] = 0 THEN new ELSE plan[p]
      BY <2>2, <2>3, <2>4, <2>5, <2>6
    <3> HIDE DEF kept, ids, r, up, plan, new, all
    <3>2. /\ \A x : x \in Placed(ids) <=> x \in kept \/ (up /\ x = new)
          /\ 1 \in DOMAIN ids /\ PlaceOf(ids, ids[1]) = 1
          /\ {PlaceOf(ids, i) - 1 : i \in Placed(ids)} = 0..(Cardinality(Placed(ids)) - 1)
      BY <3>1, PlacesAreDense
    <3> QED BY <3>2 DEF up, new
  <2>14. /\ \A i \in which : drafts[i].live /\ drafts[i].order = at(i) - 1 /\ (drafts[i].primary <=> at(i) = 1)
         /\ \A i \in Image \ which : ~drafts[i].live
    <3>1. /\ \A i \in which : drafts[i] = [live |-> TRUE, order |-> at(i) - 1, primary |-> at(i) = 1]
          /\ \A i \in Image \ which : drafts[i] = imagesDraft[i]
      BY <1>6, <1>7
    <3> HIDE DEF drafts, which, at, ids, kept, r
    <3>2. ASSUME NEW i \in which
          PROVE  drafts[i].live /\ drafts[i].order = at(i) - 1 /\ (drafts[i].primary <=> at(i) = 1)
      <4> DEFINE n == at(i) - 1
                 b == at(i) = 1
                 d == drafts[i]
      <4>1. d = [live |-> TRUE, order |-> n, primary |-> b]
        BY <3>1
      <4> HIDE DEF n, b, d
      <4>2. d.live /\ d.order = n /\ d.primary = b
        BY <4>1
      <4> QED BY <4>2 DEF n, b, d
    <3>3. \A i \in Image \ which : ~drafts[i].live
      BY <2>1, <2>7, <3>1
    <3> QED BY <3>2, <3>3
  <2> HIDE DEF drafts, which, at, ids
  <2>8. Gallery!Shown(drafts) = which
    BY <1>6, <2>14 DEF Gallery!Shown
  <2>9. ids[1] \in Gallery!Covers(drafts)
    <3>1. ids[1] \in which
      BY <2>7 DEF which, Placed
    <3> QED BY <2>7, <2>8, <2>14, <3>1 DEF Gallery!Covers
  <2>10. {drafts[i].order : i \in Gallery!Shown(drafts)} = {at(i) - 1 : i \in which}
    BY <2>8, <2>14
  <2>11. Arranged(q, drafts, kind)
    BY <1>3, <2>1, <2>7, <2>8, <2>9, <2>10 DEF Arranged
  <2>12. Left(q, images) = kept
    BY <1>3 DEF Left
  <2>13. CoverKnown(q, images, drafts, kind)
    BY <1>3 DEF CoverKnown
  <2> QED BY <1>3, <2>1, <2>11, <2>12, <2>13 DEF EditKeeps
<1>10. t \in Editing /\ Gallery!Put(t, which, rows) /\ PlacesFit(q) /\ q # Gallery!Idle
       /\ q.stage \in Writing
  BY <1>1, <1>2, <1>3 DEF Writing
<1>11. drafts = [i \in Image |-> IF i \in which THEN rows[i] ELSE imagesDraft[i]]
  OBVIOUS
<1>12. galleryAlone[t] => EditKeeps(q, images, drafts, kind)
  BY <1>9
<1> HIDE DEF r, rows, which, drafts
<1> QED BY <1>4, <1>6, <1>8, <1>10, <1>11, <1>12, WriteGoesOn

LEMMA InsertImageKeepsLone ==
    ASSUME GalleryInv, GalleryLoneInv, NEW t \in Tx, Gallery!InsertImage(t)
    PROVE  GalleryLoneInv'
<1> DEFINE r == galleryRequest[t]
           which == {r.new}
           rows == [i \in Image |-> [live |-> TRUE, order |-> r.place, primary |-> ~r.covered]]
           drafts == [i \in Image |-> IF i \in which THEN rows[i] ELSE imagesDraft[i]]
<1>1. /\ r.stage = "insert" /\ Gallery!Put(t, which, rows)
      /\ Gallery!Continues(t, [r EXCEPT !.stage = "commit"])
  BY DEF Gallery!InsertImage
<1>2. /\ t \in Editing /\ EditFits(r) /\ PlacesFit(r) /\ DOMAIN r = GalleryFields
      /\ galleryAlone[t] => EditKeeps(r, images, imagesDraft, kind)
  BY <1>1, UnderWay
<1>0. PICK q : NextOf(q, r, "commit")
  BY <1>2, NextEdit
<1>3. /\ q = [r EXCEPT !.stage = "commit"]
      /\ DOMAIN q = GalleryFields /\ PlacesFit(q) /\ q.stage = "commit"
      /\ q.del = r.del /\ q.up = r.up /\ q.plan = r.plan
      /\ q.new = r.new /\ q.covered = r.covered /\ q.place = r.place
      /\ q # Gallery!Idle
  BY <1>0 DEF NextOf
<1>4. Gallery!Continues(t, q)
  BY <1>1, <1>3
<1>5. r.up /\ r.new \in Image /\ r.new # 0 /\ ~images[r.new].live
  <2>1. r.up /\ r.new # 0 /\ r.new \in Image
    BY <1>1, <1>2 DEF EditFits
  <2>2. Fresh(t)
    BY <1>1, <1>2, <2>1 DEF Fresh
  <2> QED BY <1>2, <2>1, <2>2 DEF GalleryInv, NewsAreFresh
<1>6. which \in SUBSET Image
  BY <1>5
<1>7. \A i \in which : rows[i] \in Gallery!ImageRow
  BY <1>2, <1>5 DEF PlacesFit, Gallery!ImageRow
<1>8. ASSUME galleryAlone[t] PROVE EditKeeps(q, images, drafts, kind)
  <2>1. /\ imagesDraft = RowsLeft(r, images) /\ r.plan = Gallery!NoPlan
        /\ r.del \subseteq Gallery!Shown(images)
        /\ kind = "product" => (r.covered <=> Gallery!Covers(images) \ r.del # {})
        /\ kind = "combo" => /\ r.covered <=> Gallery!Covers(imagesDraft) # {}
                             /\ \A i \in Gallery!Shown(imagesDraft) : imagesDraft[i].order < r.place
    BY <1>1, <1>2, <1>8 DEF EditKeeps, Writing, CoverKnown
  <2>2. kind \in {"product", "combo"}
    BY DEF GalleryLoneInv
  <2>3. \A i \in Image : i # r.new => drafts[i] = imagesDraft[i]
    OBVIOUS
  <2>4. /\ drafts[r.new].live /\ drafts[r.new].order = r.place
        /\ drafts[r.new].primary = ~r.covered
    BY <1>5
  <2>5. ~imagesDraft[r.new].live
    BY <1>5, <2>1 DEF RowsLeft, Gallery!Nothing
  <2>6. \A i \in Gallery!Covers(images) \ r.del : i \in Gallery!Covers(imagesDraft)
    BY <2>1 DEF RowsLeft, Gallery!Covers, Gallery!Shown
  <2> HIDE DEF drafts
  <2>7. \A i \in Gallery!Covers(imagesDraft) : i \in Gallery!Covers(drafts)
    BY <2>3, <2>5 DEF Gallery!Covers, Gallery!Shown
  <2>8. Gallery!Covers(drafts) # {}
    <3>1. CASE r.covered
      BY <2>1, <2>2, <2>6, <2>7, <3>1
    <3>2. CASE ~r.covered
      BY <1>5, <2>4, <3>2 DEF Gallery!Covers, Gallery!Shown
    <3> QED BY <3>1, <3>2
  <2>9. kind = "combo" =>
            \A i \in Gallery!Shown(drafts) \ {r.new} : drafts[i].order < drafts[r.new].order
    BY <2>1, <2>3, <2>4 DEF Gallery!Shown
  <2>10. Arranged(q, drafts, kind)
    BY <1>3, <2>1, <2>8, <2>9 DEF Arranged
  <2>11. CoverKnown(q, images, drafts, kind)
    BY <1>3 DEF CoverKnown
  <2> QED BY <1>3, <2>1, <2>10, <2>11 DEF EditKeeps
<1>9. t \in Editing /\ Gallery!Put(t, which, rows) /\ PlacesFit(q) /\ q # Gallery!Idle
      /\ q.stage \in Writing
  BY <1>1, <1>2, <1>3 DEF Writing
<1>10. drafts = [i \in Image |-> IF i \in which THEN rows[i] ELSE imagesDraft[i]]
  OBVIOUS
<1>11. galleryAlone[t] => EditKeeps(q, images, drafts, kind)
  BY <1>8
<1> HIDE DEF r, rows, which, drafts
<1> QED BY <1>4, <1>6, <1>7, <1>9, <1>10, <1>11, WriteGoesOn

LEMMA GalleryLoneBegins == ASSUME Gallery!GalleryInit PROVE GalleryLoneInv
<1>1. PICK gap \in {0, 1} : images = [i \in Image |->
              IF i \in 1..FirstImages
              THEN [live |-> TRUE, order |-> IF i = 1 THEN 0 ELSE i - 1 + gap, primary |-> i = 1]
              ELSE Gallery!Nothing]
  BY DEF Gallery!GalleryInit
<1>2. /\ kind \in {"product", "combo"} /\ imagesDraft = images
      /\ imagesHolder = [i \in Image |-> NoTx]
      /\ galleryRequest = [t \in Tx |-> Gallery!Idle] /\ galleryAlone = [t \in Tx |-> FALSE]
  BY DEF Gallery!GalleryInit
<1>3. images \in [Image -> Gallery!ImageRow]
  <2>1. ASSUME NEW i \in Image PROVE images[i] \in Gallery!ImageRow
    <3>1. CASE i \in 1..FirstImages
      <4> DEFINE n == IF i = 1 THEN 0 ELSE i - 1 + gap
                 b == i = 1
      <4>1. n \in Nat /\ b \in BOOLEAN
        BY <3>1, GalleryAssumption
      <4>2. images[i] = [live |-> TRUE, order |-> n, primary |-> b]
        BY <1>1, <3>1
      <4> HIDE DEF n, b
      <4> QED BY <4>1, <4>2, RowOnShow
    <3>2. CASE i \notin 1..FirstImages
      BY <1>1, <3>2 DEF Gallery!Nothing, Gallery!ImageRow
    <3> QED BY <3>1, <3>2
  <2>2. images = [i \in Image |-> images[i]]
    BY <1>1
  <2> QED BY <2>1, <2>2
<1>4. IsFiniteSet(Gallery!Shown(images))
  <2>1. Gallery!Shown(images) \subseteq 1..FirstImages
    BY <1>1 DEF Gallery!Shown, Gallery!Nothing
  <2>2. IsFiniteSet(1..FirstImages)
    BY GalleryAssumption, FS_Interval
  <2> QED BY <2>1, <2>2, FS_Subset
<1>5. Editing = {}
  BY <1>2 DEF Editing
<1>6. GalleryTyped
  BY <1>2, <1>3, <1>4, <1>5 DEF GalleryTyped
<1>7. Histories(galleryRequest, galleryAlone) /\ LoneIsLone(galleryRequest, galleryAlone)
  BY <1>2, NobodyYet DEF Gallery!Idle, Idle
<1>8. \A t \in Tx : ~galleryAlone[t]
  BY <1>2
<1> QED BY <1>2, <1>6, <1>7, <1>8 DEF GalleryLoneInv

\* What is over, committed or not, is arranged.
LEMMA EditIsOver ==
    ASSUME GalleryInv, GalleryLoneInv, NEW t \in Tx, galleryRequest[t].stage # "idle",
           Gallery!Committed(t) \/ Gallery!Undone(t), kind' = kind, NEW next \in {"unlink", "clean"},
           Gallery!Continues(t, [galleryRequest[t] EXCEPT !.stage = next])
    PROVE  GalleryLoneInv'
<1> DEFINE r == galleryRequest[t]
<1>1. t \in Editing /\ PlacesFit(r) /\ DOMAIN r = GalleryFields
  BY UnderWay
<1>2. PICK q : NextOf(q, r, next)
  BY <1>1, NextEdit
<1>3. /\ Gallery!Continues(t, q) /\ Gallery!Go(t, q)
      /\ PlacesFit(q) /\ q.stage = next /\ q # Gallery!Idle
  BY <1>2 DEF NextOf, Gallery!Continues
<1>4. GalleryTyped'
  <2>1. t \in Editing /\ Gallery!Go(t, q) /\ PlacesFit(q)
    BY <1>1, <1>3
  <2>2. CASE Gallery!Committed(t)
    BY <2>1, <2>2, CommittedTypes
  <2>3. CASE Gallery!Undone(t)
    BY <2>1, <2>3, UndoneTypes
  <2> QED BY <2>2, <2>3
<1>5. EditKeeps(q, images', imagesDraft', kind)
  BY <1>3 DEF EditKeeps, CoverKnown, Writing
<1>6. galleryRequest[t] # Gallery!Idle
  BY <1>1 DEF Editing
<1> QED BY <1>3, <1>4, <1>5, <1>6, LoneEditGoesOn

\* An edit that is gone leaves the rows to others.
LEMMA EditIsGone ==
    ASSUME GalleryInv, GalleryLoneInv, NEW t \in Tx, Gallery!UnlinkFiles(t) \/ Gallery!Crash(t)
    PROVE  GalleryLoneInv'
<1>1. galleryRequest[t] # Gallery!Idle /\ Gallery!Ends(t) /\ kind' = kind
  BY DEF Gallery!UnlinkFiles, Gallery!Crash, Gallery!Undone, Gallery!Idle
<1>2. t \in Editing /\ Gallery!Go(t, Gallery!Idle)
  BY <1>1 DEF Editing, Gallery!Ends
<1>3. CASE Gallery!Crash(t)
  <2>1. GalleryTyped'
    BY <1>2, <1>3, UndoneTypes DEF Gallery!Crash
  <2> QED BY <1>1, <2>1, LoneEditEnds
<1>4. CASE Gallery!UnlinkFiles(t)
  <2>1. /\ UNCHANGED <<images, imagesDraft, imagesHolder>>
        /\ galleryRequest[t].stage \in {"unlink", "clean"}
    BY <1>4 DEF Gallery!UnlinkFiles, Gallery!AtImages
  <2>2. GalleryTyped
    BY DEF GalleryLoneInv
  <2>3. \A i \in Image : imagesHolder[i] # t
    BY <2>1, <2>2, NoTxAssumption DEF GalleryTyped, Writing
  <2>4. /\ images' \in [Image -> Gallery!ImageRow] /\ imagesDraft' \in [Image -> Gallery!ImageRow]
        /\ IsFiniteSet(Gallery!Shown(images'))
        /\ \A i \in Image : imagesHolder'[i] = imagesHolder[i]
    BY <2>1, <2>2 DEF GalleryTyped
  <2>5. GalleryTyped'
    BY <1>2, <2>2, <2>3, <2>4, TypesGoOn
  <2> QED BY <1>1, <2>5, LoneEditEnds
<1> QED BY <1>3, <1>4

LEMMA GalleryStepKeepsLone ==
    ASSUME GalleryInv, GalleryLoneInv, [Gallery!GalleryNext]_(Gallery!galleryVars)
    PROVE  GalleryLoneInv'
<1>1. CASE UNCHANGED Gallery!galleryVars
  <2>1. UNCHANGED <<kind, images, imagesDraft, imagesHolder, galleryRequest, galleryAlone>>
    BY <1>1 DEF Gallery!galleryVars, Gallery!AtImages
  <2>2. Editing' = Editing
    BY <2>1 DEF Editing
  <2>3. GalleryTyped'
    BY <2>1, <2>2 DEF GalleryLoneInv, GalleryTyped, Gallery!Shown, PlacesFit
  <2> QED BY <2>1, <2>3 DEF GalleryLoneInv
<1>2. ASSUME NEW t \in Tx, Gallery!Ask(t) PROVE GalleryLoneInv'
  <2>1. PICK del \in SUBSET Gallery!Shown(images), up \in BOOLEAN :
           \E plan \in {Gallery!NoPlan} \cup Gallery!Plans(Gallery!Shown(images) \ del, up) :
              Gallery!BeginEdit(t, del, up, plan)
    BY <1>2 DEF Gallery!Ask
  <2>2. del \in SUBSET Image
    BY DEF Gallery!Shown
  <2> QED BY <2>1, <2>2, LoneEditBegins
<1>3. ASSUME NEW t \in Tx, Gallery!Serve(t) PROVE GalleryLoneInv'
  <2>1. CASE Gallery!Upload(t) \/ Gallery!DeleteImages(t) \/ Gallery!ClearCovers(t)
             \/ Gallery!PlaceImages(t) \/ Gallery!CountCovers(t) \/ Gallery!FindPlace(t)
             \/ Gallery!InsertImage(t) \/ Gallery!UnlinkFiles(t) \/ Gallery!Crash(t)
    BY <2>1, UploadKeepsLone, DeleteImagesKeepsLone, ClearCoversKeepsLone, PlaceImagesKeepsLone,
       CountCoversKeepsLone, FindPlaceKeepsLone, InsertImageKeepsLone, EditIsGone
  <2>2. CASE Gallery!Commit(t)
    BY <2>2, EditIsOver DEF Gallery!Commit
  <2>3. CASE Gallery!Mistaken(t)
    BY <2>3, EditIsOver DEF Gallery!Mistaken
  <2>4. CASE Gallery!Fails(t)
    BY <2>4, EditIsOver DEF Gallery!Fails, Gallery!Undone
  <2> QED BY <1>3, <2>1, <2>2, <2>3, <2>4 DEF Gallery!Serve
<1> QED BY <1>1, <1>2, <1>3 DEF Gallery!GalleryNext

\* The property's action, for one edit.
LEMMA LoneCommitArranges ==
    ASSUME GalleryInv, GalleryLoneInv, NEW t \in Tx, galleryAlone[t], Gallery!Commit(t),
           NEW r, r = galleryRequest[t]
    PROVE  /\ Gallery!Shown(images') # {} /\ Gallery!Covers(images') = {} => ~r.up /\ r.plan = Gallery!NoPlan
           /\ r.plan # Gallery!NoPlan =>
                 {images'[i].order : i \in Gallery!Shown(images')}
                   = 0..(Gallery!Cardinality(Gallery!Shown(images')) - 1)
           /\ kind = "combo" /\ r.up =>
                 \A i \in Gallery!Shown(images') \ {r.new} : images'[i].order < images'[r.new].order
<1>1. r.stage = "commit" /\ images' = Gallery!Rows(t)
  BY DEF Gallery!Commit, Gallery!Committed
<1>2. images' = imagesDraft
  BY <1>1, LoneEditSeesNewest
<1>3. EditKeeps(r, images, imagesDraft, kind)
  BY DEF GalleryLoneInv
<1>4. Arranged(r, images', kind)
  BY <1>1, <1>2, <1>3 DEF EditKeeps
<1>5. Gallery!Cardinality(Gallery!Shown(images')) = Cardinality(Gallery!Shown(images'))
  BY GalleryCounts
<1> QED BY <1>4, <1>5 DEF Arranged

\* An edit of images nobody overlaps never leaves them without a cover after it
\* uploaded or arranged them, its arrangement has no gap and no double, and a
\* combo's new image comes last (ProductService.updateProduct, reorderImages,
\* ComboProductService.updateComboProduct), for any number of images and edits.
THEOREM LoneEditsArrange == Gallery!GallerySpec => LoneEditArranges
<1>1. Gallery!GalleryInit => GalleryLoneInv
  BY GalleryLoneBegins
<1>2. GalleryInv /\ GalleryLoneInv /\ [Gallery!GalleryNext]_(Gallery!galleryVars) => GalleryLoneInv'
  BY GalleryStepKeepsLone
<1>3. GalleryInv /\ GalleryLoneInv =>
        [\A t \in Tx : galleryAlone[t] /\ Gallery!Commit(t) =>
           LET r == galleryRequest[t] IN
           /\ Gallery!Shown(images') # {} /\ Gallery!Covers(images') = {} => ~r.up /\ r.plan = Gallery!NoPlan
           /\ r.plan # Gallery!NoPlan =>
                 {images'[i].order : i \in Gallery!Shown(images')}
                   = 0..(Gallery!Cardinality(Gallery!Shown(images')) - 1)
           /\ kind = "combo" /\ r.up =>
                 \A i \in Gallery!Shown(images') \ {r.new} : images'[i].order < images'[r.new].order
        ]_(Gallery!galleryVars)
  BY LoneCommitArranges
<1> QED BY <1>1, <1>2, <1>3, GalleryHolds, PTL
     DEF Gallery!GallerySpec, LoneEditArranges, Gallery!LoneEditArranges
=============================================================================
