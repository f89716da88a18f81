-------------------------- MODULE HomeSlidesProofs --------------------------
(***************************************************************************)
(* Proofs about the slides of the home page and their audit trail, for any *)
(* pool and any number of requests at a time.                              *)
(***************************************************************************)
EXTENDS HomeSlides, TLAPS

Actions == {"CREATE", "UPDATE", "DELETE"}

IsRow(row) ==
    row = [life |-> row.life, order |-> row.order] /\ row.life \in {"fresh", "live", "gone", "burnt"}

Fields == {"op", "stage", "slide", "asked", "target", "todo", "delta", "from", "to", "seen", "logged"}

\* A request being served.
Served(r) ==
    /\ DOMAIN r = Fields
    /\ r.op \in {"create", "move", "delete"}
    /\ r.stage \in {"open", "place", "last", "range", "shift", "look", "write", "log", "late", "commit"}

\* The tables hold rows and requests; where a slide is is not the trail's
\* matter.
SlidesTyped ==
    /\ slide = [s \in Slide |-> slide[s]] /\ slideDraft = [s \in Slide |-> slideDraft[s]]
    /\ \A s \in Slide : IsRow(slide[s]) /\ IsRow(slideDraft[s])
    /\ slideHolder \in [Slide -> Tx \cup {NoTx}]
    /\ audit \in [Slide -> SUBSET Actions]
    /\ request = [t \in Tx |-> request[t]]
    /\ \A t \in Tx : request[t] = Idle \/ Served(request[t])

\* What the actions recorded of a slide owe its life.
Told(actions, life) ==
    /\ life \in {"live", "gone"} => "CREATE" \in actions
    /\ life = "gone" => "DELETE" \in actions

\* The one thing a transaction has done and not yet recorded.
StillToLog(t, s) ==
    /\ request[t].stage = "log" /\ request[t].slide = s
    /\ \/ request[t].op = "create" /\ slideDraft[s].life = "live"
       \/ request[t].op = "delete" /\ slideDraft[s].life = "gone" /\ "CREATE" \in audit[s]

\* Drafts are recorded before they can be committed.
TrailInv ==
    /\ SlidesTyped
    /\ DraftsAreHeld(slide, slideDraft, slideHolder)
    /\ \A s \in Slide : Told(audit[s], slide[s].life)
    /\ \A t \in Tx, s \in Slide : slideHolder[s] = t =>
          Told(audit[s], slideDraft[s].life) \/ StillToLog(t, s)

\* What a request that waits at no audit row holds is recorded already, and so
\* is what it could lock.
LEMMA FreeIsTold ==
    ASSUME TrailInv, NEW t \in Tx, request[t].stage # "log", NEW s \in Slide, Free(slideHolder, t, s)
    PROVE  Told(audit[s], slideDraft[s].life)
<1>1. CASE slideHolder[s] = t
  BY <1>1 DEF TrailInv, StillToLog
<1>2. CASE slideHolder[s] = NoTx
  BY <1>2 DEF TrailInv, DraftsAreHeld, SlidesTyped
<1> QED BY <1>1, <1>2 DEF Free

\* A step of t that changes no row and no trail.
LEMMA StatementKeepsTrail ==
    ASSUME TrailInv, NEW t \in Tx, NEW r, Go(t, r), r = Idle \/ Served(r), request[t].stage # "log",
           UNCHANGED <<slide, slideDraft, slideHolder, audit>>
    PROVE  TrailInv'
<1>1. SlidesTyped'
  BY DEF TrailInv, SlidesTyped, Go
<1>2. /\ \A u \in Tx : u # t => request'[u] = request[u]
      /\ \A s \in Slide : ~StillToLog(t, s)
  BY DEF TrailInv, SlidesTyped, Go, StillToLog
<1>3. ASSUME NEW u \in Tx, NEW s \in Slide, slideHolder[s] = u
      PROVE  Told(audit[s], slideDraft[s].life) \/ StillToLog(u, s)'
  <2>1. CASE u = t
    BY <1>2, <1>3, <2>1 DEF TrailInv
  <2>2. CASE u # t
    BY <1>2, <1>3, <2>2 DEF TrailInv, StillToLog
  <2> QED BY <2>1, <2>2
<1> QED BY <1>1, <1>3 DEF TrailInv, Told, DraftsAreHeld

\* A step of t that writes one row: it is recorded, or will be next.
LEMMA PutKeepsTrail ==
    ASSUME TrailInv, NEW t \in Tx, NEW r, Go(t, r), r = Idle \/ Served(r), request[t].stage # "log",
           NEW s \in Slide, NEW row, IsRow(row), Put(t, s, row), UNCHANGED audit,
           Told(audit[s], row.life) \/ StillToLog(t, s)'
    PROVE  TrailInv'
<1>1. /\ slideDraft' = [slideDraft EXCEPT ![s] = row]
      /\ slideHolder' = [slideHolder EXCEPT ![s] = t]
      /\ slide' = slide /\ audit' = audit
  BY DEF Put, Lock
<1>2. SlidesTyped'
  BY <1>1 DEF TrailInv, SlidesTyped, Go
<1>3. DraftsAreHeld(slide, slideDraft, slideHolder)'
  BY <1>1, NoTxAssumption DEF TrailInv, SlidesTyped, DraftsAreHeld
<1>4. /\ \A u \in Tx : u # t => request'[u] = request[u]
      /\ \A d \in Slide : ~StillToLog(t, d)
  BY DEF TrailInv, SlidesTyped, Go, StillToLog
<1>5. ASSUME NEW u \in Tx, NEW d \in Slide, slideHolder'[d] = u
      PROVE  Told(audit[d], slideDraft'[d].life) \/ StillToLog(u, d)'
  <2>1. CASE d = s
    BY <1>1, <1>5, <2>1 DEF TrailInv, SlidesTyped
  <2>2. CASE d # s
    <3>1. slideHolder[d] = u /\ slideDraft'[d] = slideDraft[d]
      BY <1>1, <1>5, <2>2 DEF TrailInv, SlidesTyped
    <3>2. CASE u = t
      BY <1>4, <3>1, <3>2 DEF TrailInv
    <3>3. CASE u # t
      BY <1>1, <1>4, <3>1, <3>3 DEF TrailInv, StillToLog
    <3> QED BY <3>2, <3>3
  <2> QED BY <2>1, <2>2
<1> QED BY <1>1, <1>2, <1>3, <1>5 DEF TrailInv, Told

\* The audit row of t's slide.
LEMMA RecordKeepsTrail ==
    ASSUME TrailInv, NEW t \in Tx, NEW r, Go(t, r), r = Idle \/ Served(r), Record(request[t]),
           request[t].stage \in {"log", "late"}, UNCHANGED AtSlides
    PROVE  TrailInv'
<1>1. /\ \A s \in Slide : audit[s] \subseteq audit'[s]
      /\ audit' \in [Slide -> SUBSET Actions]
      /\ request[t].slide \in Slide => ActionOf(request[t].op) \in audit'[request[t].slide]
  BY DEF TrailInv, SlidesTyped, Record, ActionOf, Actions
<1>2. slide' = slide /\ slideDraft' = slideDraft /\ slideHolder' = slideHolder
  BY DEF AtSlides
<1>3. SlidesTyped'
  BY <1>1, <1>2 DEF TrailInv, SlidesTyped, Go
<1>4. \A u \in Tx : u # t => request'[u] = request[u]
  BY DEF TrailInv, SlidesTyped, Go
<1>5. \A s \in Slide : \A life : Told(audit[s], life) => Told(audit'[s], life)
  BY <1>1 DEF Told
<1>6. \A s \in Slide : Told(audit'[s], slide'[s].life)
  BY <1>2, <1>5 DEF TrailInv
<1>7. ASSUME NEW u \in Tx, NEW s \in Slide, slideHolder[s] = u
      PROVE  Told(audit'[s], slideDraft[s].life) \/ StillToLog(u, s)'
  <2>1. CASE Told(audit[s], slideDraft[s].life)
    BY <1>5, <2>1
  <2>2. CASE StillToLog(u, s)
    <3>1. CASE u = t
      BY <1>1, <2>2, <3>1 DEF StillToLog, ActionOf, Told
    <3>2. CASE u # t
      BY <1>1, <1>2, <1>4, <2>2, <3>2 DEF StillToLog
    <3> QED BY <3>1, <3>2
  <2> QED BY <1>7, <2>1, <2>2 DEF TrailInv
<1> QED BY <1>2, <1>3, <1>6, <1>7 DEF TrailInv, Told, DraftsAreHeld

\* The end of a transaction that keeps nothing.
LEMMA RollbackKeepsTrail ==
    ASSUME TrailInv, NEW t \in Tx, NEW r, Go(t, r), r = Idle \/ Served(r), RolledBack(t)
    PROVE  TrailInv'
<1>1. /\ \A s \in Slide : slideHolder'[s] = IF slideHolder[s] = t THEN NoTx ELSE slideHolder[s]
      /\ DOMAIN slideHolder' = Slide
      /\ slideHolder' \in [Slide -> Tx \cup {NoTx}]
  BY DEF TrailInv, SlidesTyped, RolledBack, Release, Unlock
<1> DEFINE back == Discard(slide, slideDraft, slideHolder, t)
<1>2. \A s \in Slide : /\ back[s] = IF slideHolder[s] = t THEN slide[s] ELSE slideDraft[s]
                       /\ IsRow(back[s])
  BY DEF TrailInv, SlidesTyped, Discard
<1>3. /\ slide' = [s \in Slide |-> IF slideHolder[s] = t /\ slide[s].life = "fresh"
                                   THEN [slide[s] EXCEPT !.life = "burnt"] ELSE slide[s]]
      /\ slideDraft' = [s \in Slide |-> IF slideHolder[s] = t /\ slide[s].life = "fresh"
                                        THEN [back[s] EXCEPT !.life = "burnt"] ELSE back[s]]
      /\ audit' = audit
  BY DEF RolledBack
<1> HIDE DEF back
<1>4. ASSUME NEW row, IsRow(row)
      PROVE  /\ IsRow([row EXCEPT !.life = "burnt"])
             /\ [row EXCEPT !.life = "burnt"].life = "burnt"
  BY <1>4 DEF IsRow
<1>5. SlidesTyped'
  <2>1. slide' = [s \in Slide |-> slide'[s]] /\ \A s \in Slide : IsRow(slide'[s])
    BY <1>3, <1>4 DEF TrailInv, SlidesTyped
  <2>2. slideDraft' = [s \in Slide |-> slideDraft'[s]] /\ \A s \in Slide : IsRow(slideDraft'[s])
    BY <1>2, <1>3, <1>4
  <2> QED BY <1>1, <1>3, <2>1, <2>2 DEF TrailInv, SlidesTyped, Go
<1>6. DraftsAreHeld(slide, slideDraft, slideHolder)'
  <2>1. ASSUME NEW s \in Slide, slideHolder'[s] = NoTx
        PROVE  slideDraft'[s] = slide'[s]
    <3>1. CASE slideHolder[s] = t
      BY <1>2, <1>3, <3>1
    <3>2. CASE slideHolder[s] # t
      <4>1. slideDraft[s] = slide[s]
        BY <1>1, <2>1, <3>2 DEF TrailInv, DraftsAreHeld, SlidesTyped
      <4> QED BY <1>2, <1>3, <3>2, <4>1
    <3> QED BY <3>1, <3>2
  <2> QED BY <1>1, <2>1 DEF DraftsAreHeld
<1>7. ASSUME NEW s \in Slide
      PROVE  Told(audit'[s], slide'[s].life)
  <2>1. slide'[s].life = slide[s].life \/ slide'[s].life = "burnt"
    BY <1>3, <1>4 DEF TrailInv, SlidesTyped
  <2> QED BY <1>3, <2>1 DEF TrailInv, Told
<1>8. ASSUME NEW u \in Tx, NEW s \in Slide, slideHolder'[s] = u
      PROVE  Told(audit'[s], slideDraft'[s].life) \/ StillToLog(u, s)'
  <2>1. u # t /\ slideHolder[s] = u
    BY <1>1, <1>8, NoTxAssumption
  <2>2. slideDraft'[s] = slideDraft[s] /\ request'[u] = request[u] /\ audit' = audit
    BY <1>2, <1>3, <2>1 DEF TrailInv, SlidesTyped, Go
  <2> QED BY <2>1, <2>2 DEF TrailInv, Told, StillToLog
<1> QED BY <1>5, <1>6, <1>7, <1>8 DEF TrailInv, Told

LEMMA CommitKeepsTrail ==
    ASSUME TrailInv, NEW t \in Tx, Commit(t)
    PROVE  TrailInv'
<1>1. /\ \A s \in Slide : slideHolder'[s] = IF slideHolder[s] = t THEN NoTx ELSE slideHolder[s]
      /\ slideHolder' \in [Slide -> Tx \cup {NoTx}] /\ DOMAIN slideHolder' = Slide
      /\ \A s \in Slide : slide'[s] = IF slideHolder[s] = t THEN slideDraft[s] ELSE slide[s]
      /\ slide' = [s \in Slide |-> slide'[s]] /\ \A s \in Slide : IsRow(slide'[s])
      /\ slideDraft' = slideDraft /\ audit' = audit
      /\ \A u \in Tx : u # t => request'[u] = request[u]
  BY DEF TrailInv, SlidesTyped, Commit, Release, Unlock, Rows, View, Go
<1>2. SlidesTyped'
  BY <1>1 DEF TrailInv, SlidesTyped, Commit, Go
<1>3. DraftsAreHeld(slide, slideDraft, slideHolder)'
  BY <1>1 DEF TrailInv, DraftsAreHeld, SlidesTyped
<1>4. ASSUME NEW s \in Slide
      PROVE  Told(audit[s], slide'[s].life)
  <2>1. CASE slideHolder[s] = t
    <3>1. Told(audit[s], slideDraft[s].life)
      BY <2>1 DEF TrailInv, StillToLog, Commit
    <3> QED BY <1>1, <2>1, <3>1
  <2>2. CASE slideHolder[s] # t
    BY <1>1, <2>2 DEF TrailInv
  <2> QED BY <2>1, <2>2
<1>5. ASSUME NEW u \in Tx, NEW s \in Slide, slideHolder'[s] = u
      PROVE  Told(audit[s], slideDraft[s].life) \/ StillToLog(u, s)'
  <2>1. u # t /\ slideHolder[s] = u
    BY <1>1, <1>5, NoTxAssumption
  <2> QED BY <1>1, <2>1 DEF TrailInv, StillToLog
<1> QED BY <1>1, <1>2, <1>3, <1>4, <1>5 DEF TrailInv, Told

\* What a request goes on as.
LEMMA NextServed ==
    ASSUME NEW r, Served(r)
    PROVE  /\ \A stage \in {"place", "look", "write", "log", "commit", "late"} :
                 Served([r EXCEPT !.stage = stage])
           /\ \A seen : Served([r EXCEPT !.stage = "write", !.seen = seen])
           /\ \A target : /\ Served([r EXCEPT !.stage = "write", !.target = target])
                          /\ Served([r EXCEPT !.target = target, !.stage = "look"])
           /\ \A logged : Served([r EXCEPT !.stage = "log", !.logged = logged])
           /\ \A from : Served([r EXCEPT !.stage = "last", !.from = from])
           /\ \A todo : /\ Served([r EXCEPT !.todo = todo])
                        /\ Served([r EXCEPT !.stage = "shift", !.todo = todo])
           /\ \A from, to, delta : Served(Range(r, from, to, delta))
<1>1. \A stage \in {"place", "look", "write", "log", "commit", "late"} : Served([r EXCEPT !.stage = stage])
  BY DEF Served, Fields
<1>2. \A seen : Served([r EXCEPT !.stage = "write", !.seen = seen])
  BY DEF Served, Fields
<1>3. \A target : /\ Served([r EXCEPT !.stage = "write", !.target = target])
                  /\ Served([r EXCEPT !.target = target, !.stage = "look"])
  BY DEF Served, Fields
<1>4. \A logged : Served([r EXCEPT !.stage = "log", !.logged = logged])
  BY DEF Served, Fields
<1>5. \A from : Served([r EXCEPT !.stage = "last", !.from = from])
  BY DEF Served, Fields
<1>6. \A todo : /\ Served([r EXCEPT !.todo = todo])
                /\ Served([r EXCEPT !.stage = "shift", !.todo = todo])
  BY DEF Served, Fields
<1>7. \A from, to, delta : Served(Range(r, from, to, delta))
  BY DEF Served, Fields, Range
<1> QED BY <1>1, <1>2, <1>3, <1>4, <1>5, <1>6, <1>7

\* A clamped move goes on to its shift, or has none to make, and is otherwise
\* the request it was.
LEMMA ClampedServed ==
    ASSUME NEW r, Served(r), NEW last
    PROVE  /\ Served(Clamped(r, last))
           /\ Clamped(r, last).slide = r.slide /\ Clamped(r, last).op = r.op
           /\ Clamped(r, last).todo = r.todo /\ Clamped(r, last).stage \in {"range", "look"}
<1> DEFINE target == IF r.asked > last THEN last ELSE r.asked
           placed == [r EXCEPT !.target = target, !.stage = "look"]
           Ok(q) == /\ Served(q)
                    /\ q.slide = r.slide /\ q.op = r.op /\ q.todo = r.todo
                    /\ q.stage \in {"range", "look"}
<1>1. Ok(placed)
  BY DEF Served, Fields
<1>2. Clamped(r, last) = IF target < r.from THEN Range(placed, target, r.from - 1, 1)
                         ELSE IF target > r.from THEN Range(placed, r.from + 1, target, -1)
                         ELSE placed
  BY DEF Clamped
<1> HIDE DEF placed, target
<1>3. ASSUME NEW from, NEW to, NEW delta
      PROVE  Ok(Range(placed, from, to, delta))
  BY <1>1 DEF Served, Fields, Range
<1> HIDE DEF Ok
<1>4. CASE target < r.from
  BY <1>2, <1>3, <1>4 DEF Ok
<1>5. CASE ~(target < r.from) /\ target > r.from
  <2>1. Clamped(r, last) = Range(placed, r.from + 1, target, -1)
    BY <1>2, <1>5, Zenon
  <2>2. Ok(Clamped(r, last))
    BY <1>3, <2>1
  <2> QED BY <2>2 DEF Ok
<1>6. CASE ~(target < r.from) /\ ~(target > r.from)
  BY <1>1, <1>2, <1>6 DEF Ok
<1> QED BY <1>4, <1>5, <1>6, Zenon

\* Every step keeps the trail ahead of the rows.
LEMMA TrailStep ==
    ASSUME TrailInv, [SlidesNext]_slideVars
    PROVE  TrailInv'
<1>1. CASE UNCHANGED slideVars
  BY <1>1 DEF slideVars, TrailInv, SlidesTyped, DraftsAreHeld, StillToLog
<1>2. ASSUME NEW t \in Tx, NEW r, Begin(t, r), Served(r)
      PROVE  TrailInv'
  BY <1>2, StatementKeepsTrail DEF Begin, AtSlides, Idle
<1>3. ASSUME NEW op \in {"create", "move", "delete"}, NEW s, NEW asked
      PROVE  Served(Asked(op, s, asked))
  BY <1>3 DEF Asked, Served, Fields
<1>4. ASSUME NEW t \in Tx, request[t].stage # "idle"
      PROVE  Served(request[t])
  BY <1>4 DEF TrailInv, SlidesTyped, Idle
<1>5. ASSUME NEW t \in Tx, Open(t)
      PROVE  TrailInv'
  BY <1>4, <1>5, NextServed, StatementKeepsTrail DEF Open, AtSlides
<1>6. ASSUME NEW t \in Tx, PlaceCreate(t) \/ PlaceMove(t) \/ Clamp(t) \/ PickRows(t)
      PROVE  TrailInv'
  <2>1. CASE PlaceCreate(t)
    BY <1>4, <2>1, NextServed, StatementKeepsTrail DEF PlaceCreate, AtSlides
  <2>2. CASE PlaceMove(t)
    BY <1>4, <2>2, NextServed, StatementKeepsTrail DEF PlaceMove, AtSlides
  <2>3. CASE Clamp(t)
    BY <1>4, <2>3, ClampedServed, StatementKeepsTrail DEF Clamp, AtSlides
  <2>4. CASE PickRows(t)
    BY <1>4, <2>4, NextServed, StatementKeepsTrail DEF PickRows, AtSlides
  <2> QED BY <1>6, <2>1, <2>2, <2>3, <2>4
<1>7. ASSUME NEW t \in Tx, ShiftRow(t)
      PROVE  TrailInv'
  <2> DEFINE r == request[t]
  <2>1. PICK s \in r.todo :
           /\ Free(slideHolder, t, s)
           /\ Go(t, [r EXCEPT !.todo = @ \ {s}])
           /\ IF slideDraft[s].life = "live" /\ InRange(r, slideDraft[s].order)
              THEN Put(t, s, [slideDraft[s] EXCEPT !.order = @ + r.delta])
              ELSE UNCHANGED AtSlides
    BY <1>7 DEF ShiftRow
  <2>2. r.stage = "shift" /\ audit' = audit /\ Served([r EXCEPT !.todo = @ \ {s}])
    BY <1>4, <1>7, NextServed DEF ShiftRow
  <2>3. CASE UNCHANGED <<slide, slideDraft, slideHolder>>
    BY <2>1, <2>2, <2>3, StatementKeepsTrail
  <2>4. CASE /\ s \in Slide
             /\ Put(t, s, [slideDraft[s] EXCEPT !.order = @ + r.delta])
    <3> DEFINE row == [slideDraft[s] EXCEPT !.order = @ + r.delta]
    <3>1. IsRow(row) /\ row.life = slideDraft[s].life
      BY <2>4 DEF TrailInv, SlidesTyped, IsRow
    <3>2. Told(audit[s], slideDraft[s].life)
      BY <2>1, <2>2, <2>4, FreeIsTold
    <3> HIDE DEF row
    <3>3. Put(t, s, row)
      BY <2>4 DEF row
    <3> QED BY <2>1, <2>2, <2>4, <3>1, <3>2, <3>3, PutKeepsTrail
  <2>5. CASE /\ s \notin Slide
             /\ Put(t, s, [slideDraft[s] EXCEPT !.order = @ + r.delta])
    <3>1. UNCHANGED <<slide, slideDraft, slideHolder>>
      BY <2>5 DEF Put, Lock, TrailInv, SlidesTyped
    <3> QED BY <2>3, <3>1
  <2> QED BY <2>1, <2>3, <2>4, <2>5 DEF AtSlides
<1>8. ASSUME NEW t \in Tx, Shifted(t)
      PROVE  TrailInv'
  BY <1>4, <1>8, NextServed, StatementKeepsTrail DEF Shifted, AtSlides
<1>9. ASSUME NEW t \in Tx, Look(t)
      PROVE  TrailInv'
  BY <1>4, <1>9, NextServed, StatementKeepsTrail DEF Look, AtSlides
<1>10. ASSUME NEW t \in Tx, NEW s \in Slide, Insert(t, s)
       PROVE  TrailInv'
  <2> DEFINE r == request[t]
             q == [r EXCEPT !.slide = s, !.stage = "log", !.logged = [from |-> -1, to |-> r.target]]
             row == [life |-> "live", order |-> r.target]
  <2>1. Go(t, q) /\ Put(t, s, row) /\ audit' = audit /\ r.stage = "write" /\ r.op = "create"
    BY <1>10 DEF Insert
  <2>2. Served(q) /\ q.stage = "log" /\ q.slide = s /\ q.op = "create"
    BY <1>4, <2>1 DEF Served, Fields
  <2>3. IsRow(row) /\ row.life = "live"
    BY DEF IsRow
  <2> HIDE DEF q, row
  <2>4. StillToLog(t, s)'
    BY <2>1, <2>2, <2>3 DEF StillToLog, Go, Put, TrailInv, SlidesTyped
  <2> QED BY <2>1, <2>2, <2>3, <2>4, PutKeepsTrail
<1>11. ASSUME NEW t \in Tx, Update(t)
       PROVE  TrailInv'
  <2> DEFINE r == request[t]
             s == r.slide
             q == [r EXCEPT !.stage = "log", !.logged = [from |-> r.seen, to |-> r.target]]
             row == [slideDraft[s] EXCEPT !.order = r.target]
  <2>1. Go(t, q) /\ Put(t, s, row) /\ audit' = audit /\ r.stage = "write" /\ Free(slideHolder, t, s)
    BY <1>11 DEF Update
  <2>2. Served(q)
    BY <1>4, <2>1, NextServed
  <2>3. CASE s \in Slide
    <3>1. IsRow(row) /\ row.life = slideDraft[s].life
      BY <2>3 DEF TrailInv, SlidesTyped, IsRow
    <3>2. Told(audit[s], slideDraft[s].life)
      BY <2>1, <2>3, FreeIsTold
    <3> HIDE DEF row, q
    <3> QED BY <2>1, <2>2, <2>3, <3>1, <3>2, PutKeepsTrail
  <2>4. CASE s \notin Slide
    <3>1. UNCHANGED <<slide, slideDraft, slideHolder>>
      BY <2>1, <2>4 DEF Put, Lock, TrailInv, SlidesTyped
    <3> HIDE DEF q
    <3> QED BY <2>1, <2>2, <3>1, StatementKeepsTrail
  <2> QED BY <2>3, <2>4
<1>12. ASSUME NEW t \in Tx, Delete(t)
       PROVE  TrailInv'
  <2> DEFINE r == request[t]
             q == [r EXCEPT !.stage = "log"]
  <2>1. /\ Go(t, q) /\ audit' = audit /\ r.stage = "write" /\ r.op = "delete"
        /\ Put(t, r.slide, [slideDraft[r.slide] EXCEPT !.life = "gone"])
        /\ Free(slideHolder, t, r.slide) /\ slideDraft[r.slide].life = "live"
    BY <1>12 DEF Delete
  <2>2. Served(q) /\ q.stage = "log" /\ q.slide = r.slide /\ q.op = "delete"
    BY <1>4, <2>1 DEF Served, Fields
  <2>3. ASSUME NEW s \in Slide, s = r.slide
        PROVE  TrailInv'
    <3> DEFINE row == [slideDraft[s] EXCEPT !.life = "gone"]
    <3>1. IsRow(row) /\ row.life = "gone"
      BY <2>3 DEF TrailInv, SlidesTyped, IsRow
    <3>2. "CREATE" \in audit[s]
      BY <2>1, <2>3, FreeIsTold DEF Told
    <3>3. Put(t, s, row)
      BY <2>1, <2>3
    <3> HIDE DEF row, q
    <3>4. StillToLog(t, s)'
      BY <2>1, <2>2, <2>3, <3>1, <3>2, <3>3 DEF StillToLog, Go, Put, TrailInv, SlidesTyped
    <3> QED BY <2>1, <2>2, <2>3, <3>1, <3>3, <3>4, PutKeepsTrail
  <2>4. CASE r.slide \notin Slide
    <3>1. UNCHANGED <<slide, slideDraft, slideHolder>>
      BY <2>1, <2>4 DEF Put, Lock, TrailInv, SlidesTyped
    <3> HIDE DEF q
    <3> QED BY <2>1, <2>2, <3>1, StatementKeepsTrail
  <2> QED BY <2>3, <2>4
<1>13. ASSUME NEW t \in Tx, Log(t)
       PROVE  TrailInv'
  <2>1. Served(AfterLog(request[t]))
    BY <1>4, <1>13, NextServed DEF Log, AfterLog
  <2> QED BY <1>13, <2>1, RecordKeepsTrail DEF Log
<1>14. ASSUME NEW t \in Tx, LateLog(t)
       PROVE  TrailInv'
  BY <1>14, RecordKeepsTrail DEF LateLog
<1>15. ASSUME NEW t \in Tx, Commit(t)
       PROVE  TrailInv'
  BY <1>15, CommitKeepsTrail
<1>16. ASSUME NEW t \in Tx, Refused(t) \/ Abort(t)
       PROVE  TrailInv'
  BY <1>16, RollbackKeepsTrail DEF Refused, Abort
<1>17. ASSUME NEW t \in Tx, Timeout(t)
       PROVE  TrailInv'
  <2> DEFINE q == IF request[t].stage = "log" THEN [request[t] EXCEPT !.stage = "late"] ELSE Idle
  <2>1. q = Idle \/ Served(q)
    BY <1>4, NextServed
  <2>2. Go(t, q) /\ RolledBack(t)
    BY <1>17 DEF Timeout
  <2> HIDE DEF q
  <2> QED BY <2>1, <2>2, RollbackKeepsTrail
<1>18. ASSUME NEW t \in Tx, Step(t)
       PROVE  TrailInv'
  BY <1>5, <1>6, <1>7, <1>8, <1>9, <1>10, <1>11, <1>12, <1>13, <1>14, <1>15, <1>16, <1>17, <1>18 DEF Step
<1>19. ASSUME NEW t \in Tx, NEW s, NEW asked, BeginCreate(t, asked) \/ BeginMove(t, s, asked) \/ BeginDelete(t, s)
       PROVE  TrailInv'
  BY <1>2, <1>3, <1>19 DEF BeginCreate, BeginMove, BeginDelete
<1> QED BY <1>1, <1>16, <1>18, <1>19 DEF SlidesNext

LEMMA TrailBegins == SlidesInit => TrailInv
BY NoTxAssumption DEF SlidesInit, TrailInv, SlidesTyped, Blank, IsRow, Actions, DraftsAreHeld, Told

\* The audit trail misses no slide that was created or deleted, whatever times
\* out, aborts or finds the pool exhausted.
THEOREM TrailIsComplete == SlidesSpec => []LivesAreLogged
<1>1. SlidesInit => TrailInv
  BY TrailBegins
<1>2. TrailInv /\ [SlidesNext]_slideVars => TrailInv'
  BY TrailStep
<1>3. TrailInv => LivesAreLogged
  BY DEF TrailInv, Told, LivesAreLogged
<1> QED BY <1>1, <1>2, <1>3, PTL DEF SlidesSpec

-----------------------------------------------------------------------------
(* A move nobody overlaps, and what the trail says of it.                  *)

\* Whoever holds a slide is in a transaction.
HoldersServe == \A s \in Slide, u \in Tx : slideHolder[s] = u => InTx(u)

\* A move nobody overlapped: the slide stays where the extension saw it until
\* the statement on it, and the record is of that statement.
LoneMove(t) ==
    LET r == request[t]
        s == r.slide
    IN  /\ s \in Slide /\ slide[s].life = "live" /\ s \notin r.todo
        /\ r.stage \in {"open", "place", "last", "range", "shift", "look", "write"} =>
              slideHolder[s] = NoTx
        /\ r.stage = "write" => r.seen = slide[s].order
        /\ r.stage \in {"log", "commit"} =>
              /\ slideHolder[s] = t /\ slideDraft[s].order = r.target
              /\ r.logged = [from |-> slide[s].order, to |-> r.target]

LoneInv ==
    /\ alone \in [Tx -> BOOLEAN]
    /\ HoldersServe
    /\ \A t \in Tx : alone[t] =>
          /\ request[t].stage \notin {"idle", "late"}
          /\ \A u \in Tx \ {t} : request[u] = Idle
          /\ request[t].op = "move" => LoneMove(t)

\* A step of t that changes who holds what only by locking for t.
LEMMA HoldersKept ==
    ASSUME TrailInv, HoldersServe, NEW t \in Tx, NEW r, Go(t, r),
           \/ slideHolder' = slideHolder
           \/ \E s : slideHolder' = Lock(slideHolder, t, s),
           InTx(t) \/ slideHolder' = slideHolder, InTx(t) => r.stage \notin {"idle", "open", "late"}
    PROVE  HoldersServe'
<1>1. request'[t] = r /\ \A u \in Tx : u # t => request'[u] = request[u]
  BY DEF TrailInv, SlidesTyped, Go
<1>2. \A s \in Slide, u \in Tx : slideHolder'[s] = u => slideHolder[s] = u \/ (u = t /\ InTx(t))
  BY DEF TrailInv, SlidesTyped, Lock
<1> QED BY <1>1, <1>2 DEF HoldersServe, InTx

LEMMA HoldersReleased ==
    ASSUME TrailInv, HoldersServe, NEW t \in Tx, NEW r, Go(t, r), slideHolder' = Unlock(slideHolder, t)
    PROVE  HoldersServe'
<1>1. \A u \in Tx : u # t => request'[u] = request[u]
  BY DEF TrailInv, SlidesTyped, Go
<1>2. \A s \in Slide, u \in Tx : slideHolder'[s] = u => slideHolder[s] = u /\ u # t
  BY NoTxAssumption DEF TrailInv, SlidesTyped, Unlock
<1> QED BY <1>1, <1>2 DEF HoldersServe, InTx

\* A step of a request in progress concerns no other that is alone.
LEMMA LoneKept ==
    ASSUME TrailInv, LoneInv, HoldersServe', NEW t \in Tx, NEW r, Go(t, r), request[t] # Idle,
           alone' = alone \/ alone' = [alone EXCEPT ![t] = FALSE],
           alone'[t] => /\ r.stage \notin {"idle", "late"}
                        /\ r.op = "move" => LoneMove(t)'
    PROVE  LoneInv'
<1>1. request'[t] = r /\ \A u \in Tx : u # t => request'[u] = request[u]
  BY DEF TrailInv, SlidesTyped, Go
<1>2. alone' \in [Tx -> BOOLEAN] /\ \A u \in Tx : alone'[u] => alone[u]
  BY DEF LoneInv
<1>3. ASSUME NEW u \in Tx, alone'[u]
      PROVE  u = t
  BY <1>2, <1>3 DEF LoneInv
<1>4. ASSUME alone'[t]
      PROVE  \A u \in Tx \ {t} : request'[u] = Idle
  BY <1>1, <1>2, <1>4 DEF LoneInv
<1> QED BY <1>1, <1>2, <1>3, <1>4 DEF LoneInv

\* A request begins: whoever was alone is no longer, and a move that begins
\* alone finds nothing held.
LEMMA LoneBegins ==
    ASSUME TrailInv, LoneInv, NEW t \in Tx, NEW op \in {"create", "move", "delete"}, NEW s, NEW asked,
           Begin(t, Asked(op, s, asked)), op = "move" => s \in Live(slide)
    PROVE  LoneInv'
<1> DEFINE r == Asked(op, s, asked)
<1>1. r.op = op /\ r.stage = "open" /\ r.slide = s /\ r.todo = {}
  BY DEF Asked
<1>2. /\ Go(t, r) /\ request[t] = Idle
      /\ alone' = [u \in Tx |-> IF u = t THEN \A w \in Tx \ {t} : request[w] = Idle
                                ELSE alone[u] /\ request[u] = Idle]
      /\ slide' = slide /\ slideDraft' = slideDraft /\ slideHolder' = slideHolder
  BY DEF Begin, AtSlides
<1> HIDE DEF r
<1>3. request'[t] = r /\ \A u \in Tx : u # t => request'[u] = request[u]
  BY <1>2 DEF TrailInv, SlidesTyped, Go
<1>4. ~InTx(t)
  BY <1>2 DEF InTx, Idle
<1>5. HoldersServe'
  BY <1>2, <1>3, <1>4 DEF LoneInv, HoldersServe, InTx
<1>6. alone' \in [Tx -> BOOLEAN]
  BY <1>2 DEF LoneInv
<1>7. ASSUME NEW u \in Tx, alone'[u]
      PROVE  u = t /\ \A w \in Tx \ {t} : request'[w] = Idle
  <2>1. CASE u = t
    BY <1>2, <1>3, <1>7, <2>1
  <2>2. CASE u # t
    <3>1. alone[u] /\ request[u] = Idle
      BY <1>2, <1>7, <2>2
    <3> QED BY <3>1 DEF LoneInv, Idle
  <2> QED BY <2>1, <2>2
<1>8. ASSUME alone'[t], op = "move"
      PROVE  LoneMove(t)'
  <2>1. s \in Slide /\ slide[s].life = "live"
    BY <1>8 DEF Live
  <2>2. slideHolder[s] = NoTx
    <3>1. \A u \in Tx : ~InTx(u)
      BY <1>2, <1>8, <1>4 DEF InTx, Idle
    <3> QED BY <2>1, <3>1 DEF LoneInv, HoldersServe, TrailInv, SlidesTyped
  <2> QED BY <1>1, <1>2, <1>3, <2>1, <2>2 DEF LoneMove
<1> QED BY <1>1, <1>3, <1>5, <1>6, <1>7, <1>8 DEF LoneInv

\* A statement of a move that leaves its slide alone.
LEMMA LoneGoesOn ==
    ASSUME TrailInv, LoneInv, NEW t \in Tx, NEW r, Go(t, r), InTx(t) \/ request[t].stage = "open",
           alone[t], request[t].op = "move",
           r.slide = request[t].slide, r.slide \notin r.todo, r.stage \in {"place", "last", "range", "shift", "look"},
           request[t].stage \in {"open", "place", "last", "range", "shift"},
           slide' = slide, slideHolder'[r.slide] = slideHolder[r.slide]
    PROVE  LoneMove(t)'
<1>1. request'[t] = r
  BY DEF TrailInv, SlidesTyped, Go
<1>2. LoneMove(t)
  BY DEF LoneInv
<1> QED BY <1>1, <1>2 DEF LoneMove

LEMMA LoneStep ==
    ASSUME TrailInv, LoneInv, [SlidesNext]_slideVars
    PROVE  LoneInv'
<1>1. CASE UNCHANGED slideVars
  BY <1>1 DEF slideVars, LoneInv, HoldersServe, InTx, LoneMove
<1>2. ASSUME NEW t \in Tx, request[t].stage # "idle"
      PROVE  /\ Served(request[t]) /\ request[t] # Idle
             /\ alone[t] /\ request[t].op = "move" => LoneMove(t)
  BY <1>2 DEF TrailInv, SlidesTyped, Idle, LoneInv
<1>3. HoldersServe
  BY DEF LoneInv
<1>4. ASSUME NEW t \in Tx, Open(t)
      PROVE  LoneInv'
  <2> DEFINE q == [request[t] EXCEPT !.stage = IF request[t].op = "delete" THEN "look" ELSE "place"]
  <2>1. /\ Go(t, q) /\ request[t].stage = "open" /\ alone' = alone
        /\ slide' = slide /\ slideHolder' = slideHolder
    BY <1>4 DEF Open, AtSlides
  <2>2. /\ q.slide = request[t].slide /\ q.todo = request[t].todo /\ q.op = request[t].op
        /\ q.stage \in {"look", "place"}
        /\ request[t].op = "move" => q.stage = "place"
    BY <1>2, <2>1 DEF Served, Fields
  <2> HIDE DEF q
  <2>3. HoldersServe'
    BY <1>3, <2>1, <2>2, HoldersKept DEF InTx
  <2>4. alone'[t] /\ q.op = "move" => LoneMove(t)'
    <3>1. SUFFICES ASSUME alone[t], request[t].op = "move"
                   PROVE  LoneMove(t)'
      BY <2>1, <2>2
    <3>2. LoneMove(t)
      BY <1>2, <2>1, <3>1
    <3>3. q.slide \notin q.todo /\ q.stage = "place"
      BY <2>2, <3>1, <3>2 DEF LoneMove
    <3> QED BY <2>1, <2>2, <3>1, <3>3, LoneGoesOn
  <2> QED BY <1>2, <2>1, <2>2, <2>3, <2>4, LoneKept
<1>5. ASSUME NEW t \in Tx, NEW q, Go(t, q), UNCHANGED <<AtSlides, alone>>,
             request[t].stage \in {"place", "last", "range"}, q.op = request[t].op,
             q.stage \in {"last", "range", "shift", "write", "look"},
             request[t].op = "move" => /\ q.slide = request[t].slide
                                       /\ q.slide \notin request[t].todo => q.slide \notin q.todo
                                       /\ q.stage # "write"
      PROVE  LoneInv'
  <2> DEFINE r == request[t]
  <2>1. slide' = slide /\ slideHolder' = slideHolder /\ alone' = alone
    BY <1>5 DEF AtSlides
  <2>2. HoldersServe'
    BY <1>3, <1>5, <2>1, HoldersKept DEF InTx
  <2>3. alone'[t] /\ q.op = "move" => LoneMove(t)'
    <3>1. SUFFICES ASSUME alone[t], r.op = "move"
                   PROVE  LoneMove(t)'
      BY <1>5, <2>1
    <3>2. LoneMove(t)
      BY <1>2, <1>5, <3>1
    <3>3. /\ q.slide = r.slide /\ q.slide \notin q.todo
          /\ q.stage \in {"place", "last", "range", "shift", "look"}
      BY <1>5, <3>1, <3>2 DEF LoneMove
    <3> QED BY <1>5, <2>1, <3>1, <3>3, LoneGoesOn DEF InTx
  <2> QED BY <1>2, <1>5, <2>1, <2>2, <2>3, LoneKept
<1>5a. ASSUME NEW t \in Tx, PlaceCreate(t) \/ PlaceMove(t) \/ Clamp(t) \/ PickRows(t)
       PROVE  LoneInv'
  <2> DEFINE r == request[t]
  <2>1. CASE PlaceCreate(t)
    <3> DEFINE q == IF r.asked = Append THEN [r EXCEPT !.stage = "write", !.target = NextOrder(Rows(t))]
                    ELSE Range(r, r.asked, r.asked, 1)
    <3>1. /\ Go(t, q) /\ r.stage = "place" /\ r.op = "create" /\ UNCHANGED <<AtSlides, alone>>
      BY <2>1 DEF PlaceCreate
    <3>2. q.op = r.op /\ q.stage \in {"range", "write"}
      BY <1>2, <3>1 DEF Range, Served, Fields
    <3> HIDE DEF q
    <3> QED BY <1>5, <3>1, <3>2
  <2>2. CASE PlaceMove(t)
    <3>1. PICK from : Go(t, [r EXCEPT !.stage = "last", !.from = from])
      BY <2>2 DEF PlaceMove
    <3> DEFINE q == [r EXCEPT !.stage = "last", !.from = from]
    <3>2. Go(t, q) /\ r.stage = "place" /\ UNCHANGED <<AtSlides, alone>>
      BY <2>2, <3>1 DEF PlaceMove
    <3>3. q.op = r.op /\ q.stage = "last" /\ q.slide = r.slide /\ q.todo = r.todo
      BY <1>2, <3>2 DEF Served, Fields
    <3> HIDE DEF q
    <3> QED BY <1>5, <3>2, <3>3
  <2>3. CASE Clamp(t)
    <3> DEFINE q == Clamped(r, NextOrder(Rows(t)) - 1)
    <3>1. Go(t, q) /\ r.stage = "last" /\ UNCHANGED <<AtSlides, alone>>
      BY <2>3 DEF Clamp
    <3>2. q.op = r.op /\ q.stage \in {"range", "look"} /\ q.slide = r.slide /\ q.todo = r.todo
      BY <1>2, <3>1, ClampedServed
    <3> HIDE DEF q
    <3> QED BY <1>5, <3>1, <3>2
  <2>4. CASE PickRows(t)
    <3> DEFINE todo == {s \in Live(Rows(t)) \ Skipped(r) : InRange(r, Rows(t)[s].order)}
               q == [r EXCEPT !.stage = "shift", !.todo = todo]
    <3>1. Go(t, q) /\ r.stage = "range" /\ UNCHANGED <<AtSlides, alone>>
      BY <2>4 DEF PickRows
    <3>2. r.op = "move" => r.slide \notin todo
      BY DEF Skipped
    <3> HIDE DEF todo
    <3>3. q.op = r.op /\ q.stage = "shift" /\ q.slide = r.slide /\ q.todo = todo
      BY <1>2, <3>1 DEF Served, Fields
    <3> HIDE DEF q
    <3> QED BY <1>5, <3>1, <3>2, <3>3
  <2> QED BY <1>5a, <2>1, <2>2, <2>3, <2>4
<1>6. ASSUME NEW t \in Tx, ShiftRow(t)
      PROVE  LoneInv'
  <2> DEFINE r == request[t]
  <2>1. PICK s \in r.todo :
           /\ Go(t, [r EXCEPT !.todo = @ \ {s}])
           /\ slideHolder' = slideHolder \/ slideHolder' = Lock(slideHolder, t, s)
           /\ r.stage = "shift" /\ slide' = slide /\ alone' = alone
    BY <1>6 DEF ShiftRow, Put, AtSlides
  <2> DEFINE q == [r EXCEPT !.todo = @ \ {s}]
  <2>2. /\ q.slide = r.slide /\ q.todo = r.todo \ {s} /\ q.op = r.op /\ q.stage = "shift"
    BY <1>2, <2>1 DEF Served, Fields
  <2>3. Go(t, q)
    BY <2>1
  <2> HIDE DEF q
  <2>4. HoldersServe'
    BY <1>3, <2>1, <2>2, <2>3, HoldersKept DEF InTx
  <2>5. alone'[t] /\ q.op = "move" => LoneMove(t)'
    <3>1. SUFFICES ASSUME alone[t], r.op = "move"
                   PROVE  LoneMove(t)'
      BY <2>1, <2>2
    <3>2. LoneMove(t)
      BY <1>2, <2>1, <3>1
    <3>3. r.slide # s
      BY <2>1, <3>2 DEF LoneMove
    <3>4. slideHolder'[r.slide] = slideHolder[r.slide]
      BY <2>1, <3>2, <3>3 DEF LoneMove, Lock, TrailInv, SlidesTyped
    <3> QED BY <2>1, <2>2, <2>3, <3>1, <3>2, <3>4, LoneGoesOn DEF LoneMove, InTx
  <2> QED BY <1>2, <2>1, <2>2, <2>3, <2>4, <2>5, LoneKept
<1>7. ASSUME NEW t \in Tx, Shifted(t)
      PROVE  LoneInv'
  <2> DEFINE r == request[t]
             q == [r EXCEPT !.stage = CASE r.op = "create" -> "write"
                                        [] r.op = "move"   -> "look"
                                        [] OTHER           -> "commit"]
  <2>1. /\ Go(t, q) /\ r.stage = "shift" /\ alone' = alone
        /\ slide' = slide /\ slideHolder' = slideHolder
    BY <1>7 DEF Shifted, AtSlides
  <2>2. /\ q.slide = r.slide /\ q.todo = r.todo /\ q.op = r.op
        /\ q.stage \in {"write", "look", "commit"}
        /\ r.op = "move" => q.stage = "look"
    BY <1>2, <2>1 DEF Served, Fields
  <2> HIDE DEF q
  <2>3. HoldersServe'
    BY <1>3, <2>1, <2>2, HoldersKept DEF InTx
  <2>4. alone'[t] /\ q.op = "move" => LoneMove(t)'
    <3>1. SUFFICES ASSUME alone[t], r.op = "move"
                   PROVE  LoneMove(t)'
      BY <2>1, <2>2
    <3>2. LoneMove(t)
      BY <1>2, <2>1, <3>1
    <3>3. q.slide \notin q.todo /\ q.stage = "look"
      BY <2>2, <3>1, <3>2 DEF LoneMove
    <3> QED BY <2>1, <2>2, <3>1, <3>3, LoneGoesOn DEF InTx
  <2> QED BY <1>2, <2>1, <2>2, <2>3, <2>4, LoneKept
<1>8. ASSUME NEW t \in Tx, Look(t)
      PROVE  LoneInv'
  <2> DEFINE r == request[t]
             q == [r EXCEPT !.stage = "write",
                            !.seen = IF r.slide \in Live(slide) THEN slide[r.slide].order ELSE -1]
  <2>1. /\ Go(t, q) /\ r.stage = "look" /\ alone' = alone
        /\ slide' = slide /\ slideHolder' = slideHolder
    BY <1>8 DEF Look, AtSlides
  <2>2. /\ q.slide = r.slide /\ q.todo = r.todo /\ q.op = r.op /\ q.stage = "write"
        /\ q.seen = IF r.slide \in Live(slide) THEN slide[r.slide].order ELSE -1
    BY <1>2, <2>1 DEF Served, Fields
  <2> HIDE DEF q
  <2>3. HoldersServe'
    BY <1>3, <2>1, <2>2, HoldersKept DEF InTx
  <2>4. request'[t] = q
    BY <2>1 DEF TrailInv, SlidesTyped, Go
  <2>5. alone'[t] /\ q.op = "move" => LoneMove(t)'
    <3>1. SUFFICES ASSUME alone[t], r.op = "move"
                   PROVE  LoneMove(t)'
      BY <2>1, <2>2
    <3>2. LoneMove(t)
      BY <1>2, <2>1, <3>1
    <3>3. q.seen = slide[r.slide].order
      BY <2>2, <3>2 DEF LoneMove, Live
    <3> QED BY <2>1, <2>2, <2>4, <3>2, <3>3 DEF LoneMove
  <2> QED BY <1>2, <2>1, <2>2, <2>3, <2>5, LoneKept
<1>9. ASSUME NEW t \in Tx, NEW s \in Slide, Insert(t, s)
      PROVE  LoneInv'
  <2> DEFINE r == request[t]
             q == [r EXCEPT !.slide = s, !.stage = "log", !.logged = [from |-> -1, to |-> r.target]]
  <2>1. /\ Go(t, q) /\ r.stage = "write" /\ r.op = "create" /\ alone' = alone
        /\ slideHolder' = Lock(slideHolder, t, s)
    BY <1>9 DEF Insert, Put
  <2>2. q.stage = "log" /\ q.op = "create"
    BY <1>2, <2>1 DEF Served, Fields
  <2> HIDE DEF q
  <2>3. HoldersServe'
    BY <1>3, <2>1, <2>2, HoldersKept DEF InTx
  <2> QED BY <1>2, <2>1, <2>2, <2>3, LoneKept
<1>10. ASSUME NEW t \in Tx, Update(t)
       PROVE  LoneInv'
  <2> DEFINE r == request[t]
             q == [r EXCEPT !.stage = "log", !.logged = [from |-> r.seen, to |-> r.target]]
  <2>1. /\ Go(t, q) /\ r.stage = "write" /\ alone' = alone /\ slide' = slide
        /\ slideHolder' = Lock(slideHolder, t, r.slide)
        /\ slideDraft' = [slideDraft EXCEPT ![r.slide] = [slideDraft[r.slide] EXCEPT !.order = r.target]]
    BY <1>10 DEF Update, Put
  <2>2. /\ q.slide = r.slide /\ q.todo = r.todo /\ q.op = r.op /\ q.target = r.target
        /\ q.stage = "log" /\ q.logged = [from |-> r.seen, to |-> r.target]
    BY <1>2, <2>1 DEF Served, Fields
  <2> HIDE DEF q
  <2>3. HoldersServe'
    BY <1>3, <2>1, <2>2, HoldersKept DEF InTx
  <2>4. request'[t] = q
    BY <2>1 DEF TrailInv, SlidesTyped, Go
  <2>5. alone'[t] /\ q.op = "move" => LoneMove(t)'
    <3>1. SUFFICES ASSUME alone[t], r.op = "move"
                   PROVE  LoneMove(t)'
      BY <2>1, <2>2
    <3>2. LoneMove(t)
      BY <1>2, <2>1, <3>1
    <3>3. slideHolder'[r.slide] = t /\ slideDraft'[r.slide].order = r.target
      BY <2>1, <3>2 DEF LoneMove, Lock, TrailInv, SlidesTyped, IsRow
    <3> QED BY <2>1, <2>2, <2>4, <3>2, <3>3 DEF LoneMove
  <2> QED BY <1>2, <2>1, <2>2, <2>3, <2>5, LoneKept
<1>11. ASSUME NEW t \in Tx, Delete(t)
       PROVE  LoneInv'
  <2> DEFINE r == request[t]
             q == [r EXCEPT !.stage = "log"]
  <2>1. /\ Go(t, q) /\ r.stage = "write" /\ r.op = "delete" /\ alone' = alone
        /\ slideHolder' = Lock(slideHolder, t, r.slide)
    BY <1>11 DEF Delete, Put
  <2>2. q.stage = "log" /\ q.op = "delete"
    BY <1>2, <2>1 DEF Served, Fields
  <2> HIDE DEF q
  <2>3. HoldersServe'
    BY <1>3, <2>1, <2>2, HoldersKept DEF InTx
  <2> QED BY <1>2, <2>1, <2>2, <2>3, LoneKept
<1>12. ASSUME NEW t \in Tx, Log(t)
       PROVE  LoneInv'
  <2> DEFINE r == request[t]
             q == AfterLog(r)
  <2>1. /\ Go(t, q) /\ r.stage = "log" /\ alone' = alone
        /\ slide' = slide /\ slideHolder' = slideHolder /\ slideDraft' = slideDraft
    BY <1>12 DEF Log, AtSlides
  <2>2. /\ q.stage \in {"commit", "range"} /\ q.op = r.op
        /\ r.op = "move" => /\ q.slide = r.slide /\ q.todo = r.todo /\ q.target = r.target
                            /\ q.logged = r.logged /\ q.stage = "commit"
    BY <1>2, <2>1 DEF AfterLog, Range, Served, Fields
  <2> HIDE DEF q
  <2>3. HoldersServe'
    BY <1>3, <2>1, <2>2, HoldersKept DEF InTx
  <2>4. request'[t] = q
    BY <2>1 DEF TrailInv, SlidesTyped, Go
  <2>5. alone'[t] /\ q.op = "move" => LoneMove(t)'
    <3>1. SUFFICES ASSUME alone[t], r.op = "move"
                   PROVE  LoneMove(t)'
      BY <2>1, <2>2
    <3>2. LoneMove(t)
      BY <1>2, <2>1, <3>1
    <3>3. /\ q.slide = r.slide /\ q.todo = r.todo /\ q.target = r.target
          /\ q.logged = r.logged /\ q.stage = "commit"
      BY <2>2, <3>1
    <3> QED BY <2>1, <2>4, <3>2, <3>3 DEF LoneMove
  <2> QED BY <1>2, <2>1, <2>2, <2>3, <2>5, LoneKept
<1>13. ASSUME NEW t \in Tx, LateLog(t)
       PROVE  LoneInv'
  <2>1. /\ Go(t, Idle) /\ request[t].stage = "late" /\ alone' = alone /\ slideHolder' = slideHolder
    BY <1>13 DEF LateLog, AtSlides
  <2>2. HoldersServe'
    BY <1>3, <2>1, HoldersKept DEF InTx
  <2>3. ~alone[t]
    BY <2>1 DEF LoneInv
  <2> QED BY <1>2, <2>1, <2>2, <2>3, LoneKept
<1>14. ASSUME NEW t \in Tx, NEW r, Go(t, r), request[t].stage # "idle", Release(t)
       PROVE  LoneInv'
  <2>1. HoldersServe'
    BY <1>3, <1>14, HoldersReleased DEF Release
  <2>2. alone' = [alone EXCEPT ![t] = FALSE] /\ ~alone'[t]
    BY <1>14 DEF Release, LoneInv
  <2> QED BY <1>2, <1>14, <2>1, <2>2, LoneKept
<1>15. ASSUME NEW t \in Tx, Commit(t) \/ Refused(t) \/ Abort(t)
       PROVE  LoneInv'
  BY <1>14, <1>15 DEF Commit, Refused, Abort, RolledBack
<1>16. ASSUME NEW t \in Tx, Timeout(t)
       PROVE  LoneInv'
  BY <1>14, <1>16 DEF Timeout, Waits, RolledBack
<1>17. ASSUME NEW t \in Tx, Step(t)
       PROVE  LoneInv'
  BY <1>4, <1>6, <1>7, <1>8, <1>9, <1>10, <1>11, <1>12, <1>13, <1>15, <1>16, <1>17, <1>5a DEF Step
<1>18. ASSUME NEW t \in Tx, NEW s, NEW asked,
              BeginCreate(t, asked) \/ BeginMove(t, s, asked) \/ BeginDelete(t, s)
       PROVE  LoneInv'
  BY <1>18, LoneBegins DEF BeginCreate, BeginMove, BeginDelete
<1> QED BY <1>1, <1>15, <1>17, <1>18 DEF SlidesNext

\* What the trail says of a move nobody overlapped is what the move did.
THEOREM LoneMovesAreLogged == SlidesSpec => LoneMoveIsLogged
<1>1. SlidesInit => TrailInv /\ LoneInv
  <2>1. SlidesInit => TrailInv
    BY TrailBegins
  <2>2. SlidesInit => LoneInv
    BY NoTxAssumption DEF SlidesInit, LoneInv, HoldersServe
  <2> QED BY <2>1, <2>2
<1>2. TrailInv /\ LoneInv /\ [SlidesNext]_slideVars => (TrailInv /\ LoneInv)'
  BY TrailStep, LoneStep
<1>3. TrailInv /\ LoneInv =>
        [\A t \in Tx : alone[t] /\ Commit(t) /\ request[t].op = "move" =>
           LET s == request[t].slide IN
           request[t].logged = [from |-> slide[s].order, to |-> slide'[s].order]]_slideVars
  <2> SUFFICES ASSUME TrailInv, LoneInv, NEW t \in Tx, alone[t], Commit(t), request[t].op = "move"
               PROVE  request[t].logged = [from |-> slide[request[t].slide].order,
                                           to |-> slide'[request[t].slide].order]
    OBVIOUS
  <2>1. LoneMove(t) /\ request[t].stage = "commit"
    BY DEF LoneInv, Commit
  <2>2. slide'[request[t].slide].order = request[t].target
    BY <2>1 DEF LoneMove, Commit, Rows, View, TrailInv, SlidesTyped
  <2> QED BY <2>1, <2>2 DEF LoneMove
<1> QED BY <1>1, <1>2, <1>3, PTL DEF SlidesSpec, LoneMoveIsLogged
=============================================================================
