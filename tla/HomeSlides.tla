----------------------------- MODULE HomeSlides -----------------------------
(***************************************************************************)
(* The slides of one home-page type and their display order:               *)
(* HomeService.createHome, updateHome and deleteHome, each one transaction *)
(* of several statements, under the audit-log extension of the database    *)
(* client and on its pool of connections.                                  *)
(*                                                                         *)
(* Positions are computed from plain reads, so two requests may compute    *)
(* the same one.  Each read and each shift is a statement with a snapshot  *)
(* of its own, and a shift waits for its rows one by one.  The extension   *)
(* reads a row before each update or delete and inserts an audit row after *)
(* each statement on a slide, both on ANOTHER connection of the pool:      *)
(* it sees committed rows only, its row outlives a rollback, and a         *)
(* transaction that holds a connection waits for a second one.             *)
(*                                                                         *)
(* Types share no row (every statement is scoped to a type, and a slide    *)
(* keeps its type).  Image files are the module Uploads; texts, links and  *)
(* status are left out, so an edit that only changes those is a move to    *)
(* where the slide is.                                                     *)
(***************************************************************************)
EXTENDS RowLocks, Integers, FiniteSets

CONSTANTS
    Slide,        \* ids
    FirstSlides,  \* how many slides there are at first
    Position,     \* the positions an admin may ask for
    Append,       \* no position asked for
    Pool          \* DATABASE_POOL_MAX

ASSUME SlideAssumption == Slide \subseteq Nat /\ 1..FirstSlides \subseteq Slide
ASSUME PositionAssumption == Position \subseteq Nat /\ Append \notin Nat
ASSUME PoolAssumption == Pool \in Nat \ {0}

VARIABLES
    slide,        \* the committed rows of home_contents
    slideDraft,
    slideHolder,
    audit,        \* audit[s]: the actions of audit_logs on slide s
    request,      \* request[t]: the request transaction t serves
    alone         \* alone[t]: no other request overlapped it so far

slideVars == <<slide, slideDraft, slideHolder, audit, request, alone>>
AtSlides  == <<slide, slideDraft, slideHolder>>

\* An id is drawn from a sequence and never again: burnt if its insert was
\* rolled back.
SlideRow == [life : {"fresh", "live", "gone", "burnt"}, order : Int]
Blank    == [life |-> "fresh", order |-> 0]

Idle     == [stage |-> "idle"]
Nowhere  == [from |-> -1, to |-> -1]

\* op: "create", "move" or "delete".  asked: the position in the body, or the
\* order a delete read before its transaction.  from, to, delta: the range of
\* the shift and how it moves; todo: its rows still to be moved.  seen: what
\* the extension read; logged: the places it recorded.
Asked(op, s, asked) ==
    [op |-> op, stage |-> "open", slide |-> s, asked |-> asked, target |-> asked,
     todo |-> {}, delta |-> 0, from |-> 0, to |-> 0, seen |-> -1, logged |-> Nowhere]

Live(rows)  == {s \in Slide : rows[s].life = "live"}

\* The order after the last row of the type, 0 if there is none.
NextOrder(rows) ==
    IF Live(rows) = {} THEN 0
    ELSE 1 + CHOOSE o \in {rows[s].order : s \in Live(rows)} :
               \A s \in Live(rows) : rows[s].order <= o

SlidesInit ==
    /\ slide = [s \in Slide |-> IF s \in 1..FirstSlides
                                THEN [life |-> "live", order |-> s - 1] ELSE Blank]
    /\ slideDraft = slide
    /\ slideHolder = [s \in Slide |-> NoTx]
    /\ audit = [s \in Slide |-> IF s \in 1..FirstSlides THEN {"CREATE"} ELSE {}]
    /\ request = [t \in Tx |-> Idle]
    /\ alone = [t \in Tx |-> FALSE]

-----------------------------------------------------------------------------
(* Connections.  A transaction holds one from its BEGIN to its end; a      *)
(* statement outside a transaction needs one for its own duration.         *)

InTx(t) == request[t].stage \notin {"idle", "open", "late"}

PoolHasRoom == Cardinality({t \in Tx : InTx(t)}) < Pool

Rows(t) == View(slide, slideDraft, slideHolder, t)

Go(t, r) == request' = [request EXCEPT ![t] = r]

Begin(t, r) ==
    /\ request[t] = Idle
    /\ Go(t, r)
    /\ alone' = [u \in Tx |-> IF u = t THEN \A w \in Tx \ {t} : request[w] = Idle
                              ELSE alone[u] /\ request[u] = Idle]
    /\ UNCHANGED <<AtSlides, audit>>

BeginCreate(t, asked) == Begin(t, Asked("create", 0, asked))

\* updateHome and deleteHome find the slide before their transaction.
BeginMove(t, s, asked) == s \in Live(slide) /\ Begin(t, Asked("move", s, asked))

BeginDelete(t, s) == s \in Live(slide) /\ Begin(t, Asked("delete", s, slide[s].order))

\* $transaction: BEGIN on a connection of the pool.
Open(t) ==
    /\ request[t].stage = "open" /\ PoolHasRoom
    /\ Go(t, [request[t] EXCEPT !.stage = IF request[t].op = "delete" THEN "look" ELSE "place"])
    /\ UNCHANGED <<AtSlides, audit, alone>>

-----------------------------------------------------------------------------
(* Positions.                                                              *)

\* The next statement is an UPDATE of the rows in a range.  The shifts of an
\* insert and of a delete have no upper end; a move's leaves its own row out.
Range(r, from, to, delta) ==
    [r EXCEPT !.stage = "range", !.from = from, !.to = to, !.delta = delta]

InRange(r, order) == order >= r.from /\ (r.op = "move" => order <= r.to)

Skipped(r) == IF r.op = "move" THEN {r.slide} ELSE {}

\* Mutant: a new slide takes its place without making room.
PlaceCreateOver(t) ==
    LET r == request[t] IN
    /\ r.stage = "place" /\ r.op = "create"
    /\ Go(t, [r EXCEPT !.stage = "write",
                       !.target = IF r.asked = Append THEN NextOrder(Rows(t)) ELSE r.asked])
    /\ UNCHANGED <<AtSlides, audit, alone>>

\* insertAtDisplayOrder: the end is read, a position asked for is taken.
PlaceCreate(t) ==
    LET r == request[t] IN
    /\ r.stage = "place" /\ r.op = "create"
    /\ Go(t, IF r.asked = Append
             THEN [r EXCEPT !.stage = "write", !.target = NextOrder(Rows(t))]
             ELSE Range(r, r.asked, r.asked, 1))
    /\ UNCHANGED <<AtSlides, audit, alone>>

\* moveDisplayOrder reads where the slide is (one that is gone counts as being
\* at 0), ...
PlaceMove(t) ==
    LET r == request[t] IN
    /\ r.stage = "place" /\ r.op = "move"
    /\ Go(t, [r EXCEPT !.stage = "last",
                       !.from = IF r.slide \in Live(Rows(t)) THEN Rows(t)[r.slide].order ELSE 0])
    /\ UNCHANGED <<AtSlides, audit, alone>>

\* ... then the last position, and clamps to it.
Clamped(r, last) ==
    LET target == IF r.asked > last THEN last ELSE r.asked
        placed == [r EXCEPT !.target = target, !.stage = "look"]
    IN  IF target < r.from THEN Range(placed, target, r.from - 1, 1)
        ELSE IF target > r.from THEN Range(placed, r.from + 1, target, -1)
        ELSE placed

Clamp(t) ==
    /\ request[t].stage = "last"
    /\ Go(t, Clamped(request[t], NextOrder(Rows(t)) - 1))
    /\ UNCHANGED <<AtSlides, audit, alone>>

\* The snapshot of a shift.
PickRows(t) ==
    LET r == request[t] IN
    /\ r.stage = "range"
    /\ Go(t, [r EXCEPT !.stage = "shift",
                       !.todo = {s \in Live(Rows(t)) \ Skipped(r) : InRange(r, Rows(t)[s].order)}])
    /\ UNCHANGED <<AtSlides, audit, alone>>

Put(t, s, row) ==
    /\ slideDraft' = [slideDraft EXCEPT ![s] = row]
    /\ slideHolder' = Lock(slideHolder, t, s)
    /\ UNCHANGED slide

\* One row of a shift, in any order, once it is free; a row that left the range
\* since the snapshot is passed over.
ShiftRow(t) ==
    LET r == request[t] IN
    /\ r.stage = "shift"
    /\ \E s \in r.todo :
          /\ Free(slideHolder, t, s)
          /\ Go(t, [r EXCEPT !.todo = @ \ {s}])
          /\ IF slideDraft[s].life = "live" /\ InRange(r, slideDraft[s].order)
             THEN Put(t, s, [slideDraft[s] EXCEPT !.order = @ + r.delta])
             ELSE UNCHANGED AtSlides
    /\ UNCHANGED <<audit, alone>>

Shifted(t) ==
    LET r == request[t] IN
    /\ r.stage = "shift" /\ r.todo = {}
    /\ Go(t, [r EXCEPT !.stage = CASE r.op = "create" -> "write"
                                    [] r.op = "move"   -> "look"
                                    [] OTHER           -> "commit"])
    /\ UNCHANGED <<AtSlides, audit, alone>>

-----------------------------------------------------------------------------
(* The statement on the slide itself, under the audit-log extension.       *)

\* findUnique on the extended client: a committed row, read elsewhere.
Look(t) ==
    LET r == request[t] IN
    /\ r.stage = "look" /\ PoolHasRoom
    /\ Go(t, [r EXCEPT !.stage = "write",
                       !.seen = IF r.slide \in Live(slide) THEN slide[r.slide].order ELSE -1])
    /\ UNCHANGED <<AtSlides, audit, alone>>

Insert(t, s) ==
    LET r == request[t] IN
    /\ r.stage = "write" /\ r.op = "create"
    /\ slideDraft[s].life = "fresh" /\ \A d \in Slide : d < s => slideDraft[d].life # "fresh"
    /\ Put(t, s, [life |-> "live", order |-> r.target])
    /\ Go(t, [r EXCEPT !.slide = s, !.stage = "log", !.logged = [from |-> -1, to |-> r.target]])
    /\ UNCHANGED <<audit, alone>>

\* Mutant: the position asked for is recorded, not the one it was clamped to.
UpdateAsAsked(t) ==
    LET r == request[t] IN
    /\ r.stage = "write" /\ r.op = "move"
    /\ Free(slideHolder, t, r.slide) /\ slideDraft[r.slide].life = "live"
    /\ Put(t, r.slide, [slideDraft[r.slide] EXCEPT !.order = r.target])
    /\ Go(t, [r EXCEPT !.stage = "log", !.logged = [from |-> r.seen, to |-> r.asked]])
    /\ UNCHANGED <<audit, alone>>

\* Recorded even if the slide stays where it is: updatedAt has changed.
Update(t) ==
    LET r == request[t] IN
    /\ r.stage = "write" /\ r.op = "move"
    /\ Free(slideHolder, t, r.slide) /\ slideDraft[r.slide].life = "live"
    /\ Put(t, r.slide, [slideDraft[r.slide] EXCEPT !.order = r.target])
    /\ Go(t, [r EXCEPT !.stage = "log", !.logged = [from |-> r.seen, to |-> r.target]])
    /\ UNCHANGED <<audit, alone>>

\* The audit row of a delete has the id and no place.
Delete(t) ==
    LET r == request[t] IN
    /\ r.stage = "write" /\ r.op = "delete"
    /\ Free(slideHolder, t, r.slide) /\ slideDraft[r.slide].life = "live"
    /\ Put(t, r.slide, [slideDraft[r.slide] EXCEPT !.life = "gone"])
    /\ Go(t, [r EXCEPT !.stage = "log"])
    /\ UNCHANGED <<audit, alone>>

ActionOf(op) == CASE op = "create" -> "CREATE" [] op = "move" -> "UPDATE" [] OTHER -> "DELETE"

Record(r) == audit' = [audit EXCEPT ![r.slide] = @ \cup {ActionOf(r.op)}]

\* closeDisplayOrderGap follows a delete; its bound is what the delete read
\* before the transaction.
AfterLog(r) ==
    IF r.op = "delete" THEN Range(r, r.asked + 1, r.asked + 1, -1)
    ELSE [r EXCEPT !.stage = "commit"]

\* Mutant: a full pool costs the audit row, not the request.
LogIfRoom(t) ==
    LET r == request[t] IN
    /\ r.stage = "log"
    /\ IF PoolHasRoom THEN Record(r) ELSE UNCHANGED audit
    /\ Go(t, AfterLog(r))
    /\ UNCHANGED <<AtSlides, alone>>

\* auditLog.create on the extended client, committed at once.
Log(t) ==
    LET r == request[t] IN
    /\ r.stage = "log" /\ PoolHasRoom
    /\ Record(r)
    /\ Go(t, AfterLog(r))
    /\ UNCHANGED <<AtSlides, alone>>

-----------------------------------------------------------------------------
(* The end of a request.                                                   *)

Release(t) ==
    /\ slideHolder' = Unlock(slideHolder, t)
    /\ alone' = [alone EXCEPT ![t] = FALSE]

Commit(t) ==
    /\ request[t].stage = "commit"
    /\ slide' = Rows(t)
    /\ Go(t, Idle)
    /\ Release(t)
    /\ UNCHANGED <<slideDraft, audit>>

\* A rollback: the id an insert drew stays drawn.
RolledBack(t) ==
    LET burn(rows) == [s \in Slide |-> IF slideHolder[s] = t /\ slide[s].life = "fresh"
                                       THEN [rows[s] EXCEPT !.life = "burnt"] ELSE rows[s]]
    IN  /\ slide' = burn(slide)
        /\ slideDraft' = burn(Discard(slide, slideDraft, slideHolder, t))
        /\ UNCHANGED audit
        /\ Release(t)

\* An error, a deadlock found by the database, a lost connection.
Abort(t) ==
    /\ request[t].stage \notin {"idle", "late"}
    /\ Go(t, Idle)
    /\ RolledBack(t)

\* t can do nothing but wait.
Waits(t) ==
    \/ request[t].stage \in {"open", "look", "log"} /\ ~PoolHasRoom
    \/ request[t].stage = "write" /\ request[t].op # "create"
          /\ ~Free(slideHolder, t, request[t].slide)
    \/ request[t].stage = "shift" /\ request[t].todo # {}
          /\ \A s \in request[t].todo : ~Free(slideHolder, t, s)

\* A request whose row is gone, or that finds no fresh id (a bound of the
\* model), is refused.
Refused(t) ==
    /\ request[t].stage = "write"
    /\ IF request[t].op = "create" THEN \A s \in Slide : slideDraft[s].life # "fresh"
       ELSE Free(slideHolder, t, request[t].slide) /\ slideDraft[request[t].slide].life # "live"
    /\ Go(t, Idle)
    /\ RolledBack(t)

\* Mutant: only waits for rows time out.
TimeoutOfLocks(t) ==
    /\ Waits(t) /\ request[t].stage \notin {"open", "look", "log"}
    /\ Go(t, Idle)
    /\ RolledBack(t)

\* $transaction gives up after maxWait (the wait for a connection) or timeout
\* (the wait inside).  A statement of the extension is not part of the
\* transaction: it goes on waiting for a connection, and is late.
Timeout(t) ==
    /\ Waits(t)
    /\ Go(t, IF request[t].stage = "log" THEN [request[t] EXCEPT !.stage = "late"] ELSE Idle)
    /\ RolledBack(t)

\* The late audit row, of a change that was rolled back.
LateLog(t) ==
    /\ request[t].stage = "late" /\ PoolHasRoom
    /\ Record(request[t])
    /\ Go(t, Idle)
    /\ UNCHANGED <<AtSlides, alone>>

Step(t) ==
    \/ Open(t) \/ PlaceCreate(t) \/ PlaceMove(t) \/ Clamp(t)
    \/ PickRows(t) \/ ShiftRow(t) \/ Shifted(t)
    \/ Look(t) \/ (\E s \in Slide : Insert(t, s)) \/ Update(t) \/ Delete(t)
    \/ Log(t) \/ LateLog(t)
    \/ Commit(t) \/ Refused(t) \/ Timeout(t)

SlidesNext == \E t \in Tx :
    \/ \E asked \in Position \cup {Append} : BeginCreate(t, asked)
    \/ \E s \in Slide, asked \in Position : BeginMove(t, s, asked)
    \/ \E s \in Slide : BeginDelete(t, s)
    \/ Step(t)
    \/ Abort(t)

\* A request being served is not forgotten.  One that waits either stops
\* waiting or times out, so weak fairness of its own steps is enough.
SlidesFairness == \A t \in Tx : WF_slideVars(Step(t))

SlidesSpec == SlidesInit /\ [][SlidesNext]_slideVars /\ SlidesFairness

-----------------------------------------------------------------------------
\* The audit trail misses no slide that was created or deleted, though it is
\* written on another connection, before the commit, from a pool that may be
\* exhausted: the trail may say too much (a rollback), never too little.
LivesAreLogged == \A s \in Slide :
    /\ slide[s].life \in {"live", "gone"} => "CREATE" \in audit[s]
    /\ slide[s].life = "gone" => "DELETE" \in audit[s]

Distinct(rows) == \A s, d \in Live(rows) : s # d => rows[s].order # rows[d].order
Dense(rows)    == Distinct(rows) /\ {rows[s].order : s \in Live(rows)} = 0..(Cardinality(Live(rows)) - 1)

\* A request nobody overlaps leaves no two slides on one position, and no gap
\* either unless it creates a slide past the end.  (Overlapping requests leave
\* both: "so two rows of the same type never collide on displayOrder".)
LoneKeepsOrder == [][\A t \in Tx : alone[t] /\ Commit(t) =>
    /\ Distinct(slide) => Distinct(slide')
    /\ Dense(slide) /\ (request[t].op = "create" => request[t].target <= NextOrder(slide))
          => Dense(slide')]_slideVars

\* What the trail says of a move nobody overlapped is what the move did, also
\* if it left the slide where it was.  (The extension's read may precede the
\* wait for the row: an overlapped move may be recorded wrongly.)
LoneMoveIsLogged == [][\A t \in Tx : alone[t] /\ Commit(t) /\ request[t].op = "move" =>
    LET s == request[t].slide IN
    request[t].logged = [from |-> slide[s].order, to |-> slide'[s].order]]_slideVars

\* Two transactions that wait for each other's second connection, or for each
\* other's rows, end: nothing is served for ever.
EveryRequestEnds == \A t \in Tx : request[t] # Idle ~> request[t] = Idle
=============================================================================
