------------------------- MODULE CategoryTreeProofs -------------------------
(***************************************************************************)
(* The category tree stays acyclic and strands nothing, and product writes *)
(* lock it without a deadlock, for any categories, products and number of  *)
(* concurrent requests.                                                    *)
(*                                                                         *)
(* A move checked twice is not enough by itself: what counts is that the   *)
(* set the trigger walked is still closed when the move commits.  Its      *)
(* inductive invariant says so: the transaction that walked holds the      *)
(* advisory lock, so nobody else gives a category a new parent, and what   *)
(* others do meanwhile (promotions, removals, new leaves) opens no way     *)
(* from the new parent up to the category that moves.                      *)
(***************************************************************************)
EXTENDS CategoryTree, FiniteSetTheorems, TLAPS

MaybeIdle == Request \cup {Idle}

\* The part of the type invariant the argument needs.
TreeShape ==
    /\ category \in [Cat -> CategoryRow]
    /\ request \in [Tx -> MaybeIdle]

\* Nobody has a category that does not exist yet for a parent, or wants to.
FreshUnused == \A c \in Cat : category[c].life = "fresh" =>
    /\ \A d \in Cat : category[d].parent # c
    /\ \A t \in Tx : request[t] # Idle => request[t].to # c

\* A set that holds every ancestor of to, and not c.
Apart(parents, c, to) == \E S \in SUBSET Cat :
    /\ to \in S /\ c \notin S
    /\ \A d \in S : parents[d] \in S \cup {NoCat}

\* A move on its way to its commit holds the lock, and what it walked is apart.
Walking(t)  == request[t] # Idle /\ request[t].stage = "recount" /\ request[t].op = "move"
               /\ request[t].to # NoCat
WalkedMoves == \A t \in Tx : Walking(t) =>
    /\ reparentLock = t
    /\ Apart(Parents, request[t].cat, request[t].to)

TreeInv ==
    /\ TreeShape
    /\ TreeStaysAcyclic
    /\ FreshUnused
    /\ WalkedMoves

Acyclic(parents) == \A S \in SUBSET Cat : S # {} => \E c \in S : parents[c] \notin S

-----------------------------------------------------------------------------
(* Trees.                                                                  *)

LEMMA AcyclicParents ==
    ASSUME category \in [Cat -> CategoryRow]
    PROVE  /\ TreeStaysAcyclic <=> Acyclic(Parents)
           /\ Parents \in [Cat -> MaybeCat]
BY DEF TreeStaysAcyclic, Acyclic, Parents, CategoryRow

\* A category may get any parent from which no way leads up to it.
LEMMA MoveKeepsAcyclic ==
    ASSUME NEW old \in [Cat -> MaybeCat], Acyclic(old),
           NEW c, NEW to, Apart(old, c, to)
    PROVE  Acyclic([old EXCEPT ![c] = to])
<1> DEFINE new == [old EXCEPT ![c] = to]
<1> SUFFICES ASSUME NEW C \in SUBSET Cat, C # {}, \A d \in C : new[d] \in C
             PROVE  FALSE
  BY DEF Acyclic
<1>1. PICK S \in SUBSET Cat : /\ to \in S /\ c \notin S
                              /\ \A d \in S : old[d] \in S \cup {NoCat}
  BY DEF Apart
<1>2. CASE c \notin C
  <2>1. \A d \in C : old[d] \in C
    BY <1>2
  <2>2. QED
    BY <2>1 DEF Acyclic
<1>3. CASE c \in C
  <2>1. to \in C
    BY <1>3
  <2>2. \A d \in C \cap S : old[d] \in C \cap S
    <3> SUFFICES ASSUME NEW d \in C \cap S
                 PROVE  old[d] \in C \cap S
      OBVIOUS
    <3>1. d # c /\ new[d] = old[d]
      BY <1>1
    <3>2. old[d] \in C
      BY <3>1
    <3>3. QED
      BY <1>1, <3>2, CatAssumption
  <2>3. C \cap S # {} /\ C \cap S \in SUBSET Cat
    BY <1>1, <2>1
  <2>4. QED
    BY <2>2, <2>3 DEF Acyclic
<1>4. QED
  BY <1>2, <1>3

\* Taking parents away closes no circle, and opens no way up.
LEMMA PromoteKeepsAcyclic ==
    ASSUME NEW old \in [Cat -> MaybeCat], NEW new \in [Cat -> MaybeCat],
           \A c \in Cat : new[c] \in {old[c], NoCat}
    PROVE  /\ Acyclic(old) => Acyclic(new)
           /\ \A c, to : Apart(old, c, to) => Apart(new, c, to)
<1>1. Acyclic(old) => Acyclic(new)
  <2> SUFFICES ASSUME Acyclic(old), NEW C \in SUBSET Cat, C # {}, \A d \in C : new[d] \in C
               PROVE  FALSE
    BY DEF Acyclic
  <2>1. \A d \in C : old[d] \in C
    BY CatAssumption
  <2>2. QED
    BY <2>1 DEF Acyclic
<1>2. ASSUME NEW c, NEW to, Apart(old, c, to)
      PROVE  Apart(new, c, to)
  <2>1. PICK S \in SUBSET Cat : /\ to \in S /\ c \notin S
                                /\ \A d \in S : old[d] \in S \cup {NoCat}
    BY <1>2 DEF Apart
  <2>2. \A d \in S : new[d] \in S \cup {NoCat}
    BY <2>1
  <2>3. QED
    BY <2>1, <2>2 DEF Apart
<1>3. QED
  BY <1>1, <1>2

\* So does a new leaf: a category nobody has for a parent.
LEMMA LeafKeepsAcyclic ==
    ASSUME NEW old \in [Cat -> MaybeCat], NEW leaf \in Cat, NEW above \in MaybeCat,
           above # leaf, \A d \in Cat : old[d] # leaf
    PROVE  /\ Acyclic(old) => Acyclic([old EXCEPT ![leaf] = above])
           /\ \A c, to : to # leaf /\ Apart(old, c, to)
                             => Apart([old EXCEPT ![leaf] = above], c, to)
<1> DEFINE new == [old EXCEPT ![leaf] = above]
<1>1. Acyclic(old) => Acyclic(new)
  <2> SUFFICES ASSUME Acyclic(old), NEW C \in SUBSET Cat, C # {}, \A d \in C : new[d] \in C
               PROVE  FALSE
    BY DEF Acyclic
  <2> DEFINE D == C \ {leaf}
  <2>1. D # {} /\ D \in SUBSET Cat
    <3>1. leaf \in C => above \in D
      BY CatAssumption
    <3>2. QED
      BY <3>1
  <2>2. \A d \in D : old[d] \in D
    OBVIOUS
  <2>3. QED
    BY <2>1, <2>2 DEF Acyclic
<1>2. ASSUME NEW c, NEW to, to # leaf, Apart(old, c, to)
      PROVE  Apart(new, c, to)
  <2>1. PICK S \in SUBSET Cat : /\ to \in S /\ c \notin S
                                /\ \A d \in S : old[d] \in S \cup {NoCat}
    BY <1>2 DEF Apart
  <2> DEFINE D == S \ {leaf}
  <2>2. D \in SUBSET Cat /\ to \in D /\ c \notin D
    BY <1>2, <2>1
  <2>3. \A d \in D : new[d] \in D \cup {NoCat}
    BY <2>1
  <2>4. QED
    BY <2>2, <2>3 DEF Apart
<1>3. QED
  BY <1>1, <1>2

\* The walk of the trigger finds c or a set apart from it.
LEMMA WalkFindsApart ==
    ASSUME NEW parents \in [Cat -> MaybeCat], NEW c, NEW to \in Cat,
           c \notin Ancestors(parents, to)
    PROVE  Apart(parents, c, to)
<1>1. CASE c \in Cat
  <2>1. PICK S \in SUBSET Cat : to \in S /\ Closed(parents, S) /\ c \notin S
    BY <1>1 DEF Ancestors
  <2>2. QED
    BY <2>1 DEF Apart, Closed
<1>2. CASE c \notin Cat
  <2>1. \A d \in Cat : parents[d] \in Cat \cup {NoCat}
    BY DEF MaybeCat
  <2>2. Cat \in SUBSET Cat
    OBVIOUS
  <2>3. QED
    BY <1>2, <2>1, <2>2 DEF Apart
<1>3. QED
  BY <1>1, <1>2
-----------------------------------------------------------------------------
(* Requests.                                                               *)

LEMMA BusyRequest ==
    ASSUME NEW r \in MaybeIdle
    PROVE  r # Idle <=> r \in Request
BY DEF MaybeIdle, Request, Idle, Stage

LEMMA TallyIsNat ==
    ASSUME NEW parents, NEW products, NEW c
    PROVE  Tally(parents, products, c) \in Nat
<1> DEFINE P == {p \in Product : /\ Counted(products[p])
                                 /\ c \in Ancestors(parents, products[p].cat)}
<1>1. IsFiniteSet(P)
  BY ProductAssumption, FS_Subset
<1>2. QED
  BY <1>1, FS_CardinalityType DEF Tally

\* A recount keeps what its request is about.
LEMMA RecountKeepsRequest ==
    ASSUME TreeShape, NEW t \in Tx, request[t] \in Request,
           NEW parents, NEW products, NEW seeds,
           request' = Recount(t, parents, products, seeds)
    PROVE  /\ request' \in [Tx -> MaybeIdle]
           /\ request'[t] \in Request
           /\ request'[t].stage = "recount"
           /\ request'[t].op = request[t].op
           /\ request'[t].cat = request[t].cat
           /\ request'[t].to = request[t].to
           /\ request'[t].prod = request[t].prod
           /\ request'[t].row = request[t].row
           /\ \A u \in Tx \ {t} : request'[u] = request[u]
<1> DEFINE rows   == Affected(parents, seeds)
           counts == [c \in Cat |-> Tally(parents, products, c)]
           tally  == [c \in Cat |-> IF c \in rows /\ counts[c] # category[c].count
                                    THEN counts[c] ELSE Kept]
           r      == [request[t] EXCEPT !.stage = "recount", !.locks = rows, !.tally = tally]
<1>1. rows \in SUBSET Cat
  BY DEF Affected, Ancestors
<1>2. tally \in [Cat -> Nat \cup {Kept}]
  BY TallyIsNat
<1>3. request' = [request EXCEPT ![t] = r]
  <2> HIDE DEF rows, tally
  <2>1. request \in [Tx -> MaybeIdle]
    BY DEF TreeShape
  <2>2. request' = [request EXCEPT ![t].stage = "recount", ![t].locks = rows, ![t].tally = tally]
    BY DEF Recount, rows, tally
  <2>3. QED
    BY <2>1, <2>2
<1> HIDE DEF rows, counts, tally
<1>4. /\ r \in Request /\ r.stage = "recount"
      /\ r.op = request[t].op /\ r.cat = request[t].cat /\ r.to = request[t].to
      /\ r.prod = request[t].prod /\ r.row = request[t].row
  BY <1>1, <1>2 DEF Request, Stage
<1>5. QED
  BY <1>3, <1>4 DEF TreeShape, MaybeIdle

\* A step of t that leaves the tree alone.
LEMMA StepBesideTheTree ==
    ASSUME TreeInv, NEW t \in Tx, category' = category,
           request' \in [Tx -> MaybeIdle],
           \A u \in Tx \ {t} : request'[u] = request[u],
           request'[t] # Idle =>
               \A c \in Cat : category[c].life = "fresh" => request'[t].to # c,
           Walking(t)' =>
               reparentLock' = t /\ Apart(Parents, request'[t].cat, request'[t].to),
           \A u \in Tx \ {t} : reparentLock = u => reparentLock' = u
    PROVE  TreeInv'
<1>1. TreeShape'
  BY DEF TreeInv, TreeShape
<1>2. TreeStaysAcyclic'
  BY DEF TreeInv, TreeStaysAcyclic
<1>3. FreshUnused'
  <2> SUFFICES ASSUME NEW c \in Cat, category[c].life = "fresh"
               PROVE  /\ \A d \in Cat : category[d].parent # c
                      /\ \A u \in Tx : request'[u] # Idle => request'[u].to # c
    BY DEF FreshUnused
  <2>1. QED
    BY DEF TreeInv, FreshUnused
<1>4. WalkedMoves'
  <2> SUFFICES ASSUME NEW u \in Tx, Walking(u)'
               PROVE  /\ reparentLock' = u
                      /\ Apart(Parents, request'[u].cat, request'[u].to)
    BY DEF WalkedMoves, Parents
  <2>1. CASE u = t
    BY <2>1
  <2>2. CASE u # t
    BY <2>2 DEF TreeInv, WalkedMoves, Walking
  <2>3. QED
    BY <2>1, <2>2
<1>5. QED
  BY <1>1, <1>2, <1>3, <1>4 DEF TreeInv

-----------------------------------------------------------------------------
(* The steps that leave the tree alone.                                    *)

LEMMA FreshType ==
    ASSUME NEW op \in Op, NEW c \in MaybeCat, NEW to \in MaybeCat
    PROVE  /\ Fresh(op, c, to) \in Request
           /\ Fresh(op, c, to).stage = "write"
           /\ Fresh(op, c, to).to = to
BY DEF Fresh, Request, Stage, NoRow, MaybeCat

\* Every request that begins names a parent that exists.
LEMMA BeginKeepsTree ==
    ASSUME TreeInv, NEW t \in Tx, NEW r \in Request, Begin(t, r), r.stage = "write",
           r.to # NoCat => Live(r.to)
    PROVE  TreeInv'
<1>1. /\ request \in [Tx -> MaybeIdle]
      /\ request' = [request EXCEPT ![t] = r]
      /\ category' = category /\ reparentLock' = reparentLock
  BY DEF Begin, TreeInv, TreeShape
<1>2. request' \in [Tx -> MaybeIdle] /\ request'[t] = r
  BY <1>1 DEF MaybeIdle
<1>3. \A c \in Cat : category[c].life = "fresh" => request'[t].to # c
  BY <1>2, CatAssumption DEF Live
<1>4. ~Walking(t)'
  BY <1>2 DEF Walking
<1>5. QED
  BY <1>1, <1>2, <1>3, <1>4, StepBesideTheTree

LEMMA BeginsKeepTree ==
    ASSUME TreeInv, NEW t \in Tx,
           \/ \E c \in Cat, to \in MaybeCat : BeginMove(t, c, to)
           \/ \E c \in Cat, to \in MaybeCat : BeginCreate(t, c, to)
           \/ \E c \in Cat : BeginRemove(t, c)
    PROVE  TreeInv'
<1>1. ASSUME NEW c \in Cat, NEW to \in MaybeCat, BeginMove(t, c, to)
      PROVE  TreeInv'
  BY <1>1, FreshType, BeginKeepsTree DEF BeginMove, Op, MaybeCat
<1>2. ASSUME NEW c \in Cat, NEW to \in MaybeCat, BeginCreate(t, c, to)
      PROVE  TreeInv'
  BY <1>2, FreshType, BeginKeepsTree DEF BeginCreate, Op, MaybeCat
<1>3. ASSUME NEW c \in Cat, BeginRemove(t, c)
      PROVE  TreeInv'
  BY <1>3, FreshType, BeginKeepsTree DEF BeginRemove, Op, MaybeCat
<1>4. QED
  BY <1>1, <1>2, <1>3

LEMMA BeginProductKeepsTree ==
    ASSUME TreeInv, NEW t \in Tx, NEW p \in Product, NEW to \in MaybeCat,
           NEW b \in BOOLEAN, BeginProduct(t, p, to, b)
    PROVE  TreeInv'
<1>1. ASSUME NEW op \in Op, NEW row \in [cat : MaybeCat, sellable : BOOLEAN]
      PROVE  /\ ProductRequest(op, p, row) \in Request
             /\ ProductRequest(op, p, row).stage = "write"
             /\ ProductRequest(op, p, row).to = row.cat
  <2>1. Fresh(op, NoCat, row.cat) \in Request /\ Fresh(op, NoCat, row.cat).stage = "write"
        /\ Fresh(op, NoCat, row.cat).to = row.cat
    BY FreshType DEF MaybeCat
  <2>2. QED
    BY <2>1 DEF ProductRequest, Request
<1>2. [cat |-> to, sellable |-> b] \in [cat : MaybeCat, sellable : BOOLEAN]
      /\ NoRow \in [cat : MaybeCat, sellable : BOOLEAN]
  BY DEF NoRow, MaybeCat
<1>3. to # NoCat => Live(to)
  BY DEF BeginProduct, Assignable
<1>4. CASE Begin(t, ProductRequest("insert", p, [cat |-> to, sellable |-> b]))
  BY <1>1, <1>2, <1>3, <1>4, BeginKeepsTree DEF Op
<1>5. CASE Begin(t, ProductRequest("update", p, [cat |-> to, sellable |-> b]))
  BY <1>1, <1>2, <1>3, <1>5, BeginKeepsTree DEF Op
<1>6. CASE Begin(t, ProductRequest("delete", p, NoRow))
  BY <1>1, <1>2, <1>6, BeginKeepsTree DEF Op, NoRow
<1>7. QED
  BY <1>4, <1>5, <1>6 DEF BeginProduct

\* A request that goes on to a statement of its own, or waits for a lock.
LEMMA NextStageKeepsTree ==
    ASSUME TreeInv, NEW t \in Tx,
           LockMoved(t) \/ LockNextRow(t)
    PROVE  TreeInv'
<1>1. request \in [Tx -> MaybeIdle] /\ request[t] \in Request
  BY BusyRequest DEF TreeInv, TreeShape, LockMoved, LockNextRow, Idle, MaybeIdle
<1>2. /\ category' = category /\ reparentLock' = reparentLock
      /\ request' \in [Tx -> MaybeIdle] /\ request'[t] \in Request
      /\ request'[t].to = request[t].to /\ request'[t].cat = request[t].cat
      /\ request'[t].op = request[t].op
      /\ request'[t].stage = "recount" => request[t].stage = "recount"
      /\ \A u \in Tx \ {t} : request'[u] = request[u]
  <2>1. CASE LockMoved(t)
    BY <1>1, <2>1 DEF LockMoved, MaybeIdle, Request, Stage
  <2>2. CASE LockNextRow(t)
    BY <1>1, <2>2 DEF LockNextRow, MaybeIdle, Request, Stage
  <2>3. QED
    BY <2>1, <2>2
<1>3. request[t] # Idle
  BY <1>1, BusyRequest DEF MaybeIdle
<1>4. \A c \in Cat : category[c].life = "fresh" => request'[t].to # c
  BY <1>2, <1>3 DEF TreeInv, FreshUnused
<1>5. Walking(t)' => Walking(t)
  BY <1>2, <1>3 DEF Walking
<1>6. Walking(t)' => reparentLock' = t /\ Apart(Parents, request'[t].cat, request'[t].to)
  BY <1>2, <1>5 DEF TreeInv, WalkedMoves
<1>7. QED
  BY <1>2, <1>4, <1>6, StepBesideTheTree

\* The answer, whatever it is, of a request that leaves the tree alone.
LEMMA EndKeepsTree ==
    ASSUME TreeInv, NEW t \in Tx, End(t), category' = category
    PROVE  TreeInv'
<1>1. request \in [Tx -> MaybeIdle] /\ request' = [request EXCEPT ![t] = Idle]
  BY DEF TreeInv, TreeShape, End
<1>2. request' \in [Tx -> MaybeIdle] /\ request'[t] = Idle
  BY <1>1 DEF MaybeIdle
<1>3. \A u \in Tx \ {t} : reparentLock = u => reparentLock' = u
  BY DEF End
<1>4. ~Walking(t)'
  BY <1>2 DEF Walking
<1>5. QED
  BY <1>1, <1>2, <1>3, <1>4, StepBesideTheTree

LEMMA UploadedKeepsTree ==
    ASSUME TreeInv, NEW t \in Tx, Uploaded(t)
    PROVE  TreeInv'
<1>1. CASE End(t)
  BY <1>1, EndKeepsTree DEF Uploaded
<1>2. CASE /\ request' = [request EXCEPT ![t].stage = "write", ![t].op = "remove",
                                         ![t].to = NoCat]
           /\ reparentLock' = reparentLock
  <2>1. request \in [Tx -> MaybeIdle] /\ request[t] \in Request
    BY BusyRequest DEF TreeInv, TreeShape, Uploaded, Idle, MaybeIdle
  <2>2. /\ request' \in [Tx -> MaybeIdle] /\ request'[t] \in Request
        /\ request'[t].stage = "write" /\ request'[t].to = NoCat
        /\ \A u \in Tx \ {t} : request'[u] = request[u]
    BY <1>2, <2>1 DEF MaybeIdle, Request, Stage, Op, MaybeCat
  <2>3. ~Walking(t)'
    BY <2>2 DEF Walking
  <2>4. QED
    BY <1>2, <2>2, <2>3, StepBesideTheTree, CatAssumption DEF Uploaded
<1>3. QED
  BY <1>1, <1>2 DEF Uploaded

\* A removal or a product write: it recounts, and moves no category.
LEMMA OtherRecountsKeepTree ==
    ASSUME TreeInv, NEW t \in Tx, RemoveRow(t) \/ WriteProduct(t)
    PROVE  TreeInv'
<1>1. TreeShape /\ request[t] \in Request
  BY BusyRequest DEF TreeInv, TreeShape, RemoveRow, WriteProduct, Idle, MaybeIdle
<1>2. /\ category' = category /\ reparentLock' = reparentLock
      /\ request[t].op # "move"
      /\ \E parents, products, seeds : request' = Recount(t, parents, products, seeds)
  BY DEF RemoveRow, WriteProduct
<1>3. /\ request' \in [Tx -> MaybeIdle]
      /\ request'[t].op = request[t].op /\ request'[t].to = request[t].to
      /\ \A u \in Tx \ {t} : request'[u] = request[u]
  BY <1>1, <1>2, RecountKeepsRequest
<1>4. request[t] # Idle
  BY <1>1, BusyRequest DEF MaybeIdle
<1>5. \A c \in Cat : category[c].life = "fresh" => request'[t].to # c
  BY <1>3, <1>4 DEF TreeInv, FreshUnused
<1>6. ~Walking(t)'
  BY <1>2, <1>3 DEF Walking
<1>7. QED
  BY <1>2, <1>3, <1>5, <1>6, StepBesideTheTree

\* The trigger's walk, under the advisory lock.
LEMMA ReparentKeepsTree ==
    ASSUME TreeInv, NEW t \in Tx, Reparent(t)
    PROVE  TreeInv'
<1> DEFINE c == request[t].cat  to == request[t].to
<1>1. TreeShape /\ request[t] \in Request /\ request[t] # Idle
  BY BusyRequest DEF TreeInv, TreeShape, Reparent, Idle, MaybeIdle
<1>2. /\ category' = category
      /\ \E parents, products, seeds : request' = Recount(t, parents, products, seeds)
  BY DEF Reparent
<1>3. /\ request' \in [Tx -> MaybeIdle]
      /\ request'[t].cat = c /\ request'[t].to = to
      /\ \A u \in Tx \ {t} : request'[u] = request[u]
  BY <1>1, <1>2, RecountKeepsRequest
<1>4. \A d \in Cat : category[d].life = "fresh" => request'[t].to # d
  BY <1>1, <1>3 DEF TreeInv, FreshUnused
<1>5. Walk(t)
  BY DEF Reparent
<1>6. \A u \in Tx \ {t} : reparentLock = u => reparentLock' = u
  BY <1>5, NoTxAssumption DEF Walk
<1>7. ASSUME to # NoCat
      PROVE  reparentLock' = t /\ Apart(Parents, c, to)
  <2>1. to \in Cat
    BY <1>1, <1>7 DEF Request, MaybeCat
  <2>2. reparentLock' = t /\ c \notin Ancestors(Parents, to)
    BY <1>5, <1>7 DEF Walk
  <2>3. QED
    BY <1>1, <2>1, <2>2, AcyclicParents, WalkFindsApart DEF TreeShape
<1>8. Walking(t)' => reparentLock' = t /\ Apart(Parents, request'[t].cat, request'[t].to)
  BY <1>3, <1>7 DEF Walking
<1>9. QED
  BY <1>2, <1>3, <1>4, <1>6, <1>8, StepBesideTheTree

-----------------------------------------------------------------------------
(* The steps that write the tree.                                          *)

LEMMA InsertKeepsTree ==
    ASSUME TreeInv, NEW t \in Tx, InsertCategory(t)
    PROVE  TreeInv'
<1> DEFINE c == request[t].cat  to == request[t].to
           row == [life |-> "live", parent |-> to, count |-> 0]
<1>1. TreeShape /\ request[t] \in Request /\ request[t] # Idle
  BY BusyRequest DEF TreeInv, TreeShape, InsertCategory, Idle, MaybeIdle
<1>2. /\ category' = [category EXCEPT ![c] = row] /\ category[c].life = "fresh"
      /\ request' = [request EXCEPT ![t].stage = "upload"] /\ reparentLock' = reparentLock
      /\ to # NoCat => Live(to)
  BY DEF InsertCategory, References
<1>3. /\ request' \in [Tx -> MaybeIdle] /\ request'[t] \in Request
      /\ request'[t].stage = "upload" /\ request'[t].to = to
      /\ \A u \in Tx \ {t} : request'[u] = request[u]
  BY <1>1, <1>2 DEF TreeShape, MaybeIdle, Request, Stage
<1>4. CASE c \notin Cat
  <2>1. category' = category
    BY <1>1, <1>2, <1>4 DEF TreeShape
  <2>2. \A d \in Cat : category[d].life = "fresh" => request'[t].to # d
    BY <1>1, <1>3 DEF TreeInv, FreshUnused
  <2>3. ~Walking(t)'
    BY <1>3 DEF Walking
  <2>4. QED
    BY <1>2, <1>3, <2>1, <2>2, <2>3, StepBesideTheTree
<1>5. CASE c \in Cat
  <2>1. to \in MaybeCat /\ row \in CategoryRow
    BY <1>1 DEF Request, CategoryRow
  <2>2. TreeShape'
    BY <1>1, <1>2, <1>3, <2>1 DEF TreeShape
  <2>3. Parents \in [Cat -> MaybeCat] /\ Parents' = [Parents EXCEPT ![c] = to]
    BY <1>1, <1>2, <1>5, <2>1, AcyclicParents DEF TreeShape, Parents
  <2>4. /\ \A d \in Cat : Parents[d] # c
        /\ \A u \in Tx : request[u] # Idle => request[u].to # c
    BY <1>2, <1>5 DEF TreeInv, FreshUnused, Parents
  <2>5. to # c
    BY <1>1, <2>4
  <2>6. TreeStaysAcyclic'
    <3>1. Acyclic(Parents)
      BY <1>1, AcyclicParents DEF TreeInv, TreeShape
    <3>2. Acyclic(Parents')
      BY <1>5, <2>1, <2>3, <2>4, <2>5, <3>1, LeafKeepsAcyclic
    <3>3. QED
      BY <3>2 DEF TreeStaysAcyclic, Acyclic, Parents
  <2>7. FreshUnused'
    <3> SUFFICES ASSUME NEW d \in Cat, category'[d].life = "fresh"
                 PROVE  /\ \A e \in Cat : category'[e].parent # d
                        /\ \A u \in Tx : request'[u] # Idle => request'[u].to # d
      BY DEF FreshUnused
    <3>1. d # c /\ category[d].life = "fresh"
      BY <1>1, <1>2 DEF TreeShape
    <3>2. to # d
      BY <1>1, <3>1 DEF TreeInv, FreshUnused
    <3>3. \A e \in Cat : category'[e].parent # d
      BY <1>1, <1>2, <3>1, <3>2 DEF TreeInv, FreshUnused, TreeShape
    <3>4. \A u \in Tx : request'[u] # Idle => request'[u].to # d
      BY <1>1, <1>3, <3>1 DEF TreeInv, FreshUnused
    <3>5. QED
      BY <3>3, <3>4
  <2>8. WalkedMoves'
    <3> SUFFICES ASSUME NEW u \in Tx, Walking(u)'
                 PROVE  reparentLock' = u /\ Apart(Parents', request'[u].cat, request'[u].to)
      BY DEF WalkedMoves, Apart
    <3>1. u # t /\ request'[u] = request[u] /\ Walking(u)
      BY <1>3 DEF Walking
    <3>2. reparentLock = u /\ Apart(Parents, request[u].cat, request[u].to)
          /\ request[u].to # c
      BY <2>4, <3>1 DEF TreeInv, WalkedMoves, Walking
    <3>3. Apart(Parents', request[u].cat, request[u].to)
      BY <1>5, <2>1, <2>3, <2>4, <2>5, <3>2, LeafKeepsAcyclic
    <3>4. QED
      BY <1>2, <3>1, <3>2, <3>3
  <2>9. QED
    BY <2>2, <2>6, <2>7, <2>8 DEF TreeInv
<1>6. QED
  BY <1>4, <1>5

LEMMA CommitKeepsTree ==
    ASSUME TreeInv, NEW t \in Tx, Commit(t)
    PROVE  TreeInv'
<1> DEFINE r == request[t]
<1>1. TreeShape /\ r \in Request /\ r # Idle /\ r.stage = "recount"
  BY BusyRequest DEF TreeInv, TreeShape, Commit, Idle, MaybeIdle
<1>2. category' = [c \in Cat |-> RowAfter(t, c)]
  BY DEF Commit
<1>3. /\ request' \in [Tx -> MaybeIdle] /\ request'[t] = Idle
      /\ \A u \in Tx \ {t} : request'[u] = request[u]
      /\ \A u \in Tx \ {t} : reparentLock = u => reparentLock' = u
  BY <1>1 DEF TreeShape, Commit, End, MaybeIdle
<1>4. \A c \in Cat :
         /\ RowAfter(t, c) \in CategoryRow
         /\ RowAfter(t, c).life = "fresh" => category[c].life = "fresh"
         /\ RowAfter(t, c).parent = IF r.op = "remove" /\ r.cat = c THEN NoCat
                                     ELSE IF r.op = "move" /\ r.cat = c THEN r.to
                                     ELSE category[c].parent
  <2> SUFFICES ASSUME NEW c \in Cat
               PROVE  /\ RowAfter(t, c) \in CategoryRow
                      /\ RowAfter(t, c).life = "fresh" => category[c].life = "fresh"
                      /\ RowAfter(t, c).parent = IF r.op = "remove" /\ r.cat = c THEN NoCat
                                                  ELSE IF r.op = "move" /\ r.cat = c THEN r.to
                                                  ELSE category[c].parent
    OBVIOUS
  <2>1. category[c] \in CategoryRow /\ r.to \in MaybeCat /\ r.tally[c] \in Nat \cup {Kept}
    BY <1>1 DEF TreeShape, Request
  <2>2. QED
    BY <2>1 DEF RowAfter, Gone, CategoryRow, MaybeCat
<1>5. TreeShape'
  BY <1>2, <1>3, <1>4 DEF TreeShape
<1>6. Parents \in [Cat -> MaybeCat] /\ Parents' \in [Cat -> MaybeCat]
      /\ \A c \in Cat : Parents'[c] = RowAfter(t, c).parent
  BY <1>1, <1>2, <1>4 DEF TreeShape, Parents, CategoryRow
<1>7. FreshUnused'
  <2> SUFFICES ASSUME NEW d \in Cat, category'[d].life = "fresh"
               PROVE  /\ \A e \in Cat : category'[e].parent # d
                      /\ \A u \in Tx : request'[u] # Idle => request'[u].to # d
    BY DEF FreshUnused
  <2>1. category[d].life = "fresh"
    BY <1>2, <1>4
  <2>2. r.to # d /\ NoCat # d
    BY <1>1, <2>1, CatAssumption DEF TreeInv, FreshUnused
  <2>3. \A e \in Cat : category'[e].parent # d
    BY <1>2, <1>4, <2>1, <2>2 DEF TreeInv, FreshUnused
  <2>4. \A u \in Tx : request'[u] # Idle => request'[u].to # d
    BY <1>3, <2>1 DEF TreeInv, FreshUnused
  <2>5. QED
    BY <2>3, <2>4
<1>8. CASE Walking(t) /\ r.cat \in Cat
  <2>1. Apart(Parents, r.cat, r.to) /\ reparentLock = t
    BY <1>8 DEF TreeInv, WalkedMoves
  <2>2. Parents' = [Parents EXCEPT ![r.cat] = r.to]
    BY <1>4, <1>6, <1>8 DEF Walking, Parents
  <2>3. Acyclic(Parents')
    BY <1>1, <1>6, <2>1, <2>2, AcyclicParents, MoveKeepsAcyclic DEF TreeInv, TreeShape
  <2>4. TreeStaysAcyclic'
    BY <2>3 DEF TreeStaysAcyclic, Acyclic, Parents
  <2>5. \A u \in Tx : ~Walking(u)'
    BY <1>3, <2>1 DEF TreeInv, WalkedMoves, Walking
  <2>6. QED
    BY <1>5, <1>7, <2>4, <2>5 DEF TreeInv, WalkedMoves
<1>9. CASE ~(Walking(t) /\ r.cat \in Cat)
  <2>1. \A c \in Cat : Parents'[c] \in {Parents[c], NoCat}
    BY <1>1, <1>4, <1>6, <1>9 DEF Walking, Parents
  <2>2. Acyclic(Parents')
    BY <1>1, <1>6, <2>1, AcyclicParents, PromoteKeepsAcyclic DEF TreeInv, TreeShape
  <2>3. TreeStaysAcyclic'
    BY <2>2 DEF TreeStaysAcyclic, Acyclic, Parents
  <2>4. WalkedMoves'
    <3> SUFFICES ASSUME NEW u \in Tx, Walking(u)'
                 PROVE  reparentLock' = u /\ Apart(Parents', request'[u].cat, request'[u].to)
      BY DEF WalkedMoves, Apart
    <3>1. u # t /\ request'[u] = request[u] /\ Walking(u)
      BY <1>3 DEF Walking
    <3>2. reparentLock = u /\ Apart(Parents, request[u].cat, request[u].to)
      BY <3>1 DEF TreeInv, WalkedMoves
    <3>3. Apart(Parents', request[u].cat, request[u].to)
      BY <1>6, <2>1, <3>2, PromoteKeepsAcyclic
    <3>4. QED
      BY <1>3, <3>1, <3>2, <3>3
  <2>5. QED
    BY <1>5, <1>7, <2>3, <2>4 DEF TreeInv
<1>10. QED
  BY <1>8, <1>9

-----------------------------------------------------------------------------
LEMMA TreeInvInit == TreeInit => TreeInv
<1> SUFFICES ASSUME TreeInit PROVE TreeInv
  OBVIOUS
<1>1. TreeShape
  BY FirstTreeAssumption DEF TreeInit, TreeShape, CategoryRow, MaybeCat, MaybeIdle
<1>2. TreeStaysAcyclic
  <2> SUFFICES ASSUME NEW S \in SUBSET Cat, S # {}
               PROVE  \E c \in S : category[c].parent \notin S
    BY DEF TreeStaysAcyclic
  <2>1. CASE S \subseteq DOMAIN FirstTree
    <3>1. PICK c \in S : FirstTree[c] \notin S
      BY <2>1, FirstTreeAssumption
    <3>2. category[c].parent = FirstTree[c]
      BY <2>1 DEF TreeInit
    <3>3. QED
      BY <3>1, <3>2
  <2>2. CASE ~(S \subseteq DOMAIN FirstTree)
    <3>1. PICK c \in S : c \notin DOMAIN FirstTree
      BY <2>2
    <3>2. category[c].parent = NoCat
      BY <3>1 DEF TreeInit
    <3>3. QED
      BY <3>2, CatAssumption
  <2>3. QED
    BY <2>1, <2>2
<1>3. FreshUnused
  BY FirstTreeAssumption, CatAssumption DEF TreeInit, FreshUnused, Idle
<1>4. WalkedMoves
  BY DEF TreeInit, WalkedMoves, Walking
<1>5. QED
  BY <1>1, <1>2, <1>3, <1>4 DEF TreeInv

LEMMA TreeInvStep == TreeInv /\ [TreeNext]_treeVars => TreeInv'
<1> SUFFICES ASSUME TreeInv, [TreeNext]_treeVars PROVE TreeInv'
  OBVIOUS
<1>1. CASE UNCHANGED treeVars
  BY <1>1 DEF treeVars, TreeInv, TreeShape, TreeStaysAcyclic, FreshUnused, WalkedMoves,
              Walking, Parents
<1>2. ASSUME NEW t \in Tx,
             \/ \E c \in Cat, to \in MaybeCat : BeginMove(t, c, to)
             \/ \E c \in Cat, to \in MaybeCat : BeginCreate(t, c, to)
             \/ \E c \in Cat : BeginRemove(t, c)
      PROVE  TreeInv'
  BY <1>2, BeginsKeepTree
<1>3. ASSUME NEW t \in Tx, NEW p \in Product, NEW to \in MaybeCat, NEW b \in BOOLEAN,
             BeginProduct(t, p, to, b)
      PROVE  TreeInv'
  BY <1>3, BeginProductKeepsTree
<1>4. ASSUME NEW t \in Tx, LockMoved(t) \/ LockNextRow(t)
      PROVE  TreeInv'
  BY <1>4, NextStageKeepsTree
<1>5. ASSUME NEW t \in Tx, Reparent(t)
      PROVE  TreeInv'
  BY <1>5, ReparentKeepsTree
<1>6. ASSUME NEW t \in Tx, InsertCategory(t)
      PROVE  TreeInv'
  BY <1>6, InsertKeepsTree
<1>7. ASSUME NEW t \in Tx, Uploaded(t)
      PROVE  TreeInv'
  BY <1>7, UploadedKeepsTree
<1>8. ASSUME NEW t \in Tx, RemoveRow(t) \/ WriteProduct(t)
      PROVE  TreeInv'
  BY <1>8, OtherRecountsKeepTree
<1>9. ASSUME NEW t \in Tx, Commit(t)
      PROVE  TreeInv'
  BY <1>9, CommitKeepsTree
<1>10. ASSUME NEW t \in Tx, Abort(t)
       PROVE  TreeInv'
  BY <1>10, EndKeepsTree DEF Abort
<1>11. QED
  BY <1>1, <1>2, <1>3, <1>4, <1>5, <1>6, <1>7, <1>8, <1>9, <1>10 DEF TreeNext

\* However requests interleave, the walk up from any category ends at a root:
\* two moves that each see a tree without the other's cannot close a circle
\* together (category.service.ts assertNoCycle, and the trigger behind it).
THEOREM TreeAlwaysAcyclic == TreeSpec => []TreeStaysAcyclic
<1>1. TreeInv => TreeStaysAcyclic
  BY DEF TreeInv
<1>2. QED
  BY TreeInvInit, TreeInvStep, <1>1, PTL DEF TreeSpec

-----------------------------------------------------------------------------
(* Nothing is stranded.  What a transaction files under a category while it *)
(* recounts, no transaction removes: the key lock of the one keeps out the  *)
(* other, whichever came first.                                             *)

Files(r)   == r.stage = "recount" /\ r.op # "remove" /\ r.to # NoCat
Removes(r) == r.stage = "recount" /\ r.op = "remove"

\* What a request says about its category does not change under way.
Consistent(r) ==
    /\ r.op \in {"move", "create", "remove"} => r.cat \in Cat /\ r.prod = NoProduct
    /\ r.op \in {"insert", "update", "delete"} => r.row.cat = r.to
    /\ r.stage = "locked" => r.op = "move"
    /\ r.stage = "upload" => r.op = "create"

Unreferenced(c) ==
    /\ \A d \in Cat : category[d].parent # c
    /\ \A p \in Product : product[p].cat # c

FilingInv ==
    /\ product \in [Product -> [cat : MaybeCat, sellable : BOOLEAN]]
    /\ NothingStranded
    /\ \A t \in Tx : request[t] # Idle => Consistent(request[t])
    /\ \A t \in Tx : Files(request[t]) => Live(request[t].to)
    /\ \A t, u \in Tx : Files(request[t]) /\ Removes(request[u]) =>
          request[t].to # request[u].cat
    /\ \A u \in Tx : Removes(request[u]) => Unreferenced(request[u].cat)

\* A step of t that writes no committed row.
LEMMA StepBesideTheTables ==
    ASSUME FilingInv, NEW t \in Tx, category' = category, product' = product,
           \A u \in Tx \ {t} : request'[u] = request[u],
           request'[t] # Idle => Consistent(request'[t]),
           Files(request'[t]) =>
               /\ Live(request'[t].to)
               /\ \A u \in Tx \ {t} : Removes(request[u]) => request'[t].to # request[u].cat,
           Removes(request'[t]) =>
               /\ Unreferenced(request'[t].cat)
               /\ \A u \in Tx \ {t} : Files(request[u]) => request[u].to # request'[t].cat
    PROVE  FilingInv'
<1>1. (product \in [Product -> [cat : MaybeCat, sellable : BOOLEAN]])' /\ NothingStranded'
  BY DEF FilingInv, NothingStranded, Live
<1>2. \A u \in Tx : request'[u] # Idle => Consistent(request'[u])
  BY DEF FilingInv
<1>3. \A u \in Tx : Files(request'[u]) => Live(request'[u].to)
  BY DEF FilingInv
<1>4. \A u, v \in Tx : Files(request'[u]) /\ Removes(request'[v]) =>
          request'[u].to # request'[v].cat
  <2> SUFFICES ASSUME NEW u \in Tx, NEW v \in Tx, Files(request'[u]), Removes(request'[v])
               PROVE  request'[u].to # request'[v].cat
    OBVIOUS
  <2>1. u # v
    BY DEF Files, Removes
  <2>2. CASE u = t
    BY <2>1, <2>2
  <2>3. CASE v = t
    BY <2>1, <2>3
  <2>4. CASE u # t /\ v # t
    BY <2>4 DEF FilingInv
  <2>5. QED
    BY <2>2, <2>3, <2>4
<1>5. \A u \in Tx : Removes(request'[u]) => Unreferenced(request'[u].cat)
  BY DEF FilingInv
<1>6. QED
  BY <1>1, <1>2, <1>3, <1>4, <1>5 DEF FilingInv, Files, Removes, Consistent, Live, Unreferenced

\* A step of t that neither files nor removes anything yet.
LEMMA EarlyStepKeepsFiling ==
    ASSUME FilingInv, NEW t \in Tx, category' = category, product' = product,
           \A u \in Tx \ {t} : request'[u] = request[u],
           request'[t] # Idle => Consistent(request'[t]),
           request'[t].stage # "recount"
    PROVE  FilingInv'
BY StepBesideTheTables DEF Files, Removes

LEMMA BeginsKeepFiling ==
    ASSUME TreeShape, FilingInv, NEW t \in Tx,
           \/ \E c \in Cat, to \in MaybeCat : BeginMove(t, c, to)
           \/ \E c \in Cat, to \in MaybeCat : BeginCreate(t, c, to)
           \/ \E c \in Cat : BeginRemove(t, c)
    PROVE  FilingInv'
<1>1. PICK op \in {"move", "create", "remove"}, c \in Cat, to \in MaybeCat :
          Begin(t, Fresh(op, c, to))
  BY CatAssumption DEF BeginMove, BeginCreate, BeginRemove, MaybeCat
<1> DEFINE r == Fresh(op, c, to)
<1>2. Consistent(r) /\ r.stage = "write"
  BY DEF Fresh, Consistent
<1> HIDE DEF r
<1>3. /\ category' = category /\ product' = product /\ request'[t] = r
      /\ \A u \in Tx \ {t} : request'[u] = request[u]
  BY <1>1 DEF Begin, TreeShape, r
<1>4. QED
  BY <1>2, <1>3, EarlyStepKeepsFiling

LEMMA BeginProductKeepsFiling ==
    ASSUME TreeShape, FilingInv, NEW t \in Tx, NEW p \in Product, NEW to \in MaybeCat,
           NEW b \in BOOLEAN, BeginProduct(t, p, to, b)
    PROVE  FilingInv'
<1>1. PICK op \in {"insert", "update", "delete"}, row \in {[cat |-> to, sellable |-> b], NoRow} :
          Begin(t, ProductRequest(op, p, row))
  BY DEF BeginProduct
<1> DEFINE r == ProductRequest(op, p, row)
<1>2. Consistent(r) /\ r.stage = "write"
  BY DEF ProductRequest, Fresh, Consistent
<1> HIDE DEF r
<1>3. /\ category' = category /\ product' = product /\ request'[t] = r
      /\ \A u \in Tx \ {t} : request'[u] = request[u]
  BY <1>1 DEF Begin, TreeShape, r
<1>4. QED
  BY <1>2, <1>3, EarlyStepKeepsFiling

\* Locking a row changes nothing a request says.
LEMMA LocksKeepFiling ==
    ASSUME TreeShape, FilingInv, NEW t \in Tx, LockMoved(t) \/ LockNextRow(t)
    PROVE  FilingInv'
<1> DEFINE r == request[t]  q == request'[t]
<1>1. r \in Request /\ r # Idle
  BY BusyRequest DEF TreeShape, LockMoved, LockNextRow, Idle, MaybeIdle
<1>2. Consistent(r)
  BY <1>1 DEF FilingInv
<1>3. CASE LockMoved(t)
  <2>1. q = [r EXCEPT !.stage = "locked"] /\ r.op = "move"
    BY <1>3 DEF LockMoved, TreeShape
  <2>2. /\ q.stage = "locked" /\ q.op = "move"
        /\ q.cat = r.cat /\ q.prod = r.prod
    BY <1>1, <2>1 DEF Request
  <2>3. Consistent(q)
    BY <1>2, <2>1, <2>2 DEF Consistent
  <2>4. QED
    BY <1>3, <2>2, <2>3, EarlyStepKeepsFiling DEF LockMoved, TreeShape
<1>4. CASE LockNextRow(t)
  <2>1. PICK c \in Cat : q = [r EXCEPT !.locks = r.locks \ {c}]
    BY <1>4 DEF LockNextRow, TreeShape
  <2>2. /\ q.stage = r.stage /\ q.op = r.op /\ q.cat = r.cat /\ q.to = r.to
        /\ q.prod = r.prod /\ q.row = r.row
    BY <1>1, <2>1 DEF Request
  <2>3. Consistent(q)
    BY <1>2, <2>2 DEF Consistent
  <2>4. /\ category' = category /\ product' = product
        /\ \A u \in Tx \ {t} : request'[u] = request[u]
    BY <1>4 DEF LockNextRow, TreeShape
  <2>5. Files(q) => Files(r)
    BY <2>2 DEF Files
  <2>6. Removes(q) => Removes(r)
    BY <2>2 DEF Removes
  <2>7. Files(q) => /\ Live(q.to)
                    /\ \A u \in Tx \ {t} : Removes(request[u]) => q.to # request[u].cat
    BY <2>2, <2>5 DEF FilingInv
  <2>8. Removes(q) => /\ Unreferenced(q.cat)
                      /\ \A u \in Tx \ {t} : Files(request[u]) => request[u].to # q.cat
    BY <2>2, <2>6 DEF FilingInv
  <2>9. QED
    BY <2>3, <2>4, <2>7, <2>8, StepBesideTheTables
<1>5. QED
  BY <1>3, <1>4

\* The recount of a statement that referred to its category, or removed one
\* that nobody referred to.
LEMMA RecountKeepsFiling ==
    ASSUME TreeShape, FilingInv, NEW t \in Tx,
           Reparent(t) \/ RemoveRow(t) \/ WriteProduct(t)
    PROVE  FilingInv'
<1> DEFINE r == request[t]  q == request'[t]
<1>1. r \in Request /\ r # Idle
  BY BusyRequest DEF TreeShape, Reparent, RemoveRow, WriteProduct, Idle, MaybeIdle
<1>2. /\ category' = category /\ product' = product
      /\ \E parents, products, seeds : request' = Recount(t, parents, products, seeds)
  BY DEF Reparent, RemoveRow, WriteProduct
<1>3. /\ q.stage = "recount" /\ q.op = r.op /\ q.cat = r.cat /\ q.to = r.to
      /\ q.prod = r.prod /\ q.row = r.row
      /\ \A u \in Tx \ {t} : request'[u] = request[u]
  BY <1>1, <1>2, RecountKeepsRequest
<1>4. Consistent(r)
  BY <1>1 DEF FilingInv
<1>5. Consistent(q)
  BY <1>3, <1>4 DEF Consistent
<1>6. Files(q) => References(t, r.to)
  BY <1>3 DEF Files, Reparent, RemoveRow, WriteProduct
<1>7. Files(q) => /\ Live(q.to)
                  /\ \A u \in Tx \ {t} : Removes(request[u]) => q.to # request[u].cat
  BY <1>3, <1>6 DEF Files, Removes, References, Removing, Others
<1>8. Removes(q) => RemoveRow(t)
  BY <1>3, <1>4 DEF Removes, Consistent, Reparent, WriteProduct
<1>9. Removes(q) => /\ Unreferenced(q.cat)
                    /\ \A u \in Tx \ {t} : Files(request[u]) => request[u].to # q.cat
  BY <1>3, <1>8 DEF RemoveRow, Unreferenced, KeyShared, Others, Files
<1>10. QED
  BY <1>2, <1>3, <1>5, <1>7, <1>9, StepBesideTheTables

LEMMA EndKeepsFiling ==
    ASSUME TreeShape, FilingInv, NEW t \in Tx, End(t), category' = category, product' = product
    PROVE  FilingInv'
<1>1. request'[t] = Idle /\ \A u \in Tx \ {t} : request'[u] = request[u]
  BY DEF End, TreeShape
<1>2. request'[t].stage # "recount"
  BY <1>1 DEF Idle
<1>3. QED
  BY <1>1, <1>2, EarlyStepKeepsFiling

LEMMA UploadedKeepsFiling ==
    ASSUME TreeShape, FilingInv, NEW t \in Tx, Uploaded(t)
    PROVE  FilingInv'
<1> DEFINE r == request[t]  q == request'[t]
<1>1. r \in Request /\ r # Idle /\ r.stage = "upload"
  BY BusyRequest DEF TreeShape, Uploaded, Idle, MaybeIdle
<1>2. Consistent(r) /\ r.op = "create"
  BY <1>1 DEF FilingInv, Consistent
<1>3. CASE End(t)
  BY <1>3, EndKeepsFiling DEF Uploaded
<1>4. CASE request' = [request EXCEPT ![t].stage = "write", ![t].op = "remove", ![t].to = NoCat]
  <2>1. /\ q = [r EXCEPT !.stage = "write", !.op = "remove", !.to = NoCat]
        /\ \A u \in Tx \ {t} : request'[u] = request[u]
    BY <1>4 DEF TreeShape
  <2>2. q.stage = "write" /\ q.op = "remove" /\ q.cat = r.cat /\ q.prod = r.prod
    BY <1>1, <2>1 DEF Request
  <2>3. Consistent(q)
    BY <1>2, <2>2 DEF Consistent
  <2>4. QED
    BY <2>1, <2>2, <2>3, EarlyStepKeepsFiling DEF Uploaded
<1>5. QED
  BY <1>3, <1>4 DEF Uploaded

\* A new category is filed under a live one, and nobody removes that.
LEMMA InsertKeepsFiling ==
    ASSUME TreeShape, FilingInv, NEW t \in Tx, InsertCategory(t)
    PROVE  FilingInv'
<1> DEFINE r == request[t]  q == request'[t]  c == r.cat  to == r.to
           LiveAfter(d) == d = NoCat \/ category'[d].life = "live"
<1>1. r \in Request /\ r # Idle
  BY BusyRequest DEF TreeShape, InsertCategory, Idle, MaybeIdle
<1>2. Consistent(r) /\ r.op = "create" /\ c \in Cat
  BY <1>1 DEF FilingInv, Consistent, InsertCategory
<1>3. /\ q = [r EXCEPT !.stage = "upload"]
      /\ \A u \in Tx \ {t} : request'[u] = request[u]
  BY DEF InsertCategory, TreeShape
<1>4. q.stage = "upload" /\ q.op = "create" /\ q.cat = c /\ q.prod = r.prod
  BY <1>1, <1>2, <1>3 DEF Request
<1>5. Consistent(q)
  BY <1>2, <1>3, <1>4 DEF Consistent
<1>6. /\ to # NoCat => Live(to)
      /\ \A u \in Tx \ {t} : Removes(request[u]) => request[u].cat # to
  BY <1>2, CatAssumption DEF InsertCategory, References, Removing, Others, Removes, FilingInv,
                             Consistent, Idle
<1>7. /\ product' = product
      /\ category' = [category EXCEPT ![c] = [life |-> "live", parent |-> to, count |-> 0]]
  BY DEF InsertCategory
<1>8. /\ category'[c].life = "live" /\ category'[c].parent = to
      /\ \A d \in Cat \ {c} : category'[d] = category[d]
  BY <1>2, <1>7 DEF TreeShape
<1>9. \A d \in Cat : Live(d) => Live(d)'
  BY <1>8 DEF Live
<1>10. NothingStranded'
  <2>1. \A d \in Cat : category'[d].parent = NoCat \/ Live(category'[d].parent)
    BY <1>6, <1>8 DEF FilingInv, NothingStranded
  <2>2. \A d \in Cat : category'[d].parent \in MaybeCat
    BY <1>1, <1>8 DEF TreeShape, CategoryRow, Request
  <2>3. \A d \in Cat : LiveAfter(category'[d].parent)
    BY <1>9, <2>1, <2>2 DEF MaybeCat, Live
  <2>4. \A p \in Product : LiveAfter(product'[p].cat)
    BY <1>7, <1>9 DEF FilingInv, NothingStranded, MaybeCat, Live
  <2>5. QED
    BY <1>7, <2>3, <2>4 DEF NothingStranded, Live
<1>11. \A u \in Tx : request'[u] # Idle => Consistent(request'[u])
  BY <1>3, <1>5 DEF FilingInv
<1>12. /\ \A u \in Tx : Files(request'[u]) => u # t /\ Files(request[u])
       /\ \A u \in Tx : Removes(request'[u]) => u # t /\ Removes(request[u])
  BY <1>3, <1>4 DEF Files, Removes
<1>13. \A u \in Tx : Files(request'[u]) => Live(request[u].to) /\ request[u].to \in Cat
  <2>1. \A u \in Tx : Files(request'[u]) => request[u].to \in Cat
    BY <1>12 DEF Files, TreeShape, MaybeIdle, Request, Idle, MaybeCat
  <2>2. QED
    BY <1>12, <2>1 DEF FilingInv
<1>14. \A u \in Tx : Files(request'[u]) => category'[request'[u].to].life = "live"
  BY <1>3, <1>9, <1>12, <1>13 DEF Live
<1>15. \A u, v \in Tx : Files(request'[u]) /\ Removes(request'[v]) =>
          request'[u].to # request'[v].cat
  BY <1>3, <1>12 DEF FilingInv
<1>16. \A u \in Tx : Removes(request'[u]) =>
          /\ \A d \in Cat : category'[d].parent # request'[u].cat
          /\ \A p \in Product : product'[p].cat # request'[u].cat
  BY <1>3, <1>6, <1>7, <1>8, <1>12 DEF FilingInv, Unreferenced
<1>17. QED
  BY <1>7, <1>10, <1>11, <1>14, <1>15, <1>16
     DEF FilingInv, Files, Removes, Consistent, Live, Unreferenced

LEMMA CommitKeepsFiling ==
    ASSUME TreeShape, FilingInv, NEW t \in Tx, Commit(t)
    PROVE  FilingInv'
<1> DEFINE r == request[t]
           LiveAfter(d) == d = NoCat \/ category'[d].life = "live"
<1>1. r \in Request /\ r # Idle /\ r.stage = "recount"
  BY BusyRequest DEF TreeShape, Commit, Idle, MaybeIdle
<1>2. Consistent(r)
  BY <1>1 DEF FilingInv
<1>3. request'[t] = Idle /\ \A u \in Tx \ {t} : request'[u] = request[u]
  BY DEF TreeShape, Commit, End
<1>4. /\ \A u \in Tx : Files(request'[u]) => u # t /\ Files(request[u])
      /\ \A u \in Tx : Removes(request'[u]) => u # t /\ Removes(request[u])
  BY <1>3 DEF Files, Removes, Idle
<1>5. ASSUME NEW u \in Tx, Removes(request[u])
      PROVE  request[u].cat \in Cat
  <2>1. request[u] # Idle
    BY <1>5 DEF Removes, Idle
  <2>2. QED
    BY <1>5, <2>1 DEF FilingInv, Consistent, Removes
\* Where the rows point afterwards.
<1>6. \A c \in Cat :
         /\ category'[c].life = IF Removes(r) /\ r.cat = c THEN "gone" ELSE category[c].life
         /\ category'[c].parent \in {NoCat, category[c].parent}
               \cup (IF r.op = "move" THEN {r.to} ELSE {})
  <2> SUFFICES ASSUME NEW c \in Cat
               PROVE  /\ category'[c].life = IF Removes(r) /\ r.cat = c
                                             THEN "gone" ELSE category[c].life
                      /\ category'[c].parent \in {NoCat, category[c].parent}
                            \cup (IF r.op = "move" THEN {r.to} ELSE {})
    OBVIOUS
  <2>1. category'[c] = RowAfter(t, c)
    BY DEF Commit
  <2>2. category[c] \in CategoryRow
    BY DEF TreeShape
  <2>3. QED
    BY <1>1, <2>1, <2>2 DEF RowAfter, Gone, CategoryRow, Removes
<1>7. /\ product' \in [Product -> [cat : MaybeCat, sellable : BOOLEAN]]
      /\ \A p \in Product :
            product'[p].cat = product[p].cat \/ (r.op # "remove" /\ product'[p].cat = r.to)
  <2>1. CASE r.prod = NoProduct
    BY <2>1 DEF Commit, FilingInv
  <2>2. CASE r.prod # NoProduct
    <3>1. r.prod \in Product /\ r.row \in [cat : MaybeCat, sellable : BOOLEAN]
      BY <1>1, <2>2 DEF Request
    <3>2. r.op \in {"insert", "update", "delete"} /\ r.row.cat = r.to
      BY <1>1, <1>2, <2>2 DEF Consistent, Request, Op
    <3>3. /\ Becomes(t) \in [cat : MaybeCat, sellable : BOOLEAN]
          /\ Becomes(t).cat \in {product[r.prod].cat, r.to}
      BY <3>1, <3>2 DEF Becomes, FilingInv
    <3>4. product' = [product EXCEPT ![r.prod] = Becomes(t)]
      BY <2>2 DEF Commit
    <3>5. QED
      BY <3>1, <3>2, <3>3, <3>4 DEF FilingInv
  <2>3. QED
    BY <2>1, <2>2
\* So whatever they point at was live, and nobody removes it.
<1>8. ASSUME NEW c \in Cat, Live(c), ~(Removes(r) /\ r.cat = c)
      PROVE  Live(c)'
  BY <1>6, <1>8 DEF Live
<1>9. ASSUME r.op # "remove", r.to # NoCat
      PROVE  /\ r.to \in Cat /\ Live(r.to)
             /\ \A u \in Tx : Removes(request[u]) => request[u].cat # r.to
  <2>1. Files(r)
    BY <1>1, <1>9 DEF Files
  <2>2. r.to \in Cat
    BY <1>1, <1>9 DEF Request, MaybeCat
  <2>3. QED
    BY <2>1, <2>2 DEF FilingInv
<1>10. ASSUME NEW c \in MaybeCat, c # NoCat,
              \/ \E d \in Cat : category[d].parent = c
              \/ \E p \in Product : product[p].cat = c
              \/ r.op # "remove" /\ r.to = c
       PROVE  /\ c \in Cat /\ Live(c)
              /\ \A u \in Tx : Removes(request[u]) => request[u].cat # c
  BY <1>9, <1>10 DEF FilingInv, NothingStranded, Unreferenced, MaybeCat
<1>11. ASSUME NEW c \in MaybeCat, c # NoCat,
              \/ \E d \in Cat : category'[d].parent = c
              \/ \E p \in Product : product'[p].cat = c
       PROVE  /\ c \in Cat /\ Live(c)'
              /\ \A u \in Tx : Removes(request[u]) => request[u].cat # c
  <2>1. \/ \E d \in Cat : category[d].parent = c
        \/ \E p \in Product : product[p].cat = c
        \/ r.op # "remove" /\ r.to = c
    BY <1>6, <1>7, <1>11
  <2>2. /\ c \in Cat /\ Live(c)
        /\ \A u \in Tx : Removes(request[u]) => request[u].cat # c
    BY <1>10, <1>11, <2>1
  <2>3. QED
    BY <1>8, <2>2
<1>12. \A d \in Cat : category'[d].parent \in MaybeCat
  BY <1>1, <1>6 DEF TreeShape, CategoryRow, Request, MaybeCat
<1>13. NothingStranded'
  <2>1. \A d \in Cat : LiveAfter(category'[d].parent)
    BY <1>11, <1>12 DEF Live
  <2>2. \A p \in Product : LiveAfter(product'[p].cat)
    BY <1>7, <1>11 DEF Live
  <2>3. QED
    BY <2>1, <2>2 DEF NothingStranded, Live
<1>14. \A u \in Tx : request'[u] # Idle => Consistent(request'[u])
  BY <1>3 DEF FilingInv
<1>15. \A u \in Tx : Files(request'[u]) => category'[request'[u].to].life = "live"
  <2> SUFFICES ASSUME NEW u \in Tx, Files(request'[u])
               PROVE  category'[request[u].to].life = "live"
    BY <1>3, <1>4
  <2>1. u # t /\ Files(request[u]) /\ Live(request[u].to)
    BY <1>4 DEF FilingInv
  <2>2. request[u].to \in Cat
    BY <2>1 DEF Files, TreeShape, MaybeIdle, Request, Idle, MaybeCat
  <2>3. ~(Removes(r) /\ r.cat = request[u].to)
    BY <2>1 DEF FilingInv
  <2>4. QED
    BY <1>8, <2>1, <2>2, <2>3 DEF Live
<1>16. \A u, v \in Tx : Files(request'[u]) /\ Removes(request'[v]) =>
          request'[u].to # request'[v].cat
  BY <1>3, <1>4 DEF FilingInv
<1>17. \A u \in Tx : Removes(request'[u]) =>
          /\ \A d \in Cat : category'[d].parent # request'[u].cat
          /\ \A p \in Product : product'[p].cat # request'[u].cat
  <2> SUFFICES ASSUME NEW u \in Tx, Removes(request'[u])
               PROVE  /\ \A d \in Cat : category'[d].parent # request[u].cat
                      /\ \A p \in Product : product'[p].cat # request[u].cat
    BY <1>3, <1>4
  <2>1. request[u].cat \in Cat /\ Removes(request[u]) /\ request[u].cat # NoCat
    BY <1>4, <1>5, CatAssumption
  <2>2. QED
    BY <1>11, <2>1 DEF MaybeCat
<1>18. QED
  BY <1>7, <1>13, <1>14, <1>15, <1>16, <1>17
     DEF FilingInv, Files, Removes, Consistent, Live, Unreferenced

LEMMA FilingInvInit == TreeInit => FilingInv
<1> SUFFICES ASSUME TreeInit PROVE FilingInv
  OBVIOUS
<1>1. product \in [Product -> [cat : MaybeCat, sellable : BOOLEAN]]
  BY DEF TreeInit, NoRow, MaybeCat
<1>2. NothingStranded
  BY FirstTreeAssumption, CatAssumption DEF TreeInit, NothingStranded, Live, NoRow
<1>3. \A t \in Tx : request[t] = Idle /\ request[t].stage # "recount"
  BY DEF TreeInit, Idle
<1>4. QED
  BY <1>1, <1>2, <1>3 DEF FilingInv, Files, Removes

LEMMA FilingInvStep == TreeShape /\ FilingInv /\ [TreeNext]_treeVars => FilingInv'
<1> SUFFICES ASSUME TreeShape, FilingInv, [TreeNext]_treeVars PROVE FilingInv'
  OBVIOUS
<1>1. CASE UNCHANGED treeVars
  BY <1>1 DEF treeVars, FilingInv, NothingStranded, Live, Files, Removes, Consistent, Unreferenced
<1>2. ASSUME NEW t \in Tx,
             \/ \E c \in Cat, to \in MaybeCat : BeginMove(t, c, to)
             \/ \E c \in Cat, to \in MaybeCat : BeginCreate(t, c, to)
             \/ \E c \in Cat : BeginRemove(t, c)
      PROVE  FilingInv'
  BY <1>2, BeginsKeepFiling
<1>3. ASSUME NEW t \in Tx, NEW p \in Product, NEW to \in MaybeCat, NEW b \in BOOLEAN,
             BeginProduct(t, p, to, b)
      PROVE  FilingInv'
  BY <1>3, BeginProductKeepsFiling
<1>4. ASSUME NEW t \in Tx, LockMoved(t) \/ LockNextRow(t)
      PROVE  FilingInv'
  BY <1>4, LocksKeepFiling
<1>5. ASSUME NEW t \in Tx, Reparent(t) \/ RemoveRow(t) \/ WriteProduct(t)
      PROVE  FilingInv'
  BY <1>5, RecountKeepsFiling
<1>6. ASSUME NEW t \in Tx, InsertCategory(t)
      PROVE  FilingInv'
  BY <1>6, InsertKeepsFiling
<1>7. ASSUME NEW t \in Tx, Uploaded(t)
      PROVE  FilingInv'
  BY <1>7, UploadedKeepsFiling
<1>8. ASSUME NEW t \in Tx, Commit(t)
      PROVE  FilingInv'
  BY <1>8, CommitKeepsFiling
<1>9. ASSUME NEW t \in Tx, Abort(t)
      PROVE  FilingInv'
  BY <1>9, EndKeepsFiling DEF Abort
<1>10. QED
  BY <1>1, <1>2, <1>3, <1>4, <1>5, <1>6, <1>7, <1>8, <1>9 DEF TreeNext

\* No category and no product is left under a deleted category: deleteCategory
\* counted both before its DELETE, and what was filed since, or is being filed
\* in a transaction still open, keeps the row (the foreign keys on parentId and
\* categoryId, and the key locks their checks take).
THEOREM NothingIsStranded == TreeSpec => []NothingStranded
<1>1. TreeInv => TreeShape
  BY DEF TreeInv
<1>2. FilingInv => NothingStranded
  BY DEF FilingInv
<1>3. QED
  BY TreeInvInit, TreeInvStep, FilingInvInit, FilingInvStep, <1>1, <1>2, PTL DEF TreeSpec

-----------------------------------------------------------------------------
(* Who waits for whom.  A request that is not moving or removing a category *)
(* locks rows in ascending order only, so the row it waits for lies above   *)
(* every row it holds; along a circle of waits these rows would climb       *)
(* without end.                                                             *)

Ascends(r, c) ==
    \/ r.op \in {"move", "remove"}
    \/ r.stage = "recount" /\ \A d \in r.locks : c < d

LockInv ==
    /\ categoryHolder \in [Cat -> Tx \cup {NoTx}]
    /\ \A c \in Cat, t \in Tx : categoryHolder[c] = t =>
          request[t] # Idle /\ Ascends(request[t], c)

\* A step of t that takes no row from another transaction.
LEMMA StepOfOneHolder ==
    ASSUME LockInv, NEW t \in Tx, categoryHolder' \in [Cat -> Tx \cup {NoTx}],
           \A u \in Tx \ {t} : request'[u] = request[u],
           \A c \in Cat : categoryHolder'[c] \in {categoryHolder[c], t, NoTx},
           \A c \in Cat : categoryHolder'[c] = t =>
               request'[t] # Idle /\ Ascends(request'[t], c)
    PROVE  LockInv'
<1> SUFFICES ASSUME NEW c \in Cat, NEW u \in Tx, categoryHolder'[c] = u, u # t
             PROVE  request'[u] # Idle /\ Ascends(request'[u], c)
  BY DEF LockInv, Ascends
<1>1. categoryHolder[c] = u
  BY NoTxAssumption
<1>2. QED
  BY <1>1 DEF LockInv

LEMMA EndKeepsLocks ==
    ASSUME TreeShape, LockInv, NEW t \in Tx, End(t)
    PROVE  LockInv'
<1>1. \A u \in Tx \ {t} : request'[u] = request[u]
  BY DEF End, TreeShape
<1>2. categoryHolder' = [c \in Cat |-> IF categoryHolder[c] = t THEN NoTx ELSE categoryHolder[c]]
  BY DEF End, Unlock, LockInv
<1>3. /\ categoryHolder' \in [Cat -> Tx \cup {NoTx}]
      /\ \A c \in Cat : categoryHolder'[c] \in {categoryHolder[c], NoTx} \ {t}
  BY <1>2, NoTxAssumption DEF LockInv
<1>4. QED
  BY <1>1, <1>3, StepOfOneHolder

\* A step that locks nothing, by a request that held nothing or moves or
\* removes a category.
LEMMA SameHoldersKeepLocks ==
    ASSUME LockInv, NEW t \in Tx, categoryHolder' = categoryHolder,
           \A u \in Tx \ {t} : request'[u] = request[u],
           \/ \A c \in Cat : categoryHolder[c] # t
           \/ request'[t] # Idle /\ request'[t].op \in {"move", "remove"}
    PROVE  LockInv'
BY StepOfOneHolder DEF LockInv, Ascends

LEMMA BeginsKeepLocks ==
    ASSUME TreeShape, LockInv, NEW t \in Tx,
           \/ \E c \in Cat, to \in MaybeCat : BeginMove(t, c, to)
           \/ \E c \in Cat, to \in MaybeCat : BeginCreate(t, c, to)
           \/ \E c \in Cat : BeginRemove(t, c)
           \/ \E p \in Product, to \in MaybeCat, b \in BOOLEAN : BeginProduct(t, p, to, b)
    PROVE  LockInv'
<1>1. PICK r : Begin(t, r)
  BY DEF BeginMove, BeginCreate, BeginRemove, BeginProduct
<1>2. /\ categoryHolder' = categoryHolder /\ request[t] = Idle
      /\ \A u \in Tx \ {t} : request'[u] = request[u]
  BY <1>1 DEF Begin, TreeShape
<1>3. \A c \in Cat : categoryHolder[c] # t
  BY <1>2 DEF LockInv
<1>4. QED
  BY <1>2, <1>3, SameHoldersKeepLocks

LEMMA LockNextKeepsLocks ==
    ASSUME TreeShape, LockInv, NEW t \in Tx, LockNextRow(t)
    PROVE  LockInv'
<1> DEFINE r == request[t]  q == request'[t]
<1>1. r \in Request /\ r.stage = "recount"
  BY BusyRequest DEF TreeShape, LockNextRow, Idle, MaybeIdle
<1>2. PICK c \in Cat :
         /\ IsNext(c, r.locks)
         /\ categoryHolder' = IF Live(c) THEN Lock(categoryHolder, t, c) ELSE categoryHolder
         /\ request' = [request EXCEPT ![t].locks = r.locks \ {c}]
  BY DEF LockNextRow
<1>3. /\ q = [r EXCEPT !.locks = r.locks \ {c}]
      /\ \A u \in Tx \ {t} : request'[u] = request[u]
  BY <1>2 DEF TreeShape
<1>4. q.stage = "recount" /\ q.op = r.op /\ q.locks = r.locks \ {c}
  BY <1>1, <1>3 DEF Request
<1>5. q # Idle
  BY <1>4 DEF Idle
<1>6. /\ categoryHolder' \in [Cat -> Tx \cup {NoTx}]
      /\ \A d \in Cat : categoryHolder'[d] = categoryHolder[d] \/ (d = c /\ categoryHolder'[d] = t)
  BY <1>2 DEF Lock, LockInv
<1>7. \A d \in q.locks : c < d
  <2>1. r.locks \subseteq Nat /\ c \in Nat
    BY <1>1, CatAssumption DEF Request
  <2>2. QED
    BY <1>2, <1>4, <2>1 DEF IsNext
<1>8. \A d \in Cat : categoryHolder[d] = t => Ascends(q, d)
  BY <1>4 DEF LockInv, Ascends
<1>9. \A d \in Cat : categoryHolder'[d] = t => Ascends(q, d)
  BY <1>4, <1>6, <1>7, <1>8 DEF Ascends
<1>10. QED
  BY <1>3, <1>5, <1>6, <1>9, StepOfOneHolder

LEMMA LockMovedKeepsLocks ==
    ASSUME TreeShape, LockInv, NEW t \in Tx, LockMoved(t)
    PROVE  LockInv'
<1> DEFINE r == request[t]  q == request'[t]  c == r.cat
<1>1. r \in Request
  BY BusyRequest DEF TreeShape, LockMoved, Idle, MaybeIdle
<1>2. /\ q = [r EXCEPT !.stage = "locked"]
      /\ \A u \in Tx \ {t} : request'[u] = request[u]
  BY DEF LockMoved, TreeShape
<1>3. q.stage = "locked" /\ q.op = "move"
  BY <1>1, <1>2 DEF LockMoved, Request
<1>4. q # Idle
  BY <1>3 DEF Idle
<1>5. /\ categoryHolder' \in [Cat -> Tx \cup {NoTx}]
      /\ \A d \in Cat : categoryHolder'[d] \in {categoryHolder[d], t}
  BY DEF LockMoved, Lock, LockInv
<1>6. QED
  BY <1>2, <1>3, <1>4, <1>5, StepOfOneHolder DEF Ascends

LEMMA RecountKeepsLocks ==
    ASSUME TreeShape, FilingInv, LockInv, NEW t \in Tx,
           Reparent(t) \/ RemoveRow(t) \/ WriteProduct(t)
    PROVE  LockInv'
<1> DEFINE r == request[t]  q == request'[t]
<1>1. r \in Request /\ r # Idle
  BY BusyRequest DEF TreeShape, Reparent, RemoveRow, WriteProduct, Idle, MaybeIdle
<1>2. \E parents, products, seeds : request' = Recount(t, parents, products, seeds)
  BY DEF Reparent, RemoveRow, WriteProduct
<1>3. /\ q.stage = "recount" /\ q.op = r.op
      /\ \A u \in Tx \ {t} : request'[u] = request[u]
  BY <1>1, <1>2, RecountKeepsRequest
<1>4. q # Idle
  BY <1>3 DEF Idle
<1>5. CASE Reparent(t)
  <2>1. q.op = "move"
    BY <1>1, <1>3, <1>5 DEF FilingInv, Consistent, Reparent
  <2>2. QED
    BY <1>3, <1>4, <1>5, <2>1, SameHoldersKeepLocks DEF Reparent
<1>6. CASE RemoveRow(t)
  <2>1. q.op = "remove"
    BY <1>3, <1>6 DEF RemoveRow
  <2>2. /\ categoryHolder' \in [Cat -> Tx \cup {NoTx}]
        /\ \A d \in Cat : categoryHolder'[d] \in {categoryHolder[d], t}
    BY <1>6 DEF RemoveRow, Lock, LockInv
  <2>3. QED
    BY <1>3, <1>4, <2>1, <2>2, StepOfOneHolder DEF Ascends
<1>7. CASE WriteProduct(t)
  <2>1. \A c \in Cat : categoryHolder[c] # t
    BY <1>7 DEF WriteProduct, LockInv, Ascends
  <2>2. QED
    BY <1>3, <1>7, <2>1, SameHoldersKeepLocks DEF WriteProduct
<1>8. QED
  BY <1>5, <1>6, <1>7

LEMMA CreateKeepsLocks ==
    ASSUME TreeShape, FilingInv, LockInv, NEW t \in Tx, InsertCategory(t) \/ Uploaded(t)
    PROVE  LockInv'
<1>1. request[t] # Idle
  BY DEF InsertCategory, Uploaded, Idle
<1>2. request[t].stage \in {"write", "upload"} /\ request[t].op = "create"
  BY <1>1 DEF InsertCategory, Uploaded, FilingInv, Consistent
<1>3. \A c \in Cat : categoryHolder[c] # t
  BY <1>2 DEF LockInv, Ascends
<1>4. CASE End(t)
  BY <1>4, EndKeepsLocks
<1>5. CASE ~End(t)
  BY <1>3, <1>5, SameHoldersKeepLocks DEF InsertCategory, Uploaded, TreeShape
<1>6. QED
  BY <1>4, <1>5

LEMMA LockInvInit == TreeInit => LockInv
BY NoTxAssumption DEF TreeInit, LockInv

LEMMA LockInvStep == TreeShape /\ FilingInv /\ LockInv /\ [TreeNext]_treeVars => LockInv'
<1> SUFFICES ASSUME TreeShape, FilingInv, LockInv, [TreeNext]_treeVars PROVE LockInv'
  OBVIOUS
<1>1. CASE UNCHANGED treeVars
  BY <1>1 DEF treeVars, LockInv, Ascends
<1>2. ASSUME NEW t \in Tx,
             \/ \E c \in Cat, to \in MaybeCat : BeginMove(t, c, to)
             \/ \E c \in Cat, to \in MaybeCat : BeginCreate(t, c, to)
             \/ \E c \in Cat : BeginRemove(t, c)
             \/ \E p \in Product, to \in MaybeCat, b \in BOOLEAN : BeginProduct(t, p, to, b)
      PROVE  LockInv'
  BY <1>2, BeginsKeepLocks
<1>3. ASSUME NEW t \in Tx, LockMoved(t)
      PROVE  LockInv'
  BY <1>3, LockMovedKeepsLocks
<1>4. ASSUME NEW t \in Tx, LockNextRow(t)
      PROVE  LockInv'
  BY <1>4, LockNextKeepsLocks
<1>5. ASSUME NEW t \in Tx, Reparent(t) \/ RemoveRow(t) \/ WriteProduct(t)
      PROVE  LockInv'
  BY <1>5, RecountKeepsLocks
<1>6. ASSUME NEW t \in Tx, InsertCategory(t) \/ Uploaded(t)
      PROVE  LockInv'
  BY <1>6, CreateKeepsLocks
<1>7. ASSUME NEW t \in Tx, Commit(t) \/ Abort(t)
      PROVE  LockInv'
  BY <1>7, EndKeepsLocks DEF Commit, Abort
<1>8. QED
  BY <1>1, <1>2, <1>3, <1>4, <1>5, <1>6, <1>7 DEF TreeNext

\* Of finitely many ranks one is the highest.
LEMMA HighestRank ==
    ASSUME NEW S, IsFiniteSet(S), S # {}, NEW rank \in [S -> Nat]
    PROVE  \E t \in S : \A u \in S : rank[u] <= rank[t]
<1> DEFINE Above(t) == {u \in S : rank[u] > rank[t]}
           All      == {Above(t) : t \in S}
<1>1. IsWellFoundedOn(StrictSubsetOrdering(S), SUBSET S)
  BY FS_StrictSubsetOrderingWellFounded, FS_FiniteSubsetsOfFinite
<1>2. All \subseteq SUBSET S /\ All # {}
  <2>1. \A t \in S : Above(t) \in SUBSET S
    OBVIOUS
  <2> HIDE DEF Above
  <2>2. QED
    BY <2>1
<1>3. \E X \in All : \A Y \in All : <<Y, X>> \notin StrictSubsetOrdering(S)
  <2> HIDE DEF All
  <2>1. QED
    BY <1>1, <1>2, WFMin
<1>4. PICK t \in S : \A u \in S : <<Above(u), Above(t)>> \notin StrictSubsetOrdering(S)
  BY <1>3
<1>5. ASSUME NEW u \in S, ~(rank[u] <= rank[t])
      PROVE  FALSE
  <2>1. u \in Above(t) /\ u \notin Above(u)
    BY <1>5
  <2>2. Above(u) \subseteq Above(t)
    BY <1>5
  <2>3. Above(u) \in SUBSET S /\ Above(t) \in SUBSET S
    OBVIOUS
  <2>4. <<Above(u), Above(t)>> \in StrictSubsetOrdering(S)
    <3> HIDE DEF Above
    <3>1. QED
      BY <2>1, <2>2, <2>3 DEF StrictSubsetOrdering
  <2>5. QED
    BY <1>4, <2>4
<1>6. QED
  BY <1>5

LEMMA NoCircleOfAscents ==
    ASSUME TreeShape, LockInv, IsFiniteSet(Tx)
    PROVE  WaitCirclesHoldAMove
<1> SUFFICES ASSUME NEW S \in SUBSET Tx, S # {},
                    \A t \in S : \E u \in S : WaitsFor(t, u),
                    \A t \in S : request[t].op \notin {"move", "remove"}
             PROVE  FALSE
  BY DEF WaitCirclesHoldAMove
<1> DEFINE rank == [t \in S |-> CHOOSE c \in Cat : IsNext(c, request[t].locks)]
<1>1. ASSUME NEW t \in S, NEW u \in S, WaitsFor(t, u)
      PROVE  /\ rank[t] \in Cat /\ rank[t] \in request[t].locks
             /\ categoryHolder[rank[t]] = u
  <2>1. request[t].locks \subseteq Cat
    <3>1. request[t] \in Request
      BY <1>1, BusyRequest DEF WaitsFor, TreeShape, MaybeIdle, Idle
    <3>2. QED
      BY <3>1 DEF Request
  <2>2. PICK c \in request[t].locks : IsNext(c, request[t].locks) /\ categoryHolder[c] = u
    BY <1>1 DEF WaitsFor
  <2>3. ASSUME NEW d \in Cat, IsNext(d, request[t].locks)
        PROVE  d = c
    <3>1. c <= d /\ d <= c
      BY <2>2, <2>3 DEF IsNext
    <3>2. c \in Nat /\ d \in Nat
      BY <2>1, CatAssumption
    <3>3. QED
      BY <3>1, <3>2
  <2>4. rank[t] = c
    BY <2>1, <2>2, <2>3
  <2>5. QED
    BY <2>1, <2>2, <2>4
<1>2. rank \in [S -> Nat]
  BY <1>1, CatAssumption
<1> HIDE DEF rank
<1>3. PICK t \in S : \A u \in S : rank[u] <= rank[t]
  BY <1>2, FS_Subset, HighestRank
<1>4. PICK u \in S : WaitsFor(t, u)
  OBVIOUS
<1>5. PICK v \in S : WaitsFor(u, v)
  OBVIOUS
<1>6. categoryHolder[rank[t]] = u /\ rank[t] \in Cat /\ rank[u] \in request[u].locks
  BY <1>1, <1>4, <1>5
<1>7. rank[t] < rank[u]
  BY <1>6 DEF LockInv, Ascends
<1>8. QED
  BY <1>2, <1>3, <1>7

\* Product writes and creations never wait for one another in a circle, over
\* any tree and however many of them the server runs at a time: the locking
\* pass of recompute_category_product_count takes its rows in ascending order.
THEOREM AscentsMeetNoCircle ==
    ASSUME IsFiniteSet(Tx)
    PROVE  TreeSpec => []WaitCirclesHoldAMove
<1>1. TreeInv => TreeShape
  BY DEF TreeInv
<1>2. TreeShape /\ LockInv => WaitCirclesHoldAMove
  BY NoCircleOfAscents
<1>3. QED
  BY TreeInvInit, TreeInvStep, FilingInvInit, FilingInvStep, LockInvInit, LockInvStep,
     <1>1, <1>2, PTL DEF TreeSpec

-----------------------------------------------------------------------------
(* Counts heal.  What a lone request counts, it counts in the tables as its *)
(* commit leaves them, since nobody writes between its statement and its    *)
(* commit; and above the rows it recounts, its write moved nobody's tally.  *)

\* The tables as t's commit leaves them, and the rows its write is felt at.
ParentsAfter(t) ==
    LET r == request[t] IN
    CASE r.op = "move"   -> [Parents EXCEPT ![r.cat] = r.to]
      [] r.op = "remove" -> [Parents EXCEPT ![r.cat] = NoCat]
      [] OTHER           -> Parents
ProductsAfter(t) ==
    LET r == request[t] IN
    IF r.prod = NoProduct THEN product ELSE [product EXCEPT ![r.prod] = Becomes(t)]
SeedsOf(t) ==
    LET r == request[t] IN
    CASE r.op = "move"   -> MoveSeeds(category[r.cat].parent, r.to)
      [] r.op = "remove" -> {category[r.cat].parent} \ {NoCat}
      [] OTHER           -> ProductSeeds(product[r.prod], Becomes(t))

\* The tallies a recount of these tables holds.
Tallies(parents, products, seeds) ==
    [c \in Cat |->
        IF /\ c \in Affected(parents, seeds)
           /\ Tally(parents, products, c) # category[c].count
        THEN Tally(parents, products, c) ELSE Kept]
CommitTallies(t) == Tallies(ParentsAfter(t), ProductsAfter(t), SeedsOf(t))

CountInv ==
    /\ alone \in [Tx -> BOOLEAN]
    /\ \A t \in Tx : alone[t] => /\ request[t] # Idle
                                 /\ \A u \in Others(t) : request[u] = Idle
    /\ \A t \in Tx : request[t] # Idle =>
          /\ request[t].op \in {"insert", "update", "delete"} => request[t].prod \in Product
          /\ request[t].op = "create" => request[t].stage # "recount"
    /\ \A c \in Cat : ~Live(c) => category[c].count = 0
    /\ \A t \in Tx : alone[t] /\ request[t].stage = "recount" =>
          request[t].tally = CommitTallies(t)
LEMMA AncestorsAreClosed ==
    ASSUME NEW parents \in [Cat -> MaybeCat], NEW x \in Cat
    PROVE  /\ Ancestors(parents, x) \in SUBSET Cat
           /\ x \in Ancestors(parents, x)
           /\ Closed(parents, Ancestors(parents, x))
<1>1. Ancestors(parents, x) \in SUBSET Cat /\ x \in Ancestors(parents, x)
  BY DEF Ancestors
<1>2. ASSUME NEW d \in Ancestors(parents, x), parents[d] # NoCat
      PROVE  parents[d] \in Ancestors(parents, x)
  <2>1. d \in Cat /\ parents[d] \in Cat
    BY <1>1, <1>2 DEF MaybeCat
  <2>2. ASSUME NEW S \in SUBSET Cat, x \in S, Closed(parents, S)
        PROVE  parents[d] \in S
    BY <1>2, <2>1, <2>2 DEF Ancestors, Closed
  <2>3. QED
    BY <2>1, <2>2 DEF Ancestors
<1>3. QED
  BY <1>1, <1>2 DEF Closed

LEMMA NotAbove ==
    ASSUME NEW parents, NEW x, NEW c, NEW S \in SUBSET Cat,
           x \in S, Closed(parents, S), c \notin S
    PROVE  c \notin Ancestors(parents, x)
BY DEF Ancestors

\* Who lies neither above the old parent of k nor above its new one is above
\* the same categories before and after.
LEMMA OnlySeedsFeelIt ==
    ASSUME NEW old \in [Cat -> MaybeCat], NEW k \in Cat, NEW to \in MaybeCat,
           NEW c \in Cat, NEW x \in Cat,
           \A s \in {old[k], to} \ {NoCat} : c \notin Ancestors([old EXCEPT ![k] = to], s)
    PROVE  c \in Ancestors(old, x) <=> c \in Ancestors([old EXCEPT ![k] = to], x)
<1> DEFINE new == [old EXCEPT ![k] = to]
           Over(s) == IF s = NoCat THEN {} ELSE Ancestors(new, s)
<1>1. new \in [Cat -> MaybeCat] /\ new[k] = to /\ old[k] \in MaybeCat
      /\ \A d \in Cat \ {k} : new[d] = old[d]
  OBVIOUS
<1> HIDE DEF new
<1>2. ASSUME NEW s \in {old[k], to}
      PROVE  /\ Over(s) \in SUBSET Cat /\ Closed(new, Over(s)) /\ c \notin Over(s)
             /\ s \in Over(s) \cup {NoCat}
  <2>1. CASE s = NoCat
    BY <2>1 DEF Closed
  <2>2. CASE s # NoCat
    <3>1. s \in Cat
      BY <1>1, <1>2, <2>2 DEF MaybeCat
    <3>2. c \notin Ancestors(new, s)
      BY <2>2 DEF new
    <3>3. QED
      BY <1>1, <2>2, <3>1, <3>2, AncestorsAreClosed
  <2>3. QED
    BY <2>1, <2>2
<1>3. ASSUME c \notin Ancestors(old, x)
      PROVE  c \notin Ancestors(new, x)
  <2>1. PICK S \in SUBSET Cat : x \in S /\ Closed(old, S) /\ c \notin S
    BY <1>3 DEF Ancestors
  <2>2. Closed(new, S \cup Over(to))
    BY <1>1, <1>2, <2>1 DEF Closed
  <2>3. S \cup Over(to) \in SUBSET Cat /\ x \in S \cup Over(to) /\ c \notin S \cup Over(to)
    BY <1>2, <2>1
  <2>4. QED
    BY <2>2, <2>3, NotAbove
<1>4. ASSUME c \notin Ancestors(new, x)
      PROVE  c \notin Ancestors(old, x)
  <2>1. PICK S \in SUBSET Cat : x \in S /\ Closed(new, S) /\ c \notin S
    BY <1>4 DEF Ancestors
  <2>2. Closed(old, S \cup Over(old[k]))
    BY <1>1, <1>2, <2>1 DEF Closed
  <2>3. S \cup Over(old[k]) \in SUBSET Cat /\ x \in S \cup Over(old[k])
        /\ c \notin S \cup Over(old[k])
    BY <1>2, <2>1
  <2>4. QED
    BY <2>2, <2>3, NotAbove
<1>5. QED
  BY <1>3, <1>4 DEF new

\* The rows a transaction does not recount keep their tally.
LEMMA UnaffectedKeepsTally ==
    ASSUME category \in [Cat -> CategoryRow],
           product \in [Product -> [cat : MaybeCat, sellable : BOOLEAN]],
           NEW t \in Tx, request[t] \in Request, Consistent(request[t]),
           request[t].op \in {"insert", "update", "delete"} => request[t].prod \in Product,
           request[t].op # "create",
           NEW c \in Cat, c \notin Affected(ParentsAfter(t), SeedsOf(t))
    PROVE  Tally(ParentsAfter(t), ProductsAfter(t), c) = Tally(Parents, product, c)
<1> DEFINE r == request[t]
           Has(parents, products, p) == Counted(products[p])
                                        /\ c \in Ancestors(parents, products[p].cat)
<1>1. SUFFICES \A p \in Product : Has(ParentsAfter(t), ProductsAfter(t), p)
                                  <=> Has(Parents, product, p)
  BY DEF Tally
<1>2. Parents \in [Cat -> MaybeCat]
  BY AcyclicParents
<1>3. \A s \in SeedsOf(t) : c \notin Ancestors(ParentsAfter(t), s)
  BY DEF Affected
<1>4. \A p \in Product : Counted(product[p]) => product[p].cat \in Cat
  BY DEF Counted, MaybeCat
<1>5. CASE r.op \in {"move", "remove"}
  <2> DEFINE to == IF r.op = "move" THEN r.to ELSE NoCat
  <2>1. r.cat \in Cat /\ r.prod = NoProduct /\ to \in MaybeCat
    BY <1>5 DEF Consistent, Request, MaybeCat
  <2>2. ParentsAfter(t) = [Parents EXCEPT ![r.cat] = to] /\ ProductsAfter(t) = product
    BY <1>5, <2>1 DEF ParentsAfter, ProductsAfter
  <2>3. Parents[r.cat] = category[r.cat].parent
    BY <2>1 DEF Parents
  <2> HIDE DEF to
  <2>4. CASE Parents[r.cat] = to
    <3>1. [Parents EXCEPT ![r.cat] = to] = Parents
      BY <1>2, <2>1, <2>4
    <3>2. QED
      BY <2>2, <3>1
  <2>5. CASE Parents[r.cat] # to
    <3>1. SeedsOf(t) = {Parents[r.cat], to} \ {NoCat}
      BY <1>5, <2>3, <2>5 DEF SeedsOf, MoveSeeds, to
    <3>2. \A s \in {Parents[r.cat], to} \ {NoCat} :
             c \notin Ancestors([Parents EXCEPT ![r.cat] = to], s)
      BY <1>3, <2>2, <3>1
    <3>3. \A x \in Cat : c \in Ancestors(Parents, x)
                         <=> c \in Ancestors([Parents EXCEPT ![r.cat] = to], x)
      BY <1>2, <2>1, <3>2, OnlySeedsFeelIt
    <3>4. QED
      BY <1>4, <2>2, <3>3
  <2>6. QED
    BY <2>4, <2>5
<1>6. CASE r.op \in {"insert", "update", "delete"}
  <2> DEFINE old == product[r.prod]  new == Becomes(t)
  <2>1. r.prod \in Product /\ r.prod # NoProduct
    BY <1>6, NoProductAssumption
  <2>2. ParentsAfter(t) = Parents /\ SeedsOf(t) = ProductSeeds(old, new)
        /\ ProductsAfter(t) = [product EXCEPT ![r.prod] = new]
    BY <1>6, <2>1 DEF ParentsAfter, ProductsAfter, SeedsOf
  <2> HIDE DEF new
  <2>3. \A p \in Product : ProductsAfter(t)[p] = IF p = r.prod THEN new ELSE product[p]
    BY <2>1, <2>2
  <2>4. (Counted(new) /\ c \in Ancestors(Parents, new.cat))
        <=> (Counted(old) /\ c \in Ancestors(Parents, old.cat))
    <3>1. CASE Counted(old) /\ Counted(new) /\ old.cat = new.cat
      BY <3>1
    <3>2. CASE ~(Counted(old) /\ Counted(new) /\ old.cat = new.cat)
      <4>1. \A row \in {old, new} : Counted(row) => row.cat \in SeedsOf(t)
        BY <2>2, <3>2 DEF ProductSeeds
      <4>2. QED
        BY <1>3, <2>2, <4>1
    <3>3. QED
      BY <3>1, <3>2
  <2>5. QED
    BY <2>2, <2>3, <2>4
<1>7. QED
  BY <1>5, <1>6 DEF Request, Op

\* Nothing is counted outside a closed set that every product is filed in.
LEMMA DeadTallyIsZero ==
    ASSUME NEW parents, NEW products \in [Product -> [cat : MaybeCat, sellable : BOOLEAN]],
           NEW S \in SUBSET Cat, Closed(parents, S),
           \A p \in Product : products[p].cat \in S \cup {NoCat},
           NEW c \in Cat \ S
    PROVE  Tally(parents, products, c) = 0
<1> DEFINE P == {p \in Product : /\ Counted(products[p])
                                 /\ c \in Ancestors(parents, products[p].cat)}
<1>1. ASSUME NEW p \in Product, Counted(products[p])
      PROVE  c \notin Ancestors(parents, products[p].cat)
  <2>1. products[p].cat \in S
    BY <1>1 DEF Counted
  <2>2. QED
    BY <2>1, NotAbove
<1>2. P = {}
  BY <1>1
<1>3. QED
  BY <1>2, FS_EmptySet DEF Tally

-----------------------------------------------------------------------------
(* Its invariant.                                                          *)

\* What a request says of itself, as far as CountInv goes.
Sane(r) == /\ r.op \in {"insert", "update", "delete"} => r.prod \in Product
           /\ r.op = "create" => r.stage # "recount"

\* A step of a request being served: whoever is alone is it.
LEMMA OnlyTheActor ==
    ASSUME CountInv, NEW t \in Tx, request[t] # Idle,
           alone' = alone \/ alone' = [alone EXCEPT ![t] = FALSE],
           \A u \in Tx \ {t} : request'[u] = request[u],
           request'[t] # Idle => Sane(request'[t]),
           alone'[t] => request'[t] # Idle,
           \A c \in Cat : category'[c].life # "live" => category'[c].count = 0,
           alone'[t] /\ request'[t].stage = "recount" =>
               request'[t].tally = CommitTallies(t)'
    PROVE  CountInv'
<1>1. alone' \in [Tx -> BOOLEAN] /\ \A u \in Tx : alone'[u] => alone[u]
  BY DEF CountInv
<1>2. \A u \in Tx : alone'[u] => u = t
  BY <1>1 DEF CountInv, Others
<1>3. \A u \in Tx : alone'[u] => /\ request'[u] # Idle
                                 /\ \A v \in Others(u) : request'[v] = Idle
  BY <1>1, <1>2 DEF CountInv, Others
<1>4. \A u \in Tx : request'[u] # Idle => Sane(request'[u])
  BY DEF CountInv, Sane
<1>5. \A u \in Tx : alone'[u] /\ request'[u].stage = "recount" =>
          request'[u].tally = CommitTallies(u)'
  BY <1>2
<1>6. QED
  BY <1>1, <1>3, <1>4, <1>5 DEF CountInv, Sane, Live, Others

LEMMA RecountTallies ==
    ASSUME TreeShape, NEW t \in Tx, request[t] \in Request,
           NEW parents, NEW products, NEW seeds,
           request' = Recount(t, parents, products, seeds)
    PROVE  request'[t].tally = Tallies(parents, products, seeds)
<1> DEFINE rows   == Affected(parents, seeds)
           counts == [c \in Cat |-> Tally(parents, products, c)]
           tally  == [c \in Cat |-> IF c \in rows /\ counts[c] # category[c].count
                                    THEN counts[c] ELSE Kept]
<1>1. tally = Tallies(parents, products, seeds)
  BY DEF Tallies
<1>2. request' = [request EXCEPT ![t].stage = "recount", ![t].locks = rows, ![t].tally = tally]
  BY DEF Recount
<1> HIDE DEF rows, counts, tally
<1>3. request'[t].tally = tally
  BY <1>2 DEF TreeShape, Request
<1>4. QED
  BY <1>1, <1>3

\* What t's commit leaves depends on what its request says and on the tables.
LEMMA SameCommit ==
    ASSUME NEW t \in Tx, category' = category, product' = product,
           request'[t].op = request[t].op, request'[t].cat = request[t].cat,
           request'[t].to = request[t].to, request'[t].prod = request[t].prod,
           request'[t].row = request[t].row
    PROVE  CommitTallies(t)' = CommitTallies(t)
<1>1. Becomes(t)' = Becomes(t) /\ Parents' = Parents
  BY DEF Becomes, Parents
<1>2. /\ ParentsAfter(t)' = ParentsAfter(t) /\ ProductsAfter(t)' = ProductsAfter(t)
      /\ SeedsOf(t)' = SeedsOf(t)
  BY <1>1 DEF ParentsAfter, ProductsAfter, SeedsOf
<1>3. QED
  BY <1>2 DEF CommitTallies, Tallies

LEMMA RecountsKeepCounts ==
    ASSUME TreeShape, FilingInv, CountInv, NEW t \in Tx,
           Reparent(t) \/ RemoveRow(t) \/ WriteProduct(t)
    PROVE  CountInv'
<1> DEFINE r == request[t]  q == request'[t]
<1>1. r \in Request /\ r # Idle
  BY BusyRequest DEF TreeShape, Reparent, RemoveRow, WriteProduct, Idle, MaybeIdle
<1>2. Consistent(r) /\ Sane(r)
  BY <1>1 DEF FilingInv, CountInv, Sane
<1>3. /\ category' = category /\ product' = product /\ alone' = alone
      /\ request' = Recount(t, ParentsAfter(t), ProductsAfter(t), SeedsOf(t))
      /\ r.op # "create"
  <2>1. CASE Reparent(t)
    BY <1>2, <2>1 DEF Reparent, Consistent, ParentsAfter, ProductsAfter, SeedsOf
  <2>2. CASE RemoveRow(t)
    BY <1>2, <2>2 DEF RemoveRow, Consistent, ParentsAfter, ProductsAfter, SeedsOf
  <2>3. CASE WriteProduct(t)
    BY <1>2, <2>3, NoProductAssumption
       DEF WriteProduct, Sane, ParentsAfter, ProductsAfter, SeedsOf
  <2>4. QED
    BY <2>1, <2>2, <2>3
<1>4. /\ q \in Request /\ q.stage = "recount" /\ q.op = r.op /\ q.cat = r.cat /\ q.to = r.to
      /\ q.prod = r.prod /\ q.row = r.row
      /\ \A u \in Tx \ {t} : request'[u] = request[u]
  BY <1>1, <1>3, RecountKeepsRequest
<1>5. q.tally = CommitTallies(t)
  BY <1>1, <1>3, RecountTallies DEF CommitTallies
<1>6. CommitTallies(t)' = CommitTallies(t)
  BY <1>3, <1>4, SameCommit
<1>7. q # Idle /\ Sane(q)
  BY <1>2, <1>3, <1>4 DEF Sane, Idle, Request
<1>8. \A c \in Cat : category'[c].life # "live" => category'[c].count = 0
  BY <1>3 DEF CountInv, Live
<1>9. QED
  BY <1>1, <1>3, <1>4, <1>5, <1>6, <1>7, <1>8, OnlyTheActor

LEMMA LocksKeepCounts ==
    ASSUME TreeShape, FilingInv, CountInv, NEW t \in Tx, LockMoved(t) \/ LockNextRow(t)
    PROVE  CountInv'
<1> DEFINE r == request[t]  q == request'[t]
<1>1. r \in Request /\ r # Idle
  BY BusyRequest DEF TreeShape, LockMoved, LockNextRow, Idle, MaybeIdle
<1>2. /\ category' = category /\ product' = product /\ alone' = alone
      /\ q # Idle /\ q.op = r.op /\ q.cat = r.cat /\ q.to = r.to
      /\ q.prod = r.prod /\ q.row = r.row /\ q.tally = r.tally
      /\ q.stage = "recount" => r.stage = "recount"
      /\ \A u \in Tx \ {t} : request'[u] = request[u]
  <2>1. CASE LockMoved(t)
    BY <1>1, <2>1 DEF LockMoved, TreeShape, MaybeIdle, Request, Stage, Idle
  <2>2. CASE LockNextRow(t)
    BY <1>1, <2>2 DEF LockNextRow, TreeShape, MaybeIdle, Request, Stage, Idle
  <2>3. QED
    BY <2>1, <2>2
<1>3. CommitTallies(t)' = CommitTallies(t)
  BY <1>2, SameCommit
<1>4. Sane(q)
  BY <1>1, <1>2 DEF CountInv, Sane
<1>5. alone'[t] /\ q.stage = "recount" => q.tally = CommitTallies(t)'
  BY <1>2, <1>3 DEF CountInv
<1>6. \A c \in Cat : category'[c].life # "live" => category'[c].count = 0
  BY <1>2 DEF CountInv, Live
<1>7. QED
  BY <1>1, <1>2, <1>4, <1>5, <1>6, OnlyTheActor
LEMMA BeginKeepsCounts ==
    ASSUME CountInv, NEW t \in Tx, NEW r \in Request, Begin(t, r), r.stage = "write", Sane(r),
           request \in [Tx -> MaybeIdle]
    PROVE  CountInv'
<1>1. /\ request' = [request EXCEPT ![t] = r] /\ request[t] = Idle /\ category' = category
      /\ alone' = [u \in Tx |-> IF u = t THEN \A v \in Others(t) : request[v] = Idle
                                ELSE alone[u] /\ request[u] = Idle]
  BY DEF Begin
<1>2. request'[t] = r /\ r # Idle /\ \A u \in Tx \ {t} : request'[u] = request[u]
  BY <1>1 DEF Idle, Request
<1>3. \A u \in Tx : alone'[u] => /\ u = t
                                 /\ \A v \in Others(t) : request'[v] = Idle
  BY <1>1, <1>2 DEF CountInv, Others
<1>4. alone' \in [Tx -> BOOLEAN]
  <2>1. \A u \in Tx \ {t} : (alone[u] /\ request[u] = Idle) = FALSE
    BY DEF CountInv
  <2>2. (\A v \in Others(t) : request[v] = Idle) \in BOOLEAN
    OBVIOUS
  <2>3. QED
    BY <1>1, <2>1, <2>2
<1>5. \A u \in Tx : request'[u] # Idle => Sane(request'[u])
  BY <1>2 DEF CountInv, Sane
<1>6. \A u \in Tx : ~(alone'[u] /\ request'[u].stage = "recount")
  BY <1>2, <1>3
<1>7. \A c \in Cat : category'[c].life # "live" => category'[c].count = 0
  BY <1>1 DEF CountInv, Live
<1>8. QED
  BY <1>2, <1>3, <1>4, <1>5, <1>6, <1>7 DEF CountInv, Sane, Live, Others

LEMMA BeginsKeepCounts ==
    ASSUME TreeShape, CountInv, NEW t \in Tx,
           \/ \E c \in Cat, to \in MaybeCat : BeginMove(t, c, to)
           \/ \E c \in Cat, to \in MaybeCat : BeginCreate(t, c, to)
           \/ \E c \in Cat : BeginRemove(t, c)
           \/ \E p \in Product, to \in MaybeCat, b \in BOOLEAN : BeginProduct(t, p, to, b)
    PROVE  CountInv'
<1>1. request \in [Tx -> MaybeIdle]
  BY DEF TreeShape
<1>2. ASSUME NEW op \in {"move", "create", "remove"}, NEW c \in Cat, NEW to \in MaybeCat,
             Begin(t, Fresh(op, c, to))
      PROVE  CountInv'
  <2>1. Fresh(op, c, to) \in Request /\ Fresh(op, c, to).stage = "write"
    BY FreshType DEF Op, MaybeCat
  <2>2. Sane(Fresh(op, c, to))
    BY DEF Fresh, Sane
  <2>3. QED
    BY <1>1, <1>2, <2>1, <2>2, BeginKeepsCounts
<1>3. ASSUME NEW op \in {"insert", "update", "delete"}, NEW p \in Product,
             NEW row \in [cat : MaybeCat, sellable : BOOLEAN],
             Begin(t, ProductRequest(op, p, row))
      PROVE  CountInv'
  <2>1. Fresh(op, NoCat, row.cat) \in Request /\ Fresh(op, NoCat, row.cat).stage = "write"
        /\ Fresh(op, NoCat, row.cat).op = op
    BY FreshType DEF Op, MaybeCat, Fresh
  <2>2. /\ ProductRequest(op, p, row) \in Request
        /\ ProductRequest(op, p, row).stage = "write"
        /\ ProductRequest(op, p, row).op = op /\ ProductRequest(op, p, row).prod = p
    BY <2>1 DEF ProductRequest, Request
  <2>3. Sane(ProductRequest(op, p, row))
    BY <2>2 DEF Sane
  <2>4. QED
    BY <1>1, <1>3, <2>2, <2>3, BeginKeepsCounts
<1>4. NoCat \in MaybeCat
  BY DEF MaybeCat
<1>5. ASSUME NEW p \in Product, NEW to \in MaybeCat, NEW b \in BOOLEAN,
             BeginProduct(t, p, to, b)
      PROVE  CountInv'
  <2>1. [cat |-> to, sellable |-> b] \in [cat : MaybeCat, sellable : BOOLEAN]
        /\ NoRow \in [cat : MaybeCat, sellable : BOOLEAN]
    BY DEF NoRow, MaybeCat
  <2>2. \E op \in {"insert", "update", "delete"}, row \in [cat : MaybeCat, sellable : BOOLEAN] :
           Begin(t, ProductRequest(op, p, row))
    BY <1>5, <2>1 DEF BeginProduct
  <2>3. QED
    BY <1>3, <2>2
<1>6. QED
  BY <1>2, <1>4, <1>5 DEF BeginMove, BeginCreate, BeginRemove

LEMMA EndKeepsCounts ==
    ASSUME CountInv, NEW t \in Tx, request[t] # Idle, request \in [Tx -> MaybeIdle], End(t),
           \A c \in Cat : category'[c].life # "live" => category'[c].count = 0
    PROVE  CountInv'
<1>1. request'[t] = Idle /\ \A u \in Tx \ {t} : request'[u] = request[u]
  BY DEF End
<1>2. alone' = [alone EXCEPT ![t] = FALSE] /\ ~alone'[t]
  BY DEF End, CountInv
<1>3. QED
  BY <1>1, <1>2, OnlyTheActor

LEMMA CreatesKeepCounts ==
    ASSUME TreeShape, FilingInv, CountInv, NEW t \in Tx, InsertCategory(t) \/ Uploaded(t)
    PROVE  CountInv'
<1> DEFINE r == request[t]  q == request'[t]
<1>1. r \in Request /\ r # Idle /\ request \in [Tx -> MaybeIdle]
  BY BusyRequest DEF TreeShape, InsertCategory, Uploaded, Idle, MaybeIdle
<1>2. Consistent(r)
  BY <1>1 DEF FilingInv
<1>3. CASE InsertCategory(t)
  <2>1. \A c \in Cat : category'[c].life # "live" => category'[c].count = 0
    BY <1>3 DEF InsertCategory, CountInv, Live, TreeShape
  <2>2. q.stage = "upload" /\ q.op = "create" /\ q # Idle
        /\ \A u \in Tx \ {t} : request'[u] = request[u]
    BY <1>1, <1>3 DEF InsertCategory, Request, Idle
  <2>3. Sane(q)
    BY <2>2 DEF Sane
  <2>4. QED
    BY <1>1, <1>3, <2>1, <2>2, <2>3, OnlyTheActor DEF InsertCategory
<1>4. CASE Uploaded(t)
  <2>1. \A c \in Cat : category'[c].life # "live" => category'[c].count = 0
    BY <1>4 DEF Uploaded, CountInv, Live
  <2>2. CASE End(t)
    BY <1>1, <2>1, <2>2, EndKeepsCounts
  <2>3. CASE ~End(t)
    <3>1. /\ q.stage = "write" /\ q.op = "remove" /\ q # Idle /\ alone' = alone
          /\ \A u \in Tx \ {t} : request'[u] = request[u]
      BY <1>1, <1>4, <2>3 DEF Uploaded, Request, Idle
    <3>2. Sane(q)
      BY <3>1 DEF Sane
    <3>3. QED
      BY <1>1, <2>1, <3>1, <3>2, OnlyTheActor
  <2>4. QED
    BY <2>2, <2>3
<1>5. QED
  BY <1>3, <1>4

LEMMA EndsKeepCounts ==
    ASSUME TreeShape, CountInv, NEW t \in Tx, Commit(t) \/ Abort(t)
    PROVE  CountInv'
<1>1. request[t] # Idle /\ request \in [Tx -> MaybeIdle] /\ End(t)
  BY DEF Commit, Abort, Idle, TreeShape
<1>2. \A c \in Cat : category'[c].life # "live" => category'[c].count = 0
  <2>1. CASE Abort(t)
    BY <2>1 DEF Abort, CountInv, Live
  <2>2. CASE Commit(t)
    <3> SUFFICES ASSUME NEW c \in Cat, category'[c].life # "live"
                 PROVE  category'[c].count = 0
      OBVIOUS
    <3>1. category'[c] = RowAfter(t, c) /\ category[c] \in CategoryRow
      BY <2>2 DEF Commit, TreeShape
    <3>2. CASE RowAfter(t, c) = Gone
      BY <3>1, <3>2 DEF Gone
    <3>3. CASE RowAfter(t, c) # Gone
      <4>1. category'[c].life = category[c].life
        BY <3>1, <3>3 DEF RowAfter, CategoryRow
      <4>2. ~Live(c) /\ category[c].count = 0
        BY <4>1 DEF Live, CountInv
      <4>3. QED
        BY <3>1, <3>3, <4>2 DEF RowAfter, CategoryRow
    <3>4. QED
      BY <3>2, <3>3
  <2>3. QED
    BY <2>1, <2>2
<1>3. QED
  BY <1>1, <1>2, EndKeepsCounts

LEMMA CountInvInit == TreeInit => CountInv
<1> SUFFICES ASSUME TreeInit PROVE CountInv
  OBVIOUS
<1>1. \A t \in Tx : request[t] = Idle /\ alone[t] = FALSE
  BY DEF TreeInit
<1>2. \A c \in Cat : category[c].count = 0
  BY DEF TreeInit
<1>3. alone \in [Tx -> BOOLEAN]
  BY DEF TreeInit
<1>4. QED
  BY <1>1, <1>2, <1>3 DEF CountInv

LEMMA CountInvStep == TreeShape /\ FilingInv /\ CountInv /\ [TreeNext]_treeVars => CountInv'
<1> SUFFICES ASSUME TreeShape, FilingInv, CountInv, [TreeNext]_treeVars PROVE CountInv'
  OBVIOUS
<1>1. CASE UNCHANGED treeVars
  <2>1. \A t \in Tx : CommitTallies(t)' = CommitTallies(t)
    BY <1>1, SameCommit DEF treeVars
  <2>2. QED
    BY <1>1, <2>1 DEF treeVars, CountInv, Live, Others
<1>2. ASSUME NEW t \in Tx,
             \/ \E c \in Cat, to \in MaybeCat : BeginMove(t, c, to)
             \/ \E c \in Cat, to \in MaybeCat : BeginCreate(t, c, to)
             \/ \E c \in Cat : BeginRemove(t, c)
             \/ \E p \in Product, to \in MaybeCat, b \in BOOLEAN : BeginProduct(t, p, to, b)
      PROVE  CountInv'
  BY <1>2, BeginsKeepCounts
<1>3. ASSUME NEW t \in Tx, LockMoved(t) \/ LockNextRow(t)
      PROVE  CountInv'
  BY <1>3, LocksKeepCounts
<1>4. ASSUME NEW t \in Tx, Reparent(t) \/ RemoveRow(t) \/ WriteProduct(t)
      PROVE  CountInv'
  BY <1>4, RecountsKeepCounts
<1>5. ASSUME NEW t \in Tx, InsertCategory(t) \/ Uploaded(t)
      PROVE  CountInv'
  BY <1>5, CreatesKeepCounts
<1>6. ASSUME NEW t \in Tx, Commit(t) \/ Abort(t)
      PROVE  CountInv'
  BY <1>6, EndsKeepCounts
<1>7. QED
  BY <1>1, <1>2, <1>3, <1>4, <1>5, <1>6 DEF TreeNext

\* The commit itself.
LEMMA LoneCommitHeals ==
    ASSUME TreeShape, FilingInv, FilingInv', TreeShape', CountInv, NEW t \in Tx, alone[t],
           Commit(t), NEW c \in Cat,
           Exact(c) \/ Tally(Parents, product, c) # Tally(Parents, product, c)'
    PROVE  Exact(c)'
<1> DEFINE r == request[t]
           rows == Affected(ParentsAfter(t), SeedsOf(t))
           n == Tally(ParentsAfter(t), ProductsAfter(t), c)
<1>1. r \in Request /\ r # Idle /\ r.stage = "recount"
  BY BusyRequest DEF TreeShape, Commit, Idle, MaybeIdle
<1>2. Consistent(r) /\ Sane(r) /\ r.op # "create" /\ r.tally = CommitTallies(t)
  BY <1>1 DEF FilingInv, CountInv, Sane
<1>3. Parents' = ParentsAfter(t) /\ product' = ProductsAfter(t)
  <2>1. \A d \in Cat : category'[d].parent = ParentsAfter(t)[d]
    <3> SUFFICES ASSUME NEW d \in Cat PROVE category'[d].parent = ParentsAfter(t)[d]
      OBVIOUS
    <3>1. category'[d] = RowAfter(t, d) /\ category[d] \in CategoryRow /\ Parents[d] = category[d].parent
      BY DEF Commit, TreeShape, Parents
    <3>2. r.op \in {"move", "remove"} => r.cat \in Cat
      BY <1>2 DEF Consistent
    <3>3. Parents \in [Cat -> MaybeCat]
      BY AcyclicParents DEF TreeShape
    <3>4. QED
      BY <3>1, <3>2, <3>3 DEF RowAfter, Gone, CategoryRow, ParentsAfter
  <2>2. ParentsAfter(t) = [d \in Cat |-> ParentsAfter(t)[d]]
    BY <1>2, AcyclicParents DEF ParentsAfter, Parents
  <2>3. QED
    BY <2>1, <2>2 DEF Parents, Commit, ProductsAfter
<1>4. CASE category'[c].life # "live"
  <2> DEFINE S == {d \in Cat : category'[d].life = "live"}
  <2>1. Tally(Parents, product, c)' = 0
    <3>1. /\ \A d \in Cat : Parents'[d] = category'[d].parent /\ category'[d].parent \in S \cup {NoCat}
          /\ \A p \in Product : product'[p].cat \in S \cup {NoCat}
      BY DEF FilingInv, NothingStranded, Live, TreeShape, CategoryRow, MaybeCat, Parents
    <3>2. product' \in [Product -> [cat : MaybeCat, sellable : BOOLEAN]]
      BY DEF FilingInv
    <3>3. Closed(Parents', S) /\ S \in SUBSET Cat /\ c \in Cat \ S
      BY <1>4, <3>1 DEF Closed
    <3> HIDE DEF S
    <3>4. QED
      BY <3>1, <3>2, <3>3, DeadTallyIsZero
  <2>2. CountInv'
    BY EndsKeepCounts
  <2>3. category'[c].count = 0
    BY <1>4, <2>2 DEF CountInv, Live
  <2>4. QED
    BY <2>1, <2>3 DEF Exact
<1>5. CASE category'[c].life = "live"
  <2>1. /\ Live(c)
        /\ category'[c].count = IF r.tally[c] = Kept THEN category[c].count ELSE r.tally[c]
    <3>1. category'[c] = RowAfter(t, c) /\ category[c] \in CategoryRow
      BY DEF Commit, TreeShape
    <3>2. RowAfter(t, c) # Gone
      BY <1>5, <3>1 DEF Gone
    <3>3. QED
      BY <1>5, <3>1, <3>2 DEF RowAfter, CategoryRow, Live
  <2>2. r.tally[c] = IF c \in rows /\ n # category[c].count THEN n ELSE Kept
    BY <1>2 DEF CommitTallies, Tallies
  <2>3. n \in Nat /\ n # Kept
    BY TallyIsNat, KeptAssumption
  <2>4. Tally(Parents, product, c)' = n
    BY <1>3
  <2>5. CASE c \in rows
    <3>1. category'[c].count = n
      BY <2>1, <2>2, <2>3, <2>5
    <3>2. QED
      BY <2>4, <3>1 DEF Exact
  <2>6. CASE c \notin rows
    <3>1. n = Tally(Parents, product, c)
      BY <1>1, <1>2, <2>6, UnaffectedKeepsTally DEF TreeShape, FilingInv, Sane
    <3>2. category'[c].count = category[c].count
      BY <2>1, <2>2, <2>6
    <3>3. QED
      BY <2>4, <3>1, <3>2 DEF Exact
  <2>7. QED
    BY <2>5, <2>6
<1>6. QED
  BY <1>4, <1>5

\* A count that drifted is put right by the next request that is alone and
\* moves its tally, and none that was right goes wrong by one: the recounts of
\* recompute_category_product_count cover the rows a write is felt at.
THEOREM CountsAlwaysHeal == TreeSpec => CountHeals
<1>1. TreeInv => TreeShape
  BY DEF TreeInv
<1>2. TreeShape /\ FilingInv /\ CountInv /\ TreeShape' /\ FilingInv' /\ [TreeNext]_treeVars =>
        [\A t \in Tx : alone[t] /\ Commit(t) => \A c \in Cat :
            Exact(c) \/ Tally(Parents, product, c) # Tally(Parents, product, c)' => Exact(c)']_treeVars
  BY LoneCommitHeals
<1>3. QED
  BY TreeInvInit, TreeInvStep, FilingInvInit, FilingInvStep, CountInvInit, CountInvStep,
     <1>1, <1>2, PTL DEF TreeSpec, CountHeals
=============================================================================
