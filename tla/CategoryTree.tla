---------------------------- MODULE CategoryTree ----------------------------
(***************************************************************************)
(* CategoryService and the two migrations that guard its tree: the cycle   *)
(* trigger with its advisory lock, and the triggers that keep each         *)
(* category's productCount, the number of sellable products filed under it *)
(* or below it.                                                            *)
(*                                                                         *)
(* Requests read and check in statements of their own; the UPDATE, INSERT  *)
(* or DELETE that follows runs its triggers in one transaction.  What a    *)
(* transaction has written stays in its request until it commits: nobody   *)
(* else can see it.  A category's status only decides which requests are   *)
(* refused (archiving writes nothing else), so it is left out, and any     *)
(* request may be refused.                                                 *)
(***************************************************************************)
EXTENDS RowLocks, Naturals, FiniteSets

CONSTANTS
    Cat,        \* category ids; ascending order is the order of row locks
    NoCat,      \* the parent of a root, the category of a missing product
    Product,
    NoProduct,
    Kept,       \* the tally of a count the recount leaves alone
    FirstTree   \* FirstTree[c]: the parent of category c, for those that exist

ASSUME CatAssumption == Cat \subseteq Nat /\ NoCat \notin Cat
ASSUME NoProductAssumption == NoProduct \notin Product
ASSUME ProductAssumption == IsFiniteSet(Product)
ASSUME KeptAssumption == Kept \notin Nat
ASSUME FirstTreeAssumption ==
    /\ DOMAIN FirstTree \subseteq Cat
    /\ \A c \in DOMAIN FirstTree : FirstTree[c] \in DOMAIN FirstTree \cup {NoCat}
    /\ \A S \in SUBSET DOMAIN FirstTree :
          S # {} => \E c \in S : FirstTree[c] \notin S

VARIABLES
    category,        \* category[c]: the committed row
    categoryHolder,  \* who locked it
    product,         \* product[p]: the committed row; its cat is NoCat if none
    productHolder,
    reparentLock,    \* pg_advisory_xact_lock('category_hierarchy_reparent')
    request,         \* request[t]: the request transaction t serves
    alone            \* alone[t]: no other request overlapped it so far

treeVars == <<category, categoryHolder, product, productHolder, reparentLock,
              request, alone>>

MaybeCat == Cat \cup {NoCat}

\* A row's id is used once: a category is fresh, then live, then gone.
CategoryRow == [life : {"fresh", "live", "gone"}, parent : MaybeCat, count : Nat]
NoRow       == [cat |-> NoCat, sellable |-> FALSE]
ProductRow  == [cat : Cat, sellable : BOOLEAN] \cup {NoRow}

Op    == {"move", "create", "remove", "insert", "update", "delete"}
Stage == {"write", "locked", "upload", "recount"}
Idle  == [stage |-> "idle"]

\* cat and to: the category moved, created or removed, and its new parent;
\* prod and row: the product written, and what it becomes.  tally holds the
\* counts a recount will store, locks the rows it still has to lock.
Request == [op : Op, stage : Stage, cat : MaybeCat, to : MaybeCat,
            prod : Product \cup {NoProduct}, row : [cat : MaybeCat, sellable : BOOLEAN],
            locks : SUBSET Cat, tally : [Cat -> Nat \cup {Kept}]]

TreeInit ==
    /\ category = [c \in Cat |->
          IF c \in DOMAIN FirstTree
          THEN [life |-> "live", parent |-> FirstTree[c], count |-> 0]
          ELSE [life |-> "fresh", parent |-> NoCat, count |-> 0]]
    /\ categoryHolder = [c \in Cat |-> NoTx]
    /\ product = [p \in Product |-> NoRow]
    /\ productHolder = [p \in Product |-> NoTx]
    /\ reparentLock = NoTx
    /\ request = [t \in Tx |-> Idle]
    /\ alone = [t \in Tx |-> FALSE]

-----------------------------------------------------------------------------
(* Walking the tree.                                                       *)

Parents == [c \in Cat |-> category[c].parent]
Live(c) == category[c].life = "live"

\* The sets that hold the parent of each of their members.
Closed(parents, S) == \A d \in S : parents[d] \in S \cup {NoCat}

\* findAncestorChain, and the recursive walk of both migrations: c and
\* everything above it, the least closed set c belongs to.
Ancestors(parents, c) ==
    {d \in Cat : \A S \in SUBSET Cat : c \in S /\ Closed(parents, S) => d \in S}

Counted(row) == row.cat # NoCat /\ row.sellable

\* What recompute_category_product_count counts for c.
Tally(parents, products, c) ==
    Cardinality({p \in Product : /\ Counted(products[p])
                                 /\ c \in Ancestors(parents, products[p].cat)})

\* The rows a recount may change: the seeds and everything above them.
Affected(parents, seeds) == UNION {Ancestors(parents, s) : s \in seeds}

-----------------------------------------------------------------------------
(* Requests.                                                               *)

Others(t) == Tx \ {t}

Fresh(op, c, to) == [op |-> op, stage |-> "write", cat |-> c, to |-> to,
    prod |-> NoProduct, row |-> NoRow, locks |-> {}, tally |-> [d \in Cat |-> Kept]]

Begin(t, r) ==
    /\ request[t] = Idle
    /\ request' = [request EXCEPT ![t] = r]
    /\ alone' = [u \in Tx |-> IF u = t THEN \A v \in Others(t) : request[v] = Idle
                              ELSE alone[u] /\ request[u] = Idle]
    /\ UNCHANGED <<category, categoryHolder, product, productHolder, reparentLock>>

\* updateCategory: the checks on the new parent, assertNoCycle among them.
BeginMove(t, c, to) ==
    /\ Live(c) /\ to # c
    /\ to # NoCat => Live(to) /\ c \notin Ancestors(Parents, to)
    /\ Begin(t, Fresh("move", c, to))

\* createCategory
BeginCreate(t, c, to) ==
    /\ category[c].life = "fresh"
    /\ \A u \in Tx : request[u] # Idle => request[u].cat # c
    /\ to # NoCat => Live(to)
    /\ Begin(t, Fresh("create", c, to))

\* deleteCategory: a category with children is refused and one with products
\* is archived; what is left is deleted.
BeginRemove(t, c) ==
    /\ Live(c)
    /\ \A d \in Cat : category[d].parent # c
    /\ \A p \in Product : product[p].cat # c
    /\ Begin(t, Fresh("remove", c, NoCat))

\* assertCategoryAssignableToProduct
Assignable(c) == Live(c) /\ category[c].parent # NoCat

ProductRequest(op, p, row) == [Fresh(op, NoCat, row.cat) EXCEPT !.prod = p, !.row = row]

\* createProduct, updateProduct with a category in its body (to) or without
\* (NoCat), softDeleteProduct (not sellable), hardDeleteProduct.
BeginProduct(t, p, to, sellable) ==
    /\ to # NoCat => Assignable(to)
    /\ \/ /\ product[p] = NoRow /\ to # NoCat
          /\ \A u \in Tx : request[u] # Idle => request[u].prod # p
          /\ Begin(t, ProductRequest("insert", p, [cat |-> to, sellable |-> sellable]))
       \/ /\ product[p] # NoRow
          /\ Begin(t, ProductRequest("update", p, [cat |-> to, sellable |-> sellable]))
       \/ /\ product[p] # NoRow /\ to = NoCat
          /\ Begin(t, ProductRequest("delete", p, NoRow))
-----------------------------------------------------------------------------
(* The recount, run by every write that moves a tally.                     *)

\* Its snapshot: the committed tables under the request's own write.
Recount(t, parents, products, seeds) ==
    LET rows == Affected(parents, seeds)
        counts == [c \in Cat |-> Tally(parents, products, c)]
    IN  [request EXCEPT
            ![t].stage = "recount",
            ![t].locks = rows,
            ![t].tally = [c \in Cat |-> IF c \in rows /\ counts[c] # category[c].count
                                        THEN counts[c] ELSE Kept]]

\* Mutant: the rows are locked in whatever order the plan visits them.
LockAnyRow(t) == \E c \in Cat :
    /\ request[t].stage = "recount" /\ c \in request[t].locks
    /\ Free(categoryHolder, t, c)
    /\ categoryHolder' = IF Live(c) THEN Lock(categoryHolder, t, c) ELSE categoryHolder
    /\ request' = [request EXCEPT ![t].locks = @ \ {c}]
    /\ UNCHANGED <<category, product, productHolder, reparentLock, alone>>

IsNext(c, locks) == c \in locks /\ \A d \in locks : c <= d

\* `locked`: FOR NO KEY UPDATE in ascending order; a row deleted meanwhile
\* drops out.
LockNextRow(t) == \E c \in Cat :
    /\ request[t].stage = "recount" /\ IsNext(c, request[t].locks)
    /\ Free(categoryHolder, t, c)
    /\ categoryHolder' = IF Live(c) THEN Lock(categoryHolder, t, c) ELSE categoryHolder
    /\ request' = [request EXCEPT ![t].locks = @ \ {c}]
    /\ UNCHANGED <<category, product, productHolder, reparentLock, alone>>

\* A foreign key check shares the key of the row it points at until its
\* transaction ends; a DELETE of that row waits for it, and the other way round.
KeyShared(t, c) == \E u \in Others(t) :
    request[u].stage = "recount" /\ request[u].op # "remove" /\ request[u].to = c
Removing(t, c) == \E u \in Others(t) :
    request[u].stage = "recount" /\ request[u].op = "remove" /\ request[u].cat = c
References(t, c) == c # NoCat => Live(c) /\ ~Removing(t, c)

-----------------------------------------------------------------------------
(* Writes to categories.                                                   *)

\* UPDATE categories SET "parentId": the row first, then its triggers.
LockMoved(t) ==
    /\ request[t].stage = "write" /\ request[t].op = "move"
    /\ Live(request[t].cat) /\ Free(categoryHolder, t, request[t].cat)
    /\ categoryHolder' = Lock(categoryHolder, t, request[t].cat)
    /\ request' = [request EXCEPT ![t].stage = "locked"]
    /\ UNCHANGED <<category, product, productHolder, reparentLock, alone>>

\* Mutant: the trigger walks the ancestry without the advisory lock.
WalkUnlocked(t) ==
    LET c == request[t].cat  to == request[t].to IN
    IF to = NoCat THEN reparentLock' = reparentLock
    ELSE /\ to # c /\ c \notin Ancestors(Parents, to)
         /\ reparentLock' = reparentLock

\* assert_category_hierarchy_acyclic: a new parent takes the advisory lock,
\* then walks up from it in a fresh snapshot.
Walk(t) ==
    LET c == request[t].cat  to == request[t].to IN
    IF to = NoCat THEN reparentLock' = reparentLock
    ELSE /\ reparentLock \in {NoTx, t}
         /\ to # c /\ c \notin Ancestors(Parents, to)
         /\ reparentLock' = t

\* Both ends of a move are seeds; a row saved under the same parent has none.
MoveSeeds(old, to) == IF old = to THEN {} ELSE {old, to} \ {NoCat}

Reparent(t) ==
    LET c == request[t].cat  to == request[t].to IN
    /\ request[t].stage = "locked"
    /\ Walk(t)
    /\ References(t, to)
    /\ request' = Recount(t, [Parents EXCEPT ![c] = to], product,
                          MoveSeeds(category[c].parent, to))
    /\ UNCHANGED <<category, categoryHolder, product, productHolder, alone>>

\* INSERT INTO categories, a transaction of its own; the images come after.
InsertCategory(t) ==
    LET c == request[t].cat  to == request[t].to IN
    /\ request[t].stage = "write" /\ request[t].op = "create"
    /\ category[c].life = "fresh"
    /\ References(t, to)
    /\ category' = [category EXCEPT ![c] = [life |-> "live", parent |-> to, count |-> 0]]
    /\ request' = [request EXCEPT ![t].stage = "upload"]
    /\ UNCHANGED <<categoryHolder, product, productHolder, reparentLock, alone>>

\* The request is answered; a transaction lets go of its locks.
End(t) ==
    /\ categoryHolder' = Unlock(categoryHolder, t)
    /\ productHolder' = Unlock(productHolder, t)
    /\ reparentLock' = IF reparentLock = t THEN NoTx ELSE reparentLock
    /\ request' = [request EXCEPT ![t] = Idle]
    /\ alone' = [alone EXCEPT ![t] = FALSE]

\* The uploads are done, or failed and the row is deleted again.
Uploaded(t) ==
    /\ request[t].stage = "upload"
    /\ \/ End(t)
       \/ /\ request' = [request EXCEPT ![t].stage = "write", ![t].op = "remove",
                                       ![t].to = NoCat]
          /\ UNCHANGED <<categoryHolder, productHolder, reparentLock, alone>>
    /\ UNCHANGED <<category, product>>

\* Mutant: the DELETE does not wait for rows being filed under the category.
RemoveUnshared(t) ==
    LET c == request[t].cat IN
    /\ request[t].stage = "write" /\ request[t].op = "remove"
    /\ Live(c) /\ Free(categoryHolder, t, c)
    /\ \A d \in Cat : category[d].parent # c
    /\ \A p \in Product : product[p].cat # c
    /\ categoryHolder' = Lock(categoryHolder, t, c)
    /\ request' = Recount(t, [Parents EXCEPT ![c] = NoCat], product,
                          {category[c].parent} \ {NoCat})
    /\ UNCHANGED <<category, product, productHolder, reparentLock, alone>>

\* DELETE FROM categories: NO ACTION from children, RESTRICT from products.
RemoveRow(t) ==
    LET c == request[t].cat IN
    /\ request[t].stage = "write" /\ request[t].op = "remove"
    /\ Live(c) /\ Free(categoryHolder, t, c) /\ ~KeyShared(t, c)
    /\ \A d \in Cat : category[d].parent # c
    /\ \A p \in Product : product[p].cat # c
    /\ categoryHolder' = Lock(categoryHolder, t, c)
    /\ request' = Recount(t, [Parents EXCEPT ![c] = NoCat], product,
                          {category[c].parent} \ {NoCat})
    /\ UNCHANGED <<category, product, productHolder, reparentLock, alone>>

-----------------------------------------------------------------------------
(* Writes to products.                                                     *)

\* The row a product request leaves: an update without a category keeps it.
Becomes(t) ==
    LET r == request[t] IN
    IF r.op = "update" /\ r.row.cat = NoCat
    THEN [r.row EXCEPT !.cat = product[r.prod].cat] ELSE r.row

\* Mutant: only the category a product joins is recounted.
NewSideOnly(old, new) ==
    IF Counted(old) /\ Counted(new) /\ old.cat = new.cat THEN {}
    ELSE {row.cat : row \in {r \in {new} : Counted(r)}}

\* sync_category_product_count_from_products: the sides that count are seeds,
\* unless nothing moved.
ProductSeeds(old, new) ==
    IF Counted(old) /\ Counted(new) /\ old.cat = new.cat THEN {}
    ELSE {row.cat : row \in {r \in {old, new} : Counted(r)}}

WriteProduct(t) ==
    LET p == request[t].prod IN
    /\ request[t].stage = "write" /\ request[t].op \in {"insert", "update", "delete"}
    /\ Free(productHolder, t, p)
    /\ request[t].op = "insert" <=> product[p] = NoRow
    /\ References(t, request[t].to)
    /\ productHolder' = Lock(productHolder, t, p)
    /\ request' = Recount(t, Parents, [product EXCEPT ![p] = Becomes(t)],
                          ProductSeeds(product[p], Becomes(t)))
    /\ UNCHANGED <<category, categoryHolder, product, reparentLock, alone>>

-----------------------------------------------------------------------------
(* The end of the transaction.                                             *)

Gone == [life |-> "gone", parent |-> NoCat, count |-> 0]

\* Category c once t has committed.
RowAfter(t, c) ==
    LET r == request[t] IN
    IF r.op = "remove" /\ r.cat = c THEN Gone
    ELSE [category[c] EXCEPT
             !.parent = IF r.op = "move" /\ r.cat = c THEN r.to ELSE @,
             !.count  = IF r.tally[c] = Kept \/ ~Live(c) THEN @ ELSE r.tally[c]]

\* The tallies are written under the locks, then everything commits.
Commit(t) ==
    /\ request[t].stage = "recount" /\ request[t].locks = {}
    /\ category' = [c \in Cat |-> RowAfter(t, c)]
    /\ product' = IF request[t].prod = NoProduct THEN product
                  ELSE [product EXCEPT ![request[t].prod] = Becomes(t)]
    /\ End(t)

\* A refusal, an error, a deadlock or a lost connection.
Abort(t) ==
    /\ request[t] # Idle
    /\ UNCHANGED <<category, product>>
    /\ End(t)

TreeNext == \E t \in Tx :
    \/ \E c \in Cat, to \in MaybeCat : BeginMove(t, c, to)
    \/ \E c \in Cat, to \in MaybeCat : BeginCreate(t, c, to)
    \/ \E c \in Cat : BeginRemove(t, c)
    \/ \E p \in Product, to \in MaybeCat, b \in BOOLEAN : BeginProduct(t, p, to, b)
    \/ LockMoved(t) \/ Reparent(t)
    \/ InsertCategory(t) \/ Uploaded(t) \/ RemoveRow(t)
    \/ WriteProduct(t)
    \/ LockNextRow(t)
    \/ Commit(t) \/ Abort(t)

TreeSpec == TreeInit /\ [][TreeNext]_treeVars

-----------------------------------------------------------------------------
\* The walk up from any category ends at a root: however moves, promotions,
\* creations and deletions race, no set of categories is closed under "has its
\* parent among us" (assert_category_hierarchy_acyclic under its lock).
TreeStaysAcyclic == \A S \in SUBSET Cat : S # {} => \E c \in S : category[c].parent \notin S

\* Nothing is left hanging: deleteCategory counted children and products
\* before its DELETE, and whatever was filed since still finds its category.
NothingStranded ==
    /\ \A c \in Cat : category[c].parent = NoCat \/ Live(category[c].parent)
    /\ \A p \in Product : product[p].cat = NoCat \/ Live(product[p].cat)

\* What t's next statement waits for: the row another transaction locked.
WaitsFor(t, u) ==
    /\ request[t].stage = "recount" /\ request[t].locks # {}
    /\ \E c \in request[t].locks :
          IsNext(c, request[t].locks) /\ categoryHolder[c] = u /\ u # t

\* Product writes never deadlock one another: whatever branches they recount,
\* a circle of transactions waiting for each other holds the move or removal of
\* a category (the ascending lock order of recompute_category_product_count).
WaitCirclesHoldAMove == \A S \in SUBSET Tx :
    /\ S # {}
    /\ \A t \in S : \E u \in S : WaitsFor(t, u)
    => \E t \in S : request[t].op \in {"move", "remove"}

Exact(c) == category[c].count = Tally(Parents, product, c)

\* productCount heals: a request nothing overlapped leaves right every count
\* that was right and every count whose tally it moved, whatever drift earlier
\* races left behind ("a full re-count is idempotent and self-healing").
CountHeals == [][\A t \in Tx : alone[t] /\ Commit(t) => \A c \in Cat :
    Exact(c) \/ Tally(Parents, product, c) # Tally(Parents, product, c)' => Exact(c)']_treeVars
=============================================================================
