----------------------------- MODULE StockBatches ---------------------------
(***************************************************************************)
(* The back office of InventoryService: addStock and removeStock, beside   *)
(* the sales that draw on the same `quantity` and know nothing of batches. *)
(*                                                                         *)
(* A batch is one delivery of one stock row.  Batches are numbered in the  *)
(* order they are created, which is the order findBatchesForProduct lists  *)
(* them in.  A request is one transaction over a list of items.            *)
(***************************************************************************)
EXTENDS RowLocks, Integers, SequencesExt

CONSTANTS
    Row,        \* products and variants that hold stock
    NoRow,      \* the row of a batch number nobody has drawn yet
    Cost,       \* what a delivery may cost per unit
    NoCost,     \* the cost of an item that is no delivery
    MaxBatch,   \* bound: batch numbers handed out in a run
    Opening,    \* Opening[r]: units of r that came with no batch
    Intakes,    \* the item lists addStock is called with
    Removals,   \* the item lists removeStock is called with
    Sales       \* the lines an order takes: one item each

Batch   == 1..MaxBatch
NoBatch == 0

\* `batch` is what a removal names (NoBatch: oldest first), `cost` what an
\* intake paid.
Item == [row : Row, amount : Nat \ {0}, batch : Nat, cost : Cost \cup {NoCost}]

ASSUME BatchAssumption == MaxBatch \in Nat /\ Opening \in [Row -> Nat] /\ NoRow \notin Row
ASSUME ItemAssumption  == Intakes \cup Removals \subseteq Seq(Item) /\ Sales \subseteq Item

VARIABLES
    stock, stockDraft, rowHolder,    \* the products' and variants' rows
    batch, batchDraft, batchHolder,  \* the batches' rows
    ledger,                          \* the committed movements, by what they name
    wrote,                           \* wrote[t]: the movements t has inserted
    lastBatch,                       \* the batches' id sequence
    desk                             \* desk[t]: the request t serves

stockTable == <<stock, stockDraft, rowHolder>>
batchTable == <<batch, batchDraft, batchHolder, lastBatch>>
batchVars  == <<stock, stockDraft, rowHolder, batch, batchDraft, batchHolder,
                ledger, wrote, lastBatch, desk>>

\* `basis`: the batches whose cost weighs in the row's costPrice.
StockRow == [quantity : Int, basis : SUBSET Batch]
BatchRow == [row : Row \cup {NoRow}, quantity : Nat, remaining : Int]
Unborn   == [row |-> NoRow, quantity |-> 0, remaining |-> 0]

NoMovements == [added |-> [b \in Batch |-> 0], drawn |-> [b \in Batch |-> 0],
                sold |-> [r \in Row |-> 0]]

\* A request and where it stands in its items: `touched` are the draws still
\* to be written for the first item, `seen` and `at` the row version and the
\* batch an intake goes on with.
Unread == [quantity |-> 0, basis |-> {}]
Idle == [op |-> "IDLE", stage |-> "NEXT", items |-> <<>>, touched |-> <<>>,
         seen |-> Unread, at |-> NoBatch]

BatchInit ==
    /\ stock = [r \in Row |-> [quantity |-> Opening[r], basis |-> {}]]
    /\ stockDraft = stock
    /\ rowHolder = [r \in Row |-> NoTx]
    /\ batch = [b \in Batch |-> Unborn]
    /\ batchDraft = batch
    /\ batchHolder = [b \in Batch |-> NoTx]
    /\ ledger = NoMovements
    /\ wrote = [t \in Tx |-> NoMovements]
    /\ lastBatch = 0
    /\ desk = [t \in Tx |-> Idle]

SeenStock(t)   == View(stock, stockDraft, rowHolder, t)
SeenBatches(t) == View(batch, batchDraft, batchHolder, t)
Current(t)     == Head(desk[t].items)

-----------------------------------------------------------------------------
Begin(t, op, items) ==
    /\ desk[t] = Idle
    /\ desk' = [desk EXCEPT ![t] = [Idle EXCEPT !.op = op, !.items = items]]
    /\ UNCHANGED <<stockTable, batchTable, ledger, wrote>>

Stands(t, op, stage) == desk[t].op = op /\ desk[t].stage = stage /\ desk[t].items # <<>>

\* The row of the current item gets a new version and the item is done.
WriteRow(t, version) ==
    LET r == Current(t).row IN
    /\ Free(rowHolder, t, r)
    /\ stockDraft' = [stockDraft EXCEPT ![r] = version]
    /\ rowHolder' = Lock(rowHolder, t, r)
    /\ desk' = [desk EXCEPT ![t] = [Idle EXCEPT !.op = desk[t].op, !.items = Tail(desk[t].items)]]
    /\ UNCHANGED <<stock, batchTable, ledger>>

\* `quantity: { increment: amount }` under the CHECK that it stays >= 0.
Shifted(version, amount) == [version EXCEPT !.quantity = @ + amount]

PassesCheck(version) == version.quantity >= 0

-----------------------------------------------------------------------------
(* addStock.                                                               *)

\* mergeAddStockItems: items of one row at one cost become the first of them.
SameIntake(i, j) == i.row = j.row /\ i.cost = j.cost

Merge(merged, i) ==
    IF \E k \in DOMAIN merged : SameIntake(merged[k], i)
    THEN [k \in DOMAIN merged |->
             IF SameIntake(merged[k], i) THEN [merged[k] EXCEPT !.amount = @ + i.amount] ELSE merged[k]]
    ELSE Append(merged, i)

Merged(items) ==
    LET loop[n \in 0..Len(items)] == IF n = 0 THEN <<>> ELSE Merge(loop[n - 1], items[n])
    IN  loop[Len(items)]

BeginAdd(t, items) == Begin(t, "ADD", Merged(items))

\* Mutant: the read for the cost average is not given the transaction.
ReadCommitted(t, r) == stock[r]

\* `findUniqueOrThrow` on the request's own transaction.
ReadForCost(t, r) == SeenStock(t)[r]

\* createBatch, then the read the cost average is computed from.
Receive(t) ==
    LET b == lastBatch + 1 IN
    /\ Stands(t, "ADD", "NEXT")
    /\ b \in Batch
    /\ lastBatch' = b
    /\ batchDraft' = [batchDraft EXCEPT ![b] = [row |-> Current(t).row, quantity |-> Current(t).amount,
                                                remaining |-> Current(t).amount]]
    /\ batchHolder' = Lock(batchHolder, t, b)
    /\ desk' = [desk EXCEPT ![t].stage = "WRITE", ![t].at = b,
                            ![t].seen = ReadForCost(t, Current(t).row)]
    /\ UNCHANGED <<stockTable, batch, ledger, wrote>>

\* weightedAverageCost: an empty row's cost has no weight.
Blended(seen, b) == IF seen.quantity = 0 THEN {b} ELSE seen.basis \cup {b}

\* Mutant: the quantity read for the cost average is written back with it.
StoreAbsolute(t) ==
    LET i == Current(t) IN
    /\ Stands(t, "ADD", "WRITE")
    /\ WriteRow(t, [quantity |-> desk[t].seen.quantity + i.amount,
                    basis |-> Blended(desk[t].seen, desk[t].at)])
    /\ wrote' = [wrote EXCEPT ![t].added[desk[t].at] = i.amount]

\* incrementProductQuantity or incrementVariantQuantity, then createMovement.
Store(t) ==
    LET i == Current(t) IN
    /\ Stands(t, "ADD", "WRITE")
    /\ WriteRow(t, [Shifted(stockDraft[i.row], i.amount)
                      EXCEPT !.basis = Blended(desk[t].seen, desk[t].at)])
    /\ wrote' = [wrote EXCEPT ![t].added[desk[t].at] = i.amount]

-----------------------------------------------------------------------------
(* removeStock.                                                            *)

\* validateRemoveStockItems.
Separable(items) ==
    \A m, n \in DOMAIN items : m # n /\ items[m].row = items[n].row =>
        /\ items[m].batch # NoBatch /\ items[n].batch # NoBatch
        /\ items[m].batch # items[n].batch

BeginRemove(t, items) == Separable(items) /\ Begin(t, "REMOVE", items)

Least(m, n) == IF m <= n THEN m ELSE n

Spill(batches, acc, b) ==
    LET drawn == Least(batches[b].remaining, acc.left) IN
    [left |-> acc.left - drawn,
     touched |-> Append(acc.touched, [batch |-> b, drawn |-> drawn,
                                      remaining |-> batches[b].remaining])]

Asked(amount) == [left |-> amount, touched |-> <<>>]

\* One round of the loop of resolveFifoBatches, over the batches of row r.
DrawFrom(batches, r, acc, b) ==
    IF batches[b].row # r \/ acc.left <= 0 \/ batches[b].remaining <= 0 THEN acc
    ELSE Spill(batches, acc, b)

\* Mutant: the list is sorted by createdAt the other way round.
NewestFirst(batches, r, amount) ==
    LET loop[b \in 1..(MaxBatch + 1)] ==
            IF b = MaxBatch + 1 THEN Asked(amount) ELSE DrawFrom(batches, r, loop[b + 1], b)
    IN  loop[1]

\* All of it, oldest batch first; it fails when `left` is not down to zero.
FifoDraws(batches, r, amount) ==
    LET loop[b \in 0..MaxBatch] ==
            IF b = 0 THEN Asked(amount) ELSE DrawFrom(batches, r, loop[b - 1], b)
    IN  loop[MaxBatch]

\* The batch exists, holds the item's row and has enough left.
PickAllowed(batches, i) ==
    /\ i.batch \in Batch
    /\ batches[i.batch].row = i.row
    /\ i.amount <= batches[i.batch].remaining

Resolve(t, touched) ==
    /\ desk' = [desk EXCEPT ![t].stage = "WRITE", ![t].touched = touched]
    /\ UNCHANGED <<stockTable, batchTable, ledger, wrote>>

ResolveSpecificBatch(t) ==
    LET i == Current(t) seen == SeenBatches(t) IN
    /\ Stands(t, "REMOVE", "NEXT")
    /\ PickAllowed(seen, i)
    /\ Resolve(t, <<[batch |-> i.batch, drawn |-> i.amount,
                     remaining |-> seen[i.batch].remaining]>>)

ResolveFifoBatches(t) ==
    LET i == Current(t) draws == FifoDraws(SeenBatches(t), i.row, i.amount) IN
    /\ Stands(t, "REMOVE", "NEXT")
    /\ i.batch = NoBatch
    /\ draws.left = 0
    /\ Resolve(t, draws.touched)

\* What is written: the remaining that was read, less the draw.
Left(touch) == touch.remaining - touch.drawn

\* Mutant: updateBatch is not given the transaction and commits on its own.
DrawOutside(t) ==
    LET touch == Head(desk[t].touched) IN
    /\ Stands(t, "REMOVE", "WRITE")
    /\ desk[t].touched # <<>>
    /\ Free(batchHolder, t, touch.batch)
    /\ batchDraft' = [batchDraft EXCEPT ![touch.batch].remaining = Left(touch)]
    /\ batch' = [batch EXCEPT ![touch.batch].remaining = Left(touch)]
    /\ wrote' = [wrote EXCEPT ![t].drawn[touch.batch] = @ + touch.drawn]
    /\ desk' = [desk EXCEPT ![t].touched = Tail(@)]
    /\ UNCHANGED <<stockTable, batchHolder, lastBatch, ledger>>

\* updateBatch and the movement of one batch.
Draw(t) ==
    LET touch == Head(desk[t].touched) IN
    /\ Stands(t, "REMOVE", "WRITE")
    /\ desk[t].touched # <<>>
    /\ Free(batchHolder, t, touch.batch)
    /\ batchDraft' = [batchDraft EXCEPT ![touch.batch].remaining = Left(touch)]
    /\ batchHolder' = Lock(batchHolder, t, touch.batch)
    /\ wrote' = [wrote EXCEPT ![t].drawn[touch.batch] = @ + touch.drawn]
    /\ desk' = [desk EXCEPT ![t].touched = Tail(@)]
    /\ UNCHANGED <<stockTable, batch, lastBatch, ledger>>

\* incrementProductQuantity(-quantity): once per item, with no guard but the
\* CHECK, which fails the transaction.
TakeOff(t) ==
    LET version == Shifted(stockDraft[Current(t).row], -Current(t).amount) IN
    /\ Stands(t, "REMOVE", "WRITE")
    /\ desk[t].touched = <<>>
    /\ PassesCheck(version)
    /\ WriteRow(t, version)
    /\ UNCHANGED wrote

-----------------------------------------------------------------------------
(* deductStockForSale, which touches no batch.                             *)

Sell(t) ==
    LET i == Current(t) IN
    /\ Stands(t, "SALE", "NEXT")
    /\ stockDraft[i.row].quantity >= i.amount
    /\ WriteRow(t, Shifted(stockDraft[i.row], -i.amount))
    /\ wrote' = [wrote EXCEPT ![t].sold[i.row] = @ + i.amount]

-----------------------------------------------------------------------------
(* The end of a transaction.                                               *)

Sum2(f, g) == [x \in DOMAIN f |-> f[x] + g[x]]

Close(t) ==
    /\ rowHolder' = Unlock(rowHolder, t)
    /\ batchHolder' = Unlock(batchHolder, t)
    /\ wrote' = [wrote EXCEPT ![t] = NoMovements]
    /\ desk' = [desk EXCEPT ![t] = Idle]
    /\ UNCHANGED lastBatch

Commit(t) ==
    /\ desk[t].op # "IDLE"
    /\ desk[t].items = <<>>
    /\ stock' = SeenStock(t) /\ stockDraft' = stockDraft
    /\ batch' = SeenBatches(t) /\ batchDraft' = batchDraft
    /\ ledger' = [k \in DOMAIN ledger |-> Sum2(ledger[k], wrote[t][k])]
    /\ Close(t)

Rollback(t) ==
    /\ desk[t].op # "IDLE"
    /\ stockDraft' = Discard(stock, stockDraft, rowHolder, t)
    /\ batchDraft' = Discard(batch, batchDraft, batchHolder, t)
    /\ UNCHANGED <<stock, batch, ledger>>
    /\ Close(t)

BatchNext ==
    \E t \in Tx :
        \/ \E items \in Intakes : BeginAdd(t, items)
        \/ \E items \in Removals : BeginRemove(t, items)
        \/ \E i \in Sales : Begin(t, "SALE", <<i>>)
        \/ Receive(t) \/ Store(t)
        \/ ResolveSpecificBatch(t) \/ ResolveFifoBatches(t) \/ Draw(t) \/ TakeOff(t)
        \/ Sell(t)
        \/ Commit(t) \/ Rollback(t)

BatchSpec == BatchInit /\ [][BatchNext]_batchVars

-----------------------------------------------------------------------------
Born == {b \in Batch : batch[b] # Unborn}

OwnBatches(r) == {b \in Born : batch[b].row = r}

\* The stock of a row is what its movements say: deliveries in, removals and
\* sales out, whatever raced and whatever was rolled back; and a delivery's
\* movement is the size of its batch (addStock, removeStock).
StockIsLedger ==
    /\ \A r \in Row :
          stock[r].quantity =
              Opening[r] + SumFunctionOnSet(ledger.added, OwnBatches(r))
                         - SumFunctionOnSet(ledger.drawn, OwnBatches(r)) - ledger.sold[r]
    /\ \A b \in Batch : ledger.added[b] = batch[b].quantity

\* What a batch is short of is in the ledger ("the ledger still attributes
\* exactly how much came from which batch"): of two removals that overlap one
\* draw may be lost and leave the batch too full, but nothing ever takes units
\* out of it that no movement names.  No CHECK holds a batch between empty and
\* full; racing removals do, because each writes back what it read less no more
\* than that (inventory.md, "Known Gaps").
ShortfallExplained == \A b \in Batch :
    /\ batch[b].remaining \in 0..batch[b].quantity
    /\ batch[b].quantity - batch[b].remaining <= ledger.drawn[b]

\* What a list of draws takes from each batch.
TakenBy(touched) == [b \in Batch |-> SumFunctionOnSet(
    [n \in DOMAIN touched |-> touched[n].drawn], {n \in DOMAIN touched : touched[n].batch = b})]

TakesOldest(r, n) ==
    LET draws == FifoDraws(batch, r, n)
        took  == TakenBy(draws.touched)
        held  == [b \in Batch |-> batch[b].remaining]
        all   == SumFunctionOnSet(took, OwnBatches(r))
    IN  /\ all = Least(n, SumFunctionOnSet(held, OwnBatches(r)))
        /\ draws.left = n - all
        /\ \A b \in OwnBatches(r) : took[b] <= held[b]
        /\ \A a, b \in OwnBatches(r) : a < b /\ took[b] > 0 => took[a] = held[a]

\* The FIFO loop takes exactly what was asked or fails, and starts a batch
\* only when every older batch of the row is used up (resolveFifoBatches).
OldestFirst == \A r \in Row, n \in 1..3 : TakesOldest(r, n)

\* A delivery weighs in the cost price of its row as soon as it is committed,
\* also when one request brings several: the average is "NOT an overwrite"
\* (incrementProductQuantity).
IntakesWeigh ==
    [][\A b \in Batch : ledger.added[b] # ledger'.added[b] =>
          b \in stock'[batch'[b].row].basis]_batchVars
=============================================================================
