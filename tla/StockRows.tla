------------------------------ MODULE StockRows -----------------------------
(***************************************************************************)
(* The sale side of InventoryService: products' and variants' `quantity`   *)
(* columns and the Inventory ledger, moved inside an order's transaction   *)
(* by deductStockForSale and restoreStockForOrder.                         *)
(*                                                                         *)
(* A stock row is a product or a variant.  A transaction works through the *)
(* lines of one order: it deducts them (a placement) or gives them back (a *)
(* cancellation), one UPDATE and one ledger row per line, and it can be    *)
(* rolled back between any two statements.                                 *)
(***************************************************************************)
EXTENDS OrderIds, Integers, FiniteSetsExt

CONSTANTS
    Row,        \* products and variants that hold stock
    Opening,    \* Opening[r]: the stock row r starts with
    Demands     \* what an order may take: units of every row

ASSUME OpeningAssumption == Opening \in [Row -> Nat]
ASSUME DemandsAssumption == Demands \subseteq [Row -> Nat]

VARIABLES
    quantity,   \* quantity[r]: the committed stock of r
    draft,      \* draft[r]: its newest version
    rowHolder,  \* rowHolder[r]: the transaction that locked r
    ledger,     \* ledger[o][k][r]: committed units of kind k moved for order o
    wrote,      \* wrote[t][k][r]: units t has put in the ledger so far
    todo,       \* todo[t][r]: units of r that t has still to move
    job         \* job[t]: the order t works for and the direction

stockVars == <<quantity, draft, rowHolder, ledger, wrote, todo, job>>

Kind  == {"SALE", "RETURN"}
Lines == [Row -> Nat]
None  == [r \in Row |-> 0]
Idle  == [order |-> NoOrder, kind |-> "SALE"]

StockTypeOK ==
    /\ quantity \in [Row -> Int]
    /\ draft \in [Row -> Int]
    /\ rowHolder \in [Row -> Tx \cup {NoTx}]
    /\ ledger \in [Order -> [Kind -> Lines]]
    /\ wrote \in [Tx -> [Kind -> Lines]]
    /\ todo \in [Tx -> Lines]
    /\ job \in [Tx -> [order : Order \cup {NoOrder}, kind : Kind]]

StockInit ==
    /\ quantity = Opening
    /\ draft = Opening
    /\ rowHolder = [r \in Row |-> NoTx]
    /\ ledger = [o \in Order |-> [k \in Kind |-> None]]
    /\ wrote = [t \in Tx |-> [k \in Kind |-> None]]
    /\ todo = [t \in Tx |-> None]
    /\ job = [t \in Tx |-> Idle]

Stock(t) == View(quantity, draft, rowHolder, t)

-----------------------------------------------------------------------------
(* deductStockForSale: the guarded decrement of each line.                 *)

BeginSale(t, o, lines) ==
    /\ job[t] = Idle
    /\ job' = [job EXCEPT ![t] = [order |-> o, kind |-> "SALE"]]
    /\ todo' = [todo EXCEPT ![t] = lines]
    /\ UNCHANGED <<quantity, draft, rowHolder, ledger, wrote>>

\* Mutant: the UPDATE has no quantity guard.
CoversAnything(available, amount) == available \in Int

\* `where: { id, quantity: { gte: amount } }`.  A row that fails matches nothing,
\* the service throws and the transaction rolls back.
Covers(available, amount) == available >= amount

Move(t, r, k, version) ==
    /\ Free(rowHolder, t, r)
    /\ todo[t][r] > 0
    /\ job[t].order # NoOrder
    /\ job[t].kind = k
    /\ draft' = [draft EXCEPT ![r] = version]
    /\ rowHolder' = Lock(rowHolder, t, r)
    /\ wrote' = [wrote EXCEPT ![t][k][r] = @ + todo[t][r]]
    /\ todo' = [todo EXCEPT ![t][r] = 0]
    /\ UNCHANGED <<quantity, ledger, job>>

Deduct(t, r) ==
    /\ Covers(draft[r], todo[t][r])
    /\ Move(t, r, "SALE", draft[r] - todo[t][r])

-----------------------------------------------------------------------------
(* restoreStockForOrder and restoreStockForSale: the ledger read back.     *)

AlreadyReturned(o) == \E r \in Row : ledger[o]["RETURN"][r] > 0

RestoreLines(o) == IF AlreadyReturned(o) THEN None ELSE ledger[o]["SALE"]

BeginReturn(t, o) ==
    /\ job[t] = Idle
    /\ job' = [job EXCEPT ![t] = [order |-> o, kind |-> "RETURN"]]
    /\ todo' = [todo EXCEPT ![t] = RestoreLines(o)]
    /\ UNCHANGED <<quantity, draft, rowHolder, ledger, wrote>>

Restore(t, r) == Move(t, r, "RETURN", draft[r] + todo[t][r])

-----------------------------------------------------------------------------
(* The end of the transaction.                                             *)

EndTx(t) ==
    /\ rowHolder' = Unlock(rowHolder, t)
    /\ wrote' = [wrote EXCEPT ![t] = [k \in Kind |-> None]]
    /\ todo' = [todo EXCEPT ![t] = None]
    /\ job' = [job EXCEPT ![t] = Idle]

\* Mutant: an error between two lines is swallowed and the rest still commits.
CommitUnfinished(t) ==
    /\ job[t].order # NoOrder
    /\ quantity' = Stock(t)
    /\ draft' = draft
    /\ ledger' = [ledger EXCEPT ![job[t].order] =
                    [k \in Kind |-> [r \in Row |-> @[k][r] + wrote[t][k][r]]]]
    /\ EndTx(t)

StockCommit(t) ==
    /\ job[t].order # NoOrder
    /\ todo[t] = None
    /\ quantity' = Stock(t)
    /\ draft' = draft
    /\ ledger' = [ledger EXCEPT ![job[t].order] =
                    [k \in Kind |-> [r \in Row |-> @[k][r] + wrote[t][k][r]]]]
    /\ EndTx(t)

\* Mutant: ledger rows are written outside the transaction and survive it.
RollbackKeepsLedger(t) ==
    /\ draft' = Discard(quantity, draft, rowHolder, t)
    /\ quantity' = quantity
    /\ ledger' = IF job[t] = Idle THEN ledger ELSE
          [ledger EXCEPT ![job[t].order] =
              [k \in Kind |-> [r \in Row |-> @[k][r] + wrote[t][k][r]]]]
    /\ EndTx(t)

StockRollback(t) ==
    /\ draft' = Discard(quantity, draft, rowHolder, t)
    /\ UNCHANGED <<quantity, ledger>>
    /\ EndTx(t)

-----------------------------------------------------------------------------
\* An order is placed once, under an id nobody used before.
FreshOrder(o) ==
    /\ ledger[o]["SALE"] = None
    /\ \A t \in Tx : job[t].order # o

Placed(o) == ledger[o]["SALE"] # None

StockNext ==
    \E t \in Tx :
        \/ \E o \in Order, lines \in Demands :
              FreshOrder(o) /\ BeginSale(t, o, lines)
        \/ \E o \in Order : Placed(o) /\ BeginReturn(t, o)
        \/ \E r \in Row : Deduct(t, r) \/ Restore(t, r)
        \/ StockCommit(t)
        \/ job[t] # Idle /\ StockRollback(t)

StockSpec == StockInit /\ [][StockNext]_stockVars

-----------------------------------------------------------------------------
\* Stock never goes below zero, committed or not: the guarded decrement tests
\* the version it writes (stock-oversell.md; deductStockForSale).
NonNegative == \A r \in Row : quantity[r] >= 0 /\ draft[r] >= 0

\* A cancellation gives an order back all of its lines or none of them; a
\* rolled-back restore leaves no line behind (restoreStockForSale's loop).
ReturnsAreWhole ==
    \A o \in Order : \E n \in 0..Cardinality(Tx) :
        ledger[o]["RETURN"] = [r \in Row |-> n * ledger[o]["SALE"][r]]

\* A step that changes committed stock is one order's, and changes each row
\* by exactly what it adds to that order's ledger: stock and ledger are never
\* seen apart (createMovement runs in the transaction of the decrement).
StockMovesWithLedger ==
    [][\E o \in Order :
          /\ \A p \in Order \ {o} : ledger'[p] = ledger[p]
          /\ \A r \in Row :
                quantity'[r] - quantity[r] =
                    (ledger'[o]["RETURN"][r] - ledger[o]["RETURN"][r])
                    - (ledger'[o]["SALE"][r] - ledger[o]["SALE"][r])]_stockVars
=============================================================================
