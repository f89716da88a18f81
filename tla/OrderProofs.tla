---------------------------- MODULE OrderProofs -----------------------------
(***************************************************************************)
(* Proofs about an order: first about StockRows, PromoCodes and OrderBook, *)
(* the tables its transaction writes, for every set of rows, codes,        *)
(* customers, orders, transactions and admins, every opening stock and     *)
(* demand, every terms, edit and payment method, and every bound on the    *)
(* history; then about Checkout, for every set of shoppers, clerks, combos *)
(* and carts besides: that it is composed of its parts and leaves no order *)
(* half done, and that it implements the atomic shop as long as status     *)
(* requests do not overlap, that is, there is at most one clerk.           *)
(* (With two, an order can be cancelled twice: see MCCancelTwice.)         *)
(***************************************************************************)
EXTENDS Checkout, StockRows, FiniteSetTheorems, SequenceTheorems, SumTheorems, TLAPS

-----------------------------------------------------------------------------
(* StockRows.                                                              *)

\* The opening stock is well typed, and nothing is in the ledger.
LEMMA StockTypeInitially == StockInit => StockTypeOK
BY OpeningAssumption DEF StockInit, StockTypeOK, Kind, Lines, None, Idle

\* A step of an order's transaction keeps every table's shape.
LEMMA StockTypeStep ==
    StockTypeOK /\ [StockNext]_stockVars => StockTypeOK'
<1> SUFFICES ASSUME StockTypeOK, [StockNext]_stockVars
             PROVE  StockTypeOK'
  OBVIOUS
<1> USE DEF StockTypeOK
<1>1. ASSUME NEW t \in Tx, NEW o \in Order, NEW wanted \in Demands,
             FreshOrder(o), BeginSale(t, o, wanted)
      PROVE  StockTypeOK'
  <2>1. wanted \in Lines
    BY DemandsAssumption DEF Lines
  <2> QED BY <1>1, <2>1 DEF BeginSale, Kind
<1>2. ASSUME NEW t \in Tx, NEW o \in Order, Placed(o), BeginReturn(t, o)
      PROVE  StockTypeOK'
  <2>1. RestoreLines(o) \in Lines
    BY DEF RestoreLines, Lines, None, Kind
  <2> QED BY <1>2, <2>1 DEF BeginReturn, Kind
<1>3. ASSUME NEW t \in Tx, NEW r \in Row, Deduct(t, r)
      PROVE  StockTypeOK'
  BY <1>3 DEF Deduct, Move, Lock, Lines, Kind
<1>4. ASSUME NEW t \in Tx, NEW r \in Row, Restore(t, r)
      PROVE  StockTypeOK'
  BY <1>4 DEF Restore, Move, Lock, Lines, Kind
<1>5. ASSUME NEW t \in Tx, StockCommit(t)
      PROVE  StockTypeOK'
  BY <1>5 DEF StockCommit, EndTx, Stock, View, Unlock, Lines, Kind, None, Idle
<1>6. ASSUME NEW t \in Tx, StockRollback(t)
      PROVE  StockTypeOK'
  BY <1>6 DEF StockRollback, EndTx, Discard, Unlock, Lines, Kind, None, Idle
<1>7. CASE UNCHANGED stockVars
  BY <1>7 DEF stockVars
<1> QED
  BY <1>1, <1>2, <1>3, <1>4, <1>5, <1>6, <1>7 DEF StockNext

\* Every state of a run is well typed: quantities are integers, ledgers and
\* plans count units (deductStockForSale, restoreStockForOrder).
THEOREM StockTypeCorrect == StockSpec => []StockTypeOK
BY StockTypeInitially, StockTypeStep, PTL DEF StockSpec

-----------------------------------------------------------------------------
\* No step takes a row below zero.
LEMMA NonNegativeStep ==
    StockTypeOK /\ NonNegative /\ [StockNext]_stockVars => NonNegative'
<1> SUFFICES ASSUME StockTypeOK, NonNegative, [StockNext]_stockVars
             PROVE  NonNegative'
  OBVIOUS
<1> USE DEF NonNegative
<1>1. ASSUME NEW t \in Tx, NEW o \in Order, NEW wanted \in Demands, BeginSale(t, o, wanted)
      PROVE  NonNegative'
  BY <1>1 DEF BeginSale
<1>2. ASSUME NEW t \in Tx, NEW o \in Order, BeginReturn(t, o)
      PROVE  NonNegative'
  BY <1>2 DEF BeginReturn
<1>3. ASSUME NEW t \in Tx, NEW r \in Row, Deduct(t, r)
      PROVE  NonNegative'
  <2>1. draft[r] - todo[t][r] >= 0
    BY <1>3 DEF Deduct, Covers, StockTypeOK, Lines
  <2> QED BY <1>3, <2>1 DEF Deduct, Move, StockTypeOK
<1>4. ASSUME NEW t \in Tx, NEW r \in Row, Restore(t, r)
      PROVE  NonNegative'
  <2>1. draft[r] + todo[t][r] >= 0
    BY DEF StockTypeOK, Lines
  <2> QED BY <1>4, <2>1 DEF Restore, Move, StockTypeOK
<1>5. ASSUME NEW t \in Tx, StockCommit(t)
      PROVE  NonNegative'
  BY <1>5 DEF StockCommit, Stock, View, StockTypeOK
<1>6. ASSUME NEW t \in Tx, StockRollback(t)
      PROVE  NonNegative'
  BY <1>6 DEF StockRollback, Discard, StockTypeOK
<1>7. CASE UNCHANGED stockVars
  BY <1>7 DEF stockVars
<1> QED
  BY <1>1, <1>2, <1>3, <1>4, <1>5, <1>6, <1>7 DEF StockNext

\* No oversell: committed or not, the stock of a row is never negative.  The
\* guarded UPDATE tests the version it decrements, everything else adds.
THEOREM StockNeverNegative == StockSpec => []NonNegative
<1>1. StockInit => NonNegative
  BY OpeningAssumption DEF StockInit, NonNegative
<1> QED BY <1>1, NonNegativeStep, StockTypeCorrect, PTL DEF StockSpec

-----------------------------------------------------------------------------
(* Stock and ledger move together.  The invariant says what a transaction  *)
(* has pending on the rows it locked: exactly what it wrote in the ledger. *)

\* A draft differs from the committed row only while somebody holds it, and
\* then by the holder's ledger rows.
PendingIsWritten ==
    /\ DraftsAreHeld(quantity, draft, rowHolder)
    /\ \A r \in Row, t \in Tx : rowHolder[r] = t =>
          draft[r] - quantity[r] = wrote[t]["RETURN"][r] - wrote[t]["SALE"][r]

\* A transaction has ledger rows only for stock it holds.
WroteIsHeld == \A r \in Row, t \in Tx, k \in Kind : rowHolder[r] # t => wrote[t][k][r] = 0

BusyHasOrder == \A t \in Tx : job[t] # Idle => job[t].order \in Order

LedgerInv == StockTypeOK /\ PendingIsWritten /\ WroteIsHeld /\ BusyHasOrder

\* At the start nothing is locked, written or pending.
LEMMA LedgerInitially == StockInit => PendingIsWritten /\ WroteIsHeld /\ BusyHasOrder
BY NoTxAssumption, OpeningAssumption
DEF StockInit, PendingIsWritten, WroteIsHeld, BusyHasOrder, DraftsAreHeld, None, Kind, Idle

\* The four parts are inductive together (deductStockForSale and
\* restoreStockForSale write one ledger row per locked stock row).
LEMMA LedgerStep ==
    LedgerInv /\ StockTypeOK' /\ [StockNext]_stockVars
    => PendingIsWritten' /\ WroteIsHeld' /\ BusyHasOrder'
<1> USE NoTxAssumption, NoOrderAssumption
<1> SUFFICES ASSUME LedgerInv, StockTypeOK', [StockNext]_stockVars
             PROVE  PendingIsWritten' /\ WroteIsHeld' /\ BusyHasOrder'
  OBVIOUS
<1> USE DEF LedgerInv
<1>1. ASSUME NEW t \in Tx, NEW o \in Order, NEW wanted \in Demands, BeginSale(t, o, wanted)
      PROVE  PendingIsWritten' /\ WroteIsHeld' /\ BusyHasOrder'
  BY <1>1 DEF BeginSale, PendingIsWritten, WroteIsHeld, BusyHasOrder, DraftsAreHeld, StockTypeOK
<1>2. ASSUME NEW t \in Tx, NEW o \in Order, BeginReturn(t, o)
      PROVE  PendingIsWritten' /\ WroteIsHeld' /\ BusyHasOrder'
  BY <1>2 DEF BeginReturn, PendingIsWritten, WroteIsHeld, BusyHasOrder, DraftsAreHeld, StockTypeOK
<1>3. ASSUME NEW t \in Tx, NEW r \in Row, NEW k \in Kind, NEW version \in Int,
             Move(t, r, k, version),
             version - draft[r] = IF k = "RETURN" THEN todo[t][r] ELSE -todo[t][r]
      PROVE  PendingIsWritten' /\ WroteIsHeld' /\ BusyHasOrder'
  <2>1. wrote'[t]["RETURN"][r] - wrote'[t]["SALE"][r]
           = wrote[t]["RETURN"][r] - wrote[t]["SALE"][r] + (version - draft[r])
    BY <1>3 DEF Move, StockTypeOK, Kind, Lines
  <2>2. draft[r] - quantity[r] = wrote[t]["RETURN"][r] - wrote[t]["SALE"][r]
    <3>1. CASE rowHolder[r] = t
      BY <3>1 DEF PendingIsWritten
    <3>2. CASE rowHolder[r] = NoTx
      <4>1. wrote[t]["RETURN"][r] = 0 /\ wrote[t]["SALE"][r] = 0
        BY <3>2 DEF WroteIsHeld, Kind
      <4>2. draft[r] = quantity[r]
        BY <3>2 DEF PendingIsWritten, DraftsAreHeld, StockTypeOK
      <4> QED BY <4>1, <4>2 DEF StockTypeOK
    <3> QED BY <1>3, <3>1, <3>2 DEF Move, Free
  <2>3. \A q \in Row, u \in Tx, h \in Kind :
           q # r \/ u # t => wrote'[u][h][q] = wrote[u][h][q]
    BY <1>3 DEF Move, StockTypeOK, Kind, Lines
  <2>4. \A q \in Row \ {r} : draft'[q] = draft[q] /\ rowHolder'[q] = rowHolder[q]
    BY <1>3 DEF Move, Lock, StockTypeOK
  <2>5. draft'[r] = version /\ rowHolder'[r] = t /\ quantity' = quantity
    BY <1>3 DEF Move, Lock, StockTypeOK
  <2>6. PendingIsWritten'
    <3>1. DraftsAreHeld(quantity, draft, rowHolder)'
      BY <2>4, <2>5 DEF PendingIsWritten, DraftsAreHeld, StockTypeOK
    <3>2. ASSUME NEW q \in Row, NEW u \in Tx, rowHolder'[q] = u
          PROVE  draft'[q] - quantity'[q] = wrote'[u]["RETURN"][q] - wrote'[u]["SALE"][q]
      <4>1. CASE q = r
        <5>1. u = t /\ draft'[q] - quantity'[q] = version - quantity[r]
          BY <2>5, <3>2, <4>1
        <5> QED BY <2>1, <2>2, <4>1, <5>1 DEF StockTypeOK, Kind, Lines
      <4>2. CASE q # r
        BY <2>3, <2>4, <2>5, <3>2, <4>2 DEF PendingIsWritten, Kind
      <4> QED BY <4>1, <4>2
    <3> QED BY <3>1, <3>2 DEF PendingIsWritten
  <2>7. WroteIsHeld'
    BY <2>3, <2>4, <2>5, <1>3 DEF WroteIsHeld, Move, Free
  <2>8. BusyHasOrder'
    BY <1>3 DEF Move, BusyHasOrder
  <2> QED BY <2>6, <2>7, <2>8
<1>4. ASSUME NEW t \in Tx, NEW r \in Row, Deduct(t, r)
      PROVE  PendingIsWritten' /\ WroteIsHeld' /\ BusyHasOrder'
  BY <1>4, <1>3 DEF Deduct, StockTypeOK, Lines, Kind
<1>5. ASSUME NEW t \in Tx, NEW r \in Row, Restore(t, r)
      PROVE  PendingIsWritten' /\ WroteIsHeld' /\ BusyHasOrder'
  BY <1>5, <1>3 DEF Restore, StockTypeOK, Lines, Kind
<1>6. ASSUME NEW t \in Tx, EndTx(t),
             \A r \in Row : rowHolder[r] = t => quantity'[r] = draft'[r],
             \A r \in Row : rowHolder[r] # t => quantity'[r] = quantity[r] /\ draft'[r] = draft[r]
      PROVE  PendingIsWritten' /\ WroteIsHeld' /\ BusyHasOrder'
  <2>1. \A r \in Row : rowHolder'[r] = IF rowHolder[r] = t THEN NoTx ELSE rowHolder[r]
    BY <1>6 DEF EndTx, Unlock, StockTypeOK
  <2>2. \A u \in Tx \ {t} : wrote'[u] = wrote[u] /\ job'[u] = job[u]
    BY <1>6 DEF EndTx, StockTypeOK
  <2>3. \A k \in Kind, r \in Row : wrote'[t][k][r] = 0
    BY <1>6 DEF EndTx, StockTypeOK, None
  <2>4. job'[t] = Idle
    BY <1>6 DEF EndTx, StockTypeOK
  <2>5. PendingIsWritten'
    BY <1>6, <2>1, <2>2 DEF PendingIsWritten, DraftsAreHeld, StockTypeOK
  <2>6. WroteIsHeld'
    BY <2>1, <2>2, <2>3 DEF WroteIsHeld
  <2>7. BusyHasOrder'
    BY <2>2, <2>4 DEF BusyHasOrder
  <2> QED BY <2>5, <2>6, <2>7
<1>7. ASSUME NEW t \in Tx, StockCommit(t)
      PROVE  PendingIsWritten' /\ WroteIsHeld' /\ BusyHasOrder'
  BY <1>7, <1>6 DEF StockCommit, Stock, View, StockTypeOK
<1>8. ASSUME NEW t \in Tx, StockRollback(t)
      PROVE  PendingIsWritten' /\ WroteIsHeld' /\ BusyHasOrder'
  BY <1>8, <1>6 DEF StockRollback, Discard, StockTypeOK
<1>9. CASE UNCHANGED stockVars
  BY <1>9 DEF stockVars, PendingIsWritten, WroteIsHeld, BusyHasOrder, DraftsAreHeld
<1> QED
  BY <1>1, <1>2, <1>4, <1>5, <1>7, <1>8, <1>9 DEF StockNext

\* With the shape of the tables the invariant is inductive.
LEMMA LedgerInvStep == LedgerInv /\ [StockNext]_stockVars => LedgerInv'
BY StockTypeStep, LedgerStep DEF LedgerInv

\* Locks, drafts and ledger agree in every state of a run.
LEMMA LedgerInvHolds == StockSpec => []LedgerInv
BY LedgerInitially, LedgerStep, StockTypeCorrect, PTL DEF StockSpec, LedgerInv

\* Whatever commits changes stock by exactly what it adds to one order's
\* ledger (createMovement beside every increment and decrement).
THEOREM StockFollowsLedger == StockSpec => StockMovesWithLedger
<1> DEFINE Together == \E o \in Order :
          /\ \A p \in Order \ {o} : ledger'[p] = ledger[p]
          /\ \A r \in Row :
                quantity'[r] - quantity[r] =
                    (ledger'[o]["RETURN"][r] - ledger[o]["RETURN"][r])
                    - (ledger'[o]["SALE"][r] - ledger[o]["SALE"][r])
<1>1. LedgerInv /\ [StockNext]_stockVars => [Together]_stockVars
  <2> SUFFICES ASSUME LedgerInv, StockNext
               PROVE  Together
    OBVIOUS
  <2> USE DEF LedgerInv
  <2>1. ASSUME NEW o \in Order, UNCHANGED <<quantity, ledger>>
        PROVE  Together
    BY <2>1 DEF StockTypeOK, Kind, Lines
  <2>2. ASSUME NEW t \in Tx, StockCommit(t)
        PROVE  Together
    <3>1. job[t].order \in Order
      BY <2>2 DEF StockCommit, StockTypeOK
    <3>2. \A p \in Order \ {job[t].order} : ledger'[p] = ledger[p]
      BY <2>2, <3>1 DEF StockCommit, StockTypeOK
    <3>3. \A k \in Kind, r \in Row :
             ledger'[job[t].order][k][r] = ledger[job[t].order][k][r] + wrote[t][k][r]
      BY <2>2, <3>1 DEF StockCommit, StockTypeOK
    <3>4. \A r \in Row : quantity'[r] - quantity[r] = wrote[t]["RETURN"][r] - wrote[t]["SALE"][r]
      <4> SUFFICES ASSUME NEW r \in Row
                   PROVE  quantity'[r] - quantity[r] = wrote[t]["RETURN"][r] - wrote[t]["SALE"][r]
        OBVIOUS
      <4>1. CASE rowHolder[r] = t
        BY <2>2, <4>1 DEF StockCommit, Stock, View, PendingIsWritten, StockTypeOK
      <4>2. CASE rowHolder[r] # t
        BY <2>2, <4>2 DEF StockCommit, Stock, View, WroteIsHeld, StockTypeOK, Kind
      <4> QED BY <4>1, <4>2
    <3>5. \A r \in Row :
             quantity'[r] - quantity[r] =
                (ledger'[job[t].order]["RETURN"][r] - ledger[job[t].order]["RETURN"][r])
                - (ledger'[job[t].order]["SALE"][r] - ledger[job[t].order]["SALE"][r])
      <4> SUFFICES ASSUME NEW r \in Row
                   PROVE  quantity'[r] - quantity[r] =
                (ledger'[job[t].order]["RETURN"][r] - ledger[job[t].order]["RETURN"][r])
                - (ledger'[job[t].order]["SALE"][r] - ledger[job[t].order]["SALE"][r])
        OBVIOUS
      <4>1. \A k \in Kind : ledger[job[t].order][k][r] \in Int /\ wrote[t][k][r] \in Int
        BY <3>1 DEF StockTypeOK, Lines
      <4> QED BY <3>3, <3>4, <4>1 DEF Kind
    <3> QED BY <3>1, <3>2, <3>5
  <2>3. ASSUME NEW t \in Tx, StockRollback(t), job[t] # Idle
        PROVE  Together
    BY <2>1, <2>3 DEF StockRollback, BusyHasOrder
  <2>4. ASSUME NEW t \in Tx, NEW r \in Row, Deduct(t, r) \/ Restore(t, r)
        PROVE  Together
    <3>1. job[t].order \in Order /\ UNCHANGED <<quantity, ledger>>
      BY <2>4 DEF Deduct, Restore, Move, StockTypeOK
    <3> QED BY <2>1, <3>1
  <2> QED
    BY <2>1, <2>2, <2>3, <2>4 DEF StockNext, BeginSale, BeginReturn
<1> QED BY <1>1, LedgerInvHolds, PTL DEF StockSpec, StockMovesWithLedger
-----------------------------------------------------------------------------
(* Whole returns.  A return copies the lines of the sale when it begins,   *)
(* unless something is returned already; what it commits is therefore the  *)
(* whole sale or nothing, because no sale of its order is open and no      *)
(* other can begin.                                                        *)

WorksFor(t, o) == job[t].order = o

\* What t has left to do and what it has done.
IsMoving(t) == \E r \in Row : todo[t][r] # 0 \/ wrote[t]["RETURN"][r] # 0

SaleAlone(t, o) ==
    /\ \A r \in Row : wrote[t]["RETURN"][r] = 0 /\ ledger[o]["SALE"][r] = 0
    /\ \A u \in Tx \ {t} : ~WorksFor(u, o)

ReturnsAll(t, o) == \A r \in Row : wrote[t]["RETURN"][r] + todo[t][r] = ledger[o]["SALE"][r]

JobsFit ==
    /\ \A t \in Tx : job[t] = Idle => \A k \in Kind, r \in Row : wrote[t][k][r] = 0
    /\ \A t \in Tx, o \in Order : WorksFor(t, o) =>
          IF job[t].kind = "SALE" THEN SaleAlone(t, o)
          ELSE /\ \E r \in Row : ledger[o]["SALE"][r] # 0
               /\ \A r \in Row : wrote[t]["SALE"][r] = 0
               /\ IsMoving(t) => ReturnsAll(t, o)

\* The requests that are giving order o back.
Returners(o) == {t \in Tx : WorksFor(t, o) /\ job[t].kind = "RETURN" /\ IsMoving(t)}

WholeTimes(o, n) ==
    /\ \A r \in Row : ledger[o]["RETURN"][r] = n * ledger[o]["SALE"][r]
    /\ n + Cardinality(Returners(o)) <= Cardinality(Tx)

ReturnsFit == \A o \in Order : \E n \in Nat : WholeTimes(o, n)
\* At the start no request is open and nothing was sold or returned.
LEMMA ReturnsInitially == StockInit /\ IsFiniteSet(Tx) => JobsFit /\ ReturnsFit
<1> SUFFICES ASSUME StockInit, IsFiniteSet(Tx) PROVE JobsFit /\ ReturnsFit
  OBVIOUS
<1>1. JobsFit
  BY NoOrderAssumption DEF StockInit, JobsFit, WorksFor, Idle, None, Kind
<1>2. ASSUME NEW o \in Order PROVE WholeTimes(o, 0)
  <2>1. Returners(o) = {}
    BY NoOrderAssumption DEF StockInit, Returners, WorksFor, Idle
  <2>2. Cardinality(Returners(o)) = 0
    BY <2>1, FS_EmptySet
  <2>3. Cardinality(Tx) \in Nat
    BY FS_CardinalityType
  <2> QED BY <2>2, <2>3 DEF WholeTimes, StockInit, None, Kind
<1> QED BY <1>1, <1>2 DEF ReturnsFit

\* A request that is giving an order back is one of the open transactions.
LEMMA ReturnersFit ==
    ASSUME IsFiniteSet(Tx), NEW S, S \subseteq Tx
    PROVE  /\ IsFiniteSet(S)
           /\ Cardinality(S) \in Nat
           /\ Cardinality(Tx) \in Nat
           /\ Cardinality(S) <= Cardinality(Tx)
BY FS_Subset, FS_CardinalityType

\* When no ledger row changes and nobody joins the returners of an order, the
\* order stays returned a whole number of times.
LEMMA WholeUnmoved ==
    ASSUME ReturnsFit, IsFiniteSet(Tx), NEW o \in Order,
           \A k \in Kind, r \in Row : ledger'[o][k][r] = ledger[o][k][r],
           Returners(o)' \subseteq Returners(o)
    PROVE  \E n \in Nat : WholeTimes(o, n)'
<1>1. PICK n \in Nat : WholeTimes(o, n)
  BY DEF ReturnsFit
<1>2. \A r \in Row : ledger'[o]["RETURN"][r] = n * ledger'[o]["SALE"][r]
  BY <1>1 DEF WholeTimes, Kind
<1>3. Returners(o) \subseteq Tx
  BY DEF Returners
<1>4. Cardinality(Returners(o)') <= Cardinality(Returners(o))
      /\ Cardinality(Returners(o)') \in Nat /\ Cardinality(Returners(o)) \in Nat
  <2>1. IsFiniteSet(Returners(o))
    BY <1>3, ReturnersFit
  <2>2. IsFiniteSet(Returners(o)')
    BY <2>1, FS_Subset
  <2> QED BY <2>1, <2>2, FS_Subset, FS_CardinalityType
<1>5. n + Cardinality(Returners(o)') <= Cardinality(Tx)
  BY <1>1, <1>4, FS_CardinalityType DEF WholeTimes
<1> QED BY <1>2, <1>5 DEF WholeTimes

\* A transaction that ends is no returner any more, and the others are what
\* they were.
LEMMA EndLeaves ==
    ASSUME StockTypeOK, NEW t \in Tx, EndTx(t)
    PROVE  /\ \A o \in Order : Returners(o)' = Returners(o) \ {t}
           /\ \A u \in Tx \ {t} : job'[u] = job[u] /\ wrote'[u] = wrote[u] /\ todo'[u] = todo[u]
           /\ job'[t] = Idle
           /\ \A k \in Kind, r \in Row : wrote'[t][k][r] = 0
<1>1. /\ job'[t] = Idle /\ wrote'[t] = [k \in Kind |-> None] /\ todo'[t] = None
      /\ \A u \in Tx \ {t} : job'[u] = job[u] /\ wrote'[u] = wrote[u] /\ todo'[u] = todo[u]
  BY DEF EndTx, StockTypeOK
<1>2. \A k \in Kind, r \in Row : wrote'[t][k][r] = 0
  BY <1>1 DEF None
<1>3. ASSUME NEW o \in Order PROVE Returners(o)' = Returners(o) \ {t}
  <2>1. ~WorksFor(t, o)'
    BY <1>1, NoOrderAssumption DEF WorksFor, Idle
  <2>2. ASSUME NEW u \in Tx \ {t}
        PROVE  (WorksFor(u, o)' <=> WorksFor(u, o)) /\ (IsMoving(u)' <=> IsMoving(u))
    BY <1>1 DEF WorksFor, IsMoving
  <2> QED BY <1>1, <2>1, <2>2 DEF Returners
<1> QED BY <1>1, <1>2, <1>3

\* Opening, moving, committing or rolling back a return or a sale keeps every
\* open request fit (BeginReturn copies the lines, Restore moves them).
LEMMA JobsStep ==
    StockTypeOK /\ StockTypeOK' /\ BusyHasOrder /\ JobsFit /\ [StockNext]_stockVars => JobsFit'
<1> USE NoOrderAssumption
<1> SUFFICES ASSUME StockTypeOK, StockTypeOK', BusyHasOrder, JobsFit, [StockNext]_stockVars
             PROVE  JobsFit'
  OBVIOUS
<1>1. ASSUME NEW t \in Tx, NEW o \in Order, NEW wanted \in Demands,
             FreshOrder(o), BeginSale(t, o, wanted)
      PROVE  JobsFit'
  <2>1. /\ job[t] = Idle /\ job'[t] = [order |-> o, kind |-> "SALE"]
        /\ ledger' = ledger /\ wrote' = wrote
        /\ \A u \in Tx \ {t} : job'[u] = job[u] /\ todo'[u] = todo[u]
    BY <1>1 DEF BeginSale, StockTypeOK
  <2>2. \A k \in Kind, r \in Row : wrote[t][k][r] = 0
    BY <2>1 DEF JobsFit
  <2>3. /\ \A u \in Tx : ~WorksFor(u, o)
        /\ \A r \in Row : ledger[o]["SALE"][r] = 0
    BY <1>1 DEF FreshOrder, WorksFor, None
  <2>4. SaleAlone(t, o)'
    BY <2>1, <2>2, <2>3 DEF SaleAlone, WorksFor, Kind
  <2>5. ASSUME NEW u \in Tx \ {t}, NEW p \in Order, WorksFor(u, p)'
        PROVE  IF job'[u].kind = "SALE" THEN SaleAlone(u, p)'
               ELSE /\ \E r \in Row : ledger'[p]["SALE"][r] # 0
                    /\ \A r \in Row : wrote'[u]["SALE"][r] = 0
                    /\ IsMoving(u)' => ReturnsAll(u, p)'
    <3>1. WorksFor(u, p) /\ p # o
      BY <2>1, <2>3, <2>5 DEF WorksFor
    <3>2. CASE job[u].kind = "SALE"
      <4>1. SaleAlone(u, p)
        BY <3>1, <3>2 DEF JobsFit
      <4>2. SaleAlone(u, p)'
        BY <2>1, <3>1, <4>1 DEF SaleAlone, WorksFor
      <4> QED BY <2>1, <3>2, <4>2
    <3>3. CASE job[u].kind # "SALE"
      BY <2>1, <3>1, <3>3 DEF JobsFit, IsMoving, ReturnsAll
    <3> QED BY <3>2, <3>3
  <2>6. \A u \in Tx : job'[u] = Idle => job[u] = Idle
    BY <2>1 DEF Idle
  <2> QED BY <2>1, <2>2, <2>4, <2>5, <2>6 DEF JobsFit, WorksFor
<1>2. ASSUME NEW t \in Tx, NEW o \in Order, Placed(o), BeginReturn(t, o)
      PROVE  JobsFit'
  <2>1. \E r \in Row : ledger[o]["SALE"][r] # 0
    BY <1>2 DEF Placed, None, StockTypeOK, Kind, Lines
  <2>2. /\ job[t] = Idle /\ job'[t] = [order |-> o, kind |-> "RETURN"]
        /\ todo'[t] = RestoreLines(o)
        /\ ledger' = ledger /\ wrote' = wrote
        /\ \A u \in Tx \ {t} : job'[u] = job[u] /\ todo'[u] = todo[u]
    BY <1>2 DEF BeginReturn, StockTypeOK
  <2>3. \A k \in Kind, r \in Row : wrote[t][k][r] = 0
    BY <2>2 DEF JobsFit
  <2>4. IsMoving(t)' => ReturnsAll(t, o)'
    BY <2>2, <2>3 DEF IsMoving, ReturnsAll, RestoreLines, None, StockTypeOK, Kind, Lines
  <2>5. ASSUME NEW u \in Tx \ {t}, NEW p \in Order, WorksFor(u, p)'
        PROVE  IF job'[u].kind = "SALE" THEN SaleAlone(u, p)'
               ELSE /\ \E r \in Row : ledger'[p]["SALE"][r] # 0
                    /\ \A r \in Row : wrote'[u]["SALE"][r] = 0
                    /\ IsMoving(u)' => ReturnsAll(u, p)'
    <3>1. WorksFor(u, p)
      BY <2>2, <2>5 DEF WorksFor
    <3>2. CASE job[u].kind = "SALE"
      <4>1. SaleAlone(u, p)
        BY <3>1, <3>2 DEF JobsFit
      <4>2. p # o
        BY <2>1, <4>1 DEF SaleAlone
      <4>3. SaleAlone(u, p)'
        BY <2>2, <4>1, <4>2 DEF SaleAlone, WorksFor
      <4> QED BY <2>2, <3>2, <4>3
    <3>3. CASE job[u].kind # "SALE"
      BY <2>2, <3>1, <3>3 DEF JobsFit, IsMoving, ReturnsAll
    <3> QED BY <3>2, <3>3
  <2>6. \A u \in Tx : job'[u] = Idle => job[u] = Idle
    BY <2>2 DEF Idle
  <2> QED BY <2>1, <2>2, <2>3, <2>4, <2>5, <2>6 DEF JobsFit, WorksFor, Kind
<1>3. ASSUME NEW t \in Tx, NEW r \in Row, NEW k \in Kind, NEW version \in Int, Move(t, r, k, version)
      PROVE  JobsFit'
  <2>1. /\ job' = job /\ ledger' = ledger
        /\ job[t].kind = k /\ job[t].order \in Order /\ job[t] # Idle
        /\ \A u \in Tx \ {t} : wrote'[u] = wrote[u] /\ todo'[u] = todo[u]
        /\ \A h \in Kind, q \in Row : h # k \/ q # r => wrote'[t][h][q] = wrote[t][h][q]
        /\ \A q \in Row \ {r} : todo'[t][q] = todo[t][q]
        /\ wrote'[t][k][r] = wrote[t][k][r] + todo[t][r]
        /\ todo'[t][r] = 0 /\ todo[t][r] > 0
    BY <1>3 DEF Move, StockTypeOK, Kind, Lines, Idle
  <2>2. ASSUME NEW u \in Tx, NEW o \in Order, WorksFor(u, o)
        PROVE  IF job[u].kind = "SALE" THEN SaleAlone(u, o)'
               ELSE /\ \E q \in Row : ledger[o]["SALE"][q] # 0
                    /\ \A q \in Row : wrote'[u]["SALE"][q] = 0
                    /\ IsMoving(u)' => ReturnsAll(u, o)'
    <3>1. CASE u # t
      BY <2>1, <2>2, <3>1 DEF JobsFit, SaleAlone, WorksFor, IsMoving, ReturnsAll
    <3>2. CASE u = t /\ k = "SALE"
      <4>1. SaleAlone(t, o)
        BY <2>1, <2>2, <3>2 DEF JobsFit
      <4>2. SaleAlone(t, o)'
        BY <2>1, <3>2, <4>1 DEF SaleAlone, WorksFor, Kind
      <4> QED BY <2>1, <3>2, <4>2
    <3>3. CASE u = t /\ k = "RETURN"
      <4>1. /\ \E q \in Row : ledger[o]["SALE"][q] # 0
            /\ \A q \in Row : wrote[t]["SALE"][q] = 0
            /\ ReturnsAll(t, o)
        BY <2>1, <2>2, <3>3 DEF JobsFit, IsMoving
      <4>2. \A q \in Row : wrote'[t]["SALE"][q] = 0
        BY <2>1, <3>3, <4>1 DEF Kind
      <4>3. ASSUME NEW q \in Row
            PROVE  wrote'[t]["RETURN"][q] + todo'[t][q] = wrote[t]["RETURN"][q] + todo[t][q]
        <5>1. /\ wrote[t]["RETURN"][q] \in Nat /\ todo[t][q] \in Nat
          BY DEF StockTypeOK, Kind, Lines
        <5>2. CASE q = r
          BY <2>1, <3>3, <5>1, <5>2
        <5>3. CASE q # r
          BY <2>1, <3>3, <5>3 DEF Kind
        <5> QED BY <5>2, <5>3
      <4>4. ReturnsAll(t, o)'
        BY <2>1, <4>1, <4>3 DEF ReturnsAll
      <4> QED BY <2>1, <3>3, <4>1, <4>2, <4>4
    <3> QED BY <3>1, <3>2, <3>3 DEF Kind
  <2>3. \A u \in Tx : job[u] = Idle => \A h \in Kind, q \in Row : wrote'[u][h][q] = 0
    BY <2>1 DEF JobsFit
  <2>4. \A u \in Tx, o \in Order : WorksFor(u, o)' <=> WorksFor(u, o)
    BY <2>1 DEF WorksFor
  <2> QED BY <2>1, <2>2, <2>3, <2>4 DEF JobsFit
<1>4. ASSUME NEW t \in Tx, NEW r \in Row, Deduct(t, r) \/ Restore(t, r)
      PROVE  JobsFit'
  BY <1>3, <1>4 DEF Deduct, Restore, StockTypeOK, Lines, Kind
<1>5. ASSUME NEW t \in Tx, EndTx(t),
             \A o \in Order : ~WorksFor(t, o) \/ job[t].kind = "RETURN" =>
                 \A r \in Row : ledger'[o]["SALE"][r] = ledger[o]["SALE"][r]
      PROVE  JobsFit'
  <2>1. /\ \A u \in Tx \ {t} : job'[u] = job[u] /\ wrote'[u] = wrote[u] /\ todo'[u] = todo[u]
        /\ job'[t] = Idle
        /\ \A k \in Kind, r \in Row : wrote'[t][k][r] = 0
    BY <1>5, EndLeaves
  <2>2. \A o \in Order : ~WorksFor(t, o)'
    BY <2>1 DEF WorksFor, Idle
  <2>3. ASSUME NEW u \in Tx \ {t}, NEW o \in Order, WorksFor(u, o)
        PROVE  \A r \in Row : ledger'[o]["SALE"][r] = ledger[o]["SALE"][r]
    <3>1. CASE ~WorksFor(t, o) \/ job[t].kind = "RETURN"
      BY <1>5, <3>1
    <3>2. CASE WorksFor(t, o) /\ job[t].kind = "SALE"
      BY <2>3, <3>2 DEF JobsFit, SaleAlone
    <3> QED BY <3>1, <3>2 DEF StockTypeOK, Kind
  <2>4. ASSUME NEW u \in Tx \ {t}, NEW o \in Order, WorksFor(u, o)
        PROVE  IF job[u].kind = "SALE" THEN SaleAlone(u, o)'
               ELSE /\ \E r \in Row : ledger'[o]["SALE"][r] # 0
                    /\ \A r \in Row : wrote'[u]["SALE"][r] = 0
                    /\ IsMoving(u)' => ReturnsAll(u, o)'
    BY <2>1, <2>2, <2>3, <2>4 DEF JobsFit, SaleAlone, WorksFor, IsMoving, ReturnsAll
  <2>5. \A u \in Tx \ {t}, o \in Order : WorksFor(u, o)' <=> WorksFor(u, o)
    BY <2>1 DEF WorksFor
  <2> QED BY <2>1, <2>2, <2>4, <2>5 DEF JobsFit
<1>6. ASSUME NEW t \in Tx, StockCommit(t)
      PROVE  JobsFit'
  <2>1. job[t].order \in Order /\ EndTx(t)
    BY <1>6 DEF StockCommit, StockTypeOK
  <2>2. \A o \in Order, k \in Kind, r \in Row :
           ledger'[o][k][r] = ledger[o][k][r] + IF WorksFor(t, o) THEN wrote[t][k][r] ELSE 0
    BY <1>6, <2>1 DEF StockCommit, StockTypeOK, WorksFor, Lines
  <2>3. ASSUME NEW o \in Order, ~WorksFor(t, o) \/ job[t].kind = "RETURN", NEW r \in Row
        PROVE  ledger'[o]["SALE"][r] = ledger[o]["SALE"][r]
    <3>1. WorksFor(t, o) => wrote[t]["SALE"][r] = 0
      BY <2>3 DEF JobsFit
    <3>2. ledger[o]["SALE"][r] \in Nat
      BY DEF StockTypeOK, Kind, Lines
    <3>3. ledger'[o]["SALE"][r] =
             ledger[o]["SALE"][r] + IF WorksFor(t, o) THEN wrote[t]["SALE"][r] ELSE 0
      BY <2>2 DEF Kind
    <3> QED BY <3>1, <3>2, <3>3
  <2> QED BY <1>5, <2>1, <2>3
<1>7. ASSUME NEW t \in Tx, StockRollback(t)
      PROVE  JobsFit'
  BY <1>5, <1>7 DEF StockRollback
<1>8. CASE UNCHANGED stockVars
  BY <1>8 DEF stockVars, JobsFit, SaleAlone, WorksFor, IsMoving, ReturnsAll
<1> QED
  BY <1>1, <1>2, <1>4, <1>6, <1>7, <1>8 DEF StockNext

\* An order stays returned a whole number of times: a return that counts joins
\* only while nothing is returned, and takes its place when it commits.
LEMMA ReturnsStep ==
    StockTypeOK /\ StockTypeOK' /\ BusyHasOrder /\ JobsFit /\ ReturnsFit /\ IsFiniteSet(Tx)
    /\ [StockNext]_stockVars => ReturnsFit'
<1> USE NoOrderAssumption
<1> SUFFICES ASSUME StockTypeOK, StockTypeOK', BusyHasOrder, JobsFit, ReturnsFit, IsFiniteSet(Tx),
                    [StockNext]_stockVars, NEW o \in Order
             PROVE  \E n \in Nat : WholeTimes(o, n)'
  BY DEF ReturnsFit
<1>1. ASSUME NEW t \in Tx, NEW p \in Order, NEW wanted \in Demands, BeginSale(t, p, wanted)
      PROVE  \E n \in Nat : WholeTimes(o, n)'
  <2>1. /\ job'[t].kind = "SALE" /\ ledger' = ledger /\ wrote' = wrote
        /\ \A u \in Tx \ {t} : job'[u] = job[u] /\ todo'[u] = todo[u]
    BY <1>1 DEF BeginSale, StockTypeOK
  <2>2. Returners(o)' \subseteq Returners(o)
    BY <2>1 DEF Returners, WorksFor, IsMoving
  <2> QED BY <2>1, <2>2, WholeUnmoved
<1>2. ASSUME NEW t \in Tx, NEW p \in Order, Placed(p), BeginReturn(t, p)
      PROVE  \E n \in Nat : WholeTimes(o, n)'
  <2>1. /\ job[t] = Idle /\ job'[t] = [order |-> p, kind |-> "RETURN"]
        /\ todo'[t] = RestoreLines(p)
        /\ ledger' = ledger /\ wrote' = wrote
        /\ \A u \in Tx \ {t} : job'[u] = job[u] /\ todo'[u] = todo[u]
    BY <1>2 DEF BeginReturn, StockTypeOK
  <2>2. \A k \in Kind, r \in Row : wrote[t][k][r] = 0
    BY <2>1 DEF JobsFit
  <2>3. CASE o = p /\ ~AlreadyReturned(o)
    <3>1. \A r \in Row : ledger[o]["RETURN"][r] = 0 /\ ledger[o]["SALE"][r] \in Nat
      BY <2>3 DEF AlreadyReturned, StockTypeOK, Kind, Lines
    <3>2. \A r \in Row : ledger'[o]["RETURN"][r] = 0 * ledger'[o]["SALE"][r]
      BY <2>1, <3>1
    <3>3. Returners(o)' \subseteq Tx
      BY DEF Returners
    <3>4. 0 + Cardinality(Returners(o)') <= Cardinality(Tx)
      BY <3>3, ReturnersFit
    <3> QED BY <3>2, <3>4 DEF WholeTimes
  <2>4. CASE o # p \/ AlreadyReturned(o)
    <3>1. t \notin Returners(o)'
      BY <2>1, <2>2, <2>4 DEF Returners, WorksFor, IsMoving, RestoreLines, None, Kind
    <3>2. Returners(o)' \subseteq Returners(o)
      BY <2>1, <3>1 DEF Returners, WorksFor, IsMoving
    <3> QED BY <2>1, <3>2, WholeUnmoved
  <2> QED BY <2>3, <2>4
<1>3. ASSUME NEW t \in Tx, NEW r \in Row, NEW k \in Kind, NEW version \in Int, Move(t, r, k, version)
      PROVE  \E n \in Nat : WholeTimes(o, n)'
  <2>1. /\ job' = job /\ ledger' = ledger /\ todo[t][r] > 0
        /\ \A u \in Tx \ {t} : wrote'[u] = wrote[u] /\ todo'[u] = todo[u]
    BY <1>3 DEF Move, StockTypeOK
  <2>2. IsMoving(t)
    BY <2>1 DEF IsMoving, StockTypeOK, Lines
  <2>3. Returners(o)' \subseteq Returners(o)
    BY <2>1, <2>2 DEF Returners, WorksFor, IsMoving
  <2> QED BY <2>1, <2>3, WholeUnmoved
<1>4. ASSUME NEW t \in Tx, NEW r \in Row, Deduct(t, r) \/ Restore(t, r)
      PROVE  \E n \in Nat : WholeTimes(o, n)'
  BY <1>3, <1>4 DEF Deduct, Restore, StockTypeOK, Lines, Kind
<1>5. ASSUME NEW t \in Tx, StockCommit(t)
      PROVE  \E n \in Nat : WholeTimes(o, n)'
  <2>1. job[t].order \in Order /\ EndTx(t) /\ todo[t] = None
    BY <1>5 DEF StockCommit, StockTypeOK
  <2>2. \A k \in Kind, r \in Row :
           ledger'[o][k][r] = ledger[o][k][r] + IF WorksFor(t, o) THEN wrote[t][k][r] ELSE 0
    BY <1>5, <2>1 DEF StockCommit, StockTypeOK, WorksFor, Lines
  <2>3. Returners(o)' = Returners(o) \ {t}
    BY <2>1, EndLeaves
  <2>4. \A k \in Kind, r \in Row : ledger[o][k][r] \in Nat /\ wrote[t][k][r] \in Nat
    BY DEF StockTypeOK, Kind, Lines
  <2>5. CASE \A r \in Row, k \in Kind : ledger'[o][k][r] = ledger[o][k][r]
    BY <2>3, <2>5, WholeUnmoved
  <2>6. CASE WorksFor(t, o) /\ job[t].kind = "SALE"
    <3>1. SaleAlone(t, o)
      BY <2>6 DEF JobsFit
    <3>2. \A r \in Row : ledger'[o]["RETURN"][r] = ledger[o]["RETURN"][r]
      BY <2>2, <2>4, <3>1 DEF SaleAlone, Kind
    <3>3. PICK n \in Nat : WholeTimes(o, n)
      BY DEF ReturnsFit
    <3>4. \A r \in Row : ledger'[o]["RETURN"][r] = 0
      BY <3>1, <3>2, <3>3 DEF WholeTimes, SaleAlone
    <3>5. \A r \in Row : ledger'[o]["RETURN"][r] = 0 * ledger'[o]["SALE"][r]
      BY <3>4 DEF StockTypeOK, Kind, Lines
    <3>6. Returners(o)' \subseteq Tx
      BY DEF Returners
    <3>7. 0 + Cardinality(Returners(o)') <= Cardinality(Tx)
      BY <3>6, ReturnersFit
    <3> QED BY <3>5, <3>7 DEF WholeTimes
  <2>7. CASE WorksFor(t, o) /\ job[t].kind = "RETURN" /\ IsMoving(t)
    <3>1. (\A r \in Row : wrote[t]["SALE"][r] = 0) /\ ReturnsAll(t, o)
      BY <2>7 DEF JobsFit
    <3>2. \A r \in Row : wrote[t]["RETURN"][r] = ledger[o]["SALE"][r]
      BY <2>1, <2>4, <3>1 DEF ReturnsAll, None, Kind
    <3>3. PICK n \in Nat : WholeTimes(o, n)
      BY DEF ReturnsFit
    <3>4. \A r \in Row : /\ ledger'[o]["SALE"][r] = ledger[o]["SALE"][r]
                         /\ ledger'[o]["RETURN"][r] = n * ledger[o]["SALE"][r] + ledger[o]["SALE"][r]
      BY <2>2, <2>4, <2>7, <3>1, <3>2, <3>3 DEF WholeTimes, Kind
    <3>5. \A r \in Row : ledger'[o]["RETURN"][r] = (n + 1) * ledger'[o]["SALE"][r]
      <4> SUFFICES ASSUME NEW r \in Row
                   PROVE  ledger'[o]["RETURN"][r] = (n + 1) * ledger'[o]["SALE"][r]
        OBVIOUS
      <4>1. \A s \in Nat : n * s + s = (n + 1) * s
        OBVIOUS
      <4>2. ledger[o]["SALE"][r] \in Nat
        BY <2>4 DEF Kind
      <4> HIDE <2>2
      <4> QED BY <3>4, <4>1, <4>2
    <3>6. t \in Returners(o)
      BY <2>7 DEF Returners
    <3>7. IsFiniteSet(Returners(o)) /\ Cardinality(Returners(o)) \in Nat
      <4>1. Returners(o) \subseteq Tx
        BY DEF Returners
      <4> QED BY <4>1, ReturnersFit
    <3>8. Cardinality(Returners(o)') = Cardinality(Returners(o)) - 1
      BY <2>3, <3>6, <3>7, FS_RemoveElement
    <3>9. (n + 1) + Cardinality(Returners(o)') <= Cardinality(Tx)
      BY <3>3, <3>7, <3>8, FS_CardinalityType DEF WholeTimes
    <3> QED BY <3>5, <3>9 DEF WholeTimes
  <2>8. CASE ~WorksFor(t, o)
    BY <2>2, <2>4, <2>5, <2>8
  <2>9. CASE WorksFor(t, o) /\ job[t].kind = "RETURN" /\ ~IsMoving(t)
    <3>1. \A k \in Kind, r \in Row : wrote[t][k][r] = 0
      BY <2>9 DEF JobsFit, IsMoving, Kind
    <3> QED BY <2>2, <2>4, <2>5, <3>1
  <2> QED BY <2>6, <2>7, <2>8, <2>9 DEF StockTypeOK, Kind
<1>6. ASSUME NEW t \in Tx, StockRollback(t)
      PROVE  \E n \in Nat : WholeTimes(o, n)'
  <2>1. Returners(o)' = Returners(o) \ {t} /\ ledger' = ledger
    BY <1>6, EndLeaves DEF StockRollback
  <2> QED BY <2>1, WholeUnmoved
<1>7. CASE UNCHANGED stockVars
  <2>1. Returners(o)' = Returners(o) /\ ledger' = ledger
    BY <1>7 DEF stockVars, Returners, WorksFor, IsMoving
  <2> QED BY <2>1, WholeUnmoved
<1> QED
  BY <1>1, <1>2, <1>4, <1>5, <1>6, <1>7 DEF StockNext

\* A cancellation gives an order back whole or not at all: what is returned is
\* the sale a whole number of times, and not more often than cancellations can
\* overlap (restoreStockForSale reads the ledger, then loops over the lines).
THEOREM ReturnsAreWholeAlways == IsFiniteSet(Tx) => (StockSpec => []ReturnsAreWhole)
<1> SUFFICES ASSUME IsFiniteSet(Tx) PROVE StockSpec => []ReturnsAreWhole
  OBVIOUS
<1>1. StockInit => JobsFit /\ ReturnsFit
  BY ReturnsInitially
<1>2. LedgerInv /\ LedgerInv' /\ JobsFit /\ ReturnsFit /\ [StockNext]_stockVars => JobsFit' /\ ReturnsFit'
  BY JobsStep, ReturnsStep DEF LedgerInv
<1>3. LedgerInv /\ ReturnsFit => ReturnsAreWhole
  <2> SUFFICES ASSUME LedgerInv, ReturnsFit, NEW o \in Order
               PROVE  \E n \in 0..Cardinality(Tx) :
                         ledger[o]["RETURN"] = [r \in Row |-> n * ledger[o]["SALE"][r]]
    BY DEF ReturnsAreWhole
  <2>1. PICK n \in Nat : WholeTimes(o, n)
    BY DEF ReturnsFit
  <2>2. Returners(o) \subseteq Tx
    BY DEF Returners
  <2>3. n \in 0..Cardinality(Tx)
    BY <2>1, <2>2, ReturnersFit DEF WholeTimes
  <2>4. ledger[o]["RETURN"] \in [Row -> Nat]
    BY DEF LedgerInv, StockTypeOK, Kind, Lines
  <2>5. ledger[o]["RETURN"] = [r \in Row |-> n * ledger[o]["SALE"][r]]
    BY <2>1, <2>4 DEF WholeTimes
  <2> QED BY <2>3, <2>5
<1> QED BY <1>1, <1>2, <1>3, LedgerInvHolds, PTL DEF StockSpec

-----------------------------------------------------------------------------
(* PromoCodes.                                                             *)

HasClaim(t) == claim[t] # NoClaim

\* A claim that took its use: the row is locked until the transaction ends.
Holding(t, c) ==
    /\ HasClaim(t)
    /\ claim[t].code = c
    /\ claim[t].stage \in {"reserved", "recorded"}

-----------------------------------------------------------------------------
\* A step of a checkout or of an edit keeps every table's shape.
LEMMA PromoTypeStep ==
    PromoTypeOK /\ [PromoNext]_promoVars => PromoTypeOK'
<1> USE LimitAssumption, KeepAssumption, NoCodeAssumption
<1> SUFFICES ASSUME PromoTypeOK, [PromoNext]_promoVars
             PROVE  PromoTypeOK'
  OBVIOUS
<1> USE DEF PromoTypeOK
<1>1. ASSUME NEW t \in Tx, NEW c \in Code, NEW by \in Customer, NEW o \in Order,
             FindCode(t, c, by, o)
      PROVE  PromoTypeOK'
  <2> DEFINE row == View(promo, promoDraft, promoHolder, t)[c]
  <2>1. row \in PromoRow
    BY DEF View
  <2> HIDE DEF row
  <2>2. [stage |-> "found", code |-> c, read |-> row, by |-> by, order |-> o] \in Claim
    BY <2>1 DEF Claim, Stage
  <2>3. claim' = [claim EXCEPT ![t] =
           [stage |-> "found", code |-> c, read |-> row, by |-> by, order |-> o]]
    BY <1>1 DEF FindCode, row
  <2> QED BY <1>1, <2>2, <2>3 DEF FindCode
<1>2. ASSUME NEW t \in Tx, CountForCustomer(t)
      PROVE  PromoTypeOK'
  <2>1. claim[t] \in Claim
    BY <1>2 DEF CountForCustomer, NoClaim
  <2>2. [claim[t] EXCEPT !.stage = "counted"] \in Claim
    BY <2>1 DEF Claim, Stage
  <2> QED BY <1>2, <2>2 DEF CountForCustomer
<1>3. ASSUME NEW t \in Tx, Reserve(t)
      PROVE  PromoTypeOK'
  <2>1. claim[t] \in Claim
    BY <1>3 DEF Reserve, NoClaim
  <2>2. [claim[t] EXCEPT !.stage = "reserved"] \in Claim
    BY <2>1 DEF Claim, Stage
  <2>3. claim[t].code \in Code
    BY <2>1 DEF Claim
  <2>4. [promoDraft[claim[t].code] EXCEPT !.usedCount = @ + 1] \in PromoRow
    BY <2>3 DEF PromoRow
  <2> QED BY <1>3, <2>2, <2>3, <2>4 DEF Reserve, Lock
<1>4. ASSUME NEW t \in Tx, RecordRedemption(t)
      PROVE  PromoTypeOK'
  <2>1. claim[t] \in Claim
    BY <1>4 DEF RecordRedemption, NoClaim
  <2>2. [claim[t] EXCEPT !.stage = "recorded"] \in Claim
    BY <2>1 DEF Claim, Stage
  <2> QED BY <1>4, <2>2 DEF RecordRedemption
<1>5. ASSUME NEW t \in Tx, HasClaim(t), PromoCommit(t)
      PROVE  PromoTypeOK'
  <2>1. Written(t) \subseteq Redemption
    BY <1>5 DEF HasClaim, Written, Claim, Redemption
  <2>2. promo' \in [Code -> PromoRow]
    BY <1>5 DEF PromoCommit, View
  <2> QED BY <1>5, <2>1, <2>2 DEF PromoCommit, PromoEnd, Unlock
<1>6. ASSUME NEW t \in Tx, PromoRollback(t)
      PROVE  PromoTypeOK'
  BY <1>6 DEF PromoRollback, PromoEnd, Unlock, Discard
<1>7. ASSUME NEW a \in Admin, NEW c \in Code, ReadForEdit(a, c)
      PROVE  PromoTypeOK'
  BY <1>7 DEF ReadForEdit, Edit
<1>8. ASSUME NEW a \in Admin, NEW dto \in Edits, UpdateCode(a, dto)
      PROVE  PromoTypeOK'
  <2> DEFINE c   == edit[a].code
             row == [promo[c] EXCEPT !.usageLimit = Patched(@, dto.usageLimit),
                                     !.perUser    = Patched(@, dto.perUser),
                                     !.active     = Patched(@, dto.active)]
  <2>1. c \in Code
    BY <1>8 DEF UpdateCode, Edit
  <2>2. row \in PromoRow
    <3>1. /\ dto.usageLimit \in Nat \cup {Keep}
          /\ dto.perUser \in Nat \cup {Keep}
          /\ dto.active \in BOOLEAN \cup {Keep}
      BY EditsAssumption
    <3>2. promo[c] \in PromoRow
      BY <2>1
    <3>3. Patched(promo[c].usageLimit, dto.usageLimit) \in Limit
      BY <3>1, <3>2 DEF Patched, PromoRow, Limit
    <3>4. Patched(promo[c].perUser, dto.perUser) \in Limit
      BY <3>1, <3>2 DEF Patched, PromoRow, Limit
    <3>5. promo[c].active \in BOOLEAN
      BY <3>2 DEF PromoRow
    <3>6. Patched(promo[c].active, dto.active) \in BOOLEAN
      BY <3>1, <3>5, Zenon DEF Patched
    <3> HIDE DEF c
    <3> QED BY <3>2, <3>3, <3>4, <3>6 DEF PromoRow
  <2> HIDE DEF row
  <2>3. /\ promo' = [promo EXCEPT ![c] = row]
        /\ promoDraft' = [promoDraft EXCEPT ![c] = row]
        /\ edit' = [edit EXCEPT ![a] = NoEdit]
        /\ UNCHANGED <<promoHolder, redemptions, claim>>
    BY <1>8 DEF UpdateCode, row
  <2> HIDE DEF c
  <2> QED BY <2>1, <2>2, <2>3
<1>9. ASSUME NEW a \in Admin, RefuseEdit(a)
      PROVE  PromoTypeOK'
  BY <1>9 DEF RefuseEdit
<1>10. CASE UNCHANGED promoVars
  BY <1>10 DEF promoVars
<1> QED
  BY <1>1, <1>2, <1>3, <1>4, <1>5, <1>6, <1>7, <1>8, <1>9, <1>10 DEF PromoNext, HasClaim

\* A created code is well typed.
LEMMA PromoTypeInitially == PromoInit => PromoTypeOK
BY LimitAssumption, NoCodeAssumption, TermsAssumption
DEF PromoInit, PromoTypeOK, NewRow, PromoRow

\* Every state of a run is well typed; what an edit leaves out keeps the value
\* of the row (validateAndReserveForOrder, updatePromoCode).
THEOREM PromoTypeCorrect == PromoSpec => []PromoTypeOK
BY PromoTypeInitially, PromoTypeStep, PTL DEF PromoSpec

-----------------------------------------------------------------------------
(* Counter and ledger.  A committed redemption row and the use it stands   *)
(* for appear in the same commit because the transaction that recorded the *)
(* row is the one that still holds the lock it took to count the use, and  *)
(* because no two open orders share an id: the row is new.                 *)

OfCode(S, c) == {x \in S : x.code = c}

LocksAreClaims == \A c \in Code, t \in Tx : promoHolder[c] = t <=> Holding(t, c)

OrdersAreFresh ==
    /\ \A t \in Tx : HasClaim(t) => \A x \in redemptions : x.order # claim[t].order
    /\ \A t, u \in Tx : HasClaim(t) /\ HasClaim(u) /\ t # u => claim[t].order # claim[u].order

\* An open transaction is at most one use ahead of what is committed, and is
\* ahead only while it holds the row.
OneUseAhead ==
    \A c \in Code :
        promoDraft[c].usedCount = promo[c].usedCount + IF promoHolder[c] = NoTx THEN 0 ELSE 1

CounterInv ==
    /\ PromoTypeOK
    /\ IsFiniteSet(redemptions)
    /\ LocksAreClaims
    /\ OrdersAreFresh
    /\ OneUseAhead
    /\ UsedIsRedeemed

\* All of it but the shape of the tables.
CounterRest ==
    IsFiniteSet(redemptions) /\ LocksAreClaims /\ OrdersAreFresh /\ OneUseAhead /\ UsedIsRedeemed

\* What a transaction leaves in the ledger at its commit.
LEMMA WrittenRow ==
    ASSUME CounterInv, NEW t \in Tx, HasClaim(t), PromoCommit(t)
    PROVE  LET x == [code |-> claim[t].code, by |-> claim[t].by, order |-> claim[t].order]
           IN  /\ redemptions' = redemptions \cup {x}
               /\ x \notin redemptions
               /\ claim[t].stage = "recorded"
<1> DEFINE x == [code |-> claim[t].code, by |-> claim[t].by, order |-> claim[t].order]
<1>1. claim[t].stage = "recorded"
  BY DEF PromoCommit, CounterInv, PromoTypeOK, HasClaim, Claim, Stage
<1>2. redemptions' = redemptions \cup {x}
  BY <1>1 DEF PromoCommit, Written
<1>3. x \notin redemptions
  <2>1. \A y \in redemptions : y.order # claim[t].order
    BY DEF CounterInv, OrdersAreFresh
  <2>2. x.order = claim[t].order
    OBVIOUS
  <2> QED BY <2>1, <2>2
<1> QED BY <1>1, <1>2, <1>3

\* A redemption raises the count of its own code by one and of no other
\* (recordRedemption, countRedemptionsForCustomer).
LEMMA CountAfterRedemption ==
    ASSUME NEW S, IsFiniteSet(S), NEW x, x \notin S, NEW c
    PROVE  Cardinality(OfCode(S \cup {x}, c)) =
           Cardinality(OfCode(S, c)) + IF x.code = c THEN 1 ELSE 0
<1> DEFINE T == OfCode(S, c)
           U == OfCode(S \cup {x}, c)
<1>1. T \in SUBSET S
  BY DEF OfCode
<1>2. x \notin T /\ U = IF x.code = c THEN T \cup {x} ELSE T
  BY DEF OfCode
<1> SUFFICES Cardinality(U) = Cardinality(T) + IF x.code = c THEN 1 ELSE 0
  OBVIOUS
<1> HIDE DEF T, U
<1>3. IsFiniteSet(T)
  BY <1>1, FS_Subset
<1>4. Cardinality(T) \in Nat
  BY <1>3, FS_CardinalityType
<1>5. Cardinality(T \cup {x}) = Cardinality(T) + 1
  BY <1>2, <1>3, FS_AddElement
<1> QED BY <1>2, <1>4, <1>5

\* At the start nothing is redeemed, claimed or counted.
LEMMA CounterInitially == PromoInit => CounterRest
<1> USE NoTxAssumption
<1> SUFFICES ASSUME PromoInit PROVE CounterRest
  OBVIOUS
<1>1. redemptions = {} /\ \A c \in Code : OfCode(redemptions, c) = {}
  BY DEF PromoInit, OfCode
<1>2. IsFiniteSet(redemptions) /\ Cardinality({}) = 0
  BY <1>1, FS_EmptySet
<1>3. UsedIsRedeemed
  <2>1. \A c \in Code : promo[c].usedCount = 0
    BY DEF PromoInit, NewRow
  <2>2. \A c \in Code : Redeemed(c) = 0
    BY <1>1, <1>2 DEF Redeemed, OfCode
  <2> QED BY <2>1, <2>2 DEF UsedIsRedeemed
<1>4. LocksAreClaims
  BY DEF PromoInit, LocksAreClaims, Holding, HasClaim
<1>5. OrdersAreFresh
  BY DEF PromoInit, OrdersAreFresh, HasClaim
<1>6. OneUseAhead
  BY DEF PromoInit, OneUseAhead, NewRow
<1> QED BY <1>2, <1>3, <1>4, <1>5, <1>6 DEF CounterRest

\* Locks, ids, counter and ledger are inductive together (incrementUsageGuarded
\* to the commit or the rollback of the order's transaction).
LEMMA CounterStep ==
    CounterInv /\ PromoTypeOK' /\ [PromoNext]_promoVars => CounterRest'
<1> USE NoTxAssumption
<1> SUFFICES ASSUME CounterInv, PromoTypeOK', [PromoNext]_promoVars
             PROVE  CounterRest'
  OBVIOUS
<1> USE DEF CounterInv, CounterRest
<1>1. ASSUME NEW t \in Tx, NEW c \in Code, NEW by \in Customer, NEW o \in Order,
             UnredeemedOrder(o), FindCode(t, c, by, o)
      PROVE  CounterRest'
  <2> DEFINE row == View(promo, promoDraft, promoHolder, t)[c]
  <2>1. /\ claim[t] = NoClaim
        /\ claim' = [claim EXCEPT ![t] =
              [stage |-> "found", code |-> c, read |-> row, by |-> by, order |-> o]]
        /\ UNCHANGED <<promo, promoDraft, promoHolder, redemptions>>
    BY <1>1 DEF FindCode
  <2> HIDE DEF row
  <2>2. LocksAreClaims'
    BY <2>1 DEF LocksAreClaims, Holding, HasClaim, PromoTypeOK, NoClaim
  <2>3. OrdersAreFresh'
    BY <1>1, <2>1 DEF OrdersAreFresh, HasClaim, PromoTypeOK, UnredeemedOrder, NoClaim
  <2> QED BY <2>1, <2>2, <2>3 DEF OneUseAhead, UsedIsRedeemed, Redeemed
<1>2. ASSUME NEW t \in Tx, CountForCustomer(t)
      PROVE  CounterRest'
  BY <1>2 DEF CountForCustomer, LocksAreClaims, Holding, HasClaim, PromoTypeOK, NoClaim,
              OrdersAreFresh, OneUseAhead, UsedIsRedeemed, Redeemed, Claim
<1>3. ASSUME NEW t \in Tx, Reserve(t)
      PROVE  CounterRest'
  <2> DEFINE c == claim[t].code
  <2>1. /\ claim[t] \in Claim
        /\ c \in Code
        /\ promoHolder[c] = NoTx
    BY <1>3 DEF Reserve, Free, LocksAreClaims, Holding, HasClaim, PromoTypeOK, NoClaim, Claim
  <2>2. LocksAreClaims'
    BY <1>3, <2>1 DEF Reserve, Lock, LocksAreClaims, Holding, HasClaim, PromoTypeOK, NoClaim, Claim
  <2>3. OrdersAreFresh'
    BY <1>3, <2>1 DEF Reserve, OrdersAreFresh, HasClaim, PromoTypeOK, NoClaim, Claim
  <2>4. OneUseAhead'
    BY <1>3, <2>1 DEF Reserve, Lock, OneUseAhead, PromoTypeOK, PromoRow
  <2> QED BY <1>3, <2>2, <2>3, <2>4 DEF Reserve, UsedIsRedeemed, Redeemed
<1>4. ASSUME NEW t \in Tx, RecordRedemption(t)
      PROVE  CounterRest'
  BY <1>4 DEF RecordRedemption, LocksAreClaims, Holding, HasClaim, PromoTypeOK, NoClaim,
              OrdersAreFresh, OneUseAhead, UsedIsRedeemed, Redeemed, Claim
<1>5. ASSUME NEW t \in Tx, HasClaim(t), PromoCommit(t)
      PROVE  CounterRest'
  <2> DEFINE x == [code |-> claim[t].code, by |-> claim[t].by, order |-> claim[t].order]
  <2>1. /\ redemptions' = redemptions \cup {x}
        /\ x \notin redemptions
        /\ claim[t].stage = "recorded"
    BY <1>5, WrittenRow
  <2>2. /\ claim[t].code \in Code
        /\ \A c \in Code : promoHolder[c] = t <=> c = claim[t].code
    BY <1>5, <2>1 DEF LocksAreClaims, Holding, HasClaim, PromoTypeOK, Claim
  <2>3. IsFiniteSet(redemptions')
    BY <2>1, FS_AddElement
  <2>4. LocksAreClaims'
    BY <1>5 DEF PromoCommit, PromoEnd, Unlock, LocksAreClaims, Holding, HasClaim, PromoTypeOK
  <2>5. OrdersAreFresh'
    <3>1. \A u \in Tx : HasClaim(u)' => u # t /\ HasClaim(u) /\ claim'[u] = claim[u]
      BY <1>5 DEF PromoCommit, PromoEnd, HasClaim, PromoTypeOK
    <3>2. x.order = claim[t].order
      OBVIOUS
    <3> HIDE DEF x
    <3> QED BY <1>5, <2>1, <3>1, <3>2 DEF OrdersAreFresh
  <2>6. OneUseAhead'
    BY <1>5 DEF PromoCommit, PromoEnd, Unlock, View, OneUseAhead, PromoTypeOK, PromoRow
  <2>7. UsedIsRedeemed'
    <3> SUFFICES ASSUME NEW c \in Code PROVE promo'[c].usedCount = Redeemed(c)'
      BY DEF UsedIsRedeemed
    <3>1. promo'[c].usedCount = promo[c].usedCount + IF claim[t].code = c THEN 1 ELSE 0
      BY <1>5, <2>2 DEF PromoCommit, View, OneUseAhead, PromoTypeOK, PromoRow
    <3>2. x.code = claim[t].code
      OBVIOUS
    <3> HIDE DEF x
    <3>3. Redeemed(c)' = Redeemed(c) + IF x.code = c THEN 1 ELSE 0
      <4>1. /\ Redeemed(c) = Cardinality(OfCode(redemptions, c))
            /\ Redeemed(c)' = Cardinality(OfCode(redemptions \cup {x}, c))
        BY <2>1 DEF Redeemed, OfCode
      <4> QED BY <2>1, <4>1, CountAfterRedemption
    <3> QED BY <3>1, <3>2, <3>3 DEF UsedIsRedeemed
  <2> QED BY <2>3, <2>4, <2>5, <2>6, <2>7
<1>6. ASSUME NEW t \in Tx, PromoRollback(t)
      PROVE  CounterRest'
  <2>1. LocksAreClaims'
    BY <1>6 DEF PromoRollback, PromoEnd, Unlock, LocksAreClaims, Holding, HasClaim, PromoTypeOK
  <2>2. OrdersAreFresh'
    BY <1>6 DEF PromoRollback, PromoEnd, OrdersAreFresh, HasClaim, PromoTypeOK
  <2>3. OneUseAhead'
    BY <1>6 DEF PromoRollback, PromoEnd, Unlock, Discard, OneUseAhead, PromoTypeOK, PromoRow
  <2> QED BY <1>6, <2>1, <2>2, <2>3 DEF PromoRollback, UsedIsRedeemed, Redeemed
<1>7. ASSUME NEW a \in Admin, NEW c \in Code, ReadForEdit(a, c)
      PROVE  CounterRest'
  BY <1>7 DEF ReadForEdit, LocksAreClaims, Holding, HasClaim, OrdersAreFresh, OneUseAhead,
              UsedIsRedeemed, Redeemed
<1>8. ASSUME NEW a \in Admin, NEW dto \in Edits, UpdateCode(a, dto)
      PROVE  CounterRest'
  <2> DEFINE c   == edit[a].code
             row == [promo[c] EXCEPT !.usageLimit = Patched(@, dto.usageLimit),
                                     !.perUser    = Patched(@, dto.perUser),
                                     !.active     = Patched(@, dto.active)]
  <2>1. /\ c \in Code
        /\ promoHolder[c] = NoTx
        /\ promo' = [promo EXCEPT ![c] = row]
        /\ promoDraft' = [promoDraft EXCEPT ![c] = row]
        /\ UNCHANGED <<promoHolder, redemptions, claim>>
    BY <1>8, NoCodeAssumption DEF UpdateCode, PromoTypeOK, Edit, NoEdit
  <2>2. row.usedCount = promo[c].usedCount
    BY <2>1 DEF PromoTypeOK, PromoRow
  <2> HIDE DEF row, c
  <2>3. OneUseAhead'
    BY <2>1, <2>2 DEF OneUseAhead, PromoTypeOK, PromoRow
  <2>4. UsedIsRedeemed'
    BY <2>1, <2>2 DEF UsedIsRedeemed, Redeemed, PromoTypeOK
  <2> QED BY <2>1, <2>3, <2>4 DEF LocksAreClaims, Holding, HasClaim, OrdersAreFresh
<1>9. ASSUME NEW a \in Admin, RefuseEdit(a)
      PROVE  CounterRest'
  BY <1>9 DEF RefuseEdit, LocksAreClaims, Holding, HasClaim, OrdersAreFresh, OneUseAhead,
              UsedIsRedeemed, Redeemed
<1>10. CASE UNCHANGED promoVars
  BY <1>10 DEF promoVars, LocksAreClaims, Holding, HasClaim, OrdersAreFresh, OneUseAhead,
              UsedIsRedeemed, Redeemed
<1> HIDE DEF CounterRest
<1> QED
  BY <1>1, <1>2, <1>3, <1>4, <1>5, <1>6, <1>7, <1>8, <1>9, <1>10 DEF PromoNext, HasClaim

\* With the shape of the tables the invariant is inductive.
LEMMA CounterInvStep == CounterInv /\ [PromoNext]_promoVars => CounterInv'
BY PromoTypeStep, CounterStep DEF CounterInv, CounterRest

\* Counter, ledger, locks and ids agree in every state of a run.
LEMMA CounterInvHolds == PromoSpec => []CounterInv
BY CounterInitially, CounterStep, PromoTypeCorrect, PTL DEF PromoSpec, CounterInv, CounterRest

\* usedCount is the number of committed redemptions of the code, whatever was
\* rolled back and whatever an admin saved in between (recordRedemption).
THEOREM CounterFollowsLedger == PromoSpec => []UsedIsRedeemed
BY CounterInvHolds, PTL DEF CounterInv

\* A locked code is one use ahead of its committed row, an unlocked one is not
\* (incrementUsageGuarded, undone by the rollback of withTransaction).
THEOREM ReservationIsOneUse == PromoSpec => []OneUseAhead
BY CounterInvHolds, PTL DEF CounterInv

-----------------------------------------------------------------------------
(* The usage limit.  incrementUsageGuarded tests the live counter against  *)
(* a limit read earlier; that is enough as long as no edit moves the limit.*)

\* Every version of the limit in sight is the committed one, and no version of
\* the counter has passed it.
LimitInv ==
    /\ \A c \in Code : promoDraft[c].usageLimit = promo[c].usageLimit
    /\ \A t \in Tx : HasClaim(t) =>
          claim[t].read.usageLimit = promo[claim[t].code].usageLimit
    /\ \A c \in Code : promo[c].usageLimit # NoLimit =>
          promoDraft[c].usedCount <= promo[c].usageLimit

\* At the start every version of a limit is the one the code was created with.
LEMMA LimitInitially == PromoInit => LimitInv
<1> SUFFICES ASSUME PromoInit PROVE LimitInv
  OBVIOUS
<1>1. \A c \in Code : promo[c] = NewRow(c) /\ promoDraft[c] = NewRow(c)
  BY DEF PromoInit
<1>2. \A c \in Code : Terms[c].usageLimit \in Nat \cup {NoLimit}
  BY TermsAssumption DEF Limit
<1> QED BY <1>1, <1>2 DEF LimitInv, PromoInit, NewRow, HasClaim

\* What the invariant says of the limit of a committed code.
LEMMA LimitFollows == LimitInv /\ CounterInv => WithinLimit
<1> USE LimitAssumption
<1> SUFFICES ASSUME LimitInv, CounterInv, NEW c \in Code, promo[c].usageLimit # NoLimit
             PROVE  Redeemed(c) <= promo[c].usageLimit
  BY DEF WithinLimit
<1>1. Redeemed(c) = promo[c].usedCount
  BY DEF CounterInv, UsedIsRedeemed
<1>2. promo[c].usedCount <= promoDraft[c].usedCount
  BY DEF CounterInv, OneUseAhead, PromoTypeOK, PromoRow
<1>3. promoDraft[c].usedCount <= promo[c].usageLimit
  BY DEF LimitInv
<1>4. /\ promo[c].usageLimit \in Nat
      /\ promo[c].usedCount \in Nat
      /\ promoDraft[c].usedCount \in Nat
  BY DEF CounterInv, PromoTypeOK, PromoRow, Limit
<1> QED BY <1>1, <1>2, <1>3, <1>4

\* No step leaves a version of the limit behind, or a counter past it, unless
\* it is an edit that moves the limit.
LEMMA LimitStep ==
    LimitInv /\ CounterInv /\ [PromoNext]_promoVars
    /\ (\A a \in Admin, dto \in Edits : UpdateCode(a, dto) => dto.usageLimit = Keep)
    => LimitInv'
<1> USE NoTxAssumption, LimitAssumption
<1> SUFFICES ASSUME LimitInv, CounterInv, [PromoNext]_promoVars,
                    \A a \in Admin, dto \in Edits : UpdateCode(a, dto) => dto.usageLimit = Keep
             PROVE  LimitInv'
  OBVIOUS
<1> USE DEF LimitInv
<1> PromoTypeOK /\ OneUseAhead /\ LocksAreClaims
  BY DEF CounterInv
<1>1. ASSUME NEW t \in Tx, NEW c \in Code, NEW by \in Customer, NEW o \in Order,
             FindCode(t, c, by, o)
      PROVE  LimitInv'
  <2> DEFINE row == View(promo, promoDraft, promoHolder, t)[c]
  <2>1. row.usageLimit = promo[c].usageLimit
    BY DEF View, PromoTypeOK
  <2>2. /\ claim[t] = NoClaim
        /\ claim' = [claim EXCEPT ![t] =
              [stage |-> "found", code |-> c, read |-> row, by |-> by, order |-> o]]
        /\ UNCHANGED <<promo, promoDraft>>
    BY <1>1 DEF FindCode
  <2> HIDE DEF row
  <2> QED BY <2>1, <2>2 DEF HasClaim, PromoTypeOK
<1>2. ASSUME NEW t \in Tx, CountForCustomer(t)
      PROVE  LimitInv'
  BY <1>2 DEF CountForCustomer, HasClaim, PromoTypeOK, NoClaim, Claim
<1>3. ASSUME NEW t \in Tx, Reserve(t)
      PROVE  LimitInv'
  <2> DEFINE c == claim[t].code
  <2>1. /\ claim[t] \in Claim
        /\ c \in Code
    BY <1>3 DEF Reserve, PromoTypeOK, NoClaim, Claim
  <2>2. \A u \in Tx : HasClaim(u)' => HasClaim(u) /\ claim'[u].code = claim[u].code
                                     /\ claim'[u].read = claim[u].read
    BY <1>3, <2>1 DEF Reserve, HasClaim, PromoTypeOK, NoClaim, Claim
  <2>3. promo[c].usageLimit # NoLimit => promoDraft[c].usedCount < promo[c].usageLimit
    BY <1>3, <2>1 DEF Reserve, Below, HasClaim, NoClaim, Claim
  <2>4. /\ promo[c].usageLimit \in Nat \cup {NoLimit}
        /\ promoDraft[c].usedCount \in Nat
    BY <2>1 DEF PromoTypeOK, PromoRow, Limit
  <2>5. /\ promo' = promo
        /\ promoDraft' = [promoDraft EXCEPT ![c].usedCount = @ + 1]
    BY <1>3 DEF Reserve
  <2> HIDE DEF c
  <2>6. /\ promoDraft'[c].usedCount = promoDraft[c].usedCount + 1
        /\ promoDraft'[c].usageLimit = promoDraft[c].usageLimit
        /\ \A b \in Code \ {c} : promoDraft'[b] = promoDraft[b]
    BY <2>1, <2>5 DEF PromoTypeOK, PromoRow
  <2>7. \A b \in Code : promo'[b].usageLimit # NoLimit =>
           promoDraft'[b].usedCount <= promo'[b].usageLimit
    BY <2>3, <2>4, <2>5, <2>6
  <2>8. \A u \in Tx : HasClaim(u)' =>
           claim'[u].read.usageLimit = promo'[claim'[u].code].usageLimit
    BY <2>2, <2>5
  <2>9. \A b \in Code : promoDraft'[b].usageLimit = promo'[b].usageLimit
    BY <2>5, <2>6
  <2> QED BY <2>7, <2>8, <2>9
<1>4. ASSUME NEW t \in Tx, RecordRedemption(t)
      PROVE  LimitInv'
  BY <1>4 DEF RecordRedemption, HasClaim, PromoTypeOK, NoClaim, Claim
<1>5. ASSUME NEW t \in Tx, HasClaim(t), PromoCommit(t)
      PROVE  LimitInv'
  BY <1>5 DEF PromoCommit, PromoEnd, View, HasClaim, PromoTypeOK, NoClaim, Claim
<1>6. ASSUME NEW t \in Tx, PromoRollback(t)
      PROVE  LimitInv'
  <2>1. \A c \in Code : promo[c].usedCount <= promoDraft[c].usedCount
    BY DEF OneUseAhead, PromoTypeOK, PromoRow
  <2>2. \A c \in Code : /\ promo[c].usageLimit \in Nat \cup {NoLimit}
                        /\ promo[c].usedCount \in Nat
                        /\ promoDraft[c].usedCount \in Nat
    BY DEF PromoTypeOK, PromoRow, Limit
  <2> QED BY <1>6, <2>1, <2>2 DEF PromoRollback, PromoEnd, Discard, HasClaim, PromoTypeOK
<1>7. ASSUME NEW a \in Admin, NEW c \in Code, ReadForEdit(a, c)
      PROVE  LimitInv'
  BY <1>7 DEF ReadForEdit, HasClaim
<1>8. ASSUME NEW a \in Admin, NEW dto \in Edits, UpdateCode(a, dto)
      PROVE  LimitInv'
  <2> DEFINE c   == edit[a].code
             row == [promo[c] EXCEPT !.usageLimit = Patched(@, dto.usageLimit),
                                     !.perUser    = Patched(@, dto.perUser),
                                     !.active     = Patched(@, dto.active)]
  <2>1. /\ c \in Code
        /\ promoHolder[c] = NoTx
        /\ promo' = [promo EXCEPT ![c] = row]
        /\ promoDraft' = [promoDraft EXCEPT ![c] = row]
        /\ UNCHANGED claim
    BY <1>8, NoCodeAssumption DEF UpdateCode, PromoTypeOK, Edit, NoEdit
  <2>2. row.usedCount = promo[c].usedCount /\ row.usageLimit = promo[c].usageLimit
    BY <1>8, <2>1 DEF PromoTypeOK, PromoRow, Patched
  <2>3. promoDraft[c].usedCount = promo[c].usedCount
    BY <2>1 DEF OneUseAhead, PromoTypeOK, PromoRow
  <2>4. \A t \in Tx : HasClaim(t) => claim[t].code \in Code
    BY DEF HasClaim, PromoTypeOK, Claim
  <2> HIDE DEF row, c
  <2> QED BY <2>1, <2>2, <2>3, <2>4 DEF HasClaim, PromoTypeOK
<1>9. ASSUME NEW a \in Admin, RefuseEdit(a)
      PROVE  LimitInv'
  BY <1>9 DEF RefuseEdit, HasClaim
<1>10. CASE UNCHANGED promoVars
  BY <1>10 DEF promoVars, HasClaim
<1> HIDE DEF LimitInv
<1> QED
  BY <1>1, <1>2, <1>3, <1>4, <1>5, <1>6, <1>7, <1>8, <1>9, <1>10 DEF PromoNext, HasClaim

\* A code is redeemed at most usageLimit times, in any interleaving of any
\* number of checkouts with edits that leave usageLimit alone (Reserve).
THEOREM LimitKept ==
    ASSUME \A dto \in Edits : dto.usageLimit = Keep
    PROVE  PromoSpec => []WithinLimit
<1>1. LimitInv /\ CounterInv /\ [PromoNext]_promoVars => LimitInv'
  BY LimitStep
<1> QED BY <1>1, LimitInitially, LimitFollows, CounterInvHolds, PTL DEF PromoSpec
-----------------------------------------------------------------------------
(* The limit per customer.  assertNotOverPerUserLimit tests committed      *)
(* redemptions and nothing is locked until the commit, so only the number  *)
(* of checkouts that overlap bounds how far the limit is passed.           *)

\* Every version of the limit per customer in sight is the committed one.
PerUserInv ==
    /\ \A c \in Code : promoDraft[c].perUser = promo[c].perUser
    /\ \A t \in Tx : HasClaim(t) => claim[t].read.perUser = promo[claim[t].code].perUser

ByCustomer(S, c, by) == {x \in S : x.code = c /\ x.by = by}

\* A redemption raises a customer's count by one at most, and not at all unless
\* it is this customer's redemption of this code.
LEMMA CustomerCountAfterRedemption ==
    ASSUME NEW S, IsFiniteSet(S), NEW x, x \notin S, NEW c, NEW by
    PROVE  /\ Cardinality(ByCustomer(S, c, by)) \in Nat
           /\ Cardinality(ByCustomer(S \cup {x}, c, by)) =
              Cardinality(ByCustomer(S, c, by)) + IF x.code = c /\ x.by = by THEN 1 ELSE 0
<1> DEFINE T == ByCustomer(S, c, by)
           U == ByCustomer(S \cup {x}, c, by)
<1>1. T \in SUBSET S
  BY DEF ByCustomer
<1>2. x \notin T /\ U = IF x.code = c /\ x.by = by THEN T \cup {x} ELSE T
  BY DEF ByCustomer
<1> SUFFICES /\ Cardinality(T) \in Nat
             /\ Cardinality(U) = Cardinality(T) + IF x.code = c /\ x.by = by THEN 1 ELSE 0
  OBVIOUS
<1> HIDE DEF T, U
<1>3. IsFiniteSet(T)
  BY <1>1, FS_Subset
<1>4. Cardinality(T) \in Nat
  BY <1>3, FS_CardinalityType
<1>5. Cardinality(T \cup {x}) = Cardinality(T) + 1
  BY <1>2, <1>3, FS_AddElement
<1> QED BY <1>2, <1>4, <1>5

\* The checkouts that have counted are some of the open ones.
LEMMA CountedFits ==
    ASSUME IsFiniteSet(Tx), NEW S, S \subseteq Tx
    PROVE  IsFiniteSet(S) /\ Cardinality(S) \in Nat /\ Cardinality(S) <= Cardinality(Tx)
           /\ Cardinality(Tx) \in Nat
BY FS_Subset, FS_CardinalityType

\* A checkout that leaves takes itself out of those that have counted.
LEMMA CountedLeaves ==
    ASSUME IsFiniteSet(Tx), NEW S, S \subseteq Tx, NEW t \in Tx
    PROVE  /\ Cardinality(S \ {t}) <= Cardinality(S)
           /\ t \in S => Cardinality(S \ {t}) = Cardinality(S) - 1
<1>1. IsFiniteSet(S)
  BY CountedFits
<1>2. Cardinality(S \ {t}) = IF t \in S THEN Cardinality(S) - 1 ELSE Cardinality(S)
  BY <1>1, FS_RemoveElement
<1> QED BY <1>1, <1>2, CountedFits
\* At the start every version is the one the code was created with.
LEMMA PerUserInitially == PromoInit => PerUserInv
BY DEF PromoInit, PerUserInv, NewRow, HasClaim

\* No step leaves a version of the limit behind, unless it is an edit of it.
LEMMA PerUserStep ==
    PerUserInv /\ PromoTypeOK /\ [PromoNext]_promoVars /\ (\A dto \in Edits : dto.perUser = Keep)
    => PerUserInv'
<1> SUFFICES ASSUME PerUserInv, PromoTypeOK, [PromoNext]_promoVars,
                    \A dto \in Edits : dto.perUser = Keep
             PROVE  PerUserInv'
  OBVIOUS
<1> USE DEF PerUserInv
<1>1. ASSUME NEW t \in Tx, NEW c \in Code, NEW by \in Customer, NEW o \in Order,
             FindCode(t, c, by, o)
      PROVE  PerUserInv'
  <2> DEFINE row == View(promo, promoDraft, promoHolder, t)[c]
  <2>1. row.perUser = promo[c].perUser
    BY DEF View, PromoTypeOK
  <2>2. /\ claim[t] = NoClaim
        /\ claim' = [claim EXCEPT ![t] =
              [stage |-> "found", code |-> c, read |-> row, by |-> by, order |-> o]]
        /\ UNCHANGED <<promo, promoDraft>>
    BY <1>1 DEF FindCode
  <2> HIDE DEF row
  <2> QED BY <2>1, <2>2 DEF HasClaim, PromoTypeOK
<1>2. ASSUME NEW t \in Tx, CountForCustomer(t)
      PROVE  PerUserInv'
  BY <1>2 DEF CountForCustomer, HasClaim, PromoTypeOK, NoClaim, Claim
<1>3. ASSUME NEW t \in Tx, Reserve(t)
      PROVE  PerUserInv'
  <2>1. claim[t] \in Claim /\ claim[t].code \in Code
    BY <1>3 DEF Reserve, PromoTypeOK, NoClaim, Claim
  <2>2. \A u \in Tx : HasClaim(u)' => HasClaim(u) /\ claim'[u].code = claim[u].code
                                     /\ claim'[u].read = claim[u].read
    BY <1>3, <2>1 DEF Reserve, HasClaim, PromoTypeOK, NoClaim, Claim
  <2>3. \A c \in Code : promoDraft'[c].perUser = promoDraft[c].perUser
    BY <1>3, <2>1 DEF Reserve, PromoTypeOK, PromoRow
  <2> QED BY <1>3, <2>2, <2>3 DEF Reserve
<1>4. ASSUME NEW t \in Tx, RecordRedemption(t)
      PROVE  PerUserInv'
  BY <1>4 DEF RecordRedemption, HasClaim, PromoTypeOK, NoClaim, Claim
<1>5. ASSUME NEW t \in Tx, HasClaim(t), PromoCommit(t)
      PROVE  PerUserInv'
  BY <1>5 DEF PromoCommit, PromoEnd, View, HasClaim, PromoTypeOK, NoClaim, Claim
<1>6. ASSUME NEW t \in Tx, PromoRollback(t)
      PROVE  PerUserInv'
  BY <1>6 DEF PromoRollback, PromoEnd, Discard, HasClaim, PromoTypeOK
<1>7. ASSUME NEW a \in Admin, NEW c \in Code, ReadForEdit(a, c)
      PROVE  PerUserInv'
  BY <1>7 DEF ReadForEdit, HasClaim
<1>8. ASSUME NEW a \in Admin, NEW dto \in Edits, UpdateCode(a, dto)
      PROVE  PerUserInv'
  <2> DEFINE c   == edit[a].code
             row == [promo[c] EXCEPT !.usageLimit = Patched(@, dto.usageLimit),
                                     !.perUser    = Patched(@, dto.perUser),
                                     !.active     = Patched(@, dto.active)]
  <2>1. /\ c \in Code
        /\ promo' = [promo EXCEPT ![c] = row]
        /\ promoDraft' = [promoDraft EXCEPT ![c] = row]
        /\ UNCHANGED claim
    BY <1>8, NoCodeAssumption DEF UpdateCode, PromoTypeOK, Edit, NoEdit
  <2>2. row.perUser = promo[c].perUser
    BY <1>8, <2>1 DEF PromoTypeOK, PromoRow, Patched
  <2>3. \A t \in Tx : HasClaim(t) => claim[t].code \in Code
    BY DEF HasClaim, PromoTypeOK, Claim
  <2> HIDE DEF row, c
  <2> QED BY <2>1, <2>2, <2>3 DEF HasClaim, PromoTypeOK
<1>9. ASSUME NEW a \in Admin, RefuseEdit(a)
      PROVE  PerUserInv'
  BY <1>9 DEF RefuseEdit, HasClaim
<1>10. CASE UNCHANGED promoVars
  BY <1>10 DEF promoVars, HasClaim
<1> HIDE DEF PerUserInv
<1> QED
  BY <1>1, <1>2, <1>3, <1>4, <1>5, <1>6, <1>7, <1>8, <1>9, <1>10 DEF PromoNext, HasClaim

\* The committed limit is edited by nobody.
LEMMA PerUserStands ==
    PerUserInv /\ PerUserInv' /\ CounterInv /\ [PromoNext]_promoVars
    /\ (\A dto \in Edits : dto.perUser = Keep)
    => \A c \in Code : promo'[c].perUser = promo[c].perUser
<1> SUFFICES ASSUME PerUserInv, PerUserInv', CounterInv, [PromoNext]_promoVars,
                    \A dto \in Edits : dto.perUser = Keep, NEW c \in Code
             PROVE  promo'[c].perUser = promo[c].perUser
  OBVIOUS
<1> USE DEF PerUserInv
<1>1. ASSUME NEW t \in Tx, PromoCommit(t)
      PROVE  promo'[c].perUser = promo[c].perUser
  BY <1>1 DEF PromoCommit, View, CounterInv, PromoTypeOK
<1>2. ASSUME NEW a \in Admin, NEW dto \in Edits, UpdateCode(a, dto)
      PROVE  promo'[c].perUser = promo[c].perUser
  BY <1>2 DEF UpdateCode, CounterInv, PromoTypeOK, PromoRow, Patched
<1> QED
  BY <1>1, <1>2 DEF PromoNext, promoVars, FindCode, CountForCustomer, Reserve, RecordRedemption,
                    PromoRollback, ReadForEdit, RefuseEdit

\* The redemptions of a customer and the checkouts that counted them grow
\* together by a checkout that finds a free use, and by no other step.
LEMMA OverrunStep ==
    OverlapsAloneOverrun /\ PerUserInv /\ CounterInv /\ [PromoNext]_promoVars
    /\ (\A c \in Code : promo'[c].perUser = promo[c].perUser) /\ IsFiniteSet(Tx)
    => OverlapsAloneOverrun'
<1> USE LimitAssumption
<1> SUFFICES ASSUME OverlapsAloneOverrun, PerUserInv, CounterInv, [PromoNext]_promoVars,
                    \A c \in Code : promo'[c].perUser = promo[c].perUser, IsFiniteSet(Tx),
                    NEW c \in Code, NEW by \in Customer \ Anonymous, promo[c].perUser # NoLimit
             PROVE  RedeemedBy(c, by)' + Cardinality(Counted(c, by)')
                       <= promo[c].perUser + Cardinality(Tx) - 1
  BY DEF OverlapsAloneOverrun
<1>t. PromoTypeOK /\ IsFiniteSet(redemptions)
  BY DEF CounterInv
<1>a. /\ RedeemedBy(c, by) \in Nat
      /\ Cardinality(Counted(c, by)) \in Nat
      /\ Cardinality(Tx) \in Nat
      /\ promo[c].perUser \in Nat
      /\ RedeemedBy(c, by) + Cardinality(Counted(c, by)) <= promo[c].perUser + Cardinality(Tx) - 1
  <2>1. RedeemedBy(c, by) \in Nat
    <3>1. {x \in redemptions : x.code = c /\ x.by = by} \in SUBSET redemptions
      OBVIOUS
    <3> QED BY <3>1, <1>t, FS_Subset, FS_CardinalityType DEF RedeemedBy
  <2>2. Counted(c, by) \subseteq Tx
    BY DEF Counted
  <2>3. promo[c].perUser \in Nat
    BY <1>t DEF PromoTypeOK, PromoRow, Limit
  <2> QED BY <2>1, <2>2, <2>3, CountedFits DEF OverlapsAloneOverrun
<1>b. Counted(c, by) \subseteq Tx /\ Counted(c, by)' \subseteq Tx
  BY DEF Counted
<1>c. ASSUME RedeemedBy(c, by)' = RedeemedBy(c, by), Counted(c, by)' = Counted(c, by)
      PROVE  RedeemedBy(c, by)' + Cardinality(Counted(c, by)')
                <= promo[c].perUser + Cardinality(Tx) - 1
  BY <1>a, <1>c
<1>1. ASSUME NEW t \in Tx, NEW d \in Code, NEW who \in Customer, NEW o \in Order,
             FindCode(t, d, who, o)
      PROVE  RedeemedBy(c, by)' + Cardinality(Counted(c, by)')
                <= promo[c].perUser + Cardinality(Tx) - 1
  <2>1. claim[t] = NoClaim /\ claim'[t].stage = "found" /\ redemptions' = redemptions
        /\ \A u \in Tx \ {t} : claim'[u] = claim[u]
    BY <1>1, <1>t DEF FindCode, PromoTypeOK
  <2>2. Counted(c, by)' = Counted(c, by)
    BY <2>1 DEF Counted
  <2> QED BY <1>c, <2>1, <2>2 DEF RedeemedBy
<1>2. ASSUME NEW t \in Tx, CountForCustomer(t)
      PROVE  RedeemedBy(c, by)' + Cardinality(Counted(c, by)')
                <= promo[c].perUser + Cardinality(Tx) - 1
  <2>1. /\ claim[t] \in Claim /\ claim[t].stage = "found" /\ redemptions' = redemptions
        /\ claim' = [claim EXCEPT ![t].stage = "counted"]
        /\ Below(RedeemedBy(claim[t].code, claim[t].by), claim[t].read.perUser)
    BY <1>2, <1>t DEF CountForCustomer, PromoTypeOK, NoClaim
  <2>2. RedeemedBy(c, by)' = RedeemedBy(c, by)
    BY <2>1 DEF RedeemedBy
  <2>3. CASE claim[t].code = c /\ claim[t].by = by
    <3>1. claim[t].read.perUser = promo[c].perUser
      BY <2>1, <2>3 DEF PerUserInv, HasClaim, NoClaim, Claim
    <3>2. RedeemedBy(c, by) < promo[c].perUser
      BY <2>1, <2>3, <3>1 DEF Below
    <3>3. Cardinality(Counted(c, by)') \in Nat /\ Cardinality(Counted(c, by)') <= Cardinality(Tx)
      BY <1>b, CountedFits
    <3> QED BY <1>a, <2>2, <3>2, <3>3
  <2>4. CASE ~(claim[t].code = c /\ claim[t].by = by)
    <3>1. /\ claim'[t].code = claim[t].code /\ claim'[t].by = claim[t].by
          /\ \A u \in Tx \ {t} : claim'[u] = claim[u]
      BY <2>1, <1>t DEF PromoTypeOK, Claim
    <3>2. Counted(c, by)' = Counted(c, by)
      BY <2>1, <2>4, <3>1 DEF Counted
    <3> QED BY <1>c, <2>2, <3>2
  <2> QED BY <2>3, <2>4
<1>3. ASSUME NEW t \in Tx, Reserve(t) \/ RecordRedemption(t)
      PROVE  RedeemedBy(c, by)' + Cardinality(Counted(c, by)')
                <= promo[c].perUser + Cardinality(Tx) - 1
  <2>1. /\ claim[t] \in Claim /\ claim[t].stage # "found" /\ redemptions' = redemptions
        /\ \E s \in {"reserved", "recorded"} : claim' = [claim EXCEPT ![t].stage = s]
    BY <1>3, <1>t DEF Reserve, RecordRedemption, PromoTypeOK, NoClaim
  <2>2. /\ claim'[t].code = claim[t].code /\ claim'[t].by = claim[t].by
        /\ claim'[t].stage # "found"
        /\ claim[t] # NoClaim /\ claim'[t] # NoClaim
        /\ \A u \in Tx \ {t} : claim'[u] = claim[u]
    BY <2>1, <1>t DEF PromoTypeOK, Claim, NoClaim
  <2>3. Counted(c, by)' = Counted(c, by)
    BY <2>1, <2>2 DEF Counted
  <2> QED BY <1>c, <2>1, <2>3 DEF RedeemedBy
<1>4. ASSUME NEW t \in Tx, claim' = [claim EXCEPT ![t] = NoClaim]
      PROVE  Counted(c, by)' = Counted(c, by) \ {t}
  BY <1>4, <1>t DEF Counted, PromoTypeOK
<1>5. ASSUME NEW t \in Tx, HasClaim(t), PromoCommit(t)
      PROVE  RedeemedBy(c, by)' + Cardinality(Counted(c, by)')
                <= promo[c].perUser + Cardinality(Tx) - 1
  <2> DEFINE x == [code |-> claim[t].code, by |-> claim[t].by, order |-> claim[t].order]
  <2>1. redemptions' = redemptions \cup {x} /\ x \notin redemptions /\ claim[t].stage = "recorded"
    BY <1>5, WrittenRow
  <2>2. Counted(c, by)' = Counted(c, by) \ {t}
    BY <1>4, <1>5 DEF PromoCommit, PromoEnd
  <2>3. x.code = claim[t].code /\ x.by = claim[t].by
    OBVIOUS
  <2> HIDE DEF x
  <2>4. RedeemedBy(c, by)' = RedeemedBy(c, by) + IF x.code = c /\ x.by = by THEN 1 ELSE 0
    <3>1. /\ RedeemedBy(c, by) = Cardinality(ByCustomer(redemptions, c, by))
          /\ RedeemedBy(c, by)' = Cardinality(ByCustomer(redemptions \cup {x}, c, by))
      BY <2>1 DEF RedeemedBy, ByCustomer
    <3> QED BY <1>t, <2>1, <3>1, CustomerCountAfterRedemption
  <2>5. x.code = c /\ x.by = by => t \in Counted(c, by)
    BY <1>5, <2>1, <2>3 DEF Counted, HasClaim
  <2>6. /\ Cardinality(Counted(c, by) \ {t}) <= Cardinality(Counted(c, by))
        /\ t \in Counted(c, by) =>
              Cardinality(Counted(c, by) \ {t}) = Cardinality(Counted(c, by)) - 1
        /\ Cardinality(Counted(c, by) \ {t}) \in Nat
    <3>1. Counted(c, by) \ {t} \subseteq Tx
      BY <1>b
    <3> QED BY <1>b, <3>1, CountedLeaves, CountedFits
  <2> QED BY <1>a, <2>2, <2>4, <2>5, <2>6
<1>6. ASSUME NEW t \in Tx, PromoRollback(t)
      PROVE  RedeemedBy(c, by)' + Cardinality(Counted(c, by)')
                <= promo[c].perUser + Cardinality(Tx) - 1
  <2>1. Counted(c, by)' = Counted(c, by) \ {t} /\ redemptions' = redemptions
    BY <1>4, <1>6 DEF PromoRollback, PromoEnd
  <2>2. RedeemedBy(c, by)' = RedeemedBy(c, by)
    BY <2>1 DEF RedeemedBy
  <2>3. Cardinality(Counted(c, by) \ {t}) <= Cardinality(Counted(c, by))
        /\ Cardinality(Counted(c, by) \ {t}) \in Nat
    <3>1. Counted(c, by) \ {t} \subseteq Tx
      BY <1>b
    <3> QED BY <1>b, <3>1, CountedLeaves, CountedFits
  <2> QED BY <1>a, <2>1, <2>2, <2>3
<1>7. ASSUME UNCHANGED <<redemptions, claim>>
      PROVE  RedeemedBy(c, by)' + Cardinality(Counted(c, by)')
                <= promo[c].perUser + Cardinality(Tx) - 1
  <2>1. RedeemedBy(c, by)' = RedeemedBy(c, by) /\ Counted(c, by)' = Counted(c, by)
    BY <1>7 DEF RedeemedBy, Counted
  <2> QED BY <1>c, <2>1
<1>8. ASSUME NEW a \in Admin, (\E d \in Code : ReadForEdit(a, d))
                              \/ (\E dto \in Edits : UpdateCode(a, dto)) \/ RefuseEdit(a)
      PROVE  UNCHANGED <<redemptions, claim>>
  BY <1>8 DEF ReadForEdit, UpdateCode, RefuseEdit
<1>9. CASE UNCHANGED promoVars
  BY <1>7, <1>9 DEF promoVars
<1> QED
  BY <1>1, <1>2, <1>3, <1>5, <1>6, <1>7, <1>8, <1>9 DEF PromoNext, HasClaim

\* A customer passes usageLimitPerUser by overlapping checkouts only, and by
\* fewer uses than there are of them at a time, as long as no edit moves that
\* limit; with one transaction at a time it is the limit itself
\* (assertNotOverPerUserLimit counts what is committed and locks nothing).
THEOREM OverrunsAreOverlaps ==
    ASSUME \A dto \in Edits : dto.perUser = Keep, IsFiniteSet(Tx), Tx # {}
    PROVE  PromoSpec => []OverlapsAloneOverrun
<1>1. PromoInit => OverlapsAloneOverrun
  <2> SUFFICES ASSUME PromoInit, NEW c \in Code, NEW by \in Customer \ Anonymous,
                      promo[c].perUser # NoLimit
               PROVE  RedeemedBy(c, by) + Cardinality(Counted(c, by))
                         <= promo[c].perUser + Cardinality(Tx) - 1
    BY DEF OverlapsAloneOverrun
  <2>1. RedeemedBy(c, by) = 0
    <3>1. {x \in redemptions : x.code = c /\ x.by = by} = {}
      BY DEF PromoInit
    <3> QED BY <3>1, FS_EmptySet DEF RedeemedBy
  <2>2. Counted(c, by) = {}
    BY DEF PromoInit, Counted
  <2>3. Cardinality(Counted(c, by)) = 0
    BY <2>2, FS_EmptySet
  <2>4. Cardinality(Tx) \in Nat /\ Cardinality(Tx) # 0
    BY FS_EmptySet, FS_CardinalityType
  <2>5. promo[c].perUser \in Nat
    BY TermsAssumption, LimitAssumption DEF PromoInit, NewRow, Limit
  <2> QED BY <2>1, <2>3, <2>4, <2>5
<1>2. CounterInv /\ PerUserInv /\ [PromoNext]_promoVars => PerUserInv'
  BY PerUserStep DEF CounterInv
<1>3. CounterInv /\ PerUserInv /\ PerUserInv' /\ OverlapsAloneOverrun /\ [PromoNext]_promoVars
      => OverlapsAloneOverrun'
  BY PerUserStands, OverrunStep
<1> QED BY <1>1, <1>2, <1>3, PerUserInitially, CounterInvHolds, PTL DEF PromoSpec

-----------------------------------------------------------------------------
(* OrderBook.                                                              *)

Open(t) == request[t] # NoRequest

\* What a request asks for fits its endpoint.
AskedForSense ==
    \A t \in Tx : Open(t) =>
        /\ request[t].kind = "status" => request[t].to \in OrderStatus
        /\ request[t].kind = "payment" =>
              request[t].to \in PaymentStatus /\ request[t].seen.status \in OrderStatus

ShapeInv == BookTypeOK /\ AskedForSense

\* PENDING is a status an order can have, NONE stands for no order (OrderStatus).
LEMMA Statuses == "PENDING" \in OrderStatus /\ "NONE" \notin OrderStatus
BY DEF OrderStatus, AllowedTransitions

\* updateStatus always computes a payment status of the enum (PAID, VOIDED or
\* the one it read).
LEMMA NewPayType ==
    ASSUME NEW o \in Order, NEW s, NEW seen \in OrderRow
    PROVE  NewPay(o, s, seen) \in PaymentStatus
BY DEF NewPay, OrderRow, PaymentStatus

-----------------------------------------------------------------------------
\* A request that advances keeps everything else it carries.
LEMMA Advancing ==
    ASSUME NEW t \in Tx, NEW next \in {"read", "charged", "written"},
           ShapeInv, Open(t), Advance(t, next)
    PROVE  /\ request' \in [Tx -> Request \cup {NoRequest}]
           /\ AskedForSense'
           /\ \A u \in Tx \ {t} : request'[u] = request[u]
           /\ request[t] \in Request
           /\ request'[t] \in Request
           /\ request'[t] = [request[t] EXCEPT !.stage = next]
<1>1. request[t] \in Request
  BY DEF ShapeInv, BookTypeOK, Open
<1>2. [request[t] EXCEPT !.stage = next] \in Request
  BY <1>1 DEF Request
<1>3. request' = [request EXCEPT ![t] = [request[t] EXCEPT !.stage = next]]
  BY DEF Advance
<1>4. request' \in [Tx -> Request \cup {NoRequest}]
  BY <1>2, <1>3 DEF ShapeInv, BookTypeOK
<1>5. /\ [request[t] EXCEPT !.stage = next].kind = request[t].kind
      /\ [request[t] EXCEPT !.stage = next].to = request[t].to
      /\ [request[t] EXCEPT !.stage = next].seen = request[t].seen
  BY <1>1 DEF Request
<1>6. AskedForSense'
  BY <1>3, <1>5 DEF AskedForSense, ShapeInv, BookTypeOK, Open
<1> QED BY <1>1, <1>2, <1>3, <1>4, <1>6 DEF ShapeInv, BookTypeOK

-----------------------------------------------------------------------------
\* Before the first order every table has its shape.
LEMMA ShapeInitially == BookInit => ShapeInv
BY NoTxAssumption
DEF BookInit, ShapeInv, BookTypeOK, AskedForSense, Open, NoRow, OrderRow, PaymentStatus

\* A step of a request or of a placement keeps every table's shape.
LEMMA ShapeStep ==
    ShapeInv /\ [BookNext]_bookVars => ShapeInv'
<1> USE NoTxAssumption
<1> SUFFICES ASSUME ShapeInv, [BookNext]_bookVars
             PROVE  ShapeInv'
  OBVIOUS
<1> BookTypeOK /\ AskedForSense
  BY DEF ShapeInv
<1>1. ASSUME NEW o \in Order, AddOrder(o)
      PROVE  ShapeInv'
  <2>1. /\ [book[o] EXCEPT !.status = "PENDING"] \in OrderRow
        /\ [bookDraft[o] EXCEPT !.status = "PENDING"] \in OrderRow
    <3>1. book[o] \in OrderRow /\ bookDraft[o] \in OrderRow
      BY DEF BookTypeOK
    <3>2. \A row \in OrderRow : [row EXCEPT !.status = "PENDING"] \in OrderRow
      BY Statuses DEF OrderRow
    <3> QED BY <3>1, <3>2
  <2>2. <<"PENDING">> \in Seq(OrderStatus)
    BY Statuses
  <2>3. book' \in [Order -> OrderRow] /\ bookDraft' \in [Order -> OrderRow]
    BY <1>1, <2>1 DEF AddOrder, BookTypeOK
  <2>4. history' \in [Order -> Seq(OrderStatus)]
    BY <1>1, <2>2 DEF AddOrder, BookTypeOK
  <2> QED BY <1>1, <2>3, <2>4 DEF AddOrder, ShapeInv, BookTypeOK, AskedForSense, Open
<1>2. ASSUME NEW t \in Tx, NEW o \in Order, NEW s \in StatusEdits, ReadForStatus(t, o, s)
      PROVE  ShapeInv'
  <2> DEFINE r == [stage |-> "read", kind |-> "status", order |-> o,
                   to |-> s, seen |-> book[o], noted |-> TRUE]
  <2>1. r \in Request /\ r.kind = "status" /\ r.to \in OrderStatus
    BY StatusEditsAssumption DEF Request, BookTypeOK
  <2>2. request' = [request EXCEPT ![t] = r]
    BY <1>2 DEF ReadForStatus
  <2> HIDE DEF r
  <2> QED BY <1>2, <2>1, <2>2 DEF ReadForStatus, ShapeInv, BookTypeOK, AskedForSense, Open
<1>3. ASSUME NEW t \in Tx, SettleCharge(t)
      PROVE  ShapeInv'
  <2>1. Open(t) /\ Advance(t, "charged")
    BY <1>3 DEF SettleCharge, Serves, Open
  <2>2. NewPay(request[t].order, request[t].to, request[t].seen) \in PaymentStatus
    BY <2>1, Advancing, NewPayType DEF Request
  <2>3. chargeDraft' \in [Order -> PaymentStatus] /\ chargeHolder' \in [Order -> Tx \cup {NoTx}]
    <3> DEFINE o == request[t].order
               p == NewPay(o, request[t].to, request[t].seen)
    <3>1. WriteCharge(t, o, p) \/ UNCHANGED <<chargeDraft, chargeHolder>>
      BY <1>3 DEF SettleCharge
    <3>2. p \in PaymentStatus
      BY <2>2
    <3> HIDE DEF p, o
    <3>3. CASE WriteCharge(t, o, p)
      <4>1. /\ chargeDraft' = [chargeDraft EXCEPT ![o] = p]
            /\ chargeHolder' = [chargeHolder EXCEPT ![o] = t]
        BY <3>3 DEF WriteCharge, Lock
      <4> QED BY <3>2, <4>1 DEF BookTypeOK
    <3>4. CASE UNCHANGED <<chargeDraft, chargeHolder>>
      BY <3>4 DEF BookTypeOK
    <3> QED BY <3>1, <3>3, <3>4
  <2> QED BY <1>3, <2>1, <2>3, Advancing DEF SettleCharge, ShapeInv, BookTypeOK
<1>4. ASSUME NEW t \in Tx, WriteStatus(t)
      PROVE  ShapeInv'
  <2> DEFINE r   == request[t]
             row == [status |-> r.to,
                     pay |-> IF Settles(r) THEN NewPay(r.order, r.to, r.seen)
                             ELSE bookDraft[r.order].pay]
  <2>1. Open(t) /\ Advance(t, "written") /\ r.kind = "status"
    BY <1>4 DEF WriteStatus, Serves, Open
  <2>2. /\ r.order \in Order
        /\ NewPay(r.order, r.to, r.seen) \in PaymentStatus
        /\ r.to \in OrderStatus
    BY <2>1, Advancing, NewPayType DEF Request, AskedForSense
  <2>3. bookDraft[r.order].pay \in PaymentStatus
    BY <2>2 DEF BookTypeOK, OrderRow
  <2>4. row \in OrderRow
    BY <2>2, <2>3 DEF OrderRow
  <2>5. WriteOrder(t, r.order, row)
    BY <1>4 DEF WriteStatus
  <2> HIDE DEF row
  <2>6. bookDraft' \in [Order -> OrderRow] /\ bookHolder' \in [Order -> Tx \cup {NoTx}]
    BY <2>4, <2>5 DEF WriteOrder, Lock, BookTypeOK
  <2> QED BY <1>4, <2>1, <2>6, Advancing DEF WriteStatus, ShapeInv, BookTypeOK
<1>5. ASSUME NEW t \in Tx, NEW o \in Order, NEW p \in PayEdits, NEW noted \in BOOLEAN,
             ReadForPayment(t, o, p, noted)
      PROVE  ShapeInv'
  <2> DEFINE r == [stage |-> "read", kind |-> "payment", order |-> o,
                   to |-> p, seen |-> book[o], noted |-> noted]
  <2>1. p \in PaymentStatus /\ book[o] \in OrderRow /\ book[o].status \in OrderStatus
    BY <1>5, PayEditsAssumption DEF ReadForPayment, BookTypeOK, OrderRow
  <2>2. r \in Request
    BY <2>1 DEF Request
  <2>3. request' = [request EXCEPT ![t] = r]
    BY <1>5 DEF ReadForPayment
  <2>4. r.kind = "payment" /\ r.to \in PaymentStatus /\ r.seen.status \in OrderStatus
    BY <2>1
  <2> HIDE DEF r
  <2> QED BY <1>5, <2>2, <2>3, <2>4 DEF ReadForPayment, ShapeInv, BookTypeOK, AskedForSense, Open
<1>6. ASSUME NEW t \in Tx, WritePayment(t)
      PROVE  ShapeInv'
  <2>1. Open(t) /\ Advance(t, "charged") /\ request[t].kind = "payment"
    BY <1>6 DEF WritePayment, Serves, Open
  <2>2. request[t].order \in Order /\ request[t].to \in PaymentStatus
    BY <2>1, Advancing DEF Request, AskedForSense
  <2>3. [bookDraft[request[t].order] EXCEPT !.pay = request[t].to] \in OrderRow
    BY <2>2 DEF BookTypeOK, OrderRow
  <2>4. bookDraft' \in [Order -> OrderRow] /\ bookHolder' \in [Order -> Tx \cup {NoTx}]
    BY <1>6, <2>3 DEF WritePayment, WriteOrder, Lock, BookTypeOK
  <2> QED BY <1>6, <2>1, <2>4, Advancing DEF WritePayment, ShapeInv, BookTypeOK
<1>7. ASSUME NEW t \in Tx, WritePaymentCharge(t)
      PROVE  ShapeInv'
  <2>1. Open(t) /\ Advance(t, "written") /\ request[t].kind = "payment"
    BY <1>7 DEF WritePaymentCharge, Serves, Open
  <2>2. request[t].to \in PaymentStatus
    BY <2>1 DEF AskedForSense
  <2>3. chargeDraft' \in [Order -> PaymentStatus] /\ chargeHolder' \in [Order -> Tx \cup {NoTx}]
    BY <1>7, <2>2 DEF WritePaymentCharge, WriteCharge, Lock, BookTypeOK
  <2> QED BY <1>7, <2>1, <2>3, Advancing DEF WritePaymentCharge, ShapeInv, BookTypeOK
<1>8. ASSUME NEW t \in Tx, Open(t), BookCommit(t)
      PROVE  ShapeInv'
  <2> DEFINE r == request[t]
  <2>1. r \in Request /\ r.order \in Order
    BY <1>8 DEF Open, BookTypeOK, Request
  <2>2. HistoryRow(r) \in Seq(OrderStatus)
    <3>1. r.kind = "status" \/ r.kind = "payment"
      BY <2>1 DEF Request
    <3> QED BY <1>8, <3>1 DEF HistoryRow, AskedForSense
  <2>3. history[r.order] \o HistoryRow(r) \in Seq(OrderStatus)
    BY <2>1, <2>2, ConcatProperties DEF BookTypeOK
  <2>4. history' \in [Order -> Seq(OrderStatus)]
    BY <1>8, <2>3 DEF BookCommit, BookTypeOK
  <2>5. book' \in [Order -> OrderRow] /\ charge' \in [Order -> PaymentStatus]
    BY <1>8 DEF BookCommit, View, BookTypeOK
  <2> QED BY <1>8, <2>4, <2>5
          DEF BookCommit, BookEnd, Unlock, ShapeInv, BookTypeOK, AskedForSense, Open
<1>9. ASSUME NEW t \in Tx, BookRollback(t)
      PROVE  ShapeInv'
  BY <1>9 DEF BookRollback, BookEnd, Unlock, Discard, ShapeInv, BookTypeOK, AskedForSense, Open
<1>10. CASE UNCHANGED bookVars
  BY <1>10 DEF bookVars, ShapeInv, BookTypeOK, AskedForSense, Open
<1>11. \A t \in Tx : BookCommit(t) => Open(t)
  BY DEF BookCommit, Open, NoRequest
<1> QED
  BY <1>1, <1>2, <1>3, <1>4, <1>5, <1>6, <1>7, <1>8, <1>9, <1>10, <1>11 DEF BookNext, AdminStep

\* Every state of a run is well typed (updateStatus, updatePaymentStatus).
LEMMA ShapeInvHolds == BookSpec => []ShapeInv
BY ShapeInitially, ShapeStep, PTL DEF BookSpec

\* Orders, charges, histories and requests keep their shape in every state of
\* a run (createStatusHistory appends a status, never a payment status).
THEOREM BookTypeCorrect == BookSpec => []BookTypeOK
BY ShapeInvHolds, PTL DEF ShapeInv

-----------------------------------------------------------------------------
(* Order and charge.  What a request holds follows from how far it is: the *)
(* order row once it wrote the status or the payment, the charge row once  *)
(* it settled the charge.  A request that commits holds both rows with the *)
(* same payment, or holds the order row alone with the payment unmoved.    *)

WroteOrder(r)  == r.stage = "written" \/ (r.stage = "charged" /\ r.kind = "payment")

WroteCharge(r) == IF r.kind = "payment" THEN r.stage = "written"
                  ELSE r.stage # "read" /\ Settles(r)

\* The payment a request is about to commit, where it moves the payment.
NewPayment(r) == IF r.kind = "payment" THEN r.to ELSE NewPay(r.order, r.to, r.seen)

Moves(r) == r.kind = "payment" \/ Settles(r)

OrderLocks == \A o \in Order, t \in Tx :
    bookHolder[o] = t <=> Open(t) /\ request[t].order = o /\ WroteOrder(request[t])

ChargeLocks == \A o \in Order, t \in Tx :
    chargeHolder[o] = t <=> Open(t) /\ request[t].order = o /\ WroteCharge(request[t])

OrderDrafts == \A o \in Order :
    /\ bookHolder[o] = NoTx => bookDraft[o].pay = book[o].pay
    /\ \A t \in Tx : bookHolder[o] = t =>
          bookDraft[o].pay = IF Moves(request[t]) THEN NewPayment(request[t]) ELSE book[o].pay

ChargeDrafts == \A o \in Order :
    /\ chargeHolder[o] = NoTx => chargeDraft[o] = charge[o]
    /\ \A t \in Tx : chargeHolder[o] = t => chargeDraft[o] = NewPayment(request[t])

LockInv == OrderLocks /\ ChargeLocks /\ OrderDrafts /\ ChargeDrafts

MirrorInv == ShapeInv /\ LockInv /\ ChargeMirrorsOrder

\* Advancing changes the stage of a request and nothing the payment depends on.
LEMMA SamePayment ==
    ASSUME NEW t \in Tx, NEW next \in {"read", "charged", "written"},
           ShapeInv, Open(t), Advance(t, next)
    PROVE  /\ Open(t)'
           /\ request'[t].stage = next
           /\ request'[t].kind = request[t].kind
           /\ request'[t].order = request[t].order
           /\ request[t].order \in Order
           /\ Settles(request[t])' = Settles(request[t])
           /\ Moves(request[t])' = Moves(request[t])
           /\ NewPayment(request[t])' = NewPayment(request[t])
           /\ \A u \in Tx : u # t => request'[u] = request[u]
<1> DEFINE r == request[t]
           n == request'[t]
<1>1. /\ r \in Request /\ n = [r EXCEPT !.stage = next]
      /\ \A u \in Tx \ {t} : request'[u] = request[u]
  BY Advancing
<1>2. /\ n.stage = next /\ n.kind = r.kind /\ n.order = r.order
      /\ n.to = r.to /\ n.seen = r.seen
      /\ r.order \in Order
  BY <1>1 DEF Request
<1>3. Open(t)'
  BY <1>2 DEF Open, NoRequest
<1>4. Settles(request[t])' = Settles(request[t])
  BY <1>2 DEF Settles
<1>5. Moves(request[t])' = Moves(request[t])
  BY <1>2, <1>4 DEF Moves
<1>6. NewPayment(request[t])' = NewPayment(request[t])
  BY <1>2 DEF NewPayment
<1> QED BY <1>1, <1>2, <1>3, <1>4, <1>5, <1>6

\* A statement of an open request leaves the charge alone or writes its payment.
LEMMA ChargeStep ==
    ASSUME NEW t \in Tx, NEW next \in {"read", "charged", "written"},
           ShapeInv, LockInv, Open(t), Advance(t, next), charge' = charge,
           \/ /\ WriteCharge(t, request[t].order, NewPayment(request[t]))
              /\ WroteCharge(request[t])'
           \/ /\ UNCHANGED <<chargeDraft, chargeHolder>>
              /\ WroteCharge(request[t])' <=> WroteCharge(request[t])
    PROVE  ChargeLocks' /\ ChargeDrafts'
<1> USE NoTxAssumption
<1> DEFINE o == request[t].order
<1>1. /\ Open(t)' /\ request'[t].order = o /\ o \in Order
      /\ NewPayment(request[t])' = NewPayment(request[t])
      /\ \A u \in Tx : u # t => request'[u] = request[u]
  BY SamePayment
<1>2. CASE WriteCharge(t, o, NewPayment(request[t])) /\ WroteCharge(request[t])'
  <2>1. /\ chargeHolder[o] \in {NoTx, t}
        /\ chargeHolder' = [chargeHolder EXCEPT ![o] = t]
        /\ chargeDraft' = [chargeDraft EXCEPT ![o] = NewPayment(request[t])]
        /\ chargeHolder \in [Order -> Tx \cup {NoTx}]
        /\ chargeDraft \in [Order -> PaymentStatus]
    BY <1>2 DEF WriteCharge, Free, Lock, ShapeInv, BookTypeOK
  <2> HIDE DEF o
  <2>2. ASSUME NEW q \in Order, NEW u \in Tx
        PROVE  chargeHolder'[q] = u <=> Open(u)' /\ request'[u].order = q /\ WroteCharge(request[u])'
    <3>1. CASE u = t
      BY <1>1, <1>2, <2>1, <3>1 DEF LockInv, ChargeLocks, o
    <3>2. CASE u # t
      BY <1>1, <2>1, <3>2 DEF LockInv, ChargeLocks, Open, WroteCharge, Settles, o
    <3> QED BY <3>1, <3>2
  <2>3. ChargeDrafts'
    <3>1. ASSUME NEW q \in Order, NEW u \in Tx, chargeHolder'[q] = u
          PROVE  chargeDraft'[q] = NewPayment(request[u])'
      BY <1>1, <2>1, <3>1 DEF LockInv, ChargeLocks, ChargeDrafts, NewPayment, o
    <3>2. ASSUME NEW q \in Order, chargeHolder'[q] = NoTx
          PROVE  chargeDraft'[q] = charge'[q]
      BY <1>1, <2>1, <3>2 DEF LockInv, ChargeDrafts, o
    <3> QED BY <3>1, <3>2 DEF ChargeDrafts
  <2> QED BY <2>2, <2>3 DEF ChargeLocks
<1>3. CASE UNCHANGED <<chargeDraft, chargeHolder>> /\ (WroteCharge(request[t])' <=> WroteCharge(request[t]))
  <2>1. ASSUME NEW q \in Order, NEW u \in Tx
        PROVE  chargeHolder'[q] = u <=> Open(u)' /\ request'[u].order = q /\ WroteCharge(request[u])'
    <3>1. CASE u = t
      BY <1>1, <1>3, <3>1 DEF LockInv, ChargeLocks
    <3>2. CASE u # t
      BY <1>1, <1>3, <3>2 DEF LockInv, ChargeLocks, Open, WroteCharge, Settles
    <3> QED BY <3>1, <3>2
  <2>2. \A u \in Tx : NewPayment(request[u])' = NewPayment(request[u])
    BY <1>1 DEF NewPayment
  <2>3. ChargeDrafts'
    BY <1>3, <2>2 DEF LockInv, ChargeDrafts
  <2> QED BY <2>1, <2>3 DEF ChargeLocks
<1> QED BY <1>2, <1>3

\* A statement of an open request leaves the order row alone or writes it.
LEMMA OrderStep ==
    ASSUME NEW t \in Tx, NEW next \in {"read", "charged", "written"}, NEW row,
           ShapeInv, LockInv, Open(t), Advance(t, next), book' = book,
           \/ /\ WriteOrder(t, request[t].order, row)
              /\ row.pay = IF Moves(request[t]) THEN NewPayment(request[t])
                           ELSE bookDraft[request[t].order].pay
              /\ ~WroteOrder(request[t])
              /\ WroteOrder(request[t])'
           \/ /\ UNCHANGED <<bookDraft, bookHolder>>
              /\ WroteOrder(request[t])' <=> WroteOrder(request[t])
    PROVE  OrderLocks' /\ OrderDrafts'
<1> USE NoTxAssumption
<1> DEFINE o == request[t].order
<1>1. /\ Open(t)' /\ request'[t].order = o /\ o \in Order
      /\ NewPayment(request[t])' = NewPayment(request[t])
      /\ Moves(request[t])' = Moves(request[t])
      /\ \A u \in Tx : u # t => request'[u] = request[u]
  BY SamePayment
<1>2. \A u \in Tx : /\ NewPayment(request[u])' = NewPayment(request[u])
                    /\ Moves(request[u])' = Moves(request[u])
  BY <1>1 DEF NewPayment, Moves, Settles
<1>3. CASE /\ WriteOrder(t, o, row)
           /\ row.pay = IF Moves(request[t]) THEN NewPayment(request[t]) ELSE bookDraft[o].pay
           /\ ~WroteOrder(request[t])
           /\ WroteOrder(request[t])'
  <2>1. /\ bookHolder[o] \in {NoTx, t}
        /\ bookHolder' = [bookHolder EXCEPT ![o] = t]
        /\ bookDraft' = [bookDraft EXCEPT ![o] = row]
        /\ bookHolder \in [Order -> Tx \cup {NoTx}]
        /\ bookDraft \in [Order -> OrderRow]
    BY <1>3 DEF WriteOrder, Free, Lock, ShapeInv, BookTypeOK
  <2>2. bookHolder[o] = NoTx
    BY <1>1, <1>3, <2>1 DEF LockInv, OrderLocks
  <2>3. row.pay = IF Moves(request[t]) THEN NewPayment(request[t]) ELSE book[o].pay
    BY <1>1, <1>3, <2>2 DEF LockInv, OrderDrafts
  <2> HIDE DEF o
  <2>4. ASSUME NEW q \in Order, NEW u \in Tx
        PROVE  bookHolder'[q] = u <=> Open(u)' /\ request'[u].order = q /\ WroteOrder(request[u])'
    <3>1. CASE u = t
      BY <1>1, <1>3, <2>1, <3>1 DEF LockInv, OrderLocks, o
    <3>2. CASE u # t
      BY <1>1, <2>1, <2>2, <3>2 DEF LockInv, OrderLocks, Open, WroteOrder
    <3> QED BY <3>1, <3>2
  <2>5. OrderDrafts'
    <3>1. ASSUME NEW q \in Order, NEW u \in Tx, bookHolder'[q] = u
          PROVE  bookDraft'[q].pay =
                    (IF Moves(request[u]) THEN NewPayment(request[u]) ELSE book[q].pay)'
      BY <1>1, <1>2, <2>1, <2>3, <3>1 DEF LockInv, OrderDrafts
    <3>2. ASSUME NEW q \in Order, bookHolder'[q] = NoTx
          PROVE  bookDraft'[q].pay = book'[q].pay
      BY <1>1, <2>1, <3>2 DEF LockInv, OrderDrafts
    <3> QED BY <3>1, <3>2 DEF OrderDrafts
  <2> QED BY <2>4, <2>5 DEF OrderLocks
<1>4. CASE UNCHANGED <<bookDraft, bookHolder>> /\ (WroteOrder(request[t])' <=> WroteOrder(request[t]))
  <2>1. ASSUME NEW q \in Order, NEW u \in Tx
        PROVE  bookHolder'[q] = u <=> Open(u)' /\ request'[u].order = q /\ WroteOrder(request[u])'
    <3>1. CASE u = t
      BY <1>1, <1>4, <3>1 DEF LockInv, OrderLocks
    <3>2. CASE u # t
      BY <1>1, <1>4, <3>2 DEF LockInv, OrderLocks, Open, WroteOrder
    <3> QED BY <3>1, <3>2
  <2>2. OrderDrafts'
    BY <1>2, <1>4 DEF LockInv, OrderDrafts
  <2> QED BY <2>1, <2>2 DEF OrderLocks
<1> QED BY <1>3, <1>4

\* A request that ends forgets its locks and drafts, whichever way it ends.
LEMMA EndStep ==
    ASSUME NEW t \in Tx, ShapeInv, LockInv, BookEnd(t),
           \A o \in Order : \/ bookHolder[o] = t /\ bookDraft'[o].pay = book'[o].pay
                            \/ /\ bookHolder[o] # t
                               /\ book'[o] = book[o] /\ bookDraft'[o] = bookDraft[o],
           \A o \in Order : \/ chargeHolder[o] = t /\ chargeDraft'[o] = charge'[o]
                            \/ /\ chargeHolder[o] # t
                               /\ charge'[o] = charge[o] /\ chargeDraft'[o] = chargeDraft[o]
    PROVE  LockInv'
<1> USE NoTxAssumption
<1>1. /\ ~Open(t)'
      /\ \A u \in Tx : u # t => request'[u] = request[u]
      /\ \A o \in Order : bookHolder'[o] = IF bookHolder[o] = t THEN NoTx ELSE bookHolder[o]
      /\ \A o \in Order : chargeHolder'[o] = IF chargeHolder[o] = t THEN NoTx ELSE chargeHolder[o]
  BY DEF BookEnd, Unlock, Open, ShapeInv, BookTypeOK
<1>2. \A u \in Tx : u # t => /\ Open(u)' <=> Open(u)
                             /\ NewPayment(request[u])' = NewPayment(request[u])
                             /\ Moves(request[u])' = Moves(request[u])
                             /\ WroteOrder(request[u])' <=> WroteOrder(request[u])
                             /\ WroteCharge(request[u])' <=> WroteCharge(request[u])
  BY <1>1 DEF Open, NewPayment, Moves, Settles, WroteOrder, WroteCharge
<1>3. OrderLocks' /\ ChargeLocks'
  BY <1>1, <1>2 DEF LockInv, OrderLocks, ChargeLocks
<1>4. OrderDrafts'
  BY <1>1, <1>2 DEF LockInv, OrderDrafts
<1>5. ChargeDrafts'
  BY <1>1, <1>2 DEF LockInv, ChargeDrafts
<1> QED BY <1>3, <1>4, <1>5 DEF LockInv

\* A request that has just read the order holds nothing yet.
LEMMA ReadStep ==
    ASSUME NEW t \in Tx, NEW r, ShapeInv, LockInv, request[t] = NoRequest, r.stage = "read",
           r.kind \in {"status", "payment"}, request' = [request EXCEPT ![t] = r],
           UNCHANGED <<book, bookDraft, bookHolder, charge, chargeDraft, chargeHolder>>
    PROVE  LockInv'
<1>1. /\ ~WroteOrder(r) /\ ~WroteCharge(r)
      /\ request'[t] = r /\ \A u \in Tx : u # t => request'[u] = request[u]
  BY DEF WroteOrder, WroteCharge, ShapeInv, BookTypeOK
<1>2. \A o \in Order : bookHolder[o] # t /\ chargeHolder[o] # t
  BY DEF LockInv, OrderLocks, ChargeLocks, Open
<1>3. \A u \in Tx : u # t => /\ Open(u)' <=> Open(u)
                             /\ NewPayment(request[u])' = NewPayment(request[u])
                             /\ Moves(request[u])' = Moves(request[u])
                             /\ WroteOrder(request[u])' <=> WroteOrder(request[u])
                             /\ WroteCharge(request[u])' <=> WroteCharge(request[u])
  BY <1>1 DEF Open, NewPayment, Moves, Settles, WroteOrder, WroteCharge
<1>4. OrderLocks' /\ ChargeLocks'
  BY <1>1, <1>2, <1>3 DEF LockInv, OrderLocks, ChargeLocks
<1>5. OrderDrafts' /\ ChargeDrafts'
  BY <1>2, <1>3 DEF LockInv, OrderDrafts, ChargeDrafts
<1> QED BY <1>4, <1>5 DEF LockInv

\* A step that commits a request leaves every order with the payment of its
\* charge: the request holds both rows, or the order row with an old payment.
LEMMA CommitKeepsMirror ==
    ASSUME MirrorInv, NEW t \in Tx, Open(t), BookCommit(t)
    PROVE  ChargeMirrorsOrder'
<1> SUFFICES ASSUME NEW o \in Order PROVE charge'[o] = book'[o].pay
  BY DEF ChargeMirrorsOrder
<1> DEFINE r == request[t]
<1>1. /\ r.stage = "written"
      /\ charge'[o] = IF chargeHolder[o] = t THEN chargeDraft[o] ELSE charge[o]
      /\ book'[o] = IF bookHolder[o] = t THEN bookDraft[o] ELSE book[o]
  BY DEF BookCommit, View, MirrorInv, ShapeInv, BookTypeOK
<1>2. charge[o] = book[o].pay
  BY DEF MirrorInv, ChargeMirrorsOrder
<1>3. CASE r.order # o
  <2>1. bookHolder[o] # t /\ chargeHolder[o] # t
    BY <1>3 DEF MirrorInv, LockInv, OrderLocks, ChargeLocks
  <2> QED BY <1>1, <1>2, <2>1
<1>4. CASE r.order = o
  <2>1. bookHolder[o] = t
    BY <1>1, <1>4 DEF MirrorInv, LockInv, OrderLocks, WroteOrder
  <2>2. chargeHolder[o] = t <=> Moves(r)
    BY <1>1, <1>4 DEF MirrorInv, LockInv, ChargeLocks, WroteCharge, Moves
  <2>3. bookDraft[o].pay = IF Moves(r) THEN NewPayment(r) ELSE book[o].pay
    BY <2>1 DEF MirrorInv, LockInv, OrderDrafts
  <2>4. Moves(r) => chargeDraft[o] = NewPayment(r)
    BY <2>2 DEF MirrorInv, LockInv, ChargeDrafts
  <2> QED BY <1>1, <1>2, <2>1, <2>2, <2>3, <2>4
<1> QED BY <1>3, <1>4

\* Locks, drafts and the agreement of the committed rows are inductive.
LEMMA MirrorStep == MirrorInv /\ ShapeInv' /\ [BookNext]_bookVars => LockInv' /\ ChargeMirrorsOrder'
<1> SUFFICES ASSUME MirrorInv, ShapeInv', [BookNext]_bookVars
             PROVE  LockInv' /\ ChargeMirrorsOrder'
  OBVIOUS
<1> ShapeInv /\ LockInv /\ ChargeMirrorsOrder
  BY DEF MirrorInv
<1>1. ASSUME NEW o \in Order, AddOrder(o)
      PROVE  LockInv' /\ ChargeMirrorsOrder'
  <2>1. \A q \in Order : book'[q].pay = book[q].pay /\ bookDraft'[q].pay = bookDraft[q].pay
    BY <1>1 DEF AddOrder, ShapeInv, BookTypeOK, OrderRow
  <2>2. UNCHANGED <<bookHolder, charge, chargeDraft, chargeHolder, request>>
    BY <1>1 DEF AddOrder
  <2>3. \A u \in Tx : /\ Open(u)' <=> Open(u)
                      /\ NewPayment(request[u])' = NewPayment(request[u])
                      /\ Moves(request[u])' = Moves(request[u])
                      /\ WroteOrder(request[u])' <=> WroteOrder(request[u])
                      /\ WroteCharge(request[u])' <=> WroteCharge(request[u])
    BY <2>2 DEF Open, NewPayment, Moves, Settles, WroteOrder, WroteCharge
  <2> QED BY <2>1, <2>2, <2>3
          DEF LockInv, OrderLocks, ChargeLocks, OrderDrafts, ChargeDrafts, ChargeMirrorsOrder
<1>2. ASSUME NEW t \in Tx, NEW o \in Order, NEW s \in StatusEdits, ReadForStatus(t, o, s)
      PROVE  LockInv' /\ ChargeMirrorsOrder'
  <2> DEFINE r == [stage |-> "read", kind |-> "status", order |-> o,
                   to |-> s, seen |-> book[o], noted |-> TRUE]
  <2>1. r.stage = "read" /\ r.kind \in {"status", "payment"}
    OBVIOUS
  <2>2. /\ request[t] = NoRequest /\ request' = [request EXCEPT ![t] = r]
        /\ UNCHANGED <<book, bookDraft, bookHolder, charge, chargeDraft, chargeHolder>>
    BY <1>2 DEF ReadForStatus
  <2> HIDE DEF r
  <2> QED BY <2>1, <2>2, ReadStep DEF ChargeMirrorsOrder
<1>3. ASSUME NEW t \in Tx, NEW o \in Order, NEW p \in PayEdits, NEW noted \in BOOLEAN,
             ReadForPayment(t, o, p, noted)
      PROVE  LockInv' /\ ChargeMirrorsOrder'
  <2> DEFINE r == [stage |-> "read", kind |-> "payment", order |-> o,
                   to |-> p, seen |-> book[o], noted |-> noted]
  <2>1. r.stage = "read" /\ r.kind \in {"status", "payment"}
    OBVIOUS
  <2>2. /\ request[t] = NoRequest /\ request' = [request EXCEPT ![t] = r]
        /\ UNCHANGED <<book, bookDraft, bookHolder, charge, chargeDraft, chargeHolder>>
    BY <1>3 DEF ReadForPayment
  <2> HIDE DEF r
  <2> QED BY <2>1, <2>2, ReadStep DEF ChargeMirrorsOrder
<1>4. ASSUME NEW t \in Tx, SettleCharge(t)
      PROVE  LockInv' /\ ChargeMirrorsOrder'
  <2>1. /\ Open(t) /\ Advance(t, "charged")
        /\ request[t].kind = "status" /\ request[t].stage = "read"
        /\ UNCHANGED <<book, bookDraft, bookHolder, charge>>
    BY <1>4 DEF SettleCharge, Serves, Open
  <2>2. /\ request'[t].stage = "charged" /\ request'[t].kind = "status"
        /\ Settles(request[t])' = Settles(request[t])
    BY <2>1, SamePayment
  <2>3. IF Settles(request[t])
        THEN WriteCharge(t, request[t].order, NewPayment(request[t]))
        ELSE UNCHANGED <<chargeDraft, chargeHolder>>
    BY <1>4, <2>1 DEF SettleCharge, NewPayment
  <2>4. WroteCharge(request[t])' <=> Settles(request[t])
    BY <2>2 DEF WroteCharge
  <2>5. ~WroteCharge(request[t])
    BY <2>1 DEF WroteCharge
  <2>6. ~WroteOrder(request[t]) /\ ~WroteOrder(request[t])'
    BY <2>1, <2>2 DEF WroteOrder
  <2>7. ChargeLocks' /\ ChargeDrafts'
    BY <2>1, <2>3, <2>4, <2>5, ChargeStep
  <2>8. OrderLocks' /\ OrderDrafts'
    BY <2>1, <2>6, OrderStep
  <2> QED BY <2>1, <2>7, <2>8 DEF LockInv, ChargeMirrorsOrder
<1>5. ASSUME NEW t \in Tx, WriteStatus(t)
      PROVE  LockInv' /\ ChargeMirrorsOrder'
  <2> DEFINE r   == request[t]
             row == [status |-> r.to,
                     pay |-> IF Settles(r) THEN NewPay(r.order, r.to, r.seen)
                             ELSE bookDraft[r.order].pay]
  <2>1. /\ Open(t) /\ Advance(t, "written")
        /\ r.kind = "status" /\ r.stage = "charged"
        /\ UNCHANGED <<book, charge, chargeDraft, chargeHolder>>
        /\ WriteOrder(t, r.order, row)
    BY <1>5 DEF WriteStatus, Serves, Open
  <2>2. row.pay = IF Moves(r) THEN NewPayment(r) ELSE bookDraft[r.order].pay
    BY <2>1 DEF Moves, NewPayment
  <2>3. /\ request'[t].stage = "written" /\ request'[t].kind = "status"
        /\ Settles(request[t])' = Settles(request[t])
    BY <2>1, SamePayment
  <2>4. WroteCharge(request[t])' <=> WroteCharge(request[t])
    BY <2>1, <2>3 DEF WroteCharge
  <2>5. ~WroteOrder(request[t]) /\ WroteOrder(request[t])'
    BY <2>1, <2>3 DEF WroteOrder
  <2> HIDE DEF row
  <2>6. ChargeLocks' /\ ChargeDrafts'
    BY <2>1, <2>4, ChargeStep
  <2>7. OrderLocks' /\ OrderDrafts'
    BY <2>1, <2>2, <2>5, OrderStep
  <2> QED BY <2>1, <2>6, <2>7 DEF LockInv, ChargeMirrorsOrder
<1>6. ASSUME NEW t \in Tx, WritePayment(t)
      PROVE  LockInv' /\ ChargeMirrorsOrder'
  <2> DEFINE row == [bookDraft[request[t].order] EXCEPT !.pay = request[t].to]
  <2>1. /\ Open(t) /\ Advance(t, "charged")
        /\ request[t].kind = "payment" /\ request[t].stage = "read"
        /\ UNCHANGED <<book, charge, chargeDraft, chargeHolder>>
        /\ WriteOrder(t, request[t].order, row)
    BY <1>6 DEF WritePayment, Serves, Open
  <2>2. /\ request'[t].stage = "charged" /\ request'[t].kind = "payment"
        /\ request[t].order \in Order
    BY <2>1, SamePayment
  <2>3. row.pay = IF Moves(request[t]) THEN NewPayment(request[t])
                  ELSE bookDraft[request[t].order].pay
    BY <2>1, <2>2 DEF Moves, NewPayment, ShapeInv, BookTypeOK, OrderRow
  <2>4. ~WroteCharge(request[t]) /\ ~WroteCharge(request[t])'
    BY <2>1, <2>2 DEF WroteCharge
  <2>5. ~WroteOrder(request[t]) /\ WroteOrder(request[t])'
    BY <2>1, <2>2 DEF WroteOrder
  <2> HIDE DEF row
  <2>6. ChargeLocks' /\ ChargeDrafts'
    BY <2>1, <2>4, ChargeStep
  <2>7. OrderLocks' /\ OrderDrafts'
    BY <2>1, <2>3, <2>5, OrderStep
  <2> QED BY <2>1, <2>6, <2>7 DEF LockInv, ChargeMirrorsOrder
<1>7. ASSUME NEW t \in Tx, WritePaymentCharge(t)
      PROVE  LockInv' /\ ChargeMirrorsOrder'
  <2>1. /\ Open(t) /\ Advance(t, "written")
        /\ request[t].kind = "payment" /\ request[t].stage = "charged"
        /\ UNCHANGED <<book, bookDraft, bookHolder, charge>>
        /\ WriteCharge(t, request[t].order, NewPayment(request[t]))
    BY <1>7 DEF WritePaymentCharge, Serves, Open, NewPayment
  <2>2. request'[t].stage = "written" /\ request'[t].kind = "payment"
    BY <2>1, SamePayment
  <2>3. WroteCharge(request[t])' /\ WroteOrder(request[t]) /\ WroteOrder(request[t])'
    BY <2>1, <2>2 DEF WroteCharge, WroteOrder
  <2>4. ChargeLocks' /\ ChargeDrafts'
    BY <2>1, <2>3, ChargeStep
  <2>5. OrderLocks' /\ OrderDrafts'
    BY <2>1, <2>3, OrderStep
  <2> QED BY <2>1, <2>4, <2>5 DEF LockInv, ChargeMirrorsOrder
<1>8. ASSUME NEW t \in Tx, Open(t), BookCommit(t)
      PROVE  LockInv' /\ ChargeMirrorsOrder'
  <2>1. BookEnd(t) /\ bookDraft' = bookDraft /\ chargeDraft' = chargeDraft
    BY <1>8 DEF BookCommit
  <2>2. \A o \in Order : /\ book'[o] = IF bookHolder[o] = t THEN bookDraft[o] ELSE book[o]
                         /\ charge'[o] = IF chargeHolder[o] = t THEN chargeDraft[o] ELSE charge[o]
    BY <1>8 DEF BookCommit, View, ShapeInv, BookTypeOK
  <2>3. LockInv'
    BY <2>1, <2>2, EndStep
  <2> QED BY <1>8, <2>3, CommitKeepsMirror
<1>9. ASSUME NEW t \in Tx, BookRollback(t)
      PROVE  LockInv' /\ ChargeMirrorsOrder'
  <2>1. BookEnd(t) /\ book' = book /\ charge' = charge
    BY <1>9 DEF BookRollback
  <2>2. \A o \in Order :
           /\ bookDraft'[o] = IF bookHolder[o] = t THEN book[o] ELSE bookDraft[o]
           /\ chargeDraft'[o] = IF chargeHolder[o] = t THEN charge[o] ELSE chargeDraft[o]
    BY <1>9 DEF BookRollback, Discard, ShapeInv, BookTypeOK
  <2>3. LockInv'
    BY <2>1, <2>2, EndStep
  <2> QED BY <2>1, <2>3 DEF ChargeMirrorsOrder
<1>10. CASE UNCHANGED bookVars
  BY <1>10 DEF bookVars, LockInv, OrderLocks, ChargeLocks, OrderDrafts, ChargeDrafts,
               ChargeMirrorsOrder, Open, NewPayment, Moves, Settles, WroteOrder, WroteCharge
<1>11. \A t \in Tx : BookCommit(t) => Open(t)
  BY DEF BookCommit, Open, NoRequest
<1> QED
  BY <1>1, <1>2, <1>3, <1>4, <1>5, <1>6, <1>7, <1>8, <1>9, <1>10, <1>11 DEF BookNext, AdminStep

\* However many requests race over an order, its row and its charge agree on
\* the payment: the two handlers write the rows in opposite orders, but neither
\* commits one without the other (updateStatus, updatePaymentStatus).
THEOREM ChargeAlwaysMirrors == BookSpec => []ChargeMirrorsOrder
<1> USE NoTxAssumption
<1>1. BookInit => LockInv /\ ChargeMirrorsOrder
  BY DEF BookInit, LockInv, OrderLocks, ChargeLocks, OrderDrafts, ChargeDrafts,
         ChargeMirrorsOrder, Open, NoRow
<1> QED BY <1>1, MirrorStep, ShapeInvHolds, PTL DEF BookSpec, MirrorInv

-----------------------------------------------------------------------------
(* Who may revive an order.  A row in the making has the status its        *)
(* request asked for, or, of a payment edit, the committed one; and a      *)
(* status request asks for a move its reading allowed.                     *)

StatusDrafts == \A o \in Order :
    /\ bookHolder[o] = NoTx => bookDraft[o].status = book[o].status
    /\ \A t \in Tx : bookHolder[o] = t =>
          bookDraft[o].status = IF request[t].kind = "status" THEN request[t].to
                                                              ELSE book[o].status

AllowedWhenRead == \A t \in Tx : Open(t) /\ request[t].kind = "status" =>
    request[t].to \in AllowedTransitions[request[t].seen.status]

PlacedBefore == \A t \in Tx : Open(t) => book[request[t].order].status # "NONE"

StatusInv == StatusDrafts /\ AllowedWhenRead /\ PlacedBefore

\* Before the first order nothing is locked, and every order is blank.
LEMMA BookInitially == BookInit => MirrorInv /\ StatusInv
BY NoTxAssumption, ShapeInitially
DEF BookInit, MirrorInv, LockInv, OrderLocks, ChargeLocks, OrderDrafts, ChargeDrafts,
    ChargeMirrorsOrder, Open, NoRow, StatusInv, StatusDrafts, AllowedWhenRead, PlacedBefore

\* A statement of a request changes no committed row, and the newest version of
\* its own order at most.
LEMMA StatementKeepsStatus ==
    ASSUME MirrorInv, StatusInv, OrderLocks', NEW t \in Tx,
           NEW next \in {"read", "charged", "written"},
           Open(t), Advance(t, next), book' = book,
           \/ UNCHANGED <<bookDraft, bookHolder>>
           \/ \E row : /\ WriteOrder(t, request[t].order, row)
                       /\ ~WroteOrder(request[t])
                       /\ row.status = IF request[t].kind = "status" THEN request[t].to
                                       ELSE bookDraft[request[t].order].status
    PROVE  StatusInv'
<1> USE NoTxAssumption
<1> ShapeInv /\ OrderLocks
  BY DEF MirrorInv, LockInv
<1>1. /\ request[t] \in Request /\ request'[t] = [request[t] EXCEPT !.stage = next]
      /\ \A u \in Tx \ {t} : request'[u] = request[u]
  BY Advancing
<1>2. \A u \in Tx : /\ Open(u)' <=> Open(u)
                    /\ Open(u) => /\ request'[u].kind = request[u].kind
                                  /\ request'[u].to = request[u].to
                                  /\ request'[u].seen = request[u].seen
                                  /\ request'[u].order = request[u].order
  <2>1. Open(t)'
    BY SamePayment
  <2> QED BY <1>1, <2>1 DEF Open, Request
<1>3. AllowedWhenRead' /\ PlacedBefore'
  BY <1>2 DEF StatusInv, AllowedWhenRead, PlacedBefore
<1>4. StatusDrafts'
  <2>1. CASE UNCHANGED <<bookDraft, bookHolder>>
    <3>1. \A o \in Order, u \in Tx : bookHolder[o] = u => Open(u)
      BY DEF OrderLocks
    <3> QED BY <1>2, <2>1, <3>1 DEF StatusInv, StatusDrafts
  <2>2. ASSUME NEW row, WriteOrder(t, request[t].order, row), ~WroteOrder(request[t]),
               row.status = IF request[t].kind = "status" THEN request[t].to
                            ELSE bookDraft[request[t].order].status
        PROVE  StatusDrafts'
    <3> DEFINE p == request[t].order
    <3>1. /\ p \in Order /\ bookHolder[p] = NoTx
          /\ bookHolder' = [bookHolder EXCEPT ![p] = t]
          /\ bookDraft' = [bookDraft EXCEPT ![p] = row]
          /\ bookHolder \in [Order -> Tx \cup {NoTx}] /\ bookDraft \in [Order -> OrderRow]
      BY <1>1, <2>2 DEF WriteOrder, Free, Lock, OrderLocks, ShapeInv, BookTypeOK, Request
    <3>2. \A o \in Order, u \in Tx : bookHolder[o] = u => Open(u)
      BY DEF OrderLocks
    <3>3. bookDraft[p].status = book[p].status
      BY <3>1 DEF StatusInv, StatusDrafts
    <3> HIDE DEF p
    <3>4. bookDraft'[p].status = IF request'[t].kind = "status" THEN request'[t].to
                                 ELSE book'[p].status
      BY <1>2, <2>2, <3>1, <3>3 DEF p
    <3> QED BY <1>2, <3>1, <3>2, <3>4 DEF StatusInv, StatusDrafts
  <2> QED BY <2>1, <2>2
<1> QED BY <1>3, <1>4 DEF StatusInv

LEMMA ReadKeepsStatus ==
    ASSUME MirrorInv, StatusInv, NEW t \in Tx, NEW r, NEW o \in Order, request[t] = NoRequest,
           r.order = o, book[o].status # "NONE",
           r.kind = "status" => r.to \in AllowedTransitions[r.seen.status],
           request' = [request EXCEPT ![t] = r],
           UNCHANGED <<book, bookDraft, bookHolder>>
    PROVE  StatusInv'
<1>1. request'[t] = r /\ \A u \in Tx : u # t => request'[u] = request[u]
  BY DEF MirrorInv, ShapeInv, BookTypeOK
<1>2. \A q \in Order : bookHolder[q] # t
  BY DEF MirrorInv, LockInv, OrderLocks, Open
<1> QED BY <1>1, <1>2 DEF StatusInv, StatusDrafts, AllowedWhenRead, PlacedBefore, Open

LEMMA EndKeepsStatus ==
    ASSUME MirrorInv, StatusInv, NEW t \in Tx, BookEnd(t), Open(t),
           \A o \in Order : \/ bookHolder[o] = t /\ bookDraft'[o] = book'[o]
                            \/ /\ bookHolder[o] # t
                               /\ book'[o] = book[o] /\ bookDraft'[o] = bookDraft[o],
           \A o \in Order : bookHolder[o] = t => book'[o] \in {book[o], bookDraft[o]}
    PROVE  StatusInv'
<1> USE NoTxAssumption
<1> ShapeInv /\ OrderLocks
  BY DEF MirrorInv, LockInv
<1>1. /\ ~Open(t)'
      /\ \A u \in Tx : u # t => request'[u] = request[u]
      /\ \A o \in Order : bookHolder'[o] = IF bookHolder[o] = t THEN NoTx ELSE bookHolder[o]
  BY DEF BookEnd, Unlock, Open, ShapeInv, BookTypeOK
<1>2. StatusDrafts'
  BY <1>1 DEF StatusInv, StatusDrafts
<1>3. AllowedWhenRead'
  BY <1>1 DEF StatusInv, AllowedWhenRead, Open
<1>4. ASSUME NEW u \in Tx, Open(u)' PROVE book'[request'[u].order].status # "NONE"
  <2>1. u # t /\ request'[u] = request[u] /\ Open(u) /\ request[u].order \in Order
    BY <1>1, <1>4 DEF Open, ShapeInv, BookTypeOK, Request
  <2>2. book[request[u].order].status # "NONE"
    BY <2>1 DEF StatusInv, PlacedBefore
  <2>3. ASSUME bookHolder[request[u].order] = t
        PROVE  bookDraft[request[u].order].status # "NONE"
    BY <2>1, <2>2, <2>3, Statuses DEF StatusInv, StatusDrafts, AskedForSense, ShapeInv
  <2> QED BY <2>1, <2>2, <2>3
<1> QED BY <1>2, <1>3, <1>4 DEF StatusInv, PlacedBefore

LEMMA StatusStep ==
    ASSUME MirrorInv, MirrorInv', StatusInv, [BookNext]_bookVars
    PROVE  StatusInv'
<1> OrderLocks'
  BY DEF MirrorInv, LockInv
<1>1. ASSUME NEW o \in Order, book[o] = NoRow, AddOrder(o)
      PROVE  StatusInv'
  <2>1. /\ \A q \in Order \ {o} : book'[q] = book[q] /\ bookDraft'[q] = bookDraft[q]
        /\ book'[o].status = "PENDING" /\ bookDraft'[o].status = "PENDING"
        /\ UNCHANGED <<bookHolder, request>>
    BY <1>1 DEF AddOrder, MirrorInv, ShapeInv, BookTypeOK, OrderRow
  <2>2. \A u \in Tx : bookHolder[o] # u
    BY <1>1 DEF NoRow, StatusInv, PlacedBefore, MirrorInv, LockInv, OrderLocks
  <2>3. \A u \in Tx : Open(u) => request[u].order \in Order
    BY DEF Open, MirrorInv, ShapeInv, BookTypeOK, Request
  <2>4. StatusDrafts'
    BY <2>1, <2>2 DEF StatusInv, StatusDrafts
  <2>5. AllowedWhenRead' /\ PlacedBefore'
    BY <2>1, <2>3 DEF StatusInv, AllowedWhenRead, PlacedBefore, Open
  <2> QED BY <2>4, <2>5 DEF StatusInv
<1>2. ASSUME NEW t \in Tx, NEW o \in Order, NEW s \in StatusEdits, ReadForStatus(t, o, s)
      PROVE  StatusInv'
  <2> DEFINE r == [stage |-> "read", kind |-> "status", order |-> o,
                   to |-> s, seen |-> book[o], noted |-> TRUE]
  <2>1. /\ r.order = o /\ r.seen = book[o] /\ r.to = s
        /\ request[t] = NoRequest /\ request' = [request EXCEPT ![t] = r]
        /\ UNCHANGED <<book, bookDraft, bookHolder>>
        /\ s \in AllowedTransitions[book[o].status]
    BY <1>2 DEF ReadForStatus, MayMove
  <2>2. book[o].status # "NONE"
    BY <2>1 DEF AllowedTransitions
  <2> HIDE DEF r
  <2> QED BY <2>1, <2>2, ReadKeepsStatus
<1>3. ASSUME NEW t \in Tx, NEW o \in Order, NEW p \in PayEdits, NEW noted \in BOOLEAN,
             ReadForPayment(t, o, p, noted)
      PROVE  StatusInv'
  <2> DEFINE r == [stage |-> "read", kind |-> "payment", order |-> o,
                   to |-> p, seen |-> book[o], noted |-> noted]
  <2>1. /\ r.order = o /\ r.kind # "status"
        /\ request[t] = NoRequest /\ request' = [request EXCEPT ![t] = r]
        /\ UNCHANGED <<book, bookDraft, bookHolder>> /\ book[o].status # "NONE"
    BY <1>3 DEF ReadForPayment
  <2> HIDE DEF r
  <2> QED BY <2>1, ReadKeepsStatus
<1>4. ASSUME NEW t \in Tx, SettleCharge(t) \/ WritePaymentCharge(t)
      PROVE  StatusInv'
  <2>1. PICK next \in {"read", "charged", "written"} :
            Open(t) /\ Advance(t, next) /\ book' = book /\ UNCHANGED <<bookDraft, bookHolder>>
    BY <1>4 DEF SettleCharge, WritePaymentCharge, Serves, Open
  <2> QED BY <2>1, StatementKeepsStatus
<1>5. ASSUME NEW t \in Tx, WriteStatus(t)
      PROVE  StatusInv'
  <2> DEFINE r   == request[t]
             row == [status |-> r.to,
                     pay |-> IF Settles(r) THEN NewPay(r.order, r.to, r.seen)
                             ELSE bookDraft[r.order].pay]
  <2>1. /\ Open(t) /\ Advance(t, "written") /\ book' = book
        /\ r.kind = "status" /\ ~WroteOrder(r) /\ WriteOrder(t, r.order, row)
        /\ row.status = r.to
    BY <1>5 DEF WriteStatus, Serves, Open, WroteOrder
  <2> HIDE DEF row
  <2> QED BY <2>1, StatementKeepsStatus
<1>6. ASSUME NEW t \in Tx, WritePayment(t)
      PROVE  StatusInv'
  <2> DEFINE row == [bookDraft[request[t].order] EXCEPT !.pay = request[t].to]
  <2>1. /\ Open(t) /\ Advance(t, "charged") /\ book' = book
        /\ request[t].kind = "payment" /\ ~WroteOrder(request[t])
        /\ WriteOrder(t, request[t].order, row)
    BY <1>6 DEF WritePayment, Serves, Open, WroteOrder
  <2>2. bookDraft[request[t].order] \in OrderRow
    BY <2>1 DEF Open, MirrorInv, ShapeInv, BookTypeOK, Request
  <2>3. row.status = bookDraft[request[t].order].status
    BY <2>2 DEF OrderRow
  <2> HIDE DEF row
  <2> QED BY <2>1, <2>3, StatementKeepsStatus
<1>7. ASSUME NEW t \in Tx, BookCommit(t) \/ BookRollback(t)
      PROVE  StatusInv'
  <2>1. Open(t) /\ BookEnd(t)
    <3>1. CASE BookCommit(t)
      BY <3>1 DEF BookCommit, Open, NoRequest
    <3>2. CASE BookRollback(t)
      BY <3>2 DEF BookRollback, Open
    <3> QED BY <1>7, <3>1, <3>2
  <2>2. \A o \in Order :
           /\ bookHolder[o] = t => bookDraft'[o] = book'[o] /\ book'[o] \in {book[o], bookDraft[o]}
           /\ bookHolder[o] # t => book'[o] = book[o] /\ bookDraft'[o] = bookDraft[o]
    BY <1>7 DEF BookCommit, BookRollback, View, Discard, MirrorInv, ShapeInv, BookTypeOK
  <2> QED BY <2>1, <2>2, EndKeepsStatus
<1>8. CASE UNCHANGED bookVars
  BY <1>8 DEF bookVars, StatusInv, StatusDrafts, AllowedWhenRead, PlacedBefore, Open
<1> QED BY <1>1, <1>2, <1>3, <1>4, <1>5, <1>6, <1>7, <1>8 DEF BookNext, AdminStep

\* The two invariants of the order book are inductive together.
LEMMA BookStep == MirrorInv /\ StatusInv /\ [BookNext]_bookVars => MirrorInv' /\ StatusInv'
BY ShapeStep, MirrorStep, StatusStep DEF MirrorInv

\* A terminal order moves again, and a collected payment becomes void, only by
\* a status request that read the order before (updateStatus reads without a
\* lock), or, of the payment, by an admin who says so (updatePaymentStatus).
THEOREM OldReadersAlone == BookSpec => OnlyOldReadersRevive
<1> USE NoTxAssumption
<1>1. ASSUME MirrorInv, StatusInv, [BookNext]_bookVars, NEW o \in Order, book'[o] # book[o],
             book[o] # NoRow
      PROVE  \E t \in Tx :
                /\ Ending(t, o)
                /\ book'[o].status # book[o].status =>
                      request[t].kind = "status" /\ request[t].seen.status \notin Terminal
                /\ book[o].pay = "PAID" /\ book'[o].pay = "CANCELLED" =>
                      \/ request[t].kind = "status" /\ request[t].seen.pay = "PENDING"
                      \/ request[t].kind = "payment" /\ request[t].to = "CANCELLED"
  <2>1. ShapeInv /\ OrderLocks /\ OrderDrafts
    BY <1>1 DEF MirrorInv, LockInv
  <2>2. ASSUME NEW q \in Order, book[q] = NoRow, AddOrder(q)  PROVE FALSE
    BY <1>1, <2>1, <2>2 DEF AddOrder, ShapeInv, BookTypeOK
  <2>3. PICK t \in Tx : BookCommit(t)
    BY <1>1, <2>2 DEF BookNext, AdminStep, bookVars, ReadForStatus, ReadForPayment,
       SettleCharge, WriteStatus, WritePayment, WritePaymentCharge, BookRollback
  <2>4. bookHolder[o] = t /\ book'[o] = bookDraft[o]
    BY <1>1, <2>1, <2>3 DEF BookCommit, View, ShapeInv, BookTypeOK
  <2>5. /\ request[t] \in Request /\ request[t].order = o /\ request[t] # NoRequest
        /\ request'[t] = NoRequest
    BY <2>1, <2>3, <2>4 DEF OrderLocks, Open, BookCommit, BookEnd, ShapeInv, BookTypeOK
  <2>6. ASSUME bookDraft[o].status # book[o].status
        PROVE  request[t].kind = "status" /\ request[t].seen.status \notin Terminal
    BY <1>1, <2>4, <2>5, <2>6 DEF StatusInv, StatusDrafts, AllowedWhenRead, Open, Terminal
  <2>7. ASSUME book[o].pay = "PAID", bookDraft[o].pay = "CANCELLED"
        PROVE  \/ request[t].kind = "status" /\ request[t].seen.pay = "PENDING"
               \/ request[t].kind = "payment" /\ request[t].to = "CANCELLED"
    <3>1. Moves(request[t]) /\ NewPayment(request[t]) = "CANCELLED"
      BY <2>1, <2>4, <2>7 DEF OrderDrafts
    <3> QED BY <2>5, <3>1 DEF Moves, NewPayment, Settles, NewPay, Request
  <2> QED BY <2>4, <2>5, <2>6, <2>7 DEF Ending
<1>2. MirrorInv /\ StatusInv /\ [BookNext]_bookVars =>
        [\A o \in Order :
            /\ book[o].status \in Terminal /\ book'[o].status # book[o].status =>
                  \E t \in Tx : Ending(t, o) /\ request[t].kind = "status"
                                /\ request[t].seen.status \notin Terminal
            /\ book[o].pay = "PAID" /\ book'[o].pay = "CANCELLED" =>
                  \E t \in Tx : Ending(t, o)
                      /\ \/ request[t].kind = "status" /\ request[t].seen.pay = "PENDING"
                         \/ request[t].kind = "payment" /\ request[t].to = "CANCELLED"]_bookVars
  BY <1>1, Statuses DEF Terminal, NoRow
<1> QED BY <1>2, BookInitially, BookStep, PTL DEF BookSpec, OnlyOldReadersRevive
-----------------------------------------------------------------------------
(* Checkout.                                                               *)

ShopperPc == {"idle", "resolve", "promo", "shell", "deduct", "count"}
ClerkPc   == {"idle", "settle", "return", "release", "status", "payment"}

\* The claim a shopper holds is for its cart's code and its order's id.
OwnClaim(t, stages) ==
    /\ claim[t] # NoClaim
    /\ claim[t].stage \in stages
    /\ claim[t].code = cart[t].code
    /\ claim[t].order = job[t].order

\* How far the promo code of an order is when its shopper is at a statement.
ClaimFits(t) ==
    /\ pc[t] \in {"idle", "resolve"} => claim[t] = NoClaim
    /\ pc[t] = "promo" => /\ cart[t].code # NoCode
                          /\ claim[t] = NoClaim \/ OwnClaim(t, {"found", "counted"})
    /\ pc[t] = "shell" => OwnClaim(t, {"reserved"})
    /\ pc[t] \in {"deduct", "count"} =>
          IF cart[t].code = NoCode THEN claim[t] = NoClaim ELSE OwnClaim(t, {"recorded"})

\* The lines of a shopper's cart are in the ledger or still to deduct.
SaleFits(t) ==
    /\ wrote[t]["RETURN"] = None
    /\ pc[t] = "idle" => job[t] = Idle /\ wrote[t]["SALE"] = None
    /\ pc[t] # "idle" =>
          /\ job[t].order \in Order
          /\ job[t].kind = "SALE"
          /\ cart[t] \in Carts
          /\ \A r \in Row : wrote[t]["SALE"][r] + todo[t][r] = CartLines(cart[t])[r]
    /\ pc[t] = "count" => todo[t] = None

\* The id of an order being placed is its shopper's alone.
IdIsOwn(t) == pc[t] # "idle" =>
    /\ book[job[t].order] = NoRow
    /\ \A u \in Tx \ {t} : job[u].order # job[t].order

ShopperFits(t) ==
    pc[t] \in ShopperPc /\ request[t] = NoRequest /\ ClaimFits(t) /\ SaleFits(t) /\ IdIsOwn(t)

\* A clerk redeems nothing and sells nothing; what it gives back is of the
\* order its request is about.
ClerkFits(t) ==
    /\ pc[t] \in ClerkPc
    /\ claim[t] = NoClaim
    /\ wrote[t]["SALE"] = None
    /\ pc[t] = "idle" <=> request[t] = NoRequest
    /\ job[t] = Idle => wrote[t]["RETURN"] = None
    /\ job[t] # Idle => /\ request[t] # NoRequest
                        /\ job[t].kind = "RETURN"
                        /\ job[t].order = request[t].order

\* A row of the orders table is blank until its order is placed, and an order
\* that is placed has a history.
PlacedOrNot == \A o \in Order :
    /\ book[o].status = "NONE" => book[o] = NoRow
    /\ book[o] # NoRow => Len(history[o]) > 0

Linked ==
    /\ pc \in [Tx -> ShopperPc \cup ClerkPc]
    /\ cart \in [Tx -> Carts \cup {NoCart}]
    /\ items \in [Order -> Carts \cup {NoCart}]
    /\ \A t \in Shopper : ShopperFits(t)
    /\ \A t \in Clerk : ClerkFits(t)
    /\ PlacedOrNot
    /\ OrderComplete

\* With what the components promise of their own tables, it is inductive.
CheckoutInv == Linked /\ LedgerInv /\ CounterInv /\ MirrorInv /\ StatusInv

-----------------------------------------------------------------------------
\* What the invariant says of a shopper whose order is under way.
LEMMA Shopping ==
    ASSUME CheckoutInv, NEW t \in Shopper
    PROVE  /\ t \in Tx /\ t \notin Clerk
           /\ ShopperFits(t)
           /\ pc[t] # "idle" => /\ job[t] # Idle
                                /\ job[t].order \in Order
                                /\ book[job[t].order] = NoRow
                                /\ ledger[job[t].order]["SALE"] = None
                                /\ \A x \in redemptions : x.order # job[t].order
BY RolesAssumption, NoOrderAssumption
DEF CheckoutInv, Linked, ShopperFits, SaleFits, IdIsOwn, OrderComplete, Idle

\* What it says of a clerk that serves a request: the order was placed.
LEMMA Serving ==
    ASSUME CheckoutInv, NEW t \in Clerk
    PROVE  /\ t \in Tx /\ t \notin Shopper
           /\ ClerkFits(t)
           /\ request[t] # NoRequest => /\ request[t] \in Request
                                        /\ request[t].order \in Order
                                        /\ book[request[t].order] # NoRow
                                        /\ book[request[t].order].status # "NONE"
BY RolesAssumption
DEF CheckoutInv, Linked, StatusInv, PlacedBefore, Open, NoRow, MirrorInv, ShapeInv, BookTypeOK, Request

\* What checkout does to the stock tables is what StockRows says of one order:
\* placements sell under a new id, cancellations return a placed order's lines.
LEMMA StockRefined == CheckoutInv /\ [CheckoutNext]_checkoutVars => [StockNext]_stockVars
<1> SUFFICES ASSUME CheckoutInv, CheckoutNext
             PROVE  StockNext \/ UNCHANGED stockVars
  BY DEF checkoutVars
<1>1. ASSUME NEW t \in Shopper, PlaceOrder(t)
      PROVE  StockNext \/ UNCHANGED stockVars
  <2> t \in Tx
    BY Shopping
  <2>1. ASSUME NEW o \in Order, NEW k \in Carts, Place(t, o, k)
        PROVE  StockNext
    <3>1. CartLines(k) \in Demands
      BY CartStockAssumption
    <3>2. FreshOrder(o)
      BY <2>1 DEF Place, NewOrder, FreshOrder, CheckoutInv, Linked, OrderComplete
    <3> QED BY <2>1, <3>1, <3>2 DEF Place, StockNext
  <2>2. ASSUME NEW r \in Row, DeductLine(t, r)
        PROVE  StockNext
    BY <2>2 DEF DeductLine, DeductPart, StockNext
  <2>3. ASSUME CommitOrder(t)
        PROVE  StockNext
    BY <2>3 DEF CommitOrder, StockNext
  <2>4. ASSUME FailOrder(t)
        PROVE  StockNext
    BY <2>4, Shopping DEF FailOrder, StockNext
  <2> QED BY <1>1, <2>1, <2>2, <2>3, <2>4 DEF PlaceOrder, ResolveLine, PromoStep, Redeem,
             TriggerWrite, CountSold
<1>2. ASSUME NEW t \in Clerk, Administer(t)
      PROVE  StockNext \/ UNCHANGED stockVars
  <2> t \in Tx
    BY Serving
  <2>1. ASSUME ReadLedger(t)
        PROVE  StockNext
    <3>1. BeginReturn(t, request[t].order) /\ request[t] # NoRequest
      BY <2>1, Serving DEF ReadLedger, ClerkFits
    <3>2. request[t].order \in Order /\ book[request[t].order] # NoRow
      BY <3>1, Serving
    <3>3. Placed(request[t].order)
      BY <3>2, CartStockAssumption DEF Placed, CheckoutInv, Linked, OrderComplete
    <3> QED BY <3>1, <3>2, <3>3 DEF StockNext
  <2>2. ASSUME NEW r \in Row, ReturnLine(t, r)
        PROVE  StockNext
    BY <2>2 DEF ReturnLine, RestorePart, StockNext
  <2>3. ASSUME CommitRequest(t) \/ FailRequest(t)
        PROVE  StockNext \/ UNCHANGED stockVars
    BY <2>3 DEF CommitRequest, FailRequest, StockNext
  <2> QED BY <1>2, <2>1, <2>2, <2>3 DEF Administer, BeginStatus, Settle, ReadBundles,
             TriggerWrite, Release, SetStatus, BeginPayment, PaymentStep
<1> QED BY <1>1, <1>2 DEF CheckoutNext

\* What it does to the codes is what PromoCodes says of one checkout: the id a
\* redemption is recorded under belongs to nobody else.
LEMMA PromoRefined == CheckoutInv /\ [CheckoutNext]_checkoutVars => [PromoNext]_promoVars
<1> SUFFICES ASSUME CheckoutInv, CheckoutNext
             PROVE  PromoNext \/ UNCHANGED promoVars
  BY DEF checkoutVars
<1> PromoTypeOK /\ LocksAreClaims
  BY DEF CheckoutInv, CounterInv
\* A transaction without a claim has nothing to commit or to take back.
<1>1. ASSUME NEW t \in Tx, claim[t] = NoClaim, PromoCommit(t) \/ PromoRollback(t)
      PROVE  UNCHANGED promoVars
  <2>1. \A c \in Code : promoHolder[c] # t
    BY <1>1 DEF LocksAreClaims, Holding, HasClaim
  <2>2. promo' = promo /\ promoDraft' = promoDraft /\ promoHolder' = promoHolder
    BY <1>1, <2>1 DEF PromoCommit, PromoRollback, PromoEnd, View, Discard, Unlock, PromoTypeOK
  <2>3. Written(t) = {}
    BY <1>1 DEF Written, NoClaim
  <2>4. redemptions' = redemptions /\ claim' = claim /\ edit' = edit
    BY <1>1, <2>3 DEF PromoCommit, PromoRollback, PromoEnd, PromoTypeOK
  <2> QED BY <2>2, <2>4 DEF promoVars
<1>2. ASSUME NEW t \in Tx, PromoCommit(t) \/ PromoRollback(t)
      PROVE  PromoNext \/ UNCHANGED promoVars
  BY <1>1, <1>2 DEF PromoNext
<1>3. ASSUME NEW t \in Shopper, PlaceOrder(t)
      PROVE  PromoNext \/ UNCHANGED promoVars
  <2> t \in Tx
    BY Shopping
  <2>1. ASSUME PromoStep(t)
        PROVE  PromoNext
    <3>1. CASE FindCode(t, cart[t].code, cart[t].by, job[t].order)
      <4>1. cart[t].code \in Code /\ cart[t].by \in Customer /\ job[t].order \in Order
        BY <2>1, Shopping, CheckoutCartsAssumption
        DEF PromoStep, ShopperFits, ClaimFits, SaleFits, Cart
      <4>2. UnredeemedOrder(job[t].order)
        <5>1. \A x \in redemptions : x.order # job[t].order
          BY <2>1, Shopping DEF PromoStep
        <5>2. ASSUME NEW u \in Tx, claim[u] # NoClaim
              PROVE  claim[u].order # job[t].order
          <6>1. u \in Shopper /\ u # t
            BY <3>1, <5>2, Serving, RolesAssumption DEF FindCode, ClerkFits
          <6>2. claim[u].order = job[u].order
            BY <5>2, <6>1, Shopping DEF ShopperFits, ClaimFits, OwnClaim, ShopperPc
          <6> QED BY <2>1, <6>1, <6>2, Shopping DEF PromoStep, ShopperFits, IdIsOwn
        <5> QED BY <5>1, <5>2 DEF UnredeemedOrder
      <4> QED BY <3>1, <4>1, <4>2 DEF PromoNext
    <3>2. CASE CountForCustomer(t) \/ Reserve(t)
      BY <3>2 DEF PromoNext
    <3> QED BY <2>1, <3>1, <3>2 DEF PromoStep
  <2>2. ASSUME Redeem(t)
        PROVE  PromoNext
    BY <2>2 DEF Redeem, PromoNext
  <2>3. ASSUME CommitOrder(t) \/ FailOrder(t)
        PROVE  PromoNext \/ UNCHANGED promoVars
    BY <1>2, <2>3 DEF CommitOrder, FailOrder
  <2> QED BY <1>3, <2>1, <2>2, <2>3 DEF PlaceOrder, Place, ResolveLine, DeductLine,
             TriggerWrite, CountSold
<1>4. ASSUME NEW t \in Clerk, Administer(t)
      PROVE  UNCHANGED promoVars
  BY <1>4 DEF Administer, BeginStatus, Settle, ReadLedger, ReturnLine, ReadBundles, TriggerWrite,
              Release, SetStatus, BeginPayment, PaymentStep, CommitRequest, FailRequest
<1> QED BY <1>3, <1>4 DEF CheckoutNext

\* What it does to the orders is what OrderBook says of placements and admin
\* requests: a placement commits an order that was not there.
LEMMA BookRefined == CheckoutInv /\ [CheckoutNext]_checkoutVars => [BookNext]_bookVars
<1> SUFFICES ASSUME CheckoutInv, CheckoutNext
             PROVE  BookNext \/ UNCHANGED bookVars
  BY DEF checkoutVars
<1>1. ASSUME NEW t \in Shopper, PlaceOrder(t)
      PROVE  BookNext \/ UNCHANGED bookVars
  <2>1. ASSUME CommitOrder(t)
        PROVE  BookNext
    BY <2>1, Shopping DEF CommitOrder, BookNext
  <2> QED BY <1>1, <2>1 DEF PlaceOrder, Place, ResolveLine, PromoStep, Redeem, DeductLine,
             TriggerWrite, CountSold, FailOrder
<1>2. ASSUME NEW t \in Clerk, Administer(t)
      PROVE  BookNext \/ UNCHANGED bookVars
  <2> t \in Tx
    BY Serving
  <2> SUFFICES AdminStep(t) \/ UNCHANGED bookVars
    BY DEF BookNext
  <2> QED BY <1>2 DEF Administer, AdminStep, BeginStatus, Settle, ReadLedger, ReturnLine,
             ReadBundles, TriggerWrite, Release, SetStatus, BeginPayment, PaymentStep,
             CommitRequest, FailRequest
<1> QED BY <1>1, <1>2 DEF CheckoutNext
-----------------------------------------------------------------------------
\* A step of one request leaves every other request as it was: it touches none
\* of its slots, takes none of its ids and inserts none of its rows.
LEMMA OthersStay ==
    ASSUME CheckoutInv, NEW t \in Tx, NEW u \in Tx \ {t},
           pc'[u] = pc[u], cart'[u] = cart[u], claim'[u] = claim[u], request'[u] = request[u],
           job'[u] = job[u], wrote'[u] = wrote[u], todo'[u] = todo[u],
           \A v \in Tx \ {t} : job'[v] = job[v],
           pc[u] # "idle" /\ u \in Shopper =>
              /\ job'[t].order # job[u].order
              /\ book'[job[u].order] = book[job[u].order]
    PROVE  /\ u \in Shopper => ShopperFits(u)'
           /\ u \in Clerk => ClerkFits(u)'
<1>1. ASSUME u \in Shopper PROVE ShopperFits(u)'
  <2>1. ShopperFits(u)
    BY <1>1, Shopping
  <2>2. ClaimFits(u)' /\ SaleFits(u)'
    BY <2>1 DEF ShopperFits, ClaimFits, OwnClaim, SaleFits
  <2>3. IdIsOwn(u)'
    <3> SUFFICES ASSUME pc[u] # "idle", NEW v \in Tx \ {u}
                 PROVE  book'[job[u].order] = NoRow /\ job'[v].order # job[u].order
      BY DEF IdIsOwn
    <3>1. CASE v = t
      BY <1>1, <2>1, <3>1 DEF ShopperFits, IdIsOwn
    <3>2. CASE v # t
      BY <1>1, <2>1, <3>2 DEF ShopperFits, IdIsOwn
    <3> QED BY <3>1, <3>2
  <2> QED BY <2>1, <2>2, <2>3 DEF ShopperFits
<1>2. ASSUME u \in Clerk PROVE ClerkFits(u)'
  BY <1>2, Serving DEF ClerkFits
<1> QED BY <1>1, <1>2

\* A step that commits nothing leaves the committed tables as they agreed.
LEMMA TablesStay ==
    ASSUME CheckoutInv, UNCHANGED <<ledger, items, redemptions, book, history>>
    PROVE  PlacedOrNot' /\ OrderComplete'
BY DEF CheckoutInv, Linked, PlacedOrNot, OrderComplete

\* The invariant is about t alone when t's step touches only t and commits
\* nothing.
LEMMA StatementStep ==
    ASSUME CheckoutInv, NEW t \in Tx,
           pc' \in [Tx -> ShopperPc \cup ClerkPc], cart' \in [Tx -> Carts \cup {NoCart}],
           UNCHANGED <<ledger, items, redemptions, book, history>>,
           \A u \in Tx \ {t} :
              /\ pc'[u] = pc[u] /\ cart'[u] = cart[u] /\ claim'[u] = claim[u]
              /\ request'[u] = request[u] /\ job'[u] = job[u] /\ wrote'[u] = wrote[u]
              /\ todo'[u] = todo[u]
              /\ pc[u] # "idle" /\ u \in Shopper => job'[t].order # job[u].order,
           t \in Shopper => ShopperFits(t)',
           t \in Clerk => ClerkFits(t)'
    PROVE  Linked'
<1>1. \A u \in Shopper : ShopperFits(u)'
  <2> SUFFICES ASSUME NEW u \in Shopper, u # t PROVE ShopperFits(u)'
    OBVIOUS
  <2> u \in Tx \ {t}
    BY RolesAssumption
  <2> QED BY OthersStay
<1>2. \A u \in Clerk : ClerkFits(u)'
  <2> SUFFICES ASSUME NEW u \in Clerk, u # t PROVE ClerkFits(u)'
    OBVIOUS
  <2> u \in Tx \ {t} /\ u \notin Shopper
    BY RolesAssumption
  <2> QED BY OthersStay
<1> QED BY <1>1, <1>2, TablesStay DEF Linked, CheckoutInv
-----------------------------------------------------------------------------
(* placeOrder, statement by statement                                      *)

\* The shapes the steps rest on.
LEMMA Shapes ==
    ASSUME CheckoutInv
    PROVE  /\ pc \in [Tx -> ShopperPc \cup ClerkPc] /\ cart \in [Tx -> Carts \cup {NoCart}]
           /\ items \in [Order -> Carts \cup {NoCart}]
           /\ StockTypeOK /\ PromoTypeOK /\ BookTypeOK
BY DEF CheckoutInv, Linked, LedgerInv, CounterInv, MirrorInv, ShapeInv

LEMMA PlaceStep ==
    ASSUME CheckoutInv, NEW t \in Shopper, NEW o \in Order, NEW k \in Carts, Place(t, o, k)
    PROVE  Linked'
<1> t \in Tx /\ t \notin Clerk
  BY Shopping
<1>1. /\ pc[t] = "idle" /\ NewOrder(o) /\ BeginSale(t, o, CartLines(k))
      /\ cart' = [cart EXCEPT ![t] = k] /\ pc' = [pc EXCEPT ![t] = "resolve"]
      /\ UNCHANGED <<promoVars, bookVars, items>>
  BY DEF Place, Goto
<1>2. /\ job' = [job EXCEPT ![t] = [order |-> o, kind |-> "SALE"]]
      /\ todo' = [todo EXCEPT ![t] = CartLines(k)]
      /\ UNCHANGED <<ledger, wrote>>
  BY <1>1 DEF BeginSale
<1>3. CartLines(k) \in Lines
  BY CartStockAssumption, DemandsAssumption DEF Lines
<1>4. ShopperFits(t)'
  <2>1. /\ pc'[t] = "resolve" /\ cart'[t] = k /\ claim'[t] = claim[t] /\ claim[t] = NoClaim
        /\ request'[t] = NoRequest /\ book' = book
    BY <1>1, Shapes, Shopping DEF promoVars, bookVars, ShopperFits, ClaimFits
  <2>2. /\ job'[t] = [order |-> o, kind |-> "SALE"] /\ todo'[t] = CartLines(k)
        /\ wrote'[t] = wrote[t]
        /\ \A u \in Tx \ {t} : job'[u] = job[u]
    BY <1>2, Shapes DEF StockTypeOK
  <2>3. wrote[t]["RETURN"] = None /\ wrote[t]["SALE"] = None
    BY <1>1, Shopping DEF ShopperFits, SaleFits
  <2>4. ClaimFits(t)'
    BY <2>1 DEF ClaimFits
  <2>5. SaleFits(t)'
    BY <1>3, <2>1, <2>2, <2>3 DEF SaleFits, None, Lines
  <2>6. IdIsOwn(t)'
    BY <1>1, <2>1, <2>2 DEF IdIsOwn, NewOrder
  <2> QED BY <2>1, <2>4, <2>5, <2>6 DEF ShopperFits, ShopperPc
<1>5. \A u \in Tx \ {t} :
         /\ pc'[u] = pc[u] /\ cart'[u] = cart[u] /\ claim'[u] = claim[u]
         /\ request'[u] = request[u] /\ job'[u] = job[u] /\ wrote'[u] = wrote[u]
         /\ todo'[u] = todo[u] /\ job'[t].order # job[u].order
  BY <1>1, <1>2, Shapes DEF promoVars, bookVars, NewOrder, StockTypeOK
<1>6. pc' \in [Tx -> ShopperPc \cup ClerkPc] /\ cart' \in [Tx -> Carts \cup {NoCart}]
  BY <1>1, Shapes DEF ShopperPc
<1> QED BY <1>1, <1>2, <1>4, <1>5, <1>6, StatementStep DEF promoVars, bookVars

\* A statement that leaves the order's stock slots and its claim alone.
LEMMA ResolveStep ==
    ASSUME CheckoutInv, NEW t \in Shopper, NEW x, ResolveLine(t, x)
    PROVE  Linked'
<1> t \in Tx /\ t \notin Clerk /\ ShopperFits(t)
  BY Shopping
<1> DEFINE next == IF cart[t].code = NoCode THEN "deduct" ELSE "promo"
<1>1. /\ pc[t] = "resolve"
      /\ pc' = [pc EXCEPT ![t] = next] \/ pc' = pc
      /\ UNCHANGED <<stockVars, promoVars, bookVars, cart, items>>
  BY DEF ResolveLine, Goto
<1>2. pc' \in [Tx -> ShopperPc \cup ClerkPc] /\ \A u \in Tx \ {t} : pc'[u] = pc[u]
  BY <1>1, Shapes DEF ShopperPc
<1>3. pc'[t] \in {"resolve", next}
  BY <1>1, Shapes
<1>4. ShopperFits(t)'
  <2>1. claim[t] = NoClaim
    BY <1>1 DEF ShopperFits, ClaimFits
  <2>2. ClaimFits(t)'
    BY <1>1, <1>3, <2>1 DEF ClaimFits, promoVars
  <2>3. SaleFits(t)' /\ IdIsOwn(t)'
    BY <1>1, <1>3 DEF ShopperFits, SaleFits, IdIsOwn, stockVars, bookVars
  <2> QED BY <1>1, <1>3, <2>2, <2>3 DEF ShopperFits, ShopperPc, bookVars
<1>5. \A u \in Tx \ {t} : pc[u] # "idle" /\ u \in Shopper => job[t].order # job[u].order
  BY Shopping DEF ShopperFits, IdIsOwn
<1> QED BY <1>1, <1>2, <1>4, <1>5, Shapes, StatementStep DEF stockVars, promoVars, bookVars

\* A step with the promo code: the claim moves on, for this code and this order.
LEMMA ClaimStep ==
    ASSUME CheckoutInv, NEW t \in Shopper, NEW next \in ShopperPc \ {"idle", "count"},
           PromoStep(t) \/ Redeem(t),
           pc[t] # "idle", pc' = [pc EXCEPT ![t] = next], ClaimFits(t)'
    PROVE  Linked'
<1> t \in Tx /\ t \notin Clerk /\ ShopperFits(t)
  BY Shopping
<1>1. /\ UNCHANGED <<stockVars, bookVars, cart, items, redemptions>>
      /\ \A u \in Tx \ {t} : claim'[u] = claim[u]
  BY Shapes DEF PromoStep, Redeem, FindCode, CountForCustomer, Reserve, RecordRedemption, PromoTypeOK
<1>2. /\ pc' \in [Tx -> ShopperPc \cup ClerkPc]
      /\ pc'[t] = next
      /\ \A u \in Tx \ {t} : pc'[u] = pc[u]
  BY Shapes
<1>3. ShopperFits(t)'
  BY <1>1, <1>2 DEF ShopperFits, SaleFits, IdIsOwn, stockVars, bookVars
<1>4. \A u \in Tx \ {t} : pc[u] # "idle" /\ u \in Shopper => job[t].order # job[u].order
  BY Shopping DEF ShopperFits, IdIsOwn
<1> QED BY <1>1, <1>2, <1>3, <1>4, Shapes, StatementStep DEF stockVars, bookVars

LEMMA PromoStepStep ==
    ASSUME CheckoutInv, NEW t \in Shopper, PromoStep(t) \/ Redeem(t)
    PROVE  Linked'
<1> t \in Tx /\ ShopperFits(t)
  BY Shopping
<1>1. CASE PromoStep(t) /\ FindCode(t, cart[t].code, cart[t].by, job[t].order)
  <2> DEFINE row == View(promo, promoDraft, promoHolder, t)[cart[t].code]
  <2>1. /\ pc[t] = "promo" /\ pc' = pc /\ cart' = cart /\ job' = job
        /\ claim' = [claim EXCEPT ![t] = [stage |-> "found", code |-> cart[t].code, read |-> row,
                                          by |-> cart[t].by, order |-> job[t].order]]
    BY <1>1 DEF PromoStep, FindCode, CountForCustomer, Reserve, stockVars, NoClaim
  <2> HIDE DEF row
  <2>2. ClaimFits(t)'
    BY <2>1, Shapes DEF ShopperFits, ClaimFits, OwnClaim, PromoTypeOK, NoClaim
  <2>3. pc' = [pc EXCEPT ![t] = "promo"]
    BY <2>1, Shapes
  <2> QED BY <1>1, <2>1, <2>2, <2>3, ClaimStep DEF ShopperPc
<1>2. CASE PromoStep(t) /\ CountForCustomer(t)
  <2>1. /\ pc[t] = "promo" /\ pc' = pc /\ cart' = cart /\ job' = job
        /\ claim' = [claim EXCEPT ![t].stage = "counted"] /\ claim[t].stage = "found"
    BY <1>2 DEF PromoStep, CountForCustomer, FindCode, Reserve, stockVars, NoClaim
  <2>2. claim[t] \in Claim
    BY <2>1, Shapes DEF PromoTypeOK, NoClaim
  <2>3. ClaimFits(t)'
    BY <2>1, <2>2, Shapes DEF ShopperFits, ClaimFits, OwnClaim, PromoTypeOK, NoClaim, Claim
  <2>4. pc' = [pc EXCEPT ![t] = "promo"]
    BY <2>1, Shapes
  <2> QED BY <1>2, <2>1, <2>3, <2>4, ClaimStep DEF ShopperPc
<1>3. CASE PromoStep(t) /\ Reserve(t)
  <2>1. /\ pc[t] = "promo" /\ pc' = [pc EXCEPT ![t] = "shell"] /\ cart' = cart /\ job' = job
        /\ claim' = [claim EXCEPT ![t].stage = "reserved"] /\ claim[t].stage = "counted"
    BY <1>3 DEF PromoStep, CountForCustomer, FindCode, Reserve, Goto, stockVars, NoClaim
  <2>2. claim[t] \in Claim
    BY <2>1, Shapes DEF PromoTypeOK, NoClaim
  <2>3. ClaimFits(t)'
    BY <2>1, <2>2, Shapes DEF ShopperFits, ClaimFits, OwnClaim, PromoTypeOK, NoClaim, Claim
  <2> QED BY <1>3, <2>1, <2>3, ClaimStep DEF ShopperPc
<1>4. CASE Redeem(t)
  <2>1. /\ pc[t] = "shell" /\ pc' = [pc EXCEPT ![t] = "deduct"] /\ cart' = cart /\ job' = job
        /\ claim' = [claim EXCEPT ![t].stage = "recorded"] /\ claim[t].stage = "reserved"
    BY <1>4 DEF Redeem, RecordRedemption, Goto, stockVars
  <2>2. claim[t] \in Claim /\ claim[t].code # NoCode
    BY <2>1, Shapes, NoCodeAssumption DEF PromoTypeOK, NoClaim, Claim
  <2>3. ClaimFits(t)'
    BY <2>1, <2>2, Shapes DEF ShopperFits, ClaimFits, OwnClaim, PromoTypeOK, NoClaim, Claim
  <2> QED BY <1>4, <2>1, <2>3, ClaimStep DEF ShopperPc
<1> QED BY <1>1, <1>2, <1>3, <1>4 DEF PromoStep

\* A deducted line moves from the plan to the ledger rows.
LEMMA DeductStep ==
    ASSUME CheckoutInv, NEW t \in Shopper, NEW r \in Row, DeductLine(t, r)
    PROVE  Linked'
<1> t \in Tx /\ t \notin Clerk /\ ShopperFits(t)
  BY Shopping
<1>1. /\ pc[t] = "deduct" /\ job' = job /\ ledger' = ledger
      /\ wrote' = [wrote EXCEPT ![t]["SALE"][r] = @ + todo[t][r]]
      /\ todo' = [todo EXCEPT ![t][r] = 0]
      /\ UNCHANGED <<promoVars, bookVars, cart, items>>
  BY DEF DeductLine, DeductPart, Deduct, Move
<1>2. \/ pc' = [pc EXCEPT ![t] = "count"] /\ todo'[t] = None
      \/ pc' = pc
  BY DEF DeductLine, Goto
<1>3. /\ pc' \in [Tx -> ShopperPc \cup ClerkPc]
      /\ pc'[t] = "deduct" \/ (pc'[t] = "count" /\ todo'[t] = None)
      /\ \A u \in Tx \ {t} : pc'[u] = pc[u]
  BY <1>1, <1>2, Shapes DEF ShopperPc
<1>4. /\ wrote'[t]["RETURN"] = wrote[t]["RETURN"]
      /\ \A q \in Row : wrote'[t]["SALE"][q] + todo'[t][q] = wrote[t]["SALE"][q] + todo[t][q]
      /\ \A u \in Tx \ {t} : wrote'[u] = wrote[u] /\ todo'[u] = todo[u]
  BY <1>1, Shapes DEF StockTypeOK, Lines, Kind
<1>5. ShopperFits(t)'
  <2>1. ClaimFits(t)'
    BY <1>1, <1>3 DEF ShopperFits, ClaimFits, OwnClaim, promoVars
  <2>2. SaleFits(t)'
    BY <1>1, <1>3, <1>4 DEF ShopperFits, SaleFits
  <2>3. IdIsOwn(t)'
    BY <1>1 DEF ShopperFits, IdIsOwn, bookVars
  <2> QED BY <1>1, <1>3, <2>1, <2>2, <2>3 DEF ShopperFits, ShopperPc, bookVars
<1>6. \A u \in Tx \ {t} : job[t].order # job[u].order
  BY <1>1 DEF ShopperFits, IdIsOwn
<1> QED BY <1>1, <1>3, <1>4, <1>5, <1>6, Shapes, StatementStep DEF promoVars, bookVars

\* Combo rows are no part of what links an order's tables.
LEMMA ComboRowStep ==
    ASSUME CheckoutInv,
           UNCHANGED <<stockVars, promoVars, bookVars, pc, cart, items>>
    PROVE  Linked'
<1>1. \A t \in Shopper : ShopperFits(t)'
  BY Shopping DEF ShopperFits, ClaimFits, OwnClaim, SaleFits, IdIsOwn, stockVars, promoVars, bookVars
<1>2. \A t \in Clerk : ClerkFits(t)'
  BY Serving DEF ClerkFits, stockVars, promoVars, bookVars
<1> QED BY <1>1, <1>2, TablesStay, Shapes DEF Linked, stockVars, promoVars, bookVars

\* A shopper whose request is over is as it was before it.
LEMMA ForgottenFits ==
    ASSUME CheckoutInv, NEW t \in Shopper, EndTx(t), ForgetRequest(t),
           claim' = [claim EXCEPT ![t] = NoClaim], request' = request
    PROVE  /\ ShopperFits(t)'
           /\ pc' \in [Tx -> ShopperPc \cup ClerkPc] /\ cart' \in [Tx -> Carts \cup {NoCart}]
           /\ job'[t] = Idle
           /\ \A u \in Tx \ {t} :
                 /\ pc'[u] = pc[u] /\ cart'[u] = cart[u] /\ claim'[u] = claim[u]
                 /\ request'[u] = request[u] /\ job'[u] = job[u] /\ wrote'[u] = wrote[u]
                 /\ todo'[u] = todo[u]
<1> t \in Tx /\ ShopperFits(t)
  BY Shopping
<1>1. /\ pc' = [pc EXCEPT ![t] = "idle"] /\ cart' = [cart EXCEPT ![t] = NoCart]
      /\ wrote' = [wrote EXCEPT ![t] = [k \in Kind |-> None]]
      /\ todo' = [todo EXCEPT ![t] = None] /\ job' = [job EXCEPT ![t] = Idle]
  BY DEF EndTx, ForgetRequest
<1>2. /\ pc'[t] = "idle" /\ job'[t] = Idle /\ claim'[t] = NoClaim
      /\ wrote'[t] = [k \in Kind |-> None] /\ todo'[t] = None
  BY <1>1, Shapes DEF StockTypeOK, PromoTypeOK
<1>3. ShopperFits(t)'
  BY <1>2 DEF ShopperFits, ClaimFits, SaleFits, IdIsOwn, ShopperPc, Kind
<1>4. pc' \in [Tx -> ShopperPc \cup ClerkPc] /\ cart' \in [Tx -> Carts \cup {NoCart}]
  BY <1>1, Shapes DEF ShopperPc
<1> QED BY <1>1, <1>2, <1>3, <1>4, Shapes DEF StockTypeOK, PromoTypeOK

LEMMA FailOrderStep ==
    ASSUME CheckoutInv, NEW t \in Shopper, FailOrder(t)
    PROVE  Linked'
<1> t \in Tx /\ t \notin Clerk
  BY Shopping
<1>1. /\ EndTx(t) /\ ForgetRequest(t) /\ claim' = [claim EXCEPT ![t] = NoClaim]
      /\ UNCHANGED <<ledger, items, redemptions, book, history, request>>
  BY DEF FailOrder, StockRollback, PromoRollback, PromoEnd, bookVars
<1>2. \A u \in Shopper : pc[u] # "idle" => job[u].order # NoOrder
  BY Shopping, NoOrderAssumption
<1>3. /\ ShopperFits(t)'
      /\ pc' \in [Tx -> ShopperPc \cup ClerkPc] /\ cart' \in [Tx -> Carts \cup {NoCart}]
      /\ job'[t] = Idle
      /\ \A u \in Tx \ {t} :
            /\ pc'[u] = pc[u] /\ cart'[u] = cart[u] /\ claim'[u] = claim[u]
            /\ request'[u] = request[u] /\ job'[u] = job[u] /\ wrote'[u] = wrote[u]
            /\ todo'[u] = todo[u]
  BY <1>1, ForgottenFits
<1>4. job'[t].order = NoOrder
  BY <1>3 DEF Idle
<1> QED BY <1>1, <1>2, <1>3, <1>4, StatementStep

\* The commit of a placement: its order appears with its lines, its cart, its
\* redemption and its history, and no other order changes.
LEMMA CommitOrderStep ==
    ASSUME CheckoutInv, NEW t \in Shopper, CommitOrder(t)
    PROVE  Linked'
<1> USE NoTxAssumption, NoOrderAssumption
<1> DEFINE o == job[t].order
           k == cart[t]
<1> t \in Tx /\ t \notin Clerk /\ ShopperFits(t)
  BY Shopping
<1>1. /\ pc[t] = "count" /\ todo[t] = None
      /\ ledger' = [ledger EXCEPT ![o] =
                      [h \in Kind |-> [r \in Row |-> @[h][r] + wrote[t][h][r]]]]
      /\ redemptions' = redemptions \cup Written(t)
      /\ AddOrder(o)
      /\ items' = [items EXCEPT ![o] = k]
      /\ EndTx(t) /\ ForgetRequest(t) /\ claim' = [claim EXCEPT ![t] = NoClaim]
  BY DEF CommitOrder, StockCommit, PromoCommit, PromoEnd
<1>2. /\ o \in Order /\ k \in Carts /\ book[o] = NoRow
      /\ ledger[o]["SALE"] = None /\ \A x \in redemptions : x.order # o
      /\ \A u \in Tx \ {t} : job[u].order # o
  BY <1>1, Shopping DEF ShopperFits, SaleFits, IdIsOwn
<1>3. /\ book' = [book EXCEPT ![o].status = "PENDING"] /\ request' = request
      /\ history' = [history EXCEPT ![o] = <<"PENDING">>]
  BY <1>1 DEF AddOrder
<1>4. /\ ShopperFits(t)'
      /\ pc' \in [Tx -> ShopperPc \cup ClerkPc] /\ cart' \in [Tx -> Carts \cup {NoCart}]
      /\ job'[t] = Idle
      /\ \A u \in Tx \ {t} :
            /\ pc'[u] = pc[u] /\ cart'[u] = cart[u] /\ claim'[u] = claim[u]
            /\ request'[u] = request[u] /\ job'[u] = job[u] /\ wrote'[u] = wrote[u]
            /\ todo'[u] = todo[u]
  BY <1>1, <1>3, ForgottenFits
<1>5. \A u \in Shopper \ {t} : ShopperFits(u)'
  <2> SUFFICES ASSUME NEW u \in Shopper, u # t PROVE ShopperFits(u)'
    OBVIOUS
  <2>1. u \in Tx \ {t}
    BY RolesAssumption
  <2>2. pc[u] # "idle" => /\ job'[t].order # job[u].order
                          /\ book'[job[u].order] = book[job[u].order]
    BY <1>2, <1>3, <1>4, <2>1, Shopping, Shapes DEF Idle, BookTypeOK
  <2> QED BY <1>4, <2>1, <2>2, OthersStay
<1>6. \A u \in Clerk : ClerkFits(u)'
  <2> SUFFICES ASSUME NEW u \in Clerk PROVE ClerkFits(u)'
    OBVIOUS
  <2>1. u \in Tx \ {t} /\ u \notin Shopper
    BY RolesAssumption
  <2> QED BY <1>4, <2>1, OthersStay
<1>7. /\ book'[o] # NoRow /\ book'[o].status = "PENDING"
      /\ \A p \in Order \ {o} : book'[p] = book[p] /\ history'[p] = history[p]
                                /\ ledger'[p] = ledger[p] /\ items'[p] = items[p]
      /\ items'[o] = k /\ history'[o] = <<"PENDING">>
  BY <1>1, <1>2, <1>3, Shapes DEF BookTypeOK, OrderRow, StockTypeOK, NoRow
<1>8. items' \in [Order -> Carts \cup {NoCart}]
  BY <1>1, <1>2, Shapes
<1>9. PlacedOrNot'
  BY <1>7, Shapes DEF PlacedOrNot, CheckoutInv, Linked
<1>10. ledger'[o]["SALE"] = CartLines(k)
  <2>1. CartLines(k) \in Lines
    BY <1>2, CartStockAssumption, DemandsAssumption DEF Lines
  <2>2. \A r \in Row : wrote[t]["SALE"][r] = CartLines(k)[r]
    BY <1>1, <2>1, Shapes DEF ShopperFits, SaleFits, None, StockTypeOK, Kind, Lines
  <2>3. ledger'[o]["SALE"] = [r \in Row |-> ledger[o]["SALE"][r] + wrote[t]["SALE"][r]]
    BY <1>1, <1>2, Shapes DEF StockTypeOK, Kind
  <2> HIDE DEF o, k
  <2>4. ledger'[o]["SALE"] = [r \in Row |-> CartLines(k)[r]]
    BY <1>2, <2>1, <2>2, <2>3 DEF None, Lines
  <2> QED BY <2>1, <2>4 DEF Lines
<1>11. /\ \A x \in redemptions' : x \in redemptions \/ x.order = o
       /\ {x.code : x \in {y \in redemptions' : y.order = o}} = {k.code} \ {NoCode}
       /\ redemptions \subseteq redemptions'
  <2>1. CASE k.code = NoCode
    <3>1. Written(t) = {}
      BY <1>1, <2>1 DEF ShopperFits, ClaimFits, Written, NoClaim
    <3> QED BY <1>1, <1>2, <2>1, <3>1
  <2>2. CASE k.code # NoCode
    <3> DEFINE x == [code |-> claim[t].code, by |-> claim[t].by, order |-> claim[t].order]
    <3>1. /\ claim[t].stage = "recorded" /\ claim[t].code = k.code /\ claim[t].order = o
      BY <1>1, <2>2 DEF ShopperFits, ClaimFits, OwnClaim
    <3>2. Written(t) = {x}
      BY <3>1 DEF Written
    <3>3. x.code = k.code /\ x.order = o
      BY <3>1
    <3> HIDE DEF x, o, k
    <3> QED BY <1>1, <1>2, <2>2, <3>2, <3>3
  <2> QED BY <2>1, <2>2
<1>12. OrderComplete'
  <2> SUFFICES ASSUME NEW p \in Order
               PROVE  IF book'[p] = NoRow
                      THEN /\ ledger'[p]["SALE"] = None
                           /\ items'[p] = NoCart
                           /\ \A x \in redemptions' : x.order # p
                      ELSE /\ items'[p] # NoCart
                           /\ ledger'[p]["SALE"] = CartLines(items'[p])
                           /\ {x.code : x \in {y \in redemptions' : y.order = p}}
                                 = {items'[p].code} \ {NoCode}
                           /\ history'[p][1] = "PENDING"
    BY DEF OrderComplete
  <2> HIDE DEF o, k
  <2>1. CASE p = o
    BY <1>2, <1>7, <1>10, <1>11, <2>1, CheckoutCartsAssumption
  <2>2. CASE p # o
    <3>1. {y \in redemptions' : y.order = p} = {y \in redemptions : y.order = p}
      BY <1>11, <2>2
    <3> QED BY <1>7, <1>11, <2>2, <3>1 DEF CheckoutInv, Linked, OrderComplete
  <2> QED BY <2>1, <2>2
<1> QED BY <1>4, <1>5, <1>6, <1>8, <1>9, <1>12 DEF Linked
LEMMA ShopperStep ==
    ASSUME CheckoutInv, NEW t \in Shopper, PlaceOrder(t)
    PROVE  Linked'
<1>1. ASSUME NEW c \in Combo, TriggerWrite(t, c) \/ CountSold(t, c)
      PROVE  Linked'
  BY <1>1, ComboRowStep DEF TriggerWrite, CountSold
<1> QED BY <1>1, PlaceStep, ResolveStep, PromoStepStep, DeductStep, CommitOrderStep, FailOrderStep
        DEF PlaceOrder

-----------------------------------------------------------------------------
(* updateStatus and updatePaymentStatus, statement by statement            *)

\* No clerk works for an order that is being placed.
LEMMA ClerkIdsApart ==
    ASSUME CheckoutInv, NEW t \in Clerk, NEW u \in Shopper, pc[u] # "idle"
    PROVE  /\ job[t].order # job[u].order
           /\ request[t] # NoRequest => request[t].order # job[u].order
BY Shopping, Serving DEF ShopperFits, IdIsOwn

\* A statement of a request that moves no stock.
LEMMA RequestStatement ==
    ASSUME CheckoutInv, NEW t \in Clerk, NEW next \in ClerkPc \ {"idle"},
           pc' = [pc EXCEPT ![t] = next],
           UNCHANGED <<stockVars, promoVars, cart, items, book, history>>,
           request'[t] # NoRequest,
           request[t] # NoRequest => request'[t].order = request[t].order,
           \A u \in Tx \ {t} : request'[u] = request[u]
    PROVE  Linked'
<1> t \in Tx /\ t \notin Shopper /\ ClerkFits(t)
  BY Serving
<1>1. /\ pc' \in [Tx -> ShopperPc \cup ClerkPc] /\ pc'[t] = next
      /\ \A u \in Tx \ {t} : pc'[u] = pc[u]
  BY Shapes
<1>2. ClerkFits(t)'
  BY <1>1 DEF ClerkFits, stockVars, promoVars
<1>3. \A u \in Tx \ {t} : pc[u] # "idle" /\ u \in Shopper => job[t].order # job[u].order
  BY ClerkIdsApart
<1> QED BY <1>1, <1>2, <1>3, Shapes, StatementStep DEF stockVars, promoVars

\* A request that starts.
LEMMA BeginStep ==
    ASSUME CheckoutInv, NEW t \in Clerk, NEW o \in Order,
           \/ \E s \in StatusEdits : BeginStatus(t, o, s)
           \/ \E p \in PayEdits, noted \in BOOLEAN : BeginPayment(t, o, p, noted)
    PROVE  Linked'
<1> t \in Tx
  BY Serving
<1>1. ASSUME NEW r, r.stage = "read", request' = [request EXCEPT ![t] = r]
      PROVE  request'[t] # NoRequest /\ \A u \in Tx \ {t} : request'[u] = request[u]
  BY <1>1, Shapes DEF BookTypeOK, NoRequest
<1>2. ASSUME NEW s \in StatusEdits, BeginStatus(t, o, s)
      PROVE  Linked'
  <2> DEFINE r == [stage |-> "read", kind |-> "status", order |-> o,
                   to |-> s, seen |-> book[o], noted |-> TRUE]
  <2>1. /\ request[t] = NoRequest /\ request' = [request EXCEPT ![t] = r] /\ r.stage = "read"
        /\ pc' = [pc EXCEPT ![t] = "settle"]
        /\ UNCHANGED <<stockVars, promoVars, cart, items, book, history>>
    BY <1>2 DEF BeginStatus, ReadForStatus, Goto, OrderTables
  <2> HIDE DEF r
  <2> QED BY <1>1, <2>1, RequestStatement DEF ClerkPc
<1>3. ASSUME NEW p \in PayEdits, NEW noted \in BOOLEAN, BeginPayment(t, o, p, noted)
      PROVE  Linked'
  <2> DEFINE r == [stage |-> "read", kind |-> "payment", order |-> o,
                   to |-> p, seen |-> book[o], noted |-> noted]
  <2>1. /\ request[t] = NoRequest /\ request' = [request EXCEPT ![t] = r] /\ r.stage = "read"
        /\ pc' = [pc EXCEPT ![t] = "payment"]
        /\ UNCHANGED <<stockVars, promoVars, cart, items, book, history>>
    BY <1>3 DEF BeginPayment, ReadForPayment, Goto, OrderTables
  <2> HIDE DEF r
  <2> QED BY <1>1, <2>1, RequestStatement DEF ClerkPc
<1> QED BY <1>2, <1>3

\* A request that advances from one statement on orders or charges to the next.
LEMMA AdvanceStep ==
    ASSUME CheckoutInv, NEW t \in Clerk, Settle(t) \/ SetStatus(t) \/ PaymentStep(t)
    PROVE  Linked'
<1> t \in Tx /\ ClerkFits(t)
  BY Serving
<1>1. PICK stage \in {"read", "charged", "written"} :
         Open(t) /\ Advance(t, stage) /\ UNCHANGED <<book, history>>
  BY DEF Settle, SettleCharge, SetStatus, WriteStatus, PaymentStep, WritePayment,
         WritePaymentCharge, Serves, Open
<1>2. /\ request'[t] # NoRequest /\ request'[t].order = request[t].order
      /\ \A u \in Tx \ {t} : request'[u] = request[u]
  BY <1>1, SamePayment DEF CheckoutInv, MirrorInv, Open
<1>3. pc[t] # "idle" /\ UNCHANGED <<stockVars, promoVars, cart, items>>
  BY <1>1 DEF Settle, SetStatus, PaymentStep, OrderTables, ClerkFits, Open
<1>4. \/ pc' = pc
      \/ pc' = [pc EXCEPT ![t] = IF request[t].to \in StockRestoring THEN "return" ELSE "status"]
  BY DEF Settle, SetStatus, PaymentStep, Goto
<1>5. PICK next \in ClerkPc \ {"idle"} : pc' = [pc EXCEPT ![t] = next]
  <2>1. pc' = [pc EXCEPT ![t] = pc[t]] \/ pc' = [pc EXCEPT ![t] = "return"]
        \/ pc' = [pc EXCEPT ![t] = "status"]
    BY <1>4, Shapes
  <2> QED BY <1>3, <2>1 DEF ClerkFits, ClerkPc
<1> QED BY <1>1, <1>2, <1>3, <1>5, RequestStatement

LEMMA ReadLedgerStep ==
    ASSUME CheckoutInv, NEW t \in Clerk, ReadLedger(t)
    PROVE  Linked'
<1> t \in Tx /\ t \notin Shopper /\ ClerkFits(t)
  BY Serving
<1> DEFINE o == request[t].order
<1>1. /\ pc[t] = "return" /\ job[t] = Idle
      /\ job' = [job EXCEPT ![t] = [order |-> o, kind |-> "RETURN"]]
      /\ todo' = [todo EXCEPT ![t] = RestoreLines(o)]
      /\ UNCHANGED <<pc, cart, items, ledger, wrote, promoVars, bookVars>>
  BY DEF ReadLedger, BeginReturn, OrderTables
<1>2. /\ job'[t] = [order |-> o, kind |-> "RETURN"]
      /\ \A u \in Tx \ {t} : job'[u] = job[u] /\ todo'[u] = todo[u]
  BY <1>1, Shapes DEF StockTypeOK
<1>3. ClerkFits(t)'
  BY <1>1, <1>2 DEF ClerkFits, Idle, promoVars, bookVars
<1>4. \A u \in Tx \ {t} : pc[u] # "idle" /\ u \in Shopper => job'[t].order # job[u].order
  BY <1>1, <1>2, ClerkIdsApart DEF ClerkFits
<1> QED BY <1>1, <1>2, <1>3, <1>4, Shapes, StatementStep DEF promoVars, bookVars

LEMMA ReturnLineStep ==
    ASSUME CheckoutInv, NEW t \in Clerk, NEW r \in Row, ReturnLine(t, r)
    PROVE  Linked'
<1> t \in Tx /\ t \notin Shopper /\ ClerkFits(t)
  BY Serving
<1>1. /\ job[t].order # NoOrder
      /\ wrote' = [wrote EXCEPT ![t]["RETURN"][r] = @ + todo[t][r]]
      /\ todo' = [todo EXCEPT ![t][r] = 0]
      /\ UNCHANGED <<pc, cart, items, ledger, job, promoVars, bookVars>>
  BY DEF ReturnLine, RestorePart, Restore, Move, OrderTables
<1>2. /\ wrote'[t]["SALE"] = wrote[t]["SALE"]
      /\ \A u \in Tx \ {t} : wrote'[u] = wrote[u] /\ todo'[u] = todo[u]
  BY <1>1, Shapes DEF StockTypeOK, Kind
<1>3. ClerkFits(t)'
  BY <1>1, <1>2 DEF ClerkFits, Idle, promoVars, bookVars
<1>4. \A u \in Tx \ {t} : pc[u] # "idle" /\ u \in Shopper => job[t].order # job[u].order
  BY ClerkIdsApart
<1> QED BY <1>1, <1>2, <1>3, <1>4, Shapes, StatementStep DEF promoVars, bookVars

\* Bundles are counted outside what links the tables.
LEMMA BundlesStep ==
    ASSUME CheckoutInv, NEW t \in Clerk,
           ReadBundles(t) \/ \E c \in Combo : TriggerWrite(t, c) \/ Release(t, c)
    PROVE  Linked'
<1> t \in Tx /\ ClerkFits(t)
  BY Serving
<1>1. CASE ReadBundles(t)
  <2>1. /\ pc' = [pc EXCEPT ![t] = "release"] /\ job[t] # Idle
        /\ UNCHANGED <<stockVars, promoVars, cart, items, book, history, request>>
    BY <1>1 DEF ReadBundles, Goto, OrderTables, bookVars
  <2> QED BY <2>1, RequestStatement DEF ClerkFits, ClerkPc
<1>2. ASSUME NEW c \in Combo, TriggerWrite(t, c) \/ Release(t, c)
      PROVE  Linked'
  BY <1>2, ComboRowStep DEF TriggerWrite, Release, OrderTables
<1> QED BY <1>1, <1>2
\* A clerk whose request is over is as it was before it, and so is everybody
\* else, as long as the rows it commits are of orders placed before.
LEMMA RequestOver ==
    ASSUME CheckoutInv, NEW t \in Clerk, BookEnd(t), ForgetRequest(t), UNCHANGED promoVars,
           IF job[t] = Idle THEN UNCHANGED stockVars ELSE EndTx(t),
           \A o \in Order : book[o] = NoRow => book'[o] = NoRow
    PROVE  /\ \A u \in Shopper : ShopperFits(u)'
           /\ \A u \in Clerk : ClerkFits(u)'
           /\ pc' \in [Tx -> ShopperPc \cup ClerkPc] /\ cart' \in [Tx -> Carts \cup {NoCart}]
<1> t \in Tx /\ t \notin Shopper /\ ClerkFits(t)
  BY Serving
<1>1. /\ pc' = [pc EXCEPT ![t] = "idle"] /\ cart' = [cart EXCEPT ![t] = NoCart]
      /\ request' = [request EXCEPT ![t] = NoRequest]
  BY DEF ForgetRequest, BookEnd
<1>2. /\ pc' \in [Tx -> ShopperPc \cup ClerkPc] /\ cart' \in [Tx -> Carts \cup {NoCart}]
      /\ pc'[t] = "idle" /\ request'[t] = NoRequest
      /\ \A u \in Tx \ {t} : pc'[u] = pc[u] /\ cart'[u] = cart[u] /\ request'[u] = request[u]
  BY <1>1, Shapes DEF ShopperPc, BookTypeOK
<1>3. /\ job'[t] = Idle /\ wrote'[t]["SALE"] = None /\ wrote'[t]["RETURN"] = None
      /\ \A u \in Tx \ {t} : job'[u] = job[u] /\ wrote'[u] = wrote[u] /\ todo'[u] = todo[u]
  <2>1. CASE job[t] = Idle
    BY <2>1 DEF stockVars, ClerkFits
  <2>2. CASE job[t] # Idle
    BY <2>2, Shapes DEF EndTx, StockTypeOK, Kind
  <2> QED BY <2>1, <2>2
<1>4. ClerkFits(t)'
  BY <1>2, <1>3 DEF ClerkFits, ClerkPc, promoVars
<1>5. \A u \in Tx \ {t} : pc[u] # "idle" /\ u \in Shopper =>
         /\ job'[t].order # job[u].order
         /\ book'[job[u].order] = book[job[u].order]
  BY <1>3, Shopping, NoOrderAssumption DEF Idle
<1>6. \A u \in Tx \ {t} : claim'[u] = claim[u]
  BY DEF promoVars
<1>7. \A u \in Tx \ {t} : (u \in Shopper => ShopperFits(u)') /\ (u \in Clerk => ClerkFits(u)')
  BY <1>2, <1>3, <1>5, <1>6, OthersStay
<1>8. \A u \in Shopper \cup Clerk : u \in Tx
  BY RolesAssumption
<1> QED BY <1>2, <1>4, <1>7, <1>8
LEMMA FailRequestStep ==
    ASSUME CheckoutInv, NEW t \in Clerk, FailRequest(t)
    PROVE  Linked'
<1>1. /\ BookEnd(t) /\ ForgetRequest(t) /\ UNCHANGED promoVars
      /\ IF job[t] = Idle THEN UNCHANGED stockVars ELSE EndTx(t)
      /\ UNCHANGED <<book, history, items>>
  BY DEF FailRequest, BookRollback, StockRollback
<1>2. UNCHANGED <<ledger, redemptions>>
  BY DEF FailRequest, StockRollback, stockVars, promoVars
<1> QED BY <1>1, <1>2, RequestOver, TablesStay, Shapes DEF Linked

\* The commit of an admin request: the rows it holds are of its own order, which
\* was placed and stays placed, and its history grows.
LEMMA CommitRequestStep ==
    ASSUME CheckoutInv, NEW t \in Clerk, CommitRequest(t)
    PROVE  Linked'
<1> USE NoTxAssumption
<1> DEFINE r == request[t]
<1> t \in Tx /\ ClerkFits(t)
  BY Serving
<1>1. /\ BookEnd(t) /\ ForgetRequest(t) /\ UNCHANGED promoVars
      /\ IF job[t] = Idle THEN UNCHANGED stockVars ELSE EndTx(t)
      /\ book' = View(book, bookDraft, bookHolder, t)
      /\ history' = [history EXCEPT ![r.order] = @ \o HistoryRow(r)]
      /\ items' = items /\ redemptions' = redemptions
  BY DEF CommitRequest, BookCommit, StockCommit, promoVars
<1>2. /\ r # NoRequest /\ r \in Request /\ r.order \in Order /\ book[r.order] # NoRow
      /\ book[r.order].status # "NONE"
  <2>1. r # NoRequest
    BY DEF CommitRequest, BookCommit, NoRequest
  <2> QED BY <2>1, Serving
<1>3. \A o \in Order : /\ bookHolder[o] = t => o = r.order
                       /\ book'[o] = IF bookHolder[o] = t THEN bookDraft[o] ELSE book[o]
  BY <1>1, Shapes DEF CheckoutInv, MirrorInv, LockInv, OrderLocks, BookTypeOK, View
<1>4. bookHolder[r.order] = t => bookDraft[r.order].status # "NONE"
  BY <1>2, Statuses
  DEF CheckoutInv, MirrorInv, ShapeInv, AskedForSense, Open, StatusInv, StatusDrafts
<1>5. \A o \in Order : /\ o # r.order => book'[o] = book[o]
                       /\ book'[r.order].status # "NONE"
  BY <1>2, <1>3, <1>4
<1>6. \A o \in Order : book'[o] = NoRow <=> book[o] = NoRow
  BY <1>2, <1>5 DEF NoRow
<1>7. \A o \in Order : ledger'[o]["SALE"] = ledger[o]["SALE"]
  <2>1. CASE job[t] = Idle
    BY <1>1, <2>1 DEF stockVars
  <2>2. CASE job[t] # Idle
    <3>1. /\ wrote[t]["SALE"] = None /\ job[t].order = r.order
          /\ ledger' = [ledger EXCEPT ![job[t].order] =
                           [k \in Kind |-> [q \in Row |-> @[k][q] + wrote[t][k][q]]]]
      BY <2>2 DEF ClerkFits, CommitRequest, StockCommit
    <3>2. ledger'[r.order]["SALE"] = [q \in Row |-> ledger[r.order]["SALE"][q] + 0]
      BY <1>2, <3>1, Shapes DEF StockTypeOK, Kind, None
    <3>3. ledger[r.order]["SALE"] \in [Row -> Nat]
      BY <1>2, Shapes DEF StockTypeOK, Kind, Lines
    <3> HIDE DEF r
    <3>4. ledger'[r.order]["SALE"] = ledger[r.order]["SALE"]
      BY <3>2, <3>3
    <3> QED BY <3>1, <3>4, Shapes DEF StockTypeOK
  <2> QED BY <2>1, <2>2
<1>8. \A o \in Order : book[o] # NoRow =>
         /\ Len(history'[o]) > 0
         /\ history'[o][1] = "PENDING"
  <2> SUFFICES ASSUME NEW o \in Order, book[o] # NoRow
               PROVE  Len(history'[o]) > 0 /\ history'[o][1] = "PENDING"
    OBVIOUS
  <2>1. /\ history[o] \in Seq(OrderStatus) /\ Len(history[o]) > 0 /\ history[o][1] = "PENDING"
    BY Shapes DEF CheckoutInv, Linked, PlacedOrNot, OrderComplete, BookTypeOK
  <2>2. CASE o # r.order
    BY <1>1, <2>1, <2>2, Shapes DEF BookTypeOK
  <2>3. CASE o = r.order
    <3>1. HistoryRow(r) \in Seq(OrderStatus)
      <4>1. r.kind = "status" \/ r.kind = "payment"
        BY <1>2 DEF Request
      <4> QED BY <1>2, <4>1 DEF HistoryRow, CheckoutInv, MirrorInv, ShapeInv, AskedForSense, Open
    <3>2. history'[o] = history[o] \o HistoryRow(r)
      BY <1>1, <2>3, Shapes DEF BookTypeOK
    <3> HIDE DEF r
    <3> QED BY <2>1, <3>1, <3>2, ConcatProperties
  <2> QED BY <2>2, <2>3
<1>9. PlacedOrNot'
  BY <1>2, <1>5, <1>6, <1>8 DEF PlacedOrNot, CheckoutInv, Linked
<1>10. OrderComplete'
  <2> SUFFICES ASSUME NEW p \in Order
               PROVE  IF book'[p] = NoRow
                      THEN /\ ledger'[p]["SALE"] = None
                           /\ items'[p] = NoCart
                           /\ \A x \in redemptions' : x.order # p
                      ELSE /\ items'[p] # NoCart
                           /\ ledger'[p]["SALE"] = CartLines(items'[p])
                           /\ {x.code : x \in {y \in redemptions' : y.order = p}}
                                 = {items'[p].code} \ {NoCode}
                           /\ history'[p][1] = "PENDING"
    BY DEF OrderComplete
  <2> QED BY <1>1, <1>6, <1>7, <1>8 DEF CheckoutInv, Linked, OrderComplete
<1>11. items' \in [Order -> Carts \cup {NoCart}]
  BY <1>1, Shapes
<1> QED BY <1>1, <1>6, <1>9, <1>10, <1>11, RequestOver DEF Linked

LEMMA ClerkStep ==
    ASSUME CheckoutInv, NEW t \in Clerk, Administer(t)
    PROVE  Linked'
BY BeginStep, AdvanceStep, ReadLedgerStep, ReturnLineStep, BundlesStep, CommitRequestStep,
   FailRequestStep DEF Administer

-----------------------------------------------------------------------------
\* The invariant is inductive: the link between the tables by the steps above,
\* each component's own part because checkout implements the component.
LEMMA CheckoutInvStep == CheckoutInv /\ [CheckoutNext]_checkoutVars => CheckoutInv'
<1> SUFFICES ASSUME CheckoutInv, [CheckoutNext]_checkoutVars
             PROVE  CheckoutInv'
  OBVIOUS
<1>1. LedgerInv'
  BY StockRefined, LedgerInvStep DEF CheckoutInv
<1>2. CounterInv'
  BY PromoRefined, CounterInvStep DEF CheckoutInv
<1>3. MirrorInv' /\ StatusInv'
  BY BookRefined, BookStep DEF CheckoutInv
<1>4. Linked'
  <2>1. CASE UNCHANGED checkoutVars
    BY <2>1, ComboRowStep DEF checkoutVars
  <2> QED BY <2>1, ShopperStep, ClerkStep DEF CheckoutNext
<1> QED BY <1>1, <1>2, <1>3, <1>4 DEF CheckoutInv

LEMMA CheckoutInitially == CheckoutInit => CheckoutInv
<1> SUFFICES ASSUME CheckoutInit PROVE CheckoutInv
  OBVIOUS
<1>1. LedgerInv
  BY StockTypeInitially, LedgerInitially DEF CheckoutInit, LedgerInv
<1>2. CounterInv
  BY PromoTypeInitially, CounterInitially DEF CheckoutInit, CounterInv, CounterRest
<1>3. MirrorInv /\ StatusInv
  BY BookInitially DEF CheckoutInit
<1>4. Linked
  <2> USE RolesAssumption DEF CheckoutInit, StockInit, PromoInit, BookInit
  <2>1. \A t \in Shopper : ShopperFits(t)
    BY DEF ShopperFits, ShopperPc, ClaimFits, SaleFits, IdIsOwn, Kind
  <2>2. \A t \in Clerk : ClerkFits(t)
    BY DEF ClerkFits, ClerkPc, Kind
  <2>3. PlacedOrNot
    BY DEF PlacedOrNot
  <2>4. OrderComplete
    BY DEF OrderComplete, Kind
  <2> QED BY <2>1, <2>2, <2>3, <2>4 DEF Linked, ShopperPc
<1> QED BY <1>1, <1>2, <1>3, <1>4 DEF CheckoutInv

LEMMA CheckoutInvHolds == CheckoutSpec => []CheckoutInv
BY CheckoutInitially, CheckoutInvStep, PTL DEF CheckoutSpec

\* An order has all of its consequences or none of them, whatever fails between
\* two statements of placeOrder and whoever else runs.
THEOREM OrdersAreComplete == CheckoutSpec => []OrderComplete
BY CheckoutInvHolds, PTL DEF CheckoutInv, Linked

\* Every behaviour of the composed checkout is, seen through the variables of
\* one part, a behaviour of that part: the statements of placeOrder and of the
\* order requests reach stock, codes and orders only in the ways the modules of
\* the parts allow, so what is proved of a part holds inside a checkout too.
THEOREM CheckoutIsComposed == CheckoutSpec => StockSpec /\ PromoSpec /\ BookSpec
<1>1. CheckoutInit => StockInit /\ PromoInit /\ BookInit
  BY DEF CheckoutInit
<1>2. CheckoutInv /\ [CheckoutNext]_checkoutVars => [StockNext]_stockVars
  BY StockRefined
<1>3. CheckoutInv /\ [CheckoutNext]_checkoutVars => [PromoNext]_promoVars
  BY PromoRefined
<1>4. CheckoutInv /\ [CheckoutNext]_checkoutVars => [BookNext]_bookVars
  BY BookRefined
<1> QED
  BY <1>1, <1>2, <1>3, <1>4, CheckoutInvHolds, PTL DEF CheckoutSpec, StockSpec, PromoSpec, BookSpec

-----------------------------------------------------------------------------
(* The atomic shop.                                                        *)

OneClerk == \A a, b \in Clerk : a = b

\* Where a clerk's request is, and what it has to give back.
ClerkPlan(t) ==
    /\ pc[t] = "settle" => request[t].kind = "status" /\ request[t].stage = "read"
    /\ pc[t] \in {"return", "release", "status"} =>
          /\ request[t].kind = "status"
          /\ request[t].stage # "read"
          /\ request[t].to \in StockRestoring <=> pc[t] # "status"
    /\ pc[t] = "return" => request[t].stage = "charged"
    /\ pc[t] = "payment" => request[t].kind = "payment"
    /\ pc[t] = "release" => job[t] # Idle /\ todo[t] = None
    /\ job[t] # Idle => pc[t] \in {"return", "release"}

\* The order a status request read is as it was, and what is back on the shelf
\* and what is still to come back are together what the order took.
ClerkReads(t) ==
    /\ request[t] # NoRequest /\ request[t].kind = "status" =>
          request[t].seen.status = book[request[t].order].status
    /\ job[t] # Idle => \A r \in Row :
          wrote[t]["RETURN"][r] + todo[t][r] = ledger[request[t].order]["SALE"][r]

ReturnInv == RestoredOnce /\ \A t \in Clerk : ClerkPlan(t) /\ ClerkReads(t)

-----------------------------------------------------------------------------
\* The bundles a request has put into sold counters, or taken out of them.
Moved(t, c) ==
    IF t \in Shopper
    THEN IF cart[t] = NoCart THEN 0 ELSE cart[t].combos[c] - counts[t][c]
    ELSE IF pc[t] = "release" THEN counts[t][c] - items[request[t].order].combos[c] ELSE 0

SoldRow(row) == DOMAIN row = {"available", "offered", "sold", "active"} /\ row.sold \in Nat

\* Bundles are counted all at once.
CountsFit(t) ==
    /\ t \in Shopper => /\ pc[t] = "idle" => cart[t] = NoCart
                        /\ \A c \in Combo : cart[t] # NoCart => counts[t][c] \in {0, cart[t].combos[c]}
    /\ t \in Clerk => /\ pc[t] # "release" => counts[t] = NoBundles
                      /\ pc[t] = "release" =>
                            /\ \A c \in Combo : counts[t][c] \in {0, items[request[t].order].combos[c]}
                            /\ request[t].stage = "written" => counts[t] = NoBundles

\* A combo's newest version is ahead of the committed one by what its holder
\* has moved, and only holders have moved anything.
SoldPending == \A c \in Combo :
    /\ comboHolder[c] = NoTx => comboDraft[c].sold = combo[c].sold
    /\ \A t \in Tx : IF comboHolder[c] = t THEN comboDraft[c].sold = combo[c].sold + Moved(t, c)
                                           ELSE Moved(t, c) = 0

SoldInv ==
    /\ combo = [c \in Combo |-> combo[c]] /\ comboDraft = [c \in Combo |-> comboDraft[c]]
    /\ \A c \in Combo : SoldRow(combo[c]) /\ SoldRow(comboDraft[c])
    /\ comboHolder \in [Combo -> Tx \cup {NoTx}]
    /\ counts \in [Tx -> [Combo -> Nat]]
    /\ \A t \in Tx : CountsFit(t)
    /\ SoldPending
    /\ SoldMatchesOrders

TermsKept == \A c \in Code : promo[c].usageLimit = Terms[c].usageLimit

ShopInv == ReturnInv /\ SoldInv /\ LimitInv /\ TermsKept
-----------------------------------------------------------------------------
(* An order gives back what it took, once.                                 *)

\* A clerk nobody touches, whose order nobody moves, is where it was.
LEMMA ClerkUntouched ==
    ASSUME CheckoutInv, ReturnInv, NEW u \in Clerk,
           pc'[u] = pc[u], request'[u] = request[u], job'[u] = job[u], wrote'[u] = wrote[u],
           todo'[u] = todo[u],
           request[u] # NoRequest =>
              /\ book'[request[u].order].status = book[request[u].order].status
              /\ ledger'[request[u].order]["SALE"] = ledger[request[u].order]["SALE"]
    PROVE  ClerkPlan(u)' /\ ClerkReads(u)'
<1>1. ClerkPlan(u) /\ ClerkReads(u) /\ ClerkFits(u)
  BY Serving DEF ReturnInv
<1>2. ClerkPlan(u)'
  BY <1>1 DEF ClerkPlan
<1>3. ClerkReads(u)'
  BY <1>1 DEF ClerkReads, ClerkFits
<1> QED BY <1>2, <1>3

\* A shopper's step leaves every clerk and every placed order alone.
LEMMA ShopperReturns ==
    ASSUME CheckoutInv, ReturnInv, NEW t \in Shopper, PlaceOrder(t)
    PROVE  ReturnInv'
<1> t \in Tx /\ t \notin Clerk /\ Clerk \subseteq Tx
  BY Shopping, RolesAssumption
<1> USE Shapes
<1>1. \A u \in Clerk : pc'[u] = pc[u] /\ request'[u] = request[u]
  BY DEF PlaceOrder, Place, ResolveLine, PromoStep, Redeem, DeductLine, TriggerWrite, CountSold,
         CommitOrder, AddOrder, FailOrder, ForgetRequest, Goto, bookVars
<1>2. \A u \in Clerk : job'[u] = job[u] /\ wrote'[u] = wrote[u] /\ todo'[u] = todo[u]
  BY DEF PlaceOrder, Place, BeginSale, ResolveLine, PromoStep, Redeem, DeductLine, DeductPart,
         Deduct, Move, TriggerWrite, CountSold, CommitOrder, StockCommit, FailOrder, StockRollback,
         EndTx, stockVars, StockTypeOK
<1>3. ASSUME UNCHANGED <<ledger, book>>
      PROVE  ReturnInv'
  <2>1. \A u \in Clerk : ClerkPlan(u)' /\ ClerkReads(u)'
    BY <1>1, <1>2, <1>3, ClerkUntouched
  <2> QED BY <1>3, <2>1 DEF ReturnInv, RestoredOnce
<1>4. ASSUME CommitOrder(t)
      PROVE  ReturnInv'
  <2> DEFINE o == job[t].order
  <2>1. o \in Order /\ book[o] = NoRow /\ wrote[t]["RETURN"] = None
    BY <1>4, Shopping DEF CommitOrder, ShopperFits, SaleFits
  <2>2. /\ book' = [book EXCEPT ![o].status = "PENDING"]
        /\ ledger' = [ledger EXCEPT ![o] =
                         [k \in Kind |-> [r \in Row |-> @[k][r] + wrote[t][k][r]]]]
    BY <1>4 DEF CommitOrder, AddOrder, StockCommit
  <2> HIDE DEF o
  <2>3. /\ book'[o].status = "PENDING"
        /\ \A p \in Order \ {o} : book'[p] = book[p] /\ ledger'[p] = ledger[p]
    BY <2>1, <2>2 DEF BookTypeOK, StockTypeOK, NoRow
  <2>4. ledger'[o]["RETURN"] = None
    <3>1. ledger[o]["RETURN"] = None
      BY <2>1 DEF ReturnInv, RestoredOnce, NoRow, StockRestoring
    <3>2. ledger'[o]["RETURN"] = [r \in Row |-> ledger[o]["RETURN"][r] + wrote[t]["RETURN"][r]]
      BY <2>1, <2>2 DEF StockTypeOK, Kind
    <3> QED BY <2>1, <3>1, <3>2 DEF None
  <2>5. RestoredOnce'
    BY <2>3, <2>4 DEF ReturnInv, RestoredOnce, StockRestoring
  <2>6. \A u \in Clerk : request[u] # NoRequest =>
           request[u].order \in Order /\ request[u].order # o
    BY <2>1, Serving
  <2>7. \A u \in Clerk : ClerkPlan(u)' /\ ClerkReads(u)'
    BY <1>1, <1>2, <2>3, <2>6, ClerkUntouched
  <2> QED BY <2>5, <2>7 DEF ReturnInv
<1> QED BY <1>3, <1>4 DEF PlaceOrder, Place, BeginSale, ResolveLine, PromoStep, Redeem, DeductLine,
           DeductPart, Deduct, Move, TriggerWrite, CountSold, FailOrder, StockRollback,
           stockVars, bookVars

-----------------------------------------------------------------------------
\* A clerk's statement commits nothing: what matters is that the clerk itself
\* stays in its plan.
LEMMA ClerkStatement ==
    ASSUME OneClerk, CheckoutInv, ReturnInv, NEW t \in Clerk, UNCHANGED <<ledger, book>>,
           ClerkPlan(t)', ClerkReads(t)'
    PROVE  ReturnInv'
BY DEF OneClerk, ReturnInv, RestoredOnce

\* Stock is still to come back only where none came back before.
LEMMA NothingReturned ==
    ASSUME CheckoutInv, ReturnInv, NEW o \in Order, book[o].status \notin StockRestoring
    PROVE  RestoreLines(o) = ledger[o]["SALE"]
<1>1. ledger[o]["RETURN"] = None
  BY DEF ReturnInv, RestoredOnce
<1>2. ~AlreadyReturned(o)
  BY <1>1 DEF AlreadyReturned, None
<1> QED BY <1>2 DEF RestoreLines

\* An order a status request may move was not undone.
LEMMA MovableStands ==
    ASSUME CheckoutInv, ReturnInv, NEW t \in Clerk, request[t] # NoRequest,
           request[t].kind = "status"
    PROVE  /\ request[t].order \in Order
           /\ book[request[t].order].status \notin StockRestoring \cup {"NONE"}
           /\ request[t].to \in OrderStatus
<1> t \in Tx
  BY Serving
<1>1. /\ request[t].seen.status = book[request[t].order].status /\ request[t].order \in Order
      /\ book[request[t].order].status # "NONE"
  BY Serving DEF ReturnInv, ClerkReads
<1>2. request[t].to \in AllowedTransitions[book[request[t].order].status]
  BY <1>1 DEF CheckoutInv, StatusInv, AllowedWhenRead, Open
<1>3. \A s \in StockRestoring : AllowedTransitions[s] = {}
  BY DEF StockRestoring, AllowedTransitions
<1>4. request[t].to \in OrderStatus
  BY DEF CheckoutInv, MirrorInv, ShapeInv, AskedForSense, Open
<1> QED BY <1>1, <1>2, <1>3, <1>4
LEMMA BeginReturns ==
    ASSUME OneClerk, CheckoutInv, ReturnInv, NEW t \in Clerk, NEW o \in Order,
           \/ \E s \in StatusEdits : BeginStatus(t, o, s)
           \/ \E p \in PayEdits, noted \in BOOLEAN : BeginPayment(t, o, p, noted)
    PROVE  ReturnInv'
<1> USE Shapes
<1> t \in Tx /\ ClerkFits(t) /\ ClerkPlan(t)
  BY Serving DEF ReturnInv
<1>1. ASSUME NEW s \in StatusEdits, BeginStatus(t, o, s)
      PROVE  ReturnInv'
  <2> DEFINE r == [stage |-> "read", kind |-> "status", order |-> o,
                   to |-> s, seen |-> book[o], noted |-> TRUE]
  <2>1. /\ request[t] = NoRequest /\ request' = [request EXCEPT ![t] = r]
        /\ pc' = [pc EXCEPT ![t] = "settle"] /\ book' = book /\ UNCHANGED stockVars
    BY <1>1 DEF BeginStatus, ReadForStatus, Goto
  <2>2. pc'[t] = "settle" /\ request'[t] = r /\ job'[t] = Idle
    BY <2>1 DEF ClerkFits, BookTypeOK, stockVars
  <2>3. ClerkPlan(t)' /\ ClerkReads(t)'
    BY <2>1, <2>2 DEF ClerkPlan, ClerkReads
  <2> QED BY <2>1, <2>3, ClerkStatement DEF stockVars
<1>2. ASSUME NEW p \in PayEdits, NEW noted \in BOOLEAN, BeginPayment(t, o, p, noted)
      PROVE  ReturnInv'
  <2> DEFINE r == [stage |-> "read", kind |-> "payment", order |-> o,
                   to |-> p, seen |-> book[o], noted |-> noted]
  <2>1. /\ request[t] = NoRequest /\ request' = [request EXCEPT ![t] = r]
        /\ pc' = [pc EXCEPT ![t] = "payment"] /\ book' = book /\ UNCHANGED stockVars
    BY <1>2 DEF BeginPayment, ReadForPayment, Goto
  <2>2. pc'[t] = "payment" /\ request'[t] = r /\ job'[t] = Idle
    BY <2>1 DEF ClerkFits, BookTypeOK, stockVars
  <2>3. ClerkPlan(t)' /\ ClerkReads(t)'
    BY <2>1, <2>2 DEF ClerkPlan, ClerkReads
  <2> QED BY <2>1, <2>3, ClerkStatement DEF stockVars
<1> QED BY <1>1, <1>2

\* A request that advances keeps what it read and what it asks for.
LEMMA AdvanceKeeps ==
    ASSUME CheckoutInv, NEW t \in Clerk, NEW stage \in {"read", "charged", "written"},
           request[t] # NoRequest, Advance(t, stage)
    PROVE  /\ request'[t] # NoRequest
           /\ request'[t].stage = stage
           /\ request'[t].kind = request[t].kind /\ request'[t].order = request[t].order
           /\ request'[t].to = request[t].to /\ request'[t].seen = request[t].seen
<1> t \in Tx
  BY Serving
<1>1. /\ request[t] \in Request
      /\ request'[t] = [request[t] EXCEPT !.stage = stage]
  BY Advancing DEF CheckoutInv, MirrorInv, Open
<1> QED BY <1>1 DEF Request, NoRequest

LEMMA AdvanceReturns ==
    ASSUME OneClerk, CheckoutInv, ReturnInv, NEW t \in Clerk,
           Settle(t) \/ SetStatus(t) \/ PaymentStep(t)
    PROVE  ReturnInv'
<1> USE Shapes
<1> t \in Tx /\ ClerkFits(t) /\ ClerkPlan(t) /\ ClerkReads(t)
  BY Serving DEF ReturnInv
<1>1. PICK stage \in {"charged", "written"} :
         /\ request[t] # NoRequest /\ Advance(t, stage) /\ book' = book
         /\ pc[t] = "settle" => stage = "charged"
         /\ pc[t] # "settle" /\ request[t].kind = "status" => stage = "written"
  BY DEF Settle, SettleCharge, SetStatus, WriteStatus, PaymentStep, WritePayment,
         WritePaymentCharge, Serves, ClerkPlan
<1>2. /\ request'[t] # NoRequest /\ request'[t].stage = stage
      /\ request'[t].kind = request[t].kind /\ request'[t].order = request[t].order
      /\ request'[t].to = request[t].to /\ request'[t].seen = request[t].seen
  BY <1>1, AdvanceKeeps
<1>3. UNCHANGED stockVars
  BY DEF Settle, SetStatus, PaymentStep
<1>4. IF pc[t] = "settle"
      THEN pc'[t] = IF request[t].to \in StockRestoring THEN "return" ELSE "status"
      ELSE pc'[t] = pc[t] /\ pc[t] \in {"release", "status", "payment"}
  BY DEF Settle, SetStatus, PaymentStep, Goto
<1>5. ClerkPlan(t)'
  <2>1. CASE pc[t] = "settle"
    BY <1>1, <1>2, <1>3, <1>4, <2>1 DEF ClerkPlan, stockVars
  <2>2. CASE pc[t] # "settle"
    BY <1>1, <1>2, <1>3, <1>4, <2>2 DEF ClerkPlan, stockVars
  <2> QED BY <2>1, <2>2
<1>6. ClerkReads(t)'
  BY <1>1, <1>2, <1>3 DEF ClerkReads, stockVars
<1> QED BY <1>1, <1>3, <1>5, <1>6, ClerkStatement DEF stockVars

LEMMA ReadLedgerReturns ==
    ASSUME OneClerk, CheckoutInv, ReturnInv, NEW t \in Clerk, ReadLedger(t)
    PROVE  ReturnInv'
<1> USE Shapes
<1> t \in Tx /\ ClerkFits(t) /\ ClerkPlan(t) /\ ClerkReads(t)
  BY Serving DEF ReturnInv
<1> DEFINE o == request[t].order
<1>1. /\ pc[t] = "return" /\ job[t] = Idle /\ pc' = pc /\ request' = request
      /\ job' = [job EXCEPT ![t] = [order |-> o, kind |-> "RETURN"]]
      /\ todo' = [todo EXCEPT ![t] = RestoreLines(o)]
      /\ UNCHANGED <<ledger, wrote, book>>
  BY DEF ReadLedger, BeginReturn, bookVars
<1>2. o \in Order /\ RestoreLines(o) = ledger[o]["SALE"]
  <2>1. request[t] # NoRequest /\ request[t].kind = "status"
    BY <1>1 DEF ClerkFits, ClerkPlan
  <2> QED BY <2>1, MovableStands, NothingReturned
<1>3. wrote[t]["RETURN"] = None /\ todo'[t] = ledger[o]["SALE"]
  BY <1>1, <1>2 DEF ClerkFits, StockTypeOK
<1>4. \A r \in Row : wrote'[t]["RETURN"][r] + todo'[t][r] = ledger'[o]["SALE"][r]
  BY <1>1, <1>2, <1>3 DEF None, StockTypeOK, Lines, Kind
<1>5. ClerkPlan(t)' /\ ClerkReads(t)'
  BY <1>1, <1>4 DEF ClerkPlan, ClerkReads
<1> QED BY <1>1, <1>5, ClerkStatement

LEMMA ReturnLineReturns ==
    ASSUME OneClerk, CheckoutInv, ReturnInv, NEW t \in Clerk, NEW r \in Row, ReturnLine(t, r)
    PROVE  ReturnInv'
<1> USE Shapes
<1> t \in Tx /\ ClerkFits(t) /\ ClerkPlan(t) /\ ClerkReads(t)
  BY Serving DEF ReturnInv
<1>1. /\ pc[t] = "return" /\ pc' = pc /\ request' = request /\ job' = job /\ job[t].order # NoOrder
      /\ wrote' = [wrote EXCEPT ![t]["RETURN"][r] = @ + todo[t][r]]
      /\ todo' = [todo EXCEPT ![t][r] = 0]
      /\ UNCHANGED <<ledger, book>>
  BY DEF ReturnLine, RestorePart, Restore, Move, bookVars
<1>2. \A q \in Row : wrote'[t]["RETURN"][q] + todo'[t][q] = wrote[t]["RETURN"][q] + todo[t][q]
  BY <1>1 DEF StockTypeOK, Kind, Lines
<1>3. ClerkPlan(t)' /\ ClerkReads(t)'
  BY <1>1, <1>2 DEF ClerkPlan, ClerkReads
<1> QED BY <1>1, <1>3, ClerkStatement

LEMMA BundleReturns ==
    ASSUME OneClerk, CheckoutInv, ReturnInv, NEW t \in Clerk,
           ReadBundles(t) \/ \E c \in Combo : TriggerWrite(t, c) \/ Release(t, c)
    PROVE  ReturnInv'
<1> USE Shapes
<1> t \in Tx /\ ClerkFits(t) /\ ClerkPlan(t) /\ ClerkReads(t)
  BY Serving DEF ReturnInv
<1>1. UNCHANGED <<stockVars, bookVars>>
  BY DEF ReadBundles, TriggerWrite, Release
<1>2. \/ pc' = pc
      \/ pc[t] = "return" /\ job[t] # Idle /\ todo[t] = None /\ pc' = [pc EXCEPT ![t] = "release"]
  BY DEF ReadBundles, TriggerWrite, Release, Goto
<1>3. ClerkPlan(t)' /\ ClerkReads(t)'
  BY <1>1, <1>2 DEF ClerkPlan, ClerkReads, stockVars, bookVars
<1> QED BY <1>1, <1>3, ClerkStatement DEF stockVars, bookVars

\* A clerk at rest has nothing to give back.
LEMMA AtRest ==
    ASSUME CheckoutInv, NEW t \in Clerk, ForgetRequest(t), BookEnd(t),
           IF job[t] = Idle THEN UNCHANGED stockVars ELSE EndTx(t)
    PROVE  ClerkPlan(t)' /\ ClerkReads(t)'
<1> t \in Tx
  BY Serving
<1>1. pc'[t] = "idle" /\ request'[t] = NoRequest
  BY Shapes DEF ForgetRequest, BookEnd, BookTypeOK
<1>2. job'[t] = Idle
  BY Shapes DEF EndTx, StockTypeOK, stockVars
<1> QED BY <1>1, <1>2 DEF ClerkPlan, ClerkReads

LEMMA FailReturns ==
    ASSUME OneClerk, CheckoutInv, ReturnInv, NEW t \in Clerk, FailRequest(t)
    PROVE  ReturnInv'
<1>1. /\ BookEnd(t) /\ ForgetRequest(t)
      /\ IF job[t] = Idle THEN UNCHANGED stockVars ELSE EndTx(t)
      /\ UNCHANGED <<ledger, book>>
  BY DEF FailRequest, BookRollback, StockRollback, stockVars
<1> QED BY <1>1, AtRest, ClerkStatement
\* What a clerk's commit does to its order and to the shelf: a cancellation
\* closes an order that stood and puts all of its units back; anything else
\* leaves shelf and ledger alone and an order as open or as closed as it was.
LEMMA CommitEffect ==
    ASSUME OneClerk, CheckoutInv, ReturnInv, NEW t \in Clerk, CommitRequest(t), NEW o,
           o = request[t].order
    PROVE  /\ o \in Order /\ book[o].status # "NONE" /\ book'[o].status # "NONE"
           /\ \A p \in Order \ {o} : book'[p] = book[p] /\ ledger'[p] = ledger[p]
           /\ ledger'[o]["SALE"] = ledger[o]["SALE"]
           /\ pc[t] = "release" =>
                 /\ book[o].status \notin StockRestoring /\ book'[o].status \in StockRestoring
                 /\ ledger'[o]["RETURN"] = ledger[o]["SALE"]
                 /\ quantity' = [r \in Row |-> quantity[r] + ledger[o]["SALE"][r]]
           /\ pc[t] # "release" =>
                 /\ book[o].status \in StockRestoring <=> book'[o].status \in StockRestoring
                 /\ UNCHANGED <<ledger, quantity>>
<1> USE Shapes, NoTxAssumption
<1> t \in Tx /\ ClerkFits(t) /\ ClerkPlan(t) /\ ClerkReads(t)
  BY Serving DEF ReturnInv
<1>1. /\ request[t] # NoRequest /\ request[t].stage = "written"
      /\ book' = View(book, bookDraft, bookHolder, t)
      /\ IF job[t] = Idle THEN UNCHANGED stockVars ELSE StockCommit(t)
  BY DEF CommitRequest, BookCommit, NoRequest
<1>2. o \in Order /\ book[o].status # "NONE"
  BY <1>1, Serving
<1>3. bookHolder[o] = t /\ \A p \in Order \ {o} : bookHolder[p] # t
  BY <1>1, <1>2 DEF CheckoutInv, MirrorInv, LockInv, OrderLocks, Open, WroteOrder
<1>4. book'[o] = bookDraft[o] /\ \A p \in Order \ {o} : book'[p] = book[p]
  BY <1>1, <1>2, <1>3 DEF View, BookTypeOK
<1>5. book'[o].status = IF request[t].kind = "status" THEN request[t].to ELSE book[o].status
  BY <1>2, <1>3, <1>4 DEF CheckoutInv, StatusInv, StatusDrafts
<1>6. request[t].kind = "status" =>
         book[o].status \notin StockRestoring /\ request[t].to # "NONE"
  BY <1>1, MovableStands, Statuses
<1>7. CASE pc[t] = "release"
  <2>1. /\ request[t].kind = "status" /\ request[t].to \in StockRestoring
        /\ job[t] # Idle /\ todo[t] = None /\ job[t].order = o
    BY <1>7 DEF ClerkPlan, ClerkFits
  <2>2. /\ ledger' = [ledger EXCEPT ![o] =
                         [k \in Kind |-> [r \in Row |-> @[k][r] + wrote[t][k][r]]]]
        /\ quantity' = Stock(t)
    BY <1>1, <2>1 DEF StockCommit
  <2>3. \A p \in Order \ {o} : ledger'[p] = ledger[p]
    BY <2>2 DEF StockTypeOK
  <2>4. /\ wrote[t]["SALE"] = None
        /\ \A r \in Row : wrote[t]["RETURN"][r] = ledger[o]["SALE"][r]
    <3>1. \A r \in Row : todo[t][r] = 0 /\ wrote[t]["RETURN"][r] \in Nat
      BY <2>1 DEF None, StockTypeOK, Kind, Lines
    <3> QED BY <2>1, <3>1 DEF ClerkReads, ClerkFits
  <2>5. /\ ledger[o]["RETURN"] = None
        /\ ledger[o]["SALE"] \in [Row -> Nat]
    BY <1>2, <1>6, <2>1 DEF ReturnInv, RestoredOnce, StockTypeOK, Kind, Lines
  <2>6. /\ ledger'[o]["RETURN"] = [r \in Row |-> ledger[o]["RETURN"][r] + wrote[t]["RETURN"][r]]
        /\ ledger'[o]["SALE"] = [r \in Row |-> ledger[o]["SALE"][r] + wrote[t]["SALE"][r]]
    BY <1>2, <2>2 DEF StockTypeOK, Kind
  <2>7. ledger'[o]["RETURN"] = ledger[o]["SALE"] /\ ledger'[o]["SALE"] = ledger[o]["SALE"]
    BY <2>4, <2>5, <2>6 DEF None
  <2>8. quantity' = [r \in Row |-> quantity[r] + ledger[o]["SALE"][r]]
    <3>1. \A r \in Row : Stock(t)[r] = quantity[r] + wrote[t]["RETURN"][r]
      <4> SUFFICES ASSUME NEW r \in Row
                   PROVE  Stock(t)[r] = quantity[r] + wrote[t]["RETURN"][r]
        OBVIOUS
      <4> PendingIsWritten /\ WroteIsHeld
        BY DEF CheckoutInv, LedgerInv
      <4>1. quantity[r] \in Int /\ draft[r] \in Int /\ wrote[t]["RETURN"][r] \in Nat
        BY DEF StockTypeOK, Kind, Lines
      <4>2. CASE rowHolder[r] = t
        <5>1. draft[r] - quantity[r] = wrote[t]["RETURN"][r] - 0
          BY <2>4, <4>2 DEF PendingIsWritten, None
        <5> QED BY <4>1, <4>2, <5>1 DEF Stock, View, StockTypeOK
      <4>3. CASE rowHolder[r] # t
        <5>1. wrote[t]["RETURN"][r] = 0
          BY <4>3 DEF WroteIsHeld, Kind
        <5> QED BY <4>1, <4>3, <5>1 DEF Stock, View, StockTypeOK
      <4> QED BY <4>2, <4>3
    <3>2. Stock(t) = [r \in Row |-> Stock(t)[r]]
      BY DEF Stock, View, StockTypeOK
    <3> QED BY <2>2, <2>4, <3>1, <3>2
  <2> QED BY <1>2, <1>4, <1>5, <1>6, <1>7, <2>1, <2>3, <2>7, <2>8
<1>8. CASE pc[t] # "release"
  <2>1. job[t] = Idle /\ (request[t].kind = "status" => request[t].to \notin StockRestoring)
    BY <1>1, <1>8 DEF ClerkPlan, ClerkFits, ClerkPc, CheckoutInv, MirrorInv, ShapeInv, BookTypeOK,
                      Request
  <2>2. UNCHANGED <<ledger, quantity>>
    BY <1>1, <2>1 DEF stockVars
  <2> QED BY <1>2, <1>4, <1>5, <1>6, <1>8, <2>1, <2>2
<1> QED BY <1>7, <1>8

LEMMA CommitReturns ==
    ASSUME OneClerk, CheckoutInv, ReturnInv, NEW t \in Clerk, CommitRequest(t)
    PROVE  ReturnInv'
<1> DEFINE o == request[t].order
<1>1. /\ o \in Order
      /\ \A p \in Order \ {o} : book'[p] = book[p] /\ ledger'[p] = ledger[p]
      /\ ledger'[o]["SALE"] = ledger[o]["SALE"]
      /\ pc[t] = "release" => /\ book'[o].status \in StockRestoring
                              /\ ledger'[o]["RETURN"] = ledger[o]["SALE"]
      /\ pc[t] # "release" => /\ book[o].status \in StockRestoring <=> book'[o].status \in StockRestoring
                              /\ ledger' = ledger
  BY CommitEffect
<1> HIDE DEF o
<1>2. RestoredOnce'
  BY <1>1 DEF RestoredOnce, ReturnInv
<1>3. ClerkPlan(t)' /\ ClerkReads(t)'
  BY AtRest DEF CommitRequest, BookCommit, StockCommit
<1> QED BY <1>2, <1>3 DEF OneClerk, ReturnInv

LEMMA ReturnStep ==
    ASSUME OneClerk, CheckoutInv, ReturnInv, [CheckoutNext]_checkoutVars
    PROVE  ReturnInv'
<1>1. CASE UNCHANGED checkoutVars
  <2>1. UNCHANGED <<stockVars, bookVars, pc>>
    BY <1>1 DEF checkoutVars
  <2> QED BY <2>1 DEF stockVars, bookVars, ReturnInv, RestoredOnce, ClerkPlan, ClerkReads
<1>2. ASSUME NEW t \in Clerk, Administer(t)
      PROVE  ReturnInv'
  BY <1>2, BeginReturns, AdvanceReturns, ReadLedgerReturns, ReturnLineReturns, BundleReturns,
     CommitReturns, FailReturns DEF Administer
<1> QED BY <1>1, <1>2, ShopperReturns DEF CheckoutNext

LEMMA ReturnInitially == CheckoutInit => ReturnInv
<1> SUFFICES ASSUME CheckoutInit PROVE ReturnInv
  OBVIOUS
<1> USE RolesAssumption DEF CheckoutInit, StockInit, BookInit
<1>1. RestoredOnce
  BY DEF RestoredOnce, Kind, NoRow, StockRestoring
<1>2. \A t \in Clerk : ClerkPlan(t) /\ ClerkReads(t)
  BY DEF ClerkPlan, ClerkReads
<1> QED BY <1>1, <1>2 DEF ReturnInv

\* While status requests do not overlap, an order that was cancelled or failed
\* gave back exactly what it took, and no other order gave anything back
\* (updateStatus, restoreStockForOrder).
THEOREM ReturnsAreExact == OneClerk => (CheckoutSpec => []RestoredOnce)
<1> SUFFICES ASSUME OneClerk PROVE CheckoutSpec => []RestoredOnce
  OBVIOUS
<1>1. CheckoutInit => CheckoutInv /\ ReturnInv
  BY CheckoutInitially, ReturnInitially
<1>2. (CheckoutInv /\ ReturnInv) /\ [CheckoutNext]_checkoutVars => (CheckoutInv /\ ReturnInv)'
  BY CheckoutInvStep, ReturnStep
<1>3. CheckoutInv /\ ReturnInv => RestoredOnce
  BY DEF ReturnInv
<1> QED BY <1>1, <1>2, <1>3, PTL DEF CheckoutSpec
-----------------------------------------------------------------------------
(* Sold counters.                                                          *)

LEMMA MaxOfNat == ASSUME NEW n \in Nat PROVE Max({n, 0}) = n
<1>1. n \in {n, 0} /\ \A y \in {n, 0} : n >= y
  OBVIOUS
<1>2. \A x \in {n, 0} : (\A y \in {n, 0} : x >= y) => x = n
  OBVIOUS
<1> QED BY <1>1, <1>2 DEF Max

\* The bundles of c that order o claims, by the orders and the carts they froze.
Owes(orders, carts, o, c) ==
    IF orders[o].status \in StockRestoring \cup {"NONE"} THEN 0 ELSE carts[o].combos[c]

LEMMA OwesIsSummed ==
    ASSUME NEW orders, NEW carts, NEW c
    PROVE  MapThenSumSet(LAMBDA o : Owes(orders, carts, o, c), Order)
              = SumFunctionOnSet([o \in Order |-> Owes(orders, carts, o, c)], Order)
<1> DEFINE Step(g) == [s \in SUBSET Order |->
                          IF s = {} THEN 0 ELSE Owes(orders, carts, Pick(s), c) + g[s \ {Pick(s)}]]
           f == [o \in Order |-> Owes(orders, carts, o, c)]
<1>1. MapThenSumSet(LAMBDA o : Owes(orders, carts, o, c), Order) = (CHOOSE g : g = Step(g))[Order]
  BY DEF MapThenSumSet, MapThenFoldSet, Pick
<1>2. \A g : g = Step(g) <=> Table(g, f, Order)
  <2>1. \A s \in SUBSET Order : s # {} => f[Pick(s)] = Owes(orders, carts, Pick(s), c)
    BY PickIsMember
  <2> HIDE DEF f
  <2>2. \A g : Step(g) = [s \in SUBSET Order |->
                             IF s = {} THEN 0 ELSE f[Pick(s)] + g[s \ {Pick(s)}]]
    BY <2>1
  <2> HIDE DEF Step
  <2> QED BY <2>2 DEF Table
<1> HIDE DEF Step
<1>3. (CHOOSE g : g = Step(g)) = (CHOOSE g : Table(g, f, Order))
  BY <1>2
<1> QED BY <1>1, <1>3, SumByTable

Owed(o, c) == Owes(book, items, o, c)

LEMMA ClaimedIsSum ==
    ASSUME NEW c
    PROVE  /\ Claimed(c) = SumFunctionOnSet([o \in Order |-> Owed(o, c)], Order)
           /\ Claimed(c)' = SumFunctionOnSet([o \in Order |-> Owed(o, c)'], Order)
<1>1. Claimed(c) = MapThenSumSet(LAMBDA o : Owes(book, items, o, c), Order)
  BY DEF Claimed, Owes
<1>2. Claimed(c)' = MapThenSumSet(LAMBDA o : Owes(book', items', o, c), Order)
  BY DEF Claimed, Owes, MapThenSumSet, MapThenFoldSet
<1> QED BY <1>1, <1>2, OwesIsSummed DEF Owed

\* An order that is placed froze a cart, and a cart counts bundles.
LEMMA OwedIsNat ==
    ASSUME CheckoutInv, NEW c \in Combo
    PROVE  \A o \in Order : Owed(o, c) \in Nat
<1> SUFFICES ASSUME NEW o \in Order, book[o].status # "NONE"
             PROVE  items[o].combos[c] \in Nat
  BY DEF Owed, Owes
<1>1. items[o] \in Carts
  BY Shapes DEF CheckoutInv, Linked, OrderComplete, NoRow
<1> QED BY <1>1, CheckoutCartsAssumption DEF Cart

LEMMA ClaimedIsNat ==
    ASSUME IsFiniteSet(Order), CheckoutInv, NEW c \in Combo
    PROVE  Claimed(c) \in Nat /\ \A o \in Order : Owed(o, c) <= Claimed(c)
<1> DEFINE f == [o \in Order |-> Owed(o, c)]
<1>1. \A o \in Order : f[o] = Owed(o, c) /\ f[o] \in Nat
  BY OwedIsNat
<1> HIDE DEF f
<1> QED BY <1>1, SumNat, ClaimedIsSum DEF f

\* The claims change by what one order's claim changes.
LEMMA ClaimedStep ==
    ASSUME IsFiniteSet(Order), CheckoutInv, NEW c \in Combo, NEW o \in Order, Owed(o, c)' \in Nat,
           \A p \in Order \ {o} : book'[p].status = book[p].status /\ items'[p] = items[p]
    PROVE  Claimed(c)' = Claimed(c) - Owed(o, c) + Owed(o, c)'
<1> DEFINE f == [p \in Order |-> Owed(p, c)]
           g == [p \in Order |-> Owed(p, c)']
<1>1. \A p \in Order \ {o} : f[p] = g[p]
  BY DEF Owed, Owes
<1>2. \A p \in Order : f[p] \in Int /\ g[p] \in Int
  BY <1>1, OwedIsNat
<1>3. Claimed(c) = SumFunctionOnSet(f, Order) /\ Claimed(c)' = SumFunctionOnSet(g, Order)
  BY ClaimedIsSum
<1>4. f[o] = Owed(o, c) /\ g[o] = Owed(o, c)'
  OBVIOUS
<1> HIDE DEF f, g
<1>5. SumFunctionOnSet(g, Order) = SumFunctionOnSet(f, Order) - f[o] + g[o]
  BY <1>1, <1>2, SumChange
<1> QED BY <1>3, <1>4, <1>5

LEMMA ClaimedSame ==
    ASSUME NEW c, \A o \in Order : Owed(o, c)' = Owed(o, c)
    PROVE  Claimed(c)' = Claimed(c)
<1>1. [o \in Order |-> Owed(o, c)'] = [o \in Order |-> Owed(o, c)]
  OBVIOUS
<1> QED BY <1>1, ClaimedIsSum
-----------------------------------------------------------------------------
(* Which steps move bundles.                                               *)

\* A request nobody touches has moved what it had moved.
LEMMA MovedStays ==
    ASSUME NEW u \in Tx, CountsFit(u),
           pc'[u] = pc[u], cart'[u] = cart[u], counts'[u] = counts[u], request'[u] = request[u],
           pc[u] = "release" => items'[request[u].order] = items[request[u].order]
    PROVE  CountsFit(u)' /\ \A c \in Combo : Moved(u, c)' = Moved(u, c)
BY DEF CountsFit, Moved

\* A statement that leaves the combo rows and the orders alone.
LEMMA SoldStatement ==
    ASSUME SoldInv, NEW t \in Tx,
           UNCHANGED <<combo, comboDraft, comboHolder, items, book>>,
           counts' \in [Tx -> [Combo -> Nat]],
           \A u \in Tx \ {t} : /\ pc'[u] = pc[u] /\ cart'[u] = cart[u]
                               /\ counts'[u] = counts[u] /\ request'[u] = request[u],
           CountsFit(t)', \A c \in Combo : Moved(t, c)' = Moved(t, c)
    PROVE  SoldInv'
<1>1. \A u \in Tx : CountsFit(u)' /\ \A c \in Combo : Moved(u, c)' = Moved(u, c)
  BY MovedStays DEF SoldInv
<1>2. SoldPending'
  BY <1>1 DEF SoldInv, SoldPending
<1>3. SoldMatchesOrders'
  <2>1. \A c \in Combo : Claimed(c)' = Claimed(c)
    BY ClaimedSame DEF Owed, Owes
  <2> QED BY <2>1 DEF SoldInv, SoldMatchesOrders
<1> QED BY <1>1, <1>2, <1>3 DEF SoldInv

\* A statement that writes the row of one combo.
LEMMA SoldWrite ==
    ASSUME SoldInv, NEW t \in Tx, NEW c \in Combo, NEW row, NEW d \in Int,
           WriteCombo(t, c, row), SoldRow(row), row.sold = comboDraft[c].sold + d,
           UNCHANGED <<items, book>>,
           counts' \in [Tx -> [Combo -> Nat]],
           \A u \in Tx \ {t} : /\ pc'[u] = pc[u] /\ cart'[u] = cart[u]
                               /\ counts'[u] = counts[u] /\ request'[u] = request[u],
           CountsFit(t)', \A b \in Combo : Moved(t, b) \in Int,
           \A b \in Combo : Moved(t, b)' = IF b = c THEN Moved(t, b) + d ELSE Moved(t, b)
    PROVE  SoldInv'
<1> USE NoTxAssumption
<1>1. \A u \in Tx \ {t} : CountsFit(u)' /\ \A b \in Combo : Moved(u, b)' = Moved(u, b)
  BY MovedStays DEF SoldInv
<1>2. /\ comboHolder[c] \in {NoTx, t} /\ combo' = combo
      /\ comboDraft' = [comboDraft EXCEPT ![c] = row]
      /\ comboHolder' = [comboHolder EXCEPT ![c] = t]
  BY DEF WriteCombo, Free, Lock
<1>3. /\ comboDraft'[c] = row /\ comboHolder'[c] = t
      /\ \A b \in Combo \ {c} : comboDraft'[b] = comboDraft[b] /\ comboHolder'[b] = comboHolder[b]
      /\ comboDraft' = [b \in Combo |-> comboDraft'[b]]
      /\ comboHolder' \in [Combo -> Tx \cup {NoTx}]
  BY <1>2 DEF SoldInv
<1>4. \A b \in Combo : SoldRow(combo'[b]) /\ SoldRow(comboDraft'[b])
  BY <1>2, <1>3 DEF SoldInv
<1>5. SoldPending'
  <2>1. comboDraft[c].sold = combo[c].sold + Moved(t, c)
    <3>1. combo[c].sold \in Nat
      BY DEF SoldInv, SoldRow
    <3> QED BY <1>2, <3>1 DEF SoldInv, SoldPending
  <2>2. comboDraft'[c].sold = combo'[c].sold + Moved(t, c)'
    <3>1. combo[c].sold \in Int /\ comboDraft[c].sold \in Int /\ Moved(t, c) \in Int
      BY DEF SoldInv, SoldRow
    <3>2. Moved(t, c)' = Moved(t, c) + d /\ comboDraft'[c].sold = comboDraft[c].sold + d
      BY <1>3
    <3> QED BY <1>2, <2>1, <3>1, <3>2
  <2>3. \A u \in Tx \ {t} : Moved(u, c)' = 0
    BY <1>1, <1>2 DEF SoldInv, SoldPending
  <2>4. ASSUME NEW b \in Combo, b # c
        PROVE  /\ comboHolder'[b] = NoTx => comboDraft'[b].sold = combo'[b].sold
               /\ \A u \in Tx : IF comboHolder'[b] = u
                                THEN comboDraft'[b].sold = combo'[b].sold + Moved(u, b)'
                                ELSE Moved(u, b)' = 0
    <3>1. \A u \in Tx : Moved(u, b)' = Moved(u, b)
      BY <1>1, <2>4
    <3> QED BY <1>2, <1>3, <2>4, <3>1 DEF SoldInv, SoldPending
  <2> QED BY <1>3, <2>2, <2>3, <2>4 DEF SoldPending
<1>6. SoldMatchesOrders'
  <2>1. \A b \in Combo : Claimed(b)' = Claimed(b)
    BY ClaimedSame DEF Owed, Owes
  <2> QED BY <1>2, <2>1 DEF SoldInv, SoldMatchesOrders
<1>7. combo' = [b \in Combo |-> combo'[b]]
  BY <1>2 DEF SoldInv
<1>8. \A u \in Tx : CountsFit(u)'
  BY <1>1
<1> QED BY <1>3, <1>4, <1>5, <1>6, <1>7, <1>8 DEF SoldInv

\* What a transaction's commit does to the committed counters.
LEMMA SoldCommitted ==
    ASSUME SoldInv, NEW t \in Tx, ComboCommit(t), NEW c \in Combo
    PROVE  combo'[c].sold = combo[c].sold + Moved(t, c)
<1>1. combo'[c] = IF comboHolder[c] = t THEN comboDraft[c] ELSE combo[c]
  BY DEF SoldInv, ComboCommit, Offer, View
<1>2. combo[c].sold \in Nat
  BY DEF SoldInv, SoldRow
<1> QED BY <1>1, <1>2 DEF SoldInv, SoldPending

\* The end of a transaction, once its bundles are in the orders' claims.
LEMMA SoldEnd ==
    ASSUME SoldInv, NEW t \in Tx, ComboCommit(t) \/ ComboRollback(t),
           counts' \in [Tx -> [Combo -> Nat]],
           \A u \in Tx \ {t} : CountsFit(u)' /\ \A c \in Combo : Moved(u, c)' = Moved(u, c),
           CountsFit(t)', \A c \in Combo : Moved(t, c)' = 0,
           \A c \in Combo : combo'[c].sold = Claimed(c)'
    PROVE  SoldInv'
<1> USE NoTxAssumption
<1>1. /\ comboHolder' = Unlock(comboHolder, t)
      /\ \/ comboDraft' = comboDraft /\ combo' = View(combo, comboDraft, comboHolder, t)
         \/ combo' = combo /\ comboDraft' = Discard(combo, comboDraft, comboHolder, t)
  BY DEF ComboCommit, ComboRollback, Offer
<1>2. /\ comboHolder' \in [Combo -> Tx \cup {NoTx}]
      /\ combo' = [c \in Combo |-> combo'[c]] /\ comboDraft' = [c \in Combo |-> comboDraft'[c]]
  BY <1>1 DEF SoldInv, Unlock, View, Discard
<1>3. ASSUME NEW c \in Combo
      PROVE  IF comboHolder[c] = t
             THEN comboHolder'[c] = NoTx /\ comboDraft'[c] = combo'[c]
                  /\ combo'[c] \in {combo[c], comboDraft[c]}
             ELSE comboHolder'[c] = comboHolder[c] /\ combo'[c] = combo[c]
                  /\ comboDraft'[c] = comboDraft[c]
  BY <1>1 DEF SoldInv, Unlock, View, Discard
<1>4. \A c \in Combo : SoldRow(combo'[c]) /\ SoldRow(comboDraft'[c])
  BY <1>3 DEF SoldInv
<1>5. SoldPending'
  <2> SUFFICES ASSUME NEW c \in Combo
               PROVE  /\ comboHolder'[c] = NoTx => comboDraft'[c].sold = combo'[c].sold
                      /\ \A u \in Tx : IF comboHolder'[c] = u
                                       THEN comboDraft'[c].sold = combo'[c].sold + Moved(u, c)'
                                       ELSE Moved(u, c)' = 0
    BY DEF SoldPending
  <2>1. \A u \in Tx \ {t} : Moved(u, c)' = Moved(u, c)
    OBVIOUS
  <2>2. CASE comboHolder[c] = t
    BY <1>3, <2>1, <2>2 DEF SoldInv, SoldPending
  <2>3. CASE comboHolder[c] # t
    BY <1>3, <2>1, <2>3 DEF SoldInv, SoldPending
  <2> QED BY <2>2, <2>3
<1>6. SoldMatchesOrders'
  BY DEF SoldMatchesOrders
<1>7. \A u \in Tx : CountsFit(u)'
  OBVIOUS
<1> QED BY <1>2, <1>4, <1>5, <1>6, <1>7 DEF SoldInv
-----------------------------------------------------------------------------
(* placeOrder counts its bundles.                                          *)

\* A shopper's order that is under way counts the bundles of its cart.
LEMMA ShopperCounts ==
    ASSUME CheckoutInv, SoldInv, NEW t \in Shopper, pc[t] # "idle"
    PROVE  /\ cart[t] \in Carts /\ cart[t] # NoCart
           /\ cart[t].combos \in [Combo -> Nat] /\ counts[t] \in [Combo -> Nat]
           /\ \A c \in Combo : /\ Moved(t, c) = cart[t].combos[c] - counts[t][c]
                               /\ counts[t][c] \in {0, cart[t].combos[c]}
<1>1. t \in Tx /\ cart[t] \in Carts /\ cart[t] # NoCart
  BY Shopping, CheckoutCartsAssumption DEF ShopperFits, SaleFits
<1>2. cart[t].combos \in [Combo -> Nat] /\ counts[t] \in [Combo -> Nat]
  BY <1>1, CheckoutCartsAssumption DEF Cart, SoldInv
<1> QED BY <1>1, <1>2 DEF SoldInv, CountsFit, Moved

\* What a request has moved is a number.
LEMMA MovedIsInt ==
    ASSUME CheckoutInv, SoldInv, NEW t \in Tx, NEW c \in Combo
    PROVE  Moved(t, c) \in Int
<1>1. CASE t \in Shopper
  BY <1>1, ShopperCounts, Shopping DEF Moved, SoldInv, CountsFit
<1>2. CASE t \in Clerk
  <2> SUFFICES ASSUME pc[t] = "release"
               PROVE  counts[t][c] - items[request[t].order].combos[c] \in Int
    BY <1>2, RolesAssumption DEF Moved
  <2> DEFINE o == request[t].order
  <2>1. o \in Order /\ book[o] # NoRow
    BY <1>2, Serving DEF ClerkFits
  <2>2. items[o] \in Carts
    BY <2>1, Shapes DEF CheckoutInv, Linked, OrderComplete
  <2>3. items[o].combos \in [Combo -> Nat] /\ counts[t] \in [Combo -> Nat]
    BY <2>2, CheckoutCartsAssumption DEF Cart, SoldInv
  <2> QED BY <2>3
<1> QED BY <1>1, <1>2, RolesAssumption

LEMMA PlaceSold ==
    ASSUME CheckoutInv, SoldInv, NEW t \in Shopper, NEW o \in Order, NEW k \in Carts,
           Place(t, o, k)
    PROVE  SoldInv'
<1> t \in Tx /\ t \notin Clerk
  BY Shopping
<1>1. /\ pc[t] = "idle" /\ pc' = [pc EXCEPT ![t] = "resolve"]
      /\ cart' = [cart EXCEPT ![t] = k] /\ counts' = [counts EXCEPT ![t] = k.combos]
      /\ UNCHANGED <<combo, comboDraft, comboHolder, items, book, request>>
  BY DEF Place, Goto, comboVars, bookVars
<1>2. k.combos \in [Combo -> Nat] /\ k # NoCart
  BY CheckoutCartsAssumption DEF Cart
<1>3. pc'[t] = "resolve" /\ cart'[t] = k /\ counts'[t] = k.combos
  BY <1>1, Shapes DEF SoldInv
<1>4. counts' \in [Tx -> [Combo -> Nat]]
  BY <1>1, <1>2 DEF SoldInv
<1>5. \A u \in Tx \ {t} : pc'[u] = pc[u] /\ cart'[u] = cart[u] /\ counts'[u] = counts[u]
  BY <1>1, Shapes DEF SoldInv
<1>6. CountsFit(t)'
  BY <1>3 DEF CountsFit
<1>7. \A c \in Combo : Moved(t, c) = 0 /\ Moved(t, c)' = 0
  BY <1>1, <1>2, <1>3 DEF CountsFit, Moved, SoldInv
<1> QED BY <1>1, <1>4, <1>5, <1>6, <1>7, SoldStatement

\* The statements that count no bundle.
LEMMA ShopperStatementSold ==
    ASSUME CheckoutInv, SoldInv, NEW t \in Shopper,
           \/ \E x \in Row \cup Combo : ResolveLine(t, x)
           \/ PromoStep(t) \/ Redeem(t)
           \/ \E r \in Row : DeductLine(t, r)
    PROVE  SoldInv'
<1> t \in Tx /\ t \notin Clerk
  BY Shopping
<1>1. /\ pc[t] # "idle" /\ UNCHANGED <<combo, comboDraft, comboHolder, items, book, cart, counts, request>>
  BY DEF ResolveLine, PromoStep, Redeem, DeductLine, DeductPart, FireTrigger, comboVars, bookVars
<1>2. PICK next \in ShopperPc \ {"idle"} : pc' = [pc EXCEPT ![t] = next]
  <2>1. pc' = pc => pc' = [pc EXCEPT ![t] = pc[t]]
    BY Shapes
  <2>2. pc[t] \in ShopperPc \ {"idle"}
    BY <1>1, Shopping DEF ShopperFits
  <2> QED BY <2>1, <2>2 DEF ResolveLine, PromoStep, Redeem, DeductLine, Goto, ShopperPc
<1>3. pc'[t] = next /\ \A u \in Tx \ {t} : pc'[u] = pc[u]
  BY <1>2, Shapes
<1>4. CountsFit(t)' /\ \A c \in Combo : Moved(t, c)' = Moved(t, c)
  BY <1>1, <1>3 DEF CountsFit, Moved, SoldInv
<1>5. counts' \in [Tx -> [Combo -> Nat]]
  BY <1>1 DEF SoldInv
<1> QED BY <1>1, <1>3, <1>4, <1>5, SoldStatement

\* The trigger writes availability into a row and leaves its counter.
LEMMA TriggerSold ==
    ASSUME CheckoutInv, SoldInv, NEW t \in Tx, NEW c \in Combo, TriggerWrite(t, c)
    PROVE  SoldInv'
<1> DEFINE row == [comboDraft[c] EXCEPT !.available = due[t][c]]
<1> DEFINE d == 0
<1>1. /\ WriteCombo(t, c, row)
      /\ UNCHANGED <<items, book, pc, cart, counts, request>>
  BY DEF TriggerWrite, WriteAvailable, bookVars
<1>2. SoldRow(row) /\ row.sold = comboDraft[c].sold + d /\ d \in Int
  BY DEF SoldInv, SoldRow
<1> HIDE DEF row
<1>3. CountsFit(t)' /\ \A b \in Combo : Moved(t, b)' = Moved(t, b)
  BY <1>1 DEF CountsFit, Moved, SoldInv
<1>4. \A b \in Combo : Moved(t, b) \in Int
  BY MovedIsInt
<1>5. \A b \in Combo : Moved(t, b)' = IF b = c THEN Moved(t, b) + d ELSE Moved(t, b)
  BY <1>3, <1>4
<1>6. counts' \in [Tx -> [Combo -> Nat]]
  BY <1>1 DEF SoldInv
<1> HIDE DEF d
<1> QED BY <1>1, <1>2, <1>3, <1>4, <1>5, <1>6, SoldWrite
LEMMA CountSoldKeeps ==
    ASSUME CheckoutInv, SoldInv, NEW t \in Shopper, NEW c \in Combo, CountSold(t, c)
    PROVE  SoldInv'
<1> t \in Tx /\ t \notin Clerk
  BY Shopping
<1> DEFINE d == counts[t][c]
           row == Synced([comboDraft[c] EXCEPT !.sold = Max({@ + d, 0})])
<1>1. /\ pc[t] = "count" /\ d > 0 /\ WriteCombo(t, c, row)
      /\ counts' = [counts EXCEPT ![t][c] = 0]
      /\ UNCHANGED <<items, book, pc, cart, request>>
  BY DEF CountSold, AdjustSold, bookVars
<1>2. d \in Nat /\ d = cart[t].combos[c] /\ counts \in [Tx -> [Combo -> Nat]]
  BY <1>1, ShopperCounts DEF SoldInv
<1>3. SoldRow(row) /\ row.sold = comboDraft[c].sold + d
  <2>1. SoldRow(comboDraft[c])
    BY DEF SoldInv
  <2>2. comboDraft[c].sold + d \in Nat
    BY <1>2, <2>1 DEF SoldRow
  <2>3. Max({comboDraft[c].sold + d, 0}) = comboDraft[c].sold + d
    BY <2>2, MaxOfNat
  <2> HIDE DEF d
  <2> QED BY <2>1, <2>2, <2>3 DEF SoldRow, Synced
<1> HIDE DEF row
<1>4. /\ counts' \in [Tx -> [Combo -> Nat]] /\ counts'[t][c] = 0
      /\ \A b \in Combo \ {c} : counts'[t][b] = counts[t][b]
      /\ \A u \in Tx \ {t} : counts'[u] = counts[u]
  BY <1>1, <1>2
<1>5. CountsFit(t)'
  BY <1>1, <1>4 DEF CountsFit, SoldInv
<1>6. \A b \in Combo : Moved(t, b)' = IF b = c THEN Moved(t, b) + d ELSE Moved(t, b)
  <2> SUFFICES ASSUME NEW b \in Combo
               PROVE  Moved(t, b)' = IF b = c THEN Moved(t, b) + d ELSE Moved(t, b)
    OBVIOUS
  <2>1. /\ Moved(t, b) = cart[t].combos[b] - counts[t][b]
        /\ Moved(t, b)' = cart[t].combos[b] - counts'[t][b]
    BY <1>1, ShopperCounts DEF Moved
  <2>2. cart[t].combos[b] \in Nat /\ counts[t][b] \in Nat
    BY <1>1, ShopperCounts
  <2>3. CASE b = c
    BY <1>2, <1>4, <2>1, <2>2, <2>3
  <2>4. CASE b # c
    BY <1>4, <2>1, <2>4
  <2> QED BY <2>3, <2>4
<1>7. \A b \in Combo : Moved(t, b) \in Int
  BY MovedIsInt
<1>8. \A u \in Tx \ {t} : /\ pc'[u] = pc[u] /\ cart'[u] = cart[u]
                          /\ counts'[u] = counts[u] /\ request'[u] = request[u]
  BY <1>1, <1>4
<1>9. d \in Int /\ UNCHANGED <<items, book>>
  BY <1>1, <1>2
<1> HIDE DEF d
<1> QED BY <1>1, <1>3, <1>4, <1>5, <1>6, <1>7, <1>8, <1>9, SoldWrite

\* A request that is over has moved nothing.
LEMMA ForgottenCounts ==
    ASSUME CheckoutInv, SoldInv, NEW t \in Tx, ForgetRequest(t)
    PROVE  /\ pc'[t] = "idle"
           /\ CountsFit(t)' /\ \A c \in Combo : Moved(t, c)' = 0
           /\ counts' \in [Tx -> [Combo -> Nat]]
           /\ \A u \in Tx \ {t} : pc'[u] = pc[u] /\ cart'[u] = cart[u] /\ counts'[u] = counts[u]
<1>1. /\ pc' = [pc EXCEPT ![t] = "idle"] /\ cart' = [cart EXCEPT ![t] = NoCart]
      /\ counts' = [counts EXCEPT ![t] = NoBundles]
  BY DEF ForgetRequest
<1>2. pc'[t] = "idle" /\ cart'[t] = NoCart /\ counts'[t] = NoBundles
  BY <1>1, Shapes DEF SoldInv
<1>3. counts' \in [Tx -> [Combo -> Nat]]
  BY <1>1 DEF SoldInv, NoBundles
<1>4. \A u \in Tx \ {t} : pc'[u] = pc[u] /\ cart'[u] = cart[u] /\ counts'[u] = counts[u]
  BY <1>1, Shapes DEF SoldInv
<1> QED BY <1>2, <1>3, <1>4 DEF CountsFit, Moved

LEMMA FailOrderSold ==
    ASSUME CheckoutInv, SoldInv, NEW t \in Shopper, FailOrder(t)
    PROVE  SoldInv'
<1> t \in Tx
  BY Shopping
<1>1. /\ ForgetRequest(t) /\ ComboRollback(t) /\ combo' = combo
      /\ UNCHANGED <<items, book, request>>
  BY DEF FailOrder, ComboRollback, bookVars
<1>2. \A u \in Tx \ {t} : CountsFit(u)' /\ \A c \in Combo : Moved(u, c)' = Moved(u, c)
  BY <1>1, ForgottenCounts, MovedStays DEF SoldInv
<1>3. \A c \in Combo : combo'[c].sold = Claimed(c)'
  <2>1. \A c \in Combo : Claimed(c)' = Claimed(c)
    BY <1>1, ClaimedSame DEF Owed, Owes
  <2> QED BY <1>1, <2>1 DEF SoldInv, SoldMatchesOrders
<1> QED BY <1>1, <1>2, <1>3, ForgottenCounts, SoldEnd

\* What the commit of a placement does to the orders and to the counters.
LEMMA PlacedSold ==
    ASSUME IsFiniteSet(Order), CheckoutInv, SoldInv, NEW t \in Shopper, CommitOrder(t),
           NEW o, o = job[t].order
    PROVE  /\ o \in Order /\ book[o] = NoRow /\ cart[t] \in Carts
           /\ book'[o].status = "PENDING" /\ items'[o] = cart[t]
           /\ \A p \in Order \ {o} : book'[p] = book[p] /\ items'[p] = items[p]
           /\ \A c \in Combo : combo'[c].sold = combo[c].sold + cart[t].combos[c]
           /\ \A c \in Combo : combo'[c].sold = Claimed(c)'
<1> t \in Tx
  BY Shopping
<1>1. /\ pc[t] = "count" /\ counts[t] = NoBundles /\ ComboCommit(t)
      /\ book' = [book EXCEPT ![o].status = "PENDING"]
      /\ items' = [items EXCEPT ![o] = cart[t]]
  BY DEF CommitOrder, AddOrder
<1>2. o \in Order /\ book[o] = NoRow /\ cart[t] \in Carts
  BY <1>1, Shopping DEF ShopperFits, SaleFits
<1>3. /\ book'[o].status = "PENDING" /\ items'[o] = cart[t]
      /\ \A p \in Order \ {o} : book'[p] = book[p] /\ items'[p] = items[p]
  BY <1>1, <1>2, Shapes DEF BookTypeOK, NoRow
<1>4. ASSUME NEW c \in Combo
      PROVE  combo'[c].sold = combo[c].sold + cart[t].combos[c]
  <2>1. Moved(t, c) = cart[t].combos[c] - 0 /\ cart[t].combos[c] \in Nat
    BY <1>1, ShopperCounts DEF NoBundles
  <2> QED BY <1>1, <2>1, SoldCommitted
<1>5. ASSUME NEW c \in Combo
      PROVE  combo'[c].sold = Claimed(c)'
  <2>1. Owed(o, c) = 0 /\ Owed(o, c)' = cart[t].combos[c]
    BY <1>2, <1>3 DEF Owed, Owes, NoRow, StockRestoring
  <2>2. cart[t].combos[c] \in Nat
    BY <1>1, ShopperCounts
  <2>3. Claimed(c)' = Claimed(c) - Owed(o, c) + Owed(o, c)'
    BY <1>2, <1>3, <2>1, <2>2, ClaimedStep
  <2>4. Claimed(c) \in Nat /\ combo[c].sold = Claimed(c)
    BY ClaimedIsNat DEF SoldInv, SoldMatchesOrders
  <2> QED BY <1>4, <2>1, <2>2, <2>3, <2>4
<1> QED BY <1>2, <1>3, <1>4, <1>5

LEMMA CommitOrderSold ==
    ASSUME IsFiniteSet(Order), CheckoutInv, SoldInv, NEW t \in Shopper, CommitOrder(t)
    PROVE  SoldInv'
<1> t \in Tx
  BY Shopping
<1>1. /\ ForgetRequest(t) /\ ComboCommit(t) /\ request' = request
  BY DEF CommitOrder, AddOrder
<1>2. ASSUME NEW u \in Tx \ {t}
      PROVE  CountsFit(u)' /\ \A c \in Combo : Moved(u, c)' = Moved(u, c)
  <2>1. u \in Clerk /\ request[u] # NoRequest =>
           items'[request[u].order] = items[request[u].order]
    BY PlacedSold, Serving
  <2>2. pc[u] = "release" => u \in Clerk /\ request[u] # NoRequest
    BY Shopping, Serving, RolesAssumption DEF ClerkFits, ShopperFits, ShopperPc
  <2>3. pc[u] = "release" => items'[request[u].order] = items[request[u].order]
    BY <2>1, <2>2
  <2>4. CountsFit(u)
    BY DEF SoldInv
  <2> QED BY <1>1, <2>3, <2>4, ForgottenCounts, MovedStays
<1>3. \A c \in Combo : combo'[c].sold = Claimed(c)'
  BY PlacedSold
<1> QED BY <1>1, <1>2, <1>3, ForgottenCounts, SoldEnd

LEMMA ShopperSold ==
    ASSUME IsFiniteSet(Order), CheckoutInv, SoldInv, NEW t \in Shopper, PlaceOrder(t)
    PROVE  SoldInv'
<1> t \in Tx
  BY Shopping
<1> QED BY PlaceSold, ShopperStatementSold, TriggerSold, CountSoldKeeps, CommitOrderSold,
           FailOrderSold DEF PlaceOrder
-----------------------------------------------------------------------------
(* A cancellation takes its bundles back out.                              *)

\* The bundles of the order a request is about are claimed while it stands.
LEMMA ClerkCounts ==
    ASSUME CheckoutInv, ReturnInv, SoldInv, NEW t \in Clerk, request[t] # NoRequest, NEW o,
           o = request[t].order
    PROVE  /\ t \in Tx /\ o \in Order /\ items[o] \in Carts
           /\ items[o].combos \in [Combo -> Nat] /\ counts[t] \in [Combo -> Nat]
           /\ pc[t] = "release" => \A c \in Combo :
                 /\ Owed(o, c) = items[o].combos[c]
                 /\ Moved(t, c) = counts[t][c] - items[o].combos[c]
                 /\ counts[t][c] \in {0, items[o].combos[c]}
           /\ pc[t] # "release" => \A c \in Combo : Moved(t, c) = 0
<1>1. t \in Tx /\ t \notin Shopper /\ o \in Order /\ book[o] # NoRow
  BY Serving
<1>2. items[o] \in Carts
  BY <1>1, Shapes DEF CheckoutInv, Linked, OrderComplete
<1>3. items[o].combos \in [Combo -> Nat] /\ counts[t] \in [Combo -> Nat]
  BY <1>1, <1>2, CheckoutCartsAssumption DEF Cart, SoldInv
<1>4. ASSUME pc[t] = "release", NEW c \in Combo
      PROVE  /\ Owed(o, c) = items[o].combos[c]
             /\ Moved(t, c) = counts[t][c] - items[o].combos[c]
             /\ counts[t][c] \in {0, items[o].combos[c]}
  <2>1. request[t].kind = "status"
    BY <1>4 DEF ReturnInv, ClerkPlan
  <2>2. Owed(o, c) = items[o].combos[c]
    BY <2>1, MovableStands DEF Owed, Owes
  <2> QED BY <1>1, <1>4, <2>2 DEF Moved, SoldInv, CountsFit
<1> QED BY <1>1, <1>2, <1>3, <1>4 DEF Moved

\* The statements that move no bundle.
LEMMA ClerkStatementSold ==
    ASSUME CheckoutInv, SoldInv, NEW t \in Clerk,
           \/ \E o \in Order, s \in StatusEdits : BeginStatus(t, o, s)
           \/ \E o \in Order, p \in PayEdits, noted \in BOOLEAN : BeginPayment(t, o, p, noted)
           \/ Settle(t) \/ ReadLedger(t) \/ PaymentStep(t)
           \/ \E r \in Row : ReturnLine(t, r)
    PROVE  SoldInv'
<1> t \in Tx /\ t \notin Shopper
  BY Serving
<1>1. /\ pc[t] # "release"
      /\ UNCHANGED <<combo, comboDraft, comboHolder, items, book, cart, counts>>
  BY DEF BeginStatus, BeginPayment, Settle, ReadLedger, PaymentStep, ReturnLine, RestorePart,
         FireTrigger, ReadForStatus, ReadForPayment, SettleCharge, WritePayment,
         WritePaymentCharge, comboVars, bookVars, OrderTables
<1>2. PICK next \in ClerkPc \ {"release"} : pc' = [pc EXCEPT ![t] = next]
  <2>1. pc' = pc => pc' = [pc EXCEPT ![t] = pc[t]]
    BY Shapes
  <2>2. pc[t] \in ClerkPc \ {"release"}
    BY <1>1, Serving DEF ClerkFits
  <2> QED BY <2>1, <2>2 DEF BeginStatus, BeginPayment, Settle, ReadLedger, PaymentStep,
             ReturnLine, Goto, ClerkPc
<1>3. pc'[t] = next /\ \A u \in Tx \ {t} : pc'[u] = pc[u]
  BY <1>2, Shapes
<1>4. \A u \in Tx \ {t} : request'[u] = request[u]
  BY Shapes DEF BeginStatus, BeginPayment, Settle, ReadLedger, PaymentStep, ReturnLine,
     ReadForStatus, ReadForPayment, SettleCharge, WritePayment, WritePaymentCharge, Advance,
     bookVars, BookTypeOK
<1>5. CountsFit(t)' /\ \A c \in Combo : Moved(t, c)' = Moved(t, c)
  BY <1>1, <1>3 DEF CountsFit, Moved, SoldInv
<1>6. counts' \in [Tx -> [Combo -> Nat]]
  BY <1>1 DEF SoldInv
<1> QED BY <1>1, <1>3, <1>4, <1>5, <1>6, SoldStatement

\* The order's own row is written once every bundle is out.
LEMMA SetStatusSold ==
    ASSUME CheckoutInv, SoldInv, NEW t \in Clerk, SetStatus(t)
    PROVE  SoldInv'
<1> t \in Tx /\ t \notin Shopper
  BY Serving
<1>1. /\ pc' = pc /\ counts[t] = NoBundles /\ request[t] # NoRequest /\ Advance(t, "written")
      /\ UNCHANGED <<combo, comboDraft, comboHolder, items, book, cart, counts>>
  BY DEF SetStatus, WriteStatus, Serves, comboVars, OrderTables
<1>2. request'[t].order = request[t].order
  BY <1>1, AdvanceKeeps
<1>3. \A u \in Tx \ {t} : request'[u] = request[u]
  BY <1>1, Shapes DEF Advance, BookTypeOK
<1>4. CountsFit(t)'
  BY <1>1, <1>2 DEF CountsFit, SoldInv
<1>5. \A c \in Combo : Moved(t, c)' = Moved(t, c)
  BY <1>1, <1>2 DEF Moved
<1>6. counts' \in [Tx -> [Combo -> Nat]]
  BY <1>1 DEF SoldInv
<1> QED BY <1>1, <1>3, <1>4, <1>5, <1>6, SoldStatement

\* The bundles to release are those of the order: none is moved yet.
LEMMA ReadBundlesSold ==
    ASSUME CheckoutInv, ReturnInv, SoldInv, NEW t \in Clerk, ReadBundles(t)
    PROVE  SoldInv'
<1> DEFINE o == request[t].order
<1>1. /\ pc[t] = "return" /\ pc' = [pc EXCEPT ![t] = "release"]
      /\ counts' = [counts EXCEPT ![t] = items[o].combos]
      /\ UNCHANGED <<combo, comboDraft, comboHolder, items, book, cart, request>>
  BY DEF ReadBundles, Goto, OrderTables, comboVars, bookVars
<1>2. request[t] # NoRequest /\ t \in Tx /\ t \notin Shopper
  BY <1>1, Serving DEF ClerkFits
<1>3. items[o].combos \in [Combo -> Nat] /\ \A c \in Combo : Moved(t, c) = 0
  BY <1>1, <1>2, ClerkCounts
<1>4. request[t].stage = "charged"
  BY <1>1 DEF ReturnInv, ClerkPlan
<1>5. pc'[t] = "release" /\ counts'[t] = items[o].combos
  BY <1>1, <1>2, Shapes DEF SoldInv
<1>6. \A u \in Tx \ {t} : pc'[u] = pc[u] /\ counts'[u] = counts[u]
  BY <1>1, Shapes DEF SoldInv
<1>7. counts' \in [Tx -> [Combo -> Nat]]
  BY <1>1, <1>3 DEF SoldInv
<1>8. CountsFit(t)'
  BY <1>1, <1>2, <1>4, <1>5 DEF CountsFit
<1>9. \A c \in Combo : Moved(t, c)' = 0
  BY <1>1, <1>2, <1>3, <1>5 DEF Moved
<1> QED BY <1>1, <1>2, <1>3, <1>6, <1>7, <1>8, <1>9, SoldStatement

\* One combo's bundles come out of its counter, which holds at least as many:
\* the floor at zero in adjustSoldQuantity never applies.
LEMMA ReleaseSold ==
    ASSUME IsFiniteSet(Order), CheckoutInv, ReturnInv, SoldInv, NEW t \in Clerk, NEW c \in Combo,
           Release(t, c)
    PROVE  SoldInv'
<1> DEFINE o == request[t].order
           n == counts[t][c]
           row == Synced([comboDraft[c] EXCEPT !.sold = Max({@ + (-n), 0})])
<1>1. /\ pc[t] = "release" /\ n > 0 /\ WriteCombo(t, c, row)
      /\ counts' = [counts EXCEPT ![t][c] = 0]
      /\ UNCHANGED <<items, book, pc, cart, request>>
  BY DEF Release, AdjustSold, OrderTables, bookVars
<1>2. request[t] # NoRequest /\ t \in Tx /\ t \notin Shopper
  BY <1>1, Serving DEF ClerkFits
<1>3. /\ o \in Order /\ items[o].combos \in [Combo -> Nat] /\ counts[t] \in [Combo -> Nat]
      /\ \A b \in Combo : /\ Owed(o, b) = items[o].combos[b]
                          /\ Moved(t, b) = counts[t][b] - items[o].combos[b]
                          /\ counts[t][b] \in {0, items[o].combos[b]}
  BY <1>1, <1>2, ClerkCounts
<1>4. n \in Nat /\ n = Owed(o, c) /\ Moved(t, c) = 0
  BY <1>1, <1>3
<1>5. comboDraft[c].sold = combo[c].sold /\ combo[c].sold \in Nat
  <2>1. combo[c].sold \in Nat
    BY DEF SoldInv, SoldRow
  <2> QED BY <1>1, <1>2, <1>4, <2>1 DEF WriteCombo, Free, SoldInv, SoldPending
<1>6. combo[c].sold - n \in Nat
  <2>1. combo[c].sold = Claimed(c)
    BY DEF SoldInv, SoldMatchesOrders
  <2>2. Owed(o, c) <= Claimed(c)
    BY <1>3, ClaimedIsNat
  <2> QED BY <1>4, <1>5, <2>1, <2>2
<1>7. SoldRow(row) /\ row.sold = comboDraft[c].sold + (-n)
  <2>1. SoldRow(comboDraft[c])
    BY DEF SoldInv
  <2>2. comboDraft[c].sold + (-n) \in Nat
    BY <1>4, <1>5, <1>6
  <2>3. Max({comboDraft[c].sold + (-n), 0}) = comboDraft[c].sold + (-n)
    BY <2>2, MaxOfNat
  <2> HIDE DEF n
  <2> QED BY <2>1, <2>2, <2>3 DEF SoldRow, Synced
<1> HIDE DEF row
<1>8. /\ counts' \in [Tx -> [Combo -> Nat]] /\ counts'[t][c] = 0
      /\ \A b \in Combo \ {c} : counts'[t][b] = counts[t][b]
      /\ \A u \in Tx \ {t} : counts'[u] = counts[u]
  BY <1>1, <1>2 DEF SoldInv
<1>9. CountsFit(t)'
  <2>1. counts[t] # NoBundles
    BY <1>1 DEF NoBundles
  <2>2. request[t].stage # "written"
    BY <1>1, <1>2, <2>1 DEF CountsFit, SoldInv
  <2> QED BY <1>1, <1>2, <1>3, <1>8, <2>2 DEF CountsFit
<1> DEFINE d == -n
<1>10. \A b \in Combo : Moved(t, b)' = IF b = c THEN Moved(t, b) + d ELSE Moved(t, b)
  <2> SUFFICES ASSUME NEW b \in Combo
               PROVE  Moved(t, b)' = IF b = c THEN Moved(t, b) + d ELSE Moved(t, b)
    OBVIOUS
  <2>1. Moved(t, b)' = counts'[t][b] - items[o].combos[b]
    BY <1>1, <1>2 DEF Moved
  <2>2. items[o].combos[b] \in Nat /\ counts[t][b] \in Nat
        /\ Moved(t, b) = counts[t][b] - items[o].combos[b]
    BY <1>3
  <2>3. CASE b = c
    BY <1>4, <1>8, <2>1, <2>2, <2>3
  <2>4. CASE b # c
    BY <1>8, <2>1, <2>2, <2>4
  <2> QED BY <2>3, <2>4
<1>11. \A b \in Combo : Moved(t, b) \in Int
  BY <1>2, MovedIsInt
<1>12. d \in Int /\ UNCHANGED <<items, book>> /\ row.sold = comboDraft[c].sold + d
  BY <1>1, <1>4, <1>7
<1>13. \A u \in Tx \ {t} : /\ pc'[u] = pc[u] /\ cart'[u] = cart[u]
                           /\ counts'[u] = counts[u] /\ request'[u] = request[u]
  BY <1>1, <1>8
<1> HIDE DEF d
<1> QED BY <1>1, <1>2, <1>7, <1>8, <1>9, <1>10, <1>11, <1>12, <1>13, SoldWrite
\* What a clerk's commit does to the counters: a cancellation takes out what
\* the order claimed, anything else leaves them alone.
LEMMA CommittedSold ==
    ASSUME OneClerk, IsFiniteSet(Order), CheckoutInv, ReturnInv, SoldInv, NEW t \in Clerk,
           CommitRequest(t), NEW o, o = request[t].order
    PROVE  /\ items[o] \in Carts
           /\ \A c \in Combo : combo'[c].sold =
                 combo[c].sold - IF pc[t] = "release" THEN items[o].combos[c] ELSE 0
           /\ \A c \in Combo : combo'[c].sold = Claimed(c)'
<1>1. /\ ComboCommit(t) /\ items' = items /\ request[t] # NoRequest
      /\ request[t].stage = "written"
  BY DEF CommitRequest, BookCommit, NoRequest
<1>2. /\ t \in Tx /\ t \notin Shopper /\ o \in Order /\ items[o] \in Carts
      /\ items[o].combos \in [Combo -> Nat]
  BY <1>1, ClerkCounts, Serving
<1>3. counts[t] = NoBundles
  BY <1>1, <1>2 DEF SoldInv, CountsFit
<1>4. /\ \A p \in Order \ {o} : book'[p] = book[p]
      /\ pc[t] = "release" => book'[o].status \in StockRestoring
      /\ pc[t] # "release" => (book[o].status \in StockRestoring <=> book'[o].status \in StockRestoring)
      /\ book[o].status # "NONE" /\ book'[o].status # "NONE"
  BY CommitEffect
<1>5. ASSUME NEW c \in Combo
      PROVE  /\ combo'[c].sold =
                    combo[c].sold - IF pc[t] = "release" THEN items[o].combos[c] ELSE 0
             /\ combo'[c].sold = Claimed(c)'
  <2>1. combo'[c].sold = combo[c].sold + Moved(t, c)
    BY <1>1, <1>2, SoldCommitted
  <2>2. combo[c].sold = Claimed(c) /\ Claimed(c) \in Nat
    BY ClaimedIsNat DEF SoldInv, SoldMatchesOrders
  <2>3. CASE pc[t] = "release"
    <3>1. items[o].combos[c] \in Nat
      BY <1>2
    <3>2. Moved(t, c) = 0 - items[o].combos[c] /\ Owed(o, c) = items[o].combos[c]
      BY <1>1, <1>3, <2>3, ClerkCounts DEF NoBundles
    <3>3. Owed(o, c)' = 0
      BY <1>4, <2>3 DEF Owed, Owes
    <3>4. Claimed(c)' = Claimed(c) - Owed(o, c) + Owed(o, c)'
      BY <1>1, <1>2, <1>4, <3>3, ClaimedStep
    <3> QED BY <2>1, <2>2, <2>3, <3>1, <3>2, <3>3, <3>4
  <2>4. CASE pc[t] # "release"
    <3>1. Moved(t, c) = 0
      BY <1>1, <2>4, ClerkCounts
    <3>2. \A p \in Order : Owed(p, c)' = Owed(p, c)
      BY <1>1, <1>4, <2>4 DEF Owed, Owes
    <3>3. Claimed(c)' = Claimed(c)
      BY <3>2, ClaimedSame
    <3> QED BY <2>1, <2>2, <2>4, <3>1, <3>3
  <2> QED BY <2>3, <2>4
<1> QED BY <1>2, <1>5

LEMMA EndRequestSold ==
    ASSUME OneClerk, IsFiniteSet(Order), CheckoutInv, ReturnInv, SoldInv, NEW t \in Clerk,
           CommitRequest(t) \/ FailRequest(t)
    PROVE  SoldInv'
<1> t \in Tx /\ t \notin Shopper
  BY Serving
<1>1. /\ ForgetRequest(t) /\ (ComboCommit(t) \/ ComboRollback(t)) /\ items' = items
      /\ \A u \in Tx \ {t} : request'[u] = request[u]
  BY Shapes DEF CommitRequest, FailRequest, BookCommit, BookRollback, BookEnd, BookTypeOK
<1>2. \A u \in Tx \ {t} : CountsFit(u)' /\ \A c \in Combo : Moved(u, c)' = Moved(u, c)
  BY <1>1, ForgottenCounts, MovedStays DEF SoldInv
<1>3. \A c \in Combo : combo'[c].sold = Claimed(c)'
  <2>1. CASE CommitRequest(t)
    BY <2>1, CommittedSold
  <2>2. CASE FailRequest(t)
    <3>1. combo' = combo /\ book' = book
      BY <2>2 DEF FailRequest, BookRollback, ComboRollback
    <3>2. \A c \in Combo : Claimed(c)' = Claimed(c)
      BY <1>1, <3>1, ClaimedSame DEF Owed, Owes
    <3> QED BY <3>1, <3>2 DEF SoldInv, SoldMatchesOrders
  <2> QED BY <2>1, <2>2
<1> QED BY <1>1, <1>2, <1>3, ForgottenCounts, SoldEnd

LEMMA ClerkSold ==
    ASSUME OneClerk, IsFiniteSet(Order), CheckoutInv, ReturnInv, SoldInv, NEW t \in Clerk,
           Administer(t)
    PROVE  SoldInv'
<1> t \in Tx
  BY Serving
<1> QED BY ClerkStatementSold, SetStatusSold, ReadBundlesSold, TriggerSold, ReleaseSold,
           EndRequestSold DEF Administer

LEMMA SoldStep ==
    ASSUME OneClerk, IsFiniteSet(Order), CheckoutInv, ReturnInv, SoldInv,
           [CheckoutNext]_checkoutVars
    PROVE  SoldInv'
<1>1. CASE UNCHANGED checkoutVars
  <2>1. UNCHANGED <<combo, comboDraft, comboHolder, items, book, cart, counts, pc, request>>
    BY <1>1 DEF checkoutVars, comboVars, bookVars
  <2>2. \A c \in Combo : Claimed(c)' = Claimed(c)
    BY <2>1, ClaimedSame DEF Owed, Owes
  <2>3. \A t \in Tx : CountsFit(t)' /\ \A c \in Combo : Moved(t, c)' = Moved(t, c)
    BY <2>1 DEF SoldInv, CountsFit, Moved
  <2>4. SoldPending' /\ SoldMatchesOrders'
    BY <2>1, <2>2, <2>3 DEF SoldInv, SoldPending, SoldMatchesOrders
  <2> QED BY <2>1, <2>3, <2>4 DEF SoldInv
<1> QED BY <1>1, ShopperSold, ClerkSold DEF CheckoutNext

LEMMA SoldInitially == ASSUME IsFiniteSet(Order), CheckoutInit PROVE SoldInv
<1> USE RolesAssumption DEF CheckoutInit, StockInit, BookInit, ComboInit
<1> DEFINE row(c) == [available |-> Assembled(Opening, c), offered |-> Cap[c], sold |-> 0,
                      active |-> TRUE]
<1>1. \A c \in Combo : combo[c] = Synced(row(c)) /\ comboDraft[c] = combo[c]
  OBVIOUS
<1>2. \A c \in Combo : SoldRow(combo[c]) /\ combo[c].sold = 0
  <2> SUFFICES ASSUME NEW c \in Combo PROVE SoldRow(combo[c]) /\ combo[c].sold = 0
    OBVIOUS
  <2>1. DOMAIN row(c) = {"available", "offered", "sold", "active"} /\ row(c).sold = 0
    OBVIOUS
  <2> HIDE DEF row
  <2> QED BY <1>1, <2>1 DEF SoldRow, Synced
<1>3. /\ combo = [c \in Combo |-> combo[c]] /\ comboDraft = [c \in Combo |-> comboDraft[c]]
      /\ comboHolder \in [Combo -> Tx \cup {NoTx}] /\ counts \in [Tx -> [Combo -> Nat]]
  BY DEF NoBundles
<1>4. \A t \in Tx : CountsFit(t) /\ \A c \in Combo : Moved(t, c) = 0
  BY DEF CountsFit, Moved
<1>5. SoldPending
  BY <1>1, <1>2, <1>4, NoTxAssumption DEF SoldPending
<1>6. SoldMatchesOrders
  <2> SUFFICES ASSUME NEW c \in Combo PROVE Claimed(c) = 0
    BY <1>2 DEF SoldMatchesOrders
  <2> DEFINE f == [o \in Order |-> Owed(o, c)]
  <2>1. \A o \in Order : f[o] = 0
    BY DEF Owed, Owes, NoRow
  <2> HIDE DEF f
  <2>2. SumFunctionOnSet(f, Order) = 0
    BY <2>1, SumZero
  <2> QED BY <2>2, ClaimedIsSum DEF f
<1> QED BY <1>1, <1>2, <1>3, <1>4, <1>5, <1>6 DEF SoldInv

\* While status requests do not overlap, a combo's sold counter is the bundles
\* of the orders that stand, whatever placements, triggers, failures and
\* cancellations interleave (applyComboSoldQuantity, releaseComboSoldQuantity).
THEOREM SoldIsClaimed == OneClerk /\ IsFiniteSet(Order) => (CheckoutSpec => []SoldMatchesOrders)
<1> SUFFICES ASSUME OneClerk, IsFiniteSet(Order) PROVE CheckoutSpec => []SoldMatchesOrders
  OBVIOUS
<1> DEFINE Inv == CheckoutInv /\ ReturnInv /\ SoldInv
<1>1. CheckoutInit => Inv
  BY CheckoutInitially, ReturnInitially, SoldInitially
<1>2. Inv /\ [CheckoutNext]_checkoutVars => Inv'
  BY CheckoutInvStep, ReturnStep, SoldStep
<1>3. Inv => SoldMatchesOrders
  BY DEF SoldInv
<1> QED BY <1>1, <1>2, <1>3, PTL DEF CheckoutSpec
-----------------------------------------------------------------------------
(* Uses of a code.                                                         *)

\* No statement of an order edits a code's limit.
LEMMA TermsStep ==
    ASSUME CheckoutInv, LimitInv, TermsKept, [CheckoutNext]_checkoutVars
    PROVE  LimitInv' /\ TermsKept'
<1> USE Shapes
<1>1. edit' = edit
  BY DEF CheckoutNext, PlaceOrder, Administer, Place, ResolveLine, PromoStep, FindCode,
         CountForCustomer, Reserve, Redeem, RecordRedemption, DeductLine, TriggerWrite, CountSold,
         CommitOrder, PromoCommit, PromoEnd, FailOrder, PromoRollback, BeginStatus, Settle,
         ReadLedger, ReturnLine, ReadBundles, Release, SetStatus, BeginPayment, PaymentStep,
         CommitRequest, FailRequest, promoVars, checkoutVars
<1>2. \A a \in Admin, dto \in Edits : ~UpdateCode(a, dto)
  BY <1>1 DEF UpdateCode, PromoTypeOK
<1>3. LimitInv'
  BY <1>2, PromoRefined, LimitStep DEF CheckoutInv
<1>4. \A c \in Code : promo'[c].usageLimit = promo[c].usageLimit
  <2>1. CASE promo' = promo
    BY <2>1
  <2>2. ASSUME NEW t \in Shopper, CommitOrder(t)
        PROVE  \A c \in Code : promo'[c].usageLimit = promo[c].usageLimit
    BY <2>2 DEF CommitOrder, PromoCommit, View, PromoTypeOK, LimitInv
  <2> QED BY <2>1, <2>2 DEF CheckoutNext, PlaceOrder, Administer, Place, ResolveLine, PromoStep,
             FindCode, CountForCustomer, Reserve, Redeem, RecordRedemption, DeductLine,
             TriggerWrite, CountSold, FailOrder, PromoRollback, BeginStatus, Settle, ReadLedger,
             ReturnLine, ReadBundles, Release, SetStatus, BeginPayment, PaymentStep,
             CommitRequest, FailRequest, promoVars, checkoutVars
<1> QED BY <1>3, <1>4 DEF TermsKept

LEMMA TermsInitially == CheckoutInit => LimitInv /\ TermsKept
BY LimitInitially DEF CheckoutInit, PromoInit, NewRow, TermsKept

\* What the commit of a placement does to the codes: its own is used once more,
\* and had a use left.
LEMMA PlacedUses ==
    ASSUME CheckoutInv, LimitInv, TermsKept, NEW t \in Shopper, CommitOrder(t)
    PROVE  /\ \A c \in Code : promo'[c].usedCount =
                 IF c = cart[t].code THEN promo[c].usedCount + 1 ELSE promo[c].usedCount
           /\ cart[t].code # NoCode /\ Terms[cart[t].code].usageLimit # NoLimit =>
                 promo[cart[t].code].usedCount < Terms[cart[t].code].usageLimit
<1> USE Shapes, NoTxAssumption
<1> DEFINE k == cart[t].code
<1> t \in Tx /\ ShopperFits(t)
  BY Shopping
<1>1. pc[t] = "count" /\ promo' = View(promo, promoDraft, promoHolder, t)
  BY DEF CommitOrder, PromoCommit
<1>2. k \in Code \cup {NoCode}
  BY <1>1, Shopping, CheckoutCartsAssumption DEF ShopperFits, SaleFits, Cart
<1>3. \A c \in Code : promoHolder[c] = t <=> c = k
  <2>1. CASE k = NoCode
    BY <1>1, <2>1, NoCodeAssumption
    DEF ShopperFits, ClaimFits, CheckoutInv, CounterInv, LocksAreClaims, Holding, HasClaim
  <2>2. CASE k # NoCode
    BY <1>1, <2>2
    DEF ShopperFits, ClaimFits, OwnClaim, CheckoutInv, CounterInv, LocksAreClaims, Holding, HasClaim
  <2> QED BY <2>1, <2>2
<1> HIDE DEF k
<1>4. \A c \in Code : /\ promo[c].usedCount \in Nat
                      /\ promoDraft[c].usedCount = promo[c].usedCount
                                                   + IF promoHolder[c] = NoTx THEN 0 ELSE 1
  BY DEF CheckoutInv, CounterInv, OneUseAhead, PromoTypeOK, PromoRow
<1>5. \A c \in Code : promo'[c] = IF c = k THEN promoDraft[c] ELSE promo[c]
  BY <1>1, <1>3 DEF View, PromoTypeOK
<1>6. \A c \in Code : promo'[c].usedCount =
                         IF c = k THEN promo[c].usedCount + 1 ELSE promo[c].usedCount
  BY <1>3, <1>4, <1>5
<1>7. ASSUME k # NoCode, Terms[k].usageLimit # NoLimit
      PROVE  promo[k].usedCount < Terms[k].usageLimit
  <2>1. k \in Code /\ promo[k].usageLimit = Terms[k].usageLimit
    BY <1>2, <1>7 DEF TermsKept
  <2>2. promoDraft[k].usedCount <= promo[k].usageLimit
    BY <1>7, <2>1 DEF LimitInv
  <2>3. promoDraft[k].usedCount = promo[k].usedCount + 1 /\ promo[k].usedCount \in Nat
    BY <1>3, <1>4, <2>1
  <2>4. promo[k].usageLimit \in Nat
    BY <1>7, <2>1 DEF PromoTypeOK, PromoRow, Limit
  <2> QED BY <2>1, <2>2, <2>3, <2>4
<1> QED BY <1>6, <1>7 DEF k

-----------------------------------------------------------------------------
(* The atomic shop.                                                        *)

\* What the commit of a placement takes off the shelf, which held all of it.
LEMMA PlacedShelf ==
    ASSUME CheckoutInv, NonNegative, NEW t \in Shopper, CommitOrder(t)
    PROVE  /\ \A r \in Row : CartLines(cart[t])[r] <= quantity[r]
           /\ quantity' = [r \in Row |-> quantity[r] - CartLines(cart[t])[r]]
<1> USE Shapes
<1> DEFINE take == CartLines(cart[t])
<1> t \in Tx /\ ShopperFits(t)
  BY Shopping
<1>1. pc[t] = "count" /\ todo[t] = None /\ quantity' = View(quantity, draft, rowHolder, t)
  BY DEF CommitOrder, StockCommit, Stock
<1>2. cart[t] \in Carts /\ take \in Lines
  BY <1>1, CartStockAssumption, DemandsAssumption DEF ShopperFits, SaleFits, Lines
<1> HIDE DEF take
<1>3. ASSUME NEW r \in Row
      PROVE  /\ take[r] <= quantity[r]
             /\ quantity'[r] = quantity[r] - take[r]
  <2>1. /\ quantity[r] \in Int /\ draft[r] \in Int /\ take[r] \in Nat
        /\ quantity[r] >= 0 /\ draft[r] >= 0
    BY <1>2 DEF StockTypeOK, Lines, NonNegative
  <2>2. wrote[t]["SALE"][r] = take[r] /\ wrote[t]["RETURN"][r] = 0
    <3>1. wrote[t]["SALE"][r] + todo[t][r] = take[r] /\ todo[t][r] = 0
      BY <1>1 DEF ShopperFits, SaleFits, take, None
    <3>2. wrote[t]["SALE"][r] \in Nat
      BY DEF StockTypeOK, Kind, Lines
    <3>3. wrote[t]["RETURN"][r] = 0
      BY DEF ShopperFits, SaleFits, None
    <3> QED BY <3>1, <3>2, <3>3
  <2>3. quantity'[r] = IF rowHolder[r] = t THEN draft[r] ELSE quantity[r]
    BY <1>1 DEF View, StockTypeOK
  <2>4. rowHolder[r] = t => draft[r] - quantity[r] = 0 - take[r]
    BY <2>2 DEF CheckoutInv, LedgerInv, PendingIsWritten
  <2>5. rowHolder[r] # t => take[r] = 0
    BY <2>2 DEF CheckoutInv, LedgerInv, WroteIsHeld, Kind
  <2> QED BY <2>1, <2>3, <2>4, <2>5
<1>4. quantity' = [r \in Row |-> quantity'[r]]
  BY <1>1 DEF View, StockTypeOK
<1> QED BY <1>3, <1>4 DEF take

AtomicInv == CheckoutInv /\ NonNegative /\ ShopInv

\* The commit of a placement is the instant at which its order is placed.
LEMMA CommitPlaces ==
    ASSUME IsFiniteSet(Order), AtomicInv, NEW t \in Shopper, CommitOrder(t)
    PROVE  Shop!ShopNext
<1> PICK o, k : o = job[t].order /\ k = cart[t]
  OBVIOUS
<1> CheckoutInv /\ NonNegative /\ SoldInv /\ LimitInv /\ TermsKept
  BY DEF AtomicInv, ShopInv
<1>1. /\ o \in Order /\ book[o] = NoRow /\ k \in Carts
      /\ book'[o].status = "PENDING" /\ items'[o] = k
      /\ \A p \in Order \ {o} : book'[p] = book[p] /\ items'[p] = items[p]
      /\ \A c \in Combo : combo'[c].sold = combo[c].sold + k.combos[c]
  BY PlacedSold
<1>2. items' = [items EXCEPT ![o] = k]
  BY DEF CommitOrder
<1>3. k.code \in Code \cup {NoCode}
  BY <1>1, CheckoutCartsAssumption DEF Cart
<1>4. /\ \A c \in Code : promo'[c].usedCount =
            IF c = k.code THEN promo[c].usedCount + 1 ELSE promo[c].usedCount
      /\ k.code # NoCode /\ Terms[k.code].usageLimit # NoLimit =>
            promo[k.code].usedCount < Terms[k.code].usageLimit
  BY PlacedUses
<1>5. /\ \A r \in Row : CartLines(k)[r] <= quantity[r]
      /\ quantity' = [r \in Row |-> quantity[r] - CartLines(k)[r]]
  BY PlacedShelf
<1>6. Phase(o) = "NONE" /\ Phase(o)' = "OPEN" /\ \A p \in Order \ {o} : Phase(p)' = Phase(p)
  BY <1>1 DEF Phase, NoRow, StockRestoring
<1>7. [p \in Order |-> Phase(p)]' = [[p \in Order |-> Phase(p)] EXCEPT ![o] = "OPEN"]
  BY <1>1, <1>6
<1>8. [c \in Code |-> promo[c].usedCount]' =
         [c \in Code |-> IF c = k.code THEN [b \in Code |-> promo[b].usedCount][c] + 1
                                       ELSE [b \in Code |-> promo[b].usedCount][c]]
  BY <1>4
<1>9. [c \in Combo |-> combo[c].sold]' =
         [c \in Combo |-> [b \in Combo |-> combo[b].sold][c] + k.combos[c]]
  BY <1>1
<1>10. Shop!PlaceAtOnce(o, k)
  BY <1>1, <1>2, <1>3, <1>4, <1>5, <1>6, <1>7, <1>8, <1>9, NoCodeAssumption DEF Shop!PlaceAtOnce
<1> QED BY <1>1, <1>10 DEF Shop!ShopNext

\* The commit of a cancellation is the instant at which its order is undone;
\* the commit of any other request is none of the shop's business.
LEMMA CommitUndoes ==
    ASSUME OneClerk, IsFiniteSet(Order), AtomicInv, NEW t \in Clerk, CommitRequest(t)
    PROVE  Shop!ShopNext \/ UNCHANGED Shop!shopVars
<1> PICK o : o = request[t].order
  OBVIOUS
<1> CheckoutInv /\ ReturnInv /\ SoldInv /\ t \in Tx
  BY Serving DEF AtomicInv, ShopInv
<1>1. /\ items' = items /\ promo' = promo
  BY DEF CommitRequest, promoVars
<1>2. /\ o \in Order /\ book[o].status # "NONE" /\ book'[o].status # "NONE"
      /\ \A p \in Order \ {o} : book'[p] = book[p]
      /\ pc[t] = "release" =>
            /\ book[o].status \notin StockRestoring /\ book'[o].status \in StockRestoring
            /\ quantity' = [r \in Row |-> quantity[r] + ledger[o]["SALE"][r]]
      /\ pc[t] # "release" =>
            /\ book[o].status \in StockRestoring <=> book'[o].status \in StockRestoring
            /\ quantity' = quantity
  BY CommitEffect
<1>3. \A c \in Combo : combo'[c].sold =
         combo[c].sold - IF pc[t] = "release" THEN items[o].combos[c] ELSE 0
  BY CommittedSold
<1>4. ledger[o]["SALE"] = CartLines(items[o])
  BY <1>2 DEF CheckoutInv, Linked, OrderComplete, NoRow
<1>5. \A p \in Order \ {o} : Phase(p)' = Phase(p)
  BY <1>2 DEF Phase
<1>6. CASE pc[t] = "release"
  <2>1. Phase(o) = "OPEN" /\ Phase(o)' = "CLOSED"
    BY <1>2, <1>6 DEF Phase
  <2>2. [p \in Order |-> Phase(p)]' = [[p \in Order |-> Phase(p)] EXCEPT ![o] = "CLOSED"]
    BY <1>2, <1>5, <2>1
  <2>3. [c \in Combo |-> combo[c].sold]' =
           [c \in Combo |-> [b \in Combo |-> combo[b].sold][c] - items[o].combos[c]]
    BY <1>3, <1>6
  <2>4. quantity' = [r \in Row |-> quantity[r] + CartLines(items[o])[r]]
    BY <1>2, <1>4, <1>6
  <2>5. Shop!Undo(o)
    BY <1>1, <1>2, <2>1, <2>2, <2>3, <2>4 DEF Shop!Undo
  <2> QED BY <1>2, <2>5 DEF Shop!ShopNext
<1>7. CASE pc[t] # "release"
  <2>1. Phase(o)' = Phase(o)
    BY <1>2, <1>7 DEF Phase
  <2>2. [p \in Order |-> Phase(p)]' = [p \in Order |-> Phase(p)]
    BY <1>5, <2>1
  <2>3. \A c \in Combo : combo'[c].sold = combo[c].sold
    BY <1>3, <1>7 DEF SoldInv, SoldRow
  <2>4. [c \in Combo |-> combo[c].sold]' = [c \in Combo |-> combo[c].sold]
    BY <2>3
  <2> QED BY <1>1, <1>2, <1>7, <2>2, <2>4 DEF Shop!shopVars
<1> QED BY <1>6, <1>7

\* Every step of checkout is a step of the atomic shop or a stutter.
LEMMA AtomicStep ==
    ASSUME OneClerk, IsFiniteSet(Order), AtomicInv, [CheckoutNext]_checkoutVars
    PROVE  Shop!ShopNext \/ UNCHANGED Shop!shopVars
<1>1. ASSUME UNCHANGED <<quantity, book, items, promo, combo>>
      PROVE  UNCHANGED Shop!shopVars
  BY <1>1 DEF Shop!shopVars, Phase
<1>2. CASE UNCHANGED checkoutVars
  BY <1>1, <1>2 DEF checkoutVars, stockVars, comboVars, promoVars, bookVars
<1>3. ASSUME NEW t \in Shopper, PlaceOrder(t), ~CommitOrder(t)
      PROVE  UNCHANGED <<quantity, book, items, promo, combo>>
  BY <1>3 DEF PlaceOrder, Place, BeginSale, ResolveLine, PromoStep, FindCode, CountForCustomer,
              Reserve, Redeem, RecordRedemption, DeductLine, DeductPart, Deduct, Move, FireTrigger,
              TriggerWrite, WriteAvailable, CountSold, AdjustSold, WriteCombo, FailOrder,
              StockRollback, ComboRollback, PromoRollback, stockVars, comboVars, promoVars, bookVars
<1>4. ASSUME NEW t \in Clerk, Administer(t), ~CommitRequest(t)
      PROVE  UNCHANGED <<quantity, book, items, promo, combo>>
  BY <1>4 DEF Administer, BeginStatus, ReadForStatus, Settle, SettleCharge, ReadLedger,
              BeginReturn, ReturnLine, RestorePart, Restore, Move, FireTrigger, ReadBundles,
              TriggerWrite, WriteAvailable, Release, AdjustSold, WriteCombo, SetStatus, WriteStatus,
              BeginPayment, ReadForPayment, PaymentStep, WritePayment, WritePaymentCharge,
              FailRequest, StockRollback, ComboRollback, BookRollback, OrderTables, stockVars,
              comboVars, promoVars, bookVars
<1> QED BY <1>1, <1>2, <1>3, <1>4, CommitPlaces, CommitUndoes DEF CheckoutNext

LEMMA AtomicInitially == ASSUME IsFiniteSet(Order) PROVE CheckoutInit => Shop!ShopInit
<1> SUFFICES ASSUME CheckoutInit PROVE Shop!ShopInit
  OBVIOUS
<1>1. \A c \in Combo : combo[c].sold = 0
  BY DEF CheckoutInit, ComboInit, Synced
<1> QED BY <1>1 DEF CheckoutInit, StockInit, BookInit, PromoInit, Shop!ShopInit, Phase, NoRow, NewRow

LEMMA AtomicInvHolds ==
    OneClerk /\ IsFiniteSet(Order) => (CheckoutSpec => []AtomicInv)
<1> SUFFICES ASSUME OneClerk, IsFiniteSet(Order) PROVE CheckoutSpec => []AtomicInv
  OBVIOUS
<1>1. CheckoutInit => AtomicInv
  <2>1. CheckoutInit => NonNegative
    BY OpeningAssumption DEF CheckoutInit, StockInit, NonNegative
  <2> QED BY <2>1, CheckoutInitially, ReturnInitially, SoldInitially, TermsInitially
          DEF AtomicInv, ShopInv
<1>2. AtomicInv /\ [CheckoutNext]_checkoutVars => AtomicInv'
  <2> SUFFICES ASSUME AtomicInv, [CheckoutNext]_checkoutVars PROVE AtomicInv'
    OBVIOUS
  <2>1. CheckoutInv'
    BY CheckoutInvStep DEF AtomicInv
  <2>2. NonNegative'
    BY StockRefined, NonNegativeStep DEF AtomicInv, CheckoutInv, LedgerInv
  <2>3. ReturnInv' /\ SoldInv'
    BY ReturnStep, SoldStep DEF AtomicInv, ShopInv
  <2>4. LimitInv' /\ TermsKept'
    BY TermsStep DEF AtomicInv, ShopInv
  <2> QED BY <2>1, <2>2, <2>3, <2>4 DEF AtomicInv, ShopInv
<1> QED BY <1>1, <1>2, PTL DEF CheckoutSpec

\* The statements of placeOrder and of updateStatus, interleaved in any way and
\* failing anywhere, implement a shop in which an order is placed at one instant
\* and undone at one instant, as long as status requests do not overlap.
THEOREM CheckoutIsAtomic ==
    OneClerk /\ IsFiniteSet(Order) => (CheckoutSpec => AtomicShopSpec)
<1> SUFFICES ASSUME OneClerk, IsFiniteSet(Order) PROVE CheckoutSpec => AtomicShopSpec
  OBVIOUS
<1>1. CheckoutInit => Shop!ShopInit
  BY AtomicInitially
<1>2. AtomicInv /\ [CheckoutNext]_checkoutVars => [Shop!ShopNext]_Shop!shopVars
  BY AtomicStep
<1>3. CheckoutSpec => []AtomicInv
  BY AtomicInvHolds
<1> QED BY <1>1, <1>2, <1>3, PTL DEF CheckoutSpec, AtomicShopSpec, Shop!ShopSpec
=============================================================================
