------------------------------ MODULE RowLocks ------------------------------
(***************************************************************************)
(* PostgreSQL rows under READ COMMITTED, the isolation level every         *)
(* `withTransaction` of the repositories runs at.  A row of a table has a  *)
(* committed version and, while a transaction that wrote it is open, a     *)
(* draft that only this transaction sees.  An UPDATE locks its row until   *)
(* the transaction ends; other writers wait, readers do not.               *)
(*                                                                         *)
(* A table is three functions over its rows: committed, draft and holder.  *)
(* A row nobody holds has draft = committed.                               *)
(***************************************************************************)
CONSTANTS
    Tx,      \* the open transactions: requests being served
    NoTx     \* the holder of an unlocked row

ASSUME NoTxAssumption == NoTx \notin Tx

\* t may write row r now: it is unlocked, or t already locked it.
Free(holder, t, r) == holder[r] \in {NoTx, t}

Lock(holder, t, r) == [holder EXCEPT ![r] = t]

Unlock(holder, t) == [r \in DOMAIN holder |-> IF holder[r] = t THEN NoTx ELSE holder[r]]

\* What a statement of t reads: its own drafts, everybody else's commits.  It
\* is also the committed table once t has committed.
View(committed, draft, holder, t) ==
    [r \in DOMAIN holder |-> IF holder[r] = t THEN draft[r] ELSE committed[r]]

\* The drafts once t has rolled back.
Discard(committed, draft, holder, t) ==
    [r \in DOMAIN holder |-> IF holder[r] = t THEN committed[r] ELSE draft[r]]

\* The one thing every table satisfies: a draft is somebody's.
DraftsAreHeld(committed, draft, holder) ==
    \A r \in DOMAIN holder : holder[r] = NoTx => draft[r] = committed[r]
=============================================================================
