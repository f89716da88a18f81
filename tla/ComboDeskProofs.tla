--------------------------- MODULE ComboDeskProofs ---------------------------
(***************************************************************************)
(* Proofs about ComboDesk, for every set of combos, rows, orders, open     *)
(* transactions and admins: a combo with one part shows the stock its part *)
(* has, as long as no edit carries the item list.  Both hypotheses are     *)
(* needed: MCComboStale shows two orders of different parts leaving a      *)
(* two-part combo wrong, and an edit writes the ceiling it read earlier.   *)
(***************************************************************************)
EXTENDS ComboDesk, TLAPS

\* Combos assembled from at most one row.
OnePart == {c \in Combo : \A r, s \in PartsOf(c) : r = s}

NoItemEdits == \A dto \in Edits : ~dto.items

\* t holds a part of c.
Moves(t, c) == \E r \in PartsOf(c) : rowHolder[r] = t

-----------------------------------------------------------------------------
(* The invariant.                                                          *)

StockTables ==
    /\ quantity \in [Row -> Nat] /\ draft \in [Row -> Nat]
    /\ rowHolder \in [Row -> Tx \cup {NoTx}]
    /\ todo \in [Tx -> [Row -> Nat]]
    /\ DraftsAreHeld(quantity, draft, rowHolder)

ComboTables ==
    /\ DOMAIN combo = Combo /\ DOMAIN comboDraft = Combo
    /\ \A c \in Combo : "available" \in DOMAIN combo[c] /\ "available" \in DOMAIN comboDraft[c]
    /\ comboHolder \in [Combo -> Tx \cup {NoTx}]
    /\ DraftsAreHeld(combo, comboDraft, comboHolder)
    /\ DOMAIN due = Tx /\ \A t \in Tx : DOMAIN due[t] = Combo

DeskFits ==
    /\ DOMAIN desk = Admin
    /\ \A a \in Admin :
          /\ "stage" \in DOMAIN desk[a]
          /\ desk[a].stage \in {"read", "checked"} =>
                /\ {"combo", "dto"} \subseteq DOMAIN desk[a]
                /\ desk[a].combo \in Combo /\ desk[a].dto \in Edits

\* What c's part has is what c shows.
ShownIsAssembled == \A c \in OnePart : combo[c].available = Assembled(quantity, c)

\* The transaction that moves c's part is about to write what its own version
\* of the part assembles, or holds c with that value.
MoverSettles == \A t \in Tx, c \in OnePart : Moves(t, c) =>
    \/ due[t][c] = Assembled(draft, c)
    \/ /\ due[t][c] = Settled
       /\ comboHolder[c] = t
       /\ comboDraft[c].available = Assembled(draft, c)

\* Whoever moves no part of c leaves c's availability alone.
OthersKeep == \A t \in Tx, c \in Combo : ~Moves(t, c) =>
    /\ due[t][c] = Settled
    /\ comboHolder[c] = t => comboDraft[c].available = combo[c].available

OfferInv ==
    /\ StockTables
    /\ ComboTables
    /\ DeskFits
    /\ ShownIsAssembled
    /\ MoverSettles
    /\ OthersKeep

-----------------------------------------------------------------------------
(* The parts of a combo.                                                   *)

\* Only the parts of c count.
LEMMA AssembledFrom ==
    ASSUME NEW c \in Combo, NEW f, NEW g, \A r \in PartsOf(c) : f[r] = g[r]
    PROVE  Assembled(f, c) = Assembled(g, c)
<1>1. {f[r] \div Parts[c][r] : r \in PartsOf(c)} = {g[r] \div Parts[c][r] : r \in PartsOf(c)}
  OBVIOUS
<1> QED BY <1>1 DEF Assembled

\* A combo of one part never assembles less than nothing: Settled is no value.
LEMMA AssembledIsNat ==
    ASSUME NEW c \in OnePart, NEW f \in [Row -> Nat]
    PROVE  Assembled(f, c) \in Nat /\ Assembled(f, c) # Settled
<1>1. CASE PartsOf(c) = {}
  BY <1>1 DEF Assembled, Settled
<1>2. CASE PartsOf(c) # {}
  <2>1. PICK r \in PartsOf(c) : PartsOf(c) = {r}
    BY <1>2 DEF OnePart
  <2>2. r \in Row /\ Parts[c][r] \in Nat /\ Parts[c][r] > 0
    BY <2>1, PartsAssumption DEF PartsOf, OnePart
  <2>3. f[r] \div Parts[c][r] \in Nat
    BY <2>2
  <2>4. {f[s] \div Parts[c][s] : s \in PartsOf(c)} = {f[r] \div Parts[c][r]}
    BY <2>1
  <2>5. Assembled(f, c) = Min({f[r] \div Parts[c][r]})
    BY <2>4, <1>2 DEF Assembled
  <2>6. ASSUME NEW n \in Nat
        PROVE  Min({n}) = n
    BY DEF Min
  <2> QED BY <2>3, <2>5, <2>6 DEF Settled
<1> QED BY <1>1, <1>2

\* The mover of a one-part combo is alone.
LEMMA OneMover ==
    ASSUME NEW c \in OnePart, NEW t, NEW u, Moves(t, c), Moves(u, c)
    PROVE  t = u
BY DEF Moves, OnePart

\* The row's own trigger leaves its availability alone.
LEMMA SyncedKeepsAvailable ==
    ASSUME NEW row, "available" \in DOMAIN row
    PROVE  /\ Synced(row).available = row.available
           /\ "available" \in DOMAIN Synced(row)
BY DEF Synced
-----------------------------------------------------------------------------
(* The steps.                                                              *)

\* Nobody moves stock yet, and every combo starts with what can be assembled.
LEMMA OfferInvInitially == DeskInit => OfferInv
<1> SUFFICES ASSUME DeskInit PROVE OfferInv
  OBVIOUS
<1> USE DEF DeskInit, StockInit, ComboInit
<1>1. StockTables
  BY OpeningAssumption DEF StockTables, DraftsAreHeld, None
<1>2. \A c \in Combo : /\ "available" \in DOMAIN combo[c]
                       /\ combo[c].available = Assembled(quantity, c)
  BY SyncedKeepsAvailable
<1>3. ComboTables
  BY <1>2 DEF ComboTables, DraftsAreHeld, NotDue
<1>4. DeskFits
  BY DEF DeskFits, AtRest
<1>5. \A t \in Tx, c \in Combo : ~Moves(t, c)
  BY NoTxAssumption DEF Moves, PartsOf
<1>6. \A t \in Tx, c \in Combo : due[t][c] = Settled /\ comboHolder[c] # t
  BY NoTxAssumption DEF NotDue
<1> QED BY <1>1, <1>2, <1>3, <1>4, <1>5, <1>6
        DEF OfferInv, ShownIsAssembled, MoverSettles, OthersKeep, OnePart

\* What an order's first step leaves alone: it only plans.
LEMMA OfferInvPlanned ==
    ASSUME OfferInv, todo' \in [Tx -> [Row -> Nat]],
           UNCHANGED <<quantity, draft, rowHolder, comboVars, desk>>
    PROVE  OfferInv'
<1> USE DEF OfferInv, comboVars
<1>1. StockTables'
  BY DEF StockTables, DraftsAreHeld
<1>2. ComboTables'
  BY DEF ComboTables, DraftsAreHeld
<1>3. DeskFits'
  BY DEF DeskFits
<1>4. \A c : PartsOf(c)' = PartsOf(c)
  BY DEF PartsOf
<1>5. \A t, c : Moves(t, c)' = Moves(t, c)
  BY DEF Moves
<1>6. ShownIsAssembled' /\ MoverSettles' /\ OthersKeep'
  BY <1>5 DEF ShownIsAssembled, MoverSettles, OthersKeep
<1> QED BY <1>1, <1>2, <1>3, <1>6

\* The UPDATE of a part and the snapshot its trigger takes.
LEMMA OfferInvDeduct ==
    ASSUME OfferInv, NEW t \in Tx, NEW r \in Row, MoveBundlePart(t, r)
    PROVE  OfferInv'
<1> USE DEF OfferInv
<1> DEFINE v == draft[r] - todo[t][r]
<1>0. /\ rowHolder[r] \in {NoTx, t} /\ due[t] = NotDue
      /\ draft' = [draft EXCEPT ![r] = v] /\ rowHolder' = [rowHolder EXCEPT ![r] = t]
      /\ draft[r] >= todo[t][r] /\ todo' = [todo EXCEPT ![t][r] = 0]
      /\ due' = [due EXCEPT ![t] = [c \in Combo |->
            IF c \in Users(r) THEN Assembled(Snapshot(t, r, v), c) ELSE Settled]]
      /\ UNCHANGED <<quantity, combo, comboDraft, comboHolder, desk>>
  BY DEF MoveBundlePart, DeductPart, Deduct, Move, FireTrigger, Covers, Free, Lock
<1>1. v \in Nat
  BY <1>0 DEF StockTables
<1> HIDE DEF v
<1>2. StockTables'
  BY <1>0, <1>1, NoTxAssumption DEF StockTables, DraftsAreHeld
<1>3. ComboTables'
  BY <1>0 DEF ComboTables, DraftsAreHeld
<1>4. DeskFits'
  BY <1>0 DEF DeskFits
<1>5. ShownIsAssembled'
  BY <1>0 DEF ShownIsAssembled, Assembled
<1>6. ASSUME NEW c \in Combo, r \notin PartsOf(c)
      PROVE  /\ \A u \in Tx : due'[u][c] = due[u][c] /\ (Moves(u, c)' <=> Moves(u, c))
             /\ Assembled(draft', c) = Assembled(draft, c)
  <2>1. \A s \in PartsOf(c) : draft'[s] = draft[s] /\ rowHolder'[s] = rowHolder[s]
    BY <1>0, <1>6 DEF PartsOf, StockTables
  <2>2. Assembled(draft', c) = Assembled(draft, c)
    BY <2>1, AssembledFrom
  <2>3. c \notin Users(r) /\ due[t][c] = Settled
    BY <1>0, <1>6 DEF Users, NotDue
  <2>4. \A u \in Tx : due'[u][c] = due[u][c]
    BY <1>0, <2>3 DEF ComboTables
  <2> QED BY <2>1, <2>2, <2>4 DEF Moves, PartsOf
<1>7. ASSUME NEW c \in Combo, r \in PartsOf(c)
      PROVE  /\ \A u \in Tx \ {t} : due'[u][c] = due[u][c] /\ (Moves(u, c)' <=> Moves(u, c))
             /\ Moves(t, c)'
             /\ due'[t][c] = Assembled(Snapshot(t, r, v), c)
  <2>1. \A s \in PartsOf(c) : s # r => rowHolder'[s] = rowHolder[s]
    BY <1>0 DEF PartsOf, StockTables
  <2>2. rowHolder'[r] = t
    BY <1>0 DEF StockTables
  <2>3. \A u \in Tx \ {t} : Moves(u, c)' <=> Moves(u, c)
    BY <1>0, <1>7, <2>1, <2>2, NoTxAssumption DEF Moves, PartsOf
  <2>4. c \in Users(r)
    BY <1>7 DEF Users
  <2> QED BY <1>0, <1>7, <2>2, <2>3, <2>4 DEF Moves, ComboTables, PartsOf
<1>8. ASSUME NEW c \in OnePart, r \in PartsOf(c)
      PROVE  /\ due'[t][c] = Assembled(draft', c)
             /\ \A u \in Tx \ {t} : ~Moves(u, c)'
  <2>1. \A s \in PartsOf(c) : Snapshot(t, r, v)[s] = draft'[s]
    BY <1>0, <1>8 DEF OnePart, Snapshot, Stock, View, StockTables
  <2>2. c \in Combo
    BY DEF OnePart
  <2>3. Assembled(Snapshot(t, r, v), c) = Assembled(draft', c)
    BY <2>1, <2>2, AssembledFrom
  <2>4. \A u \in Tx \ {t} : ~Moves(u, c)
    BY <1>0, <1>8, NoTxAssumption DEF Moves, OnePart
  <2> QED BY <1>7, <1>8, <2>2, <2>3, <2>4
<1>9. MoverSettles'
  <2> SUFFICES ASSUME NEW u \in Tx, NEW c \in OnePart, Moves(u, c)'
               PROVE  \/ due'[u][c] = Assembled(draft', c)
                      \/ /\ due'[u][c] = Settled
                         /\ comboHolder'[c] = u
                         /\ comboDraft'[c].available = Assembled(draft', c)
    BY DEF MoverSettles
  <2>1. c \in Combo
    BY DEF OnePart
  <2>2. CASE r \in PartsOf(c)
    BY <1>8, <2>2
  <2>3. CASE r \notin PartsOf(c)
    <3>1. Moves(u, c) /\ due'[u][c] = due[u][c] /\ Assembled(draft', c) = Assembled(draft, c)
      BY <1>6, <2>1, <2>3
    <3>2. \/ due[u][c] = Assembled(draft, c)
          \/ /\ due[u][c] = Settled
             /\ comboHolder[c] = u
             /\ comboDraft[c].available = Assembled(draft, c)
      BY <3>1 DEF MoverSettles
    <3> QED BY <1>0, <3>1, <3>2
  <2> QED BY <2>2, <2>3
<1>10. OthersKeep'
  <2> SUFFICES ASSUME NEW u \in Tx, NEW c \in Combo, ~Moves(u, c)'
               PROVE  /\ due'[u][c] = Settled
                      /\ comboHolder'[c] = u => comboDraft'[c].available = combo'[c].available
    BY DEF OthersKeep
  <2>1. ~Moves(u, c) /\ due'[u][c] = due[u][c]
    BY <1>6, <1>7
  <2> QED BY <1>0, <2>1 DEF OthersKeep
<1> QED BY <1>2, <1>3, <1>4, <1>5, <1>9, <1>10
\* A write to the row of a combo by a transaction that has nothing left to say
\* of its availability, or that says it now.
WritesRow(t, c, row) ==
    /\ comboHolder[c] \in {NoTx, t}
    /\ "available" \in DOMAIN row
    /\ \/ due' = due /\ due[t] = NotDue /\ row.available = comboDraft[c].available
       \/ /\ due[t][c] # Settled /\ row.available = due[t][c]
          /\ due' = [due EXCEPT ![t][c] = Settled]
    /\ comboDraft' = [comboDraft EXCEPT ![c] = row]
    /\ comboHolder' = [comboHolder EXCEPT ![c] = t]
    /\ UNCHANGED <<quantity, draft, rowHolder, todo, combo, desk>>

LEMMA OfferInvRow ==
    ASSUME OfferInv, NEW t \in Tx, NEW c \in Combo, NEW row, WritesRow(t, c, row)
    PROVE  OfferInv'
<1> USE DEF OfferInv, WritesRow
<1>1. StockTables'
  BY DEF StockTables, DraftsAreHeld
<1>2. ComboTables'
  BY NoTxAssumption DEF ComboTables, DraftsAreHeld
<1>3. DeskFits'
  BY DEF DeskFits
<1>4. ShownIsAssembled'
  BY DEF ShownIsAssembled
<1>5. \A u, d : Moves(u, d)' <=> Moves(u, d)
  BY DEF Moves
<1>6. \A d \in Combo : d # c => comboDraft'[d] = comboDraft[d] /\ comboHolder'[d] = comboHolder[d]
  BY DEF ComboTables
<1>7. comboDraft'[c] = row /\ comboHolder'[c] = t
  BY DEF ComboTables
<1>8. \A u \in Tx, d \in Combo : (u # t \/ d # c) => due'[u][d] = due[u][d]
  BY DEF ComboTables
<1>9. due'[t][c] = Settled
  BY DEF ComboTables, NotDue
<1>10. MoverSettles'
  <2> SUFFICES ASSUME NEW u \in Tx, NEW d \in OnePart, Moves(u, d)
               PROVE  \/ due'[u][d] = Assembled(draft, d)
                      \/ /\ due'[u][d] = Settled
                         /\ comboHolder'[d] = u
                         /\ comboDraft'[d].available = Assembled(draft, d)
    BY <1>5 DEF MoverSettles
  <2>1. d \in Combo
    BY DEF OnePart
  <2>2. \/ due[u][d] = Assembled(draft, d)
        \/ /\ due[u][d] = Settled
           /\ comboHolder[d] = u
           /\ comboDraft[d].available = Assembled(draft, d)
    BY DEF MoverSettles
  <2>3. CASE d # c
    BY <1>6, <1>8, <2>1, <2>2, <2>3
  <2>4. CASE d = c /\ u # t
    BY <1>8, <2>1, <2>2, <2>4, NoTxAssumption
  <2>5. CASE d = c /\ u = t
    <3>1. Assembled(draft, c) # Settled
      BY <2>5, AssembledIsNat DEF StockTables
    <3>2. CASE due[t] = NotDue /\ row.available = comboDraft[c].available
      BY <1>7, <1>9, <2>2, <2>5, <3>1, <3>2 DEF NotDue
    <3>3. CASE due[t][c] # Settled /\ row.available = due[t][c]
      BY <1>7, <1>9, <2>2, <2>5, <3>3
    <3> QED BY <3>2, <3>3
  <2> QED BY <2>3, <2>4, <2>5
<1>11. OthersKeep'
  <2> SUFFICES ASSUME NEW u \in Tx, NEW d \in Combo, ~Moves(u, d)
               PROVE  /\ due'[u][d] = Settled
                      /\ comboHolder'[d] = u => comboDraft'[d].available = combo[d].available
    BY <1>5 DEF OthersKeep
  <2>1. due[u][d] = Settled /\ (comboHolder[d] = u => comboDraft[d].available = combo[d].available)
    BY DEF OthersKeep
  <2>2. due'[u][d] = Settled
    BY <1>8, <1>9, <2>1
  <2>3. CASE d # c
    BY <1>6, <2>1, <2>2, <2>3
  <2>4. CASE d = c /\ u # t
    BY <1>7, <2>2, <2>4
  <2>5. CASE d = c /\ u = t
    <3>1. row.available = comboDraft[c].available
      BY <2>1, <2>5
    <3>2. comboHolder[c] = NoTx => comboDraft[c] = combo[c]
      BY DEF ComboTables, DraftsAreHeld
    <3> QED BY <1>7, <2>1, <2>2, <2>5, <3>1, <3>2
  <2> QED BY <2>3, <2>4, <2>5
<1> QED BY <1>1, <1>2, <1>3, <1>4, <1>10, <1>11

\* The trigger reaches the combo's row.
LEMMA OfferInvRetrigger ==
    ASSUME OfferInv, NEW t \in Tx, NEW c \in Combo, Retrigger(t, c)
    PROVE  OfferInv'
<1>0. PICK row : row = [comboDraft[c] EXCEPT !.available = due[t][c]]
  OBVIOUS
<1>1. "available" \in DOMAIN row /\ row.available = due[t][c]
  BY <1>0 DEF OfferInv, ComboTables
<1>2. /\ comboHolder[c] \in {NoTx, t} /\ due[t][c] # Settled
      /\ due' = [due EXCEPT ![t][c] = Settled]
      /\ comboDraft' = [comboDraft EXCEPT ![c] = row]
      /\ comboHolder' = [comboHolder EXCEPT ![c] = t]
      /\ UNCHANGED <<quantity, draft, rowHolder, todo, combo, desk>>
  BY <1>0 DEF Retrigger, WriteAvailable, WriteCombo, Free, Lock, stockVars
<1>3. WritesRow(t, c, row)
  BY <1>1, <1>2 DEF WritesRow
<1> QED BY <1>3, OfferInvRow

\* The order counts its bundles on the combo's row.
LEMMA OfferInvCount ==
    ASSUME OfferInv, NEW t \in Tx, NEW c \in Combo, NEW n,
           AdjustSold(t, c, n), UNCHANGED <<stockVars, desk>>
    PROVE  OfferInv'
<1> DEFINE sold == [comboDraft[c] EXCEPT !.sold = Max({@ + n, 0})]
<1>0. PICK row : row = Synced(sold)
  OBVIOUS
<1>1. "available" \in DOMAIN sold /\ sold.available = comboDraft[c].available
  BY DEF OfferInv, ComboTables
<1>2. /\ comboHolder[c] \in {NoTx, t} /\ due[t] = NotDue /\ due' = due
      /\ comboDraft' = [comboDraft EXCEPT ![c] = row]
      /\ comboHolder' = [comboHolder EXCEPT ![c] = t]
      /\ UNCHANGED <<quantity, draft, rowHolder, todo, combo, desk>>
  BY <1>0 DEF AdjustSold, WriteCombo, Free, Lock, stockVars
<1> HIDE DEF sold
<1>3. "available" \in DOMAIN row /\ row.available = comboDraft[c].available
  BY <1>0, <1>1, SyncedKeepsAvailable
<1>4. WritesRow(t, c, row)
  BY <1>2, <1>3 DEF WritesRow
<1> QED BY <1>4, OfferInvRow
\* A commit shows the part and the combo together.
LEMMA OfferInvCommit ==
    ASSUME OfferInv, NEW t \in Tx, CommitBundle(t)
    PROVE  OfferInv'
<1> USE DEF OfferInv
<1>1. /\ due[t] = NotDue
      /\ rowHolder' = [r \in Row |-> IF rowHolder[r] = t THEN NoTx ELSE rowHolder[r]]
      /\ quantity' = [r \in Row |-> IF rowHolder[r] = t THEN draft[r] ELSE quantity[r]]
      /\ todo' = [todo EXCEPT ![t] = None]
      /\ comboHolder' = [c \in Combo |-> IF comboHolder[c] = t THEN NoTx ELSE comboHolder[c]]
      /\ combo' = [c \in Combo |-> IF comboHolder[c] = t THEN comboDraft[c] ELSE combo[c]]
      /\ UNCHANGED <<draft, comboDraft, due, desk>>
  BY DEF CommitBundle, StockCommit, EndTx, ComboCommit, Unlock, Stock, Offer, View,
         StockTables, ComboTables
<1>2. StockTables'
  <2>1. None \in [Row -> Nat]
    BY DEF None
  <2> QED BY <1>1, <2>1 DEF StockTables, DraftsAreHeld
<1>3. ComboTables'
  BY <1>1 DEF ComboTables, DraftsAreHeld
<1>4. DeskFits'
  BY <1>1 DEF DeskFits
<1>5. \A c \in Combo, u \in Tx : Moves(u, c)' <=> u # t /\ Moves(u, c)
  BY <1>1, NoTxAssumption DEF Moves, PartsOf
<1>6. ASSUME NEW c \in Combo, ~Moves(t, c)
      PROVE  /\ combo'[c].available = combo[c].available
             /\ Assembled(quantity', c) = Assembled(quantity, c)
  <2>1. \A r \in PartsOf(c) : quantity'[r] = quantity[r]
    BY <1>1, <1>6 DEF Moves, PartsOf
  <2>2. combo'[c].available = combo[c].available
    BY <1>1, <1>6 DEF OthersKeep
  <2> QED BY <2>1, <2>2, AssembledFrom
<1>7. ASSUME NEW c \in OnePart, Moves(t, c)
      PROVE  combo'[c].available = Assembled(quantity', c)
  <2>1. c \in Combo
    BY DEF OnePart
  <2>2. \A r \in PartsOf(c) : quantity'[r] = draft[r]
    BY <1>1, <1>7 DEF Moves, OnePart, PartsOf
  <2>3. Assembled(quantity', c) = Assembled(draft, c)
    BY <2>1, <2>2, AssembledFrom
  <2>4. Assembled(draft, c) # Settled
    BY AssembledIsNat DEF StockTables
  <2>5. due[t][c] = Settled
    BY <1>1, <2>1 DEF NotDue
  <2>6. comboHolder[c] = t /\ comboDraft[c].available = Assembled(draft, c)
    BY <1>7, <2>4, <2>5 DEF MoverSettles
  <2> QED BY <1>1, <2>1, <2>3, <2>6
<1>8. ShownIsAssembled'
  <2> SUFFICES ASSUME NEW c \in OnePart
               PROVE  combo'[c].available = Assembled(quantity', c)
    BY DEF ShownIsAssembled
  <2>1. c \in Combo
    BY DEF OnePart
  <2> QED BY <1>6, <1>7, <2>1 DEF ShownIsAssembled
<1>9. \A c \in Combo, u \in Tx : u # t => (comboHolder'[c] = u <=> comboHolder[c] = u)
  BY <1>1, NoTxAssumption DEF ComboTables
<1>10. MoverSettles'
  <2> SUFFICES ASSUME NEW u \in Tx, NEW c \in OnePart, Moves(u, c)'
               PROVE  \/ due'[u][c] = Assembled(draft', c)
                      \/ /\ due'[u][c] = Settled
                         /\ comboHolder'[c] = u
                         /\ comboDraft'[c].available = Assembled(draft', c)
    BY DEF MoverSettles
  <2>1. c \in Combo
    BY DEF OnePart
  <2>2. u # t /\ Moves(u, c)
    BY <1>5, <2>1
  <2>3. \/ due[u][c] = Assembled(draft, c)
        \/ /\ due[u][c] = Settled
           /\ comboHolder[c] = u
           /\ comboDraft[c].available = Assembled(draft, c)
    BY <2>2 DEF MoverSettles
  <2> QED BY <1>1, <1>9, <2>1, <2>2, <2>3
<1>11. OthersKeep'
  <2> SUFFICES ASSUME NEW u \in Tx, NEW c \in Combo, ~Moves(u, c)'
               PROVE  /\ due'[u][c] = Settled
                      /\ comboHolder'[c] = u => comboDraft'[c].available = combo'[c].available
    BY DEF OthersKeep
  <2>1. CASE u = t
    BY <1>1, <2>1, NoTxAssumption DEF NotDue
  <2>2. CASE u # t
    <3>1. ~Moves(u, c)
      BY <1>5, <2>2
    <3>2. comboHolder[c] = u => combo'[c] = combo[c]
      BY <1>1, <2>2
    <3> QED BY <1>1, <1>9, <2>2, <3>1, <3>2 DEF OthersKeep
  <2> QED BY <2>1, <2>2
<1> QED BY <1>2, <1>3, <1>4, <1>8, <1>10, <1>11

\* A rollback takes back the part, the combo and what was still to write.
LEMMA OfferInvAbort ==
    ASSUME OfferInv, NEW t \in Tx, AbortBundle(t)
    PROVE  OfferInv'
<1> USE DEF OfferInv
<1>1. /\ rowHolder' = [r \in Row |-> IF rowHolder[r] = t THEN NoTx ELSE rowHolder[r]]
      /\ draft' = [r \in Row |-> IF rowHolder[r] = t THEN quantity[r] ELSE draft[r]]
      /\ todo' = [todo EXCEPT ![t] = None]
      /\ comboHolder' = [c \in Combo |-> IF comboHolder[c] = t THEN NoTx ELSE comboHolder[c]]
      /\ comboDraft' = [c \in Combo |-> IF comboHolder[c] = t THEN combo[c] ELSE comboDraft[c]]
      /\ due' = [due EXCEPT ![t] = NotDue]
      /\ UNCHANGED <<quantity, combo, desk>>
  BY DEF AbortBundle, StockRollback, EndTx, ComboRollback, Unlock, Discard,
         StockTables, ComboTables
<1>2. StockTables'
  <2>1. None \in [Row -> Nat]
    BY DEF None
  <2> QED BY <1>1, <2>1 DEF StockTables, DraftsAreHeld
<1>3. ComboTables'
  BY <1>1 DEF ComboTables, DraftsAreHeld, NotDue
<1>4. DeskFits'
  BY <1>1 DEF DeskFits
<1>5. \A c \in Combo, u \in Tx : Moves(u, c)' <=> u # t /\ Moves(u, c)
  BY <1>1, NoTxAssumption DEF Moves, PartsOf
<1>6. ShownIsAssembled'
  BY <1>1 DEF ShownIsAssembled
<1>7. \A c \in Combo, u \in Tx : u # t =>
         /\ due'[u][c] = due[u][c]
         /\ (comboHolder'[c] = u <=> comboHolder[c] = u)
         /\ (comboHolder[c] = u => comboDraft'[c] = comboDraft[c])
  BY <1>1, NoTxAssumption DEF ComboTables
<1>8. MoverSettles'
  <2> SUFFICES ASSUME NEW u \in Tx, NEW c \in OnePart, Moves(u, c)'
               PROVE  \/ due'[u][c] = Assembled(draft', c)
                      \/ /\ due'[u][c] = Settled
                         /\ comboHolder'[c] = u
                         /\ comboDraft'[c].available = Assembled(draft', c)
    BY DEF MoverSettles
  <2>1. c \in Combo
    BY DEF OnePart
  <2>2. u # t /\ Moves(u, c)
    BY <1>5, <2>1
  <2>3. \/ due[u][c] = Assembled(draft, c)
        \/ /\ due[u][c] = Settled
           /\ comboHolder[c] = u
           /\ comboDraft[c].available = Assembled(draft, c)
    BY <2>2 DEF MoverSettles
  <2>4. \A r \in PartsOf(c) : draft'[r] = draft[r]
    BY <1>1, <2>2 DEF Moves, OnePart, PartsOf
  <2>5. Assembled(draft', c) = Assembled(draft, c)
    BY <2>1, <2>4, AssembledFrom
  <2> QED BY <1>7, <2>1, <2>2, <2>3, <2>5
<1>9. OthersKeep'
  <2> SUFFICES ASSUME NEW u \in Tx, NEW c \in Combo, ~Moves(u, c)'
               PROVE  /\ due'[u][c] = Settled
                      /\ comboHolder'[c] = u => comboDraft'[c].available = combo'[c].available
    BY DEF OthersKeep
  <2>1. CASE u = t
    BY <1>1, <2>1, NoTxAssumption DEF NotDue, ComboTables
  <2>2. CASE u # t
    <3>1. ~Moves(u, c)
      BY <1>5, <2>2
    <3> QED BY <1>1, <1>7, <2>2, <3>1 DEF OthersKeep
  <2> QED BY <2>1, <2>2
<1> QED BY <1>2, <1>3, <1>4, <1>6, <1>8, <1>9

\* A statement of its own on a combo's row that leaves its availability alone.
WritesAlone(c, row) ==
    /\ comboHolder[c] = NoTx
    /\ "available" \in DOMAIN row /\ row.available = combo[c].available
    /\ combo' = [combo EXCEPT ![c] = row]
    /\ comboDraft' = [comboDraft EXCEPT ![c] = row]
    /\ UNCHANGED <<quantity, draft, rowHolder, todo, comboHolder, due>>

LEMMA OfferInvAlone ==
    ASSUME OfferInv, NEW c \in Combo, NEW row, WritesAlone(c, row), DeskFits'
    PROVE  OfferInv'
<1> USE DEF OfferInv, WritesAlone
<1>1. StockTables'
  BY DEF StockTables, DraftsAreHeld
<1>2. ComboTables'
  BY DEF ComboTables, DraftsAreHeld
<1>3. /\ \A d \in Combo : combo'[d].available = combo[d].available
      /\ \A d \in Combo : comboHolder[d] # NoTx => comboDraft'[d] = comboDraft[d]
  BY DEF ComboTables
<1>4. ShownIsAssembled'
  BY <1>3 DEF ShownIsAssembled, OnePart
<1>5. \A u, d : Moves(u, d)' <=> Moves(u, d)
  BY DEF Moves
<1>6. MoverSettles'
  BY <1>3, <1>5, NoTxAssumption DEF MoverSettles, OnePart
<1>7. OthersKeep'
  BY <1>3, <1>5, NoTxAssumption DEF OthersKeep
<1> QED BY <1>1, <1>2, <1>4, <1>6, <1>7
\* An order counts the bundles of a combo there is.
BundleFits ==
    /\ DOMAIN bundle = Tx
    /\ \A t \in Tx :
          /\ "count" \in DOMAIN bundle[t]
          /\ bundle[t].count > 0 => "combo" \in DOMAIN bundle[t] /\ bundle[t].combo \in Combo

LEMMA BundleFitsStep ==
    ASSUME BundleFits, [DeskNext]_deskVars
    PROVE  BundleFits'
<1> USE DEF BundleFits
<1>1. ASSUME NEW t \in Tx, NEW o \in Order, NEW c \in Combo, NEW n \in 1..MaxBundles,
             BeginBundle(t, o, c, n)
      PROVE  BundleFits'
  BY <1>1 DEF BeginBundle
<1>2. ASSUME NEW t \in Tx, CountBundle(t)
      PROVE  BundleFits'
  BY <1>2 DEF CountBundle
<1>3. ASSUME NEW t \in Tx, CommitBundle(t) \/ AbortBundle(t)
      PROVE  BundleFits'
  BY <1>3 DEF CommitBundle, AbortBundle, NoBundle
<1>4. ASSUME UNCHANGED bundle
      PROVE  BundleFits'
  BY <1>4
<1> QED BY <1>1, <1>2, <1>3, <1>4
        DEF DeskNext, TxNext, AdminNext, deskVars, BeginPlain, MoveBundlePart, Retrigger,
            ReadOffer, CheckOffer, WriteOffer, RefuseOffer, Sweep, Close, AtDesk

\* What an admin does.
LEMMA OfferInvAdmin ==
    ASSUME OfferInv, NoItemEdits, NEW a \in Admin, AdminNext(a)
    PROVE  OfferInv'
<1> USE DEF OfferInv
<1>1. ASSUME DeskFits', UNCHANGED <<AtDesk, comboVars>>
      PROVE  OfferInv'
  <2>1. UNCHANGED <<quantity, draft, rowHolder, todo, combo, comboDraft, comboHolder, due>>
    BY <1>1 DEF AtDesk, stockVars, comboVars
  <2>2. StockTables' /\ ComboTables'
    BY <2>1 DEF StockTables, ComboTables, DraftsAreHeld
  <2>3. \A u, d : Moves(u, d)' <=> Moves(u, d)
    BY <2>1 DEF Moves
  <2>4. ShownIsAssembled' /\ MoverSettles' /\ OthersKeep'
    BY <2>1, <2>3 DEF ShownIsAssembled, MoverSettles, OthersKeep
  <2> QED BY <1>1, <2>2, <2>4
<1>2. ASSUME NEW c \in Combo, NEW dto \in Edits, ReadOffer(a, c, dto)
      PROVE  OfferInv'
  <2>1. DeskFits'
    BY <1>2 DEF DeskFits, ReadOffer
  <2> QED BY <1>1, <1>2, <2>1 DEF ReadOffer
<1>3. ASSUME CheckOffer(a)
      PROVE  OfferInv'
  <2>1. DeskFits'
    BY <1>3 DEF DeskFits, CheckOffer
  <2> QED BY <1>1, <1>3, <2>1 DEF CheckOffer
<1>4. ASSUME RefuseOffer(a)
      PROVE  OfferInv'
  <2>1. DeskFits'
    BY <1>4 DEF DeskFits, RefuseOffer, AtRest
  <2> QED BY <1>1, <1>4, <2>1 DEF RefuseOffer
<1>5. ASSUME WriteOffer(a)
      PROVE  OfferInv'
  <2>1. PICK c \in Combo, dto \in Edits : c = desk[a].combo /\ dto = desk[a].dto
    BY <1>5 DEF DeskFits, WriteOffer
  <2>2. ~dto.items
    BY DEF NoItemEdits
  <2>3. PICK edited : edited = [combo[c] EXCEPT
            !.available = IF dto.items THEN desk[a].ceiling ELSE @,
            !.offered   = Patched(@, dto.offered),
            !.active    = Patched(@, dto.active)]
    OBVIOUS
  <2>4. "available" \in DOMAIN edited /\ edited.available = combo[c].available
    BY <2>2, <2>3 DEF ComboTables
  <2>5. PICK row : row = Synced(edited)
    OBVIOUS
  <2>6. "available" \in DOMAIN row /\ row.available = combo[c].available
    BY <2>4, <2>5, SyncedKeepsAvailable
  <2>7. DeskFits'
    BY <1>5 DEF DeskFits, WriteOffer, AtRest
  <2>8. Autocommit(c, row) /\ UNCHANGED stockVars
    BY <1>5, <2>1, <2>3, <2>5 DEF WriteOffer, AtDesk
  <2>9. WritesAlone(c, row)
    BY <2>6, <2>8 DEF WritesAlone, Autocommit, stockVars
  <2> QED BY <2>7, <2>9, OfferInvAlone
<1> QED BY <1>2, <1>3, <1>4, <1>5 DEF AdminNext

\* The clock and the sweep.
LEMMA OfferInvClock ==
    ASSUME OfferInv, NEW c \in Combo, Close(c) \/ Sweep(c)
    PROVE  OfferInv'
<1>1. UNCHANGED <<stockVars, desk>>
  BY DEF Close, Sweep, AtDesk
<1>2. UNCHANGED <<quantity, draft, rowHolder, todo>>
  BY <1>1 DEF stockVars
<1>3. DeskFits'
  BY <1>1 DEF OfferInv, DeskFits
<1>4. CASE Close(c)
  <2>1. UNCHANGED <<combo, comboDraft, comboHolder, due>>
    BY <1>4 DEF Close, WindowCloses
  <2>2. StockTables' /\ ComboTables'
    BY <1>2, <2>1 DEF OfferInv, StockTables, ComboTables, DraftsAreHeld
  <2>3. \A u, d : Moves(u, d)' <=> Moves(u, d)
    BY <1>2 DEF Moves
  <2>4. ShownIsAssembled' /\ MoverSettles' /\ OthersKeep'
    BY <1>2, <2>1, <2>3 DEF OfferInv, ShownIsAssembled, MoverSettles, OthersKeep
  <2> QED BY <1>3, <2>2, <2>4 DEF OfferInv
<1>5. CASE Sweep(c)
  <2>1. PICK row : row = [combo[c] EXCEPT !.active = FALSE]
    OBVIOUS
  <2>2. "available" \in DOMAIN row /\ row.available = combo[c].available
    BY <2>1 DEF OfferInv, ComboTables
  <2>3. WritesAlone(c, row)
    BY <1>2, <1>5, <2>1, <2>2 DEF Sweep, SweepExpired, Autocommit, WritesAlone
  <2> QED BY <1>3, <2>3, OfferInvAlone
<1> QED BY <1>4, <1>5

LEMMA OfferInvStep ==
    ASSUME OfferInv, BundleFits, NoItemEdits, [DeskNext]_deskVars
    PROVE  OfferInv'
<1>1. ASSUME NEW t \in Tx, NEW o \in Order, NEW c \in Combo, NEW n \in 1..MaxBundles,
             BeginBundle(t, o, c, n)
      PROVE  OfferInv'
  <2>1. BundleLines(c, n) \in [Row -> Nat]
    BY PartsAssumption DEF BundleLines
  <2>2. /\ todo' = [todo EXCEPT ![t] = BundleLines(c, n)]
        /\ UNCHANGED <<quantity, draft, rowHolder, comboVars, desk>>
    BY <1>1 DEF BeginBundle, BeginSale
  <2>3. todo' \in [Tx -> [Row -> Nat]]
    BY <2>1, <2>2 DEF OfferInv, StockTables
  <2> QED BY <2>2, <2>3, OfferInvPlanned
<1>2. ASSUME NEW t \in Tx, NEW o \in Order, NEW lines \in Demands, BeginPlain(t, o, lines)
      PROVE  OfferInv'
  <2>1. lines \in [Row -> Nat]
    BY DemandsAssumption
  <2>2. /\ todo' = [todo EXCEPT ![t] = lines]
        /\ UNCHANGED <<quantity, draft, rowHolder, comboVars, desk>>
    BY <1>2 DEF BeginPlain, BeginSale
  <2>3. todo' \in [Tx -> [Row -> Nat]]
    BY <2>1, <2>2 DEF OfferInv, StockTables
  <2> QED BY <2>2, <2>3, OfferInvPlanned
<1>3. ASSUME NEW t \in Tx, CountBundle(t)
      PROVE  OfferInv'
  <2>1. bundle[t].combo \in Combo
    BY <1>3 DEF CountBundle, BundleFits
  <2>2. AdjustSold(t, bundle[t].combo, bundle[t].count) /\ UNCHANGED <<stockVars, desk>>
    BY <1>3 DEF CountBundle
  <2>3. PICK c \in Combo : c = bundle[t].combo
    BY <2>1
  <2>4. PICK n : n = bundle[t].count
    OBVIOUS
  <2> QED BY <2>2, <2>3, <2>4, OfferInvCount
<1>4. ASSUME UNCHANGED deskVars
      PROVE  OfferInv'
  <2>1. UNCHANGED <<quantity, draft, rowHolder, comboVars, desk>> /\ todo' = todo
    BY <1>4 DEF deskVars, stockVars
  <2>2. todo' \in [Tx -> [Row -> Nat]]
    BY <2>1 DEF OfferInv, StockTables
  <2> QED BY <2>1, <2>2, OfferInvPlanned
<1> QED BY <1>1, <1>2, <1>3, <1>4, OfferInvDeduct, OfferInvRetrigger, OfferInvCommit,
           OfferInvAbort, OfferInvAdmin, OfferInvClock DEF DeskNext, TxNext

-----------------------------------------------------------------------------
\* A combo of one part always shows what its part's committed stock assembles,
\* moved or not (sync_combo_available_from_product, the trigger of a stock
\* UPDATE, whose snapshot of the part is the transaction's own version).
THEOREM OnePartIsExact == NoItemEdits => (DeskSpec => []ShownIsAssembled)
<1> SUFFICES ASSUME NoItemEdits PROVE DeskSpec => []ShownIsAssembled
  OBVIOUS
<1>1. DeskInit => OfferInv /\ BundleFits
  BY OfferInvInitially DEF DeskInit, BundleFits, NoBundle
<1>2. (OfferInv /\ BundleFits) /\ [DeskNext]_deskVars => (OfferInv /\ BundleFits)'
  BY OfferInvStep, BundleFitsStep
<1>3. OfferInv => ShownIsAssembled
  BY DEF OfferInv
<1> QED BY <1>1, <1>2, <1>3, PTL DEF DeskSpec

\* So availability is exact whenever nobody moves stock, if every combo has one
\* part and no edit carries the item list (recompute_combo_available_quantity).
THEOREM AvailabilityStaysExact ==
    Combo \subseteq OnePart /\ NoItemEdits => (DeskSpec => []AvailabilityExact)
<1> SUFFICES ASSUME Combo \subseteq OnePart, NoItemEdits
             PROVE  DeskSpec => []AvailabilityExact
  OBVIOUS
<1>1. DeskSpec => []ShownIsAssembled
  BY OnePartIsExact
<1>2. ShownIsAssembled => AvailabilityExact
  BY DEF ShownIsAssembled, AvailabilityExact
<1> QED BY <1>1, <1>2, PTL
==============================================================================
