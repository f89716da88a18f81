----------------------------- MODULE ComboOffers ----------------------------
(***************************************************************************)
(* Combo offers over the stock rows they are assembled from: the row of    *)
(* combo_products, the triggers that derive it, the sold counter an order  *)
(* moves, and the hourly sweep that retires ended offers.                  *)
(*                                                                         *)
(* A combo owns no stock.  `available_quantity` is written by a trigger    *)
(* each time a part's stock moves: the trigger's UPDATE computes the value *)
(* from the snapshot it started with and then waits for the combo's row,   *)
(* so the value it writes may be older than the row it writes it to.       *)
(***************************************************************************)
EXTENDS StockRows, SequencesExt

CONSTANTS
    Combo,      \* combo offers
    Parts,      \* Parts[c][r]: units of r in one bundle, 0 when r is no part
    Cap,        \* Cap[c]: the offered_quantity c was created with
    NoCap,      \* a NULL offered_quantity
    Dated       \* the combos with an ends_at still to come

ASSUME PartsAssumption == Parts \in [Combo -> [Row -> Nat]]
ASSUME CapAssumption == Cap \in [Combo -> Nat \cup {NoCap}] /\ NoCap \notin Nat
ASSUME DatedAssumption == Dated \subseteq Combo

VARIABLES
    combo,        \* combo[c]: the committed row
    comboDraft,   \* its newest version
    comboHolder,  \* who locked it
    due,          \* due[t][c]: available_quantity the trigger run by t has still to write
    ended         \* the combos whose promotion window has closed

comboVars == <<combo, comboDraft, comboHolder, due, ended>>

Settled == -1
NotDue  == [c \in Combo |-> Settled]

ComboRow == [available : Nat, offered : Nat \cup {NoCap}, sold : Nat, active : BOOLEAN]

PartsOf(c) == {r \in Row : Parts[c][r] > 0}
Users(r)   == {c \in Combo : r \in PartsOf(c)}

\* recompute_combo_available_quantity: the scarcest part, 0 without parts
Assembled(stock, c) ==
    IF PartsOf(c) = {} THEN 0 ELSE Min({stock[r] \div Parts[c][r] : r \in PartsOf(c)})

\* sync_combo_offer_exhaustion, the BEFORE trigger of the row
Exhausted(row) == row.offered # NoCap /\ row.sold >= row.offered

Synced(row) == IF Exhausted(row) THEN [row EXCEPT !.active = FALSE] ELSE row

ComboInit ==
    /\ combo = [c \in Combo |-> Synced([available |-> Assembled(Opening, c),
                                      offered |-> Cap[c], sold |-> 0, active |-> TRUE])]
    /\ comboDraft = combo
    /\ comboHolder = [c \in Combo |-> NoTx]
    /\ due = [t \in Tx |-> NotDue]
    /\ ended = {}

Offer(t) == View(combo, comboDraft, comboHolder, t)

-----------------------------------------------------------------------------
(* A stock UPDATE and the trigger it fires.                                *)

\* Mutant: the trigger runs before the row is written and reads the old stock.
SnapshotBefore(t, r, version) == Stock(t)

\* The snapshot of the trigger's UPDATE: the stock t sees, its own UPDATE of r
\* included.
Snapshot(t, r, version) == [Stock(t) EXCEPT ![r] = version]

FireTrigger(t, r, version) ==
    /\ due[t] = NotDue
    /\ due' = [due EXCEPT ![t] = [c \in Combo |->
          IF c \in Users(r) THEN Assembled(Snapshot(t, r, version), c) ELSE Settled]]
    /\ UNCHANGED <<combo, comboDraft, comboHolder, ended>>

DeductPart(t, r)  == Deduct(t, r) /\ FireTrigger(t, r, draft[r] - todo[t][r])
RestorePart(t, r) == Restore(t, r) /\ FireTrigger(t, r, draft[r] + todo[t][r])

WriteCombo(t, c, row) ==
    /\ Free(comboHolder, t, c)
    /\ comboDraft' = [comboDraft EXCEPT ![c] = row]
    /\ comboHolder' = Lock(comboHolder, t, c)
    /\ UNCHANGED <<combo, ended>>

\* The trigger's UPDATE reaches the row of combo c.
WriteAvailable(t, c) ==
    /\ due[t][c] # Settled
    /\ WriteCombo(t, c, [comboDraft[c] EXCEPT !.available = due[t][c]])
    /\ due' = [due EXCEPT ![t][c] = Settled]

-----------------------------------------------------------------------------
(* The order's use of a combo.                                             *)

\* combo_sellable_quantity, mirrored in resolveComboLine
Sellable(row) ==
    IF row.offered = NoCap THEN row.available
    ELSE Min({row.available, Max({row.offered - row.sold, 0})})

\* resolveComboLine finds the line OK.
Buyable(t, c, n) ==
    /\ Offer(t)[c].active
    /\ c \notin ended
    /\ n <= Sellable(Offer(t)[c])

\* adjustSoldQuantity
AdjustSold(t, c, delta) ==
    /\ due[t] = NotDue
    /\ WriteCombo(t, c, Synced([comboDraft[c] EXCEPT !.sold = Max({@ + delta, 0})]))
    /\ UNCHANGED due

ComboCommit(t) ==
    /\ due[t] = NotDue
    /\ combo' = Offer(t)
    /\ comboHolder' = Unlock(comboHolder, t)
    /\ UNCHANGED <<comboDraft, due, ended>>

ComboRollback(t) ==
    /\ comboDraft' = Discard(combo, comboDraft, comboHolder, t)
    /\ comboHolder' = Unlock(comboHolder, t)
    /\ due' = [due EXCEPT ![t] = NotDue]
    /\ UNCHANGED <<combo, ended>>

-----------------------------------------------------------------------------
(* The clock and the sweep.                                                *)

Autocommit(c, row) ==
    /\ comboHolder[c] = NoTx
    /\ combo' = [combo EXCEPT ![c] = row]
    /\ comboDraft' = [comboDraft EXCEPT ![c] = row]
    /\ UNCHANGED <<comboHolder, due>>

WindowCloses(c) ==
    /\ c \in Dated \ ended
    /\ ended' = ended \cup {c}
    /\ UNCHANGED <<combo, comboDraft, comboHolder, due>>

\* Mutant: the sweep selects the combos whose window is still open.
SweepOpen(c) ==
    /\ combo[c].active
    /\ c \notin ended
    /\ Autocommit(c, [combo[c] EXCEPT !.active = FALSE])
    /\ UNCHANGED ended

\* deactivateExpiredCombos reaches the row of c.
SweepExpired(c) ==
    /\ combo[c].active
    /\ c \in ended
    /\ Autocommit(c, [combo[c] EXCEPT !.active = FALSE])
    /\ UNCHANGED ended

-----------------------------------------------------------------------------
\* No transaction is moving stock of c's parts or is about to write c.
Quiet(c) ==
    /\ \A r \in PartsOf(c) : rowHolder[r] = NoTx
    /\ \A t \in Tx : due[t][c] = Settled

\* available_quantity is what the parts' stock can assemble whenever nobody is
\* moving them (recompute_combo_available_quantity; combo-product.prisma calls
\* the column fully derived).
AvailabilityExact == \A c \in Combo :
    Quiet(c) => combo[c].available = Assembled(quantity, c)

\* Orders never claim more bundles than the offer's cap.
CapKept == \A c \in Combo : combo[c].offered # NoCap => combo[c].sold <= combo[c].offered
=============================================================================
