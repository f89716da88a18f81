------------------------------ MODULE Bundling ------------------------------
(***************************************************************************)
(* Which variants a combo bundles, and which of them are retired: the item *)
(* list and the status in ComboProductService.createComboProduct,          *)
(* updateComboProduct and hardDeleteComboProduct, against the variant      *)
(* statuses of ProductService.updateVariantStatus and updateProduct.       *)
(*                                                                         *)
(* Three checks keep a live combo from bundling a retired variant: when it *)
(* is bundled, when it is retired, when the combo is published.  Each runs *)
(* before the transaction that needs it, and reads only what the others    *)
(* have committed.                                                         *)
(*                                                                         *)
(* Stock and offers are ComboOffers'; what ends an offer only takes a      *)
(* combo off the page.  A combo bundles variants here, never a SIMPLE      *)
(* product, which has no status of its own to retire.                      *)
(***************************************************************************)
EXTENDS Requests, Naturals

CONSTANTS
    Variant,
    Combo,
    FirstCombo,   \* the draft that is there at the start ...
    FirstParts,   \* ... and the variants it bundles
    Lists,        \* the sets of variants a body may name
    Keep          \* a field the body leaves out

VARIABLES
    active,         \* active[v]: the committed variant_status of v is ACTIVE
    activeDraft,
    activeHolder,
    bundle,         \* the committed rows of combo_products, with their items
    bundleDraft,
    bundleHolder

AtVariants   == <<active, activeDraft, activeHolder>>
AtCombos     == <<bundle, bundleDraft, bundleHolder>>
bundlingVars == <<AtVariants, AtCombos, request, alone>>

\* An item is a variant and the list that brought it: an item inserted again
\* is another row.
Items(variants, list) == {[variant |-> v, list |-> list] : v \in variants}

Blank == [life |-> "fresh", live |-> FALSE, lists |-> 0, items |-> {}]
Gone  == [Blank EXCEPT !.life = "gone"]

Draft(variants) == [life |-> "there", live |-> FALSE, lists |-> 1, items |-> Items(variants, 1)]

Parts(row) == {i.variant : i \in row.items}

BundlingInit ==
    /\ active = [v \in Variant |-> TRUE]
    /\ activeDraft = active
    /\ activeHolder = [v \in Variant |-> NoTx]
    /\ bundle = [c \in Combo |-> IF c = FirstCombo THEN Draft(FirstParts) ELSE Blank]
    /\ bundleDraft = bundle
    /\ bundleHolder = [c \in Combo |-> NoTx]
    /\ request = [t \in Tx |-> Idle]
    /\ alone = [t \in Tx |-> FALSE]

Bundles(t)  == View(bundle, bundleDraft, bundleHolder, t)
Variants(t) == View(active, activeDraft, activeHolder, t)

Begin(t, r) == Starts(t, r) /\ UNCHANGED <<AtVariants, AtCombos>>

\* The request goes on, or is refused.
Decide(t, passes, stage) ==
    /\ IF passes THEN Continues(t, [request[t] EXCEPT !.stage = stage]) ELSE Ends(t)
    /\ UNCHANGED <<AtVariants, AtCombos>>

-----------------------------------------------------------------------------
(* Combos.                                                                 *)

Publishing(op, c, variants, live, wasLive) ==
    [op |-> op, stage |-> "check", combo |-> c, variants |-> variants, live |-> live,
     wasLive |-> wasLive, seen |-> {}]

BeginCreate(t, c, variants, live) ==
    /\ bundle[c].life = "fresh" /\ \A u \in Active : ~(request[u].op = "create" /\ request[u].combo = c)
    /\ Begin(t, Publishing("create", c, variants, live, FALSE))

\* findByIdAdmin: variants and live are Keep where the body is silent.
BeginEdit(t, c, variants, live) ==
    /\ bundle[c].life = "there"
    /\ Begin(t, Publishing("edit", c, variants, live, bundle[c].live))

BeginDelete(t, c) ==
    /\ bundle[c].life = "there"
    /\ Begin(t, [op |-> "delete", stage |-> "delete", combo |-> c])

OnSale(variants) == \A v \in variants : active[v]

\* Mutant: publishing counts on the check made when the items were sent.
ItemsAloneChecked(r) == r.variants # Keep => OnSale(r.variants)

\* resolveComboItems; else assertNoInactiveBundledVariants, if the edit
\* publishes a combo that was not live.
PassesChecks(r) ==
    IF r.variants # Keep THEN OnSale(r.variants)
    ELSE r.live = TRUE /\ ~r.wasLive => OnSale(Parts(bundle[r.combo]))

CheckCombo(t) ==
    LET r == request[t] IN
    /\ r.stage = "check" /\ r.op \in {"create", "edit"}
    /\ Decide(t, PassesChecks(r),
              IF r.op = "create" THEN "insert" ELSE IF r.variants = Keep THEN "write" ELSE "clear")

\* One nested create: the combo and its items.
Insert(t) ==
    LET r   == request[t]
        row == [Draft(r.variants) EXCEPT !.live = r.live]
    IN
    /\ r.stage = "insert"
    /\ bundle' = [bundle EXCEPT ![r.combo] = row]
    /\ bundleDraft' = [bundleDraft EXCEPT ![r.combo] = row]
    /\ Ends(t)
    /\ UNCHANGED <<AtVariants, bundleHolder>>

\* replaceComboItems: deleteMany finds the items of its snapshot ...
ClearItems(t) ==
    LET r == request[t] IN
    /\ r.stage = "clear"
    /\ Continues(t, [r EXCEPT !.stage = "replace", !.seen = Bundles(t)[r.combo].items])
    /\ UNCHANGED <<AtVariants, AtCombos>>

WriteCombo(t, c, row) ==
    /\ Free(bundleHolder, t, c)
    /\ bundleDraft' = [bundleDraft EXCEPT ![c] = row]
    /\ bundleHolder' = Lock(bundleHolder, t, c)
    /\ UNCHANGED <<AtVariants, bundle>>

\* ... deletes those that are still there, and createMany inserts the new ones,
\* unless one of them is there already.  The trigger on the items locks the
\* combo.
ReplaceItems(t) ==
    LET r    == request[t]
        row  == bundleDraft[r.combo]
        left == row.items \ r.seen
        list == row.lists + 1
    IN
    /\ r.stage = "replace" /\ row.life = "there"
    /\ r.variants \cap {i.variant : i \in left} = {}
    /\ WriteCombo(t, r.combo, [row EXCEPT !.lists = list, !.items = left \cup Items(r.variants, list)])
    /\ Continues(t, [r EXCEPT !.stage = "write", !.seen = {}])

\* The UPDATE of the combo: its status, if the body has one.
WriteStatus(t) ==
    LET r   == request[t]
        row == bundleDraft[r.combo]
    IN
    /\ r.stage = "write" /\ row.life = "there"
    /\ WriteCombo(t, r.combo, IF r.live = Keep THEN row ELSE [row EXCEPT !.live = r.live])
    /\ Continues(t, [r EXCEPT !.stage = "commit"])

\* hardDeleteComboProduct: the items go with the row.
DeleteCombo(t) ==
    LET c == request[t].combo IN
    /\ request[t].stage = "delete"
    /\ bundleHolder[c] = NoTx /\ bundle[c].life = "there"
    /\ bundle' = [bundle EXCEPT ![c] = Gone]
    /\ bundleDraft' = [bundleDraft EXCEPT ![c] = Gone]
    /\ Ends(t)
    /\ UNCHANGED <<AtVariants, bundleHolder>>

-----------------------------------------------------------------------------
(* Variants.                                                               *)

\* One variant, or a list: the statuses it sets, and the variants that are
\* ACTIVE when the request reads them and will not be.  A status a variant has
\* already is a no-op for one variant, and written again by a list.
BeginStatuses(t, variants, on) ==
    Begin(t, [op |-> "statuses", stage |-> "check", variants |-> variants, on |-> on,
              retired |-> IF on THEN {} ELSE {v \in variants : active[v]}, touched |-> {}])

LiveWith(v) == {c \in Combo : bundle[c].live /\ v \in Parts(bundle[c])}

\* assertVariantsNotInLiveCombo
CheckVariants(t) ==
    LET r == request[t] IN
    /\ r.stage = "check" /\ r.op = "statuses"
    /\ Decide(t, \A v \in r.retired : LiveWith(v) = {}, "set")

\* The UPDATE of one variant; its trigger goes to the combos that bundle it.
SetStatus(t) ==
    LET r == request[t] IN
    /\ r.stage = "set" /\ r.touched = {}
    /\ \E v \in r.variants :
          /\ Free(activeHolder, t, v)
          /\ activeDraft' = [activeDraft EXCEPT ![v] = r.on]
          /\ activeHolder' = Lock(activeHolder, t, v)
          /\ Continues(t, [r EXCEPT !.variants = @ \ {v},
                 !.touched = {c \in Combo : v \in Parts(Bundles(t)[c])}])
    /\ UNCHANGED <<AtCombos, active>>

\* It rewrites what such a combo can assemble, which is ComboOffers'; here it
\* locks the row, if that is still there.
TouchCombo(t) ==
    LET r == request[t] IN
    /\ r.stage = "set"
    /\ \E c \in r.touched :
          /\ Free(bundleHolder, t, c)
          /\ bundleHolder' = IF bundleDraft[c].life = "there" THEN Lock(bundleHolder, t, c)
                             ELSE bundleHolder
          /\ Continues(t, [r EXCEPT !.touched = @ \ {c}])
    /\ UNCHANGED <<AtVariants, bundle, bundleDraft>>

StatusesSet(t) ==
    LET r == request[t] IN
    /\ r.stage = "set" /\ r.variants = {} /\ r.touched = {}
    /\ Continues(t, [r EXCEPT !.stage = "commit"])
    /\ UNCHANGED <<AtVariants, AtCombos>>

-----------------------------------------------------------------------------
Commit(t) ==
    /\ request[t].stage = "commit"
    /\ active' = Variants(t)
    /\ activeHolder' = Unlock(activeHolder, t)
    /\ bundle' = Bundles(t)
    /\ bundleHolder' = Unlock(bundleHolder, t)
    /\ Ends(t)
    /\ UNCHANGED <<activeDraft, bundleDraft>>

\* A refusal, a combo that is gone, a deadlock, any other failure.
Abort(t) ==
    /\ request[t] # Idle
    /\ activeDraft' = Discard(active, activeDraft, activeHolder, t)
    /\ activeHolder' = Unlock(activeHolder, t)
    /\ bundleDraft' = Discard(bundle, bundleDraft, bundleHolder, t)
    /\ bundleHolder' = Unlock(bundleHolder, t)
    /\ Ends(t)
    /\ UNCHANGED <<active, bundle>>

Ask(t) ==
    \/ \E c \in Combo, variants \in Lists, live \in BOOLEAN : BeginCreate(t, c, variants, live)
    \/ \E c \in Combo, variants \in Lists \cup {Keep}, live \in BOOLEAN \cup {Keep} :
          BeginEdit(t, c, variants, live)
    \/ \E c \in Combo : BeginDelete(t, c)
    \/ \E variants \in Lists, on \in BOOLEAN : BeginStatuses(t, variants, on)

Serve(t) ==
    \/ CheckCombo(t) \/ Insert(t) \/ ClearItems(t) \/ ReplaceItems(t) \/ WriteStatus(t)
    \/ DeleteCombo(t) \/ CheckVariants(t) \/ SetStatus(t) \/ TouchCombo(t) \/ StatusesSet(t)
    \/ Commit(t) \/ Abort(t)

BundlingNext == \E t \in Tx : Ask(t) \/ Serve(t)

BundlingSpec == BundlingInit /\ [][BundlingNext]_bundlingVars

-----------------------------------------------------------------------------
\* A live combo that bundles a retired variant.
Broken(rows, on, c, v) == rows[c].live /\ v \in Parts(rows[c]) /\ ~on[v]

\* The three rules "that keep combos and variant status consistent, each
\* closing a different moment" close every moment of a request nobody overlaps:
\* no retirement, list of items or publication that runs alone puts a combo on
\* the page that can only ever be out of stock, whatever earlier races left;
\* and the items a lone edit sends are the combo's only items.
LoneRequestKeepsBundles == [][\A t \in Tx : alone[t] /\ (Commit(t) \/ Insert(t)) =>
    /\ \A c \in Combo, v \in Variant :
          Broken(bundle', active', c, v) => Broken(bundle, active, c, v)
    /\ request[t].op = "edit" /\ request[t].variants # Keep =>
          Parts(bundle'[request[t].combo]) = request[t].variants]_bundlingVars
=============================================================================
