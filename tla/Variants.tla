------------------------------ MODULE Variants ------------------------------
(***************************************************************************)
(* A VARIABLE product and its variants: ProductService.updateVariantStatus *)
(* and updateProduct, the sale of a variant, softDeleteProduct, and the    *)
(* trigger that keeps products.total_stock.                                *)
(*                                                                         *)
(* What the product row says of its variants is written in two ways.  Its  *)
(* status, its price and (in updateProduct) its stock are computed from    *)
(* what the request read before its transaction; total_stock is also       *)
(* recomputed by a trigger after every variant statement, in a snapshot    *)
(* taken before the trigger waits for the product's row.                   *)
(*                                                                         *)
(* One product: variants of different products share no row.  A sale is    *)
(* the statement of deductStockForSale on one variant.  Combos that pin a  *)
(* variant can refuse a request, and any request may be refused.           *)
(***************************************************************************)
EXTENDS Requests, Naturals, Sequences, FiniteSetsExt

CONSTANTS
    Variant,       \* ids, in ascending order
    FirstVariants, \* the variants the product is created with
    FirstStock,    \* how many units each of them has
    Bodies,        \* the variant lists an admin may send
    Statuses,      \* the statuses an admin may send
    Keep,          \* a field the body, or the request's UPDATE, leaves out
    Absent         \* a variant the body does not list

VARIABLES
    variant,        \* the committed rows of product_variants
    variantDraft,
    variantHolder,
    prod,           \* the committed row of products
    prodHolder

variantVars == <<variant, variantDraft, variantHolder, prod, prodHolder, request, alone>>
AtVariants  == <<variant, variantDraft, variantHolder>>
AtProduct   == <<prod, prodHolder>>

\* An id is used once: a variant is fresh, then live, then gone.
VariantRow == [life : {"fresh", "live", "gone"}, active : BOOLEAN, default : BOOLEAN,
               quantity : Nat]
Blank      == [life |-> "fresh", active |-> FALSE, default |-> FALSE, quantity |-> 0]
Gone       == [Blank EXCEPT !.life = "gone"]

Status     == {"ACTIVE", "INACTIVE", "DRAFT", "ARCHIVED"}
\* price: the variant whose price the product row mirrors.
ProductRow == [status : Status, total : Nat, price : Variant, deleted : BOOLEAN]

Live(rows)     == {v \in Variant : rows[v].life = "live"}
OnSale(rows)   == {v \in Live(rows) : rows[v].active}
Defaults(rows) == {v \in Live(rows) : rows[v].default}
First(S)       == CHOOSE v \in S : \A w \in S : v <= w

\* The SUM of sync_product_total_stock_from_variants.
Total(rows) == MapThenSumSet(LAMBDA v : rows[v].quantity, OnSale(rows))

\* A statement on one variant; Keep where its SET list is silent.
Statement(do, v, active, default, quantity) ==
    [do |-> do, id |-> v, active |-> active, default |-> default, quantity |-> quantity]

\* steps: the statements still to run; sum: what a trigger is about to store,
\* or stored last; status, total, price: what the closing UPDATE of the
\* product will say, computed from the rows read.
Working(op, steps, status, total, price) ==
    [op |-> op, stage |-> "write", steps |-> steps, sum |-> Keep,
     status |-> status, total |-> total, price |-> price]

VariantsInit ==
    /\ variant = [v \in Variant |->
          IF v \notin FirstVariants THEN Blank
          ELSE [life |-> "live", active |-> TRUE, default |-> v = First(FirstVariants),
                quantity |-> FirstStock]]
    /\ variantDraft = variant
    /\ variantHolder = [v \in Variant |-> NoTx]
    /\ prod = [status |-> "ACTIVE", total |-> Total(variant), price |-> First(FirstVariants),
               deleted |-> FALSE]
    /\ prodHolder = NoTx
    /\ request = [t \in Tx |-> Idle]
    /\ alone = [t \in Tx |-> FALSE]

-----------------------------------------------------------------------------
(* What a request decides before its transaction.                          *)

Begin(t, r) ==
    /\ Starts(t, r)
    /\ UNCHANGED <<AtVariants, AtProduct>>

Or(field, otherwise) == IF field = Keep THEN otherwise ELSE field

\* Mutant: a variable product keeps the status it was sent.
ResolveAsSent(sent, current, someActive) == sent

\* resolveVariableProductStatus
Resolve(sent, current, someActive) ==
    LET desired == IF someActive THEN "ACTIVE" ELSE "INACTIVE" IN
    IF Or(sent, current) \notin {"ACTIVE", "INACTIVE"} THEN sent
    ELSE IF desired = current THEN Keep ELSE desired

\* Who becomes the default: a surviving active sibling of the default that
\* retires, or the variant restored when there is no default at all.
Promoted(v, active) ==
    LET others == OnSale(variant) \ {v} IN
    IF active THEN IF Defaults(variant) = {} THEN v ELSE Keep
    ELSE IF variant[v].default /\ others # {} THEN First(others) ELSE Keep

\* updateVariantStatus; a status the variant has already is a no-op.
BeginToggle(t, v, active) ==
    LET promoted == Promoted(v, active)
        next     == (OnSale(variant) \ {v}) \cup (IF active THEN {v} ELSE {})
        flip     == Statement("update", v, active, IF promoted = v THEN TRUE ELSE Keep, Keep)
        steps    == IF promoted = Keep THEN <<flip>>
                    ELSE IF promoted = v THEN <<Statement("clear", v, Keep, Keep, Keep), flip>>
                    ELSE <<Statement("clear", v, Keep, Keep, Keep), flip,
                           Statement("update", promoted, Keep, TRUE, Keep)>>
    IN
    /\ v \in Live(variant) /\ ~prod.deleted /\ variant[v].active # active
    /\ Begin(t, Working("toggle", steps, Resolve(Keep, prod.status, next # {}), Keep, promoted))

-----------------------------------------------------------------------------
(* buildVariantReconcilePlan: the body's list is the final state.          *)

Listed(body) == {v \in Variant : body[v] # Absent}

\* An omitted status is the stored one, or ACTIVE for a new variant.
WillBeActive(body) ==
    {v \in Listed(body) : Or(body[v].active, v \in Live(variant) => variant[v].active)}

Flagged(body) ==
    {v \in WillBeActive(body) : Or(body[v].default, v \in Live(variant) /\ variant[v].default)}

\* Mutant: a list that flags no active variant leaves none.
DefaultFlaggedOnly(body) == IF Flagged(body) # {} THEN First(Flagged(body)) ELSE Keep

\* The first flagged active entry, else the first active, else the first.
DefaultOf(body) ==
    IF Flagged(body) # {} THEN First(Flagged(body))
    ELSE IF WillBeActive(body) # {} THEN First(WillBeActive(body))
    ELSE First(Listed(body))

PlannedTotal(body) ==
    MapThenSumSet(LAMBDA v : Or(body[v].quantity, variant[v].quantity), WillBeActive(body))

Ascending(S) == CHOOSE s \in [1..Cardinality(S) -> S] :
                    \A i, j \in 1..Cardinality(S) : i < j => s[i] < s[j]

\* Removed rows, then updates in place, then new rows.
Plan(body) ==
    LET gone(v) == Statement("delete", v, Keep, Keep, Keep)
        put(v)  == Statement("update", v, body[v].active, v = DefaultOf(body),
                             body[v].quantity)
        new(v)  == Statement("create", v, v \in WillBeActive(body), v = DefaultOf(body),
                             Or(body[v].quantity, 0))
        Each(S, f(_)) == [i \in 1..Cardinality(S) |-> f(Ascending(S)[i])]
    IN  Each(Live(variant) \ Listed(body), gone)
        \o Each(Listed(body) \cap Live(variant), put)
        \o Each(Listed(body) \ Live(variant), new)

\* updateProduct with a variant list.  A new variant's id is drawn once.
BeginList(t, body) ==
    /\ Listed(body) \cap {v \in Variant : variant[v].life = "gone"} = {}
    /\ \A u \in Tx : request[u] # Idle => \A i \in 1..Len(request[u].steps) :
          request[u].steps[i].do = "create" => body[request[u].steps[i].id] = Absent
    /\ Begin(t, Working("list", Plan(body),
                        Resolve(Keep, prod.status, WillBeActive(body) # {}),
                        PlannedTotal(body), DefaultOf(body)))

\* updateProduct with a status and no list.
BeginStatus(t, status) ==
    Begin(t, Working("status", <<>>, Resolve(status, prod.status, OnSale(variant) # {}),
                     Keep, Keep))

\* softDeleteProduct
BeginRetire(t) ==
    /\ ~prod.deleted
    /\ Begin(t, Working("retire", <<>>, "ARCHIVED", Keep, Keep))

\* One line of deductStockForSale.
BeginSale(t, v) ==
    /\ v \in Live(variant)
    /\ Begin(t, Working("sell", <<Statement("sell", v, Keep, Keep, Keep)>>, Keep, Keep, Keep))

-----------------------------------------------------------------------------
(* The transaction.                                                        *)

Rows(t) == View(variant, variantDraft, variantHolder, t)

\* updateMany({ isDefault: true }): its snapshot picks the rows.
Clear(t) ==
    LET todo == request[t].steps
        unset(v) == Statement("unset", v, Keep, FALSE, Keep)
        rows == Ascending(Defaults(Rows(t)))
    IN
    /\ request[t].stage = "write" /\ todo # <<>> /\ Head(todo).do = "clear"
    /\ request' = [request EXCEPT ![t].steps =
          [i \in 1..Len(rows) |-> unset(rows[i])] \o Tail(todo)]
    /\ UNCHANGED <<AtVariants, AtProduct, alone>>

\* The row a statement leaves.
Set(row, s) ==
    CASE s.do = "delete" -> IF row.life = "live" THEN Gone ELSE row
      [] s.do = "sell"   -> [row EXCEPT !.quantity = @ - 1]
      [] OTHER -> [life |-> "live", active |-> Or(s.active, row.active),
                   default |-> Or(s.default, row.default),
                   quantity |-> Or(s.quantity, row.quantity)]

\* An UPDATE by id must find its row, a guarded decrement must find stock; a
\* row cleared of its flag since the snapshot does not match any more.
Matches(row, s) ==
    CASE s.do = "update" -> row.life = "live"
      [] s.do = "create" -> row.life = "fresh"
      [] s.do = "sell"   -> row.life = "live" /\ row.quantity >= 1
      [] OTHER -> TRUE

\* INSERT, DELETE, UPDATE OF quantity, variant_status
Triggers(s) == s.do \in {"delete", "create", "sell"} \/ s.active # Keep \/ s.quantity # Keep

Write(t) ==
    LET todo == request[t].steps
        s    == Head(todo)
        row  == variantDraft[s.id]
        rows == [Rows(t) EXCEPT ![s.id] = Set(row, s)]
    IN
    /\ request[t].stage = "write" /\ todo # <<>> /\ s.do # "clear"
    /\ Free(variantHolder, t, s.id) /\ Matches(row, s)
    /\ IF s.do \in {"unset", "delete"} /\ row.life # "live"
       THEN UNCHANGED AtVariants
       ELSE /\ variantDraft' = [variantDraft EXCEPT ![s.id] = Set(row, s)]
            /\ variantHolder' = Lock(variantHolder, t, s.id)
            /\ UNCHANGED variant
    /\ request' = IF Triggers(s)
                  THEN [request EXCEPT ![t].stage = "sync", ![t].steps = Tail(todo),
                                       ![t].sum = Total(rows)]
                  ELSE [request EXCEPT ![t].steps = Tail(todo)]
    /\ UNCHANGED <<AtProduct, alone>>

\* The trigger's UPDATE of the product, once its row is free.
Sync(t) ==
    /\ request[t].stage = "sync"
    /\ prodHolder \in {NoTx, t}
    /\ prodHolder' = t
    /\ request' = [request EXCEPT ![t].stage = "write"]
    /\ UNCHANGED <<AtVariants, prod, alone>>

Finish(t) ==
    /\ variantHolder' = Unlock(variantHolder, t)
    /\ prodHolder' = IF prodHolder = t THEN NoTx ELSE prodHolder
    /\ Ends(t)

\* The closing UPDATE of the product, and the commit.
Commit(t) ==
    LET r == request[t] IN
    /\ r.stage = "write" /\ r.steps = <<>>
    /\ prodHolder \in {NoTx, t}
    /\ prod' = [status  |-> Or(r.status, prod.status),
                total   |-> Or(r.total, Or(r.sum, prod.total)),
                price   |-> Or(r.price, prod.price),
                deleted |-> prod.deleted \/ r.op = "retire"]
    /\ variant' = Rows(t)
    /\ UNCHANGED variantDraft
    /\ Finish(t)

\* A refusal, an error, a deadlock or a lost connection.
Abort(t) ==
    /\ request[t] # Idle
    /\ variantDraft' = Discard(variant, variantDraft, variantHolder, t)
    /\ UNCHANGED <<variant, prod>>
    /\ Finish(t)

Ask(t) ==
    /\ t \notin Active
    /\ \/ \E v \in Variant, b \in BOOLEAN : BeginToggle(t, v, b)
       \/ \E body \in Bodies : BeginList(t, body)
       \/ \E status \in Statuses : BeginStatus(t, status)
       \/ BeginRetire(t)
       \/ \E v \in Variant : BeginSale(t, v)

Serve(t) ==
    /\ t \in Active
    /\ Clear(t) \/ Write(t) \/ Sync(t) \/ Commit(t) \/ Abort(t)

VariantsNext == \E t \in Tx : Ask(t) \/ Serve(t)

VariantsSpec == VariantsInit /\ [][VariantsNext]_variantVars

-----------------------------------------------------------------------------
\* A product never loses its last default: lists, toggles and promotions that
\* decided on stale rows may leave two defaults, never none ("it must still
\* carry exactly one default so reactivating a variant later has something to
\* show").
AlwaysADefault == Live(variant) # {} => Defaults(variant) # {}

StockExact    == prod.total = Total(variant)
StatusFollows == prod.status \in {"ACTIVE", "INACTIVE"} =>
                    (prod.status = "ACTIVE" <=> OnSale(variant) # {})
DefaultClear  ==
    /\ Cardinality(Defaults(variant)) = 1
    /\ OnSale(variant) # {} => Defaults(variant) \cap OnSale(variant) # {}
    /\ prod.price \in Defaults(variant)

\* Overlapping requests may leave a sum of stock that is no longer true, a
\* product ACTIVE with nothing on sale, two defaults; the next request that
\* runs alone heals what it touches: the total if it moves a variant, the
\* status unless it sells, and a list also the default - one, an active one if
\* there is any, with its price on the product, whatever flags it found.
LoneRequestHeals == [][\A t \in Tx : alone[t] /\ Commit(t) =>
    LET op == request[t].op IN
    /\ StockExact \/ op \in {"toggle", "list", "sell"} => StockExact'
    /\ StatusFollows \/ op \in {"toggle", "list", "status"} => StatusFollows'
    /\ op = "list" => DefaultClear']_variantVars
=============================================================================
