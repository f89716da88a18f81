# Verification of the shop server

TLA+ models, TLC configurations and TLAPS proofs for this NestJS / Prisma /
PostgreSQL shop: placing and cancelling orders, stock and its batches, promo
codes, combo offers, the category tree, products with their variants, images and
prices, home-page slides and the audit trail, addresses, accounts and one-time
codes, uploaded files, couriers. Paths are relative to the repository.

## 1. The system

Every service runs over one PostgreSQL database. The unit of atomicity is
`BaseRepository.withTransaction` (`src/prisma/base.repository.ts`): an
interactive transaction under READ COMMITTED with Prisma's five-second timeout.
Nothing in the process is shared between requests, so *all* concurrency is
between statements of transactions (and of requests that use no transaction at
all) on database rows, on the pool of connections, and on files of the disk.
There are no queues and no workers; one cron job (the hourly combo sweep) and a
set of PostgreSQL triggers run beside the requests.

| Component | State | Operations | Talks to | What is hard |
|---|---|---|---|---|
| order | `orders`, `order_items`, `order_combo_items`, `payments`, `order_status_history` | `placeOrder`, `updateStatus`, `updatePaymentStatus`, `validateCart` | inventory, promotion, combo, address in its own transaction | a dozen writes that must stand or fall together; two admins on one order; cents |
| inventory | `products.quantity`, `product_variants.quantity`, `inventory` (movements), `inventory_batches` | `deductStockForSale`, `restoreStockForOrder`, `addStock`, `removeStock` | order; triggers on stock | no oversell; stock and ledger agree; restores run once |
| promotion | `promo_codes`, `promo_code_redemptions` | `validateAndReserveForOrder`, `recordRedemption`, `updatePromoCode`, preview | order | counter, ledger and limits under concurrent checkouts and edits |
| combo-product | `combo_products`, `combo_items`, item variants, images | create, `updateComboProduct`, delete, `adjustSoldQuantity`, sweep | triggers fired by stock UPDATEs | a derived column written from a snapshot that may be old; checks made before the transaction |
| product | `products`, `product_variants`, images | CRUD, variant lists, status toggles | combo, inventory, category counts | derived stock, status, price and default under overlapping edits |
| category | `categories` with a tree and `product_count` | create, move, delete | cycle trigger with an advisory lock, count triggers | no cycle; counts; lock order |
| home | slides with an order per type | create, move, delete | audit extension | a dense order by row-by-row shifts |
| address | rows of one customer | create, update, set default, delete | order | "exactly one default" by find-then-write |
| user, otp, auth | users, security rows, one-time codes | register, verify, reset, social sign-in, deactivate | mail | double use, stale approval, halves of two statements |
| audit-log | `audit_logs` through a Prisma extension | a row per write | every repository | rows on another connection outlive rollbacks; pool exhaustion |
| blog, delivery-man, storage | rows with uploaded files | CRUD | disk | the disk is in no transaction |
| delivery | companies and zones | find-or-attach, edit, delete | - | one company in two spellings |
| support, mail, health, config, common | content, I/O, plumbing | single statements | - | nothing beyond one statement |

`PROJECT.json` lists each component with its status, and each hazard at its line.

### What correct means, per component

* **order** - an order exists with all of its consequences or with none;
  placing and cancelling take effect at one instant; the order row and its
  charge agree on the payment; only a request that read an order before it ended
  may move it again; the bill adds up to the cent; stock and bundles come back
  exactly once.
* **inventory** - no version of a stock row is negative; stock is what the
  movements say; a cancellation returns whole lines; FIFO removal takes the
  oldest units and exactly what was asked.
* **promotion** - `used_count` is the number of redemptions; no code passes its
  limit; a customer passes theirs only by overlapping checkouts, and by a
  bounded number; a failed checkout gives its use back.
* **combo-product** - `available_quantity` is what the parts can assemble; sold
  bundles are those of the orders that stand; an ended offer is retired in the
  end; a live combo bundles no retired variant.
* **product** - a product keeps a default variant; stock, status, price and
  image order follow from the rows after every request that ran alone.
* **category** - the tree has no cycle; nothing is filed under a deleted
  category; counts that races left wrong heal; product writes do not deadlock.
* **home, audit-log** - slides keep a dense order; the trail misses no slide;
  requests that starve each other of connections end.
* **address, otp, user** - one default, lost only by hand; a code is spent
  together with its effect; accounts are whole.
* **storage** - a row that is shown has its file.
* **delivery** - one company per name, whatever its case.

### How components interact

`placeOrder` opens one transaction and hands its client to every service it
calls: `resolveCartLine` (product, variant or combo lookups),
`validateAndReserveForOrder`, `createOrderShell`, `recordRedemption`, the items,
`deductStockForSale`, `adjustSoldQuantity`, history and payment. `updateStatus`
does the reverse for CANCELLED and FAILED: `restoreStockForOrder` and a negative
`adjustSoldQuantity`. Each UPDATE of `products.quantity` or
`product_variants.quantity` fires triggers that rewrite `available_quantity` of
every combo built from that row and the product's `total_stock`, so a checkout
of a plain product writes rows it never names; writes of products and moves of
categories recount whole chains of ancestors. Admin requests
(`updatePromoCode`, `updateComboProduct`, `updateProduct`, `addStock`,
`removeStock`) touch the same rows; most of them decide on what they read before
their transaction opens.

## 2. How the models see the program

`RowLocks` is the one abstraction everything rests on. A table is three
functions over its rows: the committed version, the newest version (draft) and
the transaction that locked the row. Reads without a lock see the reader's own
drafts and everybody else's commits at the moment of the statement (`View`);
a write waits until the row is `Free` and is applied to the newest version, as
PostgreSQL re-evaluates an UPDATE's WHERE under READ COMMITTED; a commit
publishes, a rollback discards. A transaction may be rolled back between any
two statements, which stands for a refused line, an error, a deadlock victim, a
lost connection and Prisma's timeout alike. This is the external half of the
map; what a service reads, decides and writes comes from its source.

One TLA+ action is one SQL statement that another transaction can observe or
block on, together with the code around it up to the next such statement.
Statements on rows no other transaction can see (an inserted order, its items)
are merged with the commit that publishes them.

`Requests` is the second: a request is a record with a `stage`, the statement it
awaits next, and a history variable `alone[t]` that says nothing has overlapped
it. Most admin handlers promise something one caller at a time; properties named
`Lone...` state that promise for a request nobody overlaps *whatever races left
behind before it*, which no sequential test sets up.

| Module | Models | State |
|---|---|---|
| `RowLocks`, `Requests`, `OrderIds` | rows under READ COMMITTED; requests and overlap; order ids from a sequence | operators; `request`, `alone` |
| `StockRows` | `deductStockForSale`, `restoreStockForOrder`, `restoreStockForSale`, the SALE/RETURN movements | `quantity/draft/rowHolder` the stock columns, `ledger` the committed movements by order, `wrote` a transaction's own, `todo` and `job` its loop |
| `StockBatches` | `addStock` (merge, batch, cost average, movement), `removeStock` (validation, named batch, FIFO, draws), beside sales | `stock*` rows with quantity and cost basis, `batch*` rows, `ledger` by what a movement names, `desk[t]` a request and its position |
| `PromoCodes` | `validateAndReserveForOrder`, `recordRedemption`, `updatePromoCode` | `promo*` rows, `redemptions`, `claim[t]` how far a checkout is, `edit[a]` what an admin read |
| `ComboOffers` | combo rows, the availability and exhaustion triggers, `adjustSoldQuantity`, the sweep's UPDATE | `combo*` rows, `due[t]` what the trigger a statement fired has still to write, `ended` |
| `ComboDesk` | orders of bundles and parts beside `updateComboProduct` and the cron sweep | `bundle[t]`, `desk[a]` |
| `OrderBook` | `updateStatus`, `updatePaymentStatus` over orders, charges, history | `book*`, `charge*` rows, `history`, `request[t]` |
| `Checkout` | `placeOrder` and the two admin endpoints with the tables above in one transaction | all of the above, plus `pc`, `cart`, `lines`, `counts`, `items` |
| `AtomicShop` | what checkout promises, with no transactions in it | shelf, orders, uses, sold bundles |
| `OrderTotals` | `buildOrderItems`, `computeDiscount`, `allocateDiscountAcrossItems` as one loop over bounded carts, in cents | `lines`, `subtotal`, `discount`, `allocated`, `shared`, `total` |
| `CategoryTree` | create, move, delete of categories, writes of products, the cycle trigger under its advisory lock, the count trigger and its ordered locks, foreign keys | `category`, `product`, `categoryHolder`, what a transaction wrote in its request |
| `Variants` | `updateVariantStatus`, `updateProduct`'s variant reconciliation, the sale of a variant, delete, the `total_stock` trigger | `variant*` rows, `prod`, `prodHolder` |
| `Gallery` | image rows of a product or a combo, places, the cover with its partial unique index, files, clean-up | `images*`, `files`, `saved`, `mistaken` |
| `PriceTag` | `resolvePricingUpdate`, the rounding of the DECIMAL columns, the CHECK constraints | `tag` |
| `Bundling` | item lists and statuses of combos against variant statuses, the three checks between them | `active*` variants, `bundle*` combos |
| `HomeSlides` | create, move, delete of slides, read by read and shift by shift; the audit extension with its second connection; the pool | `slide*` rows, `audit`, connections in `request[t]` |
| `AddressBook` | create, update, set default, delete | `book*` rows |
| `Accounts` | registration, verification, resend, password reset and change, social sign-in, deactivation; issue, cooldown, matching and burning of codes | `account*`, `code*` rows, `age`, `broken` |
| `Uploads` | save, write, unlink and clean-up in the two orders in use | `image`, `disk`, `drawn`, `doubted` |
| `Couriers` | find-or-attach, rename, edit, delete; the two unique indexes | `company*` rows, `zone` |
| `Desks` | the nine small components above (`AddressBook` to `OrderTotals`) as INSTANCEs with request tables of their own, the assumptions on their constants | theirs |
| `OrderProofs` | theorems about `StockRows`, `PromoCodes`, `OrderBook`, then about their composition in `Checkout` and its refinement | - |
| `StockBatchesProofs`, `ComboDeskProofs`, `CategoryTreeProofs`, `HomeSlidesProofs` | theorems about the module each is named for | - |
| `DesksProofs` | the lemmas on overlap that the small components share; theorems about addresses, uploads, bundling, couriers and accounts, one section each | - |
| `ProductDesksProofs` | the same for what a product shows and costs: galleries, price tags, bills, variants | - |
| `SumTheorems` | lemmas on the community modules' `SumFunctionOnSet` over finite sets, least elements | - |

`Checkout` composes the component modules by conjoining their actions
(`CommitOrder` is `StockCommit /\ ComboCommit /\ PromoCommit /\ AddOrder`), so a
change in a component changes the composition. `ComboDesk` composes
`ComboOffers` with the edits and the sweep. `Desks` holds the small components
side by side, and in `MCDesks` a behaviour is of one of them, so their state
spaces add up instead of multiplying. They share no row (`Bundling`,
`Gallery`, `PriceTag` and `Variants` see different columns of products and
combos, and every handler that would touch two of them does so in one
transaction whose other half is a reason to roll back). `Mutant:` definitions
stand next to the definition they vary; each is a plausible bug, and each
property is broken by one of them.

### Data that is abstracted

* A cart is three things in `Checkout`: units of rows, bundles of combos, a
  code. What it costs is `OrderTotals`. Address snapshots, names and invoices
  are in neither.
* Money is in cents. The program rounds binary floating point
  (`Math.round(x * 100) / 100`): exact half cents may fall on either side
  (`Rounded`, nondeterministic), everything else goes to the nearest.
* A price or a discount in a body may have any number of decimals (the request
  classes say `@IsNumber({})`), its column has two. `PriceTag` has bodies in
  units `Fine` times smaller than a hundredth and rows in hundredths, and rounds
  where the database does: after the sale price was derived.
* The cost average is the *set of batches* that weigh in a row's `costPrice`
  (`Blended`): an empty row's cost has no weight, any other read keeps what it
  read and adds the new batch.
* Batch numbers stand for `createdAt`, by which `findBatchesForProduct` sorts:
  both grow with each insert. Product/variant pairing checks of `addStock` and
  `removeStock` only refuse requests; the item lists in the configurations are
  ones they accept.
* A promo code's window and minimum only add reasons to refuse, and a
  transaction may fail at any point anyway. The same goes for category status,
  delivery days, SKUs and slugs of products.
* `Settled = -1` in `due` means that a trigger has nothing left to write.
* Names of couriers are records of what the indexes and the look-up tell apart:
  the text, the text with its case folded, and the slug.

## 3. What is checked

Each run is a `.cfg`; `MC*` modules hold its values. Passing runs:

| Run | Actors and bounds | Properties | What it shows |
|---|---|---|---|
| `MCStockRows` | 3 transactions, 2 orders, rows with 2 and 1 units, demands `1+1` and `2+0`; 1,795 states | `NonNegative`, `ReturnsAreWhole`, `StockMovesWithLedger` | orders that want the last unit, a cancellation beside them and a second cancellation: never negative, lines come back whole, stock and ledger move in one commit |
| `MCStockBatches` | 2 transactions, 2 rows, 3 batches; item lists that merge, blend, split over rows, name batches, go oldest first; 423 thousand states | `StockIsLedger`, `ShortfallExplained`, `OldestFirst`, `IntakesWeigh` | racing removals never empty a batch below zero nor take from it what no movement names; the quantity that batches and sales share is the ledger's; one intake's second delivery averages over its first |
| `MCPromoCodes` | 3 checkouts, 2 accounts and an anonymous guest, 4 order ids, 3 uses, 1 per account, 1 admin; 36 thousand states | `UsedIsRedeemed`, `WithinLimit`, `OverlapsAloneOverrun` | counter = ledger, the limit holds, rollbacks give the use back, an edit loses none; n checkouts at a time pass a customer's limit by n - 1 at most |
| `MCComboDesk` | 2 transactions, 1 combo of one part, cap 2, 1 admin, a window that closes; 50 thousand states | `AvailabilityExact`, `ExpiredIsRetired` | exact at rest, retired after its window |
| `MCOrderBook` | 2 admin requests, 1 order, every status, payment edits PAID and CANCELLED; 2.1 million states | `ChargeMirrorsOrder`, `OnlyOldReadersRevive` | the two handlers write two rows in opposite orders and still agree; an ended order moves, and a collected payment is voided, only by a request that read the order before |
| `MCCheckout` | 2 shoppers, 1 clerk, 3 order ids, 2 products, the combo of both, a code with one use; 305 thousand states | `OrderComplete`, `SoldMatchesOrders`, `AtomicShopSpec` | no partial order; placement and cancellation refine the atomic shop |
| `MCCategoryTree` | 2 requests at a time, 5 in all; a root and a child, an id to create, 2 products; 417 thousand states | `TreeStaysAcyclic`, `NothingStranded`, `WaitCirclesHoldAMove`, `CountHeals` | moves that are each acyclic cannot close a loop together; nothing is filed under a deleted category; product writes alone never wait in a circle; counts left wrong are right after a lone recount |
| `MCHomeSlides` | 2 requests at a time, 3 in all, 2 slides, pool of 2; 163 thousand states | `LivesAreLogged`, `LoneKeepsOrder`, `LoneMoveIsLogged`, `EveryRequestEnds` | the trail says too much, never too little; a lone request keeps positions distinct and dense; two transactions that each hold a connection and wait for a second end |
| `MCDesks` | the nine small components of `Desks`, each by itself, 2 requests at a time, 2 to 4 in all; 714 thousand states | per component below | |

`MCDesks`, by component: `AddressBook` `LoneDefaultIsOnly` (the address a lone
request makes the default is the only one, even after races left two),
`LastDefaultGoesByHand` (no race of edits loses the last default); `Accounts`
`AccountsAreWhole`, `SpentWithItsEffect`, `ReactivationIsOld` (only what was read
before a deactivation undoes it); `Uploads` `LateNeverDangles`,
`LoneLeavesNoOrphan`; `Gallery` `ShownIsStored`, `LoneEditArranges`; `Variants`
`AlwaysADefault`, `LoneRequestHeals`; `OrderTotals` `BillAddsUp` (with the exact
bound on what rounding can do to the last line); `PriceTag` `LoneEditReprices`
(the stored row gives the stored sale price again: exactly after an edit in
hundredths, within the rounding of three columns after a finer one);
`Bundling` `LoneRequestKeepsBundles`; `Couriers` `NamesApart` (the index on the
slug, not the look-up and not the index on the name, keeps a company from being
entered twice).

The type invariants `StockTypeOK`, `PromoTypeOK`, `BookTypeOK` and
`AddressTypeOK` are proved (section 5), not run; those of the other modules were
checked while they were written and are parts of the inductive invariants there.

### Bounds, and why they are enough

* *Transactions*: every property relates one row to one or two writers, so two
  of them give each pairwise race; `MCStockRows` has three so that a sale, a
  return and a competitor coexist, `MCPromoCodes` so that overlaps can add up.
* *Requests in all* (`MaxRequests`, `...Requests`): a healing property needs two
  that overlap and one alone after them; each bound is at least three, but for
  `Gallery` (two, and it starts with and without the gap a deletion leaves).
* *Order ids*: orders outnumber the limits (four ids, three uses; three ids, one
  use), so a refusal after the last use happens. An id whose transaction rolled
  back may be used again; nothing of it is left, so it is as good as fresh.
* *Stock* is one or two units more than the smallest demand: the last unit is
  fought over, and a refusal after a partial deduction happens.
* `MaxBatch = 3`: two batches of a row (the FIFO loop spills) and one more.
* `Cat = {1, 2, 3}`: the shortest loop two acyclic moves can close has two
  categories; a third gives a chain of ancestors to lock and an id to create.
* `Pool = 2`: two transactions exhaust it. A larger pool needs as many
  transactions for the same standstill.
* `MaxHistory = 7` in `MCOrderBook`: DELIVERED is the seventh history row of an
  undisturbed order. RETURNED from OUT_FOR_DELIVERY is reached, REFUNDED and
  RETURNED from DELIVERED are mostly beyond the bound.
* `MaxBundles` is what one order asks for; two equals the offer's cap.
* `MaxLines = 4` with unit prices 1, 5 and 34 cents and codes that take a cent,
  nearly nothing, a third, a capped half, and more than everything: three
  roundings in one direction before a last line smaller than their sum.
* `Fine = 10` with base prices 3.005 and 15, discounts 1.004, 10, 33.333 and
  just over 100: bodies that the columns round up and down and bodies they leave,
  a percentage and an amount of each, one discount that is refused.
* A window that closed does not reopen (`endsAt` is not among the edits), and a
  combo's parts are fixed in `ComboDesk`.
* `StatusEdits`, `PayEdits`, `Bodies`, `Lists`, `Spelling` are the inputs of the
  endpoints.
* Symmetry is used where all properties are invariants or action properties
  that treat the permuted values alike; not in `MCComboDesk` and `MCHomeSlides`,
  which check liveness.
* `CHECK_DEADLOCK FALSE` where the shop may simply run out of orders, stock,
  requests or history rows. `MCStockRows` and `MCStockBatches` keep deadlock
  checking: a request may always be made, and may always fail.

### Restrictions of the passing runs

A property that fails under a race is checked where its assumption holds, and
the race is a run of section 4 or part of the property itself:

* `MCPromoCodes` has edits that leave the limits alone.
* `MCComboDesk` has a combo with one part (`SecondPart = 0`), so all writers of
  its stock queue on one row.
* `MCCheckout` has one clerk, so one cancellation of an order at a time.
* `Lone...` properties say nothing about a request that was overlapped.

### Fairness

Two specifications are fair. `FairDeskSpec`: weak fairness of `Ends(t)`, a
transaction that could commit or fail does one of them, because the request
completes or Prisma's timeout ends it; weak fairness of an admin request's end,
the same; *strong* fairness of `Sweep(c)`, because the cron job runs every hour
for ever and waits for a row lock, and locks are released again and again (weak
fairness would not do, since another writer may hold the row at intervals).
`SlidesSpec`: weak fairness of `Step(t)`, the next statement of a request or its
timeout; Prisma gives up waiting for a connection after two seconds and ends a
transaction after five. Without the timeout, requests that hold the whole pool
wait for ever, which is the mutant of `EveryRequestEnds`. Nothing forces
customers or admins to act.

## 4. Where code and documents part

Runs that TLC must refute, each with one property taken from a comment or a
document and a trace from the model of the code:

| Run | Property | What happens |
|---|---|---|
| `MCComboStale` | `AvailabilityExact` | with two parts, two orders move one part each; the second trigger computed its value before the first committed and overwrites it (migration `20260819160000`) |
| `MCComboCap` | `CapKept` | two orders resolve the last offered bundle before either counts it; `adjustSoldQuantity` has no guard |
| `MCCancelTwice` | `RestoredOnce` | two cancellations both find no RETURN row and both give the stock back |

Further disagreements that the models make visible. Overlapping requests may:

* redeem a code once more than `usageLimitPerUser` each (`OverlapsAloneOverrun`
  says how often); `updatePromoCode` compares a new limit with the counter it
  read, so it may end up below what is redeemed;
* take an order out of a terminal status, by a request that read it before
  (`OnlyOldReadersRevive`);
* draw one batch for two removals, which write back `remaining` from what each
  read: two draws in the ledger, one in the batch (`ShortfallExplained` is
  one-sided because of it), and average two intakes of one row over the same old
  cost, so that one delivery does not weigh (`inventory.repository.ts:299`);
* give two slides, or two product images, one position; leave the union of two
  item lists in a combo; put a retired variant in a live combo; leave a sale
  price that does not follow from the row, a product count or total stock that is
  off until the next recount, and two default addresses or variants;
* leave a courier's zone with more minimum than maximum days: the edit compares
  its side with a row read before its transaction (`delivery.service.ts:114`);
  two first submissions of one company refuse the second, which the comment at
  line 17 would attach.

And without any overlap:

* `updateComboProduct`'s comment (lines 286-289) calls setting the cap to
  exactly what was sold the way to close an offer early, but the body is refused
  while the resulting status is ACTIVE (`assertOfferNotExhausted`, part of
  `OfferAllowed`); `combo-product.prisma:60` lists RETURNED among the statuses
  that decrement `sold_quantity`, while `STOCK_RESTORING_STATUSES` holds
  CANCELLED and FAILED only (`StockRestoring`).
* `addStock`'s comment says that an intake *overwrites* the cost price;
  `incrementProductQuantity`, which it cites, averages it (`Blended`).
* The last line's share of a discount takes all the roundings before it: it may
  be negative, or larger than its line (`order.service.ts:949-950`;
  `order.prisma:161` calls per-item refunds accurate).
* Retiring every variant and then restoring one that is not the default leaves
  the default INACTIVE with something on sale, until the next variant list
  (`product.service.ts:1562-1567`).
* A product's new images are placed at the number of images
  (`product.service.ts:1009`), which collides after a deletion; a slide created
  past the end leaves a gap.
* A signup code issued before a deactivation, or resent to an account read
  before it, activates the account again (`ReactivationIsOld`).
* `createDeliveryMan`'s clean-up covers the read-back after the commit and then
  deletes the files of a row that stands (`doubted` in `Uploads`).
* `requestPasswordReset` mails a code to a managed account, which has no password
  and which `resetPassword` therefore refuses: the dead end its comment rules out
  for Google accounts (`MayProceed` in `Accounts`).
* A root may hold products after a promotion to root, and levels below a moved
  category are not rewritten.
* `updatePromoCode` does not repeat the check of `createPromoCode` that a
  percentage stays within 100; `computeDiscount` caps it at the cart.
* `resolveSalePrice` works on the numbers of the body, and the columns round
  them afterwards: a base price of 1000 with 33.333 % is stored as 33.33 % and a
  sale price of 666.67, where the stored row gives 666.70. `Near` in `PriceTag`
  bounds the difference; the comment that `salePrice` is derived from the base
  price and the discount is exact for bodies in hundredths only.
* `generateSlug` drops every character that is not a Latin letter, digit or
  underscore, so a company with a Thai name has the slug `""` and the second one
  is refused as a duplicate.

## 5. What is proved

Theorems hold for every value of the constants: any number of rows, orders,
transactions, codes, customers, categories, images, batches and admins, under the
named assumptions of the modules (`NoTxAssumption` and the like: sentinels differ
from values, opening stock and demands are natural numbers, limits are natural or
absent, the first tree is a tree). Of the 40 properties the passing runs check, 36
are proved; section "Only model-checked" has the other four. Some assumptions say
more than that a constant has its type:

* `CartStockAssumption` (every cart takes at least one unit) is what the request
  classes demand: an order has a line (`create-order.dto.ts:260`), a line at
  least one unit (`:194`), a combo at least one item
  (`create-combo-product.dto.ts:336`, `update-combo-product.dto.ts:261`).
* `CouriersAssumption`: names that differ by case only have one slug, as
  `generateSlug` folds case first.
* `TagAssumption`: prices and discounts are not negative (the request classes
  have `@Min(0)`).
* `AccountsAssumption`: the code numbered 1, which the first account was sent,
  is among the codes.
* `ShelfAssumption`, `ProductAssumption`: lists in a body, and the products of a
  shop, are finite.

| Theorem | Property | Rests on |
|---|---|---|
| `StockTypeCorrect`, `PromoTypeCorrect`, `BookTypeCorrect`, `AddressTypeCorrect`, `BatchesAreTyped` | the types | themselves inductive (`ShapeInv` for the book) |
| `StockNeverNegative` | `NonNegative` | the guard tests the version it decrements; a return only adds |
| `StockFollowsLedger` | `StockMovesWithLedger` | `LedgerInv` |
| `ReturnsAreWholeAlways` | `ReturnsAreWhole` | a sum over finitely many transactions |
| `CounterFollowsLedger`, `ReservationIsOneUse` | `UsedIsRedeemed`, `OneUseAhead` | `CounterInv` |
| `LimitKept` | `WithinLimit` | `LimitInv`; no edit changes `usageLimit` |
| `OverrunsAreOverlaps` | `OverlapsAloneOverrun` | whoever counted a customer below the limit is open; no edit changes the customer's limit, finitely many transactions |
| `ChargeAlwaysMirrors` | `ChargeMirrorsOrder` | `MirrorInv` |
| `OldReadersAlone` | `OnlyOldReadersRevive` | `StatusInv` over `MirrorInv` |
| `CheckoutIsComposed` | the parts' specifications | `CheckoutInv` |
| `OrdersAreComplete` | `OrderComplete` | `CheckoutInv` |
| `ReturnsAreExact` | `RestoredOnce` | `ReturnInv`; one clerk |
| `SoldIsClaimed` | `SoldMatchesOrders` | `SoldInv`; one clerk, finitely many orders |
| `CheckoutIsAtomic` | `AtomicShopSpec` (the refinement) | all of these, `LimitInv`; one clerk, finitely many orders |
| `BatchesAreOwned`, `BooksBalance`, `StockIsLedgerAlways` | `StockIsLedger` | `BatchInv`, `Books` |
| `ShortfallExplainedAlways` | `ShortfallExplained` | `Shortfalls` |
| `OldestFirstAlways` | `OldestFirst` | what one round of the FIFO loop keeps |
| `IntakesWeighAlways` | `IntakesWeigh` | `Weighing` |
| `OnePartIsExact`, `AvailabilityStaysExact` | `AvailabilityExact` | `OfferInv`; combos of one part, no edit of an item list |
| `TreeAlwaysAcyclic` | `TreeStaysAcyclic` | `TreeInv` |
| `NothingIsStranded` | `NothingStranded` | `FilingInv` over `TreeInv` |
| `AscentsMeetNoCircle` | `WaitCirclesHoldAMove` | `LockInv`; finitely many requests are open |
| `CountsAlwaysHeal` | `CountHeals` | `CountInv` over `FilingInv` |
| `TrailIsComplete`, `LoneMovesAreLogged` | `LivesAreLogged`, `LoneMoveIsLogged` | `TrailInv`, `LoneInv` |
| `DefaultStands`, `LoneDefaultStands` | `LastDefaultGoesByHand`, `LoneDefaultIsOnly` | `BookInv`, `LoneInv` of the address book |
| `LateAlwaysThere`, `LoneUploadsLeaveNothing` | `LateNeverDangles`, `LoneLeavesNoOrphan` | `UploadsInv`, `UploadLoneInv` |
| `LoneKeepsBundles` | `LoneRequestKeepsBundles` | the lone requests' invariant of `Bundling` |
| `NamesStayApart` | `NamesApart` | slugs apart over committed rows and drafts |
| `AccountsStayWhole`, `CodesAreSpentWithEffect`, `ReactivationsAreOld` | `AccountsAreWhole`, `SpentWithItsEffect`, `ReactivationIsOld` | `AccountsInv` |
| `ImagesAreStored`, `LoneEditsArrange` | `ShownIsStored`, `LoneEditArranges` | `GalleryInv`, `GalleryLoneInv` |
| `DefaultAlwaysThere` | `AlwaysADefault` | `ShelfInv` |
| `LoneEditsReprice` | `LoneEditReprices` | what a lone edit knows of the row it will write |
| `BillAlwaysAddsUp` | `BillAddsUp` | `BillInv` |

### Checkout and its parts

*Stock and ledger.* That a commit moves both alike is not inductive: it depends
on what the transaction has pending. `LedgerInv` adds that a draft differs from
its committed row by exactly the holder's own ledger rows (`PendingIsWritten`)
and that a transaction has ledger rows only for rows it holds (`WroteIsHeld`).

*Counter and redemptions.* `CounterInv` says that the holder of a code's row is
the one transaction that reserved a use and has not ended (`LocksAreClaims`),
that open claims carry order ids no redemption and no other claim has
(`OrdersAreFresh`; else the new redemption might already be in the set and the
count not grow), and that a held row is one use ahead. The commit then raises
counter and ledger together. `LimitKept` needs its assumption:
`updatePromoCode` compares a new limit with the counter it read, and a checkout
that commits between that read and the UPDATE leaves the code over its new
limit. `OverrunsAreOverlaps` counts open claims: each found the customer below
the limit before it reserved, so redemptions and open claims together pass it
by fewer than there are transactions.

*Order and charge.* `MirrorInv` derives what a request has locked from how far
it is (`OrderLocks`, `ChargeLocks`) and what its drafts say (`OrderDrafts`,
`ChargeDrafts`). A committing request then holds both rows with the same
payment, or the order row alone with the payment unmoved. The case that needs
care is a request whose read is stale: it may hold the charge with a payment
computed from an old row, but then it also writes the order's payment from the
same read (`Settles` is decided once). `StatusInv` adds the status: a draft has
the status its request asked for or, of a payment edit, the committed one
(`StatusDrafts`), and what a status request asks for was allowed when it read
(`AllowedWhenRead`). So whoever moves a terminal order read it before.

*The composition.* `CheckoutInv` ties the parts together: per shopper, how far
its code is follows from its statement (`ClaimFits`), what it has taken and what
it has still to take are its cart (`SaleFits`), its order's id is its own
(`IdIsOwn`); a clerk redeems and sells nothing (`ClerkFits`). From it, each step
of the whole is a step or a stutter of each part (`CheckoutIsComposed`), so every
theorem about a part is one about the checkout, and the parts' invariants need
no second proof.

*The refinement.* The atomic shop moves at two of checkout's steps: the commit of
an order is its `PlaceAtOnce`, the commit of a cancellation its `Undo`; everything
else stutters, because the shop sees committed rows and finished orders alone.
At the first, `LimitInv` (with the code terms kept, `TermsKept`) gives the use
the shop requires, and the ledger gives the units. The second is where one
clerk is needed: `ReturnInv` says that a status request still sees the order as
it read it and that what is back and what is still to come back are what the
order took. With two status requests at a time that is false (`MCCancelTwice`).
`SoldInv` says that the newest version of a combo's counter is ahead of the
committed one by what its holder has moved, and that nobody else has moved
anything. Orders are finitely many because the bundles they claim are summed.

*Bundles on offer.* `OfferInv`: who holds the part owes the combo's row the value
of its own version of the part, or holds that row with it (`MoverSettles`), and
nobody else touches the column (`OthersKeep`). Both hypotheses are needed: two
parts are `MCComboStale`, and an edit of the item list writes a ceiling it read
before its transaction.

### The back office

*Whose a batch is* (`BatchInv`). A batch is a draft of its intake until it
commits, and keeps its row (`Numbered`); a request has booked movements only for
batches it holds (`OwnMoves`); a batch is as large as its delivery's movement
(`Sized`), but for the intake that has just created it and not yet written that
movement (`Arrivals`).

*Short batches.* `Shortfalls` has, beside the committed rows, the drafts with
their holder's own draws and the draws a removal is about to write from what it
read: the last is at least as large as what is committed explains, since a batch
read earlier had only more left.

*Double entry.* `Books`: a row's stock is its opening balance with the movements
on its batches and its sales, and what a transaction has changed in a row is what
it has booked plus what it has drawn and not yet taken off (`Pending`). A commit
moves both sides alike.

*Oldest first.* After each round of the loop the draws are the oldest batches', all
but the last empty, and add up with what is left to what was asked
(`AfterRound`). There is no induction to cite, so the first round that breaks it
is refuted (`LeastNumber`). It holds for every row and every number of units.

*Averages.* `Weighing`: what an open intake has brought weighs in the draft of the
row it holds, and what it read of the row before a further delivery is that
draft.

### The tree

*No cycle.* `TreeInv` is the acyclicity itself, the shape of the rows, that an id
no insert has published is nobody's parent (`FreshUnused`), and that a move past
its walk holds the advisory lock and found no ancestor of the new parent below
itself (`WalkedMoves`). That only one move at a time is past its walk is the
whole point of the lock: the committed tree it walked is the one it changes.

*Nothing stranded.* The committed rows alone do not show it: `FilingInv` adds the
transactions that have written and not committed. Whatever one of them files
under a category (a moved child, a product) points at a live row no other
transaction is deleting, and nothing refers to a row that is being deleted; the
two checks exclude each other through the key lock, whichever came first.

*No circle of product writes.* `LockInv` says that a request which neither moves
nor removes a category holds only rows below every row it still has to lock.
Along a circle of waits the awaited rows would then climb for ever, and of
finitely many one is the highest (`HighestRank`, from the well-foundedness of
strict inclusion).

*Counts.* `CountInv` says that a lone request's recount holds the tallies of the
tree and the products its commit leaves, and that deleted categories count
nothing. It recounts the categories above the old and the new place alone, so the
rest of the proof is that no other tally moves: a category above neither has the
same categories below it before and after (`OnlySeedsFeelIt`). "Below" is
membership in every closed set, so no path and no acyclicity is involved.

### Slides and their trail

`TrailInv`: what a transaction did to a slide is in the trail, or is the one thing
it records next, before it can commit (`StillToLog`); that the record is made on
another connection and outlives a rollback makes the trail say too much, never
too little. `LoneInv` says that whoever holds a slide is in a transaction, so the
slide of a lone move stays where the extension saw it through the two reads, the
shift and the statement itself, none of which touches its own row before that
statement.

### The small components

The lemmas on overlap (a lone request is the only one being served, and stays so
through its own steps) head the module; the `Lone...` theorems rest on them.

*Addresses.* `BookInv` says that drafts are held by requests being served, that
a request that clears defaults makes another row the default before it ends, and
that whoever has not written anything has changed no default. The last default
then goes only in a delete or an explicit unset. `LoneInv` adds what a request
that nobody overlaps sees: the newest rows are the committed ones but for its
own, so the defaults it has still to clear are all there are.

*Files.* `UploadsInv`, for a service that deletes late: a file a request still
means to write is shown by no row (`WaitsUnknown`), a file it is about to delete
is not the one shown (`DoomedIsUnshown`), and the one shown is stored or its
request was told it failed. `UploadLoneInv` follows the disk of a request alone:
besides the orphans it found there are at most the file it read in the row and
the one it saved, and which of them it has still to deal with follows from its
stage and the order of its service.

*Bundles in edits.* The invariant follows one request that nobody overlaps: what
it checked still stands when it commits, and the rows that moved are its own.

*Couriers.* Two look-ups that overlap both find nothing. What separates names is
the index on the slug, over committed rows and drafts alike; that is the
invariant, and the look-up is not used.

*Accounts.* `AccountsInv` says, stage by stage, what an open request holds:
nothing before its first write, then the rows it created or the code it spent.
`ErasFit` orders what was issued by the deactivation: every signup code and every
social activation under way dates from before the first one.

*Images.* An uploaded file's id is fresh until its commit, a row appears only as
the upload of the transaction about to commit, and a deleted row is held dead
until then and never comes back. So the clean-up of a failed edit can only meet
files no committed row names, and files go after their rows.

An edit nobody overlaps reads and writes the newest rows (`LoneEditSeesNewest`).
`GalleryLoneInv` says, statement by statement, what they are: the committed ones,
then those without the deleted, then those in the places of the plan, and that
what the edit decided about cover and place still holds of them. A plan lists
every image that remains once, so its places are 0, 1, 2... (`PlacesAreDense`).
That `Shown` is finite is part of the invariant: it is what gives a combo's next
place a greatest one to follow.

*Variants.* `ShelfInv` gives every open request a promise: what it has still to
write leaves a default, given what the others promise. The variant list writes
its rows in the order of their ids; which one is due first is found by refuting
the least counterexample, which is why lists are finite.

*Prices.* A request alone writes a sale price computed from the row it will
still find, with its own discount in it (`DerivedIsNear`). What the columns'
rounding adds is bounded number by number: a stored base or amount is off by half
a hundredth, and a stored percentage moves the price by half a hundredth of a per
cent of the base (`PercentageIsNear`).

*The bill.* `BillInv`: at every line the columns are the sums of the lines so far.
While shares are given out each is off by half a cent at most, so after n lines
the sum is off by n halves; the last line takes what is missing. That holds for
any number of lines and for either rounding of an exact half.

TLC checked every inductive part on small instances before it was proved.

### Only model-checked

* `ExpiredIsRetired` and `EveryRequestEnds` are liveness under fairness, beyond
  the prover, as is everything about ENABLED.
* `LoneKeepsOrder` (positions of slides are dense after a request alone) and
  `LoneRequestHeals` (sums over variants) are checked on the bounds of section 3.
* `AvailabilityExact`, `RestoredOnce`, `SoldMatchesOrders`, `AtomicShopSpec`,
  `WithinLimit` and `OverlapsAloneOverrun` are proved under the hypotheses in the
  table; what happens without them is in section 4.

## 6. What is not modelled, and the plan

`PROJECT.json` names every component's status. Left out for good: mail, support,
guards, health, scripts and token handling (I/O, stateless, or one statement per
request with every rule a unique index); dto classes, selects and response
shapes. Of the 118 thousand lines TypeScript counts, 85 thousand are the
generated Prisma client (`src/src/generated`), which has no behaviour of its own
beyond the SQL the models already name; of the rest, about half is request and
response declarations and API documentation. `updateBatch`, `deleteBatch` and
`recordMovement` of the inventory are reached by no route.

Deadlocks between carts in opposite order (`docs/issues/stock-oversell.md`) are
transactions that roll back: the code sets no lock order there, so there is none
to check, and what a kill leaves is `OrderComplete`'s matter. Where the code does
set one, it is checked (`WaitCirclesHoldAMove`).

What a next step would add, in this order:

1. **Proofs**: what a request alone leaves of slide positions
   (`LoneKeepsOrder`) and of a product's derived columns (`LoneRequestHeals`).
2. **One more derived-column module** for the triggers that share a shape (combo
   availability, `total_stock`, `product_count`): a function of its sources,
   recomputed in the snapshot of the statement that moved one of them.
3. **Abstract specifications**: the stock ledger as a bag of movements (refined
   by `StockRows` and `StockBatches`), a code as a semaphore with `usageLimit`
   permits (refined by `PromoCodes`).
4. **Delivery windows**: minimum and maximum days of a zone under overlapping
   edits, which `Couriers` leaves out.
