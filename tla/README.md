# AgroLink API: a TLA+ verification project

AgroLink (`src/`) is a marketplace API: NestJS services over one PostgreSQL
database through Prisma. Buyers fill a cart and check it out, which makes one
order per seller and takes the stock; sellers accept, prepare and deliver
orders; administrators set the commission and the payment methods; a buyer may
pay through PayPal; around the orders there are accounts and sessions, the
verification of sellers, reviews, reports, favorites, pictures and a seed script.
This directory models every part of it that keeps state, model-checks it with
TLC on small instances, and proves its safety properties with TLAPS for every value of
the constants.

The services keep no state of their own. **Every table row is shared state and
every `await` is a point where another request may run.** Most of what can go
wrong comes from three habits of the code:

- a handler *reads and checks first*, outside any transaction, and then
  *updates by id with absolute values* (`stock: newStock, status`), whatever the
  row has become in the meantime;
- `prisma.$transaction` (PostgreSQL's READ COMMITTED) makes writes visible
  together, but does not make the reads it rests on repeatable;
- what follows a transaction (notifications, the record of a payment) is not
  part of it, is not retried, and is lost if a statement before it fails.

## Inventory of the system

| part (under `src/src`) | state | operations that change it | what makes it correct |
|---|---|---|---|
| `orders` | orders, items, status history | checkout, accept, reject, cancelMine, prepare, deliver, cancel | legal status changes, history that tells them, stock reserved once and given back once, a notice per change |
| `inventory`, `products` | products, inventory movements, images | create, update, updateStock, remove, registerEntry, registerExit, images | stock never negative, offered exactly when in stock, a ledger that explains the stock |
| `finance` | commission configs, payment methods, transactions | create config, create/update method, recordForDeliveredOrder, recordCompletedPaypalPayment, updateStatus | one transaction per order, for its total, at a configured commission; one active config; a true audit log |
| `payments` | nothing stored; PayPal's orders (external), the token cache | createCheckoutOrder, captureCheckoutOrder | money captured makes orders, amounts reconcile |
| `cart` | carts, cart items | addItem, updateItemQuantity, removeItem, creation of the active cart | one active cart per user, quantities within the stock |
| `notifications` | notifications | create, createMany, mark as read, remove | earned, sent once, to the right party |
| `audit` | audit logs | log | tells what happened |
| `users` | users, seller profiles, identity records, locations | profile, avatar, location, documents, activation, deletion, seller transitions | decisions audited before they are announced; only rejected sellers reopened; deletion final and its address free again |
| `auth` | users, refresh tokens, reset and verification codes | both registrations, login, Google, refresh, logout, password and e-mail flows | a refresh token is good once; a new password and a deletion end the sessions; a seller is complete |
| `reviews`, `reports` | reviews, reports | create, update, moderate, remove, resolve | one review per purchase; each told of once; moderation audited |
| `favorites`, `categories`, `admin` (system config) | rows of their own | create, update, remove, upsert | uniqueness; changes audited |
| `storage` | files in the object store | upload, delete | rows point to files that are there, files are shown by some row |
| `prisma/seed.ts` | every table, once | the script | one execution's rows, and rows that obey the rules of the services |
| `mail`, `google-maps`, `locations`, `admin` (statistics), `health`, `common`, `config` | external services, read-only data, plumbing | | |

How they interact: `cart.checkout` and `payments.captureCheckoutOrder` call
`orders.checkout`; `orders.deliver` calls `finance.recordForDeliveredOrder` and
`payments` calls `finance.recordCompletedPaypalPayment`, and both write the one
`transactions` row an order may have; `orders` and `inventory` write the same
product rows and the same ledger; `users` suspends the sellers that `checkout`
refuses; all of them call `notifications` and several `audit`; `users` closes sessions
through `auth` when it deletes, deactivates or suspends; `users` and `products`
keep their pictures in `storage`. There are no queues, callbacks or timers between
the services: what is concurrent is requests.

Hard behaviours, all listed with their lines under `hazards` in `PROJECT.json`:
lost updates of the stock, status changes that act on a stale status, partial
failure between statements and after commits, a payment captured before the
checkout that may fail, a delivery racing a capture for the one transaction, two
administrators configuring at once, a login that overlaps a password change or a
deletion, documents that overlap a suspension, files deleted before they are
replaced, a seed that dies half-way, a cached token about to expire, requests the
timeout interceptor has answered with 408 while they go on.

## Modules

| module | models | extends |
|---|---|---|
| `Platform` | order ids; `Faults`, whether statements may fail in a run | |
| `Notifications` | `notifications.service.ts`: the rows `create` inserts | `Platform` |
| `Inventory` | `products.service.ts`, `inventory.service.ts` | `Platform` |
| `Finance` | `commission-config`, `payment-methods` and `transactions.service.ts` | `Notifications` |
| `Orders` | `orders.service.ts`, over both | `Inventory`, `Finance` |
| `OrderBook` | the abstract specification of orders and stock | |
| `Payments` | `paypal-payments.service.ts` and the client, over orders | `Orders` |
| `Requests` | how a handler runs: a plan of statements, issued one by one, any of which may fail | `Platform` |
| `Accounts` | `auth.service.ts`; of `users.service.ts`, the location and the closing of accounts | `Requests` |
| `SellerVerification` | documents and `transitionSeller` of `users.service.ts` | `Accounts` |
| `Cart` | `cart.service.ts`, beside checkouts and the two PayPal requests | `Requests` |
| `Community` | `reviews`, `reports`, `favorites`, `categories`, `system-config` and the inbox of `notifications` | `Requests` |
| `Images` | `storage.service.ts`, as avatars, documents and product pictures use it | `Requests` |
| `PaypalClient` | the token cache of `paypal-client.service.ts` | `Requests` |
| `Seed` | `prisma/seed.ts` | `Platform` |
| `Inventory_proofs`, `Finance_proofs`, `PaypalClient_proofs` | theorems | the module |
| `Orders_proofs` | theorems about orders over stock and finance | `Orders`, the first two |
| `Payments_proofs` | theorems about payments over orders | `Payments`, `Orders_proofs` |
| `Requests_proofs` | lemmas about the plans of handlers | `Requests` |
| `SellerVerification_proofs` | theorems about accounts, sessions and sellers | `SellerVerification`, `Requests_proofs` |
| `Market_proofs` | theorems about carts, reviews and the other announced and audited rows, pictures and the seed, and the types of the composition | `MCMarket`, `PaypalClient_proofs` |
| `MC*` | constants, symmetry and scenes for TLC | the modules |

`PROJECT.json` maps every definition to the lines it stands for.

### State and actions

A **table is a function** from ids to rows, with a row whose `status` (or
`provider`) is `"NONE"` for an id that is not there; append-only tables
(`movement`, `history`, `notification`, the audit logs) are sequences in the
order the rows commit. A **request in flight is a record with a `pc`**: `job`
(stock requests), `filing` (administrators), `call` (order requests), `payment`
(the PayPal part of a request), and `entry` for the transaction row that
`recordFor...` has worked out but not inserted yet. It holds exactly what the
handler's local variables hold over its next `await`.

- `Inventory`: `RegisterEntry`, `RegisterExit`, `UpdateStock`, `Update`,
  `RemoveProduct` are the handlers up to their first write, with the values they
  computed from the row they read; `WriteProduct` is the update (absolute, by
  id), `LogMovement` the movement that follows it in a statement of its own.
  `FailJob` ends a handler between the two. `Create` is one insert.
- `Finance`: `FileConfig` / `CommitConfig` / `AuditConfig` are the two ends of
  the transaction of `CommissionConfigService.create` and its audit row;
  `CreateMethod`, `UpdateMethod` / `WriteMethod`, `AuditMethod` those of
  `PaymentMethodsService`; `FileStatus` / `WriteStatus` / `AuditStatus` /
  `InformSeller` the four awaits of `updateStatus`. `MayRecord...` are the early
  returns of the two recording methods, `Prepare...` what they compute,
  `InsertTransaction` the insert with its unique `orderId`, whose error they catch.
- `Orders`: `StartCheckout` is the read and the checks of `checkout`,
  `CommitCheckout` its transaction with every write in it. For the other six
  handlers `Open` is the read and the check, `ReadProducts` the read inside the
  transaction of those that give stock back, `CommitStatus` the transaction,
  `Notify` the notices, `Settle` and `Insert` the record of the payment. `Allowed`, `Target`,
  `Caller`, `Addressee` and `NoticeOf` say where the handlers differ. `FailCall`
  ends a call anywhere: rolled back, failed, or the process dead.
  `SetSuspended` is the one column of `transitionSeller` that checkout reads.
- `Payments`: `StartPayment` / `CreatePaypalOrder`; `CaptureAtPaypal`,
  `CheckoutPaid` or `CheckoutRefused`, `PlacePaid`, `NotifyPaid` (the checkout's
  own actions, driven by the payment), `RecordPaid` / `InsertPaid` per order.

The modules over `Requests` say the same in a shorter way. A slot of `req` holds
what a handler has still to do (`todo`, the names of its awaited statements) and
its local variables (`arg`). `Begin` is the handler up to its first write: what it
reads, what it checks, the plan that follows. Each statement is an action of its
own that takes its name off the plan (`Advance`), ends the handler where a check or
a unique column refuses (`Quit`), or fails (`Break`: a lost connection, or the
process dead; what has been written stays). A request of one statement is `AtOnce`.
The history variable **`smooth`** is true until two requests overlap or one fails:
a property with `smooth =>` is about the sequential code, and the rest of it about
every interleaving with every failure.

- `Accounts`: the operations of the two services begin in the actions of their
  names, and their statements are `Choose` (a code nobody has), `Insert`,
  `InsertSeller` (one transaction for user, location and profile), `Link`,
  `CheckUser` and `Spend` (the two halves of a refresh), `Open` (`issueTokens`),
  `RevokeAll`, the updates by id over `SetUser`, `AddPrimary` and `LogAccount`.
  `Clashes` is the unique columns, which see deleted rows that `Live` hides.
  Tokens carry their history: what they were exchanged for, the login they descend
  from, the password and the state of the account when they were issued.
- `SellerVerification`: `SendDocuments` and `TransitionSeller` begin;
  `AfterUploads` and `AfterTransition` are the order of the statements after the
  pictures and after the decision, with the reopening, the identity record, the
  notice and the closing of sessions where they apply. `past` is a history variable:
  every status a profile is given, in the order of the updates.
- `Cart`: `FindCart` / `CreateCart` are the two statements of
  `getOrCreateActiveCart`, `FindItem` / `WriteItem` those of `addItem`, which writes
  the sum it has computed; `Quote`, `Capture`, `Checkout` and `Convert` are what
  the paying requests do to the cart and its price. `wanted` is what the answers to a buyer say.
- `Community`: every audited route is `set` and then `log` with the value it read.
  A review is named by what its unique column holds.
- `Images`: `StoreDocument` is `uploadOrKeep` of one picture, the four of them side
  by side under `Promise.all`; `CollectDocuments` is its end. `broken` remembers
  that a statement or the store has failed.
- `PaypalClient`: `CallPaypal` takes the cached token or sends for one, `Issue` is
  PayPal's side, `CacheToken` the answer with its margin, `Arrive` the call. `Tick`
  lets time pass, up to the delay of a leg; `Restart` loses the cache.
- `Seed`: `Batches` is the order of the tables, `RowsOf` the rows that may be drawn
  for each; `WriteBatch` is a batch of `batchCreate`, followed by any one row of it.

Abstractions, and why they lose nothing the properties look at:

- A database transaction is one step at its commit, because nothing it wrote is
  visible before; the reads that matter inside it are steps of their own. A
  transaction that the database aborts is `FailCall` / `FailFiling`.
- The three reads of a recording method (`Settle`, `RecordPaid`) are one step: an
  order that gets a transaction between them makes the insert fail, which is what
  `InsertTransaction` does anyway, and a configuration that changes between them
  only gives values that some other moment of the read gives too.
- Requests that fail a role or ownership check or a validation change nothing
  and are left out.
- Money is in cents; percentages are whole numbers (the code allows two
  decimals). `CommissionOn` and `ToUsd` round half up, which is what `toFixed(2)`
  does but for binary fractions at exact halves.
- `clock` only orders the `effectiveFrom` of the configurations; other time
  stamps, names, reasons and texts are left out. Of an audited payment method
  only the last audit row is kept.
- In `Orders` and `Payments` carts hold what they hold at the start; their own
  operations are `Cart`'s, which in turn knows a checkout only by what it does to
  the cart. Likewise `Orders` has of a seller only its suspension (`SetSuspended`),
  which `SellerVerification` derives.
- A code or a refresh token that has expired is refused without a write, which is
  the same as one not presented: expiry needs no state. Access tokens are not
  checked against the tables, so a request may name any account that exists.
- Mail never fails a handler and nothing reads whether it arrived: left out.
- The seed's dates are days, with `Gap` the distances between events, and of its
  rows only the columns that some rule of the services is about.

## Runs

All bounds are constants of the `.cfg` files. `CHECK_DEADLOCK FALSE` everywhere:
bounded handlers may run out of requests to serve, which is not a deadlock of the
code (no request waits for another).

Some runs have **scenes**: a behaviour belongs to one of them from its initial
state on, and each scene bounds the same specification in another way, or lets one
of several modules that share no state run while the others rest. A scene only
removes behaviours; what it removes is said here.

| run | instance | what it shows |
|---|---|---|
| `serial` | no faults. Scene `stock`: one product, two prices, two jobs that never overlap (`InvSerialSpec`); `finance`: two filings that never overlap (`FinSerialSpec`) and a delivery | `LedgerExplainsStock`, `HiddenStaysHidden`, `OneActiveConfig`, `AuditTellsStatus`: true of the sequential code only |
| `finance` | two filings and a delivery that overlap and fail; one status is filed on a transaction, and nothing about methods (`Few`) | `ConfiguredForGood`, `CommissionWasConfigured` |
| `orders_serial` | two sellers, two products, three orders, two carts, two calls that never overlap (`SerialSpec`), no stock jobs, no faults | `ImplementsBook` (refinement of `OrderBook`), `ReservationIsBalanced`, `HistoryIsAChain`, `CartIsOrderedOnce`, `LedgerExplainsStock` |
| `orders_overlap` | faults. Scene `orders`: one order, two overlapping calls and an administrator; `stock`: a call that overlaps stock jobs of the seller | what survives staleness: `StatusIsLastEntry`, `EveryChangeHasItsCause`, `NoticesAreEarned`, `TransactionMatchesOrder`, `StockNeverNegative`, `OfferedIffInStock`, types |
| `payments_batch` | two sellers, two buyers, two captures, faults | `OneCheckoutPerCapture` |
| `payments_live` | two calls and an administrator over everything, fair, no faults | `TransactionHasCause`, types, `ChangesAreAnnounced`, `DeliveredIsSettled`, `PaidOrdersAreSettled` |
| `accounts` | two users, one address, one Google identity, one DNI, two passwords, three tokens; up to five requests one at a time, three once two overlap or one fails, faults | `OneSessionPerLogin`, `SessionsDieWithPassword`, `NoHeirAfterDeletion`, `SellersAreComplete`, `ReopeningsAreFounded`, `DecisionsAreAudited`, types |
| `market` | five scenes: `cart` (a buyer, two products, two carts), `community` (a review, a report, two administrators ...), `images` (four files, two documents), `paypal` (lifetimes 2 and 4, margin 2, delay 1), each with up to four requests one at a time, three once two overlap or one fails, and `seed` (two executions); faults | `CartHoldsWhatWasAdded`, `PaidIsOrdered`, `NewsIsDelivered`, `JournalLeadsHere`, `PicturesResolve`, `TokenIsGood`, `SeededOnce`, `SeedObeysTheRules`, types |

Two overlapping requests are enough for these hazards because each is a race of
two: a read that a second request makes stale before the write. Two units of
stock and one or two per cart reach the levels where the status flips and where
a check fails; handlers start on orders with up to three history rows, so a
history holds the longest path of a single order (four rows) and a stale change on
top of it. Four or five requests one at a time (`MaxRequests`) are enough for the longest
stories the later modules' properties tell: register, verify, log in, and then renew
or change; add to a cart, quote, capture, and one disturbance. Once two requests
overlap or one fails, no more than three begin (`MaxClashing`): the two that race and
one that meets what they left. `accounts` also starts from tables with a customer,
verified or not, or a seller already there, and `cart` from a cart that holds a
product, so that the requests are left for what follows. Users, addresses and identities are few because every clash is of two.
Orders, calls, slots and the like are interchangeable in the formulas of the runs
that use symmetry, all of them about safety.

Not all the properties are of every interleaving. With two calls, `HistoryIsAChain`,
`ReservationIsBalanced`, `CartIsOrderedOnce` and `ImplementsBook` fail, as one
expects of check-then-write by id; the properties of `orders_overlap` say how far the
damage goes. Two creations of a commission configuration that overlap can leave two
of them active (`finance_two_active`), and two updates of a transaction's status that
overlap log another story: `OneActiveConfig` and `AuditTellsStatus` are of one
administrator at a time. The parts under `smooth` fail too once requests overlap, and
the comment of each property says how: two refreshes with one token leave two sessions,
a login in flight survives a password change, documents in flight lift a
suspension, two first requests make two carts or two primary locations, two
additions lose one, two moderations log another story, two uploads give the same
places. No document, comment or test of the repository denies these, and so they
are stated as limits and not as disagreements.

### Disagreements found

| run | what TLC shows | what the repository says |
|---|---|---|
| `finance_two_active` | two concurrent creations leave two active configs | unit test: the previous config is deactivated |
| `orders_buyer_cancel` | a buyer cancels an order the seller has accepted | comment of `cancelMine`: while it is still PENDING |
| `payments_lost_money` | a payment is captured and no order made | README: the capture makes the orders and records the transaction |
| `accounts_google_return` | a customer who came through Google deletes the account and cannot come back: the deleted row keeps its Google identity | comment of `deleteOwnAccount`: the address is freed so that the same person may register again |

Five more were met on the way, are visible in the definitions named, and have no
run of their own. `PrepareDelivered` creates the transaction of a delivered order
`COMPLETED` (`transactions.service.ts:81`), where `README.md:55-56` and
`orders.e2e-spec.ts:111` say `PENDING`. `MethodsFor` falls back to any active
method, so that with the seeded methods ("Otro" inactive, `seed.ts:614`) a
delivery is recorded with PayPal's, which the comment at
`transactions.service.ts:43-46` says no longer happens. And `CartTotal` prices
the cart for PayPal while `CommitCheckout` prices it again: a price edited in
between makes the recorded amounts differ from the captured one, against the
comment at `paypal-payments.service.ts:44-47`. The seed gives its users no
`emailVerifiedAt` (`seed.ts:655-665`), without which `login` refuses them
(`auth.service.ts:174`), while `seed.ts:1698` and `orders.e2e-spec.ts:9-10,58`
expect them to log in (`MayLogIn`). And it brings `completedAt` (`seed.ts:1548`)
and `reviewedAt` (`seed.ts:824`) not back to the present as it does the other
dates, which is why `SeedObeysTheRules` does not speak of them.

### Fairness

`PayFairSpec` assumes weak fairness of the steps of a request that has begun, and of
nothing else: Node resumes a handler when the statement it awaits answers, and
with `Faults = FALSE` every statement does. No client has to send a request, no
administrator to act and no buyer to approve. `DeliveredIsSettled` and
`PaidOrdersAreSettled` except, in the formula itself, a platform that is without a
commission or a payment method at some later time, as the code's early returns do.

## Proofs

TLAPS checks these theorems for every value of the constants, under the named
assumptions of the modules they extend (`PlatformAssumption`, `StockAssumption`,
`FinanceAssumption`, `OrdersAssumption`, `PaymentsAssumption`,
`RequestsAssumption`, `InitialTablesAssumption`, `PaypalClientAssumption`,
`CartAssumption`, `CommunityAssumption`, `ImagesAssumption`, `SeedAssumption` ...). What is
supposed beyond them is a hypothesis of the theorem and is named here. The
instances of the runs satisfy every such hypothesis.

**Inventory** (`Inventory_proofs`), any number of overlapping requests:

- `InvTypeCorrect`: `InvSpec => []InvTypeOK`. A job's pending values must have
  the types of the columns they go to (set `Job`: a price that will be written is one).
- `StockStaysNatural`: `InvSpec => []StockNeverNegative`. Not inductive alone:
  `PendingNotNegative` adds that the stock a job is about to write is not
  negative either, which its handler checked against a row that may since have changed.
- `OfferFollowsStock`: `HarmlessEdits => (InvSpec => []OfferedIffInStock)`, where
  `HarmlessEdits` says that edits leave `stock` alone and set `status` to
  `INACTIVE` only. `PendingFits` adds that a pending write sets stock and status
  together, to a pair that fits. `orders_overlap` has such an edit: an admin hides a
  product.

and one request at a time (`InvSerialSpec`):

- `HiddenStays`: `HiddenStaysHidden`, from `JobCurrent`: a job still knows the row as it is.
- `LedgerExplained`: `NoStockEdits => (InvSerialSpec => []LedgerExplainsStock)`;
  `NoStockEdits` is: no faults, and no edit of the stock column (each of them
  leaves the ledger behind the stock, as the code does). `LedgerInv` adds that only
  the job about to record its movement makes the ledger lag, by that movement.

**Finance** (`Finance_proofs`):

- `FinanceTypeCorrect`: `FinSpec => []FinTypeOK`. `FilingOK` adds what a request
  must hold at each of its steps: the config it found still is a row, the status
  it audits is one.
- `ConfigurationStays`: `FinSpec => ConfiguredForGood`. A commit appends an
  active row after the one it retires (`CommitAppends`); no other step touches
  the table.
- `CommissionIsConfigured`: `FinSpec => []CommissionWasConfigured`.
  `CommissionInv` says the same of the rows about to be inserted; it rests on
  `CommissionBounds` (`toFixed(2)` is within half a cent of the percentage of the
  amount, either way on a tie, so never above the amount) and on `PercentagesStay`
  (retiring a config keeps its row).
- `OneConfigIsActive`: `OneActiveInitially => (FinSerialSpec => []OneActiveConfig)`,
  with faults or without. `ConfigInv` adds that the config a filing has found is the
  one that is active, so that its commit retires it (`CommitLeavesOne`).
- `AuditLogTellsStatus`: `~Faults => (FinSerialSpec => []AuditTellsStatus)`.
  `AuditInv` follows a filing through its awaits: the status it read is the
  transaction's, then the one it wrote is, while the log still ends at the one it read.

`FinSpec` is the finance module with deliveries alone: a PayPal capture without a
commission config records 0 %, so `CommissionWasConfigured` is not claimed of the
composition.

**Orders** (`Orders_proofs`), that is, checkouts, order handlers, deliveries'
payments, stock requests, suspensions and administrators all interleaved, any of
them failing at any statement (`Spec`):

- `OrdersTypeCorrect`: `Spec => []TypeOK`. `OrdInv` joins the types of the three
  modules with `CallOK`: a request holds the cart or the order it is about. The
  stock and finance steps are taken over from the lemmas about those modules.
- `HistoryTellsStatus`, `ChangesHaveCauses`: `StatusIsLastEntry` and
  `EveryChangeHasItsCause`. `HistoryInv` adds `SeenWasReached`: a handler between
  its read and its transaction acts on a status the order had reached, though
  perhaps not on the one it has. It is preserved because histories only grow
  (`HistoryGrows`) and a status is only held by reading it (`CallsRead`).
- `NoticesEarned`: `Spec => []NoticesAreEarned`. `EarnedInv` counts the notices sent
  together with the calls that have yet to send one, and compares them with the
  history: a transaction adds one to both sides, a notice moves one over.
- `TransactionFollowsDelivery`: `Spec => []TransactionMatchesOrder`.
  `TransactionInv` says of every handler on its way to record a payment, and of
  every row about to be inserted, that the order was delivered; totals never
  change once an order is there (`TotalStays`), and an administrator only writes
  to transactions that exist (`FiledExist`).
- `OrdersKeepStockNatural`, `OrdersKeepOffer`: `StockNeverNegative`, and under
  `HarmlessEdits` `OfferedIffInStock`, for orders and stock requests together.
  `ViewHolds` and `ViewFits` are what a handler's stale copy of the products
  still guarantees when it is written back: levels that are not negative, from
  which the cart's items can be taken, each with a status that fits it. Updates
  are lost, but not these facts.

and with requests, about orders and about stock, one at a time (`SerialSpec`; faults
as the constant says):

- `SerialInv` is what that gives: one call or job is in flight at most, and the rows it
  has read are as it read them (`CallCurrent`, `JobCurrent`). A call comes to know
  rows only in a step that leaves them as they are (`SerialCalls`).
- `HistoryChains`, `CartsOrderedOnce`: `HistoryIsAChain`, `CartIsOrderedOnce`.
- `ReservationsBalance`: `ReservationIsBalanced`, by `MovesGrow`: what one more
  movement does to the movements of an order, and of those by an amount.
- `OrdersLedgerExplained`: `NoStockEdits => (SerialSpec => []LedgerExplainsStock)`.
- `OrdersImplementBook`: `SerialSpec => ImplementsBook`, the refinement of
  `OrderBook`. The states map through the tables; a checkout's transaction is the
  book's `Place`, a status change one of its acts with the stock given back or not, a
  stock request's update the seller's, and every other step a stutter.

**Payments** (`Payments_proofs`), over all of that and PayPal (`PaySpec`):

- `PaymentsTypeCorrect`: `PaySpec => []PayTypeOK`. The amount put to PayPal is a sum
  over the products of a cart, a fold of the community modules. That it is a
  natural number (`SumIsNatural`) takes an induction, done by hand over a set of
  sizes (`SetInduction`, from the well-foundedness of the subset ordering), since
  the library's induction theorems cannot be instantiated; `PaymentsAssumption`
  asks for finitely many products for it.
- `TransactionsHaveCauses`: `PaySpec => TransactionHasCause`. `PayInv` says of a
  payment past PayPal that its reference is captured and its orders are there
  (`StageOK`), of a row about to be inserted that it is for the total of an order
  that such a payment has to record, or that was delivered (`EntryOK`), and of a
  handler on its way to a delivery's record that the order was delivered
  (`CauseOK`). It rests on `OneRequestMoves`: a step moves one request, and leaves the
  others their variables.
- `CapturesPayOnce`: `PaySpec /\ ReferencesStay => []OneCheckoutPerCapture`.
  `GroupInv` adds that a captured payment is held by one request, that nothing is
  recorded for it until that request has placed its orders, and that the orders
  recorded for a capture and those left to record are together those of one
  checkout. `ReferencesStay` says that the reference of a recorded transaction is
  not rewritten; only an administrator can do that (`updateStatus` writes whatever it
  is sent), and `payments_batch` has no administrator.
- `PaymentsKeepHistory`: what `Orders` says of histories, with paid checkouts too.

**Accounts and sellers** (`SellerVerification_proofs`), every interleaving of both
services with every failure (`SVSpec`):

- `AccountsTypeCorrect`, `NoHeirs`: `AccTypeOK` and `NoHeirAfterDeletion`. The
  invariant is `Base`: every handler has left a tail of a plan (`Plans`, over the
  lemmas of `Requests_proofs` about what may follow what), every token its
  history (`TokensOK`), and a plan says what is true of its request (`SubjectOf`):
  past `check`, a token in exchange was not issued late.
- `SellersComplete`: `SellersAreComplete`.
- `SessionsRotate`, `PasswordsCloseSessions`: `OneSessionPerLogin`,
  `SessionsDieWithPassword`. They speak of `smooth` behaviours. `AloneInv`: one
  request is in flight, what it has read still stands (`AloneOf`), and what the
  tables lack is what it has still to write.
- `ReopeningsFounded`: `ReopeningsAreFounded`. What overlaps and failures leave of it
  rests on `Founded`: the history `past` ends at the profile's status, a plan that
  has still to reopen a profile has a rejection behind it in that history, and once
  its documents are stored they stay on record. The rest is `Orderly`: the documents
  on record agree with the profile, unless the one request in flight has written
  one of the two and is still to write the other.
- `DecisionsAudited`: `DecisionsAreAudited`. Its first half holds of every
  interleaving: `Audited` counts what a seller was told together with the requests
  that have audited and not yet told, as `EarnedInv` does for orders.

They suppose of the tables at the start (`InitialTablesAssumption`) what the
theorems then say of them: sellers with a profile and one location, no DNI twice.

**PayPal's token** (`PaypalClient_proofs`):

- `TokensAreGood`: `PaypalSpec => []TokenIsGood`, for any lifetimes, margin and
  number of requests that share the cache, with restarts, under the assumption of
  the module that a leg over the network takes half the margin at most (`MaxDelay`;
  the margin is 60 s, and the code bounds no leg, so this is assumed of the network).
  `LegsOK` says how long a leg may have taken, `IssuesOK` that a token on its way was
  issued after its leg began, `CacheOK` that the cache's own date is the margin
  before the token's end, give or take the delay of the answer; `CallsOK`, that a
  call's token outlives its leg, follows from them at both ways to begin one.

The last module, `Market_proofs`, has the theorems of the other modules over
`Requests`, and of the seed. The first three have the same shape of invariant. The first half
holds of every interleaving with every failure: a request is idle or has one of the
plans its handler can leave, and a plan says what its statements need (`Knows`,
`ComKnows`, `ImgKnows`: rows only come, and keep what those statements rely on).
The second half is under `smooth`: one request is in flight (`Alone`), what it has read
still stands (`CartRead`, `ComRead`, `ImgRead`), and what the tables lack is what it
has still to write.

**Carts**:

- `CartHoldsIt`: `CartSpec => []CartHoldsWhatWasAdded`. `ItemsOK` is the
  unique column of the items; `CartsAgree`, that a buyer's active cart holds what the
  answers promised, with the row being written as it was read.
- `PaidIsWhatIsOrdered`: `CartSpec => PaidIsOrdered`. `PricesAgree` follows the
  price from the quote over the capture to the orders: until a cart or a price is
  changed, an active cart that holds something is worth what PayPal was told. `Total` is
  the cardinality of a set of cents, one for each cent of each unit, so that what an
  added or changed row does to a total is a lemma about finite sets and no induction.

**Reviews, reports and the rest** (`Community`):

- `NewsArrives`: `CommunitySpec => []NewsIsDelivered`. For every interleaving,
  `OneTells` says that two requests never have the same row to tell of (its insert
  succeeded only once), and `NewsOnce` that nothing is told twice or of nothing. Under
  `smooth`, `SellerHears` and `AdminsHear` say of a row that its parties have been told or
  a request is about to, the administrators being those that were there when it looked.
- `JournalIsWhole`: `CommunitySpec => []JournalLeadsHere`. `LogsLead` adds that
  the log ends at the value the row has, unless a request has yet to log: then it
  ends at the value that request has read.

`CommunityAssumption` says that rows of different tables are different, and that there are finitely
many administrators.

**Pictures**:

- `PicturesAreThere`: `ImagesSpec => []PicturesResolve`. What holds of every
  interleaving rests on `Private`: a file that has been stored and not yet
  written to a row is known to its own request only, so nobody else shows or drops
  it. `RowsShow` says that a file is dropped while a row shows it only by a request
  whose next statement is about that row (`Swapping`, `Removing`), and that is all
  the code has to keep a row from pointing at nothing. Under `smooth`,
  `DocumentsThere`, `NoneInVain` and `OwnPlaces` say the rest. TLC checked this invariant
  on the scene `images` before it was proved.

**Seed**:

- `OneExecutionSeeds`: `SeedSpec => []SeededOnce`. `OneSeeds`: an execution
  that has filled anything has written departments, whose names are unique, and so two
  that have are one; `StagesOK` says what is filled at each stage.
- `SeedIsLawful`: `SeedSpec => []SeedObeysTheRules`, for any dates, gaps and
  amounts. `RowOK` says that the row followed may be drawn; the rest is one lemma per
  table about `RowsOf`, and that what a batch refers to is an earlier one (`RefsAreEarlier`).

**Composition**:

- `MarketTypesCorrect`: `MarketSpec => []MarketTypeOK`. `MarketInv` is: every part has
  its types, and the part whose scene it is has its invariant.

**Model-checked only.** Liveness under fairness and ENABLED are beyond the prover:
`ChangesAreAnnounced`, `DeliveredIsSettled` and `PaidOrdersAreSettled` are checked by TLC
in `payments_live` only. Every other property of the runs that pass is stated by a
theorem, some of them under the hypotheses named above. The properties of the runs that
expect a violation are false, and have no theorem.

## Plan

1. **Done**: every service that keeps state, the store, the token cache and the
   seed are modelled and checked.
2. **Done**: theorems for every safety property of the runs that pass, and the
   refinement of `OrderBook`.
3. Worth adding when the code grows: the arithmetic of the review summaries, and
   an abstract specification of the announced and audited rows that `Orders`, `Finance`,
   `Community` and `SellerVerification` share.

## Not modelled

- Guards, filters, pipes, interceptors, swagger, configuration, health: they end
  requests or start the process.
- `mail`, `google-maps`: external, and no handler depends on their success.
- `locations`, `admin` statistics and every query, list, dashboard and summary:
  they write nothing. Among them is the arithmetic of the review summaries.
- `updateProfile` and the descriptive columns of products and categories: written,
  and read by nothing that decides.
- `common/utils`: text and pagination helpers without state, which no property of
  the system speaks of.
- `prisma/create-admin.ts`, `delete-user.ts`, `fix-review-comments.ts`, `verify.ts`
  and the migrations: run by hand on single rows, or generated.
