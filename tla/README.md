# A verification of the Fraiche Tizimin shop

TLA+ modules, TLC runs and TLAPS proofs about the shop in `src/`: a NestJS API
on PostgreSQL through Prisma (`src/apps/api`) that sells perfumes, reserves stock
while customers pay, takes card, link, transfer and cash payments and lets the
owner quote shipping, recount stock and follow orders; a Next.js front end for
customers and for the administration (`src/apps/web`); and the scripts that
deploy both (`src/deploy`).

`tlc -config <run>.cfg <MC module>.tla` repeats a run, `tlapm <module>.tla` a
proof. `PROJECT.json` maps every definition to the lines it stands for, and lists
components, runs, mutants, findings, hazards and theorems.

1. Inventory — 2. Plan — 3. Modules — 4. Runs — 5. Proofs — 6. Not modelled

## 1. Inventory

What the system consists of, what makes each part hard, and what makes it
correct. File names without a directory are of `src/apps/api/src`.

| Part | State | Operations | What is hard | What makes it correct |
|---|---|---|---|---|
| Orders (`orders.service.ts`) | `Order`, `OrderItem`, `Payment`, `OrderPromotion`, the `Cart` it came from | `create` (idempotency key), `updatePendingCheckout`, `reopenCheckout`, `cancel`, `cancelByAdmin` | SERIALIZABLE transactions that compete for stock, promotion uses and one order; deadlines between two of them | nothing is oversold; an order holds what its status says; one attempt is payable, for the order's total |
| Stock (`InventoryLevel`, `StockMovement`, `InventoryReservation`) | counters per variant, their audit trail | reserve, release, consume, recount | four operations write the same counters | free plus reserved is what is in the store; the movements explain it |
| Reservations (`reservations.service.ts`) | deadlines | the interval job, one transaction per line | one order expires in several steps, racing everything else | every reservation ends; an order closes with its last line |
| Manual payments (`payments.service.ts`) | `Payment`, `TransferProof` | upload, review, cash | the upload reads outside its transaction | an order is sold and announced once |
| Card and link payments (`payments.service.ts`) | `Payment`, `WebhookEvent`, charges at the providers | preferences, card charges, intents, two webhooks, late refunds | provider calls between reads and writes; duplicated, late, reordered webhooks; stops | no charge is kept without a paid order, none forgotten |
| Shipping quotes (`shipping-quote.ts`, `admin-commerce.service.ts`) | quote status and fee | `resolveShippingQuote`, `setShippingQuote` | a quote races a change of address and a payment | the amount asked for follows the quote |
| Promotions (`commerce-rules.ts`, `orders.service.ts`) | `uses`, `OrderPromotion` | choice, discount, release of uses | limits under cancellation; several at once | uses equal the orders that hold one; the best choice; never below zero |
| Promotion administration (`admin-commerce.service.ts`, promotions tab) | `Promotion` rows, forms | create, change fields, switch | validate what was read, write some fields | what the shop shows applies |
| Order desk, shipments (`admin-commerce.service.ts`, `shipments.service.ts`) | statuses, `Shipment` | status changes, shipments | statuses read outside the update | orders and shipments advance |
| Prices (`price-adjustment.ts`, `pricing.service.ts`, price manager) | prices, policies, preview | one, many, policy, percentage | preview and application are two requests; read, then write | what was previewed is applied, and logged |
| Outbox (`outbox.service.ts`) | `OutboxEvent` | claim, send, retry, daily limit | replicas, stops, SMTP failures, upserts of a row at work | one mailer each, sent or given up after all tries |
| Carts (`carts.service.ts`, `cart-provider.tsx`) | `Cart`, `CartItem`, the token in the browser | add, update, claim, convert | tabs share a token; sign-in in between; lost answers | a cart is ordered by its owner; what is added is kept |
| Inventory alerts (`inventory-alerts.service.ts`) | `InventoryAlert` | scan, acknowledge, remind | replicas scan at once, query by query | one active alert per level; low stock is told |
| Customer sessions (`customer-auth.service.ts`, `auth-provider.tsx`) | `CustomerSession`, reset requests, the cookie | login, rotation, logout, recovery | tabs share a cookie; rotation and revocation race | a token is exchanged once; a reset ends every session |
| Customers (`customers.service.ts`, account page) | addresses, favourites, profile | create, change, delete | requests of one page or of several devices overlap; look-up before the transaction | one default address that only moves, while no two changes cross; a heart shows what is stored |
| Site content (`content/`, site editor) | draft, publication, revisions, media | autosave, publish, load, upload | debounce, overlapping saves and loads, reload on notice | what is published was asked for; nothing is lost on screen |
| Catalogue (`products.service.ts`, `catalog-experience.tsx`) | pages, filters | list, load more | answers out of order; products published meanwhile | the list shows what the filters ask for |
| Admin catalogue (`admin.service.ts`, `admin-app.tsx`) | products, images, stock as typed | create, images, recount, entries | forms hold old data; uniqueness checked, then written | nothing is overwritten or brought back |
| Admin notifications (`admin-notifications.service.ts`, the bell) | notifications, read marks | list, read, mark all; polls | polls overlap; marks race new rows | a new order is announced once |
| Checkout page (`checkout-experience.tsx`) | selection, draft, step | steps, restore, place | late loads, reloads, lost answers, two carts | what is asked for is complete and what was chosen |
| Payment page (`payment-experience.tsx`) | order, instructions, forms | load, poll, pay, reopen | polls and loads overlap; lost answers | what it says is so; the cart comes back |
| Order tracking (`order-tracking.tsx`, orders tab) | proofs, what pages show | upload in three calls, review | the order moves under both pages | what was sent is reviewed once |
| Deployment (`deploy/`, `prisma/seed.ts`) | the whole store | back up, empty, seed, validate, publish | interrupted and repeated while the store sells | stock is imported once, orders are kept |

The parts interact through the database. The API's handlers run concurrently,
on any number of replicas, share only the tables and call each other as
functions. The operations on orders and stock are `$transaction`s at
`isolationLevel: Serializable`, of which a conflict makes one fail and start
again or throw; most others are single statements or READ COMMITTED
transactions. The interval jobs (expiry, outbox, alerts, clean-up) run in the
same processes. Front-end components keep copies of rows in React state and web
storage and learn of changes by answers and polls. Providers, SMTP and the object
store are outside.

`PROJECT.json` lists each part with its files, modules and status (`components`)
and the forty hazards that matter most at their lines (`hazards`), with the
properties that cover them. Two hazards have no property, and a note that says why:
the repository promises nothing there that a property could state.

## 2. Plan

What exists, in the order of its importance, and how the modules are composed.

| Layer | Modules | Composition |
|---|---|---|
| Core | `StockLedger`, `Checkout`, `CheckoutProperties` | `Checkout` implements `StockLedger` (`INSTANCE ... WITH`) |
| On the core | `PaymentGateway`, `OrderDesk` | extend `Checkout`: its actions interleave with theirs on the same rows |
| Server parts of their own rows | `Outbox`, `CustomerSessions`, `Carts`, `InventoryAlerts`, `AddressBook`, `PromotionDesk` | stand alone; `Carts` and `CustomerSessions` include the browser's tabs |
| Arithmetic and rules | `PromotionRules`, `PriceAdjustment`, `SiteContentRules` | `Prices` extends `PriceAdjustment` |
| Server and page together | `SiteContent`, `MediaLibrary`, `Prices`, `AdminNotifications`, `Catalogue`, `NewProduct`, `ProductImages`, `StockForm`, `Wishlist` | stand alone |
| Pages on an abstract order | `CheckoutPage`, `PaymentPage`, `OrderTracking` | the order is what `Checkout` and `PaymentGateway` leave visible of it |
| The store as a whole | `Seed`, `Deployment` | `Deployment` extends `Seed` |
| Proofs | `CheckoutProofs` | extends `CheckoutProperties` |
| | `PaymentGatewayProofs`, `OrderDeskProofs` | extend their module and `CheckoutProofs`, whose lemmas they use |
| | `ServiceProofs` | extends `Outbox`, `CustomerSessions` and `Deployment`: a part for each |
| | `CartsProofs` | extends `Carts` |
| | `CustomerPageProofs` | extends `CheckoutPage`, with an instance of `PaymentPage`, `OrderTracking`, `AddressBook` and `Wishlist`: a part for each |
| | `AdministrationProofs` | extends `SiteContent`, with an instance of `MediaLibrary`, `NewProduct`, `AdminNotifications` and `InventoryAlerts` |
| | `OfferProofs` | extends `Prices`, with an instance of `ProductImages` and of `PromotionDesk` |
| Instances | `MCCheckout`, `MCOrders`, and over the slots of `Parts` `MCServices` (with the inputs of `MCPriceAdjustment` and `MCPromotionRules`), `MCPages`, `MCSettle` | many side by side (section 4); each extends the components whose properties are proved |

What no theorem states is listed at the end of section 5. `NoneMissed` of the catalogue is
out of reach: the list is sorted by a `CHOOSE` over sequences, of which only an induction
over data says anything. No module declares a RECURSIVE operator, so each of them can be
proved about.

## 3. Modules

### The core

**`Checkout`** is the core. A transaction at the SERIALIZABLE level is one
action; what makes it throw is its guard, since a transaction that throws is
rolled back. The one handler that reads before its transaction,
`confirmTransferProof`, is the two actions `UploadRead` and `UploadWrite`.

| Variable | In the database |
|---|---|
| `now` | the clock the handlers read |
| `onHand`, `available`, `reserved` | `InventoryLevel` |
| `movement` | `StockMovement`, summed by type |
| `cart` | `Cart`, `CartItem` |
| `order` | `Order` and the quantities of its `OrderItem`s; an order is its idempotency key |
| `reservation` | `InventoryReservation`, one per line |
| `payments` | the order's `Payment`s, the newest last |
| `proof`, `uploads` | `TransferProof`; uploads between their read and their write |
| `uses`, `applied` | `Promotion.uses`, `OrderPromotion` |
| `approvals` | the PAYMENT_APPROVED rows of `OutboxEvent`, per order |

| Action | Handler |
|---|---|
| `Create` | `createInTransaction` |
| `UpdatePendingCheckout` | `updatePendingCheckout` |
| `ReopenCheckout`, `Cancel` | `reopenCheckout`, `cancel` and `cancelByAdmin` (both through `CancelOrder` = `cancelOrderInTransaction`) |
| `UploadRead`, `UploadWrite` | `confirmTransferProof` |
| `ReviewTransferProof`, `ConfirmCashPayment` | the same (both through `ConfirmOrderPayment`) |
| `SetShippingQuote` | `setShippingQuote` |
| `ExpireOne` | `expireOne`, for one line |
| `UpdateInventory` | `updateInventory` |
| `Tick` | time passes |

Abstractions. The goods' part of a total never changes after the order is
created, so the shipping part stands for the total and for an attempt's amount.
A destination is a name: PICKUP, TIZIMIN or any other place. The discount of a
promotion is abstracted to whether the cart is eligible, which the environment
chooses; there is one promotion and it needs no code. A cart does not expire (its
30 days are longer than any behaviour looked at). Requests of someone who is not
the order's owner, unknown tokens and inactive products are refused by the code
and left out, as are notifications, notes and the other outbox rows, which no
operation on orders reads. `Choices` are the payment choices the shop has configured;
card and link attempts can be chosen here, and their payment belongs to
`PaymentGateway`. `started` (the attempt was opened at a provider) is therefore
FALSE in this module.

`addressChanged` is modelled by what it does: the stored address is a JSONB value,
whose keys PostgreSQL reorders, and is compared as text with a new object, so two
addresses never compare equal, and two absent ones do.

Definitions whose comment says "Mutated form" are plausible mistakes in the
definition that follows them. They are not part of the model; each is put in its
place once, to see that a property notices.

**`CheckoutProperties`** states what the transactions guarantee, with the types of
the rows. **`StockLedger`** is what the shop promises about stock, without
counters, statuses or time: a holder takes a whole basket of free units, gives some
back, or buys all it still holds. `Checkout` implements it (`LedgerSpec`) under the
mapping "an order holds the units of its lines whose reservation is ACTIVE".

### On the core

**`PaymentGateway`** extends `Checkout` by the handlers of `payments.service.ts` that
call a provider. `charge` is the provider's side (external), `notified` the
notifications it may send, again and in any order, `webhook` the `WebhookEvent` rows,
`request` what each handler that is at work has read and does next (`Workers` of
them). `BeginPreference`, `BeginCard`, `SyncStripe` and `ReceiveWebhook` begin a
handler; `Step` is its next query, transaction or call; with `Faults`, `Crash` stops
it between two of them, and calls and transactions may fail. `PayLink` and `Settle`
are the provider. A charge is of the amount its request named.

**`OrderDesk`** extends `Checkout` by `updateOrderStatus` and the shipments.
`fulfilment` and `shipment` are the columns and rows `Checkout` leaves out,
`announced` the unique outbox keys of announced statuses, `desk` what each
employee's request has read. `ReadForStatus`, `ReadForShipment`, `ReadShipment` read;
`DeskStep` writes in another transaction.

### Services

| Module | State and actions |
|---|---|
| `Outbox` | `row` is `OutboxEvent`; a `mailer` per replica goes from claim to claim: `claimEvents` (one statement), `DeferClaimedEvent` while paused, the call to the mail server, then the update of the row. `Stop` and `UpdateFails` come between two of them. Times are countdowns |
| `CustomerSessions` | `account`, `session`, `link` are rows, `cookie` a browser's; a tab's call is sent, read, written, answered (`ServerStep`, `Answer`) or lost (`Lose`) |
| `Carts` | `cart` rows, the token `stored` in the browser, the copy each tab has (`cartTab`) and `request`s read, written and received apart; `Claim`, `Order`, `Reopen`, `Expire` |
| `InventoryAlerts` | a `scan` per replica, query by query (`Step`), that may fail (`Abort`); `Acknowledge`, `StockChanges`, `Tomorrow` |
| `AddressBook` | READ COMMITTED: several `Requests` at once, of one page or of many devices; `found` is what a change read before its transaction, `transaction` what it writes when it commits. The ghosts `overtaken` and `crossed` tell which changes another one committed under |
| `PromotionDesk` | `promotion` rows with the table's CHECKs, a `form` per employee that stays on screen, is changed (the slug, too), closed or pressed again while the `request`s of others and its own are handled; `updatePromotion` validates the row read first and writes the given fields |
| `PromotionRules` | `selectAppliedPromotions` and the discount as functions of a cart of priced lines |
| `PriceAdjustment`, `Prices` | the arithmetic in integers, with the halves that doubles put below as a constant (`Dropped`); the four ways to change a price, each read and written apart, and the page that previews |
| `Seed`, `Deployment` | a run of `seed.ts` as batches of products in steps of their own; `deploy.sh` step by step, on a store that goes on selling, with interruptions |
| `SiteContentRules` | `validateSiteContent` as an operator that refuses or rewrites a document, applied when it is saved and again when it is read; `URL.toString()` makes an address longer or shorter, after it was measured |

### Pages with the handlers that serve them

| Module | State and actions |
|---|---|
| `SiteContent` | the row with draft and published document, `revisions`, `editor` tabs, `requests` and `answers` in flight, the `shop` as rendered; `Autosave`, `PressSave`, `PressPublish`, `Serve`, `Receive`, `Render` |
| `MediaLibrary` | `asset` rows, bucket `object`s, an upload in three calls, libraries as listed, images in use |
| `CheckoutPage` | `page` (selection, step, what has loaded), the `draft` in session storage, the `url`; the effects of a change belong to its action; `placeOrder`, `OrdersCreate` and the answer are three steps |
| `PaymentPage` | the order, the `provider`'s intent and charge, a `page` per tab with its polls in flight, the cart `held` for the way back |
| `OrderTracking` | `proofs`, the `bucket`, customer `tab`s and employees' `desk`s with the order as each last read it |
| `AdminNotifications` | notification rows, the bell's `feed`, `polls` and `marks` in flight, what was `announced` |
| `Catalogue` | products published, `filters`, what is `shown`, the cursor, the list `asked` for and the page of `more` in flight |
| `NewProduct` | a creation form with its delayed and overtaking SKU checks; the API checks, then writes |
| `ProductImages` | windows with the images they hold, `upload`s that add to the images of their start, saves that replace all |
| `StockForm` | windows that hold the whole stock as it was; `units` is a ghost: what is really in the shop |
| `Wishlist` | one product's row, its hearts, the account's list and `calls` in flight |

What these abstract from, beyond what the module headers say:

- Identifiers, texts, addresses and files are names. A cart has one variant, a product
  form one variant; the wishlist is of one product, for rows of others never meet.
- `CustomerSessions` leaves out `verifyEmail` and `resendVerification`: `register`
  writes `emailVerifiedAt` itself, so that they find nothing to do. `docs/BACKEND.md:33`
  lists the verification between registration and purchase; nothing that takes orders
  reads the column, although `main.ts:54` demands `REQUIRE_EMAIL_VERIFICATION`.
- Prices are whole cents and percentages hundredths of a percent, as fine as the API
  takes them. The code computes in doubles, whose errors tell only where the exact result
  is a half: 110 cents and 15 % are 126.49999999999999 and become 126. Which halves come
  out below is the constant `Dropped`; the theorems hold whatever it is, and the runs have
  those of their inputs. The table of the run stays within TLC's 32-bit integers.
- `AddressBook` leaves out the account page's list, from which nothing is decided but which
  address is deleted; a request of an address that is gone is refused when it is looked up.
- `AdminNotifications` has one employee and one page of 20, its count query folded
  into the list. After a first load that failed, the second poll announces old unread
  rows; this is so in the code.
- `NewProduct` folds the creation of a brand, a category or a house into
  `createEntry`. `PromotionDesk` keeps the form's `requiresCode: Boolean(code)`, and
  leaves out a campaign's values: what refuses them, a percentage above 100 or a CHECK, is
  part of `Refused`, which may refuse any request. `Entries` and `Singles` bound what is
  typed and what other callers send.
- `Catalogue` never withdraws the product that is the cursor: what happens then is
  Prisma's own. Links followed from the catalogue keep the page mounted, as Next does.
- `SiteContent` assumes that an editor is reopened only while it waits for no answer;
  with two editors (`site`) neither loads again, with one (`site served`) it does.
- `Deployment` starts with a store that is deployed with `--seed`
  (`deploy/README.md:111`). That backups older than 14 days are deleted is left out.
  Orders of before and after a deletion have ids of their own: `saved`, `placed` and
  `late` hold them with the `epoch` they were placed in.
- `PaymentPage` and `OrderTracking` see an order abstracted from `Checkout` and
  `PaymentGateway`: its status, its quote and what was paid.

## 4. Runs

Twelve runs. Five pass and carry the project; seven show a disagreement between the
code and what the repository says of it.

| Run | Question | Properties |
|---|---|---|
| `stock` | Is anything oversold, lost or counted twice, and what does an order hold? | `TypeOK`, `StockBalanced`, `ReservedIsHeld`, `AuditTrail`, `SoldOncePaid`, `HoldsWhatItsStatusSays`, `OnePayableAttempt`, `UsesAreHeld`, `WelcomeIsFirst`, `LedgerSpec`, `LateReservationsStayLate` |
| `orders` | Is every charge accounted for, is nothing sold twice or uncharged, and what leaves the shop? | `SoldOnce`, `StripeMoneyIsAccounted`, `PaidOrdersWereCharged`, `ChargedIsSold`, `CompletedIsPaid`, `PaidStaysPaid` |
| `services` | Do the services keep their rows right with several replicas, tabs and employees? | `TypesOK`, `EveryMailOnce`, `ExchangedOnce`, `NoSessionOutlivesReset`, `ShownIsGranted`, `CartsAreKept`, `NothingIsFree`, `StoreIsKept`, `CartsStayTheirOwners`, `ChangesAreExact` |
| `pages` | Do the pages say, send and keep what is right while answers are late, lost or overtaken? | `TypesOK`, `HistoryIsComplete`, `PublishedIsWhole`, `PlacedIsComplete`, `ToldIsTrue`, `EnteredOnce`, `SettledStays` |
| `settle` | Does everything that was begun end? | `StockComesBack`, `OrdersSettle`, `ChargesSettle`, `EventsSettle`, `WorkIsDone`, `PagesCatchUp` |
| `partial_sale` | Is a paid order whole? | `PaidOrderIsWhole`, violated |
| `late_proof` | Do waiting proofs belong to payable attempts? | `ProofsOfPayableAttempts`, violated |
| `quote_kept` | Does an unchanged address keep its quote? | `SameAddressKeepsQuote`, violated |
| `gateway_sold_refund` | Is a sold order never refunded when charges race the deadline? | `SoldIsNotRefunded`, violated |
| `desk_revived` | Do closed orders stay closed? | `ClosedStaysClosed`, violated |
| `stock_back` | Is only offered what is there? | `UnitsAreReal`, violated |
| `content_pressed` | Is only published what the editor showed when Publicar was pressed? | `OnlyPressedIsPublished`, violated |

### Parts

Each MC module checks many small instances in one run. The variable `part`, chosen in
the initial state and never changed, says which instance a behaviour is of; the
variables of the others do not move. This checks exactly what one run per instance
would: the parts share no rows in the code either, and where components do meet, they
are one instance (`PaymentGateway` and `OrderDesk` on `Checkout`, `Prices` on
`PriceAdjustment`, a page with its handlers).

The components that theorems are about are extended: `MCCheckout` extends
`CheckoutProperties`, `MCOrders` `PaymentGateway` and `OrderDesk`, `MCServices`
`Outbox`, `CustomerSessions`, `Deployment` and `Carts`, `MCPages` `SiteContent` and
`CheckoutPage`. Their variables are the
module's own, a part is an `INSTANCE` that narrows some constants (fewer orders, one
method, less time), and what the run checks is the component's own definition, the one
its theorem states (of `Prices`: the instance's). `OrdersNext` and its like make the step of the part. Every other
instance renames its variables to the slots `x1` to `x18` of `Parts`, and a slot it does
not use holds `None` (`Off`*n*, `from`*n*); its properties are conjuncts
`part = ... => Instance!Property` of one of the module, and a temporal one is stated with
`part` in its premise.

| Module | Parts | What is small, and why it is enough |
|---|---|---|
| `MCCheckout` | stock | 2 orders, 2 variants with 2 units each, baskets that together want more, cash or transfer with one proof, pick-up or a quoted delivery, a cart for a reopened order, one attempt each, recounts to 1: the same last units wanted twice, lines of one order treated apart, a cancelled order's units wanted again, recounts down from 2 and up after a sale |
| | choices, proofs, welcome | 1 order with 3 methods, 3 destinations and 3 attempts (a replacement of a replacement), 5 ticks; 2 proofs; 2 customers who want one welcome use |
| `MCOrders` | interrupted, contended, replaced, quoted, linked, concurrent, overtaken | 1 order; 1 or 2 charges; 1 handler with faults, 2 handlers with and without; payments that succeed at once, are processed first, wait, are declined or cancelled. Two handlers make every pair of reads and writes of one order cross; two charges make a replaced attempt and its successor |
| | desk, two employees | 1 order and 1 shipment, 1 employee with time and changes of method, or 2 employees within one instant |
| `MCServices` | mail, resent mail | 2 events (a reset and a verification), 2 replicas, a daily limit, a stop, 2 tries; a renewed request for a row at work |
| | tabs, reset | 2 tabs of one browser, or of two with a link that 2 requests use; 3 tokens: one exchanged, one of the exchange, one more |
| | cart, two carts, failing cart | 3 carts and 1 tab; 2 tabs and 2 customers; lost requests. One request at a time in flight per instance, for two that overlap lose an add (below) |
| | campaigns, discounts | 1 form and 2 requests at a time, 3 in all, 2 rows, 2 slugs, one code in two spellings, one hour of horizon, the code and the end as what changes; every choice of 3 running campaigns for a set of carts |
| | prices, edited prices, rounding | 3 variants on 2 lines, 2 brands and a draft, prices to 4; every rounding of 13 prices around its boundaries by 9 percentages, with four halves that doubles put below |
| | deployment | 2 products in 2 batches, 2 runs of the seed, 1 order, 1 edit, 1 reset, 1 interruption |
| `MCPages` | site, site served, document, images | 2 editors and 2 presses; 1 editor, a fault, an outage, a rendering; every document with two links and two sections, whose addresses `URL.toString()` makes longer or shorter by one; 2 libraries of 2 for 3 images |
| | checkout, checkout by card, second cart | one cart and every way through the steps, with an address or with cards; two carts with what the customer presses bounded (`Tried`) to cash |
| | payment, tracking, alerts | 1 page and 2 quotes; 2 employees and a proof; 2 replicas, 2 alerts, 3 changes of the stock |
| | addresses, favourites, one heart, bell, two orders | 2 requests at once, of one page or of two devices, and 3 addresses: one deletion that finds another's choice gone, and one address left to lose the default; a card, the product's page and the account's list, or one heart pressed five times; polls that overlap; an order that arrives between two |
| | catalogue, long catalogue | 5 products by pages of one, 6 by pages of two, 2 published or withdrawn meanwhile |
| | new products, new product, photos, patient photos, stock, texts | 2 employees with 2 SKUs, one taken; one form with 3; 2 windows and 2 images at most, or one patient window and 3; windows opened before a sale |
| `MCSettle` | orders, charges, mail, alerts, bell, payment, tabs, site, proofs, deployment | the instances above cut to what a liveness check bears, with faults in mail, alerts, bell, tabs, site, proofs and deployment |

Bounds are constants: `MaxTime` and `LastCall` (no request comes after `LastCall`,
early enough for every deadline to pass before `MaxTime`, so that no liveness property
rests on the end of time), `MaxAttempts`, `Presses`, `Faults`, `Stops`, `Limits`,
`Failures`, `Changes`, `MaxTokens` and so on; the modules say of each that it is a
bound. The lifetimes keep the code's order: a card's is shortest, a quote's and a
transfer's are equal, cash has the longest. Symmetry of the interchangeable (replicas,
tabs, employees, charges, carts, files: `Sym`) is used in safety runs only, and
replaces no name a constant singles out. Deadlock is not checked in any run: when
orders are closed, bounds are used up and time is over, the instance has nothing left
to do.

### Fairness

Only `settle` assumes any. Of customers nothing is assumed, of employees only that they
review the proofs they are offered.

| Part | Assumed | Why the code justifies it |
|---|---|---|
| orders | time passes; an overdue line is expired (WF) | `expireReservations` runs every minute over the oldest overdue reservations, 100 at a time, and catches the error of each |
| charges | the same; a handler goes on (WF); the notification of success is received (SF) | a request is handled to its end; providers repeat a notification until it is accepted |
| mail | time passes; a mailer takes its next step (WF) | the interval of five seconds of each replica |
| alerts | a scan is begun and goes on (WF) | the interval of five minutes |
| bell | a poll is sent and answered, a mark is served (WF) | `setInterval` of the open panel |
| payment | a poll is sent (WF), and not every poll fails (SF) | the page's timer while the quote is pending |
| tabs | the server handles what reaches it; `fetch` ends with an answer or throws (WF) | the browser's own promise |
| site | calls are served, answers received, the autosave fires, the store is rendered (WF) | the debounce timer; pages are revalidated |
| proofs | the table is refreshed (WF); an employee decides what it offers (SF) | the review is what the table is for (`docs/REQUIREMENTS.md:25`) |
| deployment | commands end (WF); the first deployment is tried again until it succeeds (WF) | `deploy/README.md` says to run it again |

### What the violations show

- `partial_sale`: lines expire one transaction at a time and `confirmOrderPayment`
  sells whatever is still ACTIVE. An order confirmed between two of those
  transactions is marked paid with a line that went back to the shelf, while
  `docs/BACKEND.md:22` says that confirming a payment consumes the reservation.
- `late_proof`: an upload that read its attempt before the customer changed the
  method stores a proof for the attempt the change had cancelled. The change rejects
  the pending proofs of the attempts it replaces and does not see this one.
- `quote_kept`: `preserveExistingQuote` asks for an unchanged address and never gets
  one, so a customer who saves a quoted order again with the address it has sends it
  back to the owner for a quote.
- `gateway_sold_refund`: a handler that finds the deadline passed gives the charge back
  and writes REFUNDED without looking at the order again; another one, which looked
  before the deadline, sells the order in between. `payments.service.spec.ts:192`
  names the promise.
- `desk_revived`: `updateOrderStatus` checks the transition on an order it read before
  and writes without a condition: an order that was closed meanwhile, its stock
  returned, is in PROCESSING or READY again (`docs/BACKEND.md:28`).
- `stock_back`: the window of a variant sends the whole stock it was opened with, also
  when only the threshold was changed: units sold meanwhile are offered again
  (`docs/REQUIREMENTS.md:22`). The edit window of a product sends only what changed, and
  the same property holds of it (`texts`, in `EnteredOnce`).
- `content_pressed`: `publish` does not wait for an autosave on its way; when that is
  stored after publish's own save, the older document is what is published
  (`README.md:49`).

### Other disagreements

The modules state more properties that the code does not have. Each has its
definition, with a comment that quotes the promise, and is violated in the part named;
the passing runs leave it out there. The parts in *italics* are not in a run: the
module's specification with the constants given.

| Property | Module, part | What happens |
|---|---|---|
| `ReplacedChargesAreRefunded` | `PaymentGateway`: replaced, linked, concurrent | the charge of an attempt that was replaced is neither recorded nor refunded when its order was paid meanwhile by the new method |
| `ChargesAreTheTotal` | `PaymentGateway`: quoted | the preference of a link lists the items without shipping and discount; what it charges is refused as a mismatch |
| `OneLiveAttempt` | `CheckoutProperties`: proofs | the defect of `late_proof`: the late proof's approval leaves a paid order with two attempts |
| `NoChargeIsForgotten` | `PaymentGateway`: linked | a webhook's row is keyed by provider, payment and type: after 'pending' was processed, the notification of the approval is taken for a duplicate |
| `AdvancesByTransitions`, `PaidOrdersCanBeReady` | `OrderDesk`: desk, two employees | confirming cash writes CONFIRMED over PROCESSING or READY; the second change to READY violates the unique key of its announcement |
| `FinishedShipmentsRest` | `OrderDesk`: *2 shipments, 2 employees, TIZIMIN by transfer, `MaxTime` 0* | of two updates of a shipment the later write wins, also over DELIVERED |
| `LogoutRevokes` | `CustomerSessions`: tabs | a refresh rotates the token first; the sign-out revokes nothing and says it did |
| `AddsAreKept` | `Carts`: *1 cart, 2 tabs, 2 calls* | of two adds that overlap one is lost |
| `ShownAsStored`, `CartIsOfCustomer` | `Carts`: two carts (the second also failing cart) | answers change places; after a sign-out the next customer keeps a cart nobody else may order |
| `CartsPersist` | `Carts`: two carts, failing cart | the token is dropped whenever its request fails, also for a passing reason |
| `IncreaseNeverLowers` | `MCPriceAdjustment`: rounding | the whole price is rounded: 349 cents raised by 1 % become 300 |
| `AuditIsTrue`, `AppliedAsPreviewed` | `Prices`: edited prices (the second also prices) | a price written between read and write is overwritten and logged wrongly; a late preview is shown for a form that has changed |
| `NothingIsLost`, `ResetKeepsRules`, `SeededIsPublished` | `Deployment`: deployment | an order between the dump and the truncation is in neither; the seed overwrites the price rules the reset says it keeps; a shop that has sold out of a product fails the validation |
| `PublishSeesOthers` | `SiteContent`: site | the version compared was read in the same call: another session's changes are replaced unnoticed |
| `ShopChangesByPublish`, `EditsAreKept`, `CleanIsSaved` | `SiteContent`: site served (the last also site) | an outage shows the built-in content; a notice makes the editor load over what is typed; a load that overtakes a save shows the older draft as synchronised |
| `SavedCanBeRead` | `SiteContentRules`: document | an address is measured before it is escaped: what was saved is refused when it is read |
| `PaidOrdersWereCharged` | `PaymentGateway`: *`CARD_MERCADO_PAGO`, `MERIDA`* | the card is charged before anything is stored, the owner corrects the quote meanwhile, and the confirmation compares no amount again: the paid order has another total than its charge |
| `SelectionIsKept`, `FailedMeansNone`, `InstructionIsOfMethod` | `CheckoutPage`: checkout, checkout by card | cash sets the delivery to pick-up for good; after a lost answer another press is refused, for each makes a new key; instructions are shown in the order they answer |
| `PlacedAddressIsListed` | `CheckoutPage`: *2 addresses, two configurations* | an address that was deleted is sent although no entry shows as selected |
| `ChargedAsShown` | `PaymentPage`: payment | a quote corrected after it was given is not polled for and is charged |
| `ReopenedIsFound` | `PaymentPage`: *`BackAndLoadSpec`, 1 quote* | when the answer of the reopening is lost, no browser has the new cart's token |
| `QuoteIsShown` | `PaymentPage`: *`QuoteSpec`, 1 quote* | only a poll takes an error off the page, and with the quote that a load brought nothing is polled: the page of the error stays |
| `RemindedWhileOpen` | `InventoryAlerts`: alerts | an alert acknowledged during the scan still gets the day's reminder |
| `LowIsTold` | `InventoryAlerts`: *2 levels, `Limit` 1* | a scan looks at the 500 emptiest levels, whether they have an alert or not |
| `SentIsReviewed`, `OpenIsReviewed` | `OrderTracking`: *no fault, 1 file*; *`Shown` 1, 2 files* | neither expiry nor cancellation looks at proofs that wait; the table offers the three newest |
| `SomeDefault`, `AtMostOneDefault`, `DefaultIsNeverLost` | `AddressBook`: addresses | the page sends `isDefault` FALSE for a first address; two creations that overlap leave two defaults; the default and then its successor deleted before the first deletion is answered leave none |
| `NewIsAnnounced` | `AdminNotifications`: *2 orders, 1 slot, `MaxMarkAll` 1* | mark all reads what the employee has not seen |
| `RequestsAreUnread` | `AdminNotifications`: bell | a second request for a quote finds the read row of the first (`skipDuplicates`) |
| `ShownIsWanted` | `Catalogue`: long catalogue | the page under way is appended to the list of other filters; links followed from the catalogue change the address and not the list |
| `LabelIsTrue`, `CreatedIsAudited` | `NewProduct`: new products, new product | the answer about an older SKU is shown for the new one; a brand is audited in a second statement |
| `RemovedStaysRemoved` | `ProductImages`: photos | an upload brings back what was removed while it went on |
| `HeartIsTrue`, `HeartAgrees` | `Wishlist`: favourites (the first also one heart) | hearts start empty; presses on the product's page overlap |

## 5. Proofs

TLC checks the instances above; what follows holds for every value of the constants
that satisfies the named assumptions of the module (for `Checkout`: finitely many
orders, whole quantities, lifetimes of at least one tick, baskets within `MaxQty`).
`Spec` is each module's own specification.

| Module | Theorem | States |
|---|---|---|
| `CheckoutProofs` | `TypeCorrect` | `[]TypeOK` |
| | `NothingOversold` | `[]StockBalanced` |
| | `ReservedIsExact` | `[]ReservedIsHeld` |
| | `MovementsExplain` | `[]AuditTrail` |
| | `ImplementsLedger` | `LedgerSpec` |
| | `StatusTellsWhatIsHeld` | `[]HoldsWhatItsStatusSays` |
| | `LateStaysLate` | `LateReservationsStayLate` |
| | `UsesAreExact` | `[]UsesAreHeld` |
| | `WelcomeGoesFirst` | `[]WelcomeIsFirst` |
| | `UnpaidIsAskedOnce` | `[]OnePayableAttempt` |
| | `PayableOnce` | `[]OneLiveAttempt`, if `Proofs = {}` |
| | `SoldExactlyOnce` | `[]SoldOncePaid` |
| `PaymentGatewayProofs` | `PaymentsSellOnce` | `[]SoldOnce` |
| | `StripeForgetsNothing` | `[]StripeMoneyIsAccounted`: `NoChargeIsForgotten` of Stripe's charges |
| | `NothingIsForgotten` | `[]NoChargeIsForgotten`, if Mercado Pago is not offered |
| | `PaidOrdersStayPaid` | `PaidStaysPaid` |
| | `PaymentsOversellNothing`, `PaymentsLeaveATrail` | `StockBalanced`, `ReservedIsHeld`, `AuditTrail` with the handlers of the providers |
| | `GatewayImplementsLedger` | `LedgerSpec` with them |
| | `PaidIsCharged` | `[]PaidOrdersWereCharged`, if `Proofs = {}` and cards of Mercado Pago are not offered |
| | `PayableOnceByGateways` | `[]OneLiveAttempt` with the handlers of the providers, if `Proofs = {}` |
| `OrderDeskProofs` | `NothingLeavesUnpaid` | `[]CompletedIsPaid` |
| | `DeskOversellsNothing`, `DeskSellsNothingTwice` | `StockBalanced`, `ReservedIsHeld`, `AuditTrail`, `SoldOncePaid` with the desk |
| | `DeskImplementsLedger` | `LedgerSpec` with it |
| | `ShippedIsPaid` | `[]ShipmentsOfPaidOrders` |
| `ServiceProofs` | `SessionsTypeCorrect` | `[]TypeOK` of the sessions |
| | `TokensExchangedOnce` | `[]ExchangedOnce` |
| | `ResetsEndSessions` | `[]NoSessionOutlivesReset` |
| | `MailsLeaveOnce` | `[]EveryMailOnce` |
| | `StoreSurvivesDeployments` | `[]StoreIsKept` |
| | `PublishedIsComplete` | `ValidatedIsComplete`, a conjunct of `ChangesAreExact` |
| `CustomerPageProofs` | `PageTypeCorrect` | `[]CheckoutTypesOK` |
| | `OrdersAreComplete` | `[]PlacedIsComplete` |
| | `ReloadsKeepSelection` | `ReloadKeepsSelection` |
| | `PaymentPageTypeCorrect`, `ToldIsPaid` | `[]TypeOK`, `[]ToldPaidIsPaid` of the page that pays |
| | `QuotesStayShown` | its `QuoteStays` |
| | `TrackingTypeCorrect`, `ApprovedProofsArePaid` | `[]TypeOK`, `[](ApprovedIsPaid /\ ProofHasFile)` of the tracking |
| | `ReviewsAreFinal` | its `ReviewedOnce /\ ClosedStays` |
| | `OneDefaultAddress` | `[]OneDefaultUntilCrossed`: at most one default until two changes crossed |
| | `DefaultAddressMoves` | `DefaultOnlyMoves`: a change no other overtook keeps the default |
| | `DeletedStaysDeleted` | `NothingComesBack` |
| | `HeartsAgree` | `[]HeartAgrees`, for one card whose requests are all answered |
| `AdministrationProofs` | `HistoryStaysComplete` | `[]HistoryIsComplete` |
| | `UsedImagesAreStored` | `[](TypeOK /\ UsedImagesExist)` of the media library |
| | `ProductTypeCorrect`, `NothingIsOverwritten`, `FormsCreateOnce` | `[]TypeOK`, `[](NeverOverwritten /\ CheckingEnds)`, `[]OncePerForm` of the form of a new product |
| | `OrdersAreAnnouncedOnce` | `[](TypeOK /\ AnnouncedOnce)` of the bell |
| | `OneAlertALevel`, `AlertsNeverReopen` | `[]TypeOK`, which has one active alert a level at most, and `LifeCycle` |
| `CartsProofs` | `CartsTypeCorrect` | `[]TypeOK` |
| | `OwnersKeepCarts` | `OrderedByItsOwner`, with any number of tabs and requests |
| | `OneTabKeepsItsCart` | `[]CartsAreKept`, for one tab with one request at a time |
| | `BrowserKeepsItsCart` | `CartsPersist`, for such a tab when no look-up fails |
| `OfferProofs` | `AdjustedCostsACent`, `AdjustmentKeepsOrder`, `AdjustmentGoesItsWay` | the arithmetic: `AtLeastACent`, `KeepsOrder`, and no cent in the wrong direction |
| | `PricesTypeCorrect`, `FixedLinesHavePrices` | `[]TypeOK`, `[]FixedHasPrice` |
| | `DiscountsStay` | `DiscountStays` |
| | `AdjustmentsReachTheSelected` | `AdjustsWhatIsSold` |
| | `ListsAreWhole` | `[](AtMostEight /\ CoverIsFirst)` of a product's images |
| | `RemovedImagesStayRemoved` | `[]RemovedStaysRemoved`, if `Patient` |
| | `ShownCampaignsApply` | `[](ShownAsAutomaticApplies /\ ShownCodeApplies)` |
| | `FormsPublishOnce`, `ChangesWriteWhatIsGiven` | `[]OncePerForm`, `NothingElseChanges` of campaigns |

A compound property of a run (`ToldIsTrue`, `EnteredOnce`, `SettledStays`, `PublishedIsWhole`,
`ShownIsGranted`, ...) says of each part of the run what the property of that part's module
says; the theorems state those, part by part. The hypotheses of a theorem are the module's
assumptions on its constants, which TLC evaluates on every instance the runs make of it
(`ServicesAssumption`, `PagesAssumption`).

### The core

`CheckoutProofs` begins with the types: each transaction keeps them, one step per
action, from lemmas about the changes several of them share (`ReturnUnitsType`,
`ConfirmType`, `CancelAttemptsType`, ...).

The stock needs the inductive invariant `StockInv`: the types,
`StockBalanced`, `ReservedIsHeld` and `UnplacedHoldsNothing`. None of the middle two
is inductive alone. `expireOne` decrements the reserved counter without looking at
it, so that `reserved >= 0` needs to know that the counter covers the line that
expires (`CounterCovers`, from `ReservedIsHeld`); and a new order only adds to what is
held if its key held nothing before (`UnplacedHoldsNothing`). The counting argument is
`UnitsOfOneOrder`: when one order comes to hold k units instead of h, the set of units
held changes its size by k - h. Each transaction is then one instance of
`CounterFollows`. `AuditTrail` is inductive over the types: `TrailFollows` is the one
argument for a reservation, a release and a sale, whose movement has the units by
which the counters change, and a recount is the step that differs. `ImplementsLedger`
maps each transaction to one step of the ledger: `Create` to `Reserve`, a cancellation,
a reopening or an expiry to `Release`, a confirmation to `Sell`, a recount to `Recount`,
the others to a stutter.

Its second half begins with `StepShape`: what any transaction does to one order is
nothing (`Untouched`) or one of five changes: `Placed`, `Rewritten`, `Sold`, `Closed`,
`LineExpired`. Every invariant after it is proved from these and not from the handlers
again.

- `OrderInv` is `HoldsWhatItsStatusSays` with what makes it inductive: an order that waits
  for its payment is not paid, so that a confirmation always ends the waiting, and an
  idempotency key that nobody has used holds no more than a closed order does.
  `LateStaysLate` follows: every change of a deadline asks that it has not passed.
- `UsesAreHeld` counts orders, as `ReservedIsHeld` counts units: a transaction gives one
  use or takes one, and never takes one that was taken.
- `WelcomeInv` adds to `WelcomeIsFirst` that no order is dated in the future; without it
  the next order could be older than the one that has the discount.
- `AttemptInv` adds to `OnePayableAttempt` which statuses attempts have and that an
  approved one is of a paid order. The property speaks of unpaid orders. For paid ones it
  does not hold: a transfer proof stored for an attempt that a change replaced meanwhile
  (the run `late_proof`), when it is approved, marks that attempt APPROVED beside the live
  one. TLC shows it in the part *proofs*, five steps from the start; it is the same defect.
  So `OneLiveAttempt`, which speaks of every order, is proved for a shop without proofs
  (`PayableOnce`), and TLC checks it where providers are charged (*replaced*).
- `SaleInv` adds to `SoldOncePaid` that an order not yet placed is not paid: the only step
  that adds to `approvals` is a confirmation, which requires an unpaid order with lines
  to sell; a cancellation requires an unpaid order; an expiry returns ACTIVE lines only.

### What extends the core

`PaymentGatewayProofs` rests on what each request at work has read (`RequestSays`): a
handler's later step acts on an order, an attempt and a charge that exist and belong
together, whatever happened since its read. With the types and what a sale leaves
(`SaleSays`) this is `GatewayInv`. `SoldOnce` holds although REFUNDED opens an order's
payment status again, because the sale is told by `approvals` and the consumed lines and
not by the status. `GatewayShape` then shows that each step of a handler is a transaction
of `Checkout`, sells like one (`PaymentSells`) or touches no stock (`PaymentIsRecorded`),
which carries the stock, its trail and the ledger over from the core. `AccountInv` is the
accounting of notifications: an event that was processed found its order sold or gave the
charge back. It has to speak of the middle of a handler (`RequestAccounts`), where the
money is in no row yet.

For Mercado Pago that argument fails, and so does the property (section 4): one row stands
for all notifications of a payment of one type, so the only one may be processed while the
payment is pending. `NothingIsForgotten` therefore assumes a shop that offers neither
links nor cards of Mercado Pago; `StripeForgetsNothing` speaks of Stripe's charges in any
shop. The parts of the run that check the property offer Stripe's cards, too.

Its last part proves what a customer would ask first: who is told paid was charged
that total. `ChargedInv` says four things besides. An order has one live attempt, of its
total, which nobody has begun to collect while the customer may still change the order
(`LiveSays`). An attempt is marked as started before its intent can take money
(`ChargeStarted`). A notification of success is true (`EventsTrue`). And a request that
applies an approval applies a charge that was taken and, once it has compared the amounts,
they stay equal as long as the attempt is live (`RequestPays`): the comparison is made
before the transaction and not in it, and what makes it good is that a started attempt's
order gets no other total, since a quote or a change of address closes the attempt and
opens another. The proof takes attempts (`LiveContinues`), charges (`MoneyContinues`) and
requests (`RequestsContinue`) in turn, and TLC checked the invariant in every part of
`orders` first. The two assumptions are where the property fails: a transfer proof can
mark a replaced attempt (as for `OnePayableAttempt`), and a card of Mercado Pago is charged
before anything is stored, so that an employee may quote the order again between the
charge and its confirmation (section 4).

`OrderDeskProofs` needs for `CompletedIsPaid` what the desk's requests have read
(`DeskSays`): a request that will write COMPLETED or DELIVERED read a paid order, and an
order that was paid then is paid now, for nothing in `Checkout` or at the desk takes a
payment back. That is why the stale read is harmless here, while the same read lets a
closed order be revived (`desk_revived`).

`ShippedIsPaid` holds in spite of that revival, with any number of employees, and why is
its invariant, `ShipInv`. A closed order holds no ACTIVE line and is not paid, and both
stay so when a late write puts a status of before over it: what is over (`Over`) cannot be
sold, for a confirmation sells ACTIVE lines. A request that will write a shipment read a
paid order with a delivery (`SentAndPaid`). It stays paid; it stays unclosed, because what
is written over it is a status of the list, and closing it would take `Over`; and it stays
a delivery, because paid orders are not changed. `orders` checks the property in the part
*desk*, with one employee and deliveries; its part *two employees* has none, and TLC
agrees there, too, when `Destinations` is `{"TIZIMIN"}`.

### Components of their own

- Sessions (`ServiceProofs`): `SessionsInv` says what each request in flight knows
  (`OnlyKnownTokens`), what a row's token was made from (`RowsTell`) and that no row has a
  token that was exchanged (`ExchangedIsGone`). Two refreshes of one token race to a
  conditional update: the second finds another token in the row. The bound on tokens is
  part of the invariant (`RoomForTokens`), for a login has to find a free row.
- Outbox (`ServiceProofs`): `OutboxInv` counts. The mails of an event, the mailers that may still
  send it and the row if it can still be claimed add up to no more than one, plus the
  stops, failed updates and renewed requests there were (`MailsCounted`); a claim and a
  mail only move a unit from one term to the next. The tries of a row are counted with the
  failures not recorded yet (`TriesCounted`). TLC checked the invariant on the instance of
  the run first.
- Site content (`AdministrationProofs`): `ContentInv` adds to the properties that a publication under way
  carries a document that was accepted (`PublishingSays`), and that the first version,
  which has no revision, is what the store was built with. A publication writes only if
  the version is still the one it read: so its revision has a number of its own.
- Deployments (`ServiceProofs`): `DeploymentInv` has two halves. The stock: a product without a level
  has sold nothing (`SoldFromLevels`), so that the level a seed creates is the opening stock
  whichever of two seeds comes first; that the second one fails rests on the unique key
  (`unique`), for its look-up may have been answered before. The orders: what a deletion is
  about to take is in a backup or late (`DeletedIsCovered`), which every order placed between
  the two commands has to keep. `PublishedIsComplete` is a step from one command of the
  script to the next, and counts: as many active products as the file has are the file's,
  if employees added none.
- Checkout page (`CustomerPageProofs`): `PageInv` says of the page and of every draft in the session storage that
  cash is paid at the store only (`Showable`, `DraftsSay`), and that a page that is ready
  has saved what it shows (`ShownIsSaved`). A request carries the selection of the page that
  sent it, which was signed in and ready, and the offer that is compared is the API's once
  it has arrived (`AskedFromPage`). From there `PlacedIsComplete` is the guard of the press.
- Payment page: an answer says what was so when it was read. `PaymentInv` carries every answer
  under way by `GoesOn`: what was so stays possible, for an order leaves PENDING_PAYMENT once
  and is paid once. An old answer therefore says that the order waits, or what it is now.
- Order tracking: `TrackingInv` follows a file from its upload to its proof: a proof is stored
  only where the upload goes on, whose file is in the bucket, and nothing is taken from the
  bucket. A proof is approved together with the payment, which nothing takes back.
- Addresses: what a transaction will write is decided when it begins. `AddressInv` says that
  it still is right when it commits, unless another change was committed in between
  (`overtaken`), and that no two rows have the same place in `newest` (`Placed`), so that a
  deletion finds exactly one newest among the others (`NewestOf`). Nothing is assumed of the
  page or of the number of devices: the two properties name instead what goes wrong. After
  the first crossing there may be two defaults, or none; but a change that crossed no other
  keeps the default there is, also then. That a row does not come back needs no such
  condition, for the update of a row that is gone fails.
- Favourites: a card is disabled while it saves. `HeartInv` says that the request of a heart
  that was told is the only one there is and asks for the opposite of the row (`Follows`).
  A card that is left and shown again is no longer told, for older requests may follow.
- Images of the editors (`AdministrationProofs`): a document takes only images that a library
  lists, and a library lists only images whose upload was completed.
- New product: the answer of a check may be old when a request writes. What decides is the
  unique SKU and slug, and a form sends the slug it was opened with.
- The bell: an order that was announced is remembered by the browser, and a list that arrives
  late announces only what is not.
- Alerts of low stock: a scan decides by a list it made before. That it opens no second alert
  rests on the unique `activeKey` (`OneActive`), and that it changes none that was resolved
  meanwhile on the condition of its update.
- A product's images (`OfferProofs`): `ImagesInv` says of each list that an image is in it
  once and only the first is a cover, and of each upload that the list it began with, the
  files it has stored and those that are left fit in the limit together (`UploadSays`): so
  an answer that replaces the list of a window never exceeds it, whatever was removed or
  moved meanwhile. That it also brings back what was removed meanwhile is why `Patient`
  is assumed for `RemovedStaysRemoved` ("Other disagreements").
- Campaigns (`OfferProofs`): a change is checked against a row that may be another when it
  writes. `PromotionInv` says that rows satisfy the table's CHECKs, that no two have a slug or
  a code in common (`Apart`), and that whatever stands for one new campaign, a form, its
  requests or its row, has one slug (`ClaimsSay`), so that a second press is refused. A slug
  typed over makes another campaign of it, and so does a rename of the row: after that the
  old slug is free again.
- Carts: for owners, the types and that whoever speaks of a cart speaks of one that exists
  (`TabKnows`, `CallKnows`) are enough, since the update itself asks whose the cart is. For
  `CartsAreKept`, `SingleInv` follows one request: what it will write is one more than what
  it read and what it answers is what is stored (`CallSays`), and it asks for the cart the
  browser holds, unless that one is empty (`AsksHere`). `OneTab` and `OneCall` are assumed
  because the code has the property only there ("Other disagreements"): two requests of
  one page overlap, and each tab has a copy that nothing renews.
- Prices: two lemmas say what Math.round gives without the division (`Quotient`,
  `QuotientGrows`); the rest of the arithmetic is monotony. `PriceInv` says what a plan under
  way may write (`PlanSays`). `AdjustsWhatIsSold` then compares, variant by variant, what is
  written (`PlanWrites`) with what the store asks for: a fixed price belongs to a line, and
  one that may be changed is of a line whose published products are all selected.

### Only model-checked

Everything about liveness: the prover handles neither ENABLED nor fairness. Of the safety
properties:

- `SoldIsNotRefunded` and the part of `NoChargeIsForgotten` about Mercado Pago: they do not
  hold of the code in general (sections "What the violations show" and "Other
  disagreements"); the runs check the instances in which they do.
- `PaidOrdersWereCharged` in a shop that reviews transfer proofs: TLC checks it with the
  methods the parts of `orders` offer. With cards of Mercado Pago for a quoted delivery it
  does not hold ("Other disagreements").
- The types of `Outbox` and `SiteContent` in full. The delay of a retry is 2^n, of which
  the prover knows only that it is an integer; and that a tab waits for as many answers as
  it has calls is an invariant of its own size.
- The catalogue and the stock form, whose interest is in a few interleavings that the bounds
  contain, and `OnlyShownAreRead` of the bell.
- What `PromotionRules` and `SiteContentRules` compute is checked over all inputs of a
  bound: their definitions fold over a cart or a document, and a proof would be by induction
  over data, which the installed back ends do not support.

## 6. Not modelled

- **Special requests, contact**: one transaction inserts a row and its outbox row,
  whose mail is `Outbox`'s; nothing reads the rows back to decide anything.
- **Staff authentication, guards**: stateless; a signed token is checked at each
  request, and the page keeps it in `sessionStorage` without renewing it.
- **Uploads and storage** beyond the steps of those who use them: signing and the
  object store are I/O.
- **Verification of an e-mail address** and `/recuperar-contrasena`: the first finds
  nothing to do (section 3), the second has no page in the web application; its
  handlers are in `CustomerSessions`.
- **The profile form**, a product's own page, the search dialog and the sorting of
  loaded products: a single-row update and reads.
- **Price history**, the limit of 5000 variants of an adjustment, one variant's price
  (a single assignment, audited as `createEntry` is), which houses a menu line offers
  (`catalogLineHouse` is only extended).
- **Analytics, WhatsApp links, logging, layout, metadata, menus, the home page's
  carousel**, the editor's other tabs and their unmounting, the products tab's search.
- **`pending-order-editor.tsx`** (553 lines), which nothing imports.
- **Migrations**, which run once before the version that needs them;
  `restore-postgres.sh`, which an operator runs by hand; the order in which containers
  start; Caddy.
- **Lost connections and the retry of a serialization conflict** (`P2034`, up to three
  times) in `Checkout`: a transaction happens once or not at all, and a client that
  sends `create` again uses the same idempotency key. `PaymentGateway` has both.

Two more hazards are modelled, but no property is about them. A sign-in compares the password
with a hash it read and opens its session later (`customer-auth.service.ts:76`): a reset
in between ends every session but this one. And an adjustment of prices whose answer
was lost may be applied once more (`admin-price-manager.tsx:295`): nothing tells a second
press from a wanted second adjustment. The repository speaks of neither.
