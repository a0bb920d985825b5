# A verification model of parque-das-feiras

The repository is a multi-tenant marketplace: a NestJS API over PostgreSQL
(Prisma) and Redis queues (BullMQ), a dashboard for stores and a storefront for
customers (Next.js). The modules here model what the API does to shared state
when requests, gateway deliveries and queue workers run at the same time; TLC
checks them on small instances and TLAPS proves the main invariants for any
number of actors.

Paths below are relative to `src/apps/api/src/` unless they start with `src/`.

## 1. Inventory

| Component | State | Operations | What makes it hard |
|---|---|---|---|
| Orders (`orders/`) | `Order.status`, its timestamp columns, its `Shipment`, `StatusTransitionAudit` | `updateManagedOrderStatus`, `updateOrderWithInventory` | The status is read in one statement and written in another; nothing locks the row in between |
| Payments (`payments/`) | `Payment`, `PaymentTransaction`, `PaymentWebhookEvent` | `createOrderPaymentIntent`, `processPaymentWebhookJob` | Two writers of one payment and one order; retries of half-done jobs; a timeout that does not stop the job |
| Webhook intake (`payments/`) | `PaymentWebhookEvent` rows and the queue | `receiveStripeWebhook`, `enqueuePaymentWebhookProcessing` | Repeated and concurrent deliveries; a failure between row and job |
| Queue (`src/packages/queue`) | BullMQ jobs | attempts, `runWithTimeout`, job ids | The attempt after a timeout runs beside the one that timed out; a job of a known id is ignored |
| Cart (`cart/`) | `Cart`, `CartItem` | find or create the active cart; add, update, remove, clear | Find-then-insert twice over: of the cart and of its row; no index keeps a second active cart out |
| Checkout (`checkout/`) | `Order`, `OrderItem`, stock of `Product` and `ProductVariant`, `Cart.status` | `createOrderFromCart` | A transaction that writes values computed before it began |
| Stock restoration (`orders/orders.repository.ts`) | stock | `restoreStockForOrderTransaction` | Read-modify-write under READ COMMITTED |
| Catalog (`catalog/`) | `Product`, `Category`, `ProductImage` | create, edit, publish, archive; images and the main one; public listings and pages | Status derived from stock that was read; a main image decided from a count |
| Shipping (`shipping/`) | `ShippingMethod`, `Shipment` | create, edit, options of a subtotal, `createShipment` | Limits checked against fields another request changes |
| Domains (`domains/`) | `StoreDomain.status` and certificate fields | register, verify, sync, remove; DNS and SSL jobs; `resolveHost` | Jobs that write the status of a domain removed or re-hosted meanwhile; a job that re-queues itself |
| Auth (`auth/`) | one refresh hash per user, flow tokens | register, login, refresh, logout, verify, reset | Check-use-consume in three statements |
| Stores (`stores/`) | stores, members, invitations | open a store, invite, change role, remove | Check-then-insert |
| Notifications (`notifications/`) | `Notification.status`, mail jobs | enqueue, process | QUEUED written after the worker may have written DELIVERED |
| Baselinker (`baselinker/`) | sync rows, import and catalog watermarks | export, import, labels, catalog sync | A crash between pushing and recording; a watermark that moves past what it did not see |
| Rate limit (`platform/security`) | one process's buckets | `consume`, sweep | Sweeps between counts; fixed windows |
| Admin (`admin/`) | none of its own | reports for the platform's admins | Who sees what after the session changed |
| Dashboard (`src/apps/web-dashboard`) | browser session, selected store, open console and its form; the onboarding form | sign in and out, switch store, load, save | Answers applied to whatever is on the page when they come |
| Storefront (`src/apps/web-storefront`) | cart session, cart and badge shown, options, order | add, change, ask for options, submit | Answers that cross; prices that change behind the page |
| Audit, health, integrations, logging, configuration | append-only logs, probes | | Nothing of their own |

Calls and shared state: the storefront's session has an active cart; checkout
converts it, takes stock and creates the order and its shipment; a payment
intent links a payment to the order; the gateway delivers events to the intake,
which queues a job; the job moves the payment and the order, queues mails, and a
closing order gives stock back; the dashboard moves the order and its shipment,
writes the catalog, the shipping methods and the domain, whose jobs run in
queues of their own; the pollers of Baselinker read and write orders and
products. All of it goes through database rows that every handler reads and
writes without a lock around the pair.

Every hazard found, with the line where it bites and the property that would
catch it, is in `PROJECT.json` under `hazards`.

## 2. Modules

| Module | What it is |
|---|---|
| `OrderRules` | The pure rules of orders and payments: statuses, both transition tables, what a gateway event asks for, which writes restore stock, which timestamp each fills, the shipment's next status |
| `OrderPayments` | One order, its payments, events, jobs, dashboard requests, one action per database statement |
| `OrderMilestones` | Abstract: the milestones an order's timestamps record, reached in order and never taken back |
| `WebhookIntake` | How an event gets from the gateway to one queued job |
| `EventQueue` | Abstract: an event's row is stored once and its one job queued. `WebhookIntake` implements it and `OrderPayments` starts from it |
| `RetriedJobs` | Abstract: the queue's policy, a job tried again until it succeeds or has failed so often. `OrderPayments` and `Notifications` implement it |
| `Checkout` | Carts, checkouts, restorations and catalog screens over the stock of one store |
| `Warehouse` | Abstract: reserve what is free, give back exactly that, count by hand |
| `CartSessions` | Which cart a session or an e-mail has |
| `Catalog`, `Gallery` | The merchant's products, categories and images, and the public's pages of them |
| `Shipping`, `Storefront` | Shipping methods; a shopper's tabs on them, the cart and the order |
| `Shop` | What the modules of the catalog, shipping, carts of sessions and tabs promise together, and their types |
| `Domains` | A custom domain, its jobs, and which store a public host reaches |
| `PublicHosts` | Abstract: who holds a host, which is served only certified and after it was found to point at its store |
| `Notifications` | A notification's row and its job |
| `Members` | Stores, addresses, memberships, invitations |
| `Accounts` | Refresh sessions and flow tokens |
| `BaselinkerOrders`, `BaselinkerCatalog` | Runs that exchange orders and products with Baselinker |
| `RateLimit` | The buckets behind the API's 429 answers |
| `Dashboard`, `AdminConsole`, `Onboarding` | A tab on the dashboard, on the admin area, and the form of a first store |
| `Console` | What `Dashboard` and `AdminConsole` promise together, and their types with `Accounts` and `Onboarding` |
| `Server` | The types of the server's components that share no state with the order |
| `OrderPaymentsProofs`, `WebhookJobsProofs`, `SerialOrderProofs` | Proofs about `OrderPayments`: whatever interleaves; what jobs and their retries leave; one read-then-write window at a time. Each extends the one before |
| `CheckoutProofs` | Proofs about `Checkout`: whatever overlaps; requests that do not overlap, and `Warehouse` |
| `DomainsProofs`, `ServerProofs`, `ConsoleProofs` | Proofs about `Domains`; `WebhookIntake`, `Notifications`, `Members`, `BaselinkerOrders`, `BaselinkerCatalog` and `RateLimit`; `Accounts`, `Onboarding`, `AdminConsole` and `Dashboard` |
| `ShopProofs` | Proofs about `Shop`: shipping methods, the catalog and its pages, galleries, carts of sessions, the shopper's pages |
| `MCOrderPayments`, `MCCheckout`, `MCWebhookIntake`, `MCServer`, `MCShop`, `MCConsole`, `MCJobs` | Instances for TLC |

`MCServer`, `MCShop`, `MCConsole` and `MCJobs` hold several components that
share no state: a behaviour is one of `Components` running (`running`), the
others as they began, so a run checks each alone without the product of their
states. Components that do share state are one module: `Storefront` extends
`Shipping` and goes on writing its methods, `OrderPayments` holds requests, jobs
and dashboard. `StateOfRunning` (a VIEW) leaves out only what stays as it began.

Definitions named as mutants in their comments are not part of any `Next`.
Each is a plausible bug, and each property is known to fail when its mutant
takes the place of the definition it follows.

### OrderPayments and the code

A handler is a row with a `pc` and what it has read; an action is one awaited
statement, with everything synchronous around it.

* `intent` is `createOrderPaymentIntent`: read the order (`ReadPayableOrder`),
  create and link a payment, open the intent at the provider, then
  `transitionPaymentStatus` and `transitionOrderStatus` (read, write, audit
  each) with the transaction row in between.
* `run` is one execution of `processPaymentWebhookJob`. `run[<<e, n>>]` is the
  n-th attempt at event `e`; after `TimeOut` the attempt goes on and the next
  may start, as with `runWithTimeout`'s `Promise.race`. `StatementFails` is a
  rejected statement; where it goes depends on whether the try block has begun.
* `request` is `updateManagedOrderStatus`: read, write the order (with its stock,
  in one transaction), write the shipment from the shipment that was read,
  audit.
* `gateway` and the guard of `EventArrives` are the provider's side: which
  events an intent may still produce. It is outside the repository, modelled
  from how the adapter and the webhook use it: a declined intent stays open, a
  captured one may be refunded.
* `restored` counts the transactions that put the order's stock back. What such
  a transaction does to stock is in `Checkout`.

`WebhookIntake` ends where `EventArrives` begins: an event's job is queued once. Both
modules are shown to implement `EventQueue`, which is all that the one takes from
the other.

### Checkout and the code

A call is one HTTP request. `product`, `variant` and `rows` in its row are what
it has read. `CommitCheckout` is the transaction of `createOrderFromCart` in one
step: it writes only values computed before and reads nothing it decides on.
The restoring transaction does read inside, so its rows are steps, invisible
until `CommitRestore`, with `Unlocked` for PostgreSQL's row locks and
`RestoreAborts` for deadlock and time limit. The order in which a transaction's
writes to one product land (`LastOfProduct`) is left open.

`OrderPayments` says which handlers decide to close an order and how often;
`Checkout` closes an open order and says what that does to stock. The two
overlap in that decision only: the double decision of two handlers is a subject
of `OrderPayments`.

### CartSessions and the code

A visit is `createCart` or `addItem`: `ensureActiveCart` looks by session, then by
e-mail, then creates (`FindBySession`, `FindByEmail`, `CreateCart`), each a
statement; `AddPiece` writes the item, `AnswerVisit` is the last read, which
finds only an active cart. `BeginOrder` and `CommitOrder` are the checkout's
lookup (by session or by e-mail, never both) and its transaction. `twinned` and
`caught` name what two requests can lose: a cart made twice, an item added to a
cart that is being ordered.

### Catalog, Gallery and the code

`BeginCreateProduct`, `BeginUpdateProduct` and `BeginSetStatus` are a request up to
its last check, `WriteProduct` its write, which fails on a duplicate slug or SKU;
`mixed` names products written while another request held what it read.
`PublicProducts`, `PageOf`, `NextPage` and the rest are the public listing as pure
operators over the rows. In `Gallery` a request counts or looks first
(`BeginUpload`, `BeginAlter`, `BeginRemove`) and its transaction writes later
(`CommitInsert`, `CommitAlter`, `CommitRemove`); `blurred` names products whose
images two requests changed at once.

### Shipping, Storefront and the code

`Shipping` judges a method's limits on what it read and writes later (`twisted`
when two do). A `Storefront` hop is one fetch of the browser: sent, served by the
API, its answer received by the tab in any order. `Submit` sends what the page
shows; `ServeOrder` prices what the API holds. `outrun` marks tabs that show
what another tab, the merchant, or a failed or crossed answer changed; `spent` those
whose own page has made its order: it goes on showing the cart it sold, and
`ShownCartIsCurrent` says so rather than leaving it out. `lost` marks orders whose
page was left or whose request failed.

### Domains and the code

A row is named by its store: a store has one custom domain row, which removal
marks and registration brings back. A registration is a request that adds jobs
(`RegisterFindsHost`, `RegisterFindsOwn`, `RegisterWrites`; `Verify`,
`MarkVerifying`, `QueueVerification`; `SyncSsl`), a task a job of one of the three
queues: `TakeDns`, `ResolveCname`, then `DnsMatches`, `DnsDiffers` or `DnsBreaks`;
`TakeProvisioning` or `TakeSslStatus`, `WriteSslStatus`, `QueueRecheck`,
`Announce`. `ResolveHost` and `PublicStore` are what the host middleware does with
a public request. `replaced` and `lost` name stores whose row was removed and
those for which a job was lost.

### Notifications, Members, Accounts and the code

`Notifications`: the request (`CreateRow`, `AddJob`, `MarkQueued`, `MarkMailFailed`)
and the worker (`TakeMail`, `SendMail`, `SendAgain`, `RecordDelivered`,
`RecordRefused`) write one row; `Swallowed` is the queue ignoring a job whose id
(template, recipient, clock) it has. `Members`: a store is made by registration,
by a request or by the fixtures route (`TrySubdomain`, `MakeStore`), and an
invitation looks for a pending one, a user and a membership before it writes
(`InviteMember` to `PendInvite`). `Accounts`: a refresh token is named by the
second it was signed in, since that is what changes in its payload; `Register` to
`MailToken` issue tokens, `Login` and `Refresh` sign and store the one session,
`ResolveToken`, `UseReset` or `UseVerification` and `ConsumeToken` use one.

### Baselinker, the rate limit and the code

A run takes its batch and then makes a call and a record per order
(`PushOrder`, `RecordExport`; `AskOrders`, `FindOrderSync`, `RecordImport`,
`EndImport`) or per product (`SendGood`, `EndSync`); `RunDies` and `SyncDies` stop
one anywhere. An import asks for what came since the last one ended; without one, the
first time or after the configuration was deleted, since `WeekAgo`, `FirstReach`
moments back (seven days in the code, whatever was placed before). `doubtful`,
`overlooked`, `bygone` and `passedBy` name what the code does lose: an order pushed
and not recorded, one that came while an import ran, one too old for an import
that followed none, a product changed while a run was under way or beyond its
batch. `Consume` and `Swept` are
`consume` and `cleanup`.

### The browser and the code

`Dashboard`, `AdminConsole` and `Onboarding` are state machines of a React tree: a
request is sent by a handler or an effect, served, and its answer is given to the
handler that waits, if it is still mounted. `Render` is the effects that run when
token, store or section change. Values are named by what they are of: rows by
their store, a list by the token it was read with. `overtaken`, `astray` and `hasty`
mark what an answer of before has left behind.

## 3. Runs

Deadlock is not checked: a system whose requests have all ended stops.

| Run | Instance | Shows |
|---|---|---|
| `interleaved` | 2 intents and an event, or 1 intent, an event and 3 dashboard requests; every interleaving | `FulfilledOnlyIfPaid`; `OrderIsSound` (milestones in order, the shipment behind them, a closed order released stock, references resolve, job and row agree); refinement of `OrderMilestones` |
| `serial` | 2 events, 2 attempts with failing statements, 1 dashboard request; one read-then-write window open at a time | `TablesAreFollowed` (both transition tables, PROCESSED is final), stock put back exactly once, a capture stays visible, one record and one notice per event |
| `v_capture` | 2 events of one intent, fairness | *Violation*: a card accepted after a decline never reaches the order |
| `checkout_interleaved` | 1 product in 2 variants, 1 cart, 5 calls, every interleaving | Stock never negative; `CartsHold` (a cart converted exactly with its order, one row of a variant) |
| `checkout_serial` | 2 products, 2 carts, 5 calls that do not overlap, hand counts | Refinement of `Warehouse`; `NothingIsSoldTwice` (one order per cart, what is offered has stock); withdrawn products stay so |
| `checkout_v_variants` | 3 calls that do not overlap | *Violation*: two variants sold, one deducted from the product |
| `intake_v_answered` | 1 event, 2 deliveries, the queue failing | *Violation*: an answered event that nothing queues |
| `jobs_settle` | Webhook jobs (1 event, 2 attempts, failing statements, timeouts), domain jobs (1 store, 2 hosts, 2 registrations, 2 tries, a loss), mails (2 with one job id, 2 sends); fairness | `EventsAreAppliedWhole` (nothing recorded or called processed before both transitions were made and audited); `JobsRunTheirCourse` (refinement of `EventQueue` and `RetriedJobs`, and every job settles); `MailsRunTheirCourse` (refinement of `RetriedJobs`, and every mail ends); every row and domain settles |
| `server_safety` | 7 components, each with 2 actors: 2 stores and 5 hosts, 1 mail over 2 ticks, 2 people and 2 stores, 1 order and 2 of Baselinker's over 2 moments, 2 products over 3, 2 callers over 2 windows, 2 events in 3 deliveries | One store per host and refinement of `PublicHosts` (what is served was proven and has its certificate), mails are accounted for, memberships sound, both sides of Baselinker agree, the limit holds, refinement of `EventQueue` (one job per event) and `StoredIsQueued` |
| `server_v_removed` | The domains of `server_safety` | *Violation*: a registration that goes on after the removal takes a domain out of REMOVED |
| `shop_safety` | 2 products and 2 editors, 2 images and 2 requests, 2 methods and 2 merchants, 1 tab with 2 requests and a merchant, 2 carts and 2 requests | `OffersHold` (promotions, pages, main images, limits), `CartStays` (a page shows the API's cart, or after its own order the cart it sold), an order costs what was shown, success has its intent |
| `console_safety` | 1 account with 2 requests and 2 flow tokens, 2 users with 2 stores in every console, 2 staff in every section, 3 slugs and 2 checks | Tokens work once, a reset ends sessions, pages show their user and their store, the slug sent was seen free |

**Merged properties.** `OrderIsSound`, `TablesAreFollowed`, `CartsHold`,
`NothingIsSoldTwice`, `EventsAreAppliedWhole`, `MailsAreAccountedFor`,
`MembershipsHold`, `BaselinkerAgrees`, `OffersHold`, `CartStays`,
`FlowTokensHold`, `PagesShowTheirUser`, `JobsRunTheirCourse`, `MailsRunTheirCourse`
and the type invariants of `Server`, `Shop` and `Console` are conjunctions of named
parts, each stated with its own comment where it is defined. What a refinement
entails of its abstract specification is stated there and proved
(`HostsAreKept`, `GivenUpAtTheLimit`) and needs no run of its own.

**What the code does not keep.** Many properties except what a history variable
names (`mixed`, `twisted`, `blurred`, `twinned`, `caught`, `outrun`, `spent`, `overtaken`,
`doubtful`, `overlooked`, `bygone`, `passedBy`, `shared`, `crossed`, `raced`, `tangled`,
`replaced`, `lost`, `mailBroken`, `flowBroken`, `hasty`). Each is set by the narrowest
cause that the code leaves open, an overlap of two requests on one row, a failure
between two statements or a crossed answer, and by nothing else; each is needed,
for the property fails without it. What is left is what the code does guarantee:
that nothing *else* breaks it. The race a hazard names may be exactly what is
excepted, or what `SerialSpec` excludes (`tangled`, `raced`, `blurred`, `passedBy` and
the serial runs below): there the code has no protection, and the property says
how far the damage goes, not that the race is harmless.

**Bounds.** Three dashboard requests are what it takes to go from an approved
payment to delivery; two events are a decline and a capture, or a capture and
its refund; two attempts are a retry. `TwoCustomersOrDashboard`, a bound on the
steps of `interleaved` (`BoundedSpec`), keeps its two most expensive kinds of
concurrency apart; the proofs have no such bound. Four or five calls are two
additions, two checkouts and one more. `MaxQuantity` is one piece because the
last piece is what calls compete for. Elsewhere two requests are what an overlap
takes, one failure (`MostLosses`, `MostFailures`, `MostBreaks`, `MostDrops`,
`MostRefusals`, `MostOutages`) what a partial failure takes, and clocks
(`LastTick`, `LastMoment`, `LastMinute`, `LastSecond`, `LastTime`) have as many
values as tell before, same and after apart. `MostCarts` is a cart and its
successor, `MostPieces` an item ordered and one that comes late. `PageSize` is one so
that two products make two pages. `FirstReach` is 0, so that of two
moments the earlier is too old for a first import; the proof has any other. Batches (`ExportBatch`, `GoodsBatch`) are one so
that two items overflow them. Symmetry is over actors and rows no definition tells
apart, and is not used where liveness is checked.

**Serial runs.** `OrderFollowsTable`, `PaymentFollowsTable`,
`StockMatchesStatus`, `CaptureIsNotForgotten`, `OneRecordPerEvent`,
`OneOrderPerCart`, `WithdrawnStaysWithdrawn`, `ActiveHasStock` and
`ImplementsWarehouse` are false when handlers overlap: the code checks what it
read and writes unconditionally. A webhook and the dashboard can overwrite
CANCELED with PAYMENT_APPROVED, two checkouts can sell the same piece, and an
attempt that timed out and its retry can record one event twice; each shows when
the configuration names `Spec` instead of `SerialSpec`, or lets jobs time out.
`SerialSpec` says what the code guarantees otherwise. In `OrderPayments` it still
interleaves everything but the windows between a status read and the write that
follows from it; in `Checkout` one request is over before the next begins.
`OneRowPerSku` needs no such restriction for variants, which the unique index
protects; a product without variants gets two rows from two overlapping
additions, its `variantId` being null. Two overlapping intent requests create two
payments of one order; `ReferencesResolve` is what still holds of them.

**Fairness.** Only what the API itself goes on with is weakly fair: a worker's
steps with the job it has taken and the jobs that wait (`RunStep`, `TaskStep`,
`SendingStep`: BullMQ hands queued jobs out, and an awaited statement returns or
rejects) and the statements of a request that has begun (`RegistrationStep`,
`EnqueueStep`). Customers, merchants, the gateway, the provider's verdicts,
failures, timeouts and dying workers are never forced. `DomainSettles` therefore
leaves out hosts whose certificate the provider never finishes.

## 4. What is proved

For any number of actors, events, attempts, products, carts, mails, accounts,
stores and requests of a page, with the assumptions the modules name
(`ConstantsAssumption`, `CheckoutAssumption`, `IntakeAssumption`,
`DomainsAssumption`, `NotificationsAssumption`, `AccountsAssumption`,
`MembersAssumption`, `BaselinkerOrdersAssumption`,
`BaselinkerCatalogAssumption`, `RateLimitAssumption`, `OnboardingAssumption`,
`AdminAssumption`, `DashboardAssumption`, `CatalogAssumption`,
`GalleryAssumption`, `ShippingAssumption`, `StorefrontAssumption`,
`CartSessionsAssumption`, all evaluated by TLC). The bounds of section 3 are no hypotheses, except where a
bound is in a guard, and then it is an arbitrary one. Further hypotheses are
named with the theorem. Hardly any property is inductive: a handler writes from
what it read earlier, so each invariant says what of that reading is still true.

**Orders and payments**

* `OrderTypes`: type correctness of `OrderPayments`.
* `OrderSafe`: `FulfilledOnlyIfPaid`, `MilestoneChain`,
  `ClosedOrderReleasedStock`, `ShipmentFollowsOrder`, `ReferencesResolve`. The
  invariant `IInv` adds what was true when the status was read and stays true:
  timestamps are never cleared, captures never undone, `restored` never falls,
  so a status some handler has read stays backed by them (`OrderOK`, `PaidOK`,
  `ShipmentOK`), and rows once referred to exist (`RefsOK`).
* `MilestonesRefined`: `OrderPayments` implements `OrderMilestones`. Each step
  writes at most one row, so it reaches at most one milestone, in an order
  `IInv` allows.
* `EventsWhole`: `EventsAreAppliedWhole`, with failing statements and with
  executions that outlive their job. `AppliedOK` says, for each place an execution
  can be at, which of its two transitions are made and audited; audits and
  transactions only grow, so what held before a failure holds at the retry.
* `EventsOnce`, **if no job times out** (`JobsTimeOut = FALSE`):
  `OneRecordPerEvent` and `ProcessedIsFinal`. `OnceOK`: past its load an execution
  is the only one at its event, and what it is about to write nobody has written.
  With a timeout two executions share an event, and TLC finds it recorded twice.
* `OrderSound`, **if no job times out and the statements that load the event, mark
  it and write its failure do not fail**: all of `OrderIsSound`. Only
  `JobAndRowAgree` needs the hypotheses: the first two are outside the try block and
  the last is the catch block's own, so their failure ends the job and leaves the
  row as it was.
* `SerialSafe`, of `SerialSpec`: `StockMatchesStatus` and `CaptureIsNotForgotten`;
  `SerialTables`, **if no job times out**: `TablesAreFollowed`. `SerialOK`: the one
  handler whose window is open holds the status the row has (`IntentFresh`,
  `RunFresh`, `RequestFresh`), so what it compared with the table is what it
  overwrites; and a recorded capture is shown.

**Checkout**

* `StockSafe`: `Checkout` never writes a negative stock, although it may write a
  stale one: what a call writes is what is left of the number it compared with.
* `CartsConverted`: a cart is CONVERTED exactly when an order was made of it.
  `CartsSafe`, **if every sku is a variant** (`Variants = Skus`): `CartsHold`, that is
  also one row per sku, which only the unique index keeps. `CartsOK` gives each row
  one name and each call what it still knows of its cart (`CallFits`).
* `SoldOnce`, of `SerialSpec`: `NothingIsSoldTwice` and `CartsHold`, with or without
  variants. `WithdrawnIsKept`: the action property `WithdrawnStaysWithdrawn`.
  `SerialOK`: the one request at work holds the cart and products as they are
  (`SerialFits`).
* `WarehouseImplemented`, of `SerialSpec`, **if no two skus share a product**
  (`SoldAsOne`; true of every catalog without variants, `PlainIsSoldAsOne`):
  `Checkout` implements `Warehouse`. `RestoreFits` says what a restoration that is half
  done has added up. The hypothesis is needed: two variants of one product are
  the finding `checkout_v_variants`.

**The server's other parts**

* `IntakeSafe`: at most one job per event, nothing answered or queued that is
  not stored, and `StoredIsQueued`. The invariant says that past the unique index
  a request is alone with its event.
* `MailsSafe`: `MailsAreAccountedFor`: however often a job is lost, stalls or is
  repeated, a mail goes once unless its worker broke, and the row tells what
  became of it unless the worker overtook the request. `MailsOK` relates the row,
  its job and the request at each of their stages (`MailFits`), and says which mail
  waits for which to be done (`LinksOK`).
* `HostsSafe` and `ServedSafe` (`DomainsProofs`): whatever registrations,
  removals, DNS and SSL jobs do to each other, a host and a subdomain have one
  store, and what is served has its certificate and was looked up. The invariant
  `DomainsIInv` says what each job in flight may still write: the row it will
  write exists, and, for a store whose row was never removed, the host it read
  is still the row's and it is past a lookup that named the store. For a store
  that replaced its domain none of that holds, and `FirstHostIsProven` does not
  claim it.
* `HostsRefined`: `Domains` implements `PublicHosts`, from `DomainsIInv`, and
  `HostsKept`, what follows of it for whoever trusts a served host. A step is one of
  `Claim`, `Find`, `Serve`, `Suspend`, `GiveUp` or `Tell`, or changes nothing the
  public sees; the jobs' steps (`JobsPublish`) need that a row in flight is still
  there and that an SSL job of a store with its first host is past its lookup.
* `RoomForJobs`: `JobsHaveRoom`, of `Domains`. A job that another job adds takes
  the place of that one, which is done; every other is added by a request that is over, so
  there are at most as many of the one as of the other (`RoomOK`), and with as many
  tasks as registrations, which `DomainsAssumption` asks for, the set of tasks cuts
  no behaviour off.
* `IntakeRefined` and `QueueFollowed` (`OrderPaymentsProofs`): `WebhookIntake` and
  `OrderPayments` both implement `EventQueue`. The first needs that past the unique
  index a request is alone with its event; the second that no retry, time-out or
  late execution adds a job or takes one away (`QueueKept`).
* `JobsRetried` (`OrderPaymentsProofs`) and `MailsRetried`: webhook jobs and mails
  implement `RetriedJobs`. An execution that outlives its time ends without effect on
  its job, because the queue has gone on to another attempt (`IsActive`); a mail's
  worker that dies costs one attempt, and a mail that is not given up has one left
  (`TriesOK`). `JobsGivenUpAtTheLimit` and `MailsGivenUpAtTheLimit`: given up after
  exactly the policy's number of failures.
* `ServerTypes`, `ShopTypes`, `ConsoleTypes`: the type invariants that the runs check,
  each component's in every behaviour of it.
* `AccountsSafe`: `FlowTokensHold` and `ResetEndsSessions`. `AccountsOK` says what
  every request in flight has read of its account and its token (`CallFits`), which
  sessions and tokens a user may have (`UserFits`, `TokenFits`), and that a purpose
  has one live token unless two were issued together (`OneLiveToken`).
* `MembersSafe`: `MembershipsHold`. `MembersOK` has a part per row, per store and
  per request (`RowFits`, `ShopFits`, `AddressFits`, `TargetFits`, `InvitationFits`)
  and says that a member is not also invited (`MemberNotInvited`). It relies on the
  candidates for a subdomain being distinct, as the numeric suffix makes them.
* `BaselinkerSafe`: `BaselinkerAgrees`. `BaselinkerOK` says of each order not in doubt
  that one run at most holds it, that nothing at Baselinker was made from it before
  that run pushed it, and that what was made is recorded or about to be
  (`ExportedOnce`); of each import that what it will not look up any more is known
  (`ImportFits`); and of rows, labels and runs that they name the order it was made
  from (`RemoteFits`, `RunFits`). A row that an import overwrites is what makes
  `doubtful` more than a list of failures. An import that follows none asks for
  nothing from before `WeekAgo`, so `ImportFits` promises only what is not `bygone`.
* `CatalogSafe`: `CatalogUpToDate`. `CatalogOK`: what a run has neither to send nor left
  behind is at Baselinker as it stands (`SyncFits`), no time stamp is ahead of the
  clock, and a configuration that is gone leaves no time of a run.
* `LimitSafe`: `LimitHolds`, for any limit, window and sweeping. A count alone does
  not say when its requests came, and a window that was swept leaves nothing
  behind; `RateLimitOK` therefore says that every request let through can be given
  the beginning of its window so that windows do not overlap, none holds more than
  the limit (`Spaced`), and the bucket there is counts the last ones (`LastIn`). A
  stretch as long as a window meets two windows at most, so the first request of
  it and the one two limits later are further apart than the stretch is long.

**The shop**

* `OffersSafe`: `OffersHold`, of four parts. `LimitsInOrder` (`ShippingOK`) and
  `PromotionIsLower` (`CatalogOK`): a request that nobody wrote past still fits the
  row it was judged with. `OneMainImage` (`GalleryOK`): as long as one request
  alone changes a product's images, the images it saw are the product's, and of
  those a removal leaves exactly one comes first (`OneIsFirst`: the one that the
  fewest precede, since ages differ). `PagesCoverTheListing`, for every page size:
  the number of products before one is a bijection to the places 0 to n - 1
  (`PlacesAreFilled`), because the order of each sort is total, and dividing by the
  page size puts every place on one page and fills every page (`LastPage`).
  `LimitsSafe` states the shipping methods' part with their types.
* `ChargedSafe` and `IntentSafe`: `ChargedAsShown` and `SuccessHasIntent`.
  `StorefrontOK` says of each request what its tab still waits for (`HopFits`), of
  each tab that is not `Stale` (`outrun` or `spent`) that it shows what the API has or
  that the answer that makes it so is on its way (`TabFits`), and of each order that
  its intent is there, on its way, or lost (`OrderFits`).
* `CartsStay`: `CartStays`. Its first half is `ShopperKeepsCart`; `CartSessionsOK` says
  that what a visit has not found is still not there unless two sought it at once,
  and that a checkout closes what it saw (`VisitFits`). Its second half is
  `ShownCartIsCurrent`: a page shows the API's cart until it makes an order, and
  after it the cart it sold, while the API has none. `StorefrontOK` gives the first;
  `SpentOK` the second, since no page loads its cart twice and none can order before
  it has loaded one.

**Pages of the dashboard**

* `OnboardingSafe`: `SentSlugWasFreeOnceChecked`. `OnboardingOK`: once the timer of
  the slug has fired the form has asked about that slug, and a success it shows is
  that slug's own when no check of it is left to be answered.
* `AdminSafe`: `AdminRowsAreAdmins`. `AdminOK` says of each request what it is to
  the session that will be given its answer (`QueryFits`): a request that opens a
  session is alone and finds no user, one that refreshes or reads rows carries the
  token the page holds, and only what was asked before the session was left is an
  earlier one's. Sections wait only where a section is shown, and what was read for
  them was read by an admin, because the guard asked the token.
* `DashboardSafe`: `ShownUserHoldsToken` and `ConsoleShowsItsStore`. `DashboardOK` has
  the same part for requests (`FetchFits`) and one for the console (`BoardFits`): as
  long as it waits for a load nothing is promised, every change of store starts a
  load but on the orders console, and the last answer was its store's own unless
  it is marked astray.

* `PagesSafe`: `PagesShowTheirUser`, from the two before. An earlier session's
  answer is excluded in both (`overtaken`): TLC shows that it can show one user with
  another's token.

TLC checked each of these invariants on the component's instance before it was
proved.

**Only model-checked.** Liveness, because fairness and ENABLED are out of the
prover's reach: `RowsLeaveProcessing`, `DomainSettles`, and of `JobsRunTheirCourse` and
`MailsRunTheirCourse` the parts `JobsSettle` and `EveryMailSettles`. Every invariant,
action property and refinement the passing runs check is proved.

## 5. Findings

Four disagreements between the code and its documents, each with a run that ends
in a counterexample: `v_capture`, `checkout_v_variants`, `intake_v_answered`,
`server_v_removed`. `PROJECT.json` quotes the documents.

Observed and not a run: `hasActiveDomain: z.coerce.boolean()`
(`admin/admin.schemas.ts:26`) reads the query `"false"` as true, so the admin area's
option for stores without an active domain lists those with one. After an order the
page neither empties its cart nor emits the cart update
(`src/apps/web-storefront/src/components/checkout-shell.tsx:158-166`), so page and
badge go on showing what was sold and the form can be sent again; the API refuses it.
An import of Baselinker's orders without an earlier one reaches back seven days
(`baselinker/baselinker-order-sync.service.ts:111-113`), and the next starts at
its end, so older orders are never imported, after `deleteConfig` too. Adding,
moving or removing a product's image does not touch the product's `updatedAt`, so the
catalog run does not notice it.

## 6. Not modelled

Amounts, currencies, addresses, texts, the bytes of images, password hashing,
the signing of tokens and the signature of webhooks are data or preconditions.
Health probes, logging, configuration and shared types keep no state. Of the
admin area the rows of its reports are abstracted to who read them; its
`updateStoreStatus` is one unconditional write that no page asks for and nothing
reads. `syncOrderStatus` of the Baselinker integration and `findActiveCartByUser`
have no caller. Of the frontends, layout and themes, the settings' list of sent
notifications and a user without memberships are left out, and so is the image that a product's row
carries to Baselinker. PostgreSQL is modelled
at READ COMMITTED as the code uses it; serialization failures appear only as
failing statements. What a job's backoff waits for is left out. A checkout
refused after its reads (no shipping method, a negative total) changes nothing; it
is a call that never commits. `src/design_projeto_final` is vendored.

## 7. Plan

`OrderPayments` with the mails of `Notifications` in place of the set `notices`: the
two are proved apart, and meet in `Notify` only.
