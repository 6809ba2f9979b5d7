# A TLA+ model of mall

`mall` is a commerce server in Go: one process (two replicas in
`deploy/k8s/deployment.yaml`) that keeps its data in Postgres, caches it in
Redis, sends events over NATS JetStream and lets DTM run its distributed
transactions. It is called over REST, MCP, a checkout websocket (ECP) and A2A,
and it calls Stripe. Nearly every write in it has the same form: load an
aggregate (from Redis, else from Postgres and into Redis), change it in memory,
write the whole row back, delete the cache key, publish an event. No lock,
version column or transaction spans these steps. What is correct, and what is
not, under that form is the question this project asks.

## Inventory

| Component | State | Operations | Talks to | What makes it correct |
|---|---|---|---|---|
| checkout session (`domain/checkout/checkout.go`) | status, choices, totals, payment ids | setters, MarkReady, Escalate, Complete, Cancel | - | the UCP state machine; totals add up |
| checkout service and repository (`domain/checkout/service.go`, `infrastructure/checkout`) | row, Redis copy | one method per operation | Stripe, mandate verifier, NATS | no unpaid completion, no announcement without a save, a coherent cache |
| checkout interfaces (`interfaces/rest`, `interfaces/mcp`, `a2a_skills.go`) | - | handlers that make one to three service calls | checkout service | - |
| order saga consumer (`application/order/dtm_saga.go`, `main.go`) | JetStream position | Handle | orders, DTM | every announced completion is handled, none twice |
| saga endpoints (`interfaces/rest/saga.go`) | - | reserve, release, verify, create, cancel, execute, settle | inventory, payment, orders | a saga leaves an order or nothing |
| mandate saga (`application/payment`) | - | Execute | DTM | an order of a mandate checkout was paid |
| inventory | available, reserved, Redis copy | Reserve, Release, Confirm, Restock, SetStock | - | nothing is sold twice |
| mandates (`domain/payment`) | status, scope, token | request, approve, execute, settle, refund, cancel | wallet validator | charged once, refunded once |
| orders and refunds (`domain/order`) | status, refund row | process, ship, deliver, return, cancel, refund | payment, inventory, NATS | one order per checkout; money and stock return together |
| order webhooks (`infrastructure/order`) | webhooks, delivery log | register, deliver, retry, delete | HTTP | at least once |
| notifications | preferences, notices | notify, edit, mark read | mail | what was opted out of is not sent, the rest is |
| subscriptions | status, period | trial, renew, fail, expire, cancel | charger | one charge per period |
| identity, OAuth | users, reset tokens, codes, refresh tokens | issue, use, revoke | mail | used once |
| cart, discounts | items, usage count | add, update, merge, apply | - | no item lost or doubled, limits hold |
| A2A tasks | task state | send, cancel, resubscribe | skills | terminal states are final |
| breaker, limiter, ids (`interfaces/middleware`, `domain/kernel`) | counters, clock | Allow, Success, Failure, NextID | - | open means closed to callers; ids are unique |
| catalog, reviews, wishlist, fulfillment, analytics, profile, storage, logging | rows or none | CRUD, rendering | - | - |

What is hard here: requests, webhooks, websocket messages and saga callbacks of
two replicas interleave between a load and a save; caches are filled from reads
that have been overtaken; answers to DTM are lost and calls repeated; messages
come twice; a publish or a cache delete fails after the save; two sagas work on
one mandate. `PROJECT.json` lists these hazards at their lines.

## Modules

| Module | Models |
|---|---|
| `CheckoutSession` | the aggregate: each method is an operator from a session to the session it leaves, or `None` for its error |
| `Checkout` | one checkout under concurrent requests: service, repository, cache, Stripe, events |
| `CheckoutLifecycle` | the abstract state machine of the stored status |
| `Order`, `InventoryItem`, `Mandate` | the aggregates of placement and after-sale |
| `OrderPlacement` | from the announcement to the order: consumer, DTM, both sagas, saga endpoints |
| `AfterSale` | the placed order: processing to return, refunds, the life of mandates, stock administration |
| `Subscription`, `Billing` | plans and subscriptions, and the billing worker of every replica |
| `WebhookDelivery`, `Notification` | the two consumers of order events: webhooks with log and retries, notices with preferences |
| `Delivery` | both on one stream of events |
| `Accounts` | users with two cache keys, password resets, OAuth codes and refresh tokens |
| `Cart`, `DiscountCode`, `Task` | the aggregates of `Shopping` |
| `Shopping` | carts, discount codes, and A2A tasks whose skill adds to the carts |
| `CheckoutProofs`, `OrderPlacementProofs`, `AfterSaleProofs`, `BillingProofs`, `DeliveryProofs`, `AccountsProofs`, `ShoppingProofs` | the theorems about the module they are named after |
| `MC...` | instances for TLC |

The modules follow one form. An aggregate is a module of operators. A service is
a module whose handlers take one step for each access to Postgres, Redis or
another system, and hold a copy in between. The interfaces are sets of requests
(or sequences of service calls), one definition for each handler, so the map
leads from every handler to what it may ask. Every module has two
bounds, `MaxRequests` and `MaxFaults`, and history variables only where a
property needs them.

**`disturbed`.** Whole-row saves of copies lose updates; that is known and it is
not what the properties are about. They say what holds *apart* from it: each
module records the rows at which two handlers were at once, or where a fault
left a stale copy or an unfinished step behind, and a property excepts those. A
row is added when a second handler takes a copy while a first one holds
one, when a DEL is lost, or when a process dies owing one - never because an
outcome was wrong. What breaks a property then is one request after another, in
an order nobody thought of, or a cache that lies without a race.

### Checkout

State: `row` is the Postgres row, `cache` the value of `checkout:id:<id>`, `req`
the requests in flight, `stripe` the sessions and intents on Stripe's side,
`sagas` the mandates whose saga DTM has accepted, `published` what was announced
on `checkout.updated`, `committed` the statuses the row has had.

A request is a sequence of calls, taken from the handler that makes them
(`Scripts`): a REST setter is the owner check and then the service call, an ECP
`credentials.submit` is three calls, a Stripe webhook is one. `CalculateTax` and
`MarkReady` are offered by the service and called by no interface; they are
included, so every stored status is reachable. `verifyMandate` stands for both ways of
verifying, with a wallet token and without: the checks are the same. A call runs through

    call -> select -> fill -> apply -> save -> del -> publish

one step each: `ReadCache`, `SelectRow`, `FillCache`, `Apply` (or `CheckOwner`),
`SaveRow`, `invalidateCache`, `Publish`, `Answer`. `Apply` is the service
method: it computes an outcome (the session to save or an error, the events, the
Stripe objects created, the mandate sagas submitted). It is one step although it
talks to Stripe and DTM: it works on the request's own copy, Stripe objects only
ever change from unpaid to paid, and sagas only grow, so a later read within the
step can only see more. `Abort` ends a request anywhere: a cancelled context, a
failing dependency, an expired mandate, a crash. Input refused for its own sake
behaves like a Get.

Amounts are unbounded integers. The code uses int64 and no operation of it
multiplies beyond an item's price; overflow is not a question here.
The tax is 0, because `main.go` wires `DefaultTaxService`.

### OrderPlacement

State: the status of each checkout as far as orders care, the unacknowledged
messages (`queue`), what each server is handling (`consumer`), DTM's sagas by
gid, the inventory rows and their cached copies, mandates, orders. `charged`
remembers which mandates were executed.

DTM is external and modelled from its use: branches in order, a call repeated
until answered, 409 turns a saga round, compensations start with that of the
branch that failed and are repeated until they answer 200. The repository uses
no barrier, so a repeated call is served again. A handler that reads and then
writes takes two steps. `Charge`, `CompleteCheckout` and `OverwriteCheckout` are
the steps of `Checkout` that matter here, the lost update included; of the stale
saves only that of a Cancel is kept, since to the sagas a checkout is completed or not.

The inventory rows have other writers: administrators, who set a count without a look
at what is reserved, and refunds, which restock. `UpdateStock` and `SaveStock` are
their load and their save. So a row may reserve more than there is, and no property
says otherwise. What is said is that the row reserves what the orders hold
(`ReservedIsHeld`). `drifted` collects the products whose count went astray, by
one of exactly three causes: a save over a row that has changed since it was read (a
lost update), a call that DTM makes again, and the release of a line whose
reservation was refused. The other writers of an order row, the customer and the
administrator, come after the sale and are `AfterSale`'s.

JetStream delivers until acknowledged. `Name` without `Durable` makes the
consumer ephemeral, so a restart of everything replays the stream; a crash
before the Ack stands for such replays.

### AfterSale

State: `row` holds the status of orders and mandates and the inventory items,
`cache` the Redis copies of orders and items (mandates have none), `refund` the
refunds table. A request is a sequence of service calls; each runs through
`Load` (Redis, or Postgres and then `FillCache`), `Apply`, `Save`,
`invalidateCache`. `AdminProcessRefund` is the longest: return the order, refund
the mandate, restock every item, record the refund. `Fail` is what the code does
with an error of each: a failed mandate refund is recorded as a failed refund, a
failed restock is ignored, any other error ends the handler, with
what was saved before left as it is. `NewRefund` refuses a total that is not
positive (the client names the prices), and it is asked after the order was saved as
returned: such an order stays returned, with no refund (`RefundCalls`). A refund that gets no
id because the clock went back ends where a crash would end it. `reversed` and `returns` remember which refunds
had their effect.

### Billing

State: the clock, the rows, what each worker and handler is doing. A worker
lists the due subscriptions, loads, charges and saves them one by one, then
lists the trials that are over and works on the copies it has listed. The
charge is one step and its answer is free. `charged` remembers for which period
each successful charge was made, `again` the subscriptions charged twice for one.

### Delivery

`WebhookDelivery`: consumers, retry workers and administrators share `log`, the
delivery log. `Deliver` writes a pending entry and then posts up to `MaxRetries`
times; a post may be refused, or accepted with the answer lost. The retry worker
takes failed entries that are due and delivers each *anew*; the old entry stays
failed, so it is retried at every tick, `Limit` of the oldest at a time. A webhook whose
URL makes no request (`BadURLs`; `NewWebhook` only asks that it is not empty)
leaves an entry pending, which nothing retries. The worker's branch for an inactive
webhook is left out: nothing makes a webhook inactive. Entries no step looks at again are dropped
from the model's log, which keeps it finite. The rows that stay, and those the
retry worker takes, are in the order of the table (`Kept`, `InOrder`): each of these
sets has one element, the sequence in ascending order. `received` counts to two at most.

An event that is not acknowledged comes again, after a crash or after AckWait. The
replay of acknowledged events to an ephemeral consumer, when every
server was down, is not modelled here; it adds receptions and takes none away.

`Notification`: the consumers of order and subscription events send e-mail and
write notices as the preferences allow; a handler edits the preferences in three
steps, and starts from fresh preferences when the row cannot be read. The conversion of the list of types is modelled as it is (`fromPreferences`).
`wish` is what the user has asked for, whatever the row has become.

### Accounts

A user has two copies in Redis. A miss writes both, a save deletes both, one command each.
Reset tokens, codes and refresh tokens are looked up in one
step and spent in another. Whether an expiry has passed is free at every look.
`Lower` is the conversion `NewUser` applies to an email and `FindByEmail` does not: a
customer who registers with capitals and types them again is not found.
`uses` counts how often a secret took effect, `admitted` collects the users
`Login` let in against their row.

### Shopping

Carts go through Redis (`cart:user:`), codes and tasks do not. `SendMessage` runs
the cart skill within the request: submitted, working, the skill's own cart steps,
completed or failed, each state saved, most saves without a look at the error.
`done` remembers the tasks whose item was stored, `uses` how often a code was applied.
A save that fails has not been stored; one that is stored and answered with an error is not modelled.

## Runs

| Run | Instance | Shows |
|---|---|---|
| `checkout_serial` | 1 request at a time, 5 in all, 2 users, no faults | the cache is the row or nothing; `Checkout` implements `CheckoutLifecycle` |
| `checkout_races` | 2 at a time, 3 in all, Redis faults, client-chosen ids, a filled-in checkout paid by Stripe or by mandate | `AdvancedIsFilledIn`, `TotalsAddUp`, `IntentSettled`, `MandateHonoured`, `PublishedWasCommitted` hold in spite of lost updates |
| `placement_stock` | 2 checkouts, 2 products with one unit each, 2 servers, 2 order ids, 1 stock update to 0 or 2 or by 2, stale caches, 1 fault | `ReservedIsHeld`: the rows reserve what the sagas hold, but for the three causes |
| `placement_orders` | 1 checkout with a mandate, 3 order ids, 1 server, stale caches, 1 fault | `AtMostOneOrder`, `OrderWasPaid`, `SagaMatchesOrder`; an announced completion ends in an order or in a saga that turned round |
| `placement_stuck` | 1 checkout, no mandate, no faults, plenty of stock | violation: a saga that turned round never ends |
| `after_sale` | 1 order and one that is free, 1 mandate, 1 product, 2 requests, 1 fault, every combination of 3 order, 3 mandate and 2 stock states at first | a processed refund took its order back and had its mandate refunded; one return per order; the life cycle; the return of an order that cost something is answered by a refund record |
| `billing` | 2 workers, 1 handler, 1 subscription, 2 plans, 3 periods, 2 requests, 1 fault | whoever is in a later period has paid for it; a period is charged twice only after a race or a fault; ended stays ended; due subscriptions and trials do not stay so |
| `billing_past_due` | 1 worker, no requests, no faults | violation: past due for ever |
| `delivery` | 1 event, of an order or of a subscription, 3 webhooks (two good ones, or one with a bad URL, or one yet to register), 1 consumer, 1 retry worker, 1 administrator, 1 user, `MaxRetries` and `Limit` 1, 2 faults, 1 request | a delivered entry was received; once without faults; nothing the user opted out of; every event reaches its webhook |
| `delivery_preferences` | the same | violation: an edit silences everything |
| `accounts` | 2 users, 1 email with and without capitals, 3 requests on 2 handlers, 1 fault | secrets are spent once; logins agree with the row; status and password change only as asked |
| `shopping` | 2 customers, 3 cart ids, 1 product, 1 code for one use, 1 task, 3 requests on 2 handlers, 1 fault | carts change as asked; uses are counted; a task tells the truth and ends once |

Bounds of the checkout and placement runs. Two requests at a time make every race of two; the third, later one
acts on what the race left in the cache. The mandate `m1` covers the cart with
the cheaper shipping option only, so the limit matters. One Stripe object is
enough for an intent or a session to be created, paid and reported; the clash of
two sessions needs a second one and has no property. In `placement_stock` the two carts share one product and
the first holds a second one, so a loop can fail in its middle; each product has
one unit, so there is always competition; there are no mandates, which the rows know nothing of.
`placement_orders` has plenty of stock, so its sagas get as far as the orders; it needs three order ids:
two announcements and one redelivery. With fewer, `Submit` would be disabled
by the bound and not by the code. `MaxFaults` counts lost answers,
crashes, failed publishes, failed reads and stale saves together.

Bounds of the others. With two handlers every race of two happens; a third
request (`accounts`, `shopping`) meets what the race or the fault left in Redis.
`after_sale` has two requests, which is enough for a second refund after a first
one, and starts from many states instead of driving the order there. `billing`
has three periods: one to fall due, one to be charged in, one to see the renewed
subscription fall due again; one plan exists, the other has to be created. In
`delivery` the bounds are the smallest at which the worker starves entries: `Limit` is
1, two webhooks are owed the one event, and with `MaxRetries` 1 two refusals
leave two failed entries, of which the worker takes the older one for ever. (With the code's
3 posts and 50 entries it takes 150 refusals and more.) A fault may also be an
answer that was lost, a failing write or a crash, after which the event comes again. Two things are
out of this instance and covered by the proofs, which are about any number of
consumers and posts: the redelivery to a second replica of an event still in
work, and the second post of one delivery. One event is published, to webhooks and to the
consumer of notices or as a subscription's: the order event is one nobody is
notified of, so notices are those of the subscription event. In the run's initial states the table
holds two good webhooks, or the bad one, or none with one still to come.

All runs turn deadlock checking off: requests, announcements and the clock are bounded, so
every instance comes to rest.
Requests, order ids, servers and, in `shopping`, handlers are interchangeable, hence the symmetry; no
run with a liveness property uses any.

Fairness. `OrderPlacement` assumes weak fairness for each server's consumer and for
each saga's next call: JetStream redelivers and DTM retries without end (no
retry limit is set in the repository), and faults are finite in number.
`AfterSale` assumes that a handler that was started goes on, `Billing` that the
workers' tickers do (`infrastructure/subscription/billing_worker.go` loops on one for ever),
`Delivery` that webhook consumers and retry workers go on and that thirty seconds pass. A worker is
replaced after a crash by the next pod, so a crash loses what it was doing and
not the worker. Nothing is assumed of customers, administrators, the consumers of notices or the clock of `Billing`.

## The disagreements

* A completion is announced twice by `StartComplete` (one event of `MarkReady`,
  one of `Complete`, both with the final status), and the consumer's check for an
  existing order does not see a saga under way. Both sagas reserve stock; one
  creates the order. The other one fails at the UNIQUE constraint, and its first compensation,
  `CancelOrder`, answers 409 for an order that does not exist. DTM repeats it for
  ever; the second reservation is never released (`placement_stuck`).
* A subscription whose payment was refused once stays past due: the worker
  selects active ones only, and the second attempt the code provides for is never made (`billing_past_due`).
* Preferences without a list of types allow every type; saved, they allow none (`delivery_preferences`).

`IntentSettled` speaks of payment intents, whose status `Complete` asks for. Of a checkout
that was escalated to a Stripe *session* it says nothing: the webhook completes it
when the session is paid, but `Complete`, which the websocket's payment authorization
calls as well, does not ask for a session's status. The model takes that step; no property covers it.

The exceptions the properties make are observations too. `SettledIsKept`
excepts a mandate whose id is given to a new one, because the REST handler takes the id from
the client. `EventIsDelivered` excepts a failing database, because the
consumer acknowledges what it could not look up, a URL that makes no request, and an entry
with `Limit` failed ones before it (`CrowdedOut`): failed entries are never
cleared, so those of a dead endpoint keep all later ones from being retried.
`ReturnIsAnswered` excepts an order whose total is not positive. Without the last two exceptions
both properties are violated in their runs. `ReservedIsHeld` excepts what a lost
update, a repeated call or a refused line did to the count, because the saga endpoints
have neither a lock nor one of DTM's barriers. `RefundIsBacked` says nothing of
the stock, because a failed restock is only logged.

## Proofs

Every invariant and action property that a passing run checks is also a theorem,
for every value of the constants: any sets of requests, handlers, servers,
workers, users, rows and ids, any amounts, any bound on requests, time and faults.

| Module | Theorem | Property |
|---|---|---|
| `CheckoutProofs` | `TypeCorrect` | `TypeOK` |
| | `AdvancedAreFilledIn` | `AdvancedIsFilledIn` |
| | `StoredTotalsAddUp` | `TotalsAddUp` |
| | `CompletedIntentsAreSettled` | `IntentSettled` |
| | `CompletedMandatesAreHonoured` | `MandateHonoured` |
| | `AnnouncementsWereStored` | `PublishedWasCommitted` |
| | `SerialCacheIsCoherent` | `CacheCoherent`, if `OneAtATime` |
| | `SerialImplementsLifecycle` | `ImplementsLifecycle`, if `Serial` |
| `OrderPlacementProofs` | `TypeCorrect` | `TypeOK` |
| | `OneOrderPerCheckout` | `AtMostOneOrder` |
| | `OrdersArePaid` | `OrderWasPaid` |
| | `SagasTellTheTruth` | `SagaMatchesOrder` |
| | `ReservationsBalance` | `ReservedIsHeld` |
| `AfterSaleProofs` | `TypeCorrect` | `TypeOK` |
| | `RefundsAreBacked` | `RefundIsBacked` |
| | `ReturnedOnce` | `OneReturnPerOrder` |
| | `OrdersMoveOn` | `OrderMovesOn` (action) |
| | `SettledStays` | `SettledIsKept` (action) |
| `BillingProofs` | `TypeCorrect` | `TypeOK` |
| | `RenewalsWereCharged` | `RenewedWasCharged` |
| | `ChargedOncePerPeriod` | `OneChargePerPeriod` |
| | `EndIsFinal` | `EndedStaysEnded` (action) |
| `DeliveryProofs` | `TypeCorrect` | `TypeOK` |
| | `DeliveredWereReceived` | `DeliveredWasReceived` |
| | `DeliveredOnceWithoutFaults` | `OnceWithoutFaults` |
| | `OptedOutAreSpared` | `OptedOutIsSpared` |
| `AccountsProofs` | `TypeCorrect` | `TypeOK` |
| | `SecretsAreSpentOnce` | `SpentOnce` |
| | `LoginIsCurrent` | `LoginSeesTheRow` |
| | `SavedAsAsked` | `ChangedAsAsked` (action) |
| `ShoppingProofs` | `TypeCorrect` | `TypeOK` |
| | `UsageStaysCounted` | `UsageIsCounted` |
| | `TasksTellTheTruth` | `TaskTellsTheTruth` |
| | `EndedTasksStay` | `TaskEndsOnce` (action) |
| | `CartsChangeAsAsked` | `CartChangesAsAsked` (action) |

All but two have the form `Spec => []Inv` (or `Spec => A` for an action property)
with no further hypothesis. The two serial ones state what the run
`checkout_serial` is about: the cache is the row, and the stored status walks the
abstract life cycle, as long as requests come one after the other and Redis does
not fail (`OneAtATime`: all requests are the same one, and `~CacheFaults`), for
the refinement also as long as no client chooses the id of a checkout that is there (`Serial`). With
two requests at a time both are false, because of the lost updates. How many
requests follow one another is not bounded.

Assumptions. Each module names those it makes of its constants: ids of different
kinds are different, `None` is nothing else, bounds are natural numbers, rows that
are there at first are ones the program writes (`MandateAssumption`,
`CartsAssumption`, `PlacementIdsAssumption`, `BillingAssumption`,
`InitialSubsAssumption`, `AfterSaleAssumption`, `RowsAssumption`,
`WebhookAssumption`, `NotificationAssumption`, ...). `Delivery` needs a finite number of
webhooks and of processes, since a new entry's id is found among finitely many. TLC
evaluates all of them in the runs.

### The inductive invariants

Each proof module defines `IInv`, one lemma for each action, and the theorems as
consequences. The invariants were checked with TLC on small instances before they were proved.

*Copies.* A save replaces the row by a copy of any age, so no property of a row is
inductive by itself. But it replaces all of the row: no save mixes the columns of two copies. So
`IInv` demands the property of *every* copy there is: of the row, the cached copy and
the copy of each request (`CopyOK` in `Checkout`, `SubOK` in `Billing`, where the list a
worker has made counts too). The steps that move copies about preserve it for free;
only the methods of the service make new ones, and a lemma for each shows that it leaves
a good copy when given one. Facts beside the copies must be stable: a paid
Stripe object stays paid, an accepted saga stays accepted, a charge stays made, a plan
stays there. In `Checkout` the strengthening needs two things the
properties do not say: a copy with a Stripe session id is past `incomplete`, has
handler `stripe` and no intent (so the webhook cannot complete an unpaid intent),
and the tax of every copy is 0.

*Undisturbed rows.* What holds only while nobody else is at a row is stated of the rows
outside `disturbed` (`Calm`, `UserCalm`, `SecretCalm`, `CartCalm`, `CodeCalm`,
`TaskCalm`): at most one handler is at it, its copy is the row until the service has
changed it, and Redis has the row, or nothing, or a key whose DEL that handler
still owes. For the action properties this says that the save writes the row
with exactly the change the request asks for.

*Sagas.* `OrderPlacement`: DTM's position in a saga says what the branches behind it have
done. An order saga past "verify" was paid; one that has not come to "create" has no order; one
that has left "create" backwards has no open one. With what a handler holds between its
two steps this is inductive, since a lost answer leaves the position alone.

*Stock.* The units the sagas hold (`Holding`) are a set of saga, line and number. Each save
either adds the units of one line to it, or takes them away, or is about a product that
drifts with it; `LedgerOK` says that the set is finite and as large as what the row
reserves, and the library's facts on cardinalities do the arithmetic. A stock
update keeps the reserved quantity of the row it has read, and writes it back over that row or over
one that has changed, which is a drift.

*Refunds.* `AfterSale`: while the calls a handler still has to make end in a processed
refund, what is not among them has been done (`CallsOK`).

*Tasks.* `Shopping`: the handler of a message has stored the item exactly while it waits for
the DEL of that save, and until it is through the row says neither completed nor failed.

*Webhooks.* `Delivery`: the id a process holds names, as long as the row is there, the
webhook and the event the process is at (`HoldsItsEntry`); rows come and go under it, but a new row never
gets an id somebody holds. So whoever writes "delivered" has posted what the row names. Without
a fault nothing is ever failed, hence no retry begins, an event is
with one consumer, and the list of that consumer names each webhook once and only
those that have nothing yet (`NothingFailed`).

*Notices.* The row of the preferences allows no more than the wishes uttered so far
(`Obeys`), and the copy of an edit is the row with the change (`OneEdit`), unless
two edits overlapped or a write failed. While an edit goes on no event is calm, so
no wish changes under an event the user is owed silence about.

### Only model-checked

Liveness: `AnnouncedIsHandled`, `DueIsBilled`, `TrialsEnd`, `ReturnIsAnswered`,
`EventIsDelivered`; the prover has no rules for fairness. The three violations are
counterexamples of TLC. Nothing in the models is recursive, so there is no
induction over data that had to be left out.

## Not modelled, and the plan

Left out for good: rendering, logging, metrics, tracing, migrations, dashboards,
the UCP profile, object storage; catalog, reviews, wishlist and fulfillment, which have no rule of their own
beyond the load/save form shown in `Checkout`; handlers that only read, except
where they fill a cache. `MergeCarts`, `SendMessageToTask`, `AppendMessage`,
`AddArtifactToTask`, the REST-style A2A handlers and the in-process saga of
`application/order/saga.go` are not reached from `main.go`. Prices of single items, the amount of a discount and the
texts of mails are data no property tells apart; of an order's total only the sign counts.

The properties that except `disturbed` rows are about calm executions; what happens
in the races themselves is described under the hazards and shown by no property.
Where a property holds in the races too (`IntentSettled`, `MandateHonoured`, `OrderWasPaid`,
`SagaMatchesOrder`, `RenewedWasCharged`, `RefundIsBacked`, `TaskTellsTheTruth`,
`DeliveredWasReceived`), it makes no such exception.

Left:

1. `Resilience`: circuit breaker, rate limiter, snowflake ids of two replicas.
2. `Delivery` with two consumers and two posts of one delivery for TLC as well, once
   its liveness run is small enough for them.
3. A proof that `EventIsDelivered` and its like need no more fairness than is
   stated, which is beyond the prover; larger instances for TLC instead.
