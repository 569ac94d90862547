# A TLA+ model of the Jetnine mattress-store ERP

This directory holds TLA+ modules for the server of the ERP in `src/apps/api`, the
TLC configurations that check them on small instances, and proofs that TLAPS checks
for instances of any size. `PROJECT.json` maps every definition to the lines it
models and lists the runs, the mutants, the hazards and the theorems.

## 1. The system

One NestJS process (or several behind a balancer) serves a React application. Every
tenant request runs in **one PostgreSQL transaction at READ COMMITTED**
(`tenancy/rls-context.interceptor.ts`): it commits when the handler returns and rolls
back when it throws. Of the tables only those of the chat have a version column. What separates two requests is
therefore only

* row locks: those of `UPDATE`/`DELETE`, of `SELECT ... FOR UPDATE` where the code
  writes it, and the key-share locks of foreign keys;
* relative writes (`qty = qty + n`), as against absolute writes of a value read before;
* `CHECK` and `UNIQUE` constraints;
* a `WHERE` clause that repeats the state a handler read.

Handlers read without locks, decide, and write. Most of what is hard in this program
is what may happen between the read and the write, so that is what the models keep.

| Component | State | Operations | Hard behaviour | What makes it correct |
|---|---|---|---|---|
| Stock reservations of orders (`orders/`, `inventory/`) | order status, line counters (`quantity`, `qty_reserved`, `qty_fulfilled`), bin counters (`on_hand`, `reserved`) | confirm, reserve, release, add, edit, remove and move lines, fulfil, complete, cancel, print, payments, transfers' holds | interleaved reads and locks, lock order over several bins, automatic completion from two sides | the counters of a bin are what its holders hold; no bin is oversold; an order is never ahead of its goods; a closed order is final and holds nothing |
| Idempotency keys (`idempotency/`) | one row for each (business, key) | acquire, replay, take over, complete, release | retries, crashes, slow handlers, a failing statement after the handler | one commit for a key, faithful replays |
| Money of orders (`orders/`, `returns/`) | payment rows, return documents, `qty_returned`, store-credit entries | payment, cancel with deposit, return, receive, void, price adjustment | check-then-write races between registers and the dock | no refund beyond what was collected, no collection beyond what is owed, credit never overdrawn |
| Request transactions (`tenancy/`) | the open transaction | begin, commit, roll back | deadlocks | every request ends |
| Stock transfers (`transfers/`) | status of transfers and manifests, shipped, wanted and received counters, bins of both ends, As-Is pieces, write-offs | create, ship, receive, close short, cancel, roll over; build, complete and cancel a manifest | partial receipts, two docks, a manifest built while it leaves | no unit is lost or comes from nowhere; holds are those of the drafts; what has arrived is closed; a manifest agrees with what left |
| Purchase orders and special orders (`purchasing/`, `special-orders/`) | status, stage counters of a line, links of its units to order and transfer lines, the level | create, place, edit, cancel, delete, restore, link, unlink, receive, receive by stages, take back | receipts and take-backs that mix with reservations, links and edits | the stages stay in order; no unit is promised twice; what is reserved is there; nobody is given units twice |
| Cost layers (`costing/`) | FIFO layers, consumptions | add, consume | two consumers of one layer, a receipt that is taken back | a unit is in its layer or consumed once, oldest first; the layers are what the level explains |
| Gift cards and the register (`gift-cards/`, `sales/`) | balance and status of a card, its transactions, sales and refunds | issue, adjust, cancel, charge, credit; sell, refund | absolute writes from unlocked reads; Stripe inside a transaction that may roll back | a card is redeemed exactly when it is empty; the ledger replays; no charge without a sale |
| Chat delivery (`chat/`) | outbox and push jobs, with leases and attempts | write, claim, call, settle, retry, revive | worker crashes, late workers | at least once; one verdict, after every attempt; every event ends |
| Chat conversations (`chat/`) | conversations, assignment, messages, callbacks, requests for help | start, write, claim, transfer, resolve, snooze, route, retain | screens that are out of date; agents at their capacity; the maintenance job | no agent beyond his capacity; nothing is resolved unseen; promised callbacks survive; the queue moves |
| Deliveries (`deliveries/`) | runs and stops | build, load, complete a stop | two drivers, completion and hand-over | a stop is handed over once |
| Exchanges (`exchanges/`) | container of a return and a new order | open, release, settle, split | settlement against a moving balance | credit issued equals credit used and left |
| Stripe and billing (`stripe/`, `billing/`) | intents, events | webhook, confirm | duplicate and reordered webhooks | each event once |
| Cash and close-out (`cash/`, `closeout/`) | shifts, counts | open, close, count | closing while money moves | drawer equals its movements |
| General ledger (`gl/`) | derived postings | derive | none (pure) | postings balance |
| Everything else | see `PROJECT.json` | CRUD, reports, I/O | | |

`PROJECT.json` lists every component with its sources, those left out with the reason.

## 2. Modules

| Module | Models | Notes |
|---|---|---|
| `Reservations` | stock of orders | one action per endpoint, one step per row lock |
| `MCReservations` | instances of it | up to two orders, lines, bins and requests |
| `ReservationsProofs` | theorems | any number of orders, lines, bins and requests |
| `Idempotency`, `MCIdempotency`, `RegisterProofs` | idempotency keys | one statement per step |
| `Transfers`, `MCTransfers`, `TransfersProofs` | stock transfers and manifests | one lane, one step per locked statement |
| `CreditLedger` | what the store-credit ledger promises | abstract: issue at any time, debit from a balance that covers it |
| `OrderMoney`, `MCOrderMoney`, `OrderMoneyProofs` | the money of orders | refines `CreditLedger` |
| `AtLeastOnce` | what an outbox promises | abstract: handed over before it is called sent, sent or given up |
| `ChatOutbox`, `MCChatOutbox`, `ChatProofs` | the outboxes of the chat and their workers | refines `AtLeastOnce` |
| `ChatConversations`, `MCChatConversations`, `ChatProofs` | conversations and who works on them | one action per request, and screens |
| `CostLayers`, `MCCostLayers`, `CostLayersProofs` | FIFO layers of one variant at one location | read and write of a request are two steps |
| `Register`, `MCRegister`, `RegisterProofs` | gift cards, sales and refunds | one step per write that another request can see or that is for good |
| `PurchaseOrders`, `MCPurchaseOrders`, `PurchaseOrdersProofs` | purchase orders, their links and receipts | one action per endpoint |
| `Sums` | nothing: lemmas | sums over finite sets of indices, for the proofs |

Definitions marked `Slip:` in the modules are not part of the specifications. They are
plausible mistakes (a dropped guard, an unlocked read); the mutants of `PROJECT.json`
put each in place of a definition that models code, and the property named there then fails.

### Reservations

A request is a record in `txn`. Its `Begin` action is everything the handler reads and
decides before its first lock, with the guards in the code's order; the record then
holds the plan. `TakeLine`, `GiveLine`, `ShipLine` and `MoveUnits` each take the row
lock of a line's bin, in any order the code may visit the lines, and recompute what the
code recomputes under the lock (`planReservations` reads the bin `FOR UPDATE`; a
release does not re-read). `LockOrder`, `DeriveStatus` and `Settle` are the tail of
the handlers: the derived status, `tryAutoComplete`. `Commit` applies the relative
writes and tests the `CHECK` constraints; `Abort` is any throw. The operators
`OtherHandlers` change tables in one step: printing, receipts, the holds of transfers.

Abstractions: the balance due of an order is the flag `owed`, which payments settle and
edits raise (its amounts are in `OrderMoney`); a line is a stock line in one bin; the
row locks of order lines are folded into those of their bins, since every write of a
line's counter is made with its bin locked; the reads of a handler before its first
lock are one step, so two reads that straddle another's commit are not told apart;
delivery runs are folded into `printed`; the relock window after an unlock is left out.

Not modelled: split families, line-type and source changes, serial units, costing, fees,
the repair endpoint (`orders.controller.ts:1498`), automatic transfers (off by default),
the deliveries' own hand-over.

### Idempotency

All attempts carry the same key, since keys do not interact. Every statement on the key
row commits by itself (the service uses the root connection), so each is a step.
`Faults` selects what may go wrong: the process dies, a handler outlives the 60-second
stale lock, a statement after the handler fails. `faulted` remembers whether anything has
failed yet: three of the properties hold until then, `AnswersAreTrue` always. `stale`
abstracts the clock.

### OrderMoney

As in `Reservations`, a request's `Begin` is its unlocked reads. Its steps then take
row locks, and here their modes matter: an `INSERT` takes a share lock on the rows it
refers to, an `UPDATE` a write lock, `FOR UPDATE` a full one (`Conflict`). So a payment
waits for a cancellation that holds the order row and, having already decided, goes
through after it. Amounts are cents of very small orders. `takings` keeps the positive
payment rows in order, since refunds walk them newest first whatever was refunded
before; `net` keeps the sums by tender. A return has one line. `\E slice` binds the
computed share of a refund that falls on store credit, so that the state carries it.

Not modelled: money that spills over to the other orders of a split family, exchanges,
withheld fees, several lines of a return, commissions, As-Is pieces, manual credit.

### Transfers

`Begin` is again the unlocked reads: `ship` checks status, ticket and stock there, and
`receive` computes there the counter it will write. `HoldItem`, `ShipItem`, `LandItem`
and `FreeItem` lock the bin row and the transfer line of one item; `Judge` re-reads the
lines, this request's own writes among them, to decide whether all has arrived;
`WriteHeader` writes the status; `RollOver` inserts the draft of the remainder, which then
holds its units. Completing a manifest ships the drafts it found on the truck one by one
(`LoadNext` reads each of them again), or none of them. `shipped` is what a draft holds
and, once it has shipped, what left. The bins are clamped at zero (`Clamp`), as in the code.

Abstractions: one lane, since other lanes are other rows; a line for each item; units go
to As-Is review in place of the bin when the transfer's type is `as_is`; inserts of
transfers exclude each other, since their unique numbers are counted from the committed
rows; rows that one `UPDATE` writes are locked together.

Not modelled: serial units and cost layers, floor samples, a body that names several
destinations, edits of dates and notes, the automatic drafts.

### ChatOutbox

`chat_outbox` and `chat_push_deliveries` in one set of rows; `Pushes` tells them apart
where the workers differ. A worker's claim, its call to the provider and its settling are
three steps, since the first and the last commit by themselves. The provider may accept
and the worker still see a failure, or die. `Lapse` ends a lease: of a worker that is gone
at any time, under a worker that is only slow within `MaxFaults`. `ClaimUnauthorized` and
`ClaimMoot` are the claims of push jobs that end before the call. The settle of the push
worker asks for its lease token only, that of the realtime worker for `completedAt` too.

### ChatConversations

Every handler locks the conversation's row first, and those that count an agent's chats
hold the advisory lock of the business, so a handler is one action. What races is what an
agent looks at: `screens` keeps who has a chat's latest version on his screen, and how many
messages it shows; every write that raises the version takes it off all screens.
`Maintenance` is one run of the job: overdue assignments are taken back, naps end, and
what waits is offered to the agent with the fewest chats, counted anew for each chat.
`deadline` and `napOver` abstract the clock.

Not modelled: ratings, the link to a customer, help messages, team rooms, drafts, typing,
settings, transcripts, location scopes (`Visible` keeps assigned-only and managers).

### CostLayers

A request is the outflow or inflow of one endpoint: `ReadLayers` plans over the layers it
sees (`Plan` states what the two loops of `consume` give: from each layer what the earlier
ones leave to ask for), and `CommitOutflow` makes the relative writes, guarded by the
`CHECK` on `quantity_remaining` (`Fits`); a request whose write does not fit rolls back.
`kind` tells the callers apart: which of them check the level before, which lower it by
how much, which prefer a purchase order's own layers. `opening` counts the units of
layers that are born consumed; `moved` those that leave the level and no layer.

Not modelled: unit costs (they ride on the layer), other variants and locations (other rows).

### Register

A register's request is a record in `req`. Its reads are the step before the write that
depends on them, and gift cards are written with the absolute account computed there, so
that two overlapping requests undo one another as they do in the code. Each call to
Stripe is a step that a later `Fail` does not undo. A unit costs 1. `calm` remembers
whether anything overlapped or failed.

Not modelled: prices, taxes, commissions, serial units, drafts, the drawer; the stock of a
sale is an outflow of `CostLayers`.

### PurchaseOrders

One variant, one location, one request at a time. The links of a line that are on order
are a queue, oldest first, since `handleReceipt` serves them in that order and splits the
one it cannot serve in full; received and cancelled ones are counted. `Receives` and
`Goes` are `applyReceiving`: counters, status, level, links, what is reserved for the order
lines served, and the backfill of what else waits. The orders themselves are three actions
(`Reserve`, `Fulfill`, `CloseOrder`) that stand for what `Reservations` has in detail.

Not modelled: prices and freight, vendors, invoices, returns to vendors, As-Is pieces of
rejected units, serial units, overlapping requests (a receipt writes absolute counters from
an unlocked read, so of two at once one is lost).

## 3. Runs

| Run | Instance | Shows | Distinct states |
|---|---|---|---|
| `res_serial` | 2 orders, 2 lines, 1 bin, 1 request, every endpoint | counters agree with their holders; closed orders hold nothing and stay closed | 409k |
| `res_concurrent` | 1 bin, 2 requests, receipts and transfers | no commit oversells; no order is ahead of its goods | 326k |
| `idem_retries` | 4 attempts, 2 bodies, crashes, slow handlers, lost replies | one commit, one runner and faithful replays until the first fault; true answers always | 115k |
| `money_serial` | 1 order, 2 returns, 1 request, every endpoint | a cancelled order has given its money back; receiving keeps the balance due | 322k |
| `money_ledger` | 2 requests on one order and one customer's credit | never overdrawn; a deposit is booked back once; voids undo grants; refinement of `CreditLedger` | 238k |
| `transfers_serial` | 3 transfers (one As-Is), 1 item, 1 manifest, 1 request, every endpoint | no unit lost; holds are those of the drafts; arrived means closed; manifests tell what left; the remainder is scheduled | 388k |
| `outbox_delivery` | 1 event, 1 push job, 2 workers, 1 fault, 1 revival | one verdict, after every attempt; refinement of `AtLeastOnce`; every event ends | 103k |
| `chat_floor` | 2 chats, 2 agents with room for one, shared inbox | nobody beyond his capacity; nothing is resolved over an unseen message | 270k |
| `chat_desk` | 1 chat with a callback, 2 agents, one of them asked for help | callbacks survive retention; the queue moves | 51k |
| `layers_fifo` | 2 layers, 2 requests, 2 units, every kind of outflow that differs | every unit accounted for, oldest first; the layers are explained by the level | 706k |
| `register_till` | 1 card, 1 sale, 2 registers, Stripe, failures | redeemed exactly when empty; without overlaps the ledger replays and no charge is stray | 842k |
| `purchasing_buying` | 1 purchase order line, 2 order lines, 1 direct shipment, 1 transfer, 1 request, every endpoint | stages in order; no unit promised twice; what is reserved is there; nobody has units twice | 92k |

No run expects a violation. Where the code and a sentence of the repository, or what one
would expect of it, part, the case is kept as an instance beside the runs:

**Disagreements.** `tlc -config <configuration> <module>` finds the violation. They
document how far the passing statements reach, and what a change of the code would close.

| Configuration | Property | What happens |
|---|---|---|
| `MCReservations_skew.cfg` | `HandedOverAndPaidCloses` | the last payment and the last hand-over read each other's half before it commits; an order handed over and paid stays open |
| `MCReservations_shipped.cfg` | `NeverHoldsShipped` | units that have left are reserved again |
| `MCReservations_ticket.cfg` | `TicketedStaysCovered` | an order is released under its printed ticket |
| `MCReservations_removal.cfg` | `LevelMatchesHolders` | a line is removed while a reserve takes units for it |
| `MCReservations_lateline.cfg` | `CompletedIsDelivered` | a line is added to a fulfilled order, which then completes on payment |
| `MCIdempotency_takeover.cfg` | `OneTakesOver` | two retries find the same stale lock; the second deletes the row the first has just written, and two handlers run |
| `MCOrderMoney_twice.cfg` | `RefundsWithinCollected` | the dock and the pickup stop receive one return, and it is refunded twice |
| `MCOrderMoney_vanished.cfg` | `CreditNeverVanishes` | a refund to store credit never reaches the ledger |
| `MCTransfers_nowhere.cfg` | `NoUnitFromNowhere` | a transfer created as shipped is not held against the stock of its origin; the deduction stops at zero and the destination receives units nobody had |
| `MCTransfers_docks.cfg` | `ArrivedIsClosed` | two docks receive different lines; neither sees the other, and nothing is left to receive or close |
| `MCTransfers_twice.cfg` | `NoUnitLost` | two requests ship one draft, and its units are deducted twice |
| `MCChatOutbox_push.cfg` | `OneVerdictForPushes` | a push worker whose lease lapsed calls a delivered job failed |
| `MCChatConversations_deadline.cfg` | `AssignmentIsAnswered` | the acceptance deadline (`docs/live-chat-development.md:251`) is only looked at while a chat is `open`: when its visitor asks to be called back meanwhile, the chat is `queued` under an agent who never accepted it, and stays there |
| `MCRegister_overcredit.cfg` | `GiftGetsBackItsPart` | a second partial refund starts again from the card's full part, and the card gets back more than it paid |
| `MCPurchaseOrders_twolines.cfg` | `HeldIsThere` | two lines of one variant in one take-back are each checked against the same free stock |
| `MCPurchaseOrders_forgotten.cfg` | `NobodyIsForgotten` | a cancelled purchase order keeps its links, and the order lines go on counting on them |
| `MCPurchaseOrders_parts.cfg` | `PartsCanArrive` | a receipt that splits the link of a transfer inserts a row that violates its table's one-target check, and fails |

`MCReservations_liveness.cfg` passes: with strong fairness of a request's steps every
request ends (`EveryRequestEnds`), deadlocks over two bins included.

**Bounds.** Two requests are enough for every race listed: each is between a reader and
one writer, and a third request adds no new lock conflict. Quantities of one and two
units tell a part from the whole, and a display unit makes on-hand and sellable differ.
`MaxOnHand`, `MaxHold`, `MaxQuantity`, `MaxTakings`, `MaxCredit`, `MaxOut`, `MaxAdjusts`,
`MaxCancelled`, `MaxMessages`, `MaxFaults` and `MaxRevivals` cap the counters that would
grow for ever; they are guards of the actions that grow them. `MaxUnits` and `MaxAmount`
bound what a body names. `MaxAttempts` is 2 in place of 8: the first failure is retried,
the last one is final, and between them nothing else happens. One crash or lapse is enough
for a second worker to hold what the first still works on. A capacity of one makes every
second chat one too many. Two layers and two units let a draw cover one layer and a half;
one card and one sale, since cards meet only in the request that names them.
`transfers_serial` is checked up to permutations of transfers of one type, `chat_floor` of
chats and keys, `layers_fifo` and `register_till` of requests: their properties name none
of them, and no liveness property is checked under symmetry.
Deadlock checking is off in all configurations: an instance really stops (every attempt
answered, every row ended), and where a request waits for a lock another can abort.

**Fairness.** `outbox_delivery`: `ChatBackground` polls for ever, so a worker that can
claim does, finishes its call (the provider's timeout) and settles; time goes on, so the
lease of a worker that is gone lapses and a delay ends. Nothing makes a slow worker's lease
lapse, a crash happen or a manager retry. The integration is assumed to stay on in the end.
`chat_desk`: the maintenance job runs again and again and time goes on; visitors and agents
need never do anything. `QueueMoves` assumes that in the end somebody always has room.
`MCReservations_liveness`: a request that can run does (the event loop and PostgreSQL's
first-come lock queues: strong fairness of `Advance`), and a request that is refused or on
a cycle of lock waits is rolled back. `Abort` for any other reason is never assumed.

## 4. Proofs

All theorems are for arbitrary constants that satisfy the named assumptions.

* `ReservationsProofs`. `StockInv` strengthens the type invariant with three facts: two
  transactions never hold one row (`LocksExclusive`); a transaction past its planning
  holds every bin it writes (`WritesLocked`); what it took, and what it thinks is left in
  a locked bin, fits (`PoolSound`). Each step keeps them; at the commit `PoolSound` is
  `NoOversell`. `GoodsInv` says that a transaction about to write `fulfilled` or
  `completed` has counted every unit; hand-overs are never undone, so the order is never
  ahead of its goods. It assumes that no line is added or resized meanwhile
  (`LinesFixed`); `MCReservations_lateline.cfg` shows that the assumption is needed.
* `ReservationsProofs`, one request at a time (`Alone`). `SerialInv` says what the plan of an
  open transaction will do at its commit: a bin's counter moves by what the lines of the bin
  are given and give back (`BinsMatchLines`), no line gives back more than it has
  (`GivesItsOwn`), units are taken only for lines that stay, of orders that are open
  (`TakesForLive`), and a line that goes (`DropsEmpty`) or an order that closes
  (`ClosesEmpty`) has given back everything. Then the books hold at every commit: the counter
  is what lines and transfers hold (`LevelMatchesHolders`), closed orders hold nothing
  (`ClosedHoldsNothing`) and stay closed (`ClosedIsFinal`). Two requests on one line are
  enough to break all three: the handlers read the order, and find the lines to move,
  before they lock a row (`MCReservations_removal.cfg` shows it for the counter).
* `RegisterProofs`, idempotency keys. Until the first fault the pending row is a lock: whoever works
  holds it alone (`RowIsLock`), and the row tells who has committed (`RowTellsCommits`);
  from this `CommitsOnce`, `ReplayFaithful` and `OneRunner`. `Truth` holds with every
  fault: a response is stored by who committed, and told from the row; it gives
  `AnswersAreTrue`.
* `ChatProofs`, events. `HasLease` is the reason: a worker that still has the lease of its
  event made the last attempt, and nobody has given the event up since; a worker that has
  lost it writes nothing. With it no realtime event gets two verdicts (`OneVerdict`), none
  is given up early (`EveryAttemptMade`), and every step of the workers, of time and of the
  environment is a step of `AtLeastOnce` or leaves it alone (`OutboxHolds`).
* `ChatProofs`, conversations. `ScreensShow`: a screen that still has the latest version of
  a conversation shows all its messages, because every append outdates every screen. So
  whoever resolves a conversation or calls it spam has seen all of it (`NothingIsBuried`).
  `CallbackSurvives` is kept with it: nothing gives a deleted conversation a callback, and
  retention passes over one that waits. `AssignmentRespectsCapacity` is argued per step, by
  cardinalities: a claim and a transfer add one conversation to an agent whose count was
  below his capacity; the router's assignments of one round are counted over the rows as
  that round leaves them, since it counts again for each conversation.
* `Sums`. What the sums of the modules (`SumFunctionOnSet` over a finite set) do when a
  value changes, an index is added, a set is split or renamed, and when the order of a
  double sum is turned. The library's induction theorem cannot be used here, so each lemma
  takes a smallest set that would break it (`Smallest`) and removes an element. This is why
  `Transfers`, `PurchaseOrders`, `Reservations`, `OrderMoney` (its returns) and
  `ChatConversations` assume that their index sets are finite.
* `OrderMoneyProofs`. `MoneyInv` says that a row held `FOR UPDATE` is held by nobody else
  (`Exclusive`), and that a transaction whose debit was checked holds its customer's row
  and finds the credit still there (`Covered`): whoever commits meanwhile has debited
  someone else, or granted more. From it: `NeverOverdrawn`, the types, and that every
  step is a step of `CreditLedger` or leaves it alone (`LedgerHolds`). A void takes back
  what was issued because it re-reads the document it has locked (`Filed`) and a document
  being inserted is nobody else's (`Apart`): `VoidTakesCreditBack`, in any interleaving.
  `RefundsWithinCollected` needs a hypothesis, since two receipts of one return refund it
  twice (`MCOrderMoney_twice.cfg`): it holds in any interleaving of the handlers that
  decide under the order's lock (`Quiet`), and for all handlers one at a time (`Alone`),
  where a cancelled order also keeps no money (`CancelledKeepsNoMoney`). `Collected`, which
  says that a transaction pays out no more than the order still holds, serves both.
  `RepayInv` says what a receipt does to its return: all of its amount goes out of the order,
  or all of it is booked as store credit, which a return to the original tender never issues.
  So the first receipt to take effect leaves every balance as it was, whatever runs beside
  it (`ReceivingKeepsBalance`): the payments fall by what the return settles from then on.
* `TransfersProofs`, concurrent requests. `receive` writes a counter it computed from an
  unlocked read, so two docks may lose each other's update. `CountersFit` says that still no
  line shows more received than shipped, or more shipped than ordered (`TypeOK`). `CountInv`
  adds that a transfer nobody has inserted has received nothing, that two requests never
  insert one transfer, and that each counter about to be written fits the units of its line:
  those of a committed transfer are never written again, and those of an inserted one are
  the request's own.
* `TransfersProofs`, one request at a time (`Alone`). `SerialInv` says of every step of an
  open transaction what it has booked so far (`Plan`): what has left the origin and its holds
  is the sum of the lines that are through (`Leaves`), what has arrived is what the counters
  have moved by (`Arrives`), the draft it inserts is held as far as it has got (`Claims`),
  what becomes of each transfer (`Outcomes`, `Judged`, `Scheduled`) and who is on the truck
  (`Rides`). At the commit these books are the change of the tables: `NoUnitLost`,
  `HeldForDrafts`, `ArrivedIsClosed`, `ManifestHasLeft` and `RemainderIsScheduled`. The
  hypothesis is needed: two shipments of one draft lose units (`MCTransfers_twice.cfg`), two
  docks leave a transfer open that has arrived (`MCTransfers_docks.cfg`). It is the
  hypothesis of the run `transfers_serial`, which has one request.
* `CostLayersProofs`. `IInv` adds to the books that a layer not yet there is empty, that a
  receipt in flight has a layer of its own, and (`Planned`) that of the layers a request
  has seen, the earlier ones hold no more by now than it takes of them wherever it takes of
  a later one. Other requests only draw, so this survives them, and at the commit it is
  `DrawsInOrder`. `LevelInv` adds that a plan accounts for every unit it was asked for,
  taken or short (`PlansWhole`): so the layers and the level move by the same units
  (`StockIsLayered`).
* `PurchaseOrdersProofs`. Each handler checks the stage it moves; `Unborn` carries that a
  purchase order not yet created has received nothing. The lemmas about queues say what
  serving from the front, splitting and removing a link do to the units of a line
  (`ServedFacts`, `ServedTotal`, `RestFacts`, `RemoveFacts`) and, summed over all queues, to
  what has come in for an order line (`CameFacts`). With `BookInv` they give
  `LinksWithinLine` and `NobodyHasTwo` for every endpoint, and `HeldIsThere` if a variant
  is on one line of a purchase order (`OneLineEach`; `MCPurchaseOrders_twolines.cfg` shows
  what two lines do).
* `RegisterProofs`. A request about to write a card carries the account it will write.
  That this account is redeemed exactly when empty follows from what it read, whatever
  happened since (`EmptyIsRedeemed`). That it is the balance the ledger row leads to holds
  while the card is as it was read, that is, while `calm` (`LedgerReplays`). `StripeInv`
  adds that, while `calm`, the card of a sale that Stripe may still be asked to pay will do:
  so no sale is refused once Stripe has been paid (`NoStrayCharge`).

Every safety and action property of the runs is stated by a theorem, some under the
hypothesis named above. Model-checked only: liveness and the fairness it rests on, which are
out of the provers' reach: `EveryEventEnds` of `ChatOutbox`, `QueueMoves` of `ChatConversations`.

## 5. What is left

In order of weight for the business:

1. An abstract stock that `Reservations` implements, and the proof that it does.
2. `Transfers` and `PurchaseOrders` composed with the bins of `Reservations`, in place of
   the one-step holds and orders there; overlapping receipts.
3. Exchanges over `OrderMoney`; returns with several lines and fees; split families.
4. Deliveries, Stripe events, cash shifts, counts, jobs.

**Not modelled.** The map covers the part of the server where requests, workers and jobs
share state and can disagree. Most of the repository's lines are none of that: the web
application (pages, forms, fixtures), reports and dashboards (read-only queries), imports
and catalog editing (single-row CRUD), DTOs and e-mail. A model of those would restate
them; the share of mapped lines therefore stays small. Each part left out is listed in
`PROJECT.json` with its reason.
