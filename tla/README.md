# A verification project for Restaurant Hub (Dishy)

Restaurant Hub is a point-of-sale and restaurant-management system: a Go backend
(`src/backend`, Gin + GORM + PostgreSQL), a Next.js web app (`src/frontend`), an
Expo staff app (`src/mobile`) and deployment files (`src/infra`, `src/scripts`).
This directory holds TLA+ models of the parts whose correctness depends on the
order in which people, requests, transactions and messages meet; the TLC
configurations that check them on small restaurants; and TLAPS proofs of the
properties of the core for restaurants of any size.

- [1. The system](#1-the-system)
- [2. The modules](#2-the-modules)
- [3. The runs](#3-the-runs)
- [4. What does not hold](#4-what-does-not-hold)
- [5. The proofs](#5-the-proofs)
- [6. What is not modelled](#6-what-is-not-modelled)
- [7. The plan](#7-the-plan)
- [8. How to run it](#8-how-to-run-it)

Paths below are short for `src/backend/internal/...` unless they name another
top directory.

## 1. The system

### Components, state and operations

| Component | State | Operations | Where it gets hard |
|---|---|---|---|
| **Order service** (`service/order_service.go`, `order_flow_helpers.go`, `order_pricing.go`, `repository/order_repository.go`) | orders, lines, payments, deduction rows; writes tables, ingredients and menus | open (dine-in, takeaway), add, change, delete, send to kitchen, cook, ready, serve, recall, void, cancel, close empty, pay | every handler keeps the stored status, the totals, the table and the stock in step by its own calls; long legal sequences; retries |
| **Tables and reservations** (`service/table_service.go`) | table status, reservation rows, QR token | hold, book for later, resolve, cancel, set status, edit, delete; zones | a table is written by three services; holds and bookings share rows |
| **Locking** (the `ForUpdate` finders, `LockRestaurantOrderCounter`, `ReleaseTableStatus`) | row locks and one advisory lock per restaurant | every handler above takes some, in an order of its own | deadlock; a check made on an unlocked read |
| **Capacity** (`repository/menu_availability.go`, `ensureMenuCapacity`) | none; reads lines and stock | how many portions can still be promised | two statements see two states; the kitchen does not take the lock |
| **Inventory** (`service/ingredient_service.go`, `ingredient_levels.go`, `repository/ingredient_lot_repository.go`, `service/menu_service.go`) | ingredient row, lots, movements, dish availability | stock in, out, count, discard, edit, cook; price and availability of a dish | lots, stock and movements must agree; edit forms write back what they read earlier |
| **Order events** (`realtime/order_events.go`, `controller/order.go`, mobile `use-order-events.ts`) | one buffered slot per stream, sessions; on the phone pending actions, timer, connection | publish, greet, forward, end session, reconnect, resync, poll | dropped and filtered events, lost connections, loads that overlap changes |
| **Kitchen board** (mobile `app/kitchen.tsx`) | the board, loads in flight, the mutation gate | focus, pull, quiet refresh, tap, reconcile | answers out of order; a refresh put off and forgotten |
| **Bill screen** (mobile `app/order/bill.tsx`) | the bill, reads in flight, the spinner, what the phone is writing | read, delete and cancel lines, send a round, pay | reads overlap and hang; another phone changes or pays the order meanwhile |
| **Hub** (mobile `src/hooks/use-hub-data.ts`, `src/lib/hub-data.ts`) | seven slots, each with a request, a queued load, a timer, ages | focus, open a page, event, tick, poll, retry, switch shop | loads skipped, queued and put off; midnight; another shop's answers |
| **Web floor** (frontend `pos/tables/page.tsx`, `useOrderEvents.ts`, `useVisiblePolling.ts`) | the page's snapshot, one load, the stream | event, reconnect, poll, hide, show | an event that comes while the page loads by itself |
| **Guest ordering** (`service/customer_order_service.go`, frontend `customer/t/[token]/page.tsx`) | cart and key on the page; submissions and lines in the database | scan, edit, submit, retry; staff close and open bills, replace the QR code | lost answers, retries across bills, the cart edited during a request |
| **Assistant plans** (`service/ai_joyboy_command.go`, `ai_action_plan.go`, `repository/ai_action_plan_repository.go`) | plan row with claim time, item rows, audit rows | answer, confirm (claim, run, record, finish), cancel, expire | crash between write and record; claims that time out; partial failure |
| Everything else | section 6 | | |

### How they interact

Handlers run concurrently in one backend process, each in a PostgreSQL
transaction at READ COMMITTED. They meet in the database only: through row locks,
the restaurant's advisory lock (adding lines and numbering orders), unique
indexes (one active order per table, one payment per order, one deduction per
line and ingredient, one submission per order and key, one active booking per
table and instant) and plain reads. After its commit a handler publishes an
event on the in-memory hub; each connected screen holds one stream and, on an
event, loads the whole snapshot again. The kitchen's "ready" takes the recipe
off the shelf, which can take a dish off sale; opening and closing orders writes
the table row that the reservation handlers read and write; guests' submissions
go through the same item creation and capacity check as the staff's; the
assistant writes through the same services as a button press.

`PROJECT.json` lists the hazards this makes, each at the line where it bites
and with the properties that would catch it.

## 2. The modules

| Module | Models | Abstracts |
|---|---|---|
| `OrderService` | every handler of the order service as one committed transaction | money is whole, options are a surcharge and a recipe per dish |
| `OrderServiceProofs` | theorems about it and about `IngredientStock` | |
| `TableFloor` | the floor: table status, orders at tables, reservation rows; each handler one step | names, phones, labels, zones |
| `TableFloorProofs` | theorems about it | |
| `TableLocks` | the same handlers as transactions that lock, read, wait, write, roll back | what an order contains |
| `TableLocksProofs` | theorems about it: it implements `TableFloor` for any number of sessions, keeps what is proved of it, and never deadlocks | |
| `IngredientStock` | one ingredient: levels, lots, movements, forms opened earlier | decimals below the fourth place |
| `OrderEvents` | hub, stream, phone or browser, and screen, with everything that can be lost | the screen's loader is one load at a time |
| `KitchenBoard` | the overlapping loads of the kitchen screen | the stream is a greeting and a notice |
| `LiveScreenProofs` | theorems about `OrderEvents` and `KitchenBoard` | |
| `BillScreen` | the bill on one phone while other phones work on the order | an order is a version, a total, a stage and whether it is paid |
| `BillScreenProofs` | theorems about it | |
| `HubScreen` | one loader of the hub, of any of the seven kinds, and the screen it hangs on | what it loads is a version of one shop; ages and gaps are flags that lapse |
| `HubScreenProofs` | theorems about it | |
| `CustomerOrder` | pages, network, `SubmitOrder` and the staff of one table | what the kitchen does with a line |
| `CustomerOrderProofs` | theorems about it | |
| `ActionPlan` | one plan of the assistant from card to audit rows | what an item changes is one row |
| `ActionPlanProofs` | theorems about it | |

Each has an `MC...` module with model values, definitions for the `.cfg` and
symmetry sets (`KitchenBoard`, `BillScreen` and `HubScreen` need none).

Two proof modules extend two specifications each, which must not share a name:
hence `ShelfSpec`, `ShelfInit`, `ShelfNext` and `ShelfTypeOK` in `IngredientStock`
(beside `OrderService`), and `BoardSpec`, `BoardInit`, `BoardNext` and
`BoardTypeOK` in `KitchenBoard` (beside `OrderEvents`).

### How the modules fit together

`OrderService` takes each handler as atomic. That is what `TableLocks` examines
for the tables: it runs handlers as interleaved transactions and is checked to
implement `TableFloor`, the floor with atomic handlers
(`FloorIsImplemented == Floor!Spec`, `Floor == INSTANCE TableFloor` with the
committed rows mapped to themselves). `IngredientStock` has the lots, movements and stale forms that
`OrderService` folds into one number per ingredient, and `CustomerOrder` has the
retries in front of the item creation that `OrderService.AddItem` models.
`OrderEvents` treats every commit of the others as an entry of a log and a
snapshot as the length of the log it was read at; `KitchenBoard`, `BillScreen`
and `HubScreen` open up the loader that `OrderEvents` keeps to one load, each
with the rules of its own screen, and see the stream as a notice that may come
at any time.

### State and actions against the code

`PROJECT.json` maps every definition to its lines. In outline:

**OrderService.** `orders[o]` is the row of `orders` (status, table, stored
subtotal `bill`, `paid`), `lines[l]` a row of `order_items` with the ingredients
its deduction rows say it `used`, `tables`, `stock`, `menus` and `payments` the
rows the service writes. `received` (what came on the shelf by hand) and
`shrunk` (somebody lowered a count) are history. Each action is one handler with
all its calls: `AddItem` is capacity check, price, insert or merge,
`reopenForPendingItems` and `recalcOrderTotals`; `FinishItem` is the transition
check, `deductInventory`, `DisableIfDepleted` and `refreshOrderStatusFromItems`;
`PayOrder` is the refresh, the validation, the second try at deductions in line
order, serving what is ready, the payment row, the totals and
`ReleaseTableStatus`. `PayOrder` quantifies over the shelf each retried
line finds (`FinalisedInOrder`) instead of recursing over the lines.

**TableFloor / TableLocks.** `status`, `seated`, `visited` (some order ever sat
here, which makes a table undeletable) and `bookings`. In `TableLocks` a request
has a plan, the sequence of lock and read steps of its handler in code order;
`Advance` takes the next step if its rows are free, remembering what it saw;
`Commit...` writes from what was *seen*, not from what is; `Rollback` may happen
at any point. The operators that decide (`MayOpen`, `MayCancel`, `FreedBy`, ...)
are shared by both modules, applied to the truth in one and to the transaction's
view in the other.

**IngredientStock.** A movement holds the ingredient's row lock and is one step;
the two edit forms read in one step (`OpenForm`, `OpenDish`) and write every
column in a later one, as `Update` and `UpdateMenuItemPrice` do.

**OrderEvents.** `screen` has the options its screen passes to the hook, `queue`
is the channel of capacity one; `server` the serving goroutine (subscribed, greeted, ended), `wire` one TCP connection, `pending`,
`resync`, `recent`, `timer` the refs of `useOrderEvents`. `excused` and `dropped`
are history: what a failed load was to bring, and whether the stream was lost
since the last resync. A `Mishap` is a dropped connection or a trip to the
background, up to `MaxDrops`; a restarted backend counts as one.

A web screen (`screen[c].web`) loads by itself when it is shown and greeted
(`AskedByItself`), and while that load runs turns down what the stream asks for.

**KitchenBoard.** A request is its kind, the snapshot it read and whether its
ticket is still the newest; `gate` is the mutation gate, `owed` the
`pendingQuietRefreshRef`, `due` and `forgone` history.

**BillScreen.** `order` is the row at the server, changed by this phone and by
others; `bill` the copy on the screen. A read is asked for, answered with the
order as it was, then waits for photographs (`photos`) while it holds the
spinner; `current` says its ticket (`request-generation.ts`) is the newest and
`front` that it put the spinner up. `held` is `pendingReloadRef`, `billStale` the
flag that closes the payment after a change of this phone whose reread failed,
`work` what the phone is writing. `own` (the version of this phone's last
change), `due` (the version when the screen was last entered or told) and `told`
(what the cashier was shown and told of a payment) are history. A read may hang;
a read overtaken by others is forgotten after `MaxOvertaken` of them.

**HubScreen.** `entry` is the slot in the store, `rt` the runtime of its loader:
the request, `trailing` and `timer` (one more load asked for), `gap` and `young`
(the clocks), `from` and `fromDay` (when the request left whose value is held).
`Ask` is `request(key, options)` with `hubLoadDecision` inside. The loaders of a
hub share focus, clock and shop and nothing else, so one is followed; which
ones a role may use is left out. Between the render that sees another shop and
the effects that follow it (`Switch`, `Effects`), a request that goes out may
carry either shop in its header. `owed` is history.

**CustomerOrder.** `page[g]` is the React state that survives between renders
(cart, key, the request it waits for); a cart line is one portion, so a quantity
is a number of lines and the request hash is the set. Submitting is two steps: the
`Tap`, which closes over the cart it sees (`tapped`), and the `Post`, which reads
or makes the key. Between them a restaurant with a geofence makes the page wait
for `readDeviceLocation` (page.tsx:391), while the menu stays usable; without one
the second step follows at once, which is one of the interleavings. `crossed` is
history: the keys whose cart grew in between. `ConnectionFails` gives up
waiting while the request or its effect may still exist. A reload forgets cart,
key and tap, which live in component state only; leaving the page by a link while
it waits for the place is a `Post` and then a `Scan`. Keys are random in the code
and fresh numbers here.

**ActionPlan.** `plan.over` says `expires_at` passed, `plan.fresh` that
`claimed_at` is younger than two minutes. `request[q]` is a confirmation with
the items *as the claim read them*. Items differ in what is looked at before they
are written: a `checked` one (price, level, availability, count, new dish) goes on
only when the row is as the card shows it; a `lenient` one (delivery, expense, new
ingredient) is written without a look or whenever the look cannot be made. People
edit the rows meanwhile and may set one back, so the look does not stop every
repeat. A service either refuses and writes nothing, or writes; of the checked ones
most read the row once more after the commit and answer that read's error
(`menu_service.go:302`, `ingredient_service.go:348`), so `Execute` has a third
outcome, written and reported as failed. `runs` (how often the service wrote an
item) and `unrecorded` (runs no outcome tells of: a death or a failed write lost
it, or the service wrote and answered an error) are history. The status "expired" is
never stored: `ClaimAIActionPlan` writes it and then returns an error, which
rolls it back, so an expired plan stays pending with `over`.

## 3. The runs

Every passing run is exhaustive. `PROJECT.json` has one sentence for each.

| Run | Instance | Checks |
|---|---|---|
| `two_orders` | 2 orders, 1 table, 2 lines of up to 2, 2 prices, no stock | `FinishedStatusIsTrue`, `DishesInTheKitchenAreCounted`, `StoredBillIsCurrent`, `PaidExactlyTheBill`, `TableFollowsOrders`, `ClosedOrdersHoldNoWork`, `ClosedOrdersAreFrozen` |
| `shared_shelf` | 2 takeaways, 2 lines of up to 2, 1 ingredient up to 2, an option | `StockIsAccountedFor`, `ShelfCoversTheQueue`, `CookedDishesAreDeducted` |
| `table_floor` | 2 tables, 3 reservation rows, 2 guests, 1 slot | `HoldsAreOnTheFloor`, `OneBookingPerSlot`, `DeletedTablesAreBare`, `BookingsForLaterSurvive` |
| `table_locks` | 2 sessions, 2 tables of a zone, 1 reservation row, every handler | `FloorIsImplemented` (refinement of `TableFloor`), `SomebodyCanMove`, `ChecksStayTrue` |
| `ingredient_stock` | 3 lots, 2 dates, levels up to 3, both forms open | `StockIsExplained` (lots and movements both add up to the stock), `SoonestIsUsedFirst` |
| `order_events` | 1 phone or browser on any of 4 screens, 2 changes, a lost connection, a failed load | `NothingIsMissed`, and the liveness `ScreenCatchesUp` |
| `kitchen_stream` | the kitchen's screen, 2 changes, no mishap | `OneQueuedEventIsEnough`, which fails (section 4) |
| `kitchen_board` | 2 changes, 1 failure | `BoardNeverGoesBack`, `NoRefreshIsForgotten` |
| `bill_screen` | 2 totals, 1 change of others besides their payment, reads overlapping, failing and hanging | `OwnChangesArrive`, `OldBillsSaySo`, `SpinnerHasItsLoad`, `NobodyIsShortchanged`, `BillNeverGoesBack`, and the liveness `BillCatchesUp` |
| `hub_screen` | a light, a day and a heavy loader, 2 shops, 1 change, 1 midnight, 2 switches | `ToldChangesAreFetched`, `NumbersAreThisShops`, `NumbersNeverGoBack`, and the liveness `PolledValuesCatchUp` |
| `customer_order` | 2 phones, 2 portions, 2 bills, 2 keys, 2 requests, 2 QR codes | `RetriesOrderOnce` (each line of a key once, there whenever a guest is told so, two carts under one key only when a dish was added while the phone looked for its place), `GuestsKeepTheirCode`, `HeldLinesWaitForStaff` |
| `action_plan` | 3 confirmations, a checked and a lenient item, 1 answer, 2 stalls, 1 crash, 1 failed write | `RepeatsAreForMishaps`, `ReportIsHonest` (status and failed items), `ItemsAreAuditedOnce`, `RunsWhatWasConfirmed` |

Each module states a `TypeOK`, which any configuration takes as one more
invariant; those of the modules with proofs are proved.

### Why the bounds are enough for the cases that matter

*Orders.* A stored status goes wrong through lines in different states: two
give one that is finished and one that is undone or still to add. Three lines of
two units with one price hold the seven properties as well (2,255,126 states, and
longer than the regular run should take). A table can be taken by a second order
only if there are two orders. A price matters once a line has two units and the
menu has two prices (a raise then splits). The shelf needs two lines that
compete, two units so that a void can split, and a dish that leaves the
ingredient out. One table is enough here: which of several tables a handler
writes is the business of `table_floor`, and `TablesAreInStep` is proved for any number (section 5).

*Locks.* A wait cycle of two sessions needs two rows: the first table gets every
handler, the second those that lock rows of more than one kind, and the zone
edit locks both tables. Cycles of three sessions are not in the run:
`NobodyWaitsInACircle` is proved for any number (section 5).

*Stock.* Usage that stops within a lot needs a lot in front of it and one
behind; stale forms need one editor each.

*Events.* One event queued and one dropped behind it need two changes. One lost
connection, background trip or restart at any point, repeated mishaps being
independent once the phone has resynced. Whether a screen filters events, skips
greetings or polls is chosen in `Init`, so one run covers the three screens;
streams do not influence each other, so one phone stands for any of them.

*Bill.* A payment goes wrong when somebody else's change lands between what the
cashier was shown and the write: one change and one payment of others, and two
totals to tell apart. With two changes of others the safety properties hold as
well (4.8 million states). One read overtaken stands for any number: they differ
in nothing but their ticket.

*Hub.* One loader stands for each of the seven: `floor` for the light ones that
poll, `takings` for the day's, `menu` for the heavy ones. Two switches bring a
person back to the shop they left while its answers are still out.

*Guests.* A lost answer and its retry are two requests, those of one phone or of
both. A key with two carts takes a second portion added while the page looks for
its place. With three requests, so that the other phone submits in between, and
one QR code the properties hold as well (3.2 million states).

*Plans.* Repeats need a claim, a death and another claim. Two stalls put three
requests at the plan at once: with two an item is never audited twice, with
three it is, when one finishes over the record of another, which is why
`ItemsAreAuditedOnce` counts stalls. Two items separate "this one" from "the
others", and each kind is there once.

`CHECK_DEADLOCK FALSE` stands where the system may stop: every table deleted
(`table_floor`), a plan finished and its mishaps used up (`action_plan`).

### Fairness

Three modules state liveness, each under fairness of what runs by itself.

*OrderEvents.* `FairSpec` assumes weak fairness of the handler's goroutine
(reaches `Publish`), of the stream's goroutine (greets and forwards), of the
client's retry loop, its timer, loads (answered, and landing) and of polling
where the screen polls. Nothing is assumed of staff, of the network's mishaps, of
session ends, nor that loads succeed for ever (`FailLoad` is bounded by
`MaxFailures`, not excluded by fairness). The property is about a screen that
stays in the foreground (`<>[]awake`): a phone in a pocket closes its stream.
Polling is a matter of the screen: in the run the kitchen's, the bill's and the
web floor's poll, and the phone's floor plan is left without its poll, so that
for it the stream has to do alone. There `ScreenCatchesUp` allows for one thing,
a last load that failed: nothing asks again for that.

*BillScreen.* The reload that an event or the poll asks for is weakly fair. A
read of which the answer counts is answered, and an answer lands, under strong
fairness: a read may be overtaken, fail or hang, but one asked for again and
again comes through. A read that is answered and no longer counts ends (weak
fairness). Nobody has to pay, send or cancel anything. `BillCatchesUp` is about a
bill that stays in front (`Following`).

*HubScreen.* The clock's tick, the floor's poll, the timers and React's effects
are weakly fair. Answers (`ServerReads`, `Land`) are strongly fair: a request
that is made again and again is answered some time, as `Fail` and `Hangs` compete
with each answer. A request that hangs for ever stops its loader, there being no
timeout; `[]<>~Busy` excludes that in `PolledValuesCatchUp`.

## 4. What does not hold

Comments and documents of the repository also say things of the program that the
models refute. One of them is a run, `kitchen_stream`: the comment on `Publish`
says "One queued invalidation is enough. A slow client will refetch the complete
current state when it consumes that event". The kitchen's screen looks at the
action of the event it receives; when the queued event is one it filters out and
the kitchen's own was dropped behind it, nothing reloads the board until its
60 s poll.

The others are definitions at the end of their modules. To see one, put it in
the place of the properties of the configuration named here, with the changes
in brackets.

| Statement | Configuration | What happens |
|---|---|---|
| `OnlyLiveLinesBlockEmptyClose` | `TwoOrders.cfg` | voiding the sent line and deleting the pending one leaves a stored status that refuses the empty close |
| `CommittedIsNotYetDeducted` | `SharedShelf.cfg` | a dish recalled from ready to cooking is counted as committed although already deducted |
| `CapacityCheckPreventsOversell` | `SharedShelf.cfg` (a dish whose option takes a second unit) | the capacity check counts base recipes, the deduction takes options too |
| `PriceEditKeepsTheRest` | `IngredientStock.cfg` | a price edit puts a dish back on sale that ran out meanwhile |
| `MaximumOnlyClimbs` | `IngredientStock.cfg` | saving an ingredient's form undoes the maximum a restock raised meanwhile |
| `ReconnectResyncs` | `OrderEvents.cfg` | a stream lost and greeted again within two seconds of a resync does not resync; the poll repairs it |
| `WebHearsItsStream` | `OrderEvents.cfg` | a change the web floor is told of while the page loads by itself is turned down, and one published between two sessions is greeted and not loaded; the 60 s poll repairs both |
| `VisitedPagesAreReloaded` | `HubScreen.cfg` | use-hub-data.ts:63-64 "except what the page just visited can have changed (noteOpened), which reloads at once": a heavy load in flight since before the visit is not followed by another, and a hub left again within the 350 ms of the animation forgets the visit; the stale value may stay for five minutes |
| `ReleaseTakesNoLock` | `TableLocks.cfg` | the single-column release of a table does wait for a table transaction |
| `KeysAreReusedSafely` | `CustomerOrder.cfg` | a retry after a lost answer, across a closed bill, orders the lines on the next bill too |
| `OneKeyOneCart` | `CustomerOrder.cfg` | customer_order_service.go:31 "idempotency key was already used with a different request": a dish added while the phone looks for its place makes the page forget the key, the request then takes a new key with the old cart, and if its answer is lost the next tap sends that key with the larger cart; the guest is refused (409) at every further tap until the cart is edited or the page reloaded |
| `EmptiedCartIsOrdered` | `CustomerOrder.cfg` | a line added while a submission runs is cleared with the cart and never sent |
| `NothingRunsTwice` | `ActionPlan.cfg` | a slow confirmation is overtaken after two minutes and an item runs twice |
| `OneAuditRowPerItem` | `ActionPlan.cfg` | of three requests one finishes "failed" over what another recorded, and the third records and audits the item again |
| `EveryChangeIsAudited` | `ActionPlan.cfg` | an outcome whose record failed is stored at the end without its audit row |
| `FailedPlansWroteNothing` | `ActionPlan.cfg` | ai_action_plan_repository.go:402 "failed when none did": the service writes the item, fails to read it again and answers the error, and the owner is told that nothing was changed |
| `OthersChangesSurvive` | `ActionPlan.cfg` | an edit between the look and the write is overwritten |

`BillScreen` shows one more thing no line of the repository speaks about: `pay()`
of an order that was paid elsewhere meanwhile answers success, so the second
cashier is told the payment was recorded; they are warned only when the amounts
differ (`NobodyIsShortchanged` says that much holds).

What is left of the last group is what `action_plan` checks: an item runs again
only for a run no outcome tells of or a claim that timed out under a request still
at work, and an item reported as failed wrote only in runs of the first kind.

## 5. The proofs

`OrderServiceProofs` proves, for every set of orders, lines, tables, dishes,
ingredients, prices and every recipe allowed by `OrderService`'s assumptions:

| Theorem | Property |
|---|---|
| `TypeCorrect` | `[]TypeOK`: no negative stock, quantity or deduction |
| `TablesAreInStep` | `[]TableFollowsOrders`: occupied exactly while one active order sits there |
| `NoWorkLeftBehind` | `[]ClosedOrdersHoldNoWork` |
| `PaymentsAreExact` | `[]PaidExactlyTheBill`: completed exactly by one payment of what the lines come to |
| `ClosedOrdersStay` | `ClosedOrdersAreFrozen`: no step changes a closed order, its lines or its payment |
| `FinishedIsFinished` | `[]FinishedStatusIsTrue`: an order that reads ready or served hides no unfinished line |
| `BillsAreCurrent` | `[]StoredBillIsCurrent` |
| `KitchenIsCounted` | `[]DishesInTheKitchenAreCounted`: an order with a dish with the cook reads sent_to_kitchen or cooking |
| `StockIsAccounted` | `[]StockIsAccountedFor`: what came in is on the shelf or in one deduction row |
| `ShelfIsEnough` | `[]ShelfCoversTheQueue`: the capacity check never oversells |
| `CookedIsDeducted` | `[]CookedDishesAreDeducted` |

The assumptions are the named `ASSUME`s of the modules, which TLC evaluates on
every run. In `OrderService` they say that bounds, prices, surcharges and recipes
are natural numbers and that `None` is not a name.

**The invariant of the orders.** `TableFollowsOrders` is not inductive alone:
`TablesWithout(o)` frees the table of an order that is closed, which is right
only if that order really holds it and no takeaway does. `IInv` therefore
joins to `TypeOK` that a used line belongs to an existing order (`Belong`), that
takeaways hold no table, and the three safety properties together. The argument
runs over every action. `StepClasses` sorts the disjuncts of `Next` into those
that leave orders and tables alone, those that change one order's lines, and
those that open or close one, so that each conjunct is argued once per class
instead of once per handler. Two facts carry most of it: a handler touches only
lines of one active order (hence closed ones are frozen), and `Refreshed` and
`Recalculated` never change whether an order is active. `PaidExactlyTheBill`
needs `Bill` of a closed order to depend on its own lines only, which is the
lemma that equal lines give equal bills. `ClosedOrdersAreFrozen` follows from
`IInv` at each step.

**The invariant of the rows.** `RowsAgree` says of every order that its row agrees
with its lines: its bill while it is open or paid, its status when it reads ready
or served, and that no dish is with the cook while it reads open. What is said of
finished orders is not inductive alone. `OrderStatusFromItems` keeps the
status it is given when lines are still pending, so `Refreshed` would carry a wrong
"ready" on; `RowsAgree` therefore also says that under a finished status every live
line is ready or served, which `Reopened` restores when a line is added and which
makes an edit of a pending line impossible on such an order. What is said of open
orders rests on it in turn: adding a line reopens exactly the finished orders, of
which no line is with the cook. `DishesInTheKitchenAreCounted` follows, with
`NoWorkLeftBehind` for the orders that are closed.

**The invariant of the shelf.** `ShelfInv` joins three facts. Nothing has been
taken for a line before the kitchen has it (`Untouched`). What was received is on
the shelf or taken (`Taken`, the sum of the deduction rows). And the shelf covers
the `Claims` of all lines, where a pending line claims its base recipe, since its
options may still change, and a cooking line what it has not taken yet. The third
is what `ShelfCoversTheQueue` lacks: the queue's debt jumps when a line with other
options is sent, and only the claim, which never grows without a capacity check,
is kept by every step. It needs in turn that a dish was taken whole or not at all
(`TakenWhole`), so a recalled line claims nothing again. Each handler then is one
of three kinds: calm (each line keeps its deduction and claims no more: `CalmStep`),
growing one line by what the check let through (`GrowStep`), or cooking one line
(`DeductStep`). The payment's second try at lines an empty shelf could not give is
argued by the first line, in line order, whose turn would not balance
(`TurnsAccount`). The strengthening was model-checked on both instances first.

Sums are `SumFunctionOnSet` of the community modules, a fold. What it comes to
after a change is proved from its definition: a set of subsets of a finite set has
a smallest member (`SmallestSet`), so what passes from every smaller subset to a
set holds of all (`SetInduction`, with the induction hypothesis a set rather than
an operator); by it the sum of a set is any element's value and the sum of the rest
(`SumWithout`), and a change at one point changes the sum by as much
(`SumChangedAt`).

The second half of `OrderServiceProofs` is about one ingredient of the inventory,
whose lots need the same facts about sums. For any bound on quantities, any number
of lots and dates and any percents:

| Theorem | Property |
|---|---|
| `ShelfTypeCorrect` | `[]ShelfTypeOK` of `IngredientStock`: no negative stock or remainder |
| `StockStaysExplained` | `[]StockIsExplained`: the lots, and the movements replayed, come to the stock |
| `SoonestGoesFirst` | `SoonestIsUsedFirst`: no usage touches a lot while one that expires sooner holds anything |

**The invariant of the lots.** `StockInv` joins to the three accounts (row, lots,
replayed movements) what the open edit forms may hold. What is hard is the
draining loop. `StockOut` and `Cook` walk the lots by expiry, a lowered
count by delivery, and each lot gives what it has of what is still asked for. The
model says this without a loop: what a lot gives depends on what the lots before it
hold. `LinesUp` says what makes "before" an order, and `BySoonest` and `ByDelivery`
are shown to be such orders. `FrontGivesItsShare` is the heart: the lots in front of
any point, together, give the smaller of the quantity and what they hold, by
`SetInduction`, taking out the last of them (`SomeLotIsLast`). Hence lots that hold
enough lose exactly the quantity (`DrainedLots`), and they hold enough because they
come to the stock, and nothing takes more than that: `StockOut` refuses, `Cook` takes
what there is. The same lemma read for one lot gives `DrainTakesTheFrontFirst`, whose consequence is
`SoonestGoesFirst`. That `Discard` removes the whole of a lot needs that no lot
holds more than the stock, since the code clamps at the stock. The assumption is
`IngredientStockAssumption`: bounds are numbers, there is room for the lot an
ingredient starts with, and `min_stock_percent` is at most 100.

`TableFloorProofs` proves, for every set of tables, guests and slots and any
number of reservation rows:

| Theorem | Property |
|---|---|
| `HoldsShowOnTheFloor` | `[]HoldsAreOnTheFloor`: reserved exactly while one active hold holds the table |
| `GuestsShowOnTheFloor` | `[]GuestsAreOnTheFloor`: occupied exactly while an active order sits there |
| `SlotsAreBookedOnce` | `[]OneBookingPerSlot` |
| `DeletedStayBare` | `[]DeletedTablesAreBare` |
| `LaterBookingsSurvive` | `BookingsForLaterSurvive`: a booking for later ends only by its own id |

**The invariant of the floor.** None of the five stands alone: releasing a table
writes `free` because its one hold ended, and that it had only one hold, and no
order, is what the others say. `IInv` joins to them that an active row names a
table of the floor and that a table with an order has been visited
(`DeleteTable` looks for orders that ever sat there). The argument separates the
rows from the floor. A handler changes at most one row, which it creates, hands
over to another guest or ends; `CreatedBookings`, `HandedOverBookings` and
`EndedBookings` say which bookings and holds each table has then, and
`CreatedRowsFit`, `HandedOverRowsFit` and `EndedRowsFit` that no two rows clash.
`HandlerKeepsFit` does the floor once for all: the invariant survives a handler
whose status says what became of the hold, the order and the table. Each action
then only has to show which of these it is. A by-product: under the invariant
`HoldResolved` always finds a hold, so the row the code writes "for the record"
when there is none is never needed by a run of these handlers. The assumption is
`TableFloorAssumption`: a number of rows, and `None` is not a name.

`TableLocksProofs` proves, for any number of sessions, tables, bookings and
requests, and for a zone of any size:

| Theorem | Property |
|---|---|
| `LocksTypeCorrect` | `[]TypeOK` of `TableLocks`: what is left to do is the end of the plan, and no row has two holders |
| `ChecksAreStable` | `[]ChecksStayTrue`: what was read under a table's row stays true until commit |
| `TransactionsImplementTheFloor` | `FloorIsImplemented`: every commit is one step of `TableFloor`, every other step none |
| `NobodyWaitsInACircle` | `[]SomebodyCanMove`: no set of transactions waits in a circle |
| `OverlapKeepsTheFloor` | the four invariants of `TableFloor`'s table above, of the floor the sessions commit |
| `OverlapKeepsLaterBookings` | `BookingsForLaterSurvive` of the same |

**The invariant of the locks.** `LocksInv` says of each session that it holds the
table and order rows it has stepped on (`HoldsItsRows`), that it has seen no
booking before its first step on one (`KnowsNoBookingYet`), that an order it has
locked and seen open is still open (`KnowsItsOrder`), and `ChecksStayTrue`
itself (`Knows`). Two facts about the code carry it. `TablesComeFirst`: in every
handler's plan the orders and bookings are read after the table's row is locked,
so nothing stale is carried past the lock. `OnlyAt`: whatever a handler at a
table does to the reservation rows (hold, hand over, reconcile, resolve,
schedule), it leaves the bookings of other tables alone, also those of the rows
it creates. So a commit disturbs only what was read of the table whose row it
holds (`WriteKeeps`), and at its own commit a handler sees its table as it is
(`SeenAtCommit`), which turns each `Commit...` into the action of `TableFloor` of
the same handler. `OverlapKeepsTheFloor` and `OverlapKeepsLaterBookings` then carry
the theorems about `TableFloor` over, by an instance of `TableFloorProofs` whose
floor is shown to be the one implemented (`FloorIsTheFloorOfTheFacts`). The
assumptions are `TableLocksAssumption` (the zone lists tables and none twice, the
rows are a number, `None` is not a name) and that what arrives is a request.

`NobodyWaitsInACircle` rests on a level for every row: orders below tables, tables
in the order of their ids, then the restaurant's counter, then the bookings. Every
plan climbs, and a session holds only rows of the levels it has stepped on
(`HeldInv`). In a set of waiting transactions the one that waits highest up waits
for a row whose holder, would it wait in the set, waits higher still. That a zone
lists no table twice is what makes the zone's handlers climb.

`LiveScreenProofs`, `BillScreenProofs` and `HubScreenProofs` prove, for any
number of screens, changes, drops, failures, reads in flight, totals, days and shops:

| Theorem | Property |
|---|---|
| `EventsTypeCorrect` | `[]TypeOK` of `OrderEvents` |
| `NothingIsEverMissed` | `[]NothingIsMissed`: a phone that takes every event and greeting has each change on its screen, on its way, or in a load that failed |
| `BillTypeCorrect` | `[]TypeOK` of the bill screen |
| `SpinnerIsNeverLeft` | `[]SpinnerHasItsLoad`: a spinner and a reload held behind it have the read that ends them |
| `BillOnlyMovesOn` | `BillNeverGoesBack`: no older bill replaces a newer one |
| `ChangesArrive` | `[]OwnChangesArrive`: this phone's change is shown, on its way, or closes the payment |
| `OldBillsAreMarked` | `[]OldBillsSaySo`: a bill from before the screen was left is being replaced or says so |
| `PaymentsAreToldTrue` | `[]NobodyIsShortchanged`: the payment told is the one on record, and a changed total is said |
| `BoardTypeCorrect` | `[]TypeOK` of the kitchen board: one request counts, one holds the screen |
| `BoardOnlyMovesOn` | `BoardNeverGoesBack` |
| `RefreshesAreKept` | `[]NoRefreshIsForgotten` |
| `NumbersStayWithTheirShop` | `[]NumbersAreThisShops` |
| `NumbersOnlyMoveOn` | `NumbersNeverGoBack` |
| `ToldChangesComeBack` | `[]ToldChangesAreFetched`: a slot from before a change the hub was told of is being replaced |

**The invariant of the stream.** `StreamInv` joins to the types and to `KeepsUp`
of the phones that take everything that the snapshots fit (`SnapshotsFit`). `KeepsUp`
alone is not inductive: a load that was answered before the screen last moved on
would, when it lands, take back a change that nothing announces any more. So an
answered load is no older than the screen and than what a failed load was excused,
nothing is younger than the log, and a screen without a load holds no answer. Then
each action only has to show that what was on its way still is or is on the screen
by now (`StaysComing`), or that the phone stops listening, which is when
`KeepsUp` rests on the greeting or resync to come (`KeepsUpWhenNothingIsLost`);
everybody else is `Undisturbed`. The cases that carry it are the dropped event (the
slot it did not fit in announces it too), the greeting (which asks for a resync
however many events were lost with the last connection), and the failed load, which
excuses exactly the changes it was to bring. The screens that filter events, skip
greetings or load by themselves are left out by the property, because for them it is
false (section 4).

**The invariants of the other screens.** They are alike. A screen may have any number
of requests out, and what protects it is a ticket: at most one request counts,
and its answer, once read, is no older than what is shown (`Bring`, `Sound`,
`RequestOf`). That alone gives the three "never goes back" theorems: when the
request that counts lands, nothing else counts any more. Nothing-is-forgotten
properties need in addition who still owes the screen something: on the board a
gate that reconciles exactly while its request is out (`GateHeld`), on the bill
that the request of a change never carries the spinner (`RereadsBehind`) and
that a change not shown is `owed` (`InOrder`, `SaysSo`). On the hub every request
carries the scope in force when it left, and while the shop changes the scope
names the shop that was left, so no answer fits the new one. `ToldChangesComeBack`
adds that a hub that is covered asks for nothing and holds nothing of its last stay
(`Covered`), and that while it is in front a version it was told of is coming back
in the request that is out, in the trailing load behind it or by a timer
(`Told`): whichever of the three an operation takes away, it leaves another.
`PaymentsAreToldTrue` needs that a payment that came through is on the order
(`Settled`) and that nothing reaches an order that is paid. Each invariant is
argued once per operation on a set of requests (begin, invalidate, release,
settle) and then action by action.

`CustomerOrderProofs` proves, for any number of phones, requests, keys and lines
(and at least one code, `NumTokens \in Nat \ {0}`):

| Theorem | Property |
|---|---|
| `CustomerTypeCorrect` | `[]TypeOK` |
| `RetriesAreSafe` | `[]RetriesOrderOnce`: a submission's lines are on the order once, and there when a guest is told so; one key has two carts, and a guest a 409, only after a dish added between the tap and the request |
| `CodesAreKept` | `[]GuestsKeepTheirCode` |
| `HeldLinesWait` | `HeldLinesWaitForStaff` |

**The invariant of the customer's pages.** Three groups. Of the pages: an answer
names an order somebody opened, and while that order is the open one the code it
was asked with is still the table's (`AnsweredUnderTheCode`), since the code is
renewed only when the order is closed; a page that waits for a request has kept the
code it sent (`SentWithTheCode`). Of the keys: they are numbered in the order they
are made, no two pages share one, and whoever still has a key has the cart it was
made for, on the wire and in the stored submissions too, or a larger one when the
key is among the `crossed` (`KeysKeepTheirCart`). That a tap with a key still has
the cart it saw (`TapsKeepTheirCart`) is what keeps it to two carts, one within
the other: adding a dish makes the page forget its key, taking one out has to wait. Of
the lines: a stored submission has its lines on its order and no line with a key is
there without its submission (`StoredLinesAreOrdered`, `ItemsAreStored`), the two
writes being one transaction. With them a retry finds either the submission, and
answers it, or no line of its key. `HeldLinesWait` is argued at each step from what
`MarkSent` leaves of the rows.

`ActionPlanProofs` proves, for any number of items, requests and mishaps:

| Theorem | Property |
|---|---|
| `PlanTypeCorrect` | `[]TypeOK` |
| `RepeatsArePaidFor` | `[]RepeatsAreForMishaps` |
| `FinishedPlansAreHonest` | `[]ReportIsHonest` |
| `AuditsAreOnce` | `[]ItemsAreAuditedOnce` |
| `ConfirmedIsRun` | `[]RunsWhatWasConfirmed` |

**The invariant of the plan.** Requests are counted rather than named. At most one
request more than there were stalled claims is at work (`FinishedStatusIsHonest`
and its companion speak of no stalls, hence of one request). The runs of an item,
with the requests that may still run it, come to no more than one, the runs no
outcome tells of and the stalls: a claim admits a request only when no other is at work or
one has stalled, so each further run is paid for before it happens. Audit rows are
paid for the same way by a potential: twice the rows beyond the first, one if the
item is not recorded as executed, and the requests that may still record it,
together no more than the stalls. And while nothing stalled, the request at work
alone decides the plan's status, so what it reports at the end is what the items
did, but for the runs no outcome tells of.

**Model-checked only.** The three liveness properties, `ScreenCatchesUp`,
`BillCatchesUp` and `PolledValuesCatchUp`: liveness under fairness and `ENABLED` are
beyond these provers. Every safety property of a passing run has a theorem.

## 6. What is not modelled

| Part | Why |
|---|---|
| Service charge, VAT, repricing of open orders | planned; until then a bill is the sum of its lines |
| Order numbers and the business date | planned |
| Recipe edits, deductions as row locks | planned; handlers are atomic in `OrderService` |
| Zones' labels and sequences, table edits of text | planned; zones appear in `TableLocks` for their locks only |
| Table-plan screen of the phone, order and kitchen pages of the web | planned as further instances of the client models; their hazards are in the list |
| The two reads of the capacity check | `ensureMenuCapacity` reads under the restaurant's advisory lock; the kitchen, which does not take it, can commit between them. They are one step in `OrderService` |
| Menu categories, photographs, printing | single-row edits and pure input and output |
| Provider rotation and health of the assistant | planned |
| The assistant's language pipeline | text processing around an external model, no state of its own |
| Sessions, sign-in, permissions, members, invitations | request filters; the models have the handlers behind them |
| Restaurants' profiles, media, reports, exports, expenses | single-row edits and read-only queries |
| Rounding of floats | not representable; quantities and money are whole |
| Half-open TCP connections | a lost connection is noticed at once in `OrderEvents` |
| Layout, wording, sound, images, landing pages, scripts | no behaviour to check |

## 7. The plan

1. `OrderService` and its first proofs (done).
2. `OrderEvents` with the web floor, `KitchenBoard`, `BillScreen`, `HubScreen`
   and the proofs of all but the liveness properties (done); then the table-plan screen and the
   web's order and kitchen pages.
3. `TableFloor`, `TableLocks` and their proofs (done); then zones and labels.
4. `IngredientStock` and its proofs (done); then a lock model of deductions and recipe edits,
   where ingredient locks are taken dish by dish, and the capacity check's two
   reads among them.
5. `CustomerOrder`, `ActionPlan` (done).
6. Bill settings and repricing; order numbers; provider rotation.
7. Proofs: every safety property of the passing runs (done). What the later
   modules add to the core (settings, labels, deduction locks) is to be proved with
   them.

## 8. How to run it

```
tlc -workers 2 -config TwoOrders.cfg MCOrderService    # likewise the other runs
tlapm OrderServiceProofs.tla                           # likewise the other ...Proofs
```

`PROJECT.json` names the module and configuration of each run, whether it is
expected to pass, and for each property a plausible bug (`mutants`: a definition
and the mutated form of it kept beside it) that makes the run fail.
