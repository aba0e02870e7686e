# Formal model of the rental service

This directory holds TLA+ specifications of the service in `src/`: items are
rented out of parcel lockers, by a back end (`src/backend`: FastAPI, async
SQLAlchemy, PostgreSQL, Redis), a site, an operators' panel, an admin panel, a
mobile app, bots for the staff, and scripts that bring the catalogue along with
every deploy. TLC checks the modules on small instances, and TLAPS proves most
of the safety properties, and the refinement of the abstract specification, for
all instances.

Run, in this directory, `tlc -workers 2 -config <run>.cfg <MC module>` for a run
named in `PROJECT.json`, and `tlapm <module>` for a module whose name ends in
`Proofs`. `StaffProofs` takes about eight minutes, `PaymentFlowProofs` five, the others less.

## 1. The system

One Python process runs one event loop (the support chat is written for
several, joined by Redis). HTTP handlers are coroutines on it; the schedulers are
threads that hand a coroutine to the same loop once a minute and wait for it
(`reservation_expiry_worker`, `utils/reservation_expiry.py`). Every handler has a
database session of its own, with `autoflush` and `expire_on_commit` off
(`core/database.py:12-17`), and few of them lock a row. What a handler has
loaded is therefore a copy, and every `await` of a slow outside call lets the
other handlers move the rows underneath it. On the screens it is the same: what
a page shows was true when it asked.

| component | state | operations | meets |
|---|---|---|---|
| Reservation payments (`utils/payment_flow.py`, `payment_reconcile.py`, `yookassa_service.py`, `routers/payments.py`) | `payments`, `payment_events` | open a link, poll, webhook, reconcile sweep, refund | YooKassa; moves reservations |
| Queue for an item (`routers/reservation.py`, `utils/reservation_handover.py`, `reservation_auto_confirm.py`, `reservation_expiry.py`, `rental_pickup_expiry.py`, `rental_cancellation.py`) | `reservations`, `rentals`, `inventory_units` | create, confirm, auto-confirm, expire, cancel | payments, lockers |
| Pickup (`routers/me.py`, `utils/rental_auto_pickup.py`) | `rentals`, cell and unit | open cell, confirm pickup, auto pickup | lockers (ESI) |
| Return (`routers/me.py`, `utils/rental_return_flow.py`, `return_requests.py`, `return_photos.py`, `routers/admin/inventory.py`) | `return_requests`, `rentals`, unit, cell, condition reports | request, confirm, photos, deadline, operator's check | lockers, queue |
| ESI integration (`utils/esi_client.py`, `esi_webhook_handler.py`, `esi_reconcile.py`) | `locker_cells`, codes in the hardware | set cell, open cell, door events, reconcile | returns, fleet |
| Extension and overdue (`utils/rental_extension.py`, `rental_overdue.py`) | `rentals.planned_end_at`, extension events | paid extension, overdue sweep | payments, queue |
| Bonus ledger (`utils/bonus_ledger.py`) | ledger entries | spend, release, accrue, adjust | payments, returns |
| Prices and calendar (`utils/rental_pricing.py`, `product_filters.py`, `products_utils.py`, checkout of the site) | tariffs, markups; what pages show | resolve a price, estimate on the page, busy days | reservations, payments |
| Accounts and review (`routers/auth.py`, `me.py`, `admin/users.py`) | one-time codes, users, documents | request, confirm, submit, delete, review, block | queue (who may rent) |
| Sessions on the clients (`utils/auth_utils.py`, the stores of the site, panels and app) | session rows, stored tokens, tabs | login, refresh, logout, revoke | |
| Support chat (`services/support_chat_service.py`, `realtime/`, widget, workspace) | conversation, messages, marks, sockets, screens | post, read, close, deliver, reconnect | Redis, bots |
| Bots of the staff (`utils/telegram_bot.py`, `max_bot.py`, `*_subscribers.py`) | subscribers, uploads | start, resync, notify with photos | Telegram, MAX |
| Public forms (`utils/captcha.py`, `public_rate_limit.py`, `routers/feedback.py`, `franchise_leads.py`) | answered pictures, windows, in memory | issue, verify, throttle | |
| Catalogue editing (`utils/admin_edits.py`, `routers/admin/products.py`, `cities.py`, `product_filters.py`, `scripts/apply_catalog_bundle.py`) | cards, marks of edits | edit, create, delete, deploy | |
| Fleet (`routers/admin/lockers.py`, `scripts/apply_catalog_bundle.py`, `migrate_lockers_to_real.py`) | lockers, cells, units, movements | create, edit, delete, put in, take out, deploy | queue, returns, ESI |
| Everything else of the admin panel, interfaces, mail, uploads, statistics | rows | editing, lists, rendering | |

### What is hard

* **Money and rows disagree.** The payment provider is asked over the network;
  notifications come twice, late, out of order or never; the process may stop
  between a refund and the commit that records it.
* **Stale copies.** A handler checks a row, awaits a provider or a locker, and
  writes. Reservations, rentals, payments, units and codes can all have changed.
  A deploy does so for minutes.
* **A queue without locks.** Clients book by calendar a unit that somebody else
  has; two sweeps and several requests decide who gets it next.
* **Hardware.** A locker loses its codes, its door events come late, twice or
  never, and a snapshot of its cells is old when it is compared with the rows.
* **Sweeps.** Retries of failed refunds, batches with a single commit or a limit,
  and a loop that must reach every row.
* **Two writers of one record.** Deploys and operators write the same cards and
  lockers; tabs of one browser write the same tokens.
* **Delivery.** Sockets, the bus and the messengers fail half-way; what people
  wrote must neither vanish nor come twice.
* **Boundaries of days.** Deadline of a pickup, end of a rental, start of the
  next, and midnight in another zone.

`PROJECT.json` lists the hazards line by line with the properties aimed at them.

### What makes each component correct

* Payments: nothing counts as paid that was not; nothing counts as returned
  that was not; a payment is noticed without any notification; settled rows
  stay; a paid reservation closes with its money back.
* Queue and pickup: one unfinished rental for an item, until its days are over; the item of a pickup lies
  set aside in its cell and the client's code opens it, also after the locker
  forgot it, and no cancelled rental's code does; no two live bookings share
  a day; no rental without money, and no cancelled rental with it; what is ready
  is handed over, what is not collected ends.
* Return and ESI: a cell is promised to one return, or to two only if they were started
  at once; a return is closed by its own
  door; the unit of a live rental is never put on offer; every return ends; one
  report, its photos attached once.
* Extension: the end of a rental is what was paid for, within the next booking;
  a paid extension is settled.
* Bonus ledger: the balance never goes below zero, and card, points and accrual
  of an order add up.
* Prices and calendar: the sum shown is the sum charged; a day that is offered
  is not refused.
* Accounts and sessions: guesses of a code are bounded, who may rent was
  reviewed, nobody is signed out without a reason.
* Chat, bots, forms: a message reaches the screens that are open, a text that
  was typed stays until it is stored, a notification reaches every chat once, the
  guards of a form hold whatever their tables forget.
* Catalogue and fleet: a deploy does not undo what an operator did and does not
  double a card; what is booked or out keeps its place, its locker and its unit.

## 2. Modules

| module | what it is |
|---|---|
| `MoneyPromise` | abstract specification: what happens to the money of a reservation, with no rows, sweeps or notifications |
| `PaymentFlow`, `MCPaymentFlow` | payments in detail, refines `MoneyPromise`; which reservation each link belongs to, for TLC |
| `PaymentFlowProofs` | invariants and theorems about `PaymentFlow`, and its refinement of `MoneyPromise` |
| `Handover` | queue, rentals, pickup, expiry and cancellation for an item |
| `Calendar` | the calendar of a product, on top of `Handover` |
| `MCHandover` | symmetry of the clients, for TLC; extends `Calendar` |
| `HandoverProofs` | invariants and theorems about `Handover` and `Calendar` |
| `Pickup`, `Returns`, `ReturnReport`, `MCReturns` | the collection of an item: codes, doors, the tick, cancellation; returns with cells, codes, doors and operators; photos and notes of a return |
| `BonusLedger`, `Extension`, `Account`, `SignedIn`, `Pricing`, `MCClient` | what belongs to one client |
| `SupportChat`, `StaffBots`, `PublicForm`, `Catalog`, `Fleet`, `MCStaff` | what the staff and its deploys meet |
| `ReturnsProofs`, `ReturnReportProofs` | invariants and theorems about returns and the collection of an item; about the reports of returns, and about all three together in `MCReturns` |
| `BonusLedgerProofs`, `AccountProofs` | about points, prices and extensions; about codes, documents and sessions, and all of `MCClient` |
| `ChatProofs`, `StaffProofs` | about the chat and the public forms; about `StaffBots`, `Catalog` and `Fleet`, and all of `MCStaff` |

`MCReturns`, `MCClient` and `MCStaff` check components that share no variable in
one run. A variable `focus` says which component a behaviour is about; the
others keep their initial state. This is a sum of the components, not a
product, and says no more than runs of their own would.

### Conventions

A step is the code between two calls to an outside service, or between two
statements where another transaction may commit. What a handler holds across
such a point is a record in a variable of the module (`session`, `work`, `call`,
`posts`, `sweep`, `edit`, `tab`), and at its commit it writes the attributes it
has changed and no others. A constant ending in `Budgets` is a set of bounds: a
behaviour picks one and spends it, so that one run has several scenarios
(many edits and no deploy, few edits beside a deploy) without their product.
Definitions marked `Mutant:` are plausible bugs; nothing in the models uses them.

### PaymentFlow

`reservation`, `due` and `payment` are the committed columns
`reservations.status`, "`expires_at` has passed" and `payments.status`.
`provider`, `returned` and `notices` are YooKassa; `events` is the table that
deduplicates notifications. `session[h]` is what handler `h` holds across its
provider call: the copies it loaded, the attributes it changed but has not
flushed, the rest of its sweep. `Commit` writes only the changed attributes.

| code | actions |
|---|---|
| `create_preauth_for_reservation`, `ensure_no_active_payment_for_reservation` | `StartPay`, `PaySynced`, `PayAnswered` |
| `get_payment` | `StartPoll`, `StatusAnswered` |
| `process_yookassa_webhook` | `StartWebhook`, `StatusAnswered` |
| `list_my_reservations` | `StartList`, `ListAnswered` |
| `cancel_my_reservation` | `StartCancel`, `CancelResolved`, `CancelRefunded` |
| `reconcile_pending_payments` | `StartTick`, `Reconciled` |
| `expire_stale_reservations`, `release_reservation_payment` | `StartExpiry`, `ExpireUnpaid`, `ExpireResolved`, `ExpirePaid`, `ExpireRefunded`, `ExpiryCommitted` |
| `apply_payment_status_transition`, `_sync_reservation_with_payment` | `Applies`, `Applied` |

`LinkPaid`, `LinkAbandoned` and the answers of YooKassa are the environment.
`Confirm` stands for the transition that `Handover` has in detail.

### Handover and Calendar

`booking`, `rental`, `unit` and `inCell` are the rows; `pin[u]` is the code in
the hardware of the cell of `u`; `money` summarises `PaymentFlow`
(`"returning"`: given back by a batch that is not committed). Time is `today`;
a rental takes `Days` days from any day, also one that is over: `create_reservation`
checks no date (`StartCreate`), and the `startAt` of a confirmation goes before the date
of the reservation (`ConfirmAnswered`). The deadlines are those of `reservation_utils`
and `calculate_handover_pickup_expires_at`.

| code | actions |
|---|---|
| `create_reservation` | `StartCreate` (checks, choice of the unit), `InsertReservation` |
| `confirm_reservation` | `StartConfirm`, `ConfirmAnswered` |
| `auto_confirm_paid_reservations` | `StartTick`, `SweepOne`, `SweepAnswered` |
| `expire_stale_reservations` | `StartExpiry`, `ExpireOne`, `ExpireRefunded`, `ExpiryCommitted` |
| `cancel_my_reservation` | `StartCancel`, `CancelRefunded` |
| `cancel_rental_before_pickup` | `StartCancelRental`, `RentalRefunded`, `PinReset` |
| `expire_stale_pickup_rentals` | `StartPickupExpiry`, `RentalRefunded`, `PinReset` |
| `open_pickup_cell`, `confirm_pickup`, `auto_confirm_opened_pickups` (the locker's side is in `Pickup`) | `StartOpen`, `OpenAnswered`, `StartPickup`, `PickupAnswered`, `AutoPickup` |
| `complete_return_request`, `confirm_inventory_ready` | `ReturnCompleted`, `ConfirmReady` |
| `get_handover_blocker`, `release_unit_from_reservation`, `_get_available_inventory_unit` | `CanHandOver`, `Releases`, `FreeUnits` |
| `compute_busy_dates_for_product`, `load_available_lockers_for_product`, `RentalDateRangePicker` | `BusyDays`, `Bookable`, `Offered` of `Calendar` |

`Calendar` has no state: it puts what the page would offer beside `FreeUnits`,
which the reservation would find, in every state of the queue.

### Pickup

`hire` holds the rentals of one item in one cell, one after another. `box` and
`opened` are the columns `status` and `last_opened_at` of the cell, `code`, `full`
and `ajar` what the locker knows of it, `pinReset` the event `pickup_pin_reset`
of a rental. Of `last_opened_at` and `rentals.created_at` only their order matters:
`opened` is the newest rental at the time. Every call to the locker may be carried
out or not, and answered or not (`LockerCall`).

| code | actions |
|---|---|
| `open_pickup_cell`, `test_open_cell`, `admin_trigger_open_cell` | `AskToOpen`, `AskToTest`, `DoorAnswered` |
| `confirm_pickup` | `AskToCollect`, `CollectAnswered` |
| `auto_confirm_opened_pickups` | `CollectedByTimeout` |
| `cancel_rental` of the operator, `cancel_rental_before_pickup`, `expire_stale_pickup_rentals` | `GiveUp` |
| `reset_pin_after_pickup_cancel`, `_replace_pin` | `ResetSkipped`, `ResetCalls`, `ResetAnswered` |
| `process_esi_webhook_payload`, `_mark_pickup_opened`, `_mark_pickup_completed` | `DoorEvent` |
| `reconcile_esi_and_returns`, `_restore_forgotten_pickup_pins` | `SweepAsks`, `SweepReads`, `Restorable`, `SweepWrites` |

`HandOverNext` is the end of a hand-over (`Handover`); `OpenByCode`,
`DoorFallsShut`, `LockerForgets` and `EventIsLost` are the locker and whoever
stands before it. That an event is delivered twice is in `Returns`, the refund of
a cancellation in `Handover`, the term of the rental in `Extension`.

### Returns and ReturnReport

`rental`, `unit`, `at`, `cell`, `reqs` are rows; `keypad`, `door`, the state of a
cell in the locker and `item` are what is really there; events of doors wait in a
bag and are delivered once, again, late, or never. `starts` holds the returns whose cell
is chosen and whose locker has been asked for the code: any number of them at a time,
since nothing is locked between the query and the insert. A request remembers how
many there were when its cell was `chosen`.

| code | actions |
|---|---|
| `start_rental_return` with `_find_home_return_cell`, `_find_legacy_return_cell` | `StartReturn` (checks, `ReturnCell`), `ReturnStarted`, `ReturnRefused` |
| `confirm_return`, `complete_return_request` | `ConfirmReturn`, `Complete` |
| `process_esi_webhook_payload` | `Webhook` |
| `reconcile_esi_and_returns`, `fail_return_request`, `_restore_forgotten_return_pins` | `TickReads`, `TickWrites`, `AfterDeadlines`, `Forgotten` |
| `confirm_inventory_ready`, `force_complete_rental`, `place_product_in_cell`, `take_cell_for_service`, assign, unassign, set a cell | `ConfirmReady`, `ForceComplete`, `Place`, `TakeForService`, `Assign`, `Unassign`, `SetCell` |
| `confirm_return` with photos, `_attach_late_return_photos`, `resolve_return_photo_files` | `Read`, `Commit`, `CommitFails`, `Attach` of `ReturnReport` |

`OpenWithCode`, `CloseDoor`, `EventLost`, `LockerReset` and `NextClient` are the
hands of clients and the locker. `ReturnReport` keeps of the return no more than
that the door, too, may complete it (`DoorCompletes`).

### What belongs to a client

| module | code | actions |
|---|---|---|
| `BonusLedger` | `create_preauth_for_reservation`, `apply_bonus_spend` | `StartPay`, `Spend`, `SpendRefused`, `LinkCreated`, `LinkFailed` |
| | `release_reservation_payment`, `release_bonus_spend` | `StartClose`, `Release`, `RefundRefused`, `Closed` |
| | `accrue_rental_bonus`, `admin_adjust` | `StartComplete`, `Completed`, `StartAdjust`, `Adjusted` |
| `Extension` | `extend_rental`, `get_extension_barrier` | `StartExtend`, `ExtendCommitted`, `ExtendFailed`, `Fits` |
| | `sync_payment_with_provider`, `apply_rental_extension_for_payment`, `reconcile_pending_payments` | `StartSettle`, `ReadRental`, `SettleCommitted`, `OldestOf` |
| | `mark_overdue_rentals`; the end of the rental | `StartMark`, `Marked`; `StartGiveBack`, `GaveBack`, `RentalEnds` |
| `Account` | `request_code`, `confirm_code` | `StartRequestCode`, `CodeSent`, `StartConfirmCode`, `CodeWrong`, `CodeRight`, `CodeRefused`, `LoginRefused` |
| | `create_`, `delete_verification_request`, `approve_`, `reject_verification`, `block_user` | `StartSubmit`, `Submitted`, `StartDelete`, `Deleted`, `StartReview`, `Reviewed`, `Block` |
| `SignedIn` | `login`, `logout`, `verify_*_token`, revoking | `LoginRead`, `LoginCommitted`, `Serve`, `Verdict`, `StartChange`, `ChangeCommitted`, `Blocked` |
| | `requestWithAuth`, `requestWithOperatorAuth`, `authorizedRequest`, `withFreshAccessToken`, restoring | `Sends`, `Restores`, `Receive`, `After`, `Forgets` |
| `Pricing` | `resolve_rental_price`, `progressive_total_minor`, `weekday_markup_total_minor`, `rental_start_day` | `RentalPrice`, `TermTotal`, `WithMarkups`, `StartDay` |
| | the page, the checkout | `Estimate`, `OpenPage`, `PricingArrives`, `OpenCheckout`, `Pay`, `PayForActive`, `LeaveCheckout` |
| | editing tariffs and markups, the bundle's tariffs | `EditFilter`, `EditMarkups`, `EditFlag`, `SyncPricePlans` |

`BonusLedger` has the two row locks of the code: the client's row while points
are spent, the rental's row while a return is confirmed (`ClientFree`,
`RentalFree`); an insert that refers to the client waits for the first one too.
`Pricing` computes with the real numbers of the code: kopecks, percentages,
rounding to ten roubles, days of the week.

### What the staff and its deploys meet

| module | code | actions |
|---|---|---|
| `SupportChat` | `support_client_ws`, `operator_ws`, `SupportChatSocket`, `OperatorChatSocket` | `Connected`, `RegisterClient`, `RegisterOperator`, `OpensOnSocket`, `Drop` |
| | `post_client_message_with_meta`, `post_operator_message`, acknowledgements | `PostClient`, `PostOperator`, `Commits`, `Fails`, `ClientFrameEnds`, `ClientCallEnds`, `OperatorFrameEnds`, `OperatorCallEnds` |
| | pages and their reconciliation, `messageList.ts`; the hub and Redis | `ClientReads`, `OperatorReads`, `Arrives`, `IsLost`, `AskOlder`; `Dispatch`, `BusFails` |
| | `handleSend`, `handleRetry`; status, assignment, reading; `notify_support_client_message` | `Type`, `Retry`; `SetsStatus`, `Assigns`, `MarksRead`; `Pings` |
| `StaffBots` | `handle_telegram_update`, `handle_max_update`, `resync_chat_ids`, the editing of subscribers | the linking and unlinking of `subs`, from updates or from what a resync `fetched` |
| | `_notify_with_photos`, `_deliver_uploaded`, `_send_with_media`, `_upload_attachments`, `fire_and_forget_notify` | `TakeChat`, `PhotoReply`, `FanOut`, `AgainReply`, `TextReply`, `Upload`, `MaxFanOut`, `MaxReply`, `Ended`, `Stops` |
| `PublicForm` | `issue_captcha`, `verify_captcha`, `RateLimiter.allow`, `create_feedback`, `create_franchise_lead` | `GetCaptcha`, `Accepts`, `Allows`, `Admit`, `SendIdea`, `SendLead`, `Restarted` |
| `Catalog` | the routes of products, cities and filters, `mark_admin_edited` | `OpenForm`, `StartEdit`, `EditCommits`, `EditFails`, `CreateCard`, `CreateFilter`, `DeleteCard` |
| | `apply_bundle` | `DeployCard` (the query, `Reads`), `DeployWrites` (its UPDATE or INSERT), `DeployGallery`, `DeployCommits`, `DeployFails` |
| `Fleet` | the routes of lockers, cells and units, their deletion | `CreatePoint`, `UpdatePoint`, `CreateBox`, `RenameBox`, `PutItem`, `TakeItem`, `DeleteReads`, `SweepCommits`, `SweepFails` |
| | `_upsert_locker`, `_upsert_cell`, `_sync_inventory_units`; `migrate_lockers_to_real.py` | `DeployFleet`; `MigrateReads`, `MayPurge`, `Doomed`, `KeptMoves`, `SweepCommits` |
| | bookings, as far as the deletions' guards look at them | `Book`, `Confirm`, `PickUp`, `CancelHire`, `GiveBack`; `MachineHeard` for ESI |

### Abstractions

* `PaymentFlow`, `Handover`: database awaits inside a step are not interleaved,
  except between the checks and the insert of `create_reservation`.
  `Overlap = FALSE` is the service with one handler at work at a time;
  `Overlap = TRUE` interleaves handlers at their calls.
* Left out of `PaymentFlow`: the sweep's age window (one minute to one day), the
  development stub. Extension payments, points and the limit of 50 rows are in
  `Extension` (with a limit of one) and `BonusLedger`.
* `Handover` counts days. The hour of tolerance before a pickup, the 90 seconds
  auto-confirm leaves to the front end and the 15 minutes before an auto
  pickup are below that; cells' own statuses, guests, and the branches
  of confirm for a reservation that is no longer paid are left out. An
  item out and due back counts for the whole of the current day.
* `waited` in `PickupDeadlines` does not compare the instants of creation and
  release: both deadlines are possible.
* `Attended`: a day does not pass while a rental is past its deadline or a cell
  stands open, because the sweeps that attend to them run every minute.
* `Handover` has no restart of the process; `PaymentFlow` has.
* `Calendar`: units stay in their locker, clients are in Moscow's zone, a
  reservation is not rescheduled. The tariff buttons and the default range of
  the page do not go through `hasBusyBetween`; only a range chosen by hand is
  offered in the model.
* `Returns` is one locker. Returns are started beside each other, and beside clients and
  doors, in every behaviour; `budget.shared` says whether operators write while a return
  waits for its locker, and anybody while the tick waits for its snapshot; `budget.slow`
  whether an event may arrive first after the next return into its cell has begun. Of
  two returns that are given one cell the codes may reach the locker in either order. The pickup events of a door are not in it.
* `Extension`: one rental, one following booking; time is counted in ticks.
* `Account`: hashes, tokens and the senders are values; a code "ages" at any
  moment. `SignedIn`: a token is the number of its session and whether it is
  fresh.
* `Pricing`: one product with a filter; the answers a page gets belong to the
  range it asked for. A page shows the two terms where the browser's formula is
  meant to agree: filter tariffs that do not cover the base terms (then the page
  merges both lists and the server takes the filter's) and terms only a filter has
  (refused with `PRICE_PLAN_OVERRIDE_NOT_SUPPORTED`) are named in
  `PriceAgrees`. The reschedule of a reservation, the points in the sum and the
  copy of a reservation that the page stores are left out.
* `SupportChat`: one conversation; texts are numbers; a worker that fails takes
  its sockets with it one by one. `StaffBots`: one notification, the answers of
  the messengers by what the code tells apart; a resync applies the updates it has
  fetched in one step, from its query of the rows to its commit
  (`telegram_admin_subscribers.py:296-313`, milliseconds). `PublicForm`: one process, its
  clock in seconds.
* `Catalog`: a card has two fields, one of each kind the code writes in its own
  way. Categories and the files of images are left out. An id is not used again
  (an identity column), and a form of a card that is gone is answered with 404.
* `Fleet`: reservation and rental are one record `hires`; two statuses of a
  locker; the target lists of `migrate_lockers_to_real.py` as they are in the code,
  so the branches for the empty ones are left out. A client does not collect an
  item between the queries of one deletion (milliseconds, while a deletion is
  run against lockers that are not used); bookings do happen there.

## 3. What is checked

All runs use two TLC workers; the largest three take two to three minutes. Deadlock
is checked in the runs of `PaymentFlow` and `Handover`; in `returns`, `client` and
`staff` a behaviour may spend its budget and end.

| run | instance | shows |
|---|---|---|
| `pay_overlap` | one reservation, two links, one request and the sweep interleaved, one failure of any kind (silence, refusal, lost answer, restart) | `PaidIsBacked`, `ReturnedIsTrue`, and `PaymentNoticed` under fairness of the sweep alone |
| `pay_serial` | two reservations in one expiry batch, handlers one at a time, both payment schemes, notifications twice and in any order, two failures | `KeepsPromise` (refinement of `MoneyPromise`), `SettledStays`, `DeadlineResolved` |
| `queue_serial` | two clients, one bike, two-day rentals from any of three days, past ones too, handlers one at a time, one failed call | `RentalIsBacked`, `NoDoubleBooking`, `CalendarHonest` |
| `queue_overlap` | two requests and both schedulers interleaved, one failure | `CancelledIsRefunded` |
| `queue_progress` | working lockers, two reservations of a day, today's and tomorrow's, handlers one at a time | `ReadyIsHandedOver`, `UncollectedEnds`; `OneUnfinishedRental` and `PickupWorks`, as long as no rental is awaited beyond its days |
| `returns` | an item and two rentals of it one after the other, a cell opened once, one reset of the locker, one failed call; two rentals out of one locker with two cells, a third rental waiting for a unit; a cell visited, the locker reset, the operator acting, the tick interrupted; two taps with photos | `CodeFollowsRental`, `OneReturnPerCell`, `LiveRentalKeepsUnit`, `OwnDoor`, `OneReport`, `ReturnEnds` |
| `client` | two orders and 20 points; two extensions of a rental with and without overlap; one phone with two codes and two documents; two tabs of each program; tariffs of one and three days, two tables of markups, clients one hour behind Moscow and nine ahead | `PointsAccounted`, `EndIsPaidFor`, `PaidExtensionSettles`, `ApprovedIsReviewed`, `GuessesBounded`, `SignedOutForAReason`, `PriceAgrees` |
| `staff` | a widget and a panel on two workers; four subscribers in two messengers; three pictures and two addresses; two cards; three lockers with four cells and four units | `LiveMessageShown`, `TypedIsKept`, `PingPerBurst`, `ToldExactlyOnce`, `NewestStartWins`, `FormsGuarded`, `EditsKept`, `HiresKeepPlace` |

Every run but `pay_serial`, `queue_overlap` and `queue_progress` checks the types of its
components too. Every property has a mutant in `PROJECT.json`: a plausible
bug in one mapped definition, under which the same run finds it violated.

Four runs state what a comment of the code says and find it violated; their
counterexamples are short and worth reading.

| run | what happens |
|---|---|
| `cancel_keeps_money` | The client pays and cancels before the notification. The check with the provider finds the payment, but only in the session; the query for the row to refund reads the database and finds none. No failure and no overlap is needed. |
| `foreign_item` | The door event of a return is lost, the return fails at its deadline, its cell becomes VACANT, and the next client gets a code for it, with the first one's item inside. |
| `calendar_offers` | One-day rentals: the item is back and checked, somebody reserves it for later, and the day after the return is offered by the calendar and refused by the reservation. |
| `other_sum` | The client has an unpaid reservation and orders another term: the checkout shows the sum of the new one and charges that of the old one. |

### Limits the models show

The properties above are stated for the conditions under which they hold. Outside
them the models have counterexamples. Those marked with a definition can be
had from TLC: take the run of the component, with the constants named here, and
put the definition in place of its properties.

*Without row locks* (`Overlap = TRUE`, two reservations):
* The sweep loads a PENDING row, a cancellation finds it paid and refunds it, the
  sweep writes CAPTURED over REFUNDED (`SettledStays`).
* A confirm whose locker answers after a cancellation makes a rental of a
  cancelled reservation, already refunded; `open_pickup_cell` may revive a cancelled
  rental; a stale copy of a unit leaves it RESERVED for nobody (`RentalIsBacked`,
  `PickupWorks`).
* Two creations whose checks precede both inserts are given the same days
  (`NoDoubleBooking`).
* The new code for a cancelled rental lands after the next client's code and
  replaces it (`ForeignCodeKept` of `Handover`, a property, with `LastDay = 2`).
* The tick has read a rental whose code the locker forgot; the rental is cancelled
  and its code replaced; the tick writes the old code again (`CodeFollowsRental` of
  `Pickup` without its exception for `overlap`, and `overlap |-> TRUE`).

*One handler at a time:*
* The process stops between a refund and the commit of the expiry batch; the next
  tick asks for the refund again, is refused and keeps the reservation open
  (`NoSecondRefund` of `PaymentFlow`, with `"crash"` in `Faults`). It is late by
  then, and cannot become a rental: `PromiseKept` allows for it.
* A rental that is awaited beyond its days does not hold its unit
  (`reservation_handover.py:136-160`): the unit is handed to the next client and the
  code in the cell replaced, while the old rental still awaits pickup. There are two
  ways to one. A one-day rental that nobody collects has its deadline at its planned end
  (`reservation_handover.py:260`); a rental by the hour ends before the window of its
  pickup. And a request may name a start whose whole term is over, from a page left
  open or a request sent again: `create_reservation` compares `startAt` with no clock
  (`reservation.py:362`), nor does `confirm_reservation`, where it goes before
  `pickup_at` (`reservation.py:678`), so the planned end of a new rental of any term is
  past when it is made. `OneUnfinishedRental` and `PickupWorks` are therefore stated for
  behaviours that stay `WithinDays`; the invariants `OneRental` and `ItemAwaits` have
  counterexamples in `queue_serial`, by the second way, and in `queue_progress`, by either.
* Two returns started at once: the cell of each is chosen by a query
  (`rental_return_flow.py:248`) and taken by an insert after the locker's answer (308,
  347), with no lock and no unique constraint between. Both may be given one cell, and the
  code of the second replaces that of the first. `OneReturnPerCell` says that a cell is
  promised twice in no other way; `OwnDoor` excepts the two returns, whose door is the same.
* A reservation has two links, and the second is paid while a cancellation gives
  back the first: the reservation closes with the money of the second. And a refund that
  was carried out, but whose answer is lost, leaves a row that looks paid, so that
  the reservation may still become a rental (`KeepsPromise` of `PaymentFlow`, with
  two links of one reservation, or with `"lost"` in `Faults`).
* An operator's correction of points compares the balance without the lock that
  `apply_bonus_spend` takes, and the balance goes below zero when points are
  spent beside it (`BalanceNotNegative` of `BonusLedger`, with `"adjust"` in `Racing`).
* What an operator does to a rental and its unit while a return waits for its
  locker, or anybody behind the tick, is written over when the answer comes, and
  the unit of a live rental may be put on offer (`LiveRentalKeepsUnit` of
  `Returns`, with `shared`).
* A client with two documents: the first was rejected, the second is under review.
  The client deletes the first and the account goes back to DRAFT; deletes the second, whose
  handler reads DRAFT and so leaves the account alone at its commit; before that commit the
  review approves the second. The account stays APPROVED with no document
  (`ApprovedIsReviewed` of `Account` is stated for one document, or for reviews
  that run alone).
* A messenger that took a text before the connection broke is sent it again by
  the fallback (`ToldExactlyOnce` of `StaffBots`, with `"cut"` in `Replies`).
* A code the locker forgets is written again only for a rental that is not collected
  yet, in a cell not opened since: a client who confirmed the pickup at home, before
  opening the cell, and one whose cell an operator tested meanwhile, are left with
  a code the keypad does not accept. `test_open_cell` writes the status of the
  cell and `last_opened_at`, though its docstring says it changes no status
  (`admin/inventory.py:877-881`). A reset of a code that fails is not retried.
* A cell opened several times counts from the first time for
  `auto_confirm_opened_pickups`, not from the last as its comment says
  (`rental_auto_pickup.py:49-51`): only the first opening writes an event.
* A locker that does not answer: the rollback after its failure expires the rows
  the sweep still needs, reading the next one fails, and every sweep ends before
  the lockers that work (`ReadyIsHandedOver` with two units, one in `Broken`).

*Screens and sessions:*
* The widget opens its socket while its first page is under way, and the page replaces
  the list (`SupportWidget.tsx:120,135`): a message stored and pushed after the page
  was read and before it arrives is wiped, and seen at the next page only. A message on
  its way when a socket breaks is lost if the reconciliation does not bring it: it adds
  what is newer than the newest message shown when it arrives, so a live event before
  it hides what was missed, and a message stored after its page was read and before the
  socket was registered is in neither. `LiveMessageShown` promises that what is shown
  stays, and what was pushed to a socket that did not break arrives.
* While Redis is down nothing is pushed from one worker to the other; a screen
  sees such a message at its next reconnect or page only (`LiveMessageShown`
  leaves them out).
* A text whose answer is lost is retried and stored twice; nothing tells the two
  apart. `TypedIsKept` says that it is not lost.
* A login that has compared the old password commits its session after the change
  has revoked the others (`PasswordChangeSignsOut` of `SignedIn`, an invariant).
* Confirmations of a code that overlap read the same counter, and judge more
  guesses than `MAX_ATTEMPTS`: `GuessesBounded` is about one at a time.

*Catalogue and fleet:*
* Two edits of one card that overlap: the second writes a list of marks without
  the mark of the first, and the next deploy takes that field back.
* An edit that commits after a deploy's query of the row and before its UPDATE, which
  waits for the next query (`apply_catalog_bundle.py:440`, flushed at 459 or later), is
  overwritten: the deploy has read the row without its mark. `EditsKept` leaves these
  behaviours out (`"outside"`); from the UPDATE on the row is locked, and an edit beside
  the rest of the deploy is kept.
* A gallery that is changed while a deploy runs is replaced by the deploy, whose
  query of the marks is older.
* A unit of the bundle (it has a barcode) that operators moved to another locker and
  that somebody rented is put back into its first cell as AVAILABLE by the next
  deploy (`RentedStaysOut` of `Fleet`, an invariant). `_preflight_guard` stops such a
  deploy, but `deploy.sh` passes `--force`, which skips it.
* A unit of the bundle without a barcode is found by its cell only; once it has
  been moved, a deploy makes another one, contrary to `deploy.sh:87-88` («без
  дублей»).
* A tick that hears from a locker, and any event with its serial, sets it ONLINE
  (`esi_reconcile.py:337`, `esi_webhook_handler.py:309-310`), also when an operator
  has just set it to OFFLINE or MAINTENANCE. It is what the tick is for;
  the code does not say for how long a locker that was switched off stays off,
  and no property does.

### Bounds

* Two reservations let one be ahead of, replace or share a batch with another;
  two links let one be paid late or both be paid. A third one repeats the
  same relations: every guard of the code relates at most two of them.
* One request beside the scheduler gives every pair of interleaved handlers that
  includes a scheduler; `queue_overlap` has two requests, and one reservation:
  `CancelledIsRefunded` is about the races over one row, and is proved for any number.
* `MaxFaults` of one or two: a failure, its retry, and one more failure.
* `LastDay = 2` with two-day rentals: three days to begin on, of which two may be over or
  still to come, a return, and the next booking beside it.
* `returns`: two returns compete for two cells, one after the other or at once, which
  is where a wrong choice shows; the third rental is the next client of a unit whose earlier return is
  still under way.
* `client`: two orders because points spent on one are missing for the other;
  `Batch = 1` for the 50 rows of the sweep, so that the second payment is beyond
  the limit; `MaxTries = 2` for the attempts of a code; two tabs, since a third
  does to the second what the second does to the first.
* `staff`: the page of a conversation holds one message (`PageLimit`), a cooldown
  is two hours, two uploads fail before the bots give up (`UploadLimit`), tables
  of forms hold one address and two pictures. The limits are reached, which
  is all they are for.
* The `Small...` definitions in the MC modules list the scenarios of a run.

### Fairness

* `FairSpec` of `PaymentFlow`: weak fairness of the maintenance thread's steps.
  The thread loops for ever and each HTTP call to the provider has a timeout.
* `QueueSpec`, and `FairSpec` of `Handover`: with handlers one at a time the
  scheduler is enabled again and again, not always; strong fairness says that
  the event loop serves it in turn. Calls of requests end (weak fairness).
* `ExtFairness`: the two threads of `Extension` run until the process ends,
  handlers finish, a link is paid or runs out (YooKassa ends unpaid links), and
  the clock ticks.
* `PickupFairness` and `ReturnsFairness`: the tick of `esi_reconcile_worker` runs
  every minute, a started handler ends, and a deadline passes.
* Nothing is assumed of clients, notifications or door events.
* Failures are bounded, so a refund is not refused for ever.

## 4. What is proved

All theorems hold for any values of the constants within the named assumptions of
the modules: any number of clients, rows, links, requests and failures, any
order of steps. Where a theorem needs more, the hypothesis is in its statement,
and section 3 says what happens without it. Every invariant was first checked by
TLC on the instances of the runs.

**Payments** (`PaymentFlowProofs`), with and without overlap:
`AlwaysGrounded` (`Spec => []IInv`), `TypeCorrect`, `PaidBacked` (`PaidIsBacked`),
`ReturnedTrue` (`ReturnedIsTrue`). `PaidIsBacked` is not inductive: a handler that
holds AUTHORIZED in its session may write PAYMENT_AUTHORIZED long after it read.
`IInv` therefore also says, of every session, that each status it holds and each
attribute it is going to write is grounded at the provider: a copy that looks paid
belongs to a link that was paid, a row it marks returned was given back. What makes
it inductive is that `notices` and `returned` only grow, so a copy that was grounded
when taken stays so however stale it becomes.

With handlers one at a time (`Serially`):

* `SettledRowsStay` (`SettledStays`), for any links and all failures. `InTurn`: at most
  one session is active, its copy of a row is the committed one unless it changed
  the row itself, by the rule; and notices, status at the provider and money
  given back tell one story of each link.
* `PromiseKept`: the refinement of `MoneyPromise` (`KeepsPromise`), with one link for
  each reservation and no answer to a refund lost. The promise speaks of
  committed rows, while an expiry batch refunds several reservations before its
  commit. `Books` therefore says what the database would hold if the active
  session committed now: who awaits payment has no paid row, who is paid has
  the row and the money, or is late with the money back (a restart in the middle
  of a batch leaves it so). Then `Permitted` says of each reservation that its
  step is one of the promise, and `PromiseMoves` that this is `Promise!Next`.

**Queue, pickup, calendar** (`HandoverProofs`), with and without overlap:
`HandoverAlways`, `HandoverTypes`, `CancelledRefunded` (`CancelledIsRefunded`), and
`CalendarKeepsItsWord` (`CalendarHonest`). `CancelledIsRefunded` is not inductive,
because two functions close a rental without a refund when no payment of it looks
paid. That is right only if the money is on its way back already, so `IInv` says
that a rental exists only for a reservation that was paid, and that what was
booked, paid or rented is never undone (`Grows`). Each session carries what its
next write needs (`Carries`), and by `Grows` these facts survive any other
handler's steps (`CarriesStays`). `CalendarHonest` follows from the types alone: it
compares two readings of the same rows, whatever these are.

With handlers one at a time, for any term and any dates: `RentersHavePaid`
(`RentalIsBacked`), `BookingsShareNoDay` (`NoDoubleBooking`); and, in the
behaviours in which no rental is awaited beyond its days (`[]WithinDays`, part of the two
properties), `OneRentalPerUnit` (`OneUnfinishedRental`) and `CodeOpensTheCell`
(`PickupWorks`). One invariant serves all four, `InTurn(within)`: what a session checked
before its call is still so at the answer (`SessionsFit`), an unfinished rental is that
of a confirmed reservation, its money is there unless the batch under way gave
it back (`MoneyFits`), and live bookings of a unit lie apart (`BookedApart`);
`InTurn(TRUE)` adds that rental, unit, cell and code agree and a unit has one unfinished
rental (`CellsFit`), for which each step is looked at with `WithinDays` before and after it.

**Returns** (`ReturnsProofs`, no hypotheses): `CellPromisedOnce` (`OneReturnPerCell`),
`EventClosesItsVisit` (`OwnDoor`), `UnitStaysWithItsRental` (`LiveRentalKeepsUnit`).
`Custody` says that an open return has its cell to itself, but for returns started beside
it: a started return may have missed the requests that came after its choice and no
others (`Chosen`), and a live request is the newest on its cell, or the newer ones are
beside it (`Accepts`). What a started return and the tick hold of a rental is what the
rows say, and a door that is open, and every event under way, belongs to a visit of a
return. `ReturnReportProofs`:
`RentalsAreReportedOnce` without hypotheses, `PhotosProveOneReturn` (`OneReport`) for
a client who confirms one rental at a time, from `Told`: what a tab that holds the
rental's lock has counted is still the number of reports.

**Pickup** (also `ReturnsProofs`, no hypotheses): `CancelledCodeIsGone` states
`ForgottenCode`, the safety half of `CodeFollowsRental`. By `InHand` the item waits
for one client at most, what a request or the tick has seen of that client is still
so, and nobody waits while a reset writes its code. `ForgottenCode` leaves out
behaviours in which handlers may overlap (`left.overlap`); the proof shows that in
the others no reset is ever skipped. `PickupsAreTyped` adds the rest
of the types (`Visited`): the cell, the newest rental the tick knew of, and the
events, of which no more are under way than the bound allows.

**All of it at the door** (`ReturnReportProofs`, no hypotheses): `AtDoorAlways` states
`ReturnTypes`, the types of the three components of `MCReturns`, with the two
properties of `Returns` above; a component that is not in focus stays as it began.

**What belongs to a client.** `BonusLedgerProofs`: `BalanceCovered` when corrections
run alone, from `Covered`: at most one session has a spend that is not committed (the
lock), and the balance covers it; `PointsAreAccounted` (`PointsAccounted`) with one
attempt to pay an order at a time and nothing but payments and returns racing, from
`Agreed`: what each session has read of its order is what the ledger says, so that
its commit adds up. `AccountProofs`: `CodeIsBounded` (`GuessesBounded`) and
`ApprovedWasReviewed` (`ApprovedIsReviewed`), whose conditions are in the
properties; `Sound` counts for each code the guesses under way, and for each handler
of a document relates the standing it read to the rows it is going to leave. Also
there, with no hypotheses, `StaleTokensAreRefreshed` (`SignedOutForAReason`, an action
property, and `TabTypeOK`): `Signed` says that what a request under way was answered stays true
while the answer travels, since a session that is over never becomes live again.
`BonusLedgerProofs` also has `ShownIsCharged` (`PriceAgrees`), for any tariffs,
markups and terms: `Priced` says that whatever is held and not outdated by an edit
is what the tariffs give, `RoundedAlike` that `Math.round` and the server's rounding agree
(they do because the steps are even), and `SameDay` that the midnight the client
means is the one nearest to it in Moscow. The hypothesis is that the client is from
eleven hours behind Moscow to twelve hours ahead; for one in Hawaii the server
takes the next day. No tariff is negative: those of a filter are refused, and the
bundle has none. `NoNegativeSum` (`PricingTypeOK`, no hypotheses): no sum shown, reserved or
charged is negative, and every choice of dates is a whole number of days. Markups may be
discounts, down to the -50 % the panel accepts (`PricingAssumption`); since the days of the
week of a term add up to its days (`DaysCount`), at least half of the price is left
(`HalfIsLeft`).

`DaysArePaidFor` (`EndIsPaidFor`, `ExtTypeOK`, no hypotheses) is in `BonusLedgerProofs` as
well. `EndIsPaidFor` gives each day beyond the first end of a rental to one of the
payments applied, none more days than its term has. Settlements that overlap write an
end computed from a copy, so what is inductive is about the copies: by `Grounded` the
end a handler has read is shared out among the payments applied *without its own*,
unless it found its own settled. Then its commit needs no more than its own term for the
days it adds, whatever was committed in between, and the payments of days that are
overwritten keep nothing. With handlers one at a time (`InTurn`) the copy is the row and the
sum is exact.

`ClientAlways`, in `AccountProofs`, is about `MCClient` as a whole: `ClientTypes` and
all the safety properties of the run `client`, for any sizes, with the hypotheses of
`PointsAreAccounted` and `ShownIsCharged`, which the other parts do not need.

**Staff and deploys** (`ChatProofs`, `StaffProofs`):

* `TextsAreKept` (`TypedIsKept`), `LiveMessagesArrive` (`LiveMessageShown`): `Chat` says
  that a text is on a screen or in a stored message, that a screen which is owed a
  message (`due`) shows it already or is in the hub with its conversation chosen, and
  that a number (`seq`) is drawn once. A first page takes what it wipes off `due`
  (`Unwiped`), and no other page or event takes anything off a screen. `BurstsAreAnnounced` (`PingPerBurst`):
  by `Announced`, a client's message that no ping covers either is old enough now, or
  a handler that saw an earlier message or none has not ended and will send one.
* `NothingShownUnstored` (`ChatTypeOK`, no hypotheses): what a screen shows or is due, a page
  answers and the bus carries is the number of a stored message (`Reaches`). It needs
  that numbers and rows of texts are given once (`Given`, `Distinct`), and that a row
  is not taken back.
* `LinksAreNewest` (`NewestStartWins`) is inductive with the types, since a resync
  replaces no link. `NobodyToldTwice`
  (`ToldExactlyOnce`) when no connection breaks after the text was taken: who
  waits for an attempt has not been told (`Untold`).
* `DeploysKeepEdits` (`EditsKept`), no hypotheses beyond what the property names. `Tended`
  says of a deploy under way that a text it is going to write has no mark in the row,
  unless edits may commit between its query and its UPDATE; and that an edit
  writes the marks it read and its own.
* `HiresStayHoused` (`HiresKeepPlace`), no hypotheses. `Housed`: the rows of a
  reservation or rental exist; the item of a rental that is out has a movement
  naming a cell that exists, and no deletion under way has read that cell; a
  cell holds one item. What is booked while a deletion is under way refers to
  rows the foreign keys protect.
* `FormsStayGuarded` (`FormsGuarded`, `FormTypeOK`, no hypotheses), in `ChatProofs`. A limiter
  counts what it still holds, the property what was admitted. `Remembers` says that
  what it has dropped is older than the window, at any later time too; so two requests
  of which the second is a whole limit after the first are more than a window apart
  (`Spread`), and a window holds no more than the limit. By `PicturesSpent` a picture that was
  judged is in the list or has expired, which needs the entry of its last
  second to stay.
* `StaffAlways`, in `StaffProofs`, is about `MCStaff` as a whole, no hypotheses: `StaffTypes` and
  the safety properties of the run `staff` but `ToldExactlyOnce`. The types of the bots are
  proved anew for it, without the condition of `NobodyToldTwice`: `Counts` says that
  media accepted by MAX and photos left never exceed those of the message.

Proving changed the models, too. `LiveRentalKeepsUnit`, `ApprovedIsReviewed`,
`EditsKept` and `HiresKeepPlace` had held only through small bounds; the invariant
that would not go through showed the case, which is now either in the model or a
named condition (section 3).

Only model-checked:

* Liveness and everything under fairness (`PaymentNoticed`, `DeadlineResolved`,
  `ReadyIsHandedOver`, `UncollectedEnds`, `ReturnEnds`, `PaidExtensionSettles`, and the
  liveness half of `CodeFollowsRental`): out of this prover's reach, as is ENABLED.

## 5. Plan

Done: the modules of section 2 and the proofs of section 4. Next, in this order:

1. An abstract `Custody` of an item (in its cell, promised, with a client, to be
   checked) that `Handover` and `Returns` implement.
2. Models: the rescheduling of a reservation.

## 6. Not modelled

* Rendering, forms, lists, statistics, exports: no state that anything
  else depends on.
* Uploads of files and their storage; mail and SMS: single calls whose failure is an
  answer.
* Signing of requests, hashing of passwords and codes, tokens: values of libraries.
* Migrations, seeds and one-off import scripts: run once, by hand, against a
  stopped or an empty system.
* Discovery of lockers at ESI, and the scope of a franchise in the admin
  panel: filters on queries.
* Guest reservations are refused by the code itself (401).
* The mobile app beyond its tokens: it calls the routes of the site.
